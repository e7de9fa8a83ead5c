\* The hold times of the source; the comment on leaving Recovery.
SPECIFICATION Spec
CONSTANTS
    Measurements <- MCMeasurements
    WarmupCycles = 3
    SurvivalHold = 30
    PromoteHold = 5
    DemoteHold = 30
    RecoveryHold = 60
PROPERTY
    RecoveryCancelled
