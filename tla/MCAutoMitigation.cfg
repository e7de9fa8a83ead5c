\* The hold times of the source; every level can be demanded.
SPECIFICATION FairSpec
CONSTANTS
    Measurements <- MCMeasurements
    WarmupCycles = 3
    SurvivalHold = 30
    PromoteHold = 5
    DemoteHold = 30
    RecoveryHold = 60
INVARIANTS
    TypeOK
    SurvivalKept
    ReactionBounded
    HoldBounded
    
PROPERTY
    Converges
