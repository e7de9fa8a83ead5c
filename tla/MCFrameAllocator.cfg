\* Three frames: the list can be empty, partly used and full.
SPECIFICATION Spec
CONSTANTS
    NumFrames = 3
    Preloaded = 2
    Threads = {io, worker}
SYMMETRY ThreadSymmetry
INVARIANTS
    
    ExactUntilOverlap
PROPERTIES
    ImplementsStack
