\* Batches of 2, so that the worker can run between two allocations of a refill
\* and leave an invalid descriptor; a TX ring of 1, so that it overflows.
SPECIFICATION FairSpec
CONSTANTS
    NumFrames = 5
    RingSize = 5
    FillSize = 2
    RxSize = 2
    TxSize = 1
    Batch = 2
INVARIANTS
    FramesConserved
    NoRingOverflows
    OutstandingExact
PROPERTIES
    WatchedFrameReturns
    ImplementsStack
