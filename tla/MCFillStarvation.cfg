\* One packet per batch: the smallest pool in which a slow worker drains the
\* fill ring.
SPECIFICATION FairSpec
CONSTANTS
    NumFrames = 4
    RingSize = 4
    FillSize = 2
    RxSize = 2
    TxSize = 2
    Batch = 1
PROPERTY
    FillRingServed
