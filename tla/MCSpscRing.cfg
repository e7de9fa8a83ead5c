\* Indices of 3 bits over 4 slots: the full test is exercised on both sides of
\* the wrap-around of the indices.
SPECIFICATION Spec
CONSTANTS
    Size = 4
    Wrap = 8
    Values = {d1, d2}
    NoValue = none
INVARIANTS
    TypeOK
    NoDataRace
PROPERTY
    ImplementsFifo
CHECK_DEADLOCK TRUE
