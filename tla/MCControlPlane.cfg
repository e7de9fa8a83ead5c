SPECIFICATION FairSpec
CONSTANTS
    r1 = r1
    r2 = r2
    vn = vn
    Requests <- MCRequests
    Codes <- MCCodes
    EarlierDisks <- MCDisks
    MaxUpdates = 1
    MaxStarts = 2
INVARIANTS TypeOK AnswerCurrent HandlesExact NoNilReader PinsOwn FilterOwn
PROPERTY RequestAnswered
CHECK_DEADLOCK FALSE
