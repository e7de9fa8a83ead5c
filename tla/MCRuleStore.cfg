\* Two requests at a time, two in all, and a crash at any point.  The engine
\* blocks and cleans the address the requests blacklist.
SPECIFICATION WatchedSpec
CONSTANTS
    country = country
    addr = addr
    friend = friend
    h1 = h1
    h2 = h2
    r1 = r1
    r2 = r2
    r3 = r3
    Cidrs = {r1, r2, r3}
    Targets = {country, addr, friend}
    CidrsOf <- MCCidrsOf
    NameOf <- MCNameOf
    NoTarget = NoTarget
    Handlers = {h1, h2}
    Engine = Engine
    Free = Free
    BlackTargets = {addr}
    WhiteTargets = {friend}
    AttackSources = {r1}
    EarlierFiles <- MCEarlierFiles
    MaxRequests = 2
    MaxCrashes = 1
INVARIANTS
    TypeOK
    FileCurrent
    
PROPERTIES
    
    WatchedRequestAnswered
CHECK_DEADLOCK FALSE
