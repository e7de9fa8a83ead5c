SPECIFICATION FairSpec
CONSTANTS
    n1 = n1
    n2 = n2
    a1 = a1
    t1 = t1
    t2 = t2
    vip1 = vip1
    tunnel = tunnel
    direct = direct
    NoBackend = NoBackend
    Nodes <- MCNodes
    clusterNodes <- MCClusterNodes
    Addrs = {a1}
    Allowed = {t1, t2}
    Vips <- MCVips
    Ports = {80, 90}
    Backends <- MCBackends
    WireGuard <- MCWireGuard
    RouteRequests <- MCRouteRequests
    EarlierFiles <- MCFiles
    MaxChanges = 3
    MaxFaults = 1
INVARIANTS TypeOK   NoNodeLockedOut RoutesAgree 
PROPERTY EventsDrain
CHECK_DEADLOCK FALSE
