\* A limit of one packet per second on two CPUs.
SPECIFICATION Spec
CONSTANTS
    cpu1 = cpu1
    cpu2 = cpu2
    client = client
    backend = backend
    vip = vip
    local = local
    NoPacket = NoPacket
    Cpus = {cpu1, cpu2}
    Sources = {client, backend}
    Vips = {vip, local}
    Packets <- MCPackets
    Seen = {client}
    Allowed = {client}
    Blocked = {client}
    Cached = {vip}
    Tunnel <- MCTunnel
    Second = 1
    Lifetime = 1
    Tracked = 1
    MaxPps = 1
    MaxBps = 2
    MaxTime = 3
    MaxPackets = 3
    MaxChanges = 1
SYMMETRY CpuSymmetry
INVARIANTS
    TypeOK
    BarredStaysOut
    RateBounded
    
CHECK_DEADLOCK FALSE
