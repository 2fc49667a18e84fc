SPECIFICATION McSpec
CONSTANTS
    Conns = {c1, c2, c3, c4}
    Opener = c1
    MaxClients = 4
    MaxConnections = 3
    MaxThreads = 2
    IdleTimeout = TRUE
    SrvFaults = 1
    Offers = {0, 1, 3}
    Implemented = {0, 1, 2}
    Entries = {"r34", "a13", "aosp", "fd"}
    MaxConns = 2
    MaxHsCalls = 2
    MaxUpsets = 1
    LateFdMode = TRUE
CHECK_DEADLOCK FALSE
INVARIANTS
    HandshakeAgrees
PROPERTIES
    LifecycleSafe
    EventuallyDead
    ServerSafe
    BacklogDrains
    ShutdownEnds
    SetupEnds
