SPECIFICATION KernelSpec
CONSTANTS
    Refs = {r1, r2, r3}
    INITIAL_STRONG_VALUE = 268435456
    CacheThreads = {t1, t2}
    Loopers = {t2}
    MaxDeliveries = 3
    MaxLinks = 2
    CacheFaults = 1
    Reregisters = FALSE
    PubThreads = {t1, t2}
    MaxPublished = 3
    MaxSends = 2
    MaxAttempts = 1
    Senders <- KcSenders
    SelfPid = 1
    IdBits = 4
    MaxFrames = 3
    MaxTransacts = 2
    MaxIncoming = 2
    MaxClears = 1
    MixedDispatch = FALSE
    PeerDeaths = 1
    PoolThreads = {p1, p2, p3, p4}
    MaxLoopers = 2
    LateStart = FALSE
    PoolFaults = 2
    CountThreads = {t1, t2}
    MaxProxies = 6
    CountHigh = 5
    CountLow = 2
    CountWarning = 4
    MaxToggles = 2
CHECK_DEADLOCK FALSE
INVARIANTS
    HandleRefsKept
    DeathsReported
    PublishedWhileNeeded
    CallsKeptApart
    PoolAsRequested
PROPERTIES
    CounterSafe
    Unwinds
    CountingSafe
