SPECIFICATION KernelSpec
CONSTANTS
    Refs = {r1}
    INITIAL_STRONG_VALUE = 268435456
    CacheThreads = {t1, t2, t3}
    Loopers = {t2}
    MaxDeliveries = 3
    MaxLinks = 2
    CacheFaults = 0
    Reregisters = TRUE
    PubThreads = {t1, t2}
    MaxPublished = 1
    MaxSends = 0
    MaxAttempts = 1
    Senders <- KcSenders
    SelfPid = 1
    IdBits = 4
    MaxFrames = 1
    MaxTransacts = 0
    MaxIncoming = 0
    MaxClears = 1
    MixedDispatch = FALSE
    PeerDeaths = 1
    PoolThreads = {p1}
    MaxLoopers = 2
    LateStart = FALSE
    PoolFaults = 2
    CountThreads = {t1, t2}
    MaxProxies = 1
    CountHigh = 5
    CountLow = 2
    CountWarning = 4
    MaxToggles = 2
CHECK_DEADLOCK FALSE
INVARIANTS
    EntryPinned
