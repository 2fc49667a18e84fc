SPECIFICATION McSpec
CONSTANTS
    p1 = p1
    p2 = p2
    b1 = b1
    b2 = b2
    r1 = r1
    c1 = c1
    Procs = {p1, p2}
    UidOf <- McUid
    ProcOf <- McProc
    Registrants <- McRegistrants
    HubBinders = {b1, b2}
    RegCbs = {r1}
    CliCbs = {c1}
    SvcNames = {n1, n2, n3}
    Sought = {n1, n2}
    MaxHolders = 1
    MaxCallbacksPerName = 2
    MaxDistinctNames = 3
    AllowCrossUid = FALSE
    HubFaults = 1
    MaxHubCalls = 4
    Seekers = {1, 2}
    SvcBinders = {b1}
    Providers = {p1}
    LegacyRetries = 1
    MaxSeeks = 2
    MaxLookupOps = 2
    LazyNames = {n1, n2}
    LazyThreads = {t1, t2}
    LazyAbsent = LazyAbsent
    Sends = {s1, s2, s3}
    Objects = {o1, o2}
    AddrLimit = 2
    Nobody = Nobody
CHECK_DEADLOCK FALSE
INVARIANTS
    LookupsHonest
    RefsBalanced
PROPERTIES
    HubSafe
    WaitResolves
    ExitOnlyIdle
    EventuallyFreed
