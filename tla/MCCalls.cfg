SPECIFICATION McSpec
CONSTANTS
    c1 = c1
    w1 = w1
    w2 = w2
    w3 = w3
    reaper = reaper
    Callers = {c1}
    Workers = {w1, w2, w3}
    Founder = w1
    Reaper = reaper
    MaxSlots = 3
    SlotCap = 2
    MaxNesting = 2
    Budget <- McBudget
    NoThread = NoThread
    Calls = {c1, c2, c3, c4, c5, c6}
    Oneway = {}
    Initiators = {"client"}
    Outer = {c1, c2, c3}
    Inner = {c3, c4, c5, c6}
    Timed = {c1, c2}
    MaxDepth = 6
    None = None
    MixedCalls = {c1, c2, c3, c4}
    MixedOneway = {c4}
INVARIANTS
    OwnReply
    MixedAnswersKept
PROPERTIES
    PoolSafe
    EventuallySettled
    EveryCallReturns
