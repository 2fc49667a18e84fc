SPECIFICATION Spec
CONSTANTS
    Calls = {c1, c2, c3}
    Oneway = {}
    Initiators = {"client", "server"}
    Outer = {c1, c2, c3}
    Inner = {c1, c2, c3}
    Timed = {}
    MaxDepth = 6
    None = None
CHECK_DEADLOCK FALSE
INVARIANTS
    OwnReply
