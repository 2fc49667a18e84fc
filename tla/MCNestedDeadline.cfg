SPECIFICATION Spec
CONSTANTS
    Calls = {c1, c2, c3}
    Oneway = {}
    Initiators = {"client"}
    Outer = {c1, c2, c3}
    Inner = {c1, c2, c3}
    Timed = {c1, c2, c3}
    MaxDepth = 6
    None = None
CHECK_DEADLOCK FALSE
INVARIANTS
    OwnReply
