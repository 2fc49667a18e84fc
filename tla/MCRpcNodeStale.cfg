SPECIFICATION Spec
SYMMETRY Symmetry
CONSTANTS
    Sends = {s1, s2}
    Object = o1
    Calls = {c1, c2, c3, c4}
    Conns = {k1}
    TodoLimit = 3
    None = None
CHECK_DEADLOCK FALSE
INVARIANTS
    SingleStaleDrop
