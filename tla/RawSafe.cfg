SPECIFICATION Spec
CONSTANTS
    p1 = p1
    p2 = p2
    a = a
    b = b
    Pipes = {p1, p2}
    Callers = {a, b}
    NoMsg = NoMsg
    MaxSets = 1
    MaxTTL = 2
    HopMax = 3
    Scenarios <- Safe
CHECK_DEADLOCK FALSE
SYMMETRY Symmetry
INVARIANTS
    RefsExact
    InOrder
    OnePlace
    Routed
    HopLimit
    NoLostWakeup
