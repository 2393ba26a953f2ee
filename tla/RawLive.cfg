SPECIFICATION FairSpec
CONSTANTS
    p1 = p1
    p2 = p2
    a = a
    b = b
    Pipes = {p1}
    Callers = {a, b}
    NoMsg = NoMsg
    MaxSets = 1
    MaxTTL = 2
    HopMax = 3
    Scenarios <- Live1
PROPERTIES
    CloseReleases
    RecvProgress
CHECK_DEADLOCK FALSE
