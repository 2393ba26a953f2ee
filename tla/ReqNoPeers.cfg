SPECIFICATION FairSpec
CONSTANTS
    d = d
    c1 = c1
    t1 = t1
    t2 = t2
    p1 = p1
    p2 = p2
    Contexts = {d}
    Default = d
    Callers = {t1}
    Uses <- OneCaller
    Pipes = {p1, p2}
    MaxID = 2
    Retry = {}
    BestEffort = {}
    FailNoPeers = {d}
    SendExpire <- DefaultDeadline
    ReceiveExpire <- Never
    NoContext = NoContext
    NoPipe = NoPipe
PROPERTIES
    SendReturns
CHECK_DEADLOCK FALSE
