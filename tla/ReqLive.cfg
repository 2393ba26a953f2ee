SPECIFICATION FairSpec
CONSTANTS
    d = d
    c1 = c1
    t1 = t1
    t2 = t2
    p1 = p1
    p2 = p2
    Contexts = {d, c1}
    Default = d
    Callers = {t1, t2}
    Uses <- OneCallerEach
    Pipes = {p1}
    MaxID = 2
    Retry = {d}
    BestEffort = {}
    FailNoPeers = {}
    SendExpire <- DefaultDeadline
    ReceiveExpire <- DefaultDeadline
    NoContext = NoContext
    NoPipe = NoPipe
CHECK_DEADLOCK FALSE
PROPERTIES
    CallsReturn
    QueuedIsServed
