SPECIFICATION Spec
CONSTANTS
    d = d
    c1 = c1
    t1 = t1
    t2 = t2
    p1 = p1
    p2 = p2
    Contexts = {d, c1}
    Default = d
    Callers = {t1, t2}
    Uses <- OneCallerEach
    Pipes = {p1, p2}
    MaxID = 2
    Retry = {d}
    BestEffort = {d}
    FailNoPeers = {}
    SendExpire <- OtherDeadline
    ReceiveExpire <- DefaultElseAtOnce
    NoContext = NoContext
    NoPipe = NoPipe
SYMMETRY PipeSymmetry
CHECK_DEADLOCK FALSE
INVARIANTS
    RepliesMatch
    QueuesSound
    IndexExact
    NotForgotten
    SentToOnePeer
    NoLostWakeup
