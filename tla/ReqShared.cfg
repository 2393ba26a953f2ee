SPECIFICATION Spec
CONSTANTS
    d = d
    c1 = c1
    t1 = t1
    t2 = t2
    p1 = p1
    p2 = p2
    Contexts = {d}
    Default = d
    Callers = {t1, t2}
    Uses <- Shared
    Pipes = {p1}
    MaxID = 2
    Retry = {d}
    BestEffort = {}
    FailNoPeers = {}
    SendExpire <- Never
    ReceiveExpire <- Never
    NoContext = NoContext
    NoPipe = NoPipe
SYMMETRY PipeSymmetry
INVARIANTS
    RepliesMatch
CHECK_DEADLOCK FALSE
