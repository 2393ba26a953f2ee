CONSTANTS
    Pipes = {p1, p2, p3}
    Dialers = {d1}
    Listeners = {l1}
    AsynchDialers = {d1}
    Closers = {c1}
    Hooks = {TRUE, FALSE}
    IdSpace = 3
    ReconnMin = 2
    ReconnMax = 4
    BackoffOnClose = TRUE
    NoEndpoint = NoEndpoint
SPECIFICATION Spec
SYMMETRY PipeSymmetry
CONSTRAINT OneEndpoint
CHECK_DEADLOCK FALSE
INVARIANTS
    PipeIDsExclusive
    OneConnectionPerDialer
    ClosedSocketClosesPipes
PROPERTIES
    RemoveAfterTransportClose
