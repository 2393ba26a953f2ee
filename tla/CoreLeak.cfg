CONSTANTS
    Pipes = {p1}
    Dialers = {}
    Listeners = {l1}
    AsynchDialers = {}
    Closers = {}
    Hooks = {TRUE}
    IdSpace = 2
    ReconnMin = 2
    ReconnMax = 0
    BackoffOnClose = FALSE
    NoEndpoint = NoEndpoint
SPECIFICATION FairSpec
PROPERTY ClosedPipeFreesID
CHECK_DEADLOCK FALSE
