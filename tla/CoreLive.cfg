CONSTANTS
    Pipes = {p1}
    Dialers = {d1}
    Listeners = {l1}
    AsynchDialers = {}
    Closers = {c1}
    Hooks = {TRUE, FALSE}
    IdSpace = 2
    ReconnMin = 2
    ReconnMax = 0
    BackoffOnClose = FALSE
    NoEndpoint = NoEndpoint
SPECIFICATION FairSpec
PROPERTIES
    CloseTerminates
    DialerRedials
    AttachedPipeFreesID
CHECK_DEADLOCK FALSE
