SPECIFICATION Spec
CONSTANTS
    r1 = r1
    r2 = r2
    NoUdp = NoUdp
    Remotes = {r1, r2}
    UdpRuns <- UdpScenarios
    Gens = 2
    MaxPayload = 2
    MaxPeers = 1
    AcceptCap = 1
    RecvCap = 1
CHECK_DEADLOCK FALSE
INVARIANTS
    SocketFollowsPipes
PROPERTIES
    SilenceEndsPipe
    UdpIsEndpoint
