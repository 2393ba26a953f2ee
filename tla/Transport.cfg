SPECIFICATION Spec
CONSTANTS
    c1 = c1
    c2 = c2
    l1 = l1
    l2 = l2
    k1 = k1
    k2 = k2
    NoStream = NoStream
    Streams = {c1, c2}
    StreamRuns <- StreamScenarios
    NoDoor = NoDoor
    Doors = {l1, l2}
    Clients = {k1, k2}
    InprocRuns <- InprocScenarios
CHECK_DEADLOCK FALSE
INVARIANTS
    EstablishedUnaffected
    PairsExact
PROPERTIES
    SlowPeerHoldsUpNobody
    LoopsEnd
    StreamIsEndpoint
    DialReturns
    InprocIsEndpoint
