SPECIFICATION Spec
CONSTANTS
    p1 = p1
    p2 = p2
    Clients <- MCClients
    CandidateLists <- MCPairLists
    Window = 2
    BucketSize = 1
    MinRequests = 2
    Cooldown = 1
    ThresholdNum = 1
    ThresholdDen = 2
    MaxTime <- MCMaxTime
    MaxCalls = 5
INVARIANTS
    HalfOpenIsTested
\* The modelled clock stops at MaxTime and the calls at MaxCalls.
CHECK_DEADLOCK FALSE
