SPECIFICATION FairSpec
CONSTANTS
    c1 = c1
    c2 = c2
    Callers <- MCCallers
    Window = 4
    BucketSize = 2
    MinRequests = 2
    Cooldown = 2
    ThresholdNum = 1
    ThresholdDen = 2
    MaxTime <- MCMaxTime
    MaxOutcomes = 4
INVARIANTS
    TypeOK
    SingleTrial
    NoAdmissionInCooldown
    BucketsBounded
PROPERTIES
    HalfOpenResolves
    ImplementsSlidingWindow
\* The modelled clock stops at MaxTime, and nobody need call again.
CHECK_DEADLOCK FALSE
