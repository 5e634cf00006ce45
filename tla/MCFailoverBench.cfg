SPECIFICATION BenchSpec
CONSTANTS
    main = main
    Clients <- MCClients
    CandidateLists <- MCLists
    Window = 200
    BucketSize = 20
    MinRequests = 5
    Cooldown = 100
    ThresholdNum = 1
    ThresholdDen = 2
    MaxTime = 0
    MaxCalls = 8
    BrokenTimes <- MCBrokenTimes
    HealthyTimes <- MCHealthyTimes
    Backoffs <- MCBackoffs
    ShortestRecovery = 20
    LongestRecovery = 80
INVARIANTS
    RecoversInTime
PROPERTIES
    Recovers
\* A trial that has recovered is over.
CHECK_DEADLOCK FALSE
