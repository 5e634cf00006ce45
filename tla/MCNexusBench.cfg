SPECIFICATION Spec
CONSTANTS
    Workers = {w1, w2}
    Nobody = nobody
    FastTimes = {0}
    SlowTimes = {3, 4}
    Rank = 75
    MaxRequests = 4
    Window = 2
    Dims = 3
    ExactNum = 99
    ExactDen = 100
    Prompts <- MCPrompts
    StoreNum = 85
    StoreDen = 100
    Thresholds <- MCThresholds
    MinSemantic = 80
    MaxFalse = 333
    MaxQueries = 5
INVARIANTS
    TypeOK
    EverySampleCounts
    FiguresAreExact
    MatchIsBest
    NoNearDuplicates
    ChosenPointIsReported
    LowestWorkingPoint
PROPERTIES
    LoadTestReturns
\* The bench ends.
CHECK_DEADLOCK FALSE
