SPECIFICATION FairSpec
CONSTANTS
    BufferSize = 2
    MaxBytes = 3
    MaxTime = 3
INVARIANTS
    TypeOK
    CompleteOnSuccess
    NothingHeldBack
    TimeAccounted
PROPERTIES
    HandlerEnds
\* A request that has returned is over, and the upstream may fall silent.
CHECK_DEADLOCK FALSE
