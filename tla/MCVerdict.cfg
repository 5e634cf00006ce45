SPECIFICATION Spec
CONSTANT
    Now = 2
INVARIANT
    FailedIsRejected
CHECK_DEADLOCK FALSE
