\* One DLQ write fails, the next message is committed.
SPECIFICATION Spec
CONSTANTS
    a = a
    b = b
    Ids <- TwoIds
    Log <- RepeatedLog
    MaxRetries = 1
    BudgetCapacity = 1
    MaxFaults = 1
CHECK_DEADLOCK FALSE
INVARIANT
    LeftBehindIsRetried
