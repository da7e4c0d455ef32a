\* One publish that fails.
SPECIFICATION Spec
CONSTANTS
    o1 = o1
    Orders <- OneOrder
    MaxRetries = 1
    FaultKinds <- PublishFaults
    MaxFaults = 1
CHECK_DEADLOCK FALSE
INVARIANTS
    CancelledIsCompensated
