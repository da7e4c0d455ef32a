\* One order, no fault: a resend that the worker publishes late.
SPECIFICATION Spec
CONSTANTS
    o1 = o1
    worker = worker
    Orders <- OneOrder
    Workers <- OneWorker
    MaxRetries = 1
    HandlerRetries = 1
    FaultKinds <- WithoutFaults
    MaxFaults = 0
\* When every order is decided the services wait for messages.
CHECK_DEADLOCK FALSE
INVARIANTS
    CompensatedIsCancelled
