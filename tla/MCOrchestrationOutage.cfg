\* One order, the worker, and one outage outside the orchestrator.
SPECIFICATION FairSpec
CONSTANTS
    o1 = o1
    worker = worker
    Orders <- OneOrder
    Workers <- OneWorker
    MaxRetries = 0
    HandlerRetries = 0
    FaultKinds <- OutageFaults
    MaxFaults = 1
\* When every order is decided the services wait for messages.
CHECK_DEADLOCK FALSE
PROPERTIES
    StartedIsDecided
