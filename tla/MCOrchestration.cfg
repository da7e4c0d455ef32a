\* One order, the worker with one retry; one fault, or time running out twice.
SPECIFICATION SpecApart
CONSTANTS
    o1 = o1
    worker = worker
    Orders <- OneOrder
    Workers <- OneWorker
    MaxRetries = 1
    HandlerRetries = 1
    FaultKinds <- AllFaults
    MaxFaults = 1
\* When every order is decided the services wait for messages.
CHECK_DEADLOCK FALSE
INVARIANTS
    IInv
    AnswersAreSolicited
    OrderAgreesWithSaga
    ConfirmedIsPaid
    LeaksNeedTimeouts
PROPERTIES
    ImplementsOrderSaga
