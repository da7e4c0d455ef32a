\* One saga, every interleaving of the four threads, calls that fail and crashes.
SPECIFICATION Spec
CONSTANTS
    s1 = s1
    s2 = s2
    commands = commands
    payments = payments
    inventory = inventory
    worker = worker
    Sagas <- OneSaga
    CommandConsumers <- OneCommandConsumer
    PaymentConsumers <- OnePaymentConsumer
    InventoryConsumers <- OneInventoryConsumer
    Workers <- OneWorker
    MaxRetries = 2
    MaxFaults = 2
\* When every saga is settled the orchestrator is idle.
CHECK_DEADLOCK FALSE
INVARIANTS
    IInv
    PublishedAfterPersist
    NoLostUpdate
    OneOutcome
    OnePathPerSaga
    CompletionIsEarned
    HistoryIsPersisted
    DiagramComplete
    PendingHasDeadline
    MessagesBounded
PROPERTY
    TimeoutAfterRetries
