\* One saga under the fairness of the process, with fewer faults than retries.
SPECIFICATION FairSpec
CONSTANTS
    s1 = s1
    s2 = s2
    commands = commands
    payments = payments
    inventory = inventory
    worker = worker
    Sagas <- OneSaga
    CommandConsumers <- OneCommandConsumer
    PaymentConsumers <- OnePaymentConsumer
    InventoryConsumers <- OneInventoryConsumer
    Workers <- OneWorker
    MaxRetries = 2
    MaxFaults = 1
\* When every saga is settled the orchestrator is idle.
CHECK_DEADLOCK FALSE
PROPERTIES
    LostStartIsRetried
    ImplementsLiveLifecycle
