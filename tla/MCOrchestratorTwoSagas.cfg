\* Two sagas that share the threads and the worker's list; one fault of any kind.
SPECIFICATION FairSpec
CONSTANTS
    s1 = s1
    s2 = s2
    commands = commands
    payments = payments
    inventory = inventory
    worker = worker
    Sagas <- TwoSagas
    CommandConsumers <- OneCommandConsumer
    PaymentConsumers <- OnePaymentConsumer
    InventoryConsumers <- OneInventoryConsumer
    Workers <- OneWorker
    MaxRetries = 0
    MaxFaults = 1
\* When every saga is settled the orchestrator is idle.
CHECK_DEADLOCK FALSE
INVARIANT
    NoLostUpdate
PROPERTY
    SagasSettle
