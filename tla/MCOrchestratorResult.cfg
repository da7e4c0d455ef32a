\* events.go says a result is sent when a saga reaches a terminal state; one fault refutes it.
SPECIFICATION FairSpec
CONSTANTS
    s1 = s1
    s2 = s2
    commands = commands
    payments = payments
    inventory = inventory
    worker = worker
    Sagas <- OneSaga
    CommandConsumers <- OneCommandConsumer
    PaymentConsumers <- OnePaymentConsumer
    InventoryConsumers <- OneInventoryConsumer
    Workers <- OneWorker
    MaxRetries = 1
    MaxFaults = 1
CHECK_DEADLOCK FALSE
PROPERTY
    ResultIsSent
