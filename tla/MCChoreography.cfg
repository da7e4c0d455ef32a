\* One order and one fault of any kind, which one retry outlasts.
SPECIFICATION FairSpec
CONSTANTS
    o1 = o1
    Orders <- OneOrder
    MaxRetries = 1
    FaultKinds <- AllFaults
    MaxFaults = 1
\* When every order is decided the services wait for messages.
CHECK_DEADLOCK FALSE
INVARIANTS
    IInv
    EventsAreCaused
    RepetitionBounded
    LeftoversBounded
PROPERTIES
    MindChangesNeedRepetition
    ImplementsOrderSaga
    PublishedIsDecided
