\* Four events, one without a handler and one repeated, two retries, a budget of two, three faults.
SPECIFICATION FairSpec
CONSTANTS
    e1 = e1
    e2 = e2
    other = other
    Ids <- Events
    Known <- Handled
    Log <- Partition
    MaxRetries = 2
    BudgetCapacity = 2
    MaxFaults = 3
\* At the end of the log the loop waits for messages.
CHECK_DEADLOCK FALSE
INVARIANTS
    IInv
    CommittedIsSettled
    EffectsBounded
PROPERTIES
    DeadLetteredIsExhausted
    ShutdownEnds
