\* Retries, an exhausted budget, three faults of any kind.
SPECIFICATION FairSpec
CONSTANTS
    a = a
    b = b
    Ids <- TwoIds
    Log <- RepeatedLog
    MaxRetries = 2
    BudgetCapacity = 2
    MaxFaults = 3
\* At the end of the log the consumer waits for messages.
CHECK_DEADLOCK FALSE
INVARIANTS
    IInv
    CommittedIsSettled
    EffectsBounded
    RetriesWithinBudget
PROPERTIES
    CommitsAdvance
    ReaderComesThrough
