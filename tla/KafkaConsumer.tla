--------------------------- MODULE KafkaConsumer ---------------------------
(***************************************************************************)
(* One consumer of one topic in a service of the orchestrated variant: the *)
(* loop that fetches a message, hands it to the deduplicated handler,      *)
(* retries within a budget, dead-letters what keeps failing and commits    *)
(* the offset.  A topic has one partition, so the log is a sequence; the   *)
(* committed offset survives a restart, everything else of the process     *)
(* does not.                                                               *)
(*                                                                         *)
(* The handler is outside: each call of it succeeds or fails as it likes.  *)
(***************************************************************************)
EXTENDS Naturals, Sequences

CONSTANTS
    Ids,             \* envelope ids
    Log,             \* the partition: the id of the message at each offset
    MaxRetries,      \* maxRetries
    BudgetCapacity,  \* retryBudgetCapacity
    MaxFaults        \* bound: failed DLQ writes and commits, expiries, stops and crashes

ASSUME LogAssumption == Log \in Seq(Ids)
ASSUME LimitsAssumption == MaxRetries \in Nat /\ BudgetCapacity \in Nat /\ MaxFaults \in Nat

VARIABLES
    committed,  \* Kafka: the offset a restarted consumer resumes from
    dlq,        \* Kafka: the offsets copied to the dead-letter topic
    pc,         \* where the loop is
    current,    \* offset of the message in hand
    position,   \* offset the reader fetches next
    retry,      \* retries of the message in hand
    budget,     \* retryBudget
    seen,       \* ids the deduplicator remembers
    stopping,   \* the context is cancelled
    faults,     \* faults so far
    handled,    \* auxiliary: per id, how often the handler succeeded
    lapses,     \* auxiliary: per id, how often the process lost its memory or the mark expired
    dropped,    \* auxiliary: offsets left behind because the DLQ write failed
    succeeded,  \* auxiliary: messages processed without error since the start
    spent       \* auxiliary: retries since the start

process == <<pc, current, position, retry, budget, seen, stopping, succeeded, spent>>
vars == <<committed, dlq, process, faults, handled, lapses, dropped>>

Offsets == 1..Len(Log)

Fault == faults < MaxFaults /\ faults' = faults + 1

-----------------------------------------------------------------------------
(* Fetch *)

Fetch ==
    /\ pc = "fetch"
    /\ position \in Offsets
    /\ current' = position
    /\ position' = position + 1
    /\ retry' = 0
    /\ pc' = "handle"
    /\ UNCHANGED <<committed, dlq, budget, seen, stopping, faults,
                   handled, lapses, dropped, succeeded, spent>>

-----------------------------------------------------------------------------
(* The deduplicated handler: CheckAndMark, the handler, Unmark if it fails *)

\* Mutant: the budget grows past its capacity.
EarnRetryUncapped == budget' = budget + 1 /\ succeeded' = succeeded + 1

\* addBudget(1): a success earns a retry, up to the capacity.
EarnRetry == /\ budget' = IF budget < BudgetCapacity THEN budget + 1 ELSE budget
             /\ succeeded' = succeeded + 1

HandleDuplicate ==
    /\ pc = "handle"
    /\ Log[current] \in seen
    /\ EarnRetry
    /\ pc' = "commit"
    /\ UNCHANGED <<committed, dlq, current, position, retry, seen, stopping, faults,
                   handled, lapses, dropped, spent>>

\* Mutant: the id is not remembered.
Unmarked(id) == seen

Marked(id) == seen \cup {id}

HandleSuccess ==
    /\ pc = "handle"
    /\ Log[current] \notin seen
    /\ handled' = [handled EXCEPT ![Log[current]] = @ + 1]
    /\ seen' = Marked(Log[current])
    /\ EarnRetry
    /\ pc' = "commit"
    /\ UNCHANGED <<committed, dlq, current, position, retry, stopping, faults, lapses, dropped, spent>>

\* Mutant: Wrap forgets to unmark the id of a message whose handler failed.
StillMarked(id) == seen \cup {id}

\* What the deduplicator remembers after the handler failed: the mark is taken back.
AfterFailure(id) == seen

\* consumeBudget: a retry is taken from the budget.
SpendRetry == budget' = budget - 1 /\ spent' = spent + 1

\* Mutant: retries are not taken from the budget.
MayRetryUnbudgeted == retry < MaxRetries

MayRetry == retry < MaxRetries /\ budget > 0

HandleFailure ==
    /\ pc = "handle"
    /\ Log[current] \notin seen
    /\ seen' = AfterFailure(Log[current])
    /\ \/ MayRetry /\ SpendRetry /\ retry' = retry + 1 /\ pc' = "backoff"
       \/ ~MayRetry /\ pc' = "dead" /\ UNCHANGED <<retry, budget, spent>>
    /\ UNCHANGED <<committed, dlq, current, position, stopping, faults,
                   handled, lapses, dropped, succeeded>>

Retry ==
    /\ pc = "backoff"
    /\ pc' = "handle"
    /\ UNCHANGED <<committed, dlq, current, position, retry, budget, seen, stopping, faults,
                   handled, lapses, dropped, succeeded, spent>>

\* The context is cancelled during the backoff: the message goes to the DLQ unretried.
AbandonRetry ==
    /\ pc = "backoff"
    /\ stopping
    /\ pc' = "dead"
    /\ UNCHANGED <<committed, dlq, current, position, retry, budget, seen, stopping, faults,
                   handled, lapses, dropped, succeeded, spent>>

-----------------------------------------------------------------------------
(* Dead-letter topic and commit *)

\* Mutant: a dead-lettered message is handled again instead of being committed.
DeadLetterAgain ==
    /\ pc = "dead"
    /\ dlq' = dlq \cup {current}
    /\ pc' = "handle"
    /\ UNCHANGED <<committed, current, position, retry, budget, seen, stopping, faults,
                   handled, lapses, dropped, succeeded, spent>>

\* The write does not follow the cancellation of the context.
DeadLetter ==
    /\ pc = "dead"
    /\ dlq' = dlq \cup {current}
    /\ pc' = "commit"
    /\ UNCHANGED <<committed, current, position, retry, budget, seen, stopping, faults,
                   handled, lapses, dropped, succeeded, spent>>

\* The write fails, or succeeds unnoticed: the loop goes on without committing.
DeadLetterError ==
    /\ pc = "dead"
    /\ Fault
    /\ \/ UNCHANGED dlq /\ dropped' = dropped \cup {current}
       \/ dlq' = dlq \cup {current} /\ UNCHANGED dropped
    /\ pc' = "fetch"
    /\ UNCHANGED <<committed, current, position, retry, budget, seen, stopping,
                   handled, lapses, succeeded, spent>>

\* Mutant: the offset that is committed is where the reader is next, plus one.
OffsetTooFar == position + 1

\* Committing a message makes the group resume after it, whatever came before it.
OffsetAfterCurrent == current + 1

Commit ==
    /\ pc = "commit"
    /\ committed' = OffsetAfterCurrent
    /\ pc' = "fetch"
    /\ UNCHANGED <<dlq, current, position, retry, budget, seen, stopping, faults,
                   handled, lapses, dropped, succeeded, spent>>

\* A commit that fails is only logged; a cancelled context makes it fail without a fault.
CommitError ==
    /\ pc = "commit"
    /\ IF stopping THEN UNCHANGED faults ELSE Fault
    /\ pc' = "fetch"
    /\ UNCHANGED <<committed, dlq, current, position, retry, budget, seen, stopping,
                   handled, lapses, dropped, succeeded, spent>>

-----------------------------------------------------------------------------
(* Expiry, shutdown, crash and restart *)

\* The TTL of an id runs out.
Expire(id) ==
    /\ id \in seen
    /\ Fault
    /\ seen' = seen \ {id}
    /\ lapses' = [lapses EXCEPT ![id] = @ + 1]
    /\ UNCHANGED <<committed, dlq, pc, current, position, retry, budget, stopping,
                   handled, dropped, succeeded, spent>>

Stop ==
    /\ ~stopping
    /\ Fault
    /\ stopping' = TRUE
    /\ UNCHANGED <<committed, dlq, pc, current, position, retry, budget, seen,
                   handled, lapses, dropped, succeeded, spent>>

\* A new process: it resumes at the committed offset with an empty memory.
Fresh ==
    /\ pc' = "fetch"
    /\ current' = 0
    /\ position' = committed
    /\ retry' = 0
    /\ budget' = BudgetCapacity
    /\ seen' = {}
    /\ lapses' = [id \in Ids |-> lapses[id] + 1]
    /\ stopping' = FALSE
    /\ succeeded' = 0
    /\ spent' = 0

\* FetchMessage returns the error of the cancelled context, the loop ends, and the
\* service is started again.
Restart == /\ pc = "fetch"
           /\ stopping
           /\ Fresh
           /\ UNCHANGED <<committed, dlq, faults, handled, dropped>>

Crash == /\ Fault
         /\ Fresh
         /\ UNCHANGED <<committed, dlq, handled, dropped>>

-----------------------------------------------------------------------------
Init ==
    /\ committed = 1
    /\ dlq = {}
    /\ pc = "fetch"
    /\ current = 0
    /\ position = 1
    /\ retry = 0
    /\ budget = BudgetCapacity
    /\ seen = {}
    /\ stopping = FALSE
    /\ faults = 0
    /\ handled = [id \in Ids |-> 0]
    /\ lapses = [id \in Ids |-> 0]
    /\ dropped = {}
    /\ succeeded = 0
    /\ spent = 0

Handle == HandleDuplicate \/ HandleSuccess \/ HandleFailure \/ Retry \/ AbandonRetry

Loop == Fetch \/ Handle \/ DeadLetter \/ Commit \/ Restart

Next ==
    \/ Loop
    \/ DeadLetterError
    \/ CommitError
    \/ \E id \in Ids : Expire(id)
    \/ Stop
    \/ Crash

Spec == Init /\ [][Next]_vars

\* The loop does not stop by itself, and a stopped service is started again.
FairSpec == Spec /\ WF_vars(Loop)

-----------------------------------------------------------------------------
(* Properties *)

\* Offsets, budget and program counter stay in their ranges.
TypeOK ==
    /\ committed \in 1..(Len(Log) + 1)
    /\ dlq \subseteq Offsets
    /\ pc \in {"fetch", "handle", "backoff", "dead", "commit"}
    /\ current \in Offsets \cup {0}
    /\ position \in 1..(Len(Log) + 1)
    /\ retry \in 0..MaxRetries
    /\ budget \in 0..BudgetCapacity
    /\ seen \subseteq Ids
    /\ stopping \in BOOLEAN
    /\ faults \in 0..MaxFaults
    /\ handled \in [Ids -> Nat]
    /\ lapses \in [Ids -> Nat]
    /\ dropped \subseteq Offsets
    /\ succeeded \in Nat
    /\ spent \in Nat

Settled(o) == handled[Log[o]] > 0 \/ o \in dlq

\* The committed offset passes over no message that was neither handled nor
\* dead-lettered, except one whose dead-lettering failed: through retries, restarts
\* and skipped duplicates the handler is never cheated of a message.
CommittedIsSettled == \A o \in 1..(committed - 1) : Settled(o) \/ o \in dropped

\* The handler succeeds again for an id only if the process was started anew or the mark
\* expired, once more for each time that happened: no other fault, no retry and no copy of
\* the message in the log repeats a success.
EffectsBounded == \A id \in Ids : handled[id] <= 1 + lapses[id]

\* The retry budget: however the failures fall, a process makes no more retries than
\* the capacity and the messages it got through allow.
RetriesWithinBudget == spent <= BudgetCapacity + succeeded

\* The group never moves back, and the reader is never behind it.
CommitsAdvance == [][committed' >= committed /\ position' >= committed']_vars

\* A message that always fails does not hold up the ones behind it: the reader comes
\* past every message, and each is handled, dead-lettered or left behind by the DLQ.
ReaderComesThrough == <>(position > Len(Log) /\ \A o \in Offsets : Settled(o) \/ o \in dropped)

\* consumer.go: "DLQ unavailable, offset not committed - will retry on restart".  A
\* message left behind stays ahead of the committed offset until it is settled.
LeftBehindIsRetried == \A o \in dropped : Settled(o) \/ committed <= o

-----------------------------------------------------------------------------
(* The inductive invariant *)

InHand == pc # "fetch"

\* The message in hand is the last one fetched, and the reader is not behind the group.
ReaderInv ==
    /\ InHand => current \in Offsets /\ position = current + 1
    /\ committed <= position
    /\ pc = "commit" => Settled(current)

\* Everything fetched is dealt with, but for the message in hand.
FetchedInv ==
    \A o \in 1..(position - 1) : Settled(o) \/ o \in dropped \/ (InHand /\ o = current)

\* A remembered id was handled, and each success beyond the first took a lapse of memory.
MemoryInv ==
    \A id \in Ids :
        /\ id \in seen => handled[id] > 0
        /\ handled[id] <= lapses[id] + (IF id \in seen THEN 1 ELSE 0)

BudgetInv == spent + budget <= BudgetCapacity + succeeded

IInv ==
    /\ TypeOK
    /\ CommittedIsSettled
    /\ ReaderInv
    /\ FetchedInv
    /\ MemoryInv
    /\ BudgetInv
=============================================================================
