------------------------ MODULE ChoreographyConsumer ------------------------
(***************************************************************************)
(* One consumer of one topic in a service of the choreographed variant.    *)
(* It has grown apart from the orchestrated one (KafkaConsumer): events    *)
(* without a handler are committed unseen, a shutdown ends the loop with   *)
(* the message in hand instead of dead-lettering it, and the process       *)
(* closes the reader and the DLQ writer while the loop may still use them. *)
(*                                                                         *)
(* The handler is outside: each call of it succeeds or fails as it likes.  *)
(***************************************************************************)
EXTENDS Naturals, Sequences

CONSTANTS
    Ids,             \* event ids
    Known,           \* the ids of events with a handler; the others are unknown or malformed
    Log,             \* the partition: the id of the event at each offset
    MaxRetries,      \* maxRetries
    BudgetCapacity,  \* retryBudgetCapacity
    MaxFaults        \* bound: failed DLQ writes and commits, shutdowns, crashes, expiries

ASSUME LogAssumption == Log \in Seq(Ids) /\ Known \subseteq Ids
ASSUME LimitsAssumption == MaxRetries \in Nat /\ BudgetCapacity \in Nat /\ MaxFaults \in Nat

VARIABLES
    committed,  \* Kafka: the offset a restarted consumer resumes from
    dlq,        \* Kafka: the offsets copied to the dead-letter topic
    pc,         \* where the loop is
    current,    \* offset of the message in hand
    position,   \* offset the reader fetches next
    retry,      \* retries of the message in hand
    budget,     \* retryBudget
    seen,       \* ids the deduplicator remembers
    stopping,   \* the context is cancelled
    closed,     \* the reader is closed, and maybe the DLQ writer
    faults,     \* faults so far
    handled,    \* auxiliary: per id, how often the handler succeeded
    lapses,     \* auxiliary: per id, how often the process lost its memory or the mark expired
    dropped     \* auxiliary: offsets left behind because the DLQ write failed

kafka == <<committed, dlq>>
reader == <<current, position>>
retries == <<retry, budget>>
shutdown == <<stopping, closed>>
vars == <<kafka, pc, reader, retries, seen, shutdown, faults, handled, lapses, dropped>>

Offsets == 1..Len(Log)

Fault == faults < MaxFaults /\ faults' = faults + 1

-----------------------------------------------------------------------------
(* From the fetch to the handler *)

\* A cancelled context need not keep a message that is already buffered from being fetched.
Fetch ==
    /\ pc = "fetch"
    /\ position \in Offsets
    /\ current' = position
    /\ position' = position + 1
    /\ retry' = 0
    /\ pc' = IF Log[position] \in Known THEN "handle" ELSE "commit"
    /\ UNCHANGED <<kafka, budget, seen, shutdown, faults, handled, lapses, dropped>>

\* addBudget(1): a success earns a retry, up to the capacity.
EarnRetry == budget' = IF budget < BudgetCapacity THEN budget + 1 ELSE budget

HandleDuplicate ==
    /\ pc = "handle"
    /\ Log[current] \in seen
    /\ EarnRetry
    /\ pc' = "commit"
    /\ UNCHANGED <<kafka, reader, retry, seen, shutdown, faults, handled, lapses, dropped>>

\* Mutant: the id is not remembered.
Unmarked(id) == seen

Marked(id) == seen \cup {id}

HandleSuccess ==
    /\ pc = "handle"
    /\ Log[current] \notin seen
    /\ handled' = [handled EXCEPT ![Log[current]] = @ + 1]
    /\ seen' = Marked(Log[current])
    /\ EarnRetry
    /\ pc' = "commit"
    /\ UNCHANGED <<kafka, reader, retry, shutdown, faults, lapses, dropped>>

MayRetry == retry < MaxRetries /\ budget > 0

\* Mutant: Wrap forgets to unmark the id of an event whose handler failed.
StillMarked(id) == seen \cup {id}

\* What the deduplicator remembers after the handler failed: the mark is taken back.
AfterFailure(id) == seen

Fails == /\ pc = "handle"
         /\ Log[current] \notin seen
         /\ seen' = AfterFailure(Log[current])
         /\ UNCHANGED <<kafka, reader, shutdown, faults, handled, lapses, dropped>>

HandleFailure ==
    /\ Fails
    /\ MayRetry
    /\ budget' = budget - 1
    /\ retry' = retry + 1
    /\ pc' = "backoff"

GiveUp ==
    /\ Fails
    /\ ~MayRetry
    /\ ~stopping
    /\ pc' = "dead"
    /\ UNCHANGED retries

Retry ==
    /\ pc = "backoff"
    /\ pc' = "handle"
    /\ UNCHANGED <<kafka, reader, retries, seen, shutdown, faults, handled, lapses, dropped>>

-----------------------------------------------------------------------------
(* Dead-letter topic and commit *)

\* The write does not follow the cancellation of the context.
DeadLetter ==
    /\ pc = "dead"
    /\ dlq' = dlq \cup {current}
    /\ pc' = "commit"
    /\ UNCHANGED <<committed, reader, retries, seen, shutdown, faults, handled, lapses, dropped>>

\* The write fails, or succeeds unnoticed; a closed writer makes it fail without a fault.
DeadLetterError ==
    /\ pc = "dead"
    /\ IF closed THEN UNCHANGED faults ELSE Fault
    /\ \/ UNCHANGED dlq /\ dropped' = IF closed THEN dropped ELSE dropped \cup {current}
       \/ dlq' = dlq \cup {current} /\ UNCHANGED dropped
    /\ pc' = "fetch"
    /\ UNCHANGED <<committed, reader, retries, seen, shutdown, handled, lapses>>

\* A closed reader commits nothing any more.
Commit ==
    /\ pc = "commit"
    /\ ~closed
    /\ committed' = current + 1
    /\ pc' = "fetch"
    /\ UNCHANGED <<dlq, reader, retries, seen, shutdown, faults, handled, lapses, dropped>>

\* A commit that fails is only logged; a cancelled context makes it fail without a fault.
CommitError ==
    /\ pc = "commit"
    /\ IF stopping THEN UNCHANGED faults ELSE Fault
    /\ pc' = "fetch"
    /\ UNCHANGED <<kafka, reader, retries, seen, shutdown, handled, lapses, dropped>>

-----------------------------------------------------------------------------
(* Shutdown, crash and restart *)

Stop ==
    /\ ~stopping
    /\ Fault
    /\ stopping' = TRUE
    /\ UNCHANGED <<kafka, pc, reader, retries, seen, closed, handled, lapses, dropped>>

\* The process does not wait for the loop before it closes what the loop uses.
Close ==
    /\ stopping
    /\ ~closed
    /\ closed' = TRUE
    /\ UNCHANGED <<kafka, pc, reader, retries, seen, stopping, faults, handled, lapses, dropped>>

\* A new process: it resumes at the committed offset with an empty memory.
Fresh ==
    /\ pc' = "fetch"
    /\ current' = 0
    /\ position' = committed
    /\ retry' = 0
    /\ budget' = BudgetCapacity
    /\ seen' = {}
    /\ lapses' = [id \in Ids |-> lapses[id] + 1]
    /\ stopping' = FALSE
    /\ closed' = FALSE
    /\ UNCHANGED <<kafka, handled, dropped>>

\* Mutant: a cancelled fetch is tried again like any other error.
FetchAgain == pc = "fetch" /\ stopping /\ UNCHANGED vars

\* FetchMessage returns the error of the cancelled context, Start returns, and the
\* service is started again.
Restart ==
    /\ pc = "fetch"
    /\ stopping
    /\ Fresh
    /\ UNCHANGED faults

\* Mutant: the message in hand is dead-lettered, as the orchestrated consumer does it.
InterruptDeadLetters ==
    /\ stopping
    /\ pc = "backoff"
    /\ pc' = "dead"
    /\ UNCHANGED <<kafka, reader, retries, seen, shutdown, faults, handled, lapses, dropped>>

\* A handler that fails for good or a backoff, when the context is cancelled: Start
\* returns with the message neither dead-lettered nor committed.
Interrupt ==
    /\ stopping
    /\ \/ pc = "backoff"
       \/ pc = "handle" /\ Log[current] \notin seen /\ ~MayRetry
    /\ Fresh
    /\ UNCHANGED faults

Crash == Fault /\ Fresh

\* The time to live of a mark runs out.
Expire(id) ==
    /\ id \in seen
    /\ Fault
    /\ seen' = seen \ {id}
    /\ lapses' = [lapses EXCEPT ![id] = @ + 1]
    /\ UNCHANGED <<kafka, pc, reader, retries, shutdown, handled, dropped>>

-----------------------------------------------------------------------------
Init ==
    /\ committed = 1
    /\ dlq = {}
    /\ pc = "fetch"
    /\ current = 0
    /\ position = 1
    /\ retry = 0
    /\ budget = BudgetCapacity
    /\ seen = {}
    /\ stopping = FALSE
    /\ closed = FALSE
    /\ faults = 0
    /\ handled = [id \in Ids |-> 0]
    /\ lapses = [id \in Ids |-> 0]
    /\ dropped = {}

Loop ==
    \/ Fetch \/ HandleDuplicate \/ HandleSuccess \/ HandleFailure \/ GiveUp \/ Retry
    \/ DeadLetter \/ Commit \/ Restart \/ Interrupt
    \/ stopping /\ CommitError

Next ==
    \/ Loop \/ DeadLetterError \/ CommitError \/ Stop \/ Close \/ Crash
    \/ \E id \in Ids : Expire(id)

Spec == Init /\ [][Next]_vars

\* The loop does not stop by itself, and a service that was shut down is started again.
FairSpec == Spec /\ WF_vars(Loop)

-----------------------------------------------------------------------------
(* Properties *)

\* Offsets, budget and program counter stay in their ranges.
TypeOK ==
    /\ committed \in 1..(Len(Log) + 1)
    /\ dlq \subseteq Offsets
    /\ pc \in {"fetch", "handle", "backoff", "dead", "commit"}
    /\ current \in Offsets \cup {0}
    /\ position \in 1..(Len(Log) + 1)
    /\ retry \in 0..MaxRetries
    /\ budget \in 0..BudgetCapacity
    /\ seen \subseteq Ids
    /\ stopping \in BOOLEAN
    /\ closed \in BOOLEAN
    /\ faults \in 0..MaxFaults
    /\ handled \in [Ids -> Nat]
    /\ lapses \in [Ids -> Nat]
    /\ dropped \subseteq Offsets

Settled(o) == Log[o] \notin Known \/ handled[Log[o]] > 0 \/ o \in dlq

\* The committed offset passes over no event that has a handler and was neither handled
\* nor dead-lettered, except one whose dead-lettering failed while the writer was open:
\* a shutdown that catches the loop anywhere, with reader and writer closed under it,
\* loses nothing.
CommittedIsSettled == \A o \in 1..(committed - 1) : Settled(o) \/ o \in dropped

\* The handler succeeds again for an id only if the process was started anew or the mark
\* expired, once more for each time that happened: no other fault, no retry and no copy of
\* the message in the log repeats a success.
EffectsBounded == \A id \in Ids : handled[id] <= 1 + lapses[id]

\* Events are dead-lettered because they keep failing and for no other reason: when one
\* reaches the dead-letter topic, its retries or the budget are used up.
DeadLetteredIsExhausted == [][dlq' # dlq => retry = MaxRetries \/ budget = 0]_vars

\* A shutdown comes to its end wherever it catches the loop: main waits for it.
ShutdownEnds == stopping ~> ~stopping

-----------------------------------------------------------------------------
(* The inductive invariant *)

InHand == pc # "fetch"

\* The message in hand is the last one fetched, and the reader is not behind the group.
ReaderInv ==
    /\ InHand => current \in Offsets /\ position = current + 1
    /\ committed <= position
    /\ pc = "commit" => Settled(current)
    /\ pc = "dead" => retry = MaxRetries \/ budget = 0
    /\ closed => stopping

\* Everything fetched is dealt with, but for the message in hand; a closed reader, which
\* commits nothing, may have left more.
FetchedInv ==
    closed \/ \A o \in 1..(position - 1) : Settled(o) \/ o \in dropped \/ (InHand /\ o = current)

\* A remembered id was handled, and each success beyond the first took a lapse of memory.
MemoryInv ==
    \A id \in Ids :
        /\ id \in seen => handled[id] > 0
        /\ handled[id] <= lapses[id] + (IF id \in seen THEN 1 ELSE 0)

IInv ==
    /\ TypeOK
    /\ CommittedIsSettled
    /\ ReaderInv
    /\ FetchedInv
    /\ MemoryInv
=============================================================================
