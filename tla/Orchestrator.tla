---------------------------- MODULE Orchestrator ----------------------------
(***************************************************************************)
(* The saga orchestrator process: consumers of saga-commands,              *)
(* payment-events and inventory-events and the timeout worker, all working *)
(* on the same rows of PostgreSQL and the same Kafka producer.             *)
(*                                                                         *)
(* A handler is cut where it does I/O, because that is where another       *)
(* thread can come between: read the row, write it back under the          *)
(* optimistic lock, append to saga_history, publish.  What a thread holds  *)
(* between two of them is its job.  The store survives a crash, jobs and   *)
(* the worker's list of timed-out sagas do not.                            *)
(*                                                                         *)
(* The participants are outside: once a command is published they may      *)
(* answer it with either result, any number of times and in any order,     *)
(* or never.                                                               *)
(***************************************************************************)
EXTENDS SagaMachine, Naturals

CONSTANTS
    Sagas,               \* correlation ids; one row each (correlation_id is UNIQUE)
    CommandConsumers,    \* threads on saga-commands
    PaymentConsumers,    \* threads on payment-events
    InventoryConsumers,  \* threads on inventory-events
    Workers,             \* timeout workers
    MaxRetries,          \* MAX_RETRIES of the configuration
    MaxFaults            \* bound: failed calls and crashes in one behaviour

ASSUME RetriesAssumption == MaxRetries \in Nat
ASSUME FaultsAssumption == MaxFaults \in Nat

EventConsumers == PaymentConsumers \cup InventoryConsumers
Threads == CommandConsumers \cup EventConsumers \cup Workers

VARIABLES
    sagas,      \* table sagas: the row of each correlation id, or NoSaga
    history,    \* table saga_history
    published,  \* every message the producer has written
    job,        \* what each thread is in the middle of
    batch,      \* per worker: the sagas of the last ListTimedOut still to process
    faults,     \* calls that failed and crashes, so far
    writes      \* auxiliary: every write of a row ever committed

stored == <<sagas, writes>>
vars == <<sagas, history, published, job, batch, faults, writes>>

-----------------------------------------------------------------------------
(* Rows, jobs and messages *)

NoSaga == [state |-> "NONE"]
Idle == [pc |-> "idle"]

\* stepDeadline is NULL, ahead of the clock, or behind it.  updatedAt counts the
\* writes of the row: NOW() differs from one write of a row to the next.
Rows == [state : SagaStates, retryCount : Nat,
         stepDeadline : {"nil", "ahead", "past"}, updatedAt : Nat]

Snapshots == [saga : Sagas, state : PendingStates, retryCount : Nat, updatedAt : Nat]

FromStates == PendingStates \cup {"STARTED"}

\* Retry marks a write of the timeout worker that keeps the state; it has no history entry.
WriteEvents == PaymentEvents \cup InventoryEvents \cup {"StartSaga", "Timeout", "Retry"}

\* updatedAt is that of the row read until the update, of the row written after it.
Jobs == [pc : {"update", "record", "publish"}, saga : Sagas,
         from : FromStates, to : SagaStates, event : WriteEvents,
         retryCount : Nat, stepDeadline : {"nil", "ahead"}, updatedAt : Nat,
         action : MessageTypes]

\* updatedAt names the write the message was published for: it stands for the
\* fresh id each message carries.
Messages == [saga : Sagas, type : MessageTypes, updatedAt : Nat]

HistoryEntries == [saga : Sagas, from : FromStates, to : SagaStates, event : WriteEvents]

Writes == [saga : Sagas, from : FromStates, to : SagaStates, event : WriteEvents, updatedAt : Nat]

Exists(s) == sagas[s] # NoSaga

\* The command a participant emits an event in answer to.
AnswerTo(event) ==
    CASE event \in {"PaymentReserved", "PaymentFailed"} -> "ReservePayment"
      [] event = "PaymentCancelled"                     -> "CancelPayment"
      [] event \in InventoryEvents                      -> "ReserveInventory"

Deliverable(s, event) == \E m \in published : m.saga = s /\ m.type = AnswerTo(event)

EventsOf(c) == (IF c \in PaymentConsumers THEN PaymentEvents ELSE {})
                 \cup (IF c \in InventoryConsumers THEN InventoryEvents ELSE {})

Fault == faults < MaxFaults /\ faults' = faults + 1

-----------------------------------------------------------------------------
(* The store: INSERT and UPDATE of one row, both single statements *)

\* Mutant: a new saga is inserted without a deadline for its first step.
FreshRowWithoutDeadline ==
    [state |-> "PAYMENT_PENDING", retryCount |-> 0, stepDeadline |-> "nil", updatedAt |-> 0]

FreshRow == [state |-> "PAYMENT_PENDING", retryCount |-> 0, stepDeadline |-> "ahead", updatedAt |-> 0]

StartWrite(s) == [saga |-> s, from |-> "STARTED", to |-> "PAYMENT_PENDING",
                  event |-> "StartSaga", updatedAt |-> 0]

InsertRow(s) == /\ sagas' = [sagas EXCEPT ![s] = FreshRow]
                /\ writes' = writes \cup {StartWrite(s)}

RowOf(j) == [state |-> j.to, retryCount |-> j.retryCount,
             stepDeadline |-> j.stepDeadline, updatedAt |-> j.updatedAt + 1]

WriteOf(j) == [saga |-> j.saga, from |-> j.from, to |-> j.to,
               event |-> j.event, updatedAt |-> j.updatedAt + 1]

UpdateRow(j) == /\ sagas' = [sagas EXCEPT ![j.saga] = RowOf(j)]
                /\ writes' = writes \cup {WriteOf(j)}

\* Mutant: UPDATE ... WHERE id = $1, without the optimistic lock.
UnmodifiedBlind(j) == Exists(j.saga)

\* UPDATE ... WHERE id = $1 AND updated_at = $2 finds the row.
Unmodified(j) == Exists(j.saga) /\ sagas[j.saga].updatedAt = j.updatedAt

-----------------------------------------------------------------------------
(* StartSaga: create the row, then history and ReservePayment *)

StartJob(s) == [pc |-> "record", saga |-> s, from |-> "STARTED", to |-> "PAYMENT_PENDING",
                event |-> "StartSaga", retryCount |-> 0, stepDeadline |-> "ahead",
                updatedAt |-> 0, action |-> "ReservePayment"]

\* A second INSERT of a correlation id fails on the unique index and changes nothing.
StartSaga(c, s) ==
    /\ job[c] = Idle
    /\ ~Exists(s)
    /\ InsertRow(s)
    /\ job' = [job EXCEPT ![c] = StartJob(s)]
    /\ UNCHANGED <<history, published, batch, faults>>

\* The row is inserted but Create returns an error: every later attempt finds the row.
StartSagaLosesReply(c, s) ==
    /\ job[c] = Idle
    /\ ~Exists(s)
    /\ InsertRow(s)
    /\ Fault
    /\ UNCHANGED <<history, published, job, batch>>

-----------------------------------------------------------------------------
(* HandleEvent: read the row, look the event up, decide the new row *)

EventJob(s, t) ==
    [pc |-> "update", saga |-> s, from |-> t.from, to |-> t.to, event |-> t.event,
     retryCount |-> sagas[s].retryCount, stepDeadline |-> StepDeadline(t.to),
     updatedAt |-> sagas[s].updatedAt, action |-> t.action]

\* An unknown saga, a failed Get and an event without a transition are skipped:
\* the handler returns nil and nothing changes.
HandleEvent(c, s, event) ==
    /\ job[c] = Idle
    /\ event \in EventsOf(c)
    /\ Deliverable(s, event)
    /\ Exists(s)
    /\ \E t \in Apply(sagas[s].state, event) : job' = [job EXCEPT ![c] = EventJob(s, t)]
    /\ UNCHANGED <<stored, history, published, batch, faults>>

-----------------------------------------------------------------------------
(* The timeout worker *)

Snapshot(s) == [saga |-> s, state |-> sagas[s].state,
                retryCount |-> sagas[s].retryCount, updatedAt |-> sagas[s].updatedAt]

TimedOut == {s \in Sagas : Exists(s) /\ sagas[s].state \in PendingStates
                                     /\ sagas[s].stepDeadline = "past"}

\* The list is read once and worked off saga by saga.
CheckTimeouts(w) ==
    /\ job[w] = Idle
    /\ batch[w] = {}
    /\ TimedOut # {}
    /\ batch' = [batch EXCEPT ![w] = {Snapshot(s) : s \in TimedOut}]
    /\ UNCHANGED <<stored, history, published, job, faults>>

RetryJob(x) ==
    [pc |-> "update", saga |-> x.saga, from |-> x.state, to |-> x.state, event |-> "Retry",
     retryCount |-> x.retryCount + 1, stepDeadline |-> "ahead",
     updatedAt |-> x.updatedAt, action |-> ResendCommand(x.state)]

\* Entering compensation starts the count of retries anew.
ExhaustJob(x, t) ==
    [pc |-> "update", saga |-> x.saga, from |-> x.state, to |-> t.to, event |-> "Timeout",
     retryCount |-> IF t.to = "CANCEL_PAYMENT_PENDING" THEN 0 ELSE x.retryCount,
     stepDeadline |-> StepDeadline(t.to), updatedAt |-> x.updatedAt, action |-> t.action]

\* Mutant: the comparison with the limit is off by one.
RetriesLeftOffByOne(x) == x.retryCount <= MaxRetries

\* Mutant: one retry is given up.
RetriesLeftOneShort(x) == x.retryCount + 1 < MaxRetries

RetriesLeft(x) == x.retryCount < MaxRetries

Take(w, x, j) ==
    /\ job[w] = Idle
    /\ batch' = [batch EXCEPT ![w] = @ \ {x}]
    /\ job' = [job EXCEPT ![w] = j]
    /\ UNCHANGED <<stored, history, published, faults>>

RetrySaga(w) == \E x \in batch[w] : RetriesLeft(x) /\ Take(w, x, RetryJob(x))

ExhaustSaga(w) ==
    \E x \in batch[w], t \in TimeoutTransitions :
        /\ ~RetriesLeft(x)
        /\ t.from = x.state
        /\ Take(w, x, ExhaustJob(x, t))

-----------------------------------------------------------------------------
(* The rest of a job, the same for every thread *)

\* What follows a committed update: history, but not for a retry; then the message.
AfterUpdate(j) == [j EXCEPT !.pc = IF j.event = "Retry" THEN "publish" ELSE "record",
                            !.updatedAt = @ + 1]

UpdateSaga(t) ==
    /\ job[t].pc = "update"
    /\ Unmodified(job[t])
    /\ UpdateRow(job[t])
    /\ job' = [job EXCEPT ![t] = AfterUpdate(job[t])]
    /\ UNCHANGED <<history, published, batch, faults>>

\* Mutant: the caller ignores the result of the update and goes on.
SkipPublishesAnyway(t) ==
    /\ job[t].pc = "update"
    /\ ~Unmodified(job[t])
    /\ job' = [job EXCEPT ![t] = AfterUpdate(job[t])]
    /\ UNCHANGED <<stored, history, published, batch, faults>>

\* No row matched, another writer came first: the event, retry or timeout is dropped.
SkipModified(t) ==
    /\ job[t].pc = "update"
    /\ ~Unmodified(job[t])
    /\ job' = [job EXCEPT ![t] = Idle]
    /\ UNCHANGED <<stored, history, published, batch, faults>>

\* Mutant: the error of the update is logged and the action executed all the same.
UpdateErrorIgnored(t) ==
    /\ job[t].pc = "update"
    /\ Fault
    /\ \/ Unmodified(job[t]) /\ UpdateRow(job[t])
       \/ UNCHANGED stored
    /\ job' = [job EXCEPT ![t] = AfterUpdate(job[t])]
    /\ UNCHANGED <<history, published, batch>>

\* Update returns an error; the statement may have been applied all the same.
UpdateError(t) ==
    /\ job[t].pc = "update"
    /\ Fault
    /\ \/ Unmodified(job[t]) /\ UpdateRow(job[t])
       \/ UNCHANGED stored
    /\ job' = [job EXCEPT ![t] = Idle]
    /\ UNCHANGED <<history, published, batch>>

\* Mutant: the state the saga comes from is read after the transition was applied.
EntryAfterApply(j) == [saga |-> j.saga, from |-> j.to, to |-> j.to, event |-> j.event]

Entry(j) == [saga |-> j.saga, from |-> j.from, to |-> j.to, event |-> j.event]

\* An entry that cannot be written is only logged.
RecordHistory(t) ==
    /\ job[t].pc = "record"
    /\ \/ history' = history \cup {Entry(job[t])} /\ UNCHANGED faults
       \/ UNCHANGED history /\ Fault
    /\ job' = [job EXCEPT ![t].pc = "publish"]
    /\ UNCHANGED <<stored, published, batch>>

Message(j) == [saga |-> j.saga, type |-> j.action, updatedAt |-> j.updatedAt]

\* If publishing fails the handler returns the error; a retry of it finds no transition,
\* so a message that was written after all makes no difference to the store.
Publish(t) ==
    /\ job[t].pc = "publish"
    /\ \/ published' = published \cup {Message(job[t])} /\ UNCHANGED faults
       \/ UNCHANGED published /\ Fault
    /\ job' = [job EXCEPT ![t] = Idle]
    /\ UNCHANGED <<stored, history, batch>>

-----------------------------------------------------------------------------
(* Time and crashes *)

DeadlinePasses(s) ==
    /\ Exists(s)
    /\ sagas[s].stepDeadline = "ahead"
    /\ sagas' = [sagas EXCEPT ![s].stepDeadline = "past"]
    /\ UNCHANGED <<history, published, job, batch, faults, writes>>

\* The process stops and is started again: every thread forgets what it was doing.
Crash ==
    /\ Fault
    /\ \/ \E t \in Threads : job[t] # Idle
       \/ \E w \in Workers : batch[w] # {}
    /\ job' = [t \in Threads |-> Idle]
    /\ batch' = [w \in Workers |-> {}]
    /\ UNCHANGED <<stored, history, published>>

-----------------------------------------------------------------------------
Init ==
    /\ sagas = [s \in Sagas |-> NoSaga]
    /\ history = {}
    /\ published = {}
    /\ job = [t \in Threads |-> Idle]
    /\ batch = [w \in Workers |-> {}]
    /\ faults = 0
    /\ writes = {}

\* A step the process owes once it has begun a job.
Step(t) == UpdateSaga(t) \/ SkipModified(t) \/ RecordHistory(t) \/ Publish(t)

ProcessSaga(w) == RetrySaga(w) \/ ExhaustSaga(w)

Next ==
    \/ \E c \in CommandConsumers, s \in Sagas : StartSaga(c, s) \/ StartSagaLosesReply(c, s)
    \/ \E c \in EventConsumers, s \in Sagas, event \in PaymentEvents \cup InventoryEvents :
           HandleEvent(c, s, event)
    \/ \E w \in Workers : CheckTimeouts(w) \/ ProcessSaga(w)
    \/ \E t \in Threads : Step(t) \/ UpdateError(t)
    \/ \E s \in Sagas : DeadlinePasses(s)
    \/ Crash

Spec == Init /\ [][Next]_vars

(***************************************************************************)
(* A thread that has begun a job goes on with it, the worker keeps polling *)
(* and the clock runs.  Nothing is assumed of messages: they may stay      *)
(* undelivered for ever, and calls may fail up to MaxFaults times.         *)
(***************************************************************************)
Fairness ==
    /\ \A t \in Threads : WF_vars(Step(t))
    /\ \A w \in Workers : WF_vars(CheckTimeouts(w)) /\ WF_vars(ProcessSaga(w))
    /\ \A s \in Sagas : WF_vars(DeadlinePasses(s))

FairSpec == Spec /\ Fairness

-----------------------------------------------------------------------------
(* Properties *)

\* Rows, history, messages and jobs have the shapes the code gives them.
TypeOK ==
    /\ sagas \in [Sagas -> Rows \cup {NoSaga}]
    /\ history \subseteq HistoryEntries
    /\ published \subseteq Messages
    /\ job \in [Threads -> Jobs \cup {Idle}]
    /\ batch \in [Workers -> SUBSET Snapshots]
    /\ faults \in 0..MaxFaults
    /\ writes \subseteq Writes

\* The message that belongs to a saga having entered, or been kept in, a state.
MessageFor(state) ==
    CASE state = "PAYMENT_PENDING"        -> "ReservePayment"
      [] state = "INVENTORY_PENDING"      -> "ReserveInventory"
      [] state = "CANCEL_PAYMENT_PENDING" -> "CancelPayment"
      [] state = "COMPLETED"              -> "SagaCompleted"
      [] state = "FAILED"                 -> "SagaFailed"

\* HandleEvent promises that a command is never published for a state that was not
\* persisted: behind every message, of whichever thread, there is a committed write of
\* the state the message is about, and no write ever produced two messages.
PublishedAfterPersist ==
    /\ \A m \in published : \E w \in writes :
           w.saga = m.saga /\ w.updatedAt = m.updatedAt /\ m.type = MessageFor(w.to)
    /\ \A m, n \in published : m.saga = n.saga /\ m.updatedAt = n.updatedAt => m = n

\* The optimistic lock on updated_at: the writes of a row form one chain, each computed
\* from the row it replaces, and the row is what the last of them left.  No update of
\* one thread is lost to another.
NoLostUpdate ==
    /\ \A v, w \in writes : v.saga = w.saga /\ v.updatedAt = w.updatedAt => v = w
    /\ \A w \in writes : w.updatedAt > 0 =>
           \E v \in writes : v.saga = w.saga /\ v.updatedAt + 1 = w.updatedAt /\ v.to = w.from
    /\ \A w \in writes : Exists(w.saga) /\ w.updatedAt <= sagas[w.saga].updatedAt
    /\ \A s \in Sagas : Exists(s) =>
           \E w \in writes : w.saga = s /\ w.updatedAt = sagas[s].updatedAt /\ w.to = sagas[s].state

\* order-api overwrites its order with every result it is sent, so a saga must not send
\* two: one terminal event at most, and the one the store agrees with.
OneOutcome ==
    \A m \in published : m.type \in TerminalEvents =>
        /\ m.type = MessageFor(sagas[m.saga].state)
        /\ \A n \in published : n.saga = m.saga /\ n.type \in TerminalEvents => n = m

\* A saga that reports completion has asked for both reservations and never for a
\* cancellation, however many timeouts, retries and late answers came between.
CompletionIsEarned ==
    \A m \in published : m.type = "SagaCompleted" =>
        LET sent == {n.type : n \in {n \in published : n.saga = m.saga}}
        IN  {"ReservePayment", "ReserveInventory"} \subseteq sent /\ "CancelPayment" \notin sent

\* saga_history is written after the row and separately, and may miss entries; it never
\* shows a transition that was not persisted.
HistoryIsPersisted ==
    \A h \in history : \E w \in writes :
        Edge(w.from, w.to, w.event) = Edge(h.from, h.to, h.event) /\ w.saga = h.saga

\* diagramTransitions "contains all state changes the orchestrator can persist".
DiagramComplete ==
    \A w \in writes : w.from # w.to => Edge(w.from, w.to, w.event) \in DiagramTransitions

\* The timeout worker finds sagas by their deadline: a saga that waits for an answer
\* always has one, or it could never time out; a finished saga has none.
PendingHasDeadline ==
    \A s \in Sagas : Exists(s) => (sagas[s].stepDeadline = "nil" <=> sagas[s].state \in TerminalStates)

\* However messages, timeouts and races fall, a saga is written at most this often, so
\* it sends no more messages: the retry count survives the step from payment to
\* inventory and starts anew only once, when compensation begins.
MessagesBounded ==
    /\ \A s \in Sagas : Exists(s) => sagas[s].retryCount <= MaxRetries
    /\ \A m \in published : m.updatedAt <= 2 * MaxRetries + 3

\* The writes by which a saga comes to a state, among those in a log.
PathTo(log, s, state) ==
    LET Left(from, events) == \E w \in log : w.saga = s /\ w.from = from /\ w.event \in events
    IN  /\ state # "STARTED" => Left("STARTED", {"StartSaga"})
        /\ state \in {"INVENTORY_PENDING", "CANCEL_PAYMENT_PENDING", "COMPLETED"} =>
               Left("PAYMENT_PENDING", {"PaymentReserved"})
        /\ state = "COMPLETED" => Left("INVENTORY_PENDING", {"InventoryReserved"})
        /\ state = "CANCEL_PAYMENT_PENDING" => Left("INVENTORY_PENDING", {"InventoryFailed", "Timeout"})
        /\ state = "FAILED" =>
               \/ Left("PAYMENT_PENDING", {"PaymentFailed", "Timeout"})
               \/ /\ Left("PAYMENT_PENDING", {"PaymentReserved"})
                  /\ Left("INVENTORY_PENDING", {"InventoryFailed", "Timeout"})
                  /\ Left("CANCEL_PAYMENT_PENDING", {"PaymentCancelled", "Timeout"})

\* A saga leaves each state once, however often the events come that lead out of it and
\* whichever threads race for it; what else is written there are the worker's retries.
\* And no state is reached without the steps before it.
OnePathPerSaga ==
    /\ \A v, w \in writes :
           v.saga = w.saga /\ v.from = w.from /\ v.from # v.to /\ w.from # w.to => v = w
    /\ \A w \in writes : w.from = w.to <=> w.event = "Retry"
    /\ \A w \in writes : PathTo(writes, w.saga, w.to)

\* diagram.go: "Timeout transitions occur after the retry limit is exhausted" - in the
\* row that is replaced, not only in the snapshot the worker looked at.
TimeoutAfterRetries ==
    [][\A w \in writes' \ writes : w.event = "Timeout" => sagas[w.saga].retryCount >= MaxRetries]_vars

\* Every saga the store holds reaches COMPLETED or FAILED, with the participants silent,
\* calls failing and the process crashing: the timeout worker sees to it.
SagasSettle ==
    \A s \in Sagas : Exists(s) ~> (Exists(s) /\ sagas[s].state \in TerminalStates)

Sent(s, type) == \E m \in published : m.saga = s /\ m.type = type

\* StartSaga: "Persist first: if Kafka publish fails, the timeout worker will detect
\* PAYMENT_PENDING sagas with no response and retry."  ReservePayment is sent in the end.
LostStartIsRetried == \A s \in Sagas : Exists(s) ~> Sent(s, "ReservePayment")

\* "SagaResultPayload is sent to order-api when a saga reaches a terminal state."
ResultIsSent ==
    \A s \in Sagas :
        (Exists(s) /\ sagas[s].state \in TerminalStates) ~> \E type \in TerminalEvents : Sent(s, type)
-----------------------------------------------------------------------------
(* The orchestrator implements the saga lifecycle *)

OutcomeOf(state) ==
    CASE state = "NONE"          -> "none"
      [] state \in PendingStates -> "running"
      [] state = "COMPLETED"     -> "completed"
      [] state = "FAILED"        -> "failed"

Announcement(type) == IF type = "SagaCompleted" THEN "completed" ELSE "failed"

Lifecycle == INSTANCE SagaLifecycle WITH
    outcome   <- [s \in Sagas |-> OutcomeOf(sagas[s].state)],
    announced <- [s \in Sagas |-> {Announcement(m.type) :
                     m \in {m \in published : m.saga = s /\ m.type \in TerminalEvents}}]

\* Seen from outside, each saga is started, decided and announced at most once.
ImplementsLifecycle == Lifecycle!Spec

\* ... and with the fairness of the process, decided for certain.
ImplementsLiveLifecycle == Lifecycle!LiveSpec

-----------------------------------------------------------------------------
(* The inductive invariant *)

\* What a thread once read of a row is of an older write, or is still so.
Seen(s, state, updatedAt) ==
    /\ Exists(s)
    /\ updatedAt <= sagas[s].updatedAt
    /\ updatedAt = sagas[s].updatedAt => state = sagas[s].state

Written(j) == [saga |-> j.saga, from |-> j.from, to |-> j.to,
               event |-> j.event, updatedAt |-> j.updatedAt]

\* A job not written yet was computed from a row of a pending saga.
UnwrittenJob(j) ==
    /\ j.from \in PendingStates
    /\ Seen(j.saga, j.from, j.updatedAt)
    /\ j.event = "Timeout" /\ Unmodified(j) => sagas[j.saga].retryCount >= MaxRetries

\* A job past its update has its write in the store and its message still to publish.
WrittenJob(j) ==
    /\ Written(j) \in writes
    /\ \A m \in published : ~(m.saga = j.saga /\ m.updatedAt = j.updatedAt)

JobSound(j) ==
    j # Idle => /\ j.action = MessageFor(j.to)
                /\ IF j.pc = "update" THEN UnwrittenJob(j) ELSE WrittenJob(j)

JobsAreSound == \A t \in Threads : JobSound(job[t])

FollowsUp(j) == j.pc \in {"record", "publish"}

\* No two threads have the same write to follow up.
OneFollowUp ==
    \A t, u \in Threads :
        FollowsUp(job[t]) /\ FollowsUp(job[u]) /\ Written(job[t]) = Written(job[u]) => t = u

BatchesAreSound ==
    \A w \in Workers : \A x \in batch[w] :
        /\ Seen(x.saga, x.state, x.updatedAt)
        /\ x.updatedAt = sagas[x.saga].updatedAt => x.retryCount = sagas[x.saga].retryCount

\* A write of a terminal state is the last of its saga.
OutcomeIsLast ==
    \A w \in writes : w.to \in TerminalStates => w.updatedAt = sagas[w.saga].updatedAt

\* Why no update is lost, no message is ahead of its state and no saga has two
\* outcomes: together with what each thread remembers, the facts are inductive.
IInv ==
    /\ TypeOK
    /\ NoLostUpdate
    /\ OutcomeIsLast
    /\ PublishedAfterPersist
    /\ HistoryIsPersisted
    /\ JobsAreSound
    /\ OneFollowUp
    /\ BatchesAreSound
=============================================================================
