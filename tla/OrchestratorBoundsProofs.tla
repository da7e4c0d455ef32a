---------------------- MODULE OrchestratorBoundsProofs ----------------------
(***************************************************************************)
(* How often a saga is written, which edges it takes, when it has a        *)
(* deadline and what a completed saga has asked for, for every set of      *)
(* sagas and threads and every retry limit.                                *)
(*                                                                         *)
(* The first three need no more than that every row, job and snapshot      *)
(* keeps to the bounds on its own; what is known of their relation, IInv   *)
(* of OrchestratorProofs, is needed only for the last.                     *)
(***************************************************************************)
EXTENDS OrchestratorProofs

-----------------------------------------------------------------------------
(* What a step can do to one row, one job, one snapshot, one message, one write *)

RowStep(s) ==
    \/ sagas'[s] = sagas[s]
    \/ Exists(s) /\ sagas[s].stepDeadline = "ahead"
                 /\ sagas'[s] = [sagas[s] EXCEPT !.stepDeadline = "past"]
    \/ ~Exists(s) /\ sagas'[s] = FreshRow
    \/ \E t \in Threads : /\ job[t].pc = "update"
                          /\ job[t].saga = s
                          /\ Unmodified(job[t])
                          /\ sagas'[s] = RowOf(job[t])

NewJob(k) ==
    \/ \E s \in Sagas : k = StartJob(s)
    \/ \E s \in Sagas, event \in PaymentEvents \cup InventoryEvents :
           \E u \in Apply(sagas[s].state, event) :
               Exists(s) /\ Deliverable(s, event) /\ k = EventJob(s, u)
    \/ \E w \in Workers : \E x \in batch[w] : RetriesLeft(x) /\ k = RetryJob(x)
    \/ \E w \in Workers : \E x \in batch[w], u \in TimeoutTransitions :
           u.from = x.state /\ k = ExhaustJob(x, u)

JobStep(t) ==
    \/ job'[t] = job[t]
    \/ job'[t] = Idle
    \/ NewJob(job'[t])
    \/ job[t].pc = "update" /\ job'[t] = AfterUpdate(job[t])
    \/ job[t].pc = "record" /\ job'[t] = [job[t] EXCEPT !.pc = "publish"]

SnapshotStep(w) == \A x \in batch'[w] : x \in batch[w] \/ \E s \in TimedOut : x = Snapshot(s)

MessageStep(m) == m \in published \/ \E t \in Threads : job[t].pc = "publish" /\ m = Message(job[t])

WriteStep(w) ==
    \/ w \in writes
    \/ \E s \in Sagas : ~Exists(s) /\ sagas'[s] = FreshRow /\ w = StartWrite(s)
    \/ \E t \in Threads : /\ job[t].pc = "update"
                          /\ Unmodified(job[t])
                          /\ w = WriteOf(job[t])
                          /\ sagas'[job[t].saga] = RowOf(job[t])

LEMMA RowsStepwise ==
    ASSUME TypeOK, [Next]_vars, NEW s \in Sagas
    PROVE  RowStep(s)
<1>1. DOMAIN sagas = Sagas
  BY DEF TypeOK
<1>2. ASSUME NEW r \in Sagas, ~Exists(r), InsertRow(r) PROVE RowStep(s)
  BY <1>1, <1>2 DEF InsertRow, RowStep
<1>3. ASSUME NEW t \in Threads, job[t].pc = "update", Unmodified(job[t]), UpdateRow(job[t])
      PROVE  RowStep(s)
  <2>1. CASE job[t].saga = s
    BY <1>1, <1>3, <2>1 DEF UpdateRow, RowStep
  <2>2. CASE job[t].saga # s
    BY <1>1, <2>2, <1>3 DEF UpdateRow, RowStep
  <2> QED
    BY <2>1, <2>2
<1>4. CASE UNCHANGED sagas
  BY <1>4 DEF RowStep
<1>5. CASE \E c \in CommandConsumers, r \in Sagas : StartSaga(c, r) \/ StartSagaLosesReply(c, r)
  BY <1>2, <1>5 DEF StartSaga, StartSagaLosesReply
<1>6. CASE \E c \in EventConsumers, r \in Sagas, event \in PaymentEvents \cup InventoryEvents :
               HandleEvent(c, r, event)
  BY <1>4, <1>6 DEF HandleEvent, stored
<1>7. CASE \E w \in Workers : CheckTimeouts(w) \/ ProcessSaga(w)
  BY <1>4, <1>7 DEF CheckTimeouts, ProcessSaga, RetrySaga, ExhaustSaga, Take, stored
<1>8. CASE \E t \in Threads : Step(t) \/ UpdateError(t)
  BY <1>3, <1>4, <1>8 DEF Step, UpdateSaga, SkipModified, RecordHistory, Publish, UpdateError, stored
<1>9. CASE \E r \in Sagas : DeadlinePasses(r)
  BY <1>1, <1>9 DEF DeadlinePasses, RowStep
<1> QED
  BY <1>4, <1>5, <1>6, <1>7, <1>8, <1>9 DEF Next, Crash, vars, stored

LEMMA JobsStepwise ==
    ASSUME TypeOK, [Next]_vars, NEW t \in Threads
    PROVE  JobStep(t)
<1>1. DOMAIN job = Threads
  BY DEF TypeOK
<1>2. ASSUME NEW u \in Threads, NEW k, job' = [job EXCEPT ![u] = k],
             \/ k = Idle
             \/ NewJob(k)
             \/ job[u].pc = "update" /\ k = AfterUpdate(job[u])
             \/ job[u].pc = "record" /\ k = [job[u] EXCEPT !.pc = "publish"]
      PROVE  JobStep(t)
  <2>1. job'[t] = IF t = u THEN k ELSE job[t]
    BY <1>1, <1>2
  <2> QED
    BY <1>2, <2>1 DEF JobStep
<1>3. CASE UNCHANGED job
  BY <1>3 DEF JobStep
<1>4. ASSUME NEW c \in CommandConsumers, NEW s \in Sagas, StartSaga(c, s) PROVE JobStep(t)
  BY <1>2, <1>4 DEF StartSaga, NewJob, Threads
<1>5. CASE \E c \in CommandConsumers, s \in Sagas : StartSagaLosesReply(c, s)
  BY <1>3, <1>5 DEF StartSagaLosesReply
<1>6. ASSUME NEW c \in EventConsumers, NEW s \in Sagas,
             NEW event \in PaymentEvents \cup InventoryEvents, HandleEvent(c, s, event)
      PROVE  JobStep(t)
  <2>1. PICK u \in Apply(sagas[s].state, event) : job' = [job EXCEPT ![c] = EventJob(s, u)]
    BY <1>6 DEF HandleEvent
  <2>2. NewJob(EventJob(s, u))
    BY <1>6, <2>1 DEF HandleEvent, NewJob
  <2> QED
    BY <1>2, <2>1, <2>2 DEF Threads
<1>7. ASSUME NEW w \in Workers, RetrySaga(w) PROVE JobStep(t)
  <2>1. PICK x \in batch[w] : RetriesLeft(x) /\ job' = [job EXCEPT ![w] = RetryJob(x)]
    BY <1>7 DEF RetrySaga, Take
  <2>2. NewJob(RetryJob(x))
    BY <2>1 DEF NewJob
  <2> QED
    BY <1>2, <2>1, <2>2 DEF Threads
<1>8. ASSUME NEW w \in Workers, ExhaustSaga(w) PROVE JobStep(t)
  <2>1. PICK x \in batch[w], u \in TimeoutTransitions :
            u.from = x.state /\ job' = [job EXCEPT ![w] = ExhaustJob(x, u)]
    BY <1>8 DEF ExhaustSaga, Take
  <2>2. NewJob(ExhaustJob(x, u))
    BY <2>1 DEF NewJob
  <2> QED
    BY <1>2, <2>1, <2>2 DEF Threads
<1>9. CASE \E w \in Workers : CheckTimeouts(w)
  BY <1>3, <1>9 DEF CheckTimeouts
<1>10. ASSUME NEW u \in Threads, Step(u) \/ UpdateError(u) PROVE JobStep(t)
  <2>1. CASE UpdateSaga(u)
    BY <1>2, <2>1 DEF UpdateSaga
  <2>2. CASE SkipModified(u) \/ Publish(u) \/ UpdateError(u)
    BY <1>2, <2>2 DEF SkipModified, Publish, UpdateError
  <2>3. CASE RecordHistory(u)
    BY <1>2, <2>3 DEF RecordHistory
  <2> QED
    BY <1>10, <2>1, <2>2, <2>3 DEF Step
<1>11. CASE \E s \in Sagas : DeadlinePasses(s)
  BY <1>3, <1>11 DEF DeadlinePasses
<1>12. CASE Crash
  BY <1>12 DEF Crash, JobStep
<1>13. CASE UNCHANGED vars
  BY <1>3, <1>13 DEF vars
<1> QED
  BY <1>4, <1>5, <1>6, <1>7, <1>8, <1>9, <1>10, <1>11, <1>12, <1>13 DEF Next, ProcessSaga

LEMMA SnapshotsStepwise ==
    ASSUME TypeOK, [Next]_vars, NEW w \in Workers
    PROVE  SnapshotStep(w)
<1>1. DOMAIN batch = Workers
  BY DEF TypeOK
<1>2. CASE UNCHANGED batch
  BY <1>2 DEF SnapshotStep
<1>3. ASSUME NEW v \in Workers, NEW x, batch' = [batch EXCEPT ![v] = @ \ {x}]
      PROVE  SnapshotStep(w)
  BY <1>1, <1>3 DEF SnapshotStep
<1>4. ASSUME NEW v \in Workers, CheckTimeouts(v) PROVE SnapshotStep(w)
  BY <1>1, <1>4 DEF CheckTimeouts, SnapshotStep
<1>5. CASE \E v \in Workers : ProcessSaga(v)
  BY <1>3, <1>5 DEF ProcessSaga, RetrySaga, ExhaustSaga, Take
<1>6. CASE Crash
  BY <1>6 DEF Crash, SnapshotStep
<1>7. CASE \E c \in CommandConsumers, s \in Sagas : StartSaga(c, s) \/ StartSagaLosesReply(c, s)
  BY <1>2, <1>7 DEF StartSaga, StartSagaLosesReply
<1>8. CASE \E c \in EventConsumers, s \in Sagas, event \in PaymentEvents \cup InventoryEvents :
               HandleEvent(c, s, event)
  BY <1>2, <1>8 DEF HandleEvent
<1>9. CASE \E t \in Threads : Step(t) \/ UpdateError(t)
  BY <1>2, <1>9 DEF Step, UpdateSaga, SkipModified, RecordHistory, Publish, UpdateError
<1> QED
  BY <1>2, <1>4, <1>5, <1>6, <1>7, <1>8, <1>9 DEF Next, DeadlinePasses, vars

LEMMA MessagesStepwise ==
    ASSUME [Next]_vars, NEW m \in published'
    PROVE  MessageStep(m)
<1>1. CASE UNCHANGED published
  BY <1>1 DEF MessageStep
<1>2. CASE \E t \in Threads : Publish(t)
  BY <1>2 DEF Publish, MessageStep
<1>3. CASE \E c \in CommandConsumers, s \in Sagas : StartSaga(c, s) \/ StartSagaLosesReply(c, s)
  BY <1>1, <1>3 DEF StartSaga, StartSagaLosesReply
<1>4. CASE \E c \in EventConsumers, s \in Sagas, event \in PaymentEvents \cup InventoryEvents :
               HandleEvent(c, s, event)
  BY <1>1, <1>4 DEF HandleEvent
<1>5. CASE \E w \in Workers : CheckTimeouts(w) \/ ProcessSaga(w)
  BY <1>1, <1>5 DEF CheckTimeouts, ProcessSaga, RetrySaga, ExhaustSaga, Take
<1>6. CASE \E t \in Threads : UpdateSaga(t) \/ SkipModified(t) \/ RecordHistory(t) \/ UpdateError(t)
  BY <1>1, <1>6 DEF UpdateSaga, SkipModified, RecordHistory, UpdateError
<1> QED
  BY <1>1, <1>2, <1>3, <1>4, <1>5, <1>6 DEF Next, Step, DeadlinePasses, Crash, vars

LEMMA WritesStepwise ==
    ASSUME TypeOK, [Next]_vars, NEW w \in writes'
    PROVE  WriteStep(w)
<1>1. DOMAIN sagas = Sagas
  BY DEF TypeOK
<1>2. CASE UNCHANGED writes
  BY <1>2 DEF WriteStep
<1>3. ASSUME NEW s \in Sagas, ~Exists(s), InsertRow(s) PROVE WriteStep(w)
  BY <1>1, <1>3 DEF InsertRow, WriteStep
<1>4. ASSUME NEW t \in Threads, job[t].pc = "update", Unmodified(job[t]), UpdateRow(job[t])
      PROVE  WriteStep(w)
  <2>1. job[t] \in Jobs
    BY <1>4, BusyThread
  <2>2. sagas'[job[t].saga] = RowOf(job[t])
    BY <1>1, <1>4, <2>1 DEF UpdateRow, Jobs
  <2> QED
    BY <1>4, <2>2 DEF UpdateRow, WriteStep
<1>5. CASE \E c \in CommandConsumers, s \in Sagas : StartSaga(c, s) \/ StartSagaLosesReply(c, s)
  BY <1>3, <1>5 DEF StartSaga, StartSagaLosesReply
<1>6. CASE \E c \in EventConsumers, s \in Sagas, event \in PaymentEvents \cup InventoryEvents :
               HandleEvent(c, s, event)
  BY <1>2, <1>6 DEF HandleEvent, stored
<1>7. CASE \E v \in Workers : CheckTimeouts(v) \/ ProcessSaga(v)
  BY <1>2, <1>7 DEF CheckTimeouts, ProcessSaga, RetrySaga, ExhaustSaga, Take, stored
<1>8. CASE \E t \in Threads : Step(t) \/ UpdateError(t)
  BY <1>2, <1>4, <1>8 DEF Step, UpdateSaga, SkipModified, RecordHistory, Publish, UpdateError, stored
<1> QED
  BY <1>2, <1>5, <1>6, <1>7, <1>8 DEF Next, DeadlinePasses, Crash, vars, stored

-----------------------------------------------------------------------------
(* Bounds *)

\* How often a saga was written, by its state and retry count: once per retry and once
\* per transition, and the count of retries starts anew only with the compensation.
Within(state, retryCount, updatedAt) ==
    /\ retryCount <= MaxRetries
    /\ updatedAt <= 2 * MaxRetries + 3
    /\ state = "PAYMENT_PENDING" => updatedAt <= retryCount
    /\ state = "INVENTORY_PENDING" => updatedAt <= retryCount + 1
    /\ state = "CANCEL_PAYMENT_PENDING" => updatedAt <= retryCount + MaxRetries + 2

RowBounded(r) ==
    /\ Within(r.state, r.retryCount, r.updatedAt)
    /\ r.stepDeadline = "nil" <=> r.state \in TerminalStates

OnDiagram(from, to, event) == from # to => Edge(from, to, event) \in DiagramTransitions

JobBounded(j) ==
    /\ j.pc = "update" => Within(j.to, j.retryCount, j.updatedAt + 1)
    /\ j.pc # "update" => Within(j.to, j.retryCount, j.updatedAt)
    /\ j.stepDeadline = "nil" <=> j.to \in TerminalStates
    /\ OnDiagram(j.from, j.to, j.event)

RowsBounded == \A s \in Sagas : Exists(s) => RowBounded(sagas[s])

JobsBounded == \A t \in Threads : job[t] # Idle => JobBounded(job[t])

SnapshotsBounded ==
    \A w \in Workers : \A x \in batch[w] : Within(x.state, x.retryCount, x.updatedAt)

\* Every row, every job and every snapshot keeps to the bounds, whatever has become of the
\* others: that is why no assumption about who writes first is needed.
BoundsInv ==
    /\ TypeOK
    /\ RowsBounded
    /\ JobsBounded
    /\ SnapshotsBounded
    /\ \A m \in published : m.updatedAt <= 2 * MaxRetries + 3
    /\ DiagramComplete

LEMMA StartBounded ==
    ASSUME NEW s \in Sagas
    PROVE  /\ RowBounded(FreshRow)
           /\ JobBounded(StartJob(s))
           /\ OnDiagram(StartWrite(s).from, StartWrite(s).to, StartWrite(s).event)
<1>1. Within("PAYMENT_PENDING", 0, 0)
  BY RetriesAssumption DEF Within
<1>2. OnDiagram("STARTED", "PAYMENT_PENDING", "StartSaga")
  BY DEF OnDiagram, Edge, DiagramTransitions
<1>3. "PAYMENT_PENDING" \notin TerminalStates
  BY DEF TerminalStates
<1>4. RowBounded(FreshRow)
  BY <1>1, <1>3 DEF FreshRow, RowBounded
<1>5. JobBounded(StartJob(s))
  BY <1>1, <1>2, <1>3 DEF StartJob, JobBounded
<1> QED
  BY <1>2, <1>4, <1>5 DEF StartWrite

LEMMA EventJobBounded ==
    ASSUME NEW s \in Sagas, sagas[s] \in Rows, RowBounded(sagas[s]),
           NEW event, NEW u \in Apply(sagas[s].state, event)
    PROVE  JobBounded(EventJob(s, u))
<1> DEFINE r == sagas[s]
<1>1. /\ u \in Transitions /\ u.from = r.state
      /\ r.retryCount \in Nat /\ r.updatedAt \in Nat
  BY DEF Apply, Rows
<1>2. Within(u.to, r.retryCount, r.updatedAt + 1)
  BY <1>1, RetriesAssumption DEF RowBounded, Within, Transitions, Transition
<1>3. StepDeadline(u.to) = "nil" <=> u.to \in TerminalStates
  BY <1>1 DEF Transitions, Transition, StepDeadline, TerminalStates
<1>4. OnDiagram(u.from, u.to, u.event)
  BY <1>1 DEF Transitions, Transition, OnDiagram, Edge, DiagramTransitions
<1> DEFINE j == EventJob(s, u)
<1>5. /\ j.pc = "update" /\ j.updatedAt = r.updatedAt /\ j.retryCount = r.retryCount
      /\ j.from = u.from /\ j.to = u.to /\ j.event = u.event
      /\ j.stepDeadline = StepDeadline(u.to)
  BY DEF EventJob
<1> HIDE DEF j, r
<1>6. JobBounded(j)
  BY <1>2, <1>3, <1>4, <1>5 DEF JobBounded
<1> QED
  BY <1>6 DEF j

LEMMA RetryJobBounded ==
    ASSUME NEW x \in Snapshots, Within(x.state, x.retryCount, x.updatedAt), RetriesLeft(x)
    PROVE  JobBounded(RetryJob(x))
<1>1. x.retryCount \in Nat /\ x.updatedAt \in Nat /\ x.state \in PendingStates
  BY DEF Snapshots
<1>2. Within(x.state, x.retryCount + 1, x.updatedAt + 1)
  BY <1>1, RetriesAssumption DEF RetriesLeft, Within, PendingStates
<1>3. x.state \notin TerminalStates
  BY <1>1 DEF PendingStates, TerminalStates
<1> DEFINE j == RetryJob(x)
<1>4. /\ j.pc = "update" /\ j.updatedAt = x.updatedAt /\ j.retryCount = x.retryCount + 1
      /\ j.from = x.state /\ j.to = x.state /\ j.stepDeadline = "ahead"
  BY DEF RetryJob
<1> HIDE DEF j
<1>5. JobBounded(j)
  BY <1>2, <1>3, <1>4 DEF JobBounded, OnDiagram
<1> QED
  BY <1>5 DEF j

LEMMA ExhaustJobBounded ==
    ASSUME NEW x \in Snapshots, Within(x.state, x.retryCount, x.updatedAt),
           NEW u \in TimeoutTransitions, u.from = x.state
    PROVE  JobBounded(ExhaustJob(x, u))
<1> DEFINE count == IF u.to = "CANCEL_PAYMENT_PENDING" THEN 0 ELSE x.retryCount
<1>1. x.retryCount \in Nat /\ x.updatedAt \in Nat
  BY DEF Snapshots
<1>2. Within(u.to, count, x.updatedAt + 1)
  BY <1>1, RetriesAssumption DEF Within, TimeoutTransitions, Transition
<1>3. StepDeadline(u.to) = "nil" <=> u.to \in TerminalStates
  BY DEF TimeoutTransitions, Transition, StepDeadline, TerminalStates
<1>4. OnDiagram(x.state, u.to, "Timeout")
  BY DEF TimeoutTransitions, Transition, OnDiagram, Edge, DiagramTransitions
<1> DEFINE j == ExhaustJob(x, u)
<1>5. /\ j.pc = "update" /\ j.updatedAt = x.updatedAt /\ j.retryCount = count
      /\ j.from = x.state /\ j.to = u.to /\ j.event = "Timeout"
      /\ j.stepDeadline = StepDeadline(u.to)
  BY DEF ExhaustJob
<1> HIDE DEF j, count
<1>6. JobBounded(j)
  BY <1>2, <1>3, <1>4, <1>5 DEF JobBounded
<1> QED
  BY <1>6 DEF j

LEMMA UpdateBounded ==
    ASSUME NEW j \in Jobs, JobBounded(j), j.pc = "update"
    PROVE  RowBounded(RowOf(j)) /\ JobBounded(AfterUpdate(j))
<1>1. RowBounded(RowOf(j))
  BY DEF RowOf, RowBounded, JobBounded
<1>2. LET k == AfterUpdate(j)
      IN  /\ k.pc # "update" /\ k.updatedAt = j.updatedAt + 1
          /\ k.from = j.from /\ k.to = j.to /\ k.event = j.event
          /\ k.retryCount = j.retryCount /\ k.stepDeadline = j.stepDeadline
  BY DEF AfterUpdate, Jobs
<1> QED
  BY <1>1, <1>2 DEF JobBounded

LEMMA BoundsInit == Init => BoundsInv
<1> SUFFICES ASSUME Init PROVE BoundsInv
  OBVIOUS
<1>1. TypeOK
  BY TypeInit
<1>2. RowsBounded /\ DiagramComplete
  BY DEF Init, RowsBounded, Exists, DiagramComplete
<1>3. JobsBounded /\ SnapshotsBounded
  BY DEF Init, JobsBounded, SnapshotsBounded
<1> QED
  BY <1>1, <1>2, <1>3 DEF Init, BoundsInv

LEMMA RowsBoundedStep == BoundsInv /\ [Next]_vars => RowsBounded'
<1> SUFFICES ASSUME BoundsInv, [Next]_vars, NEW s \in Sagas, Exists(s)'
             PROVE  RowBounded(sagas'[s])
  BY DEF RowsBounded
<1>1. TypeOK /\ RowStep(s) /\ sagas'[s] # NoSaga
  BY RowsStepwise DEF BoundsInv, Exists
<1>2. CASE sagas'[s] = sagas[s]
  BY <1>1, <1>2 DEF BoundsInv, RowsBounded, Exists
<1>3. CASE Exists(s) /\ sagas[s].stepDeadline = "ahead"
                     /\ sagas'[s] = [sagas[s] EXCEPT !.stepDeadline = "past"]
  <2>1. sagas[s] \in Rows /\ RowBounded(sagas[s])
    BY <1>1, <1>3 DEF TypeOK, Exists, BoundsInv, RowsBounded
  <2>2. /\ sagas'[s].state = sagas[s].state
        /\ sagas'[s].retryCount = sagas[s].retryCount
        /\ sagas'[s].updatedAt = sagas[s].updatedAt
        /\ sagas'[s].stepDeadline = "past"
    BY <1>3, <2>1 DEF Rows
  <2> QED
    BY <1>3, <2>1, <2>2 DEF RowBounded
<1>4. CASE sagas'[s] = FreshRow
  BY <1>4, StartBounded
<1>5. ASSUME NEW t \in Threads, job[t].pc = "update", sagas'[s] = RowOf(job[t])
      PROVE  RowBounded(sagas'[s])
  <2>1. job[t] \in Jobs /\ job[t] # Idle
    BY <1>1, <1>5, BusyThread DEF Idle
  <2>2. JobBounded(job[t])
    BY <2>1 DEF BoundsInv, JobsBounded
  <2> QED
    BY <1>5, <2>1, <2>2, UpdateBounded
<1> QED
  BY <1>1, <1>2, <1>3, <1>4, <1>5 DEF RowStep

LEMMA JobsBoundedStep == BoundsInv /\ [Next]_vars => JobsBounded'
<1> SUFFICES ASSUME BoundsInv, [Next]_vars, NEW t \in Threads, job'[t] # Idle
             PROVE  JobBounded(job'[t])
  BY DEF JobsBounded
<1> DEFINE k == job'[t]
<1>1. TypeOK /\ JobStep(t)
  BY JobsStepwise DEF BoundsInv
<1>2. CASE k = job[t]
  BY <1>2 DEF BoundsInv, JobsBounded
<1>3. ASSUME NEW s \in Sagas, k = StartJob(s) PROVE JobBounded(k)
  BY <1>3, StartBounded
<1>4. ASSUME NEW s \in Sagas, Exists(s), NEW event, NEW u \in Apply(sagas[s].state, event),
             k = EventJob(s, u)
      PROVE  JobBounded(k)
  <2>1. sagas[s] \in Rows /\ RowBounded(sagas[s])
    BY <1>1, <1>4 DEF TypeOK, Exists, BoundsInv, RowsBounded
  <2> QED
    BY <1>4, <2>1, EventJobBounded
<1>5. ASSUME NEW w \in Workers, NEW x \in batch[w]
      PROVE  x \in Snapshots /\ Within(x.state, x.retryCount, x.updatedAt)
  BY <1>1 DEF TypeOK, BoundsInv, SnapshotsBounded
<1>6. ASSUME NEW w \in Workers, NEW x \in batch[w], RetriesLeft(x), k = RetryJob(x)
      PROVE  JobBounded(k)
  BY <1>5, <1>6, RetryJobBounded
<1>7. ASSUME NEW w \in Workers, NEW x \in batch[w], NEW u \in TimeoutTransitions,
             u.from = x.state, k = ExhaustJob(x, u)
      PROVE  JobBounded(k)
  BY <1>5, <1>7, ExhaustJobBounded
<1>8. CASE NewJob(k)
  BY <1>3, <1>4, <1>6, <1>7, <1>8 DEF NewJob
<1>9. ASSUME job[t].pc \in {"update", "record"} PROVE job[t] \in Jobs /\ JobBounded(job[t])
  <2>1. job[t] \in Jobs /\ job[t] # Idle
    BY <1>1, <1>9, BusyThread DEF Idle
  <2> QED
    BY <2>1 DEF BoundsInv, JobsBounded
<1>10. CASE job[t].pc = "update" /\ k = AfterUpdate(job[t])
  BY <1>9, <1>10, UpdateBounded
<1>11. CASE job[t].pc = "record" /\ k = [job[t] EXCEPT !.pc = "publish"]
  <2>1. job[t] \in Jobs /\ JobBounded(job[t])
    BY <1>9, <1>11
  <2>2. /\ k.pc = "publish" /\ k.updatedAt = job[t].updatedAt
        /\ k.from = job[t].from /\ k.to = job[t].to /\ k.event = job[t].event
        /\ k.retryCount = job[t].retryCount /\ k.stepDeadline = job[t].stepDeadline
    BY <1>11, <2>1 DEF Jobs
  <2> QED
    BY <1>11, <2>1, <2>2 DEF JobBounded
<1> QED
  BY <1>1, <1>2, <1>8, <1>10, <1>11 DEF JobStep

LEMMA SnapshotsBoundedStep == BoundsInv /\ [Next]_vars => SnapshotsBounded'
<1> SUFFICES ASSUME BoundsInv, [Next]_vars, NEW w \in Workers, NEW x \in batch'[w]
             PROVE  Within(x.state, x.retryCount, x.updatedAt)
  BY DEF SnapshotsBounded
<1>1. SnapshotStep(w)
  BY SnapshotsStepwise DEF BoundsInv
<1>2. CASE x \in batch[w]
  BY <1>2 DEF BoundsInv, SnapshotsBounded
<1>3. ASSUME NEW s \in TimedOut, x = Snapshot(s) PROVE Within(x.state, x.retryCount, x.updatedAt)
  <2>1. RowBounded(sagas[s])
    BY DEF TimedOut, BoundsInv, RowsBounded
  <2> QED
    BY <1>3, <2>1 DEF Snapshot, RowBounded
<1> QED
  BY <1>1, <1>2, <1>3 DEF SnapshotStep

LEMMA MessagesBoundedStep ==
    BoundsInv /\ [Next]_vars => \A m \in published' : m.updatedAt <= 2 * MaxRetries + 3
<1> SUFFICES ASSUME BoundsInv, [Next]_vars, NEW m \in published'
             PROVE  m.updatedAt <= 2 * MaxRetries + 3
  OBVIOUS
<1>1. MessageStep(m)
  BY MessagesStepwise
<1>2. CASE m \in published
  BY <1>2 DEF BoundsInv
<1>3. ASSUME NEW t \in Threads, job[t].pc = "publish", m = Message(job[t])
      PROVE  m.updatedAt <= 2 * MaxRetries + 3
  <2>1. JobBounded(job[t])
    BY <1>3 DEF BoundsInv, JobsBounded, Idle
  <2> QED
    BY <1>3, <2>1 DEF JobBounded, Within, Message
<1> QED
  BY <1>1, <1>2, <1>3 DEF MessageStep

LEMMA DiagramStep == BoundsInv /\ [Next]_vars => DiagramComplete'
<1> SUFFICES ASSUME BoundsInv, [Next]_vars, NEW w \in writes'
             PROVE  OnDiagram(w.from, w.to, w.event)
  BY DEF DiagramComplete, OnDiagram
<1>1. TypeOK /\ WriteStep(w)
  BY WritesStepwise DEF BoundsInv
<1>2. CASE w \in writes
  BY <1>2 DEF BoundsInv, DiagramComplete, OnDiagram
<1>3. ASSUME NEW s \in Sagas, w = StartWrite(s) PROVE OnDiagram(w.from, w.to, w.event)
  BY <1>3, StartBounded
<1>4. ASSUME NEW t \in Threads, job[t].pc = "update", w = WriteOf(job[t])
      PROVE  OnDiagram(w.from, w.to, w.event)
  <2>1. JobBounded(job[t])
    BY <1>4 DEF BoundsInv, JobsBounded, Idle
  <2> QED
    BY <1>4, <2>1 DEF JobBounded, WriteOf
<1> QED
  BY <1>1, <1>2, <1>3, <1>4 DEF WriteStep

LEMMA BoundsStep == BoundsInv /\ [Next]_vars => BoundsInv'
<1> SUFFICES ASSUME BoundsInv, [Next]_vars PROVE BoundsInv'
  OBVIOUS
<1>1. TypeOK'
  BY TypeStep DEF BoundsInv
<1> QED
  BY <1>1, RowsBoundedStep, JobsBoundedStep, SnapshotsBoundedStep, MessagesBoundedStep, DiagramStep
     DEF BoundsInv

LEMMA BoundsHold == Spec => []BoundsInv
<1>1. Init => BoundsInv
  BY BoundsInit
<1>2. BoundsInv /\ [Next]_vars => BoundsInv'
  BY BoundsStep
<1> QED
  BY <1>1, <1>2, PTL DEF Spec

\* Every saga is written, and sends messages, at most 2 * MaxRetries + 4 times, and its
\* retry count never passes the limit.
THEOREM BoundedMessages == Spec => []MessagesBounded
<1>1. BoundsInv => MessagesBounded
  BY DEF BoundsInv, RowsBounded, RowBounded, Within, MessagesBounded
<1> QED
  BY <1>1, BoundsHold, PTL

\* A saga that waits has a deadline for the timeout worker to find it by, and a finished
\* one has none.
THEOREM DeadlineWhilePending == Spec => []PendingHasDeadline
<1>1. BoundsInv => PendingHasDeadline
  BY DEF BoundsInv, RowsBounded, RowBounded, PendingHasDeadline
<1> QED
  BY <1>1, BoundsHold, PTL

\* The diagram served over HTTP has every edge a saga can take.
THEOREM EdgesAreOnDiagram == Spec => []DiagramComplete
<1>1. BoundsInv => DiagramComplete
  BY DEF BoundsInv
<1> QED
  BY <1>1, BoundsHold, PTL

-----------------------------------------------------------------------------
(* What a completed saga has asked for *)

\* The commands without which a saga does not get to a state.
Asked(log, s, state) ==
    /\ state \in {"INVENTORY_PENDING", "CANCEL_PAYMENT_PENDING", "COMPLETED"} =>
           \E m \in log : m.saga = s /\ m.type = "ReservePayment"
    /\ state = "COMPLETED" => \E m \in log : m.saga = s /\ m.type = "ReserveInventory"

CompensationLasts(from, to) ==
    from = "CANCEL_PAYMENT_PENDING" => to \in {"CANCEL_PAYMENT_PENDING", "FAILED"}

RowsAsked == \A s \in Sagas : Exists(s) => Asked(published, s, sagas[s].state)

JobsAsked ==
    \A t \in Threads : job[t].pc = "update" =>
        Asked(published, job[t].saga, job[t].to) /\ CompensationLasts(job[t].from, job[t].to)

SnapshotsAsked == \A w \in Workers : \A x \in batch[w] : Asked(published, x.saga, x.state)

\* Once a saga was to be compensated it is never to be completed.
CompensationIsFinal ==
    \A w \in writes : w.to = "CANCEL_PAYMENT_PENDING" =>
        sagas[w.saga].state \in {"CANCEL_PAYMENT_PENDING", "FAILED"}

\* Here the optimistic lock is needed, for a job that was decided before the compensation
\* began must not be written after it.
EarnedInv ==
    /\ IInv
    /\ RowsAsked
    /\ JobsAsked
    /\ SnapshotsAsked
    /\ CompensationIsFinal

LEMMA AskedOnce ==
    ASSUME [Next]_vars, NEW s, NEW state, Asked(published, s, state)
    PROVE  Asked(published', s, state)
<1>1. published \subseteq published'
  BY DEF Next, StartSaga, StartSagaLosesReply, HandleEvent, CheckTimeouts, ProcessSaga, RetrySaga,
         ExhaustSaga, Take, Step, UpdateSaga, SkipModified, RecordHistory, Publish, UpdateError,
         DeadlinePasses, Crash, vars
<1> QED
  BY <1>1 DEF Asked

LEMMA EventJobAsked ==
    ASSUME NEW s \in Sagas, Asked(published, s, sagas[s].state), NEW event, Deliverable(s, event),
           NEW u \in Apply(sagas[s].state, event)
    PROVE  Asked(published, s, u.to) /\ CompensationLasts(u.from, u.to)
<1>1. u \in Transitions /\ u.from = sagas[s].state /\ u.event = event
  BY DEF Apply
<1>2. CASE u.to = "INVENTORY_PENDING"
  <2>1. event = "PaymentReserved"
    BY <1>1, <1>2 DEF Transitions, Transition
  <2>2. AnswerTo(event) = "ReservePayment"
    BY <2>1 DEF AnswerTo, InventoryEvents
  <2> QED
    BY <1>1, <1>2, <2>2 DEF Deliverable, Asked, CompensationLasts, Transitions, Transition
<1>3. CASE u.to = "COMPLETED"
  <2>1. event = "InventoryReserved" /\ u.from = "INVENTORY_PENDING"
    BY <1>1, <1>3 DEF Transitions, Transition
  <2>2. AnswerTo(event) = "ReserveInventory"
    BY <2>1 DEF AnswerTo, InventoryEvents
  <2> QED
    BY <1>1, <1>3, <2>1, <2>2 DEF Deliverable, Asked, CompensationLasts
<1>4. CASE u.to = "CANCEL_PAYMENT_PENDING"
  <2>1. u.from = "INVENTORY_PENDING"
    BY <1>1, <1>4 DEF Transitions, Transition
  <2> QED
    BY <1>1, <1>4, <2>1 DEF Asked, CompensationLasts
<1>5. CASE u.to = "FAILED"
  BY <1>5 DEF Asked, CompensationLasts
<1> QED
  BY <1>1, <1>2, <1>3, <1>4, <1>5 DEF Transitions, Transition

LEMMA ExhaustJobAsked ==
    ASSUME NEW x, Asked(published, x.saga, x.state), NEW u \in TimeoutTransitions, u.from = x.state
    PROVE  Asked(published, x.saga, u.to) /\ CompensationLasts(x.state, u.to)
BY DEF Asked, CompensationLasts, TimeoutTransitions, Transition

LEMMA EarnedInit == Init => EarnedInv
<1> SUFFICES ASSUME Init PROVE EarnedInv
  OBVIOUS
<1>1. RowsAsked /\ CompensationIsFinal
  BY DEF Init, RowsAsked, Exists, CompensationIsFinal
<1>2. JobsAsked /\ SnapshotsAsked
  BY DEF Init, JobsAsked, SnapshotsAsked, Idle
<1> QED
  BY <1>1, <1>2, InvInit DEF EarnedInv

LEMMA RowsAskedStep == EarnedInv /\ [Next]_vars => RowsAsked'
<1> SUFFICES ASSUME EarnedInv, [Next]_vars, NEW s \in Sagas, Exists(s)'
             PROVE  Asked(published', s, sagas'[s].state)
  BY DEF RowsAsked
<1>1. TypeOK /\ RowStep(s) /\ sagas'[s] # NoSaga
  BY RowsStepwise DEF EarnedInv, IInv, Exists
<1>2. Asked(published, s, sagas'[s].state)
  <2>1. CASE sagas'[s] = sagas[s]
    BY <1>1, <2>1 DEF EarnedInv, RowsAsked, Exists
  <2>2. CASE Exists(s) /\ sagas'[s] = [sagas[s] EXCEPT !.stepDeadline = "past"]
    <3>1. sagas[s] \in Rows
      BY <1>1, <2>2 DEF TypeOK, Exists
    <3>2. sagas'[s].state = sagas[s].state
      BY <2>2, <3>1 DEF Rows
    <3> QED
      BY <2>2, <3>2 DEF EarnedInv, RowsAsked
  <2>3. CASE sagas'[s] = FreshRow
    BY <2>3 DEF FreshRow, Asked
  <2>4. ASSUME NEW t \in Threads, job[t].pc = "update", job[t].saga = s, sagas'[s] = RowOf(job[t])
        PROVE  Asked(published, s, sagas'[s].state)
    BY <2>4 DEF EarnedInv, JobsAsked, RowOf
  <2> QED
    BY <1>1, <2>1, <2>2, <2>3, <2>4 DEF RowStep
<1> QED
  BY <1>2, AskedOnce

LEMMA JobsAskedStep == EarnedInv /\ [Next]_vars => JobsAsked'
<1> SUFFICES ASSUME EarnedInv, [Next]_vars, NEW t \in Threads, NEW k, k = job'[t], k.pc = "update"
             PROVE  Asked(published', k.saga, k.to) /\ CompensationLasts(k.from, k.to)
  BY DEF JobsAsked
<1>1. TypeOK /\ JobStep(t)
  BY JobsStepwise DEF EarnedInv, IInv
<1>2. ASSUME k = job[t] PROVE Asked(published, k.saga, k.to) /\ CompensationLasts(k.from, k.to)
  BY <1>2 DEF EarnedInv, JobsAsked
<1>3. ASSUME NEW s \in Sagas, Exists(s), NEW event, Deliverable(s, event),
             NEW u \in Apply(sagas[s].state, event), k = EventJob(s, u)
      PROVE  Asked(published, k.saga, k.to) /\ CompensationLasts(k.from, k.to)
  <2>1. Asked(published, s, u.to) /\ CompensationLasts(u.from, u.to)
    BY <1>3, EventJobAsked DEF EarnedInv, RowsAsked
  <2> QED
    BY <1>3, <2>1 DEF EventJob
<1>4. ASSUME NEW w \in Workers, NEW x \in batch[w], k = RetryJob(x)
      PROVE  Asked(published, k.saga, k.to) /\ CompensationLasts(k.from, k.to)
  BY <1>4 DEF EarnedInv, SnapshotsAsked, RetryJob, CompensationLasts
<1>5. ASSUME NEW w \in Workers, NEW x \in batch[w], NEW u \in TimeoutTransitions,
             u.from = x.state, k = ExhaustJob(x, u)
      PROVE  Asked(published, k.saga, k.to) /\ CompensationLasts(k.from, k.to)
  <2>1. Asked(published, x.saga, u.to) /\ CompensationLasts(x.state, u.to)
    BY <1>5, ExhaustJobAsked DEF EarnedInv, SnapshotsAsked
  <2> QED
    BY <1>5, <2>1 DEF ExhaustJob
<1>6. ASSUME NewJob(k) PROVE Asked(published, k.saga, k.to) /\ CompensationLasts(k.from, k.to)
  <2>1. \A s \in Sagas : k # StartJob(s)
    BY DEF StartJob
  <2> QED
    BY <1>3, <1>4, <1>5, <1>6, <2>1 DEF NewJob
<1>7. ~(job[t].pc = "update" /\ k = AfterUpdate(job[t]))
  BY <1>1, BusyThread, AfterUpdateFields
<1>8. ~(job[t].pc = "record" /\ k = [job[t] EXCEPT !.pc = "publish"])
  BY <1>1, BusyThread DEF Jobs
<1>9. Asked(published, k.saga, k.to) /\ CompensationLasts(k.from, k.to)
  BY <1>1, <1>2, <1>6, <1>7, <1>8 DEF JobStep, Idle
<1> QED
  BY <1>9, AskedOnce

LEMMA SnapshotsAskedStep == EarnedInv /\ [Next]_vars => SnapshotsAsked'
<1> SUFFICES ASSUME EarnedInv, [Next]_vars, NEW w \in Workers, NEW x \in batch'[w]
             PROVE  Asked(published', x.saga, x.state)
  BY DEF SnapshotsAsked
<1>1. SnapshotStep(w)
  BY SnapshotsStepwise DEF EarnedInv, IInv
<1>2. Asked(published, x.saga, x.state)
  BY <1>1 DEF SnapshotStep, Snapshot, TimedOut, EarnedInv, SnapshotsAsked, RowsAsked
<1> QED
  BY <1>2, AskedOnce

LEMMA CompensationStep == EarnedInv /\ [Next]_vars => CompensationIsFinal'
<1> SUFFICES ASSUME EarnedInv, [Next]_vars, NEW w \in writes', w.to = "CANCEL_PAYMENT_PENDING"
             PROVE  sagas'[w.saga].state \in {"CANCEL_PAYMENT_PENDING", "FAILED"}
  BY DEF CompensationIsFinal
<1>1. TypeOK /\ WriteStep(w)
  BY WritesStepwise DEF EarnedInv, IInv
<1>2. ASSUME w \in writes
      PROVE  sagas'[w.saga].state \in {"CANCEL_PAYMENT_PENDING", "FAILED"}
  <2> DEFINE s == w.saga
  <2>1. /\ s \in Sagas /\ Exists(s) /\ sagas[s] \in Rows
        /\ sagas[s].state \in {"CANCEL_PAYMENT_PENDING", "FAILED"}
    BY <1>1, <1>2 DEF TypeOK, Writes, EarnedInv, IInv, NoLostUpdate, Exists, CompensationIsFinal
  <2>2. RowStep(s)
    BY <1>1, <2>1, RowsStepwise
  <2>3. CASE sagas'[s] = [sagas[s] EXCEPT !.stepDeadline = "past"]
    BY <2>1, <2>3 DEF Rows
  <2>4. ASSUME NEW t \in Threads, job[t].pc = "update", job[t].saga = s, Unmodified(job[t]),
               sagas'[s] = RowOf(job[t])
        PROVE  sagas'[s].state \in {"CANCEL_PAYMENT_PENDING", "FAILED"}
    <3>1. PICK j \in Jobs : j = job[t] /\ UnwrittenJob(j)
      BY <1>1, <2>4, BusyThread DEF EarnedInv, IInv, JobsAreSound, JobSound, Idle
    <3>2. j.from = sagas[s].state /\ j.from \in PendingStates
      BY <2>4, <3>1 DEF UnwrittenJob, Seen, Unmodified
    <3>3. j.from = "CANCEL_PAYMENT_PENDING"
      BY <2>1, <3>2 DEF PendingStates
    <3>4. j.to \in {"CANCEL_PAYMENT_PENDING", "FAILED"}
      BY <2>4, <3>1, <3>3 DEF EarnedInv, JobsAsked, CompensationLasts
    <3> QED
      BY <2>4, <3>1, <3>4 DEF RowOf
  <2> QED
    BY <2>1, <2>2, <2>3, <2>4 DEF RowStep
<1>3. ASSUME NEW s \in Sagas PROVE w # StartWrite(s)
  BY DEF StartWrite
<1>4. ASSUME NEW t \in Threads, w = WriteOf(job[t]), sagas'[job[t].saga] = RowOf(job[t])
      PROVE  sagas'[w.saga].state \in {"CANCEL_PAYMENT_PENDING", "FAILED"}
  BY <1>4 DEF WriteOf, RowOf
<1> QED
  BY <1>1, <1>2, <1>3, <1>4 DEF WriteStep

LEMMA EarnedStep == EarnedInv /\ [Next]_vars => EarnedInv'
<1> SUFFICES ASSUME EarnedInv, [Next]_vars PROVE EarnedInv'
  OBVIOUS
<1>1. IInv'
  BY InvStep DEF EarnedInv
<1> QED
  BY <1>1, RowsAskedStep, JobsAskedStep, SnapshotsAskedStep, CompensationStep DEF EarnedInv

LEMMA InvGivesEarned == EarnedInv => CompletionIsEarned
<1> SUFFICES ASSUME EarnedInv, NEW m \in published, m.type = "SagaCompleted"
             PROVE  /\ Sent(m.saga, "ReservePayment") /\ Sent(m.saga, "ReserveInventory")
                    /\ ~Sent(m.saga, "CancelPayment")
  BY DEF CompletionIsEarned, Sent
<1>1. /\ TypeOK /\ NoLostUpdate /\ PublishedAfterPersist
      /\ m.saga \in Sagas /\ Exists(m.saga) /\ sagas[m.saga].state \in SagaStates
  BY MessagesAreOld, RowNumbers DEF EarnedInv, IInv, TypeOK, Messages
<1>2. sagas[m.saga].state = "COMPLETED"
  <2>1. MessageFor(sagas[m.saga].state) = "SagaCompleted"
    BY InvGivesOneOutcome DEF EarnedInv, OneOutcome, TerminalEvents
  <2> QED
    BY <1>1, <2>1 DEF MessageFor, SagaStates, PendingStates, TerminalStates
<1>3. Sent(m.saga, "ReservePayment") /\ Sent(m.saga, "ReserveInventory")
  BY <1>1, <1>2 DEF EarnedInv, RowsAsked, Asked, Sent
<1>4. ASSUME NEW n \in published, n.saga = m.saga, n.type = "CancelPayment" PROVE FALSE
  <2>1. PICK w \in writes : w.saga = n.saga /\ n.type = MessageFor(w.to)
    BY <1>1 DEF PublishedAfterPersist
  <2>2. w.to \in SagaStates
    BY <1>1 DEF TypeOK, Writes
  <2>3. w.to = "CANCEL_PAYMENT_PENDING"
    BY <1>4, <2>1, <2>2 DEF MessageFor, SagaStates, PendingStates, TerminalStates
  <2> QED
    BY <1>2, <1>4, <2>1, <2>3 DEF EarnedInv, CompensationIsFinal
<1> QED
  BY <1>3, <1>4 DEF Sent

\* A saga that reports completion has asked for both reservations and never for a
\* cancellation, however many timeouts, retries and late answers came between.
THEOREM CompletionEarned == Spec => []CompletionIsEarned
<1>1. Init => EarnedInv
  BY EarnedInit
<1>2. EarnedInv /\ [Next]_vars => EarnedInv'
  BY EarnedStep
<1>3. EarnedInv => CompletionIsEarned
  BY InvGivesEarned
<1> QED
  BY <1>1, <1>2, <1>3, PTL DEF Spec

-----------------------------------------------------------------------------
(* The path of a saga *)

\* How far a saga is in a state.
Stage(state) ==
    CASE state = "STARTED"                -> 0
      [] state = "PAYMENT_PENDING"        -> 1
      [] state = "INVENTORY_PENDING"      -> 2
      [] state = "CANCEL_PAYMENT_PENDING" -> 3
      [] OTHER                            -> 4

StaysToRetry(j) == j.from = j.to <=> j.event = "Retry"

\* A later write of a saga starts no earlier than where the one before it led.
Forward ==
    \A v, w \in writes :
        v.saga = w.saga /\ v.updatedAt < w.updatedAt => Stage(v.to) <= Stage(w.from)

\* The optimistic lock is needed here, too: a write continues the path only because it is
\* made in the state it was decided in.
PathInv ==
    /\ BoundsInv
    /\ IInv
    /\ \A t \in Threads : job[t] # Idle => StaysToRetry(job[t])
    /\ \A w \in writes : StaysToRetry(w)
    /\ Forward
    /\ \A w \in writes : PathTo(writes, w.saga, w.to)

\* An edge of the diagram leads forward, and which events lead to a state.
LEMMA EdgesForward ==
    ASSUME NEW from, NEW to, NEW event, Edge(from, to, event) \in DiagramTransitions
    PROVE  /\ Stage(from) < Stage(to) /\ event # "Retry"
           /\ from = "STARTED" => event = "StartSaga"
           /\ to = "INVENTORY_PENDING" => from = "PAYMENT_PENDING" /\ event = "PaymentReserved"
           /\ to = "COMPLETED" => from = "INVENTORY_PENDING" /\ event = "InventoryReserved"
           /\ to = "CANCEL_PAYMENT_PENDING" => from = "INVENTORY_PENDING" /\ event \in {"InventoryFailed", "Timeout"}
           /\ to = "FAILED" => \/ from = "PAYMENT_PENDING" /\ event \in {"PaymentFailed", "Timeout"}
                               \/ from = "CANCEL_PAYMENT_PENDING" /\ event \in {"PaymentCancelled", "Timeout"}
           /\ to = "PAYMENT_PENDING" => from = "STARTED"
<1>1. ASSUME NEW e \in DiagramTransitions
      PROVE  /\ Stage(e.from) < Stage(e.to) /\ e.event # "Retry"
             /\ e.from = "STARTED" => e.event = "StartSaga"
             /\ e.to = "INVENTORY_PENDING" => e.from = "PAYMENT_PENDING" /\ e.event = "PaymentReserved"
             /\ e.to = "COMPLETED" => e.from = "INVENTORY_PENDING" /\ e.event = "InventoryReserved"
             /\ e.to = "CANCEL_PAYMENT_PENDING" => e.from = "INVENTORY_PENDING" /\ e.event \in {"InventoryFailed", "Timeout"}
             /\ e.to = "FAILED" => \/ e.from = "PAYMENT_PENDING" /\ e.event \in {"PaymentFailed", "Timeout"}
                                   \/ e.from = "CANCEL_PAYMENT_PENDING" /\ e.event \in {"PaymentCancelled", "Timeout"}
             /\ e.to = "PAYMENT_PENDING" => e.from = "STARTED"
  BY DEF DiagramTransitions, Edge, Stage
<1>2. Edge(from, to, event).from = from /\ Edge(from, to, event).to = to /\ Edge(from, to, event).event = event
  BY DEF Edge
<1> QED
  BY <1>1, <1>2

LEMMA PathExtended ==
    ASSUME NEW log, NEW log2, log \subseteq log2, NEW s, NEW state, PathTo(log, s, state)
    PROVE  PathTo(log2, s, state)
BY DEF PathTo

\* A step along an edge continues the path, and so does a retry.
LEMMA PathContinued ==
    ASSUME NEW log, NEW w \in log, PathTo(log, w.saga, w.from),
           w.from # w.to => Edge(w.from, w.to, w.event) \in DiagramTransitions
    PROVE  PathTo(log, w.saga, w.to)
<1>1. CASE w.from = w.to
  BY <1>1
<1>2. CASE w.from # w.to
  <2> QED
    BY <1>2, EdgesForward DEF PathTo
<1> QED
  BY <1>1, <1>2

LEMMA StagesNatural == \A state : Stage(state) \in 0..4
BY DEF Stage

LEMMA PathInit == Init => PathInv
<1> SUFFICES ASSUME Init PROVE PathInv
  OBVIOUS
<1>1. BoundsInv /\ IInv
  BY BoundsInit, InvInit
<1> QED
  BY <1>1 DEF Init, PathInv, Forward

LEMMA NewJobStays ==
    ASSUME TypeOK, NEW k, NewJob(k)
    PROVE  StaysToRetry(k)
<1>1. ASSUME NEW s \in Sagas, k = StartJob(s) PROVE StaysToRetry(k)
  BY <1>1 DEF StartJob, StaysToRetry
<1>2. ASSUME NEW s \in Sagas, NEW event, NEW u \in Apply(sagas[s].state, event), k = EventJob(s, u)
      PROVE  StaysToRetry(k)
  <2>1. u.from # u.to /\ u.event # "Retry"
    BY DEF Apply, Transitions, Transition
  <2> QED
    BY <1>2, <2>1 DEF EventJob, StaysToRetry
<1>3. ASSUME NEW x, k = RetryJob(x) PROVE StaysToRetry(k)
  BY <1>3 DEF RetryJob, StaysToRetry
<1>4. ASSUME NEW x, NEW u \in TimeoutTransitions, u.from = x.state, k = ExhaustJob(x, u)
      PROVE  StaysToRetry(k)
  <2>1. u.from # u.to
    BY DEF TimeoutTransitions, Transition
  <2> QED
    BY <1>4, <2>1 DEF ExhaustJob, StaysToRetry
<1> QED
  BY <1>1, <1>2, <1>3, <1>4 DEF NewJob

LEMMA JobsStayStep ==
    ASSUME PathInv, [Next]_vars, NEW t \in Threads, job'[t] # Idle
    PROVE  StaysToRetry(job'[t])
<1>1. TypeOK /\ JobStep(t)
  BY JobsStepwise DEF PathInv, IInv
<1>2. CASE job'[t] = job[t]
  BY <1>2 DEF PathInv
<1>3. CASE NewJob(job'[t])
  BY <1>1, <1>3, NewJobStays
<1>4. CASE job[t].pc = "update" /\ job'[t] = AfterUpdate(job[t])
  <2>1. PICK j \in Jobs : j = job[t]
    BY <1>1, <1>4, BusyThread
  <2>2. AfterUpdate(j).from = j.from /\ AfterUpdate(j).to = j.to /\ AfterUpdate(j).event = j.event
    BY DEF AfterUpdate, Jobs
  <2>3. StaysToRetry(j)
    BY <2>1, JobNumbers DEF PathInv
  <2> QED
    BY <1>4, <2>1, <2>2, <2>3 DEF StaysToRetry
<1>5. CASE job[t].pc = "record" /\ job'[t] = [job[t] EXCEPT !.pc = "publish"]
  <2>1. PICK j \in Jobs : j = job[t]
    BY <1>1, <1>5, BusyThread
  <2>2. StaysToRetry(j) /\ job'[t] = [j EXCEPT !.pc = "publish"]
    BY <1>5, <2>1, JobNumbers DEF PathInv
  <2> QED
    BY <2>2 DEF StaysToRetry, Jobs
<1> QED
  BY <1>1, <1>2, <1>3, <1>4, <1>5 DEF JobStep

\* What a committed write is to those of its saga that came before it: the next.
LEMMA NextWrite ==
    ASSUME PathInv, [Next]_vars, NEW w \in writes', w \notin writes
    PROVE  /\ w.updatedAt = sagas'[w.saga].updatedAt
           /\ StaysToRetry(w)
           /\ OnDiagram(w.from, w.to, w.event)
           /\ \A v \in writes : v.saga = w.saga => Stage(v.to) <= Stage(w.from)
           /\ PathTo(writes, w.saga, w.from)
<1>1. TypeOK /\ NoLostUpdate /\ WriteStep(w)
  BY WritesStepwise DEF PathInv, IInv
<1>2. ASSUME NEW s \in Sagas, ~Exists(s), sagas'[s] = FreshRow, w = StartWrite(s)
      PROVE  /\ w.updatedAt = sagas'[w.saga].updatedAt
             /\ StaysToRetry(w)
             /\ OnDiagram(w.from, w.to, w.event)
             /\ \A v \in writes : v.saga = w.saga => Stage(v.to) <= Stage(w.from)
             /\ PathTo(writes, w.saga, w.from)
  <2>1. /\ w.saga = s /\ w.from = "STARTED" /\ w.to = "PAYMENT_PENDING" /\ w.event = "StartSaga"
        /\ w.updatedAt = 0 /\ sagas'[s].updatedAt = 0
    BY <1>2 DEF StartWrite, FreshRow
  <2>2. \A v \in writes : v.saga # w.saga
    BY <1>1, <1>2, <2>1 DEF NoLostUpdate
  <2>3. PathTo(writes, w.saga, w.from)
    BY <2>1 DEF PathTo
  <2> QED
    BY <1>2, <2>1, <2>2, <2>3, StartBounded DEF StaysToRetry
<1>3. ASSUME NEW t \in Threads, job[t].pc = "update", Unmodified(job[t]), w = WriteOf(job[t]),
             sagas'[job[t].saga] = RowOf(job[t])
      PROVE  /\ w.updatedAt = sagas'[w.saga].updatedAt
             /\ StaysToRetry(w)
             /\ OnDiagram(w.from, w.to, w.event)
             /\ \A v \in writes : v.saga = w.saga => Stage(v.to) <= Stage(w.from)
             /\ PathTo(writes, w.saga, w.from)
  <2>1. PICK j \in Jobs : j = job[t] /\ j # Idle
    BY <1>1, <1>3, BusyThread, JobNumbers
  <2>2. /\ w.saga = j.saga /\ w.from = j.from /\ w.to = j.to /\ w.event = j.event
        /\ w.updatedAt = j.updatedAt + 1 /\ sagas'[w.saga].updatedAt = j.updatedAt + 1
    BY <1>3, <2>1 DEF WriteOf, RowOf
  <2>3. StaysToRetry(j) /\ JobBounded(j) /\ UnwrittenJob(j)
    BY <1>3, <2>1 DEF PathInv, BoundsInv, JobsBounded, IInv, JobsAreSound, JobSound
  <2>4. /\ j.saga \in Sagas /\ Exists(j.saga)
        /\ sagas[j.saga].updatedAt = j.updatedAt /\ sagas[j.saga].state = j.from
    BY <1>3, <2>1, <2>3 DEF UnwrittenJob, Seen, Unmodified, Jobs
  <2>5. PICK u \in writes : u.saga = j.saga /\ u.updatedAt = j.updatedAt /\ u.to = j.from
    BY <1>1, <2>4 DEF NoLostUpdate
  <2>6. PathTo(writes, w.saga, w.from)
    BY <2>2, <2>5 DEF PathInv
  <2>7. ASSUME NEW v \in writes, v.saga = w.saga PROVE Stage(v.to) <= Stage(w.from)
    <3>1. v.updatedAt <= u.updatedAt /\ v.updatedAt \in Nat /\ u.updatedAt \in Nat
      BY <1>1, <2>2, <2>4, <2>5, <2>7 DEF NoLostUpdate, TypeOK, Writes
    <3>2. CASE v.updatedAt = u.updatedAt
      <4>1. v = u
        BY <1>1, <2>2, <2>5, <2>7, <3>2 DEF NoLostUpdate
      <4> QED
        BY <2>2, <2>5, <4>1, StagesNatural
    <3>3. CASE v.updatedAt < u.updatedAt
      <4>1. Stage(v.to) <= Stage(u.from)
        BY <2>2, <2>5, <2>7, <3>3 DEF PathInv, Forward
      <4>2. OnDiagram(u.from, u.to, u.event)
        BY DEF PathInv, BoundsInv, DiagramComplete, OnDiagram
      <4>3. Stage(u.from) <= Stage(u.to)
        BY <4>2, EdgesForward, StagesNatural DEF OnDiagram
      <4> QED
        BY <2>2, <2>5, <4>1, <4>3, StagesNatural
    <3> QED
      BY <3>1, <3>2, <3>3
  <2> QED
    BY <2>2, <2>3, <2>6, <2>7 DEF StaysToRetry, JobBounded
<1> QED
  BY <1>1, <1>2, <1>3 DEF WriteStep

LEMMA WritesStay == [Next]_vars => writes \subseteq writes'
BY DEF Next, StartSaga, StartSagaLosesReply, InsertRow, HandleEvent, CheckTimeouts, ProcessSaga, RetrySaga,
       ExhaustSaga, Take, Step, UpdateSaga, UpdateRow, SkipModified, RecordHistory, Publish, UpdateError,
       DeadlinePasses, Crash, stored, vars

LEMMA PathStep == PathInv /\ [Next]_vars => PathInv'
<1> SUFFICES ASSUME PathInv, [Next]_vars PROVE PathInv'
  OBVIOUS
<1>1. BoundsInv' /\ IInv' /\ writes \subseteq writes'
  BY BoundsStep, InvStep, WritesStay DEF PathInv
<1>2. \A w \in writes' : StaysToRetry(w)
  BY NextWrite DEF PathInv
<1>3. ASSUME NEW v \in writes', NEW w \in writes', v.saga = w.saga, v.updatedAt < w.updatedAt
      PROVE  Stage(v.to) <= Stage(w.from)
  <2>1. w.updatedAt <= sagas'[w.saga].updatedAt /\ w.updatedAt \in Nat /\ v.updatedAt \in Nat
        /\ sagas'[w.saga].updatedAt \in Nat
    <3>1. TypeOK' /\ NoLostUpdate' /\ w.saga \in Sagas
      BY <1>1 DEF IInv, TypeOK, Writes
    <3>2. Exists(w.saga)' /\ w.updatedAt <= sagas'[w.saga].updatedAt
      BY <3>1 DEF NoLostUpdate
    <3> QED
      BY <3>1, <3>2 DEF TypeOK, Writes, Rows, Exists
  <2>2. v \in writes
    <3> SUFFICES ASSUME v \notin writes PROVE FALSE
      OBVIOUS
    <3>1. v.updatedAt = sagas'[v.saga].updatedAt
      BY NextWrite
    <3> QED
      BY <1>3, <2>1, <3>1
  <2>3. CASE w \in writes
    BY <1>3, <2>2, <2>3 DEF PathInv, Forward
  <2>4. CASE w \notin writes
    BY <1>3, <2>2, <2>4, NextWrite
  <2> QED
    BY <2>3, <2>4
<1>4. ASSUME NEW w \in writes' PROVE PathTo(writes', w.saga, w.to)
  <2>1. CASE w \in writes
    BY <1>1, <2>1, PathExtended DEF PathInv
  <2>2. CASE w \notin writes
    <3>1. PathTo(writes', w.saga, w.from)
      BY <1>1, <2>2, NextWrite, PathExtended
    <3> QED
      BY <2>2, <3>1, NextWrite, PathContinued DEF OnDiagram
  <2> QED
    BY <2>1, <2>2
<1> QED
  BY <1>1, <1>2, <1>3, <1>4, JobsStayStep DEF PathInv, Forward

LEMMA InvGivesOnePath == PathInv => OnePathPerSaga
<1> SUFFICES ASSUME PathInv PROVE OnePathPerSaga
  OBVIOUS
<1>1. ASSUME NEW v \in writes, NEW w \in writes, v.saga = w.saga, v.from = w.from,
             v.from # v.to, w.from # w.to
      PROVE  v = w
  <2>1. ASSUME NEW x \in writes, x.from # x.to PROVE Stage(x.from) < Stage(x.to)
    BY <2>1, EdgesForward DEF PathInv, BoundsInv, DiagramComplete
  <2>2. v.updatedAt \in Nat /\ w.updatedAt \in Nat
    BY DEF PathInv, IInv, TypeOK, Writes
  <2>3. ~(v.updatedAt < w.updatedAt) /\ ~(w.updatedAt < v.updatedAt)
    BY <1>1, <2>1, StagesNatural DEF PathInv, Forward
  <2> QED
    BY <1>1, <2>2, <2>3 DEF PathInv, IInv, NoLostUpdate
<1> QED
  BY <1>1 DEF OnePathPerSaga, PathInv, StaysToRetry

\* A saga leaves each state once, whichever threads race for it, and reaches none without
\* the steps before it; what is written without leaving the state are retries.
THEOREM OnePath == Spec => []OnePathPerSaga
<1>1. Init => PathInv
  BY PathInit
<1>2. PathInv /\ [Next]_vars => PathInv'
  BY PathStep
<1>3. PathInv => OnePathPerSaga
  BY InvGivesOnePath
<1> QED
  BY <1>1, <1>2, <1>3, PTL DEF Spec
=============================================================================
