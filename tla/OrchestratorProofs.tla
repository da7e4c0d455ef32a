------------------------- MODULE OrchestratorProofs -------------------------
(***************************************************************************)
(* Safety of the orchestrator for every set of sagas and threads, every    *)
(* retry limit and any number of faults.                                   *)
(***************************************************************************)
EXTENDS Orchestrator, TLAPS

USE RetriesAssumption, FaultsAssumption

-----------------------------------------------------------------------------
(* Types of what the handlers build *)

\* A thread past the idle point holds a job.
LEMMA BusyThread ==
    ASSUME TypeOK, NEW t \in Threads, job[t].pc # "idle"
    PROVE  job[t] \in Jobs
BY DEF TypeOK, Idle

\* A thread in the middle of an event holds a well-formed job.
LEMMA EventJobType ==
    ASSUME TypeOK, NEW s \in Sagas, Exists(s), NEW t \in Transitions
    PROVE  EventJob(s, t) \in Jobs
<1>1. sagas[s] \in Rows
  BY DEF TypeOK, Exists
<1>2. /\ t.from \in FromStates
      /\ t.to \in SagaStates
      /\ t.event \in WriteEvents
      /\ t.action \in MessageTypes
  BY DEF Transitions, Transition, FromStates, PendingStates, SagaStates, TerminalStates,
         WriteEvents, PaymentEvents, InventoryEvents, MessageTypes, Commands, TerminalEvents
<1>3. StepDeadline(t.to) \in {"nil", "ahead"}
  BY DEF StepDeadline
<1> QED
  BY <1>1, <1>2, <1>3 DEF EventJob, Jobs, Rows

\* Both jobs the timeout worker builds from a snapshot are well formed.
LEMMA RetryJobType ==
    ASSUME NEW x \in Snapshots
    PROVE  RetryJob(x) \in Jobs
BY DEF RetryJob, Jobs, Snapshots, FromStates, PendingStates, SagaStates, WriteEvents,
       ResendCommand, MessageTypes, Commands

LEMMA ExhaustJobType ==
    ASSUME NEW x \in Snapshots, NEW t \in TimeoutTransitions
    PROVE  ExhaustJob(x, t) \in Jobs
<1>1. t.to \in SagaStates /\ t.action \in MessageTypes
  BY DEF TimeoutTransitions, Transition, SagaStates, PendingStates, TerminalStates,
         MessageTypes, Commands, TerminalEvents
<1>2. StepDeadline(t.to) \in {"nil", "ahead"}
  BY DEF StepDeadline
<1> QED
  BY <1>1, <1>2 DEF ExhaustJob, Jobs, Snapshots, FromStates, WriteEvents

LEMMA StartJobType ==
    ASSUME NEW s \in Sagas
    PROVE  StartJob(s) \in Jobs /\ FreshRow \in Rows /\ StartWrite(s) \in Writes
BY DEF StartJob, Jobs, FromStates, SagaStates, PendingStates, WriteEvents, MessageTypes,
       Commands, FreshRow, Rows, StartWrite, Writes

\* What an update stores, what it logs and how the job goes on.
LEMMA UpdateType ==
    ASSUME NEW j \in Jobs
    PROVE  RowOf(j) \in Rows /\ WriteOf(j) \in Writes /\ AfterUpdate(j) \in Jobs
<1>1. RowOf(j) \in Rows
  BY DEF Jobs, RowOf, Rows
<1>2. WriteOf(j) \in Writes
  BY DEF Jobs, WriteOf, Writes
<1>3. AfterUpdate(j) \in Jobs
  <2> DEFINE next == IF j.event = "Retry" THEN "publish" ELSE "record"
             counted == [j EXCEPT !.pc = next]
  <2>1. next \in {"record", "publish"}
    OBVIOUS
  <2>2. counted \in Jobs /\ counted.updatedAt = j.updatedAt
    BY <2>1 DEF Jobs
  <2>3. AfterUpdate(j) = [counted EXCEPT !.updatedAt = @ + 1]
    BY DEF AfterUpdate, Jobs
  <2> HIDE DEF next, counted
  <2> QED
    BY <2>2, <2>3 DEF Jobs
<1> QED
  BY <1>1, <1>2, <1>3

LEMMA AfterUpdateFields ==
    ASSUME NEW j \in Jobs
    PROVE  LET k == AfterUpdate(j)
           IN  /\ k # Idle
               /\ k.pc \in {"record", "publish"}
               /\ k.saga = j.saga /\ k.to = j.to /\ k.action = j.action
               /\ k.updatedAt = j.updatedAt + 1
               /\ Written(k) = WriteOf(j)
<1> DEFINE k == AfterUpdate(j)
<1>1. /\ k.pc \in {"record", "publish"}
      /\ k.saga = j.saga /\ k.from = j.from /\ k.to = j.to
      /\ k.event = j.event /\ k.action = j.action /\ k.updatedAt = j.updatedAt + 1
  BY DEF AfterUpdate, Jobs
<1> HIDE DEF k
<1>2. k # Idle
  BY <1>1 DEF Idle
<1>3. Written(k) = WriteOf(j)
  BY <1>1 DEF Written, WriteOf
<1> QED
  BY <1>1, <1>2, <1>3 DEF k

-----------------------------------------------------------------------------
(* Type correctness *)

LEMMA TypeInit == Init => TypeOK
BY DEF Init, TypeOK

LEMMA TypeStep == TypeOK /\ [Next]_vars => TypeOK'
<1> SUFFICES ASSUME TypeOK, [Next]_vars PROVE TypeOK'
  OBVIOUS
<1>1. ASSUME NEW c \in CommandConsumers, NEW s \in Sagas, StartSaga(c, s)
      PROVE  TypeOK'
  BY <1>1, StartJobType DEF TypeOK, StartSaga, InsertRow, Threads
<1>2. ASSUME NEW c \in CommandConsumers, NEW s \in Sagas, StartSagaLosesReply(c, s)
      PROVE  TypeOK'
  BY <1>2, StartJobType DEF TypeOK, StartSagaLosesReply, InsertRow, Fault
<1>3. ASSUME NEW c \in EventConsumers, NEW s \in Sagas,
             NEW event \in PaymentEvents \cup InventoryEvents, HandleEvent(c, s, event)
      PROVE  TypeOK'
  <2>1. PICK t \in Transitions : job' = [job EXCEPT ![c] = EventJob(s, t)]
    BY <1>3 DEF HandleEvent, Apply
  <2>2. EventJob(s, t) \in Jobs
    BY <1>3, EventJobType DEF HandleEvent
  <2> QED
    BY <1>3, <2>1, <2>2 DEF TypeOK, HandleEvent, Threads, stored
<1>4. ASSUME NEW w \in Workers, CheckTimeouts(w)
      PROVE  TypeOK'
  <2>1. ASSUME NEW s \in TimedOut PROVE Snapshot(s) \in Snapshots
    BY DEF TypeOK, TimedOut, Exists, Snapshot, Snapshots, Rows
  <2> QED
    BY <1>4, <2>1 DEF TypeOK, CheckTimeouts, stored
<1>5. ASSUME NEW w \in Workers, ProcessSaga(w)
      PROVE  TypeOK'
  <2>1. ASSUME NEW x \in batch[w], NEW j \in Jobs, Take(w, x, j)
        PROVE  TypeOK'
    BY <2>1 DEF TypeOK, Take, Threads, stored
  <2>2. batch[w] \subseteq Snapshots
    BY DEF TypeOK
  <2>3. CASE RetrySaga(w)
    BY <2>1, <2>2, <2>3, RetryJobType DEF RetrySaga
  <2>4. CASE ExhaustSaga(w)
    BY <2>1, <2>2, <2>4, ExhaustJobType DEF ExhaustSaga
  <2> QED
    BY <1>5, <2>3, <2>4 DEF ProcessSaga
<1>6. ASSUME NEW t \in Threads, UpdateSaga(t)
      PROVE  TypeOK'
  <2>1. job[t] \in Jobs
    BY <1>6, BusyThread DEF UpdateSaga
  <2>2. job[t].saga \in Sagas
    BY <2>1 DEF Jobs
  <2> QED
    BY <1>6, <2>1, <2>2, UpdateType DEF TypeOK, UpdateSaga, UpdateRow
<1>7. ASSUME NEW t \in Threads, SkipModified(t)
      PROVE  TypeOK'
  BY <1>7 DEF TypeOK, SkipModified, stored
<1>8. ASSUME NEW t \in Threads, UpdateError(t)
      PROVE  TypeOK'
  <2>1. job[t] \in Jobs
    BY <1>8, BusyThread DEF UpdateError
  <2>2. job[t].saga \in Sagas
    BY <2>1 DEF Jobs
  <2> QED
    BY <1>8, <2>1, <2>2, UpdateType DEF TypeOK, UpdateError, UpdateRow, stored, Fault
<1>9. ASSUME NEW t \in Threads, RecordHistory(t)
      PROVE  TypeOK'
  <2>1. job[t] \in Jobs
    BY <1>9, BusyThread DEF RecordHistory
  <2>2. Entry(job[t]) \in HistoryEntries /\ [job[t] EXCEPT !.pc = "publish"] \in Jobs
    BY <2>1 DEF Entry, HistoryEntries, Jobs
  <2>3. job' = [job EXCEPT ![t] = [job[t] EXCEPT !.pc = "publish"]]
    BY <1>9 DEF RecordHistory
  <2> QED
    BY <1>9, <2>2, <2>3 DEF TypeOK, RecordHistory, stored, Fault
<1>10. ASSUME NEW t \in Threads, Publish(t)
       PROVE  TypeOK'
  <2>1. job[t] \in Jobs
    BY <1>10, BusyThread DEF Publish
  <2>2. Message(job[t]) \in Messages
    BY <2>1 DEF Message, Messages, Jobs
  <2> QED
    BY <1>10, <2>2 DEF TypeOK, Publish, stored, Fault
<1>11. ASSUME NEW s \in Sagas, DeadlinePasses(s)
       PROVE  TypeOK'
  <2>1. sagas[s] \in Rows
    BY <1>11 DEF TypeOK, DeadlinePasses, Exists
  <2>2. [sagas[s] EXCEPT !.stepDeadline = "past"] \in Rows
    BY <2>1 DEF Rows
  <2>3. sagas' = [sagas EXCEPT ![s] = [sagas[s] EXCEPT !.stepDeadline = "past"]]
    BY <1>11 DEF DeadlinePasses
  <2> QED
    BY <1>11, <2>2, <2>3 DEF TypeOK, DeadlinePasses
<1>12. CASE Crash
  BY <1>12 DEF TypeOK, Crash, stored, Fault
<1>13. CASE UNCHANGED vars
  BY <1>13 DEF TypeOK, vars
<1> QED
  BY <1>1, <1>2, <1>3, <1>4, <1>5, <1>6, <1>7, <1>8, <1>9, <1>10, <1>11, <1>12, <1>13
     DEF Next, Step

\* Rows, messages, history and jobs keep their shapes in every behaviour.
THEOREM TypeCorrect == Spec => []TypeOK
<1>1. Init => TypeOK
  BY TypeInit
<1>2. TypeOK /\ [Next]_vars => TypeOK'
  BY TypeStep
<1> QED
  BY <1>1, <1>2, PTL DEF Spec

-----------------------------------------------------------------------------
(* The store: what inserting, updating and leaving a row keeps true *)

\* Everything the threads rely on in a row; the clock passing a deadline is not in it.
SameRows ==
    /\ writes' = writes
    /\ \A s \in Sagas :
          /\ Exists(s)' <=> Exists(s)
          /\ Exists(s) => /\ sagas'[s].state = sagas[s].state
                          /\ sagas'[s].retryCount = sagas[s].retryCount
                          /\ sagas'[s].updatedAt = sagas[s].updatedAt

LEMMA StoredIsSameRows == UNCHANGED stored => SameRows
BY DEF stored, SameRows, Exists

LEMMA DeadlineIsSameRows ==
    ASSUME TypeOK, NEW s \in Sagas, DeadlinePasses(s)
    PROVE  SameRows
<1>1. sagas[s] \in Rows
  BY DEF TypeOK, DeadlinePasses, Exists
<1>2. sagas' = [sagas EXCEPT ![s] = [sagas[s] EXCEPT !.stepDeadline = "past"]]
  BY DEF DeadlinePasses
<1>3. \A r \in Sagas : r # s => sagas'[r] = sagas[r]
  BY <1>2 DEF TypeOK
<1>4. sagas'[s] = [sagas[s] EXCEPT !.stepDeadline = "past"]
  BY <1>2 DEF TypeOK
<1>5. /\ sagas'[s].state = sagas[s].state
      /\ sagas'[s].retryCount = sagas[s].retryCount
      /\ sagas'[s].updatedAt = sagas[s].updatedAt
  BY <1>1, <1>4 DEF Rows
<1>6. sagas[s] # NoSaga /\ sagas'[s] # NoSaga
  <2>1. sagas'[s].state \in SagaStates
    BY <1>1, <1>5 DEF Rows
  <2>2. "NONE" \notin SagaStates
    BY DEF SagaStates, PendingStates, TerminalStates
  <2> QED
    BY <2>1, <2>2 DEF NoSaga, DeadlinePasses, Exists
<1> QED
  BY <1>3, <1>5, <1>6 DEF SameRows, Exists, DeadlinePasses

\* The row a write belongs to, as a fact about numbers.
LEMMA RowNumbers ==
    ASSUME TypeOK, NEW s \in Sagas, Exists(s)
    PROVE  /\ sagas[s] \in Rows
           /\ sagas[s].updatedAt \in Nat
           /\ sagas[s].state \in SagaStates
BY DEF TypeOK, Exists, Rows

LEMMA RowIsSomeSaga ==
    ASSUME NEW r \in Rows
    PROVE  r # NoSaga
<1>1. r.state \in SagaStates
  BY DEF Rows
<1> QED
  BY <1>1 DEF NoSaga, SagaStates, PendingStates, TerminalStates

LEMMA StoreKept ==
    ASSUME TypeOK, NoLostUpdate, OutcomeIsLast, SameRows
    PROVE  NoLostUpdate' /\ OutcomeIsLast'
<1>1. \A w \in writes : w.saga \in Sagas
  BY DEF TypeOK, Writes
<1>2. NoLostUpdate'
  BY <1>1 DEF NoLostUpdate, SameRows
<1>3. OutcomeIsLast'
  BY <1>1 DEF OutcomeIsLast, NoLostUpdate, SameRows
<1> QED
  BY <1>2, <1>3

LEMMA SeenKept ==
    ASSUME SameRows, NEW s \in Sagas, NEW state, NEW v, Seen(s, state, v)
    PROVE  Seen(s, state, v)'
BY DEF Seen, SameRows

LEMMA UnwrittenKept ==
    ASSUME SameRows, NEW j \in Jobs, UnwrittenJob(j)
    PROVE  UnwrittenJob(j)'
<1>1. j.saga \in Sagas
  BY DEF Jobs
<1>2. Seen(j.saga, j.from, j.updatedAt)'
  BY <1>1, SeenKept DEF UnwrittenJob
<1> QED
  BY <1>1, <1>2 DEF UnwrittenJob, SameRows, Unmodified

\* An update that finds the row it was computed from extends the chain of writes by one.
LEMMA StoreUpdated ==
    ASSUME TypeOK, NoLostUpdate, OutcomeIsLast,
           NEW j \in Jobs, UnwrittenJob(j), Unmodified(j), UpdateRow(j)
    PROVE  NoLostUpdate' /\ OutcomeIsLast'
<1> DEFINE s == j.saga
           v == j.updatedAt
           new == WriteOf(j)
<1>1. /\ s \in Sagas
      /\ v \in Nat
      /\ j.from \in PendingStates
      /\ Exists(s)
      /\ sagas[s].updatedAt = v
      /\ sagas[s].state = j.from
  BY DEF UnwrittenJob, Seen, Unmodified, Jobs
<1>2. /\ sagas'[s] = RowOf(j)
      /\ \A r \in Sagas : r # s => sagas'[r] = sagas[r]
      /\ writes' = writes \cup {new}
  BY <1>1 DEF UpdateRow, TypeOK
<1>3. sagas'[s] # NoSaga /\ sagas'[s].updatedAt = v + 1 /\ sagas'[s].state = j.to
  BY <1>2, UpdateType, RowIsSomeSaga DEF RowOf
<1>4. new.saga = s /\ new.updatedAt = v + 1 /\ new.to = j.to /\ new.from = j.from
  BY DEF WriteOf
<1>5. \A w \in writes : /\ w.saga \in Sagas
                        /\ w.updatedAt \in Nat
                        /\ w.saga = s => w.updatedAt <= v
  BY <1>1 DEF NoLostUpdate, TypeOK, Writes
<1> HIDE DEF s, v, new
<1>6. \A x, w \in writes' : x.saga = w.saga /\ x.updatedAt = w.updatedAt => x = w
  BY <1>1, <1>2, <1>4, <1>5 DEF NoLostUpdate
<1>7. \A w \in writes' : w.updatedAt > 0 =>
          \E x \in writes' : x.saga = w.saga /\ x.updatedAt + 1 = w.updatedAt /\ x.to = w.from
  <2>1. PICK x \in writes : x.saga = s /\ x.updatedAt = v /\ x.to = j.from
    BY <1>1 DEF NoLostUpdate
  <2>2. \A w \in writes : w.updatedAt > 0 =>
            \E y \in writes' : y.saga = w.saga /\ y.updatedAt + 1 = w.updatedAt /\ y.to = w.from
    BY <1>2 DEF NoLostUpdate
  <2> QED
    BY <1>2, <1>4, <2>1, <2>2
<1>8. \A w \in writes' : Exists(w.saga)' /\ w.updatedAt <= sagas'[w.saga].updatedAt
  <2>1. \A w \in writes : Exists(w.saga) /\ w.updatedAt <= sagas[w.saga].updatedAt
    BY DEF NoLostUpdate
  <2>2. ASSUME NEW w \in writes PROVE Exists(w.saga)' /\ w.updatedAt <= sagas'[w.saga].updatedAt
    BY <1>1, <1>2, <1>3, <1>5, <2>1 DEF Exists
  <2> QED
    BY <1>1, <1>2, <1>3, <1>4, <2>2 DEF Exists
<1>9. \A r \in Sagas : Exists(r)' => \E w \in writes' :
          w.saga = r /\ w.updatedAt = sagas'[r].updatedAt /\ w.to = sagas'[r].state
  BY <1>2, <1>3, <1>4 DEF NoLostUpdate, Exists
<1>10. OutcomeIsLast'
  <2>1. j.from \notin TerminalStates
    BY <1>1 DEF PendingStates, TerminalStates
  <2>2. ASSUME NEW w \in writes, w.to \in TerminalStates
        PROVE  w.updatedAt = sagas'[w.saga].updatedAt
    <3>1. w.updatedAt = sagas[w.saga].updatedAt
      BY <2>2 DEF OutcomeIsLast
    <3>2. w.saga # s
      <4> SUFFICES ASSUME w.saga = s PROVE FALSE
        OBVIOUS
      <4>1. PICK x \in writes : x.saga = s /\ x.updatedAt = v /\ x.to = j.from
        BY <1>1 DEF NoLostUpdate
      <4>2. x = w
        BY <1>1, <3>1, <4>1 DEF NoLostUpdate
      <4> QED
        BY <2>1, <2>2, <4>1, <4>2
    <3> QED
      BY <1>2, <1>5, <3>1, <3>2
  <2>3. new.updatedAt = sagas'[new.saga].updatedAt
    BY <1>3, <1>4
  <2> QED
    BY <1>2, <2>2, <2>3 DEF OutcomeIsLast
<1> QED
  BY <1>6, <1>7, <1>8, <1>9, <1>10 DEF NoLostUpdate

\* The first write of a saga: nothing was written for it before.
LEMMA StoreInserted ==
    ASSUME TypeOK, NoLostUpdate, OutcomeIsLast, NEW s \in Sagas, ~Exists(s), InsertRow(s)
    PROVE  NoLostUpdate' /\ OutcomeIsLast'
<1> DEFINE new == StartWrite(s)
<1>1. /\ sagas'[s] = FreshRow
      /\ \A r \in Sagas : r # s => sagas'[r] = sagas[r]
      /\ writes' = writes \cup {new}
  BY DEF InsertRow, TypeOK
<1>2. /\ sagas'[s] # NoSaga
      /\ sagas'[s].updatedAt = 0
      /\ sagas'[s].state = "PAYMENT_PENDING"
  BY <1>1, StartJobType, RowIsSomeSaga DEF FreshRow
<1>3. new.saga = s /\ new.updatedAt = 0 /\ new.to = "PAYMENT_PENDING"
  BY DEF StartWrite
<1>4. \A w \in writes : w.saga \in Sagas /\ w.saga # s
  BY DEF NoLostUpdate, TypeOK, Writes
<1> HIDE DEF new
<1>5. \A x, w \in writes' : x.saga = w.saga /\ x.updatedAt = w.updatedAt => x = w
  BY <1>1, <1>3, <1>4 DEF NoLostUpdate
<1>6. \A w \in writes' : w.updatedAt > 0 =>
          \E x \in writes' : x.saga = w.saga /\ x.updatedAt + 1 = w.updatedAt /\ x.to = w.from
  BY <1>1, <1>3 DEF NoLostUpdate
<1>7. \A w \in writes' : Exists(w.saga)' /\ w.updatedAt <= sagas'[w.saga].updatedAt
  BY <1>1, <1>2, <1>3, <1>4 DEF NoLostUpdate, Exists
<1>8. \A r \in Sagas : Exists(r)' => \E w \in writes' :
          w.saga = r /\ w.updatedAt = sagas'[r].updatedAt /\ w.to = sagas'[r].state
  BY <1>1, <1>2, <1>3 DEF NoLostUpdate, Exists
<1>9. OutcomeIsLast'
  BY <1>1, <1>3, <1>4 DEF OutcomeIsLast, TerminalStates
<1> QED
  BY <1>5, <1>6, <1>7, <1>8, <1>9 DEF NoLostUpdate

-----------------------------------------------------------------------------
(* The threads: what one of them writes leaves the knowledge of the others true *)

\* Knowledge that survives a step: of jobs not written yet, of jobs written, of the lists.
OthersKept ==
    /\ \A j \in Jobs : JobSound(j) => JobSound(j)'
    /\ \A s \in Sagas, x \in Snapshots : x.saga = s =>
          /\ Seen(s, x.state, x.updatedAt) => Seen(s, x.state, x.updatedAt)'
          /\ Seen(s, x.state, x.updatedAt) /\ x.updatedAt = sagas'[s].updatedAt
                => x.updatedAt = sagas[s].updatedAt /\ sagas'[s].retryCount = sagas[s].retryCount

LEMMA JobNumbers ==
    ASSUME NEW j \in Jobs
    PROVE  /\ j.saga \in Sagas
           /\ j.updatedAt \in Nat
           /\ j.pc = "update" \/ FollowsUp(j)
           /\ j # Idle
BY DEF Jobs, FollowsUp, Idle

\* Messages were published for writes, and writes are no newer than their row.
LEMMA MessagesAreOld ==
    ASSUME TypeOK, NoLostUpdate, PublishedAfterPersist, NEW m \in published
    PROVE  Exists(m.saga) /\ m.updatedAt <= sagas[m.saga].updatedAt
BY DEF NoLostUpdate, PublishedAfterPersist

LEMMA OthersWhenKept ==
    ASSUME SameRows, UNCHANGED published
    PROVE  OthersKept
<1>1. ASSUME NEW j \in Jobs, JobSound(j) PROVE JobSound(j)'
  <2>1. CASE j.pc = "update"
    BY <1>1, <2>1, UnwrittenKept, JobNumbers DEF JobSound
  <2>2. CASE j.pc # "update"
    BY <1>1, <2>2, JobNumbers DEF JobSound, WrittenJob, SameRows
  <2> QED
    BY <2>1, <2>2
<1>2. ASSUME NEW s \in Sagas, NEW x \in Snapshots, Seen(s, x.state, x.updatedAt)
      PROVE  /\ Seen(s, x.state, x.updatedAt)'
             /\ sagas'[s].updatedAt = sagas[s].updatedAt
             /\ sagas'[s].retryCount = sagas[s].retryCount
  BY <1>2 DEF Seen, SameRows
<1> QED
  BY <1>1, <1>2 DEF OthersKept

LEMMA OthersWhenUpdated ==
    ASSUME TypeOK, NoLostUpdate, NEW j \in Jobs, Unmodified(j), UpdateRow(j), UNCHANGED published
    PROVE  OthersKept
<1> DEFINE s == j.saga
           v == j.updatedAt
<1>1. s \in Sagas /\ v \in Nat /\ Exists(s) /\ sagas[s].updatedAt = v
  BY DEF Jobs, Unmodified
<1>2. /\ sagas'[s] # NoSaga
      /\ sagas'[s].updatedAt = v + 1
      /\ \A r \in Sagas : r # s => sagas'[r] = sagas[r]
      /\ writes \subseteq writes'
  <2>1. sagas' = [sagas EXCEPT ![s] = RowOf(j)] /\ writes \subseteq writes'
    BY DEF UpdateRow
  <2>2. sagas'[s] = RowOf(j)
    BY <1>1, <2>1 DEF TypeOK
  <2>3. sagas'[s] # NoSaga
    BY <2>2, UpdateType, RowIsSomeSaga
  <2> QED
    BY <1>1, <2>1, <2>2, <2>3 DEF RowOf, TypeOK
<1> HIDE DEF s, v
<1>3. ASSUME NEW r \in Sagas, NEW state, NEW u \in Nat, Seen(r, state, u)
      PROVE  /\ Seen(r, state, u)'
             /\ u = sagas'[r].updatedAt => r # s
  BY <1>1, <1>2, <1>3 DEF Seen, Exists
<1>4. ASSUME NEW k \in Jobs, JobSound(k) PROVE JobSound(k)'
  <2>1. k.saga \in Sagas /\ k.updatedAt \in Nat /\ k # Idle
    BY JobNumbers
  <2>2. CASE k.pc = "update"
    <3>1. UnwrittenJob(k)
      BY <1>4, <2>1, <2>2 DEF JobSound
    <3>2. Seen(k.saga, k.from, k.updatedAt)' /\ (k.updatedAt = sagas'[k.saga].updatedAt => k.saga # s)
      BY <1>3, <2>1, <3>1 DEF UnwrittenJob
    <3>3. UnwrittenJob(k)'
      BY <1>2, <2>1, <3>1, <3>2 DEF UnwrittenJob, Unmodified, Exists
    <3> QED
      BY <1>4, <2>1, <2>2, <3>3 DEF JobSound
  <2>3. CASE k.pc # "update"
    BY <1>2, <1>4, <2>1, <2>3 DEF JobSound, WrittenJob
  <2> QED
    BY <2>2, <2>3
<1>5. \A x \in Snapshots : x.updatedAt \in Nat
  BY DEF Snapshots
<1> QED
  BY <1>2, <1>3, <1>4, <1>5 DEF OthersKept

LEMMA OthersWhenInserted ==
    ASSUME TypeOK, NoLostUpdate, NEW s \in Sagas, ~Exists(s), InsertRow(s), UNCHANGED published
    PROVE  OthersKept
<1>1. /\ \A r \in Sagas : r # s => sagas'[r] = sagas[r]
      /\ writes \subseteq writes'
  BY DEF InsertRow, TypeOK
<1>2. ASSUME NEW r \in Sagas, NEW state, NEW u, Seen(r, state, u)
      PROVE  Seen(r, state, u)' /\ r # s
  BY <1>1, <1>2 DEF Seen, Exists
<1>3. ASSUME NEW k \in Jobs, JobSound(k) PROVE JobSound(k)'
  <2>1. k.saga \in Sagas /\ k # Idle
    BY JobNumbers
  <2>2. CASE k.pc = "update"
    <3>1. UnwrittenJob(k) /\ Seen(k.saga, k.from, k.updatedAt)
      BY <1>3, <2>1, <2>2 DEF JobSound, UnwrittenJob
    <3>2. Seen(k.saga, k.from, k.updatedAt)' /\ k.saga # s
      BY <1>2, <2>1, <3>1
    <3>3. UnwrittenJob(k)'
      BY <1>1, <2>1, <3>1, <3>2 DEF UnwrittenJob, Unmodified, Exists
    <3> QED
      BY <1>3, <2>1, <2>2, <3>3 DEF JobSound
  <2>3. CASE k.pc # "update"
    BY <1>1, <1>3, <2>1, <2>3 DEF JobSound, WrittenJob
  <2> QED
    BY <2>2, <2>3
<1> QED
  BY <1>1, <1>2, <1>3 DEF OthersKept

LEMMA BatchesKept ==
    ASSUME TypeOK, BatchesAreSound, OthersKept, \A w \in Workers : batch'[w] \subseteq batch[w]
    PROVE  BatchesAreSound'
<1> SUFFICES ASSUME NEW w \in Workers, NEW x \in batch[w]
             PROVE  /\ Seen(x.saga, x.state, x.updatedAt)'
                    /\ x.updatedAt = sagas'[x.saga].updatedAt => x.retryCount = sagas'[x.saga].retryCount
  BY DEF BatchesAreSound
<1>1. x \in Snapshots /\ x.saga \in Sagas
  BY DEF TypeOK, Snapshots
<1> QED
  BY <1>1 DEF BatchesAreSound, OthersKept

\* One thread moves on to the job k (or to none); the others keep theirs.
LEMMA JobsKept ==
    ASSUME TypeOK, JobsAreSound, OthersKept,
           NEW t \in Threads, NEW k, job' = [job EXCEPT ![t] = k], JobSound(k)'
    PROVE  JobsAreSound'
<1>1. \A u \in Threads : job'[u] = IF u = t THEN k ELSE job[u]
  BY DEF TypeOK
<1>2. \A u \in Threads : job[u] # Idle => job[u] \in Jobs /\ JobSound(job[u])
  BY DEF TypeOK, JobsAreSound
<1>3. ASSUME NEW u \in Threads PROVE JobSound(job[u])'
  <2>1. CASE u = t
    <3>1. job'[u] = k
      BY <1>1, <2>1
    <3> QED
      BY <3>1 DEF JobSound, UnwrittenJob, WrittenJob, Written, Unmodified, Seen, Exists
  <2>2. CASE u # t /\ job[u] = Idle
    <3>1. job'[u] = Idle
      BY <1>1, <2>2
    <3> QED
      BY <3>1 DEF JobSound
  <2>3. CASE u # t /\ job[u] # Idle
    <3>1. PICK j \in Jobs : j = job[u] /\ JobSound(j)
      BY <1>2, <2>3
    <3>2. JobSound(j)'
      BY <3>1 DEF OthersKept
    <3>3. job'[u] = j
      BY <1>1, <2>3, <3>1
    <3> QED
      BY <3>2, <3>3 DEF JobSound, UnwrittenJob, WrittenJob, Written, Unmodified, Seen, Exists
  <2> QED
    BY <2>1, <2>2, <2>3
<1> QED
  BY <1>3 DEF JobsAreSound

LEMMA FollowUpsKept ==
    ASSUME TypeOK, OneFollowUp, NEW t \in Threads, NEW k, job' = [job EXCEPT ![t] = k],
           FollowsUp(k) => \A u \in Threads \ {t} : FollowsUp(job[u]) => Written(job[u]) # Written(k)
    PROVE  OneFollowUp'
<1>1. \A u \in Threads : job'[u] = IF u = t THEN k ELSE job[u]
  BY DEF TypeOK
<1> QED
  BY <1>1 DEF OneFollowUp

LEMMA LogsKept ==
    ASSUME PublishedAfterPersist, HistoryIsPersisted, writes \subseteq writes',
           UNCHANGED <<published, history>>
    PROVE  PublishedAfterPersist' /\ HistoryIsPersisted'
BY DEF PublishedAfterPersist, HistoryIsPersisted

LEMMA IdleIsSound == JobSound(Idle)' /\ ~FollowsUp(Idle)
BY DEF JobSound, FollowsUp, Idle

-----------------------------------------------------------------------------
(* The jobs the handlers build are sound when they are built *)

LEMMA EventJobSound ==
    ASSUME TypeOK, NEW s \in Sagas, Exists(s), NEW event \in PaymentEvents \cup InventoryEvents,
           NEW t \in Apply(sagas[s].state, event)
    PROVE  JobSound(EventJob(s, t))
<1>1. /\ t.from = sagas[s].state
      /\ t.from \in PendingStates
      /\ t.action = MessageFor(t.to)
      /\ t.event # "Timeout"
  BY DEF Apply, Transitions, Transition, PendingStates, MessageFor
<1>2. sagas[s].updatedAt \in Nat
  BY RowNumbers
<1> QED
  BY <1>1, <1>2 DEF JobSound, EventJob, UnwrittenJob, Seen

LEMMA RetryJobSound ==
    ASSUME TypeOK, BatchesAreSound, NEW w \in Workers, NEW x \in batch[w]
    PROVE  JobSound(RetryJob(x))
<1>1. x.state \in PendingStates /\ Seen(x.saga, x.state, x.updatedAt)
  BY DEF TypeOK, Snapshots, BatchesAreSound
<1>2. ResendCommand(x.state) = MessageFor(x.state)
  BY <1>1 DEF ResendCommand, MessageFor, PendingStates
<1> QED
  BY <1>1, <1>2 DEF JobSound, RetryJob, UnwrittenJob

LEMMA ExhaustJobSound ==
    ASSUME TypeOK, BatchesAreSound, NEW w \in Workers, NEW x \in batch[w],
           NEW t \in TimeoutTransitions, t.from = x.state, ~RetriesLeft(x)
    PROVE  JobSound(ExhaustJob(x, t))
<1>1. /\ x.state \in PendingStates
      /\ x.retryCount \in Nat
      /\ Seen(x.saga, x.state, x.updatedAt)
      /\ x.updatedAt = sagas[x.saga].updatedAt => x.retryCount = sagas[x.saga].retryCount
  BY DEF TypeOK, Snapshots, BatchesAreSound
<1>2. t.action = MessageFor(t.to)
  BY DEF TimeoutTransitions, Transition, MessageFor
<1>3. x.retryCount >= MaxRetries
  BY <1>1 DEF RetriesLeft
<1> QED
  BY <1>1, <1>2, <1>3 DEF JobSound, ExhaustJob, UnwrittenJob, Unmodified

-----------------------------------------------------------------------------
(* The invariant is inductive *)

LEMMA InvInit == Init => IInv
<1> SUFFICES ASSUME Init PROVE IInv
  OBVIOUS
<1>1. TypeOK
  BY TypeInit
<1>2. NoLostUpdate /\ OutcomeIsLast /\ PublishedAfterPersist /\ HistoryIsPersisted
  BY DEF Init, NoLostUpdate, OutcomeIsLast, PublishedAfterPersist, HistoryIsPersisted, Exists
<1>3. JobsAreSound /\ OneFollowUp /\ BatchesAreSound
  BY DEF Init, JobsAreSound, JobSound, OneFollowUp, FollowsUp, Idle, BatchesAreSound
<1> QED
  BY <1>1, <1>2, <1>3 DEF IInv

\* A step that writes no row and publishes nothing, and after which thread t has the
\* job k, keeps the invariant if k is sound and follows up no write of another thread.
LEMMA QuietStep ==
    ASSUME IInv, TypeOK', UNCHANGED <<stored, history, published>>,
           NEW t \in Threads, NEW k, job' = [job EXCEPT ![t] = k],
           k = Idle \/ (k \in Jobs /\ k.pc = "update" /\ JobSound(k)),
           \A w \in Workers : batch'[w] \subseteq batch[w]
    PROVE  IInv'
<1>1. SameRows /\ OthersKept /\ writes' = writes
  BY StoredIsSameRows, OthersWhenKept DEF stored
<1>2. NoLostUpdate' /\ OutcomeIsLast'
  BY <1>1, StoreKept DEF IInv
<1>3. PublishedAfterPersist' /\ HistoryIsPersisted'
  BY <1>1, LogsKept DEF IInv
<1>4. JobSound(k)' /\ ~FollowsUp(k)
  <2>1. CASE k = Idle
    BY <2>1, IdleIsSound DEF JobSound, FollowsUp
  <2>2. CASE k \in Jobs /\ k.pc = "update" /\ JobSound(k)
    BY <1>1, <2>2 DEF OthersKept, FollowsUp
  <2> QED
    BY <2>1, <2>2
<1>5. JobsAreSound'
  BY <1>1, <1>4, JobsKept DEF IInv
<1>6. OneFollowUp'
  BY <1>4, FollowUpsKept DEF IInv
<1>7. BatchesAreSound'
  BY <1>1, BatchesKept DEF IInv
<1> QED
  BY <1>2, <1>3, <1>5, <1>6, <1>7 DEF IInv

\* The update of a row by the thread that holds the job for it.
LEMMA UpdateStep ==
    ASSUME IInv, TypeOK', NEW t \in Threads, job[t].pc = "update", Unmodified(job[t]),
           UpdateRow(job[t]), UNCHANGED <<history, published, batch>>,
           NEW k, k = Idle \/ k = AfterUpdate(job[t]), job' = [job EXCEPT ![t] = k]
    PROVE  IInv'
<1>1. PICK j \in Jobs : j = job[t]
  BY BusyThread DEF IInv
<1>2. UnwrittenJob(j) /\ j.action = MessageFor(j.to) /\ Unmodified(j) /\ UpdateRow(j)
  BY <1>1, JobNumbers DEF IInv, JobsAreSound, JobSound
<1>3. NoLostUpdate' /\ OutcomeIsLast'
  BY <1>2, StoreUpdated DEF IInv
<1>4. OthersKept
  BY <1>2, OthersWhenUpdated DEF IInv
<1>5. writes' = writes \cup {WriteOf(j)} /\ writes \subseteq writes'
  BY <1>2 DEF UpdateRow
<1>6. PublishedAfterPersist' /\ HistoryIsPersisted'
  BY <1>5, LogsKept DEF IInv
<1>7. /\ j.saga \in Sagas
      /\ j.updatedAt \in Nat
      /\ Exists(j.saga)
      /\ sagas[j.saga].updatedAt = j.updatedAt
  BY <1>2, JobNumbers DEF Unmodified
<1>8. WriteOf(j) \notin writes
  <2> SUFFICES ASSUME WriteOf(j) \in writes PROVE FALSE
    OBVIOUS
  <2>1. j.updatedAt + 1 <= j.updatedAt
    BY <1>7 DEF WriteOf, IInv, NoLostUpdate
  <2> QED
    BY <1>7, <2>1
<1>9. \A m \in published : ~(m.saga = j.saga /\ m.updatedAt = j.updatedAt + 1)
  <2> SUFFICES ASSUME NEW m \in published, m.saga = j.saga, m.updatedAt = j.updatedAt + 1
               PROVE  FALSE
    OBVIOUS
  <2>1. m.updatedAt <= sagas[m.saga].updatedAt
    BY MessagesAreOld DEF IInv
  <2> QED
    BY <1>7, <2>1
<1>10. ASSUME k = AfterUpdate(j)
       PROVE  /\ k # Idle
              /\ k.pc \in {"record", "publish"}
              /\ k.action = MessageFor(k.to)
              /\ Written(k) = WriteOf(j)
              /\ k.saga = j.saga
              /\ k.updatedAt = j.updatedAt + 1
  BY <1>2, <1>10, AfterUpdateFields
<1>11. JobSound(k)'
  <2>1. CASE k = Idle
    BY <2>1 DEF JobSound
  <2>2. CASE k = AfterUpdate(j)
    <3>1. WrittenJob(k)'
      BY <1>5, <1>9, <1>10, <2>2 DEF WrittenJob
    <3> QED
      BY <1>10, <2>2, <3>1 DEF JobSound
  <2> QED
    BY <1>1, <2>1, <2>2
<1>12. \A u \in Threads : FollowsUp(job[u]) => Written(job[u]) \in writes
  BY DEF IInv, JobsAreSound, JobSound, WrittenJob, FollowsUp, Idle
<1>13. FollowsUp(k) => \A u \in Threads \ {t} : FollowsUp(job[u]) => Written(job[u]) # Written(k)
  BY <1>1, <1>8, <1>10, <1>12, IdleIsSound
<1>14. JobsAreSound'
  BY <1>4, <1>11, JobsKept DEF IInv
<1>15. OneFollowUp'
  BY <1>13, FollowUpsKept DEF IInv
<1>16. BatchesAreSound'
  BY <1>4, BatchesKept DEF IInv
<1> QED
  BY <1>3, <1>6, <1>14, <1>15, <1>16 DEF IInv

\* The insertion of a row, by a thread that follows it up or has lost the reply.
LEMMA InsertStep ==
    ASSUME IInv, TypeOK', NEW t \in Threads, NEW s \in Sagas, ~Exists(s), InsertRow(s),
           UNCHANGED <<history, published, batch>>,
           job' = job \/ job' = [job EXCEPT ![t] = StartJob(s)]
    PROVE  IInv'
<1>1. NoLostUpdate' /\ OutcomeIsLast' /\ OthersKept
  BY StoreInserted, OthersWhenInserted DEF IInv
<1>2. StartWrite(s) \in writes' /\ writes \subseteq writes'
  BY DEF InsertRow
<1>3. PublishedAfterPersist' /\ HistoryIsPersisted'
  BY <1>2, LogsKept DEF IInv
<1>4. BatchesAreSound'
  BY <1>1, BatchesKept DEF IInv
<1>5. \A w \in writes : w.saga # s
  BY DEF IInv, NoLostUpdate
<1>6. \A m \in published : m.saga # s
  BY MessagesAreOld DEF IInv
<1>7. PICK k : k \in {job[t], StartJob(s)} /\ job' = [job EXCEPT ![t] = k]
  BY DEF IInv, TypeOK
<1>8. CASE k = StartJob(s)
  <2>1. JobSound(k)'
    BY <1>2, <1>6, <1>8 DEF JobSound, StartJob, WrittenJob, Written, StartWrite, MessageFor
  <2>2. \A u \in Threads : FollowsUp(job[u]) => Written(job[u]) \in writes
    BY DEF IInv, JobsAreSound, JobSound, WrittenJob, FollowsUp, Idle
  <2>3. \A u \in Threads \ {t} : FollowsUp(job[u]) => Written(job[u]) # Written(k)
    BY <1>5, <1>8, <2>2 DEF Written, StartJob
  <2>4. JobsAreSound' /\ OneFollowUp'
    BY <1>1, <1>7, <2>1, <2>3, JobsKept, FollowUpsKept DEF IInv
  <2> QED
    BY <1>1, <1>3, <1>4, <2>4 DEF IInv
<1>9. CASE k = job[t]
  <2>1. JobSound(k)'
    <3>1. CASE k = Idle
      BY <3>1 DEF JobSound
    <3>2. CASE k # Idle
      BY <1>1, <1>9, <3>2 DEF IInv, TypeOK, JobsAreSound, OthersKept
    <3> QED
      BY <3>1, <3>2
  <2>2. FollowsUp(k) => \A u \in Threads \ {t} : FollowsUp(job[u]) => Written(job[u]) # Written(k)
    BY <1>9 DEF IInv, OneFollowUp
  <2>3. JobsAreSound' /\ OneFollowUp'
    BY <1>1, <1>7, <2>1, <2>2, JobsKept, FollowUpsKept DEF IInv
  <2> QED
    BY <1>1, <1>3, <1>4, <2>3 DEF IInv
<1> QED
  BY <1>7, <1>8, <1>9

\* A history entry shows the write its thread has just committed.
LEMMA RecordStep ==
    ASSUME IInv, TypeOK', NEW t \in Threads, RecordHistory(t)
    PROVE  IInv'
<1>1. PICK j \in Jobs : j = job[t]
  BY BusyThread DEF IInv, RecordHistory
<1>2. /\ j.pc = "record"
      /\ WrittenJob(j)
      /\ j.action = MessageFor(j.to)
  BY <1>1, JobNumbers DEF RecordHistory, IInv, JobsAreSound, JobSound
<1>3. SameRows /\ OthersKept /\ writes' = writes /\ UNCHANGED <<published, batch>>
  BY StoredIsSameRows, OthersWhenKept DEF RecordHistory, stored
<1> DEFINE k == [j EXCEPT !.pc = "publish"]
<1>4. job' = [job EXCEPT ![t] = k]
  BY <1>1 DEF RecordHistory
<1>5. /\ k # Idle
      /\ k.pc = "publish"
      /\ k.action = MessageFor(k.to)
      /\ Written(k) = Written(j)
      /\ k.saga = j.saga
      /\ k.updatedAt = j.updatedAt
  <2>1. /\ k.pc = "publish"
        /\ k.saga = j.saga /\ k.from = j.from /\ k.to = j.to
        /\ k.event = j.event /\ k.action = j.action /\ k.updatedAt = j.updatedAt
    BY DEF Jobs
  <2> HIDE DEF k
  <2> QED
    BY <1>2, <2>1 DEF Idle, Written
<1> HIDE DEF k
<1>6. JobSound(k)'
  BY <1>2, <1>3, <1>5 DEF JobSound, WrittenJob
<1>7. FollowsUp(k) => \A u \in Threads \ {t} : FollowsUp(job[u]) => Written(job[u]) # Written(k)
  BY <1>1, <1>2, <1>5 DEF IInv, OneFollowUp, FollowsUp
<1>8. NoLostUpdate' /\ OutcomeIsLast'
  BY <1>3, StoreKept DEF IInv
<1>9. PublishedAfterPersist'
  BY <1>3 DEF IInv, PublishedAfterPersist
<1>10. HistoryIsPersisted'
  <2>1. \A h \in history' : h \in history \/ h = Entry(j)
    BY <1>1 DEF RecordHistory
  <2>2. Written(j) \in writes /\ Written(j).saga = Entry(j).saga
    BY <1>2 DEF WrittenJob, Written, Entry
  <2>3. Edge(Written(j).from, Written(j).to, Written(j).event)
            = Edge(Entry(j).from, Entry(j).to, Entry(j).event)
    BY DEF Written, Entry
  <2> QED
    BY <1>3, <2>1, <2>2, <2>3 DEF IInv, HistoryIsPersisted
<1>11. JobsAreSound' /\ OneFollowUp'
  BY <1>3, <1>4, <1>6, <1>7, JobsKept, FollowUpsKept DEF IInv
<1>12. BatchesAreSound'
  BY <1>3, BatchesKept DEF IInv
<1> QED
  BY <1>8, <1>9, <1>10, <1>11, <1>12 DEF IInv

\* A message is published for a write of its own, which no other thread follows up.
LEMMA PublishStep ==
    ASSUME IInv, TypeOK', NEW t \in Threads, Publish(t)
    PROVE  IInv'
<1>1. PICK j \in Jobs : j = job[t]
  BY BusyThread DEF IInv, Publish
<1>2. /\ j.pc = "publish"
      /\ WrittenJob(j)
      /\ j.action = MessageFor(j.to)
  BY <1>1, JobNumbers DEF Publish, IInv, JobsAreSound, JobSound
<1>3. /\ SameRows /\ writes' = writes /\ UNCHANGED <<sagas, history, batch>>
      /\ job' = [job EXCEPT ![t] = Idle]
      /\ \A m \in published' : m \in published \/ m = Message(j)
  BY <1>1, StoredIsSameRows DEF Publish, stored
<1>4. /\ Message(j).saga = j.saga
      /\ Message(j).updatedAt = j.updatedAt
      /\ Message(j).type = j.action
  BY DEF Message
<1>5. NoLostUpdate' /\ OutcomeIsLast'
  BY <1>3, StoreKept DEF IInv
<1>6. HistoryIsPersisted'
  BY <1>3 DEF IInv, HistoryIsPersisted
<1>7. PublishedAfterPersist'
  <2>1. /\ Written(j) \in writes'
        /\ Written(j).saga = j.saga
        /\ Written(j).updatedAt = j.updatedAt
        /\ Written(j).to = j.to
    BY <1>2, <1>3 DEF WrittenJob, Written
  <2>2. \A m \in published' : \E w \in writes' :
            w.saga = m.saga /\ w.updatedAt = m.updatedAt /\ m.type = MessageFor(w.to)
    BY <1>2, <1>3, <1>4, <2>1 DEF IInv, PublishedAfterPersist
  <2>3. \A m, n \in published' : m.saga = n.saga /\ m.updatedAt = n.updatedAt => m = n
    BY <1>2, <1>3, <1>4 DEF IInv, PublishedAfterPersist, WrittenJob
  <2> QED
    BY <2>2, <2>3 DEF PublishedAfterPersist
<1>8. ASSUME NEW u \in Threads PROVE JobSound(job[u])'
  <2>1. CASE u = t \/ job[u] = Idle
    <3>1. job'[u] = Idle
      BY <1>3, <2>1 DEF IInv, TypeOK
    <3> QED
      BY <3>1 DEF JobSound
  <2>2. CASE u # t /\ job[u] # Idle
    <3>1. PICK i \in Jobs : i = job[u] /\ JobSound(i)
      BY <2>2 DEF IInv, TypeOK, JobsAreSound
    <3>2. job'[u] = i
      BY <1>3, <2>2, <3>1 DEF IInv, TypeOK
    <3>3. CASE i.pc = "update"
      <4>1. UnwrittenJob(i)'
        BY <1>3, <3>1, <3>3, UnwrittenKept, JobNumbers DEF JobSound
      <4> QED
        BY <3>1, <3>2, <3>3, <4>1, JobNumbers
           DEF JobSound, UnwrittenJob, Unmodified, Seen, Exists
    <3>4. CASE i.pc # "update"
      <4>1. WrittenJob(i) /\ FollowsUp(i)
        BY <3>1, <3>4, JobNumbers DEF JobSound
      <4>2. Written(i) # Written(j)
        BY <1>1, <1>2, <2>2, <3>1, <4>1 DEF IInv, OneFollowUp, FollowsUp
      <4>3. ~(i.saga = j.saga /\ i.updatedAt = j.updatedAt)
        <5> SUFFICES ASSUME i.saga = j.saga, i.updatedAt = j.updatedAt PROVE FALSE
          OBVIOUS
        <5>1. Written(i) \in writes /\ Written(j) \in writes
          BY <1>2, <4>1 DEF WrittenJob
        <5>2. /\ Written(i).saga = Written(j).saga
              /\ Written(i).updatedAt = Written(j).updatedAt
          BY DEF Written
        <5> QED
          BY <4>2, <5>1, <5>2 DEF IInv, NoLostUpdate
      <4>4. WrittenJob(i)'
        BY <1>3, <1>4, <4>1, <4>3 DEF WrittenJob
      <4> QED
        BY <3>1, <3>2, <3>4, <4>4 DEF JobSound, WrittenJob, Written
    <3> QED
      BY <3>3, <3>4
  <2> QED
    BY <2>1, <2>2
<1>9. JobsAreSound'
  BY <1>8 DEF JobsAreSound
<1>10. OneFollowUp'
  BY <1>3, IdleIsSound, FollowUpsKept DEF IInv
<1>11. BatchesAreSound'
  BY <1>3 DEF IInv, BatchesAreSound, Seen, Exists
<1> QED
  BY <1>5, <1>6, <1>7, <1>9, <1>10, <1>11 DEF IInv

LEMMA InvStep == IInv /\ [Next]_vars => IInv'
<1> SUFFICES ASSUME IInv, [Next]_vars PROVE IInv'
  OBVIOUS
<1>0. TypeOK /\ TypeOK'
  BY TypeStep DEF IInv
<1>1. ASSUME NEW c \in CommandConsumers, NEW s \in Sagas, StartSaga(c, s)
      PROVE  IInv'
  BY <1>0, <1>1, InsertStep DEF StartSaga, Threads
<1>2. ASSUME NEW c \in CommandConsumers, NEW s \in Sagas, StartSagaLosesReply(c, s)
      PROVE  IInv'
  BY <1>0, <1>2, InsertStep DEF StartSagaLosesReply, Threads
<1>3. ASSUME NEW c \in EventConsumers, NEW s \in Sagas,
             NEW event \in PaymentEvents \cup InventoryEvents, HandleEvent(c, s, event)
      PROVE  IInv'
  <2>1. PICK t \in Apply(sagas[s].state, event) : job' = [job EXCEPT ![c] = EventJob(s, t)]
    BY <1>3 DEF HandleEvent
  <2>2. Exists(s) /\ t \in Transitions
    BY <1>3, <2>1 DEF HandleEvent, Apply
  <2>3. EventJob(s, t) \in Jobs /\ EventJob(s, t).pc = "update" /\ JobSound(EventJob(s, t))
    BY <1>0, <2>1, <2>2, EventJobType, EventJobSound DEF EventJob
  <2>4. UNCHANGED <<stored, history, published, batch>> /\ c \in Threads
    BY <1>3 DEF HandleEvent, Threads
  <2> QED
    BY <1>0, <2>1, <2>3, <2>4, QuietStep
<1>4. ASSUME NEW w \in Workers, CheckTimeouts(w)
      PROVE  IInv'
  <2>1. /\ SameRows /\ writes' = writes
        /\ UNCHANGED <<sagas, history, published, job>>
        /\ batch' = [batch EXCEPT ![w] = {Snapshot(s) : s \in TimedOut}]
    BY <1>4, StoredIsSameRows DEF CheckTimeouts, stored
  <2>2. NoLostUpdate' /\ OutcomeIsLast' /\ PublishedAfterPersist' /\ HistoryIsPersisted'
    BY <1>0, <2>1, StoreKept, LogsKept DEF IInv
  <2>3. JobsAreSound'
    BY <2>1 DEF IInv, JobsAreSound, JobSound, UnwrittenJob, WrittenJob, Written, Unmodified, Seen, Exists
  <2>4. OneFollowUp'
    BY <2>1 DEF IInv, OneFollowUp, FollowsUp, Written
  <2>5. ASSUME NEW s \in TimedOut
        PROVE  /\ Seen(s, Snapshot(s).state, Snapshot(s).updatedAt)
               /\ Snapshot(s).saga = s
               /\ Snapshot(s).retryCount = sagas[s].retryCount
    <3>1. s \in Sagas /\ Exists(s)
      BY DEF TimedOut
    <3>2. sagas[s].updatedAt \in Nat
      BY <1>0, <3>1, RowNumbers
    <3> QED
      BY <3>1, <3>2 DEF Snapshot, Seen
  <2>6. \A v \in Workers : \A x \in batch'[v] :
            x \in batch[v] \/ \E s \in TimedOut : x = Snapshot(s)
    BY <1>0, <2>1 DEF TypeOK
  <2>7. ASSUME NEW v \in Workers, NEW x \in batch'[v]
        PROVE  /\ Seen(x.saga, x.state, x.updatedAt)
               /\ x.updatedAt = sagas[x.saga].updatedAt => x.retryCount = sagas[x.saga].retryCount
    BY <2>5, <2>6 DEF IInv, BatchesAreSound
  <2>8. BatchesAreSound'
    BY <2>1, <2>7 DEF BatchesAreSound, Seen, Exists
  <2> QED
    BY <1>0, <2>2, <2>3, <2>4, <2>8 DEF IInv
<1>5. ASSUME NEW w \in Workers, ProcessSaga(w)
      PROVE  IInv'
  <2>1. ASSUME NEW x \in batch[w], NEW k \in Jobs, k.pc = "update", JobSound(k), Take(w, x, k)
        PROVE  IInv'
    <3>1. \A v \in Workers : batch'[v] \subseteq batch[v]
      BY <1>0, <2>1 DEF Take, TypeOK
    <3> QED
      BY <1>0, <2>1, <3>1, QuietStep DEF Take, Threads
  <2>2. batch[w] \subseteq Snapshots
    BY <1>0 DEF TypeOK
  <2>3. CASE RetrySaga(w)
    <3>1. PICK x \in batch[w] : Take(w, x, RetryJob(x))
      BY <2>3 DEF RetrySaga
    <3>2. RetryJob(x) \in Jobs /\ RetryJob(x).pc = "update" /\ JobSound(RetryJob(x))
      BY <1>0, <2>2, RetryJobType, RetryJobSound DEF RetryJob, IInv
    <3> QED
      BY <2>1, <3>1, <3>2
  <2>4. CASE ExhaustSaga(w)
    <3>1. PICK x \in batch[w], t \in TimeoutTransitions :
              ~RetriesLeft(x) /\ t.from = x.state /\ Take(w, x, ExhaustJob(x, t))
      BY <2>4 DEF ExhaustSaga
    <3>2. ExhaustJob(x, t) \in Jobs /\ ExhaustJob(x, t).pc = "update" /\ JobSound(ExhaustJob(x, t))
      BY <1>0, <2>2, <3>1, ExhaustJobType, ExhaustJobSound DEF ExhaustJob, IInv
    <3> QED
      BY <2>1, <3>1, <3>2
  <2> QED
    BY <1>5, <2>3, <2>4 DEF ProcessSaga
<1>6. ASSUME NEW t \in Threads, UpdateSaga(t)
      PROVE  IInv'
  BY <1>0, <1>6, UpdateStep DEF UpdateSaga
<1>7. ASSUME NEW t \in Threads, SkipModified(t)
      PROVE  IInv'
  BY <1>0, <1>7, QuietStep DEF SkipModified
<1>8. ASSUME NEW t \in Threads, UpdateError(t)
      PROVE  IInv'
  <2>1. CASE Unmodified(job[t]) /\ UpdateRow(job[t])
    BY <1>0, <1>8, <2>1, UpdateStep DEF UpdateError
  <2>2. CASE UNCHANGED stored
    BY <1>0, <1>8, <2>2, QuietStep DEF UpdateError
  <2> QED
    BY <1>8, <2>1, <2>2 DEF UpdateError
<1>9. ASSUME NEW t \in Threads, RecordHistory(t)
      PROVE  IInv'
  BY <1>0, <1>9, RecordStep
<1>10. ASSUME NEW t \in Threads, Publish(t)
       PROVE  IInv'
  BY <1>0, <1>10, PublishStep
<1>11. ASSUME NEW s \in Sagas, DeadlinePasses(s)
       PROVE  IInv'
  <2>1. SameRows /\ UNCHANGED <<history, published, job, batch>> /\ writes' = writes
    BY <1>0, <1>11, DeadlineIsSameRows DEF DeadlinePasses
  <2>2. OthersKept
    BY <2>1, OthersWhenKept
  <2>3. NoLostUpdate' /\ OutcomeIsLast' /\ PublishedAfterPersist' /\ HistoryIsPersisted'
    BY <1>0, <2>1, StoreKept, LogsKept DEF IInv
  <2>4. BatchesAreSound'
    BY <1>0, <2>1, <2>2, BatchesKept DEF IInv
  <2>5. ASSUME NEW t \in Threads PROVE JobSound(job[t])'
    <3>1. CASE job[t] = Idle
      BY <2>1, <3>1 DEF JobSound
    <3>2. CASE job[t] # Idle
      <4>1. PICK j \in Jobs : j = job[t] /\ JobSound(j)
        BY <1>0, <3>2 DEF TypeOK, IInv, JobsAreSound
      <4>2. JobSound(j)' /\ job'[t] = j
        BY <2>1, <2>2, <4>1 DEF OthersKept
      <4> QED
        BY <4>2 DEF JobSound, UnwrittenJob, WrittenJob, Written, Unmodified, Seen, Exists
    <3> QED
      BY <3>1, <3>2
  <2>6. JobsAreSound' /\ OneFollowUp'
    BY <2>1, <2>5 DEF IInv, JobsAreSound, OneFollowUp, FollowsUp, Written
  <2> QED
    BY <1>0, <2>3, <2>4, <2>6 DEF IInv
<1>12. CASE Crash
  <2>1. /\ SameRows /\ writes' = writes /\ UNCHANGED <<history, published>>
        /\ job' = [t \in Threads |-> Idle]
        /\ batch' = [w \in Workers |-> {}]
    BY <1>12, StoredIsSameRows DEF Crash, stored
  <2>2. NoLostUpdate' /\ OutcomeIsLast' /\ PublishedAfterPersist' /\ HistoryIsPersisted'
    BY <1>0, <2>1, StoreKept, LogsKept DEF IInv
  <2>3. JobsAreSound' /\ OneFollowUp' /\ BatchesAreSound'
    BY <2>1 DEF JobsAreSound, JobSound, OneFollowUp, FollowsUp, Idle, BatchesAreSound
  <2> QED
    BY <1>0, <2>2, <2>3 DEF IInv
<1>13. CASE UNCHANGED vars
  <2>1. /\ SameRows /\ writes' = writes
        /\ UNCHANGED <<sagas, history, published, job, batch>>
    BY <1>13, StoredIsSameRows DEF vars, stored
  <2>2. NoLostUpdate' /\ OutcomeIsLast' /\ PublishedAfterPersist' /\ HistoryIsPersisted'
    BY <1>0, <2>1, StoreKept, LogsKept DEF IInv
  <2>3. JobsAreSound'
    BY <2>1 DEF IInv, JobsAreSound, JobSound, UnwrittenJob, WrittenJob, Written, Unmodified, Seen, Exists
  <2>4. OneFollowUp' /\ BatchesAreSound'
    BY <2>1 DEF IInv, OneFollowUp, FollowsUp, Written, BatchesAreSound, Seen, Exists
  <2> QED
    BY <1>0, <2>2, <2>3, <2>4 DEF IInv
<1> QED
  BY <1>1, <1>2, <1>3, <1>4, <1>5, <1>6, <1>7, <1>8, <1>9, <1>10, <1>11, <1>12, <1>13
     DEF Next, Step

\* The invariant holds in every behaviour.
THEOREM Invariance == Spec => []IInv
<1>1. Init => IInv
  BY InvInit
<1>2. IInv /\ [Next]_vars => IInv'
  BY InvStep
<1> QED
  BY <1>1, <1>2, PTL DEF Spec

-----------------------------------------------------------------------------
(* What follows from the invariant *)

\* No update of one thread is lost to another: every committed write was computed from
\* the row it replaced.
THEOREM OptimisticLocking == Spec => []NoLostUpdate
BY Invariance, PTL DEF IInv

\* No thread publishes for a state that is not in the store, and no write is published
\* for twice.
THEOREM PersistBeforePublish == Spec => []PublishedAfterPersist
BY Invariance, PTL DEF IInv

\* saga_history shows only transitions that were persisted.
THEOREM HistoryIsTrue == Spec => []HistoryIsPersisted
BY Invariance, PTL DEF IInv

LEMMA TerminalMessages ==
    ASSUME NEW state \in SagaStates, MessageFor(state) \in TerminalEvents
    PROVE  state \in TerminalStates
BY DEF SagaStates, PendingStates, TerminalStates, TerminalEvents, MessageFor

LEMMA InvGivesOneOutcome == IInv => OneOutcome
<1> SUFFICES ASSUME IInv, NEW m \in published, m.type \in TerminalEvents
             PROVE  /\ m.type = MessageFor(sagas[m.saga].state)
                    /\ \A n \in published : n.saga = m.saga /\ n.type \in TerminalEvents => n = m
  BY DEF OneOutcome
<1>1. ASSUME NEW n \in published, n.type \in TerminalEvents
      PROVE  /\ n.updatedAt = sagas[n.saga].updatedAt
             /\ n.type = MessageFor(sagas[n.saga].state)
  <2>1. PICK w \in writes : w.saga = n.saga /\ w.updatedAt = n.updatedAt /\ n.type = MessageFor(w.to)
    BY DEF IInv, PublishedAfterPersist
  <2>2. w.to \in SagaStates /\ w.saga \in Sagas
    BY DEF IInv, TypeOK, Writes
  <2>3. w.to \in TerminalStates
    BY <1>1, <2>1, <2>2, TerminalMessages
  <2>4. w.updatedAt = sagas[w.saga].updatedAt
    BY <2>3 DEF IInv, OutcomeIsLast
  <2>5. PICK v \in writes : /\ v.saga = w.saga
                            /\ v.updatedAt = sagas[w.saga].updatedAt
                            /\ v.to = sagas[w.saga].state
    BY <2>2 DEF IInv, NoLostUpdate
  <2>6. v = w
    BY <2>4, <2>5 DEF IInv, NoLostUpdate
  <2> QED
    BY <2>1, <2>4, <2>5, <2>6
<1> QED
  BY <1>1 DEF IInv, PublishedAfterPersist

\* A saga publishes one terminal event at most, that of the state it is in.
THEOREM SingleOutcome == Spec => []OneOutcome
BY Invariance, InvGivesOneOutcome, PTL

LEMMA TimeoutStep ==
    ASSUME IInv, [Next]_vars, NEW w \in writes' \ writes, w.event = "Timeout"
    PROVE  sagas[w.saga].retryCount >= MaxRetries
<1>1. ASSUME NEW t \in Threads, job[t].pc = "update", Unmodified(job[t]), UpdateRow(job[t])
      PROVE  sagas[w.saga].retryCount >= MaxRetries
  <2>1. w = WriteOf(job[t])
    BY <1>1 DEF UpdateRow
  <2>2. w.saga = job[t].saga /\ w.event = job[t].event
    BY <2>1 DEF WriteOf
  <2>3. UnwrittenJob(job[t])
    BY <1>1 DEF IInv, JobsAreSound, JobSound, Idle
  <2> QED
    BY <1>1, <2>2, <2>3 DEF UnwrittenJob
<1>2. ASSUME NEW s \in Sagas, InsertRow(s) PROVE FALSE
  BY <1>2 DEF InsertRow, StartWrite
<1>3. ASSUME NEW c \in CommandConsumers, NEW s \in Sagas,
             StartSaga(c, s) \/ StartSagaLosesReply(c, s)
      PROVE  FALSE
  BY <1>2, <1>3 DEF StartSaga, StartSagaLosesReply
<1>4. ASSUME NEW t \in Threads, UpdateSaga(t) \/ UpdateError(t)
      PROVE  sagas[w.saga].retryCount >= MaxRetries
  BY <1>1, <1>4 DEF UpdateSaga, UpdateError, stored
<1>5. ASSUME UNCHANGED writes PROVE FALSE
  BY <1>5
<1> QED
  BY <1>3, <1>4, <1>5
     DEF Next, Step, HandleEvent, CheckTimeouts, ProcessSaga, RetrySaga, ExhaustSaga, Take,
         SkipModified, RecordHistory, Publish, DeadlinePasses, Crash, stored, vars

\* A timeout changes the state of a saga only when the row it replaces has no retry left.
THEOREM TimeoutsComeLast == Spec => TimeoutAfterRetries
<1>1. IInv /\ [Next]_vars
        => [\A w \in writes' \ writes :
               w.event = "Timeout" => sagas[w.saga].retryCount >= MaxRetries]_vars
  BY TimeoutStep
<1> QED
  BY <1>1, Invariance, PTL DEF Spec, TimeoutAfterRetries

-----------------------------------------------------------------------------
(* The orchestrator implements SagaLifecycle *)

Outcome == [s \in Sagas |-> OutcomeOf(sagas[s].state)]

Told(s) == {Announcement(m.type) : m \in {m \in published : m.saga = s /\ m.type \in TerminalEvents}}

Announced == [s \in Sagas |-> Told(s)]

LEMMA OutcomeOfStates ==
    /\ OutcomeOf("NONE") = "none"
    /\ \A state \in PendingStates : OutcomeOf(state) = "running"
    /\ \A state \in TerminalStates :
          OutcomeOf(state) \in {"completed", "failed"} /\ OutcomeOf(state) = Announcement(MessageFor(state))
BY DEF OutcomeOf, PendingStates, TerminalStates, Announcement, MessageFor

LEMMA InsertStarts ==
    ASSUME IInv, NEW s \in Sagas, ~Exists(s), InsertRow(s), UNCHANGED published
    PROVE  Lifecycle!Start(s)
<1>1. sagas' = [sagas EXCEPT ![s] = FreshRow] /\ sagas[s] = NoSaga
  BY DEF InsertRow, Exists
<1>2. Outcome[s] = "none"
  BY <1>1, OutcomeOfStates DEF Outcome, NoSaga
<1>3. OutcomeOf(FreshRow.state) = "running"
  BY OutcomeOfStates DEF FreshRow, PendingStates
<1>4. Outcome' = [Outcome EXCEPT ![s] = "running"]
  BY <1>1, <1>3 DEF Outcome, IInv, TypeOK
<1>5. Announced' = Announced
  BY DEF Announced, Told
<1> QED
  BY <1>2, <1>4, <1>5 DEF Lifecycle!Start, Outcome, Announced, Told

LEMMA UpdateFinishes ==
    ASSUME IInv, NEW t \in Threads, job[t].pc = "update", Unmodified(job[t]), UpdateRow(job[t]),
           UNCHANGED published
    PROVE  Lifecycle!Next \/ UNCHANGED Lifecycle!vars
<1>1. PICK j \in Jobs : j = job[t] /\ UnwrittenJob(j)
  BY BusyThread, JobNumbers DEF IInv, JobsAreSound, JobSound
<1> DEFINE s == j.saga
<1>2. s \in Sagas /\ sagas[s].state = j.from /\ j.from \in PendingStates /\ j.to \in SagaStates
  BY <1>1 DEF Jobs, UnwrittenJob, Seen, Unmodified
<1>3. sagas' = [sagas EXCEPT ![s] = RowOf(j)] /\ RowOf(j).state = j.to
  BY <1>1 DEF UpdateRow, RowOf
<1>4. Outcome[s] = "running"
  BY <1>2, OutcomeOfStates DEF Outcome
<1>5. Outcome' = [Outcome EXCEPT ![s] = OutcomeOf(j.to)]
  BY <1>2, <1>3 DEF Outcome, IInv, TypeOK
<1>6. Announced' = Announced
  BY DEF Announced, Told
<1>7. CASE j.to \in PendingStates
  <2>1. OutcomeOf(j.to) = "running"
    BY <1>7, OutcomeOfStates
  <2>2. Outcome' = Outcome
    BY <1>2, <1>4, <1>5, <2>1 DEF Outcome
  <2> QED
    BY <1>6, <2>2 DEF Lifecycle!vars, Outcome, Announced, Told
<1>8. CASE j.to \in TerminalStates
  <2>1. OutcomeOf(j.to) \in {"completed", "failed"}
    BY <1>8, OutcomeOfStates
  <2>2. Lifecycle!Finish(s)
    BY <1>4, <1>5, <1>6, <2>1 DEF Lifecycle!Finish, Lifecycle!Outcomes, Outcome, Announced, Told
  <2> QED
    BY <1>2, <2>2 DEF Lifecycle!Next
<1> QED
  BY <1>2, <1>7, <1>8 DEF SagaStates

LEMMA PublishAnnounces ==
    ASSUME IInv, NEW t \in Threads, Publish(t)
    PROVE  Lifecycle!Next \/ UNCHANGED Lifecycle!vars
<1>1. PICK j \in Jobs : j = job[t]
  BY BusyThread DEF IInv, Publish
<1>2. WrittenJob(j) /\ j.action = MessageFor(j.to) /\ j.saga \in Sagas /\ j.to \in SagaStates
  BY <1>1, JobNumbers DEF Publish, IInv, JobsAreSound, JobSound, Jobs
<1> DEFINE s == j.saga
           m == Message(j)
<1>3. m.saga = s /\ m.type = j.action /\ m.updatedAt = j.updatedAt
  BY DEF Message
<1>4. Outcome' = Outcome
  BY DEF Publish, Outcome, stored
<1> HIDE DEF m
<1>5. CASE published' = published
  BY <1>4, <1>5 DEF Lifecycle!vars, Outcome, Announced, Told
<1>6. CASE published' = published \cup {m} /\ m.type \notin TerminalEvents
  <2>1. \A r : Told(r)' = Told(r)
    BY <1>6 DEF Told
  <2> QED
    BY <1>4, <2>1 DEF Lifecycle!vars, Outcome, Told
<1>7. CASE published' = published \cup {m} /\ m.type \in TerminalEvents
  <2>1. j.to \in TerminalStates
    BY <1>2, <1>3, <1>7, TerminalMessages
  <2>2. /\ Written(j) \in writes
        /\ Written(j).saga = s
        /\ Written(j).to = j.to
        /\ Written(j).updatedAt = j.updatedAt
    BY <1>2 DEF WrittenJob, Written
  <2>3. j.updatedAt = sagas[s].updatedAt
    BY <2>1, <2>2 DEF IInv, OutcomeIsLast
  <2>4. sagas[s].state = j.to
    <3>1. PICK v \in writes : v.saga = s /\ v.updatedAt = sagas[s].updatedAt /\ v.to = sagas[s].state
      BY <1>2, <2>2 DEF IInv, NoLostUpdate
    <3>2. v = Written(j)
      BY <2>2, <2>3, <3>1 DEF IInv, NoLostUpdate
    <3> QED
      BY <2>2, <3>1, <3>2
  <2>5. Outcome[s] \in {"completed", "failed"} /\ Outcome[s] = Announcement(m.type)
    BY <1>2, <1>3, <2>1, <2>4, OutcomeOfStates DEF Outcome
  <2>6. \A n \in published : n.type \in TerminalEvents => n.updatedAt = sagas[n.saga].updatedAt
    <3>1. ASSUME NEW n \in published, n.type \in TerminalEvents
          PROVE  n.updatedAt = sagas[n.saga].updatedAt
      <4>1. PICK w \in writes : /\ w.saga = n.saga
                                /\ w.updatedAt = n.updatedAt
                                /\ n.type = MessageFor(w.to)
        BY DEF IInv, PublishedAfterPersist
      <4>2. w.to \in SagaStates
        BY DEF IInv, TypeOK, Writes
      <4> QED
        BY <3>1, <4>1, <4>2, TerminalMessages DEF IInv, OutcomeIsLast
    <3> QED
      BY <3>1
  <2>7. Told(s) = {}
    BY <1>2, <2>3, <2>6 DEF Told, WrittenJob
  <2>8. Told(s)' = {Announcement(m.type)}
    BY <1>3, <1>7, <2>7 DEF Told
  <2>9. \A r \in Sagas : r # s => Told(r)' = Told(r)
    BY <1>3, <1>7 DEF Told
  <2>10. Announced' = [Announced EXCEPT ![s] = {Outcome[s]}]
    BY <2>5, <2>8, <2>9 DEF Announced
  <2>11. Lifecycle!Announce(s)
    BY <1>2, <1>4, <2>5, <2>7, <2>10 DEF Lifecycle!Announce, Lifecycle!Outcomes, Outcome, Announced, Told
  <2> QED
    BY <1>2, <2>11 DEF Lifecycle!Next
<1> QED
  BY <1>1, <1>5, <1>6, <1>7 DEF Publish, m

LEMMA LifecycleInit == Init => Lifecycle!Init
<1> SUFFICES ASSUME Init PROVE Lifecycle!Init
  OBVIOUS
<1>1. Outcome = [s \in Sagas |-> "none"]
  BY OutcomeOfStates DEF Init, Outcome, NoSaga
<1>2. Announced = [s \in Sagas |-> {}]
  BY DEF Init, Announced, Told
<1> QED
  BY <1>1, <1>2 DEF Lifecycle!Init, Outcome, Announced, Told

\* A step that leaves states and messages alone is invisible in the lifecycle.
LEMMA InvisibleStep ==
    ASSUME IInv, SameRows, UNCHANGED published
    PROVE  UNCHANGED Lifecycle!vars
<1>1. \A s \in Sagas : sagas'[s].state = sagas[s].state
  BY DEF SameRows, Exists
<1>2. Outcome' = Outcome
  BY <1>1 DEF Outcome
<1>3. Announced' = Announced
  BY DEF Announced, Told
<1> QED
  BY <1>2, <1>3 DEF Lifecycle!vars, Outcome, Announced, Told

LEMMA LifecycleStep == IInv /\ [Next]_vars => [Lifecycle!Next]_Lifecycle!vars
<1> SUFFICES ASSUME IInv, [Next]_vars PROVE Lifecycle!Next \/ UNCHANGED Lifecycle!vars
  OBVIOUS
<1>1. ASSUME NEW c \in CommandConsumers, NEW s \in Sagas,
             StartSaga(c, s) \/ StartSagaLosesReply(c, s)
      PROVE  Lifecycle!Next
  <2>1. Lifecycle!Start(s)
    BY <1>1, InsertStarts DEF StartSaga, StartSagaLosesReply
  <2> QED
    BY <2>1 DEF Lifecycle!Next
<1>2. ASSUME NEW t \in Threads, UpdateSaga(t) \/ UpdateError(t)
      PROVE  Lifecycle!Next \/ UNCHANGED Lifecycle!vars
  <2>1. CASE Unmodified(job[t]) /\ UpdateRow(job[t])
    BY <1>2, <2>1, UpdateFinishes DEF UpdateSaga, UpdateError
  <2>2. CASE UNCHANGED stored
    BY <1>2, <2>2, StoredIsSameRows, InvisibleStep DEF UpdateSaga, UpdateError
  <2> QED
    BY <1>2, <2>1, <2>2 DEF UpdateSaga, UpdateError
<1>3. ASSUME NEW t \in Threads, Publish(t)
      PROVE  Lifecycle!Next \/ UNCHANGED Lifecycle!vars
  BY <1>3, PublishAnnounces
<1>4. ASSUME NEW s \in Sagas, DeadlinePasses(s)
      PROVE  UNCHANGED Lifecycle!vars
  BY <1>4, DeadlineIsSameRows, InvisibleStep DEF IInv, DeadlinePasses
<1>5. ASSUME UNCHANGED stored, UNCHANGED published
      PROVE  UNCHANGED Lifecycle!vars
  BY <1>5, StoredIsSameRows, InvisibleStep
<1>6. CASE UNCHANGED vars
  BY <1>5, <1>6 DEF vars, stored
<1>7. ASSUME \/ \E c \in EventConsumers, s \in Sagas, event \in PaymentEvents \cup InventoryEvents :
                    HandleEvent(c, s, event)
             \/ \E w \in Workers : CheckTimeouts(w) \/ ProcessSaga(w)
             \/ \E t \in Threads : SkipModified(t) \/ RecordHistory(t)
             \/ Crash
      PROVE  UNCHANGED stored /\ UNCHANGED published
  BY <1>7 DEF HandleEvent, CheckTimeouts, ProcessSaga, RetrySaga, ExhaustSaga, Take,
              SkipModified, RecordHistory, Crash
<1> QED
  BY <1>1, <1>2, <1>3, <1>4, <1>5, <1>6, <1>7 DEF Next, Step

\* Seen through the states of the rows and the terminal messages, the orchestrator takes
\* only steps of the lifecycle: one start, one outcome, one announcement of it.
THEOREM Refinement == Spec => ImplementsLifecycle
<1>1. Init => Lifecycle!Init
  BY LifecycleInit
<1>2. IInv /\ [Next]_vars => [Lifecycle!Next]_Lifecycle!vars
  BY LifecycleStep
<1> QED
  BY <1>1, <1>2, Invariance, PTL DEF Spec, ImplementsLifecycle, Lifecycle!Spec
=============================================================================
