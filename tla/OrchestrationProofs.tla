------------------------ MODULE OrchestrationProofs ------------------------
(***************************************************************************)
(* The orchestrated services together, for every set of orders, any number *)
(* of timeout workers, every limit on retries and any number of faults of  *)
(* any kind: the orchestrator among them is the module Orchestrator, so    *)
(* what is proved of that holds here, and from it follows what an order    *)
(* may come to.                                                            *)
(***************************************************************************)
EXTENDS Orchestration, TLAPS

USE LimitsAssumption

\* The lemmas about consumers, for each of the participants.
AC == INSTANCE ServiceConsumersProofs WITH
    loop <- apiLoop, seen <- apiSeen, MaxRetries <- HandlerRetries,
    Reads <- DOMAIN ApiHandled, Handled <- ApiHandled

PC == INSTANCE ServiceConsumersProofs WITH
    loop <- paymentLoop, seen <- paymentSeen, MaxRetries <- HandlerRetries,
    Reads <- DOMAIN PaymentHandled, Handled <- PaymentHandled

IC == INSTANCE ServiceConsumersProofs WITH
    loop <- inventoryLoop, seen <- inventorySeen, MaxRetries <- HandlerRetries,
    Reads <- DOMAIN InventoryHandled, Handled <- InventoryHandled

\* What is proved of the orchestrator alone.
OP == INSTANCE OrchestratorBoundsProofs WITH
    Sagas <- Orders, CommandConsumers <- {"saga-commands"}, PaymentConsumers <- {"payment-events"},
    InventoryConsumers <- {"inventory-events"}, faults <- orchFaults

-----------------------------------------------------------------------------
(* The orchestrator's terms are those of its proofs *)

LEMMA OrchTypes == Orch!TypeOK <=> OP!TypeOK
BY DEF Orch!TypeOK, OP!TypeOK, Orch!Rows, OP!Rows, Orch!SagaStates, OP!SagaStates, Orch!PendingStates,
       OP!PendingStates, Orch!TerminalStates, OP!TerminalStates, Orch!NoSaga, OP!NoSaga,
       Orch!HistoryEntries, OP!HistoryEntries, Orch!FromStates, OP!FromStates, Orch!WriteEvents,
       OP!WriteEvents, Orch!PaymentEvents, OP!PaymentEvents, Orch!InventoryEvents, OP!InventoryEvents,
       Orch!Messages, OP!Messages, Orch!MessageTypes, OP!MessageTypes, Orch!Commands, OP!Commands,
       Orch!TerminalEvents, OP!TerminalEvents, Orch!Threads, OP!Threads, Orch!EventConsumers,
       OP!EventConsumers, Orch!Jobs, OP!Jobs, Orch!Idle, OP!Idle, Orch!Snapshots, OP!Snapshots, Orch!Writes,
       OP!Writes

LEMMA OrchInits == Orch!Init <=> OP!Init
BY DEF Orch!Init, OP!Init, Orch!NoSaga, OP!NoSaga, Orch!Threads, OP!Threads, Orch!EventConsumers,
       OP!EventConsumers, Orch!Idle, OP!Idle

LEMMA OrchSteps == Orch!Next <=> OP!Next
BY DEF Orch!Next, OP!Next, Orch!StartSaga, OP!StartSaga, Orch!Idle, OP!Idle, Orch!Exists, OP!Exists,
       Orch!NoSaga, OP!NoSaga, Orch!InsertRow, OP!InsertRow, Orch!FreshRow, OP!FreshRow, Orch!StartWrite,
       OP!StartWrite, Orch!StartJob, OP!StartJob, Orch!StartSagaLosesReply, OP!StartSagaLosesReply,
       Orch!Fault, OP!Fault, Orch!EventConsumers, OP!EventConsumers, Orch!PaymentEvents, OP!PaymentEvents,
       Orch!InventoryEvents, OP!InventoryEvents, Orch!HandleEvent, OP!HandleEvent, Orch!EventsOf,
       OP!EventsOf, Orch!Deliverable, OP!Deliverable, Orch!AnswerTo, OP!AnswerTo, Orch!Apply, OP!Apply,
       Orch!Transitions, OP!Transitions, Orch!Transition, OP!Transition, Orch!EventJob, OP!EventJob,
       Orch!StepDeadline, OP!StepDeadline, Orch!stored, OP!stored, Orch!CheckTimeouts, OP!CheckTimeouts,
       Orch!TimedOut, OP!TimedOut, Orch!PendingStates, OP!PendingStates, Orch!Snapshot, OP!Snapshot,
       Orch!ProcessSaga, OP!ProcessSaga, Orch!RetrySaga, OP!RetrySaga, Orch!RetriesLeft, OP!RetriesLeft,
       Orch!Take, OP!Take, Orch!RetryJob, OP!RetryJob, Orch!ResendCommand, OP!ResendCommand,
       Orch!ExhaustSaga, OP!ExhaustSaga, Orch!TimeoutTransitions, OP!TimeoutTransitions, Orch!ExhaustJob,
       OP!ExhaustJob, Orch!Threads, OP!Threads, Orch!Step, OP!Step, Orch!UpdateSaga, OP!UpdateSaga,
       Orch!Unmodified, OP!Unmodified, Orch!UpdateRow, OP!UpdateRow, Orch!RowOf, OP!RowOf, Orch!WriteOf,
       OP!WriteOf, Orch!AfterUpdate, OP!AfterUpdate, Orch!SkipModified, OP!SkipModified, Orch!RecordHistory,
       OP!RecordHistory, Orch!Entry, OP!Entry, Orch!Publish, OP!Publish, Orch!Message, OP!Message,
       Orch!UpdateError, OP!UpdateError, Orch!DeadlinePasses, OP!DeadlinePasses, Orch!Crash, OP!Crash

LEMMA OrchOutcomes == Orch!OneOutcome <=> OP!OneOutcome
BY DEF Orch!OneOutcome, OP!OneOutcome, Orch!TerminalEvents, OP!TerminalEvents, Orch!MessageFor,
       OP!MessageFor

LEMMA OrchEarned == Orch!CompletionIsEarned <=> OP!CompletionIsEarned
BY DEF Orch!CompletionIsEarned, OP!CompletionIsEarned

LEMMA OrchDiagrams == Orch!DiagramComplete <=> OP!DiagramComplete
BY DEF Orch!DiagramComplete, OP!DiagramComplete, Orch!Edge, OP!Edge, Orch!DiagramTransitions,
       OP!DiagramTransitions

LEMMA OrchPublished == Orch!PublishedAfterPersist <=> OP!PublishedAfterPersist
BY DEF Orch!PublishedAfterPersist, OP!PublishedAfterPersist, Orch!MessageFor, OP!MessageFor

LEMMA OrchUpdates == Orch!NoLostUpdate <=> OP!NoLostUpdate
BY DEF Orch!NoLostUpdate, OP!NoLostUpdate, Orch!Exists, OP!Exists, Orch!NoSaga, OP!NoSaga

LEMMA OrchPaths == Orch!OnePathPerSaga <=> OP!OnePathPerSaga
BY DEF Orch!OnePathPerSaga, OP!OnePathPerSaga, Orch!PathTo, OP!PathTo

LEMMA OrchJobs == Orch!JobsAreSound <=> OP!JobsAreSound
BY DEF Orch!JobsAreSound, OP!JobsAreSound, Orch!JobSound, OP!JobSound, Orch!UnwrittenJob, OP!UnwrittenJob,
       Orch!WrittenJob, OP!WrittenJob, Orch!Written, OP!Written, Orch!Seen, OP!Seen, Orch!Exists, OP!Exists,
       Orch!NoSaga, OP!NoSaga, Orch!Unmodified, OP!Unmodified, Orch!MessageFor, OP!MessageFor, Orch!Idle, OP!Idle,
       Orch!Threads, OP!Threads, Orch!EventConsumers, OP!EventConsumers, Orch!PendingStates, OP!PendingStates

-----------------------------------------------------------------------------
(* The services' terms are those of the lemmas *)

FaultsTyped == faults \in [all : 0..MaxFaults, harmful : Nat, untold : BOOLEAN]

StoresTyped ==
    /\ orders \in [Orders -> Api!Statuses]
    /\ requests \in SUBSET Orders
    /\ payments \in [Orders -> Payment!PaymentStates]
    /\ reservations \in SUBSET Orders

OrchConsumersTyped ==
    /\ orchLoop \in [DOMAIN OrchHandled -> OrchLoops]
    /\ \A t \in DOMAIN OrchHandled :
           /\ orchLoop[t].pc = "working" <=> job[t] # Orch!Idle
           /\ orchLoop[t].committed <= orchLoop[t].fetched /\ orchLoop[t].fetched <= Len(topics[t])
           /\ orchLoop[t].pc # "fetch" => orchLoop[t].fetched > 0

LEMMA TopicNames ==
    /\ DOMAIN ApiHandled = {"saga-events"} /\ DOMAIN PaymentHandled = {"payment-commands"}
    /\ DOMAIN InventoryHandled = {"inventory-commands"}
    /\ DOMAIN OrchHandled = {"saga-commands", "payment-events", "inventory-events"}
    /\ Topics = {"saga-commands", "saga-events", "payment-commands", "payment-events",
                 "inventory-commands", "inventory-events"}
    /\ ApiHandled["saga-events"] = {"SagaCompleted", "SagaFailed"}
    /\ PaymentHandled["payment-commands"] = {"ReservePayment", "CancelPayment"}
    /\ InventoryHandled["inventory-commands"] = {"ReserveInventory"}
<1>1. /\ DOMAIN ApiHandled = {"saga-events"} /\ DOMAIN PaymentHandled = {"payment-commands"}
      /\ DOMAIN InventoryHandled = {"inventory-commands"}
      /\ DOMAIN OrchHandled = {"saga-commands", "payment-events", "inventory-events"}
  BY DEF ApiHandled, PaymentHandled, InventoryHandled, OrchHandled, EventTopics
<1>2. Topics = (DOMAIN ApiHandled) \cup (DOMAIN PaymentHandled) \cup (DOMAIN InventoryHandled) \cup (DOMAIN OrchHandled)
  BY DEF Topics
<1> QED
  BY <1>1, <1>2 DEF ApiHandled, PaymentHandled, InventoryHandled

LEMMA TopicFacts ==
    ASSUME topics \in [Topics -> Seq(Consumers!Messages)]
    PROVE  AC!TopicsTyped /\ PC!TopicsTyped /\ IC!TopicsTyped /\ DOMAIN topics = Topics
<1>1. AC!Messages = Consumers!Messages /\ PC!Messages = Consumers!Messages /\ IC!Messages = Consumers!Messages
  BY DEF Consumers!Messages, AC!Messages, PC!Messages, IC!Messages, Consumers!Types, AC!Types, PC!Types, IC!Types
<1>2. DOMAIN topics = Topics
  OBVIOUS
<1>3. "none" \notin Topics
  BY TopicNames
<1>4. DOMAIN ApiHandled \subseteq Topics /\ DOMAIN PaymentHandled \subseteq Topics /\ DOMAIN InventoryHandled \subseteq Topics
  BY TopicNames
<1> QED
  BY <1>1, <1>2, <1>3, <1>4 DEF AC!TopicsTyped, PC!TopicsTyped, IC!TopicsTyped

LEMMA ApiConsumersTyped == Api!ConsumersTypeOK <=> AC!ConsumersTypeOK
BY DEF Api!ConsumersTypeOK, AC!ConsumersTypeOK, Api!Loops, AC!Loops, Api!Outs, AC!Outs, Api!Silent, AC!Silent,
       Api!Coherent, AC!Coherent, Api!Types, AC!Types

LEMMA PaymentConsumersTyped == Payment!ConsumersTypeOK <=> PC!ConsumersTypeOK
BY DEF Payment!ConsumersTypeOK, PC!ConsumersTypeOK, Payment!Loops, PC!Loops, Payment!Outs, PC!Outs, Payment!Silent,
       PC!Silent, Payment!Coherent, PC!Coherent, Payment!Types, PC!Types

LEMMA InventoryConsumersTyped == Inventory!ConsumersTypeOK <=> IC!ConsumersTypeOK
BY DEF Inventory!ConsumersTypeOK, IC!ConsumersTypeOK, Inventory!Loops, IC!Loops, Inventory!Outs, IC!Outs,
       Inventory!Silent, IC!Silent, Inventory!Coherent, IC!Coherent, Inventory!Types, IC!Types

LEMMA LimitsNatural == MaxRetries \in Nat /\ HandlerRetries \in Nat /\ MaxFaults \in Nat
OBVIOUS

LEMMA TypesSplit ==
    TypeOK <=> /\ topics \in [Topics -> Seq(Consumers!Messages)]
               /\ AC!Typed /\ PC!Typed /\ IC!Typed
               /\ FaultsTyped
               /\ StoresTyped
               /\ OrchConsumersTyped
               /\ Orch!TypeOK
<1> DEFINE T == topics \in [Topics -> Seq(Consumers!Messages)]
<1>1. T => AC!TopicsTyped /\ PC!TopicsTyped /\ IC!TopicsTyped
  BY TopicFacts
<1>2. /\ AC!Typed <=> AC!TopicsTyped /\ FaultsTyped /\ Api!ConsumersTypeOK
      /\ PC!Typed <=> PC!TopicsTyped /\ FaultsTyped /\ Payment!ConsumersTypeOK
      /\ IC!Typed <=> IC!TopicsTyped /\ FaultsTyped /\ Inventory!ConsumersTypeOK
  BY ApiConsumersTyped, PaymentConsumersTyped, InventoryConsumersTyped, LimitsNatural
     DEF AC!Typed, PC!Typed, IC!Typed, AC!FaultRecords, PC!FaultRecords, IC!FaultRecords, FaultsTyped
<1>3. TypeOK <=> /\ T /\ FaultsTyped /\ StoresTyped /\ OrchConsumersTyped /\ Orch!TypeOK
                 /\ Api!ConsumersTypeOK /\ Payment!ConsumersTypeOK /\ Inventory!ConsumersTypeOK
  BY DEF TypeOK, FaultsTyped, StoresTyped, OrchConsumersTyped, Api!TypeOK, Payment!TypeOK, Inventory!TypeOK
<1> HIDE DEF T
<1>4. TypeOK <=> T /\ AC!Typed /\ PC!Typed /\ IC!Typed /\ FaultsTyped /\ StoresTyped /\ OrchConsumersTyped /\ Orch!TypeOK
  BY <1>1, <1>2, <1>3
<1> QED
  BY <1>4 DEF T

\* The same of the state after a step.
LEMMA TypesSplitThen ==
    TypeOK' <=> /\ topics' \in [Topics -> Seq(Consumers!Messages)]
                /\ AC!Typed' /\ PC!Typed' /\ IC!Typed'
                /\ FaultsTyped'
                /\ StoresTyped'
                /\ OrchConsumersTyped'
                /\ Orch!TypeOK'
<1> DEFINE T == topics \in [Topics -> Seq(Consumers!Messages)]
<1>1. TypeOK <=> T /\ AC!Typed /\ PC!Typed /\ IC!Typed /\ FaultsTyped /\ StoresTyped /\ OrchConsumersTyped /\ Orch!TypeOK
  BY TypesSplit
<1> HIDE DEF T
<1>2. (TypeOK <=> T /\ AC!Typed /\ PC!Typed /\ IC!Typed /\ FaultsTyped /\ StoresTyped /\ OrchConsumersTyped /\ Orch!TypeOK)'
  BY <1>1, PTL
<1> QED
  BY <1>2 DEF T

-----------------------------------------------------------------------------
(* What the participants' steps are *)

Start(o) == [topic |-> "saga-commands", type |-> "StartSaga", order |-> o]

CreatesOrder(o) ==
    /\ orders[o] = "NONE"
    /\ orders' = [orders EXCEPT ![o] = "PENDING"]
    /\ requests' = requests \cup {o}
    /\ UNCHANGED <<topics, apiLoop, apiSeen, faults>>

AsksForSaga(o) ==
    /\ o \in requests
    /\ \/ AC!Sent(Start(o)) /\ UNCHANGED faults
       \/ AC!SentTwice(Start(o)) /\ AC!Fault("twice")
       \/ UNCHANGED topics /\ AC!Fault("publish")
       \/ AC!Sent(Start(o)) /\ AC!Fault("unsure")
    /\ requests' = requests \ {o}
    /\ UNCHANGED <<apiLoop, apiSeen, orders>>

HearsResult(t) ==
    /\ AC!Digest(t)
    /\ \/ orders' = orders
       \/ /\ orders[AC!InHand(t).order] # "NONE"
          /\ orders' = [orders EXCEPT ![AC!InHand(t).order] = Api!StatusAfter(AC!InHand(t).type)]
    /\ requests' = requests

ApiRestarts ==
    /\ AC!Restart
    /\ orders' = [o \in Orders |-> IF orders[o] = "NONE" THEN "NONE" ELSE "LOST"]
    /\ requests' = {}

LEMMA ApiSteps ==
    ASSUME Api!Next
    PROVE  \/ \E o \in Orders : CreatesOrder(o) \/ AsksForSaga(o)
           \/ \E t \in DOMAIN ApiHandled : HearsResult(t) \/ (AC!Moves(t) /\ UNCHANGED <<orders, requests>>)
           \/ ApiRestarts
<1>1. ASSUME NEW o \in Orders, Api!CreateOrder(o) PROVE CreatesOrder(o)
  BY <1>1 DEF Api!CreateOrder, CreatesOrder, Api!consumers
<1>2. ASSUME NEW o \in Orders, Api!PublishStartSaga(o) \/ Api!PublishStartSagaError(o)
      PROVE  AsksForSaga(o)
  BY <1>2 DEF Api!PublishStartSaga, Api!PublishStartSagaError, AsksForSaga, Api!StartSaga, Api!Message, Start,
              Api!Sent, AC!Sent, Api!SentTwice, AC!SentTwice, Api!Written, AC!Written, Api!WrittenTwice,
              AC!WrittenTwice, Api!Fault, AC!Fault, Api!HarmlessFaultKinds, AC!HarmlessFaultKinds
<1>3. ASSUME NEW t \in DOMAIN ApiHandled, Api!UpdateOrderStatus(t) \/ Api!OrderNotFound(t) PROVE HearsResult(t)
  BY <1>3 DEF Api!UpdateOrderStatus, Api!OrderNotFound, HearsResult, AC!Digest, Api!Begin, AC!Begin, Api!Handles,
              AC!Handles, Api!Ready, AC!Ready, Api!At, AC!At, Api!InHand, AC!InHand, Api!Id, AC!Id, Api!Mark, AC!Mark,
              Api!Finish, AC!Finish, Api!PassTo, AC!PassTo, Api!Finished, AC!Finished, Api!Took, AC!Took,
              Api!Silent, AC!Silent, Api!Known
<1>4. ASSUME NEW t \in DOMAIN ApiHandled, Api!SkipDuplicate(t) \/ Api!Commit(t) \/ Api!CommitError(t)
      PROVE  AC!Moves(t)
  BY <1>4 DEF AC!Moves, Api!SkipDuplicate, AC!SkipDuplicate, Api!Commit, AC!Commit, Api!CommitError, AC!CommitError,
              Api!Fault, AC!Fault, Api!HarmlessFaultKinds, AC!HarmlessFaultKinds, Api!Handles, AC!Handles,
              Api!Ready, AC!Ready, Api!At, AC!At, Api!InHand, AC!InHand, Api!Id, AC!Id, Api!PassTo, AC!PassTo,
              Api!Finished, AC!Finished, Api!Took, AC!Took, Api!Silent, AC!Silent
<1>5. ASSUME Api!RestartService PROVE ApiRestarts
  BY <1>5 DEF Api!RestartService, ApiRestarts, Api!Restart, AC!Restart, Api!Resume, AC!Resume, Api!Fault, AC!Fault,
              Api!HarmlessFaultKinds, AC!HarmlessFaultKinds, Api!StartAt, AC!StartAt, Api!Silent, AC!Silent
<1> QED
  BY <1>1, <1>2, <1>3, <1>4, <1>5 DEF Api!Next, Api!Working, Api!Handling, Api!Consuming, Api!Deduplicating

PaymentAnswer(type, o) == [topic |-> "payment-events", type |-> type, order |-> o]
InventoryAnswer(type, o) == [topic |-> "inventory-events", type |-> type, order |-> o]

\* payment-service reserves, again or not, or refuses; or it gives back.
Pays(t) ==
    LET o == PC!InHand(t).order
    IN  /\ PC!InHand(t).type = "ReservePayment"
        /\ \/ /\ PC!Handle(t, PaymentAnswer("PaymentReserved", o))
              /\ payments' = [payments EXCEPT ![o] = "held"]
           \/ /\ PC!Handle(t, PaymentAnswer("PaymentReserved", o))
              /\ payments[o] = "held" /\ payments' = payments
           \/ /\ PC!Handle(t, PaymentAnswer("PaymentFailed", o))
              /\ payments' = payments

GivesBack(t) ==
    LET o == PC!InHand(t).order
    IN  /\ PC!InHand(t).type = "CancelPayment"
        /\ PC!Handle(t, PaymentAnswer("PaymentCancelled", o))
        /\ payments' = [payments EXCEPT ![o] = Payment!AfterDelete(@)]

PaymentPublishes(t) ==
    /\ PC!Publish(t) \/ PC!PublishTwice(t) \/ PC!PublishError(t)
    /\ payments' = payments

PaymentRestarts == PC!Restart /\ payments' = [o \in Orders |-> "none"]

LEMMA PaymentSteps ==
    ASSUME Payment!Next
    PROVE  \/ \E t \in DOMAIN PaymentHandled :
                  Pays(t) \/ GivesBack(t) \/ PaymentPublishes(t) \/ (PC!Moves(t) /\ payments' = payments)
           \/ PaymentRestarts
<1>1. ASSUME NEW t \in DOMAIN PaymentHandled
      PROVE  /\ PC!InHand(t) = Payment!InHand(t)
             /\ Payment!Begin(t) <=> PC!Begin(t)
             /\ \A m : Payment!GoPublish(t, m) <=> PC!GoPublish(t, m)
  BY DEF Payment!InHand, PC!InHand, Payment!At, PC!At, Payment!Begin, PC!Begin, Payment!Handles, PC!Handles,
         Payment!Ready, PC!Ready, Payment!Id, PC!Id, Payment!Mark, PC!Mark, Payment!GoPublish, PC!GoPublish,
         Payment!PassTo, PC!PassTo, Payment!Took, PC!Took
<1>2. \A type, o : Payment!Answer(type, o) = PaymentAnswer(type, o)
  BY DEF Payment!Answer, Payment!Message, PaymentAnswer
<1>3. ASSUME NEW t \in DOMAIN PaymentHandled, Payment!ReservePayment(t) PROVE Pays(t)
  BY <1>1, <1>2, <1>3 DEF Payment!ReservePayment, Pays, PC!Handle
<1>4. ASSUME NEW t \in DOMAIN PaymentHandled, Payment!CancelPayment(t) PROVE GivesBack(t)
  BY <1>1, <1>2, <1>4 DEF Payment!CancelPayment, GivesBack, PC!Handle
<1>5. ASSUME NEW t \in DOMAIN PaymentHandled,
             \/ Payment!SkipDuplicate(t) \/ Payment!Commit(t) \/ Payment!CommitError(t)
             \/ Payment!DeadLetter(t) \/ Payment!DeadLetterError(t)
      PROVE  PC!Moves(t)
  BY <1>5 DEF PC!Moves, Payment!SkipDuplicate, PC!SkipDuplicate, Payment!Commit, PC!Commit, Payment!CommitError,
              PC!CommitError, Payment!DeadLetter, PC!DeadLetter, Payment!DeadLetterError, PC!DeadLetterError,
              Payment!Fault, PC!Fault, Payment!HarmlessFaultKinds, PC!HarmlessFaultKinds, Payment!Handles, PC!Handles,
              Payment!Ready, PC!Ready, Payment!At, PC!At, Payment!InHand, PC!InHand, Payment!Id, PC!Id,
              Payment!PassTo, PC!PassTo, Payment!Finished, PC!Finished, Payment!Took, PC!Took,
              Payment!Silent, PC!Silent
<1>6. ASSUME NEW t \in DOMAIN PaymentHandled, Payment!Publish(t) \/ Payment!PublishTwice(t)
      PROVE  PC!Publish(t) \/ PC!PublishTwice(t)
  BY <1>6 DEF Payment!Publish, PC!Publish, Payment!PublishTwice, PC!PublishTwice, Payment!Sent, PC!Sent,
              Payment!SentTwice, PC!SentTwice, Payment!Written, PC!Written, Payment!WrittenTwice, PC!WrittenTwice,
              Payment!Fault, PC!Fault, Payment!HarmlessFaultKinds, PC!HarmlessFaultKinds,
              Payment!Finish, PC!Finish, Payment!PassTo, PC!PassTo, Payment!Finished, PC!Finished,
              Payment!Took, PC!Took, Payment!At, PC!At, Payment!Silent, PC!Silent
<1>7. ASSUME NEW t \in DOMAIN PaymentHandled, Payment!PublishError(t)
      PROVE  PC!PublishError(t)
  BY <1>7 DEF Payment!PublishError, PC!PublishError, Payment!StillDown, PC!StillDown, Payment!Unmark, PC!Unmark,
              Payment!Sent, PC!Sent, Payment!Written, PC!Written, Payment!Fault, PC!Fault,
              Payment!HarmlessFaultKinds, PC!HarmlessFaultKinds, Payment!Fail, PC!Fail, Payment!PassTo, PC!PassTo,
              Payment!Failed, PC!Failed, Payment!Took, PC!Took, Payment!At, PC!At, Payment!InHand, PC!InHand,
              Payment!Id, PC!Id, Payment!Silent, PC!Silent
<1>8. ASSUME Payment!RestartService PROVE PaymentRestarts
  BY <1>8 DEF Payment!RestartService, PaymentRestarts, Payment!Restart, PC!Restart, Payment!Resume, PC!Resume,
              Payment!Fault, PC!Fault, Payment!HarmlessFaultKinds, PC!HarmlessFaultKinds, Payment!StartAt, PC!StartAt,
              Payment!Silent, PC!Silent
<1> QED
  BY <1>3, <1>4, <1>5, <1>6, <1>7, <1>8
     DEF Payment!Next, Payment!Working, Payment!Handling, Payment!Consuming, Payment!Deduplicating,
         Payment!Publishing, Payment!Retrying, Payment!DeadLettering, PaymentPublishes

\* inventory-service reserves, again or not, or refuses.
Reserves(t) ==
    LET o == IC!InHand(t).order
    IN  \/ /\ IC!Handle(t, InventoryAnswer("InventoryReserved", o))
           /\ reservations' = reservations \cup {o}
        \/ /\ IC!Handle(t, InventoryAnswer("InventoryFailed", o))
           /\ reservations' = reservations

InventoryPublishes(t) ==
    /\ IC!Publish(t) \/ IC!PublishTwice(t) \/ IC!PublishError(t)
    /\ reservations' = reservations

InventoryRestarts == IC!Restart /\ reservations' = {}

LEMMA InventorySteps ==
    ASSUME Inventory!Next
    PROVE  \/ \E t \in DOMAIN InventoryHandled :
                  Reserves(t) \/ InventoryPublishes(t) \/ (IC!Moves(t) /\ reservations' = reservations)
           \/ InventoryRestarts
<1>1. ASSUME NEW t \in DOMAIN InventoryHandled
      PROVE  /\ IC!InHand(t) = Inventory!InHand(t)
             /\ Inventory!Begin(t) <=> IC!Begin(t)
             /\ \A m : Inventory!GoPublish(t, m) <=> IC!GoPublish(t, m)
  BY DEF Inventory!InHand, IC!InHand, Inventory!At, IC!At, Inventory!Begin, IC!Begin, Inventory!Handles, IC!Handles,
         Inventory!Ready, IC!Ready, Inventory!Id, IC!Id, Inventory!Mark, IC!Mark, Inventory!GoPublish, IC!GoPublish,
         Inventory!PassTo, IC!PassTo, Inventory!Took, IC!Took
<1>2. \A type, o : Inventory!Answer(type, o) = InventoryAnswer(type, o)
  BY DEF Inventory!Answer, Inventory!Message, InventoryAnswer
<1>3. ASSUME NEW t \in DOMAIN InventoryHandled, Inventory!ReserveInventory(t) PROVE Reserves(t)
  BY <1>1, <1>2, <1>3 DEF Inventory!ReserveInventory, Reserves, IC!Handle
<1>5. ASSUME NEW t \in DOMAIN InventoryHandled,
             \/ Inventory!SkipDuplicate(t) \/ Inventory!Commit(t) \/ Inventory!CommitError(t)
             \/ Inventory!DeadLetter(t) \/ Inventory!DeadLetterError(t)
      PROVE  IC!Moves(t)
  BY <1>5 DEF IC!Moves, Inventory!SkipDuplicate, IC!SkipDuplicate, Inventory!Commit, IC!Commit, Inventory!CommitError,
              IC!CommitError, Inventory!DeadLetter, IC!DeadLetter, Inventory!DeadLetterError, IC!DeadLetterError,
              Inventory!Fault, IC!Fault, Inventory!HarmlessFaultKinds, IC!HarmlessFaultKinds, Inventory!Handles, IC!Handles,
              Inventory!Ready, IC!Ready, Inventory!At, IC!At, Inventory!InHand, IC!InHand, Inventory!Id, IC!Id,
              Inventory!PassTo, IC!PassTo, Inventory!Finished, IC!Finished, Inventory!Took, IC!Took,
              Inventory!Silent, IC!Silent
<1>6. ASSUME NEW t \in DOMAIN InventoryHandled, Inventory!Publish(t) \/ Inventory!PublishTwice(t)
      PROVE  IC!Publish(t) \/ IC!PublishTwice(t)
  BY <1>6 DEF Inventory!Publish, IC!Publish, Inventory!PublishTwice, IC!PublishTwice, Inventory!Sent, IC!Sent,
              Inventory!SentTwice, IC!SentTwice, Inventory!Written, IC!Written, Inventory!WrittenTwice, IC!WrittenTwice,
              Inventory!Fault, IC!Fault, Inventory!HarmlessFaultKinds, IC!HarmlessFaultKinds,
              Inventory!Finish, IC!Finish, Inventory!PassTo, IC!PassTo, Inventory!Finished, IC!Finished,
              Inventory!Took, IC!Took, Inventory!At, IC!At, Inventory!Silent, IC!Silent
<1>7. ASSUME NEW t \in DOMAIN InventoryHandled, Inventory!PublishError(t)
      PROVE  IC!PublishError(t)
  BY <1>7 DEF Inventory!PublishError, IC!PublishError, Inventory!StillDown, IC!StillDown, Inventory!Unmark, IC!Unmark,
              Inventory!Sent, IC!Sent, Inventory!Written, IC!Written, Inventory!Fault, IC!Fault,
              Inventory!HarmlessFaultKinds, IC!HarmlessFaultKinds, Inventory!Fail, IC!Fail, Inventory!PassTo, IC!PassTo,
              Inventory!Failed, IC!Failed, Inventory!Took, IC!Took, Inventory!At, IC!At, Inventory!InHand, IC!InHand,
              Inventory!Id, IC!Id, Inventory!Silent, IC!Silent
<1>8. ASSUME Inventory!RestartService PROVE InventoryRestarts
  BY <1>8 DEF Inventory!RestartService, InventoryRestarts, Inventory!Restart, IC!Restart, Inventory!Resume, IC!Resume,
              Inventory!Fault, IC!Fault, Inventory!HarmlessFaultKinds, IC!HarmlessFaultKinds, Inventory!StartAt, IC!StartAt,
              Inventory!Silent, IC!Silent
<1> QED
  BY <1>3, <1>5, <1>6, <1>7, <1>8
     DEF Inventory!Next, Inventory!Working, Inventory!Handling, Inventory!Consuming, Inventory!Deduplicating,
         Inventory!Publishing, Inventory!Retrying, Inventory!DeadLettering, InventoryPublishes

-----------------------------------------------------------------------------
(* Topics and faults, whoever takes the step *)

Grown(m) == PC!Grown(m)
Outs == PC!Outs

TopicsMove == topics' = topics \/ \E m \in Outs : Grown(m)

FaultsMove == FaultsTyped' /\ faults'.harmful >= faults.harmful

ApiStill == UNCHANGED <<apiLoop, apiSeen, orders, requests>>
OrchStill == UNCHANGED <<orchLoop, orchSeen, threadState>>
PaymentStill == UNCHANGED <<paymentLoop, paymentSeen, payments>>
InventoryStill == UNCHANGED <<inventoryLoop, inventorySeen, reservations>>

LEMMA GrownSame ==
    /\ AC!Outs = Outs /\ IC!Outs = Outs
    /\ \A m : (AC!Grown(m) <=> Grown(m)) /\ (IC!Grown(m) <=> Grown(m))
BY DEF Outs, AC!Outs, PC!Outs, IC!Outs, Grown, AC!Grown, PC!Grown, IC!Grown, AC!Messages, PC!Messages, IC!Messages,
       AC!Types, PC!Types, IC!Types

LEMMA FaultRecordsSame ==
    (AC!FaultRecords = PC!FaultRecords) /\ (IC!FaultRecords = PC!FaultRecords)
    /\ (FaultsTyped <=> faults \in PC!FaultRecords) /\ (FaultsTyped' <=> faults' \in PC!FaultRecords)
BY DEF AC!FaultRecords, PC!FaultRecords, IC!FaultRecords, FaultsTyped

LEMMA OutsTyped ==
    ASSUME TypeOK
    PROVE  Outs = [topic : Topics, type : PC!Types, order : Orders]
BY TopicFacts DEF Outs, PC!Outs, TypeOK

LEMMA MessagesTyped ==
    ASSUME TypeOK, NEW o \in Orders
    PROVE  /\ Start(o) \in Outs
           /\ \A type \in {"PaymentReserved", "PaymentFailed", "PaymentCancelled"} : PaymentAnswer(type, o) \in Outs
           /\ \A type \in {"InventoryReserved", "InventoryFailed"} : InventoryAnswer(type, o) \in Outs
<1>1. Outs = [topic : Topics, type : PC!Types, order : Orders]
  BY OutsTyped
<1>2. "saga-commands" \in Topics /\ "payment-events" \in Topics /\ "inventory-events" \in Topics
  BY TopicNames
<1>3. /\ "StartSaga" \in PC!Types /\ "PaymentReserved" \in PC!Types /\ "PaymentFailed" \in PC!Types
      /\ "PaymentCancelled" \in PC!Types /\ "InventoryReserved" \in PC!Types /\ "InventoryFailed" \in PC!Types
  BY DEF PC!Types
<1> QED
  BY <1>1, <1>2, <1>3 DEF Start, PaymentAnswer, InventoryAnswer

LEMMA ApiElsewhere ==
    ASSUME TypeOK, UNCHANGED <<apiLoop, apiSeen>>, TopicsMove, FaultsTyped'
    PROVE  AC!Typed'
BY TypesSplit, GrownSame, FaultRecordsSame, AC!ElsewhereTyped DEF AC!Elsewhere, TopicsMove

LEMMA PaymentElsewhere ==
    ASSUME TypeOK, UNCHANGED <<paymentLoop, paymentSeen>>, TopicsMove, FaultsTyped'
    PROVE  PC!Typed'
BY TypesSplit, GrownSame, FaultRecordsSame, PC!ElsewhereTyped DEF PC!Elsewhere, TopicsMove, Outs, Grown

LEMMA InventoryElsewhere ==
    ASSUME TypeOK, UNCHANGED <<inventoryLoop, inventorySeen>>, TopicsMove, FaultsTyped'
    PROVE  IC!Typed'
BY TypesSplit, GrownSame, FaultRecordsSame, IC!ElsewhereTyped DEF IC!Elsewhere, TopicsMove

LEMMA TopicsMoveTyped ==
    ASSUME TypeOK, TopicsMove
    PROVE  /\ DOMAIN topics' = Topics /\ DOMAIN topics = Topics
           /\ \A t \in Topics :
                  /\ Len(topics[t]) \in Nat /\ Len(topics'[t]) \in Nat
                  /\ Len(topics[t]) <= Len(topics'[t])
                  /\ \A i \in DOMAIN topics[t] : i \in DOMAIN topics'[t] /\ topics'[t][i] = topics[t][i]
<1>1. DOMAIN topics = Topics /\ PC!Typed
  BY TypesSplit, TopicFacts
<1> QED
  BY <1>1, PC!SameLoops DEF TopicsMove, Outs, Grown

\* The orchestrator's consumers stay as they are while topics grow.
LEMMA OrchElsewhere ==
    ASSUME TypeOK, OrchStill, TopicsMove
    PROVE  OrchConsumersTyped' /\ Orch!TypeOK'
<1>1. Orch!TypeOK /\ OrchConsumersTyped
  BY TypesSplit
<1>2. orchLoop' = orchLoop /\ job' = job /\ UNCHANGED threadState
  BY DEF OrchStill, threadState
<1>3. Orch!TypeOK' = Orch!TypeOK
  BY <1>2 DEF threadState, Orch!TypeOK
<1>4. \A t \in DOMAIN OrchHandled :
          /\ t \in Topics /\ orchLoop[t].fetched \in Nat
          /\ Len(topics[t]) \in Nat /\ Len(topics'[t]) \in Nat /\ Len(topics[t]) <= Len(topics'[t])
  BY <1>1, TopicNames, TopicsMoveTyped DEF OrchConsumersTyped, OrchLoops
<1>5. OrchConsumersTyped'
  BY <1>1, <1>2, <1>4 DEF OrchConsumersTyped
<1> QED
  BY <1>1, <1>3, <1>5

LEMMA TypesTogether ==
    ASSUME AC!Typed', PC!Typed', IC!Typed', FaultsTyped', StoresTyped', OrchConsumersTyped', Orch!TypeOK',
           DOMAIN topics' = Topics
    PROVE  TypeOK'
<1>1. topics' \in [Topics -> Seq(PC!Messages)]
  BY DEF PC!Typed, PC!TopicsTyped
<1>2. PC!Messages = Consumers!Messages
  BY DEF PC!Messages, Consumers!Messages, PC!Types, Consumers!Types
<1> QED
  BY <1>1, <1>2, TypesSplitThen

-----------------------------------------------------------------------------
(* What a step of order-api does *)

\* An order is created, lost, or decided as a result in the topic says; no saga is asked
\* for before.
OrderMoves(o) ==
    /\ \/ orders'[o] = orders[o]
       \/ orders'[o] \in {"NONE", "PENDING", "LOST"}
       \/ orders'[o] = "CONFIRMED" /\ Written("saga-events", "SagaCompleted", o)
       \/ orders'[o] = "CANCELLED" /\ Written("saga-events", "SagaFailed", o)
    /\ orders'[o] = "NONE" => orders[o] = "NONE" /\ (o \in requests' => o \in requests)

ApiMoves ==
    /\ topics' = topics \/ \E o \in requests : Grown(Start(o))
    /\ FaultsMove
    /\ \A o \in Orders : OrderMoves(o)

LEMMA AsksEffect ==
    ASSUME TypeOK, NEW o \in Orders, AsksForSaga(o)
    PROVE  /\ topics' = topics \/ Grown(Start(o))
           /\ FaultsMove
<1>1. AC!Typed /\ AC!TopicsTyped /\ FaultsTyped /\ faults \in AC!FaultRecords
  BY TypesSplit, TopicFacts, FaultRecordsSame DEF AC!Typed, TypeOK
<1>2. Start(o) \in AC!Outs
  BY MessagesTyped, GrownSame
<1>3. topics' = topics \/ Grown(Start(o))
  BY <1>1, <1>2, AC!SentGrows, AC!SentTwiceGrows, GrownSame DEF AsksForSaga
<1>4. faults.harmful \in Nat
  BY <1>1 DEF FaultsTyped
<1>5. CASE UNCHANGED faults
  BY <1>1, <1>3, <1>4, <1>5 DEF FaultsMove, FaultsTyped
<1>6. CASE AC!Fault("twice") \/ AC!Fault("publish") \/ AC!Fault("unsure")
  BY <1>1, <1>3, <1>4, <1>6, AC!FaultTyped, FaultRecordsSame, LimitsNatural DEF FaultsMove, FaultsTyped
<1> QED
  BY <1>5, <1>6 DEF AsksForSaga

\* In the hand of order-api is a result.
LEMMA ResultInHand ==
    ASSUME TypeOK, NEW t \in DOMAIN ApiHandled, AC!Handles(t)
    PROVE  /\ AC!InHand(t).order \in Orders
           /\ AC!InHand(t).type \in {"SagaCompleted", "SagaFailed"}
           /\ Written("saga-events", AC!InHand(t).type, AC!InHand(t).order)
<1>1. t = "saga-events" /\ ApiHandled[t] = {"SagaCompleted", "SagaFailed"}
  BY TopicNames
<1>2. AC!InHand(t) \in AC!Messages /\ AC!At(t) \in DOMAIN topics[t]
  BY TypesSplit, AC!HandFacts DEF AC!Handles
<1>3. AC!InHand(t).type \in {"SagaCompleted", "SagaFailed"}
  BY <1>1 DEF AC!Handles
<1>4. AC!InHand(t).order \in Orders
  BY <1>2 DEF AC!Messages
<1> QED
  BY <1>1, <1>2, <1>3, <1>4 DEF Written, AC!InHand

LEMMA ApiEffect ==
    ASSUME TypeOK, Api!Next, OrchStill, PaymentStill, InventoryStill
    PROVE  ApiMoves /\ TypeOK'
<1> DEFINE Effect == /\ AC!Typed'
                     /\ topics' = topics \/ \E o \in requests : Grown(Start(o))
                     /\ FaultsMove
                     /\ orders' \in [Orders -> Api!Statuses] /\ requests' \in SUBSET Orders
                     /\ \A o \in Orders : OrderMoves(o)
<1>1. /\ AC!Typed /\ FaultsTyped /\ faults.harmful \in Nat
      /\ orders \in [Orders -> Api!Statuses] /\ requests \in SUBSET Orders
  BY TypesSplit DEF FaultsTyped, StoresTyped
<1>2. Api!Statuses = {"NONE", "PENDING", "CONFIRMED", "CANCELLED", "LOST"}
  BY DEF Api!Statuses
<1>3. ASSUME NEW o \in Orders, CreatesOrder(o) PROVE Effect
  <2>1. topics' = topics /\ faults' = faults /\ UNCHANGED <<apiLoop, apiSeen>>
    BY <1>3 DEF CreatesOrder
  <2>2. FaultsMove
    BY <1>1, <2>1 DEF FaultsMove, FaultsTyped
  <2>3. AC!Typed'
    BY <2>1, <2>2, ApiElsewhere DEF TopicsMove, FaultsMove
  <2>4. \A p \in Orders : OrderMoves(p)
    BY <1>1, <1>3 DEF CreatesOrder, OrderMoves
  <2> QED
    BY <1>1, <1>2, <1>3, <2>1, <2>2, <2>3, <2>4 DEF CreatesOrder
<1>4. ASSUME NEW o \in Orders, AsksForSaga(o) PROVE Effect
  <2>1. (topics' = topics \/ Grown(Start(o))) /\ FaultsMove
    BY <1>4, AsksEffect
  <2>2. TopicsMove /\ UNCHANGED <<apiLoop, apiSeen>>
    BY <1>4, <2>1, MessagesTyped DEF TopicsMove, AsksForSaga
  <2>3. AC!Typed'
    BY <2>1, <2>2, ApiElsewhere DEF FaultsMove
  <2>4. orders' = orders /\ requests' \in SUBSET Orders /\ o \in requests /\ requests' \subseteq requests
    BY <1>1, <1>4 DEF AsksForSaga
  <2> QED
    BY <1>1, <2>1, <2>3, <2>4 DEF OrderMoves
<1>5. ASSUME NEW t \in DOMAIN ApiHandled, HearsResult(t) PROVE Effect
  <2>1. AC!Typed' /\ topics' = topics /\ faults' = faults
    BY <1>1, <1>5, AC!DigestStep DEF HearsResult
  <2>2. AC!Handles(t)
    BY <1>5 DEF HearsResult, AC!Digest, AC!Begin
  <2>3. /\ AC!InHand(t).order \in Orders
        /\ AC!InHand(t).type \in {"SagaCompleted", "SagaFailed"}
        /\ Written("saga-events", AC!InHand(t).type, AC!InHand(t).order)
    BY <2>2, ResultInHand
  <2>4. FaultsMove
    BY <1>1, <2>1 DEF FaultsMove, FaultsTyped
  <2>5. /\ AC!InHand(t).type = "SagaCompleted" => Api!StatusAfter(AC!InHand(t).type) = "CONFIRMED"
        /\ AC!InHand(t).type = "SagaFailed" => Api!StatusAfter(AC!InHand(t).type) = "CANCELLED"
    BY DEF Api!StatusAfter
  <2>6. /\ requests' = requests
        /\ \/ orders' = orders
           \/ orders' = [orders EXCEPT ![AC!InHand(t).order] = Api!StatusAfter(AC!InHand(t).type)]
    BY <1>5 DEF HearsResult
  <2>7. orders' \in [Orders -> Api!Statuses]
    BY <1>1, <1>2, <2>3, <2>5, <2>6
  <2>8. \A p \in Orders : OrderMoves(p)
    BY <1>1, <2>3, <2>5, <2>6 DEF OrderMoves
  <2> QED
    BY <1>1, <1>5, <2>1, <2>4, <2>7, <2>8 DEF HearsResult
<1>6. ASSUME NEW t \in DOMAIN ApiHandled, AC!Moves(t), UNCHANGED <<orders, requests>> PROVE Effect
  <2>1. AC!Typed' /\ topics' = topics /\ faults'.harmful = faults.harmful
    BY <1>1, <1>6, AC!MovesStep
  <2>2. FaultsMove
    BY <1>1, <2>1, FaultRecordsSame DEF FaultsMove, AC!Typed
  <2> QED
    BY <1>1, <1>6, <2>1, <2>2 DEF OrderMoves
<1>7. ASSUME ApiRestarts PROVE Effect
  <2>1. AC!Typed' /\ topics' = topics /\ faults'.harmful = faults.harmful + 1
    BY <1>1, <1>7, AC!RestartStep DEF ApiRestarts
  <2>2. FaultsMove
    BY <1>1, <2>1, FaultRecordsSame DEF FaultsMove, AC!Typed
  <2>3. /\ orders' \in [Orders -> Api!Statuses]
        /\ \A p \in Orders : orders'[p] \in {"NONE", "LOST"} /\ (orders'[p] = "NONE" => orders[p] = "NONE")
    BY <1>2, <1>7 DEF ApiRestarts
  <2> QED
    BY <1>7, <2>1, <2>2, <2>3 DEF OrderMoves, ApiRestarts
<1>8. Effect
  BY <1>3, <1>4, <1>5, <1>6, <1>7, ApiSteps
<1>9. TopicsMove /\ FaultsTyped'
  BY <1>1, <1>8, MessagesTyped DEF TopicsMove, FaultsMove
<1>10. StoresTyped'
  BY <1>8, TypesSplit DEF StoresTyped, PaymentStill, InventoryStill
<1>11. PC!Typed' /\ IC!Typed' /\ OrchConsumersTyped' /\ Orch!TypeOK' /\ DOMAIN topics' = Topics
  BY <1>9, PaymentElsewhere, InventoryElsewhere, OrchElsewhere, TopicsMoveTyped DEF PaymentStill, InventoryStill
<1> QED
  BY <1>8, <1>9, <1>10, <1>11, TypesTogether DEF ApiMoves

-----------------------------------------------------------------------------
(* What a step of payment-service does *)

PaymentLoop == paymentLoop["payment-commands"]

\* A command is handled: the store is changed, and the answer is in hand.
PaymentAnswers(type, o) ==
    /\ topics' = topics /\ faults' = faults
    /\ Written("payment-commands", Orch!AnswerTo(type), o)
    /\ PaymentLoop'.pc = "publish" /\ PaymentLoop'.out = PaymentAnswer(type, o)
    /\ \/ type = "PaymentReserved" /\ payments'[o] = "held"
       \/ type = "PaymentFailed" /\ payments' = payments
       \/ type = "PaymentCancelled" /\ payments'[o] = Payment!AfterDelete(payments[o])
    /\ \A p \in Orders \ {o} : payments'[p] = payments[p]

\* The answer is published, or not; or nothing that matters happens.
PaymentProceeds ==
    /\ \/ topics' = topics
       \/ PaymentLoop.pc = "publish" /\ PaymentLoop.out \in Outs /\ Grown(PaymentLoop.out)
    /\ FaultsMove
    /\ PaymentLoop'.pc # "publish"
    /\ payments' = payments

\* The store is lost.
PaymentForgets ==
    /\ topics' = topics /\ FaultsTyped' /\ faults'.harmful = faults.harmful + 1
    /\ PaymentLoop'.pc # "publish"

PaymentMoves ==
    \/ \E type \in {"PaymentReserved", "PaymentFailed", "PaymentCancelled"}, o \in Orders : PaymentAnswers(type, o)
    \/ PaymentProceeds
    \/ PaymentForgets

LEMMA PaymentCommandInHand ==
    ASSUME TypeOK, NEW t \in DOMAIN PaymentHandled, PC!Handles(t)
    PROVE  /\ t = "payment-commands"
           /\ PC!InHand(t).order \in Orders
           /\ Written("payment-commands", PC!InHand(t).type, PC!InHand(t).order)
<1>1. t = "payment-commands"
  BY TopicNames
<1>2. PC!InHand(t) \in PC!Messages /\ PC!At(t) \in DOMAIN topics[t]
  BY TypesSplit, PC!HandFacts DEF PC!Handles
<1>3. PC!InHand(t).order \in Orders
  BY <1>2 DEF PC!Messages
<1> QED
  BY <1>1, <1>2, <1>3 DEF Written, PC!InHand

LEMMA PaymentHandles ==
    ASSUME TypeOK, NEW t \in DOMAIN PaymentHandled, NEW o \in Orders,
           NEW type \in {"PaymentReserved", "PaymentFailed", "PaymentCancelled"},
           PC!Handle(t, PaymentAnswer(type, o))
    PROVE  /\ PC!Typed' /\ topics' = topics /\ faults' = faults /\ FaultsMove
           /\ PaymentLoop'.pc = "publish" /\ PaymentLoop'.out = PaymentAnswer(type, o)
<1>1. t = "payment-commands"
  BY TopicNames
<1>2. PaymentAnswer(type, o) \in PC!Outs
  BY MessagesTyped DEF Outs
<1>3. /\ PC!Typed' /\ topics' = topics /\ faults' = faults
      /\ paymentLoop'[t].pc = "publish" /\ paymentLoop'[t].out = PaymentAnswer(type, o)
  BY <1>2, TypesSplit, PC!HandleStep
<1>4. FaultsMove
  BY <1>3, TypesSplit DEF FaultsMove, FaultsTyped
<1> QED
  BY <1>1, <1>3, <1>4 DEF PaymentLoop

LEMMA PaymentEffect ==
    ASSUME TypeOK, Payment!Next, ApiStill, OrchStill, InventoryStill
    PROVE  PaymentMoves /\ TypeOK'
<1> DEFINE Effect == /\ PC!Typed'
                     /\ payments' \in [Orders -> Payment!PaymentStates]
                     /\ PaymentMoves
                     /\ TopicsMove /\ FaultsMove
<1>1. /\ PC!Typed /\ FaultsTyped /\ faults.harmful \in Nat
      /\ payments \in [Orders -> Payment!PaymentStates]
  BY TypesSplit DEF FaultsTyped, StoresTyped
<1>2. Payment!PaymentStates = {"none", "held", "released"}
  BY DEF Payment!PaymentStates
<1>3. /\ Orch!AnswerTo("PaymentReserved") = "ReservePayment" /\ Orch!AnswerTo("PaymentFailed") = "ReservePayment"
      /\ Orch!AnswerTo("PaymentCancelled") = "CancelPayment"
  BY DEF Orch!AnswerTo, Orch!InventoryEvents
<1>4. ASSUME NEW t \in DOMAIN PaymentHandled, Pays(t) PROVE Effect
  <2> DEFINE o == PC!InHand(t).order
  <2>1. PC!Handles(t)
    BY <1>4 DEF Pays, PC!Handle, PC!Begin
  <2>2. o \in Orders /\ Written("payment-commands", "ReservePayment", o)
    BY <1>4, <2>1, PaymentCommandInHand DEF Pays
  <2>3. \/ /\ PC!Handle(t, PaymentAnswer("PaymentReserved", o))
           /\ payments' = [payments EXCEPT ![o] = "held"]
        \/ /\ PC!Handle(t, PaymentAnswer("PaymentReserved", o))
           /\ payments[o] = "held" /\ payments' = payments
        \/ /\ PC!Handle(t, PaymentAnswer("PaymentFailed", o))
           /\ payments' = payments
    BY <1>4 DEF Pays
  <2> HIDE DEF o
  <2>4. PICK type \in {"PaymentReserved", "PaymentFailed"} :
            /\ PC!Handle(t, PaymentAnswer(type, o))
            /\ type = "PaymentReserved" => payments'[o] = "held"
            /\ type = "PaymentFailed" => payments' = payments
            /\ \A p \in Orders \ {o} : payments'[p] = payments[p]
            /\ payments' \in [Orders -> Payment!PaymentStates]
    BY <1>1, <1>2, <2>2, <2>3
  <2>5. /\ PC!Typed' /\ topics' = topics /\ faults' = faults /\ FaultsMove
        /\ PaymentLoop'.pc = "publish" /\ PaymentLoop'.out = PaymentAnswer(type, o)
    BY <2>2, <2>4, PaymentHandles
  <2>6. PaymentAnswers(type, o)
    BY <1>3, <2>2, <2>4, <2>5 DEF PaymentAnswers
  <2> QED
    BY <2>2, <2>4, <2>5, <2>6 DEF PaymentMoves, TopicsMove
<1>5. ASSUME NEW t \in DOMAIN PaymentHandled, GivesBack(t) PROVE Effect
  <2> DEFINE o == PC!InHand(t).order
  <2>1. PC!Handles(t)
    BY <1>5 DEF GivesBack, PC!Handle, PC!Begin
  <2>2. o \in Orders /\ Written("payment-commands", "CancelPayment", o)
    BY <1>5, <2>1, PaymentCommandInHand DEF GivesBack
  <2>3. /\ PC!Handle(t, PaymentAnswer("PaymentCancelled", o))
        /\ payments' = [payments EXCEPT ![o] = Payment!AfterDelete(payments[o])]
    BY <1>5 DEF GivesBack
  <2> HIDE DEF o
  <2>4. Payment!AfterDelete(payments[o]) \in Payment!PaymentStates
    BY <1>1, <1>2, <2>2 DEF Payment!AfterDelete
  <2>5. /\ PC!Typed' /\ topics' = topics /\ faults' = faults /\ FaultsMove
        /\ PaymentLoop'.pc = "publish" /\ PaymentLoop'.out = PaymentAnswer("PaymentCancelled", o)
    BY <2>2, <2>3, PaymentHandles
  <2>6. PaymentAnswers("PaymentCancelled", o)
    BY <1>1, <1>3, <2>2, <2>3, <2>5 DEF PaymentAnswers
  <2>7. payments' \in [Orders -> Payment!PaymentStates]
    BY <1>1, <2>2, <2>3, <2>4
  <2> QED
    BY <2>2, <2>5, <2>6, <2>7 DEF PaymentMoves, TopicsMove
<1>6. ASSUME NEW t \in DOMAIN PaymentHandled, PaymentPublishes(t) PROVE Effect
  <2>1. t = "payment-commands"
    BY TopicNames
  <2>2. /\ PC!Typed' /\ payments' = payments
        /\ paymentLoop[t].pc = "publish" /\ paymentLoop[t].out \in PC!Outs
        /\ topics' = topics \/ PC!Grown(paymentLoop[t].out)
        /\ faults'.harmful = faults.harmful \/ faults'.harmful = faults.harmful + 1
        /\ paymentLoop'[t].pc # "publish"
    BY <1>1, <1>6, PC!PublishStep, PC!PublishErrorStep DEF PaymentPublishes
  <2>3. FaultsMove
    BY <1>1, <2>2, FaultRecordsSame DEF FaultsMove, PC!Typed
  <2>4. PaymentProceeds
    BY <2>1, <2>2, <2>3 DEF PaymentProceeds, PaymentLoop, Outs, Grown
  <2> QED
    BY <1>1, <2>2, <2>3, <2>4 DEF PaymentMoves, TopicsMove, Outs, Grown
<1>7. ASSUME NEW t \in DOMAIN PaymentHandled, PC!Moves(t), payments' = payments PROVE Effect
  <2>1. t = "payment-commands"
    BY TopicNames
  <2>2. PC!Typed' /\ topics' = topics /\ faults'.harmful = faults.harmful /\ paymentLoop'[t].pc \in {"fetch", "commit"}
    BY <1>1, <1>7, PC!MovesStep
  <2>3. FaultsMove
    BY <1>1, <2>2, FaultRecordsSame DEF FaultsMove, PC!Typed
  <2> QED
    BY <1>1, <1>7, <2>1, <2>2, <2>3 DEF PaymentMoves, PaymentProceeds, PaymentLoop, TopicsMove
<1>8. ASSUME PaymentRestarts PROVE Effect
  <2>1. /\ PC!Typed' /\ topics' = topics /\ faults'.harmful = faults.harmful + 1
        /\ \A t \in DOMAIN PaymentHandled : paymentLoop'[t].pc = "fetch"
    BY <1>1, <1>8, PC!RestartStep DEF PaymentRestarts
  <2>2. FaultsMove
    BY <1>1, <2>1, FaultRecordsSame DEF FaultsMove, PC!Typed
  <2>3. PaymentForgets
    BY <2>1, <2>2, TopicNames DEF PaymentForgets, PaymentLoop, FaultsMove
  <2>4. payments' \in [Orders -> Payment!PaymentStates]
    BY <1>2, <1>8 DEF PaymentRestarts
  <2> QED
    BY <2>1, <2>2, <2>3, <2>4 DEF PaymentMoves, TopicsMove
<1>9. Effect
  BY <1>4, <1>5, <1>6, <1>7, <1>8, PaymentSteps
<1>10. StoresTyped'
  BY <1>9, TypesSplit DEF StoresTyped, ApiStill, InventoryStill
<1>11. AC!Typed' /\ IC!Typed' /\ FaultsTyped' /\ OrchConsumersTyped' /\ Orch!TypeOK' /\ DOMAIN topics' = Topics
  BY <1>9, ApiElsewhere, InventoryElsewhere, OrchElsewhere, TopicsMoveTyped DEF ApiStill, InventoryStill, FaultsMove
<1> QED
  BY <1>9, <1>10, <1>11, TypesTogether

-----------------------------------------------------------------------------
(* What a step of inventory-service does *)

InventoryLoop == inventoryLoop["inventory-commands"]

InventoryAnswers(type, o) ==
    /\ topics' = topics /\ faults' = faults
    /\ Written("inventory-commands", Orch!AnswerTo(type), o)
    /\ InventoryLoop'.pc = "publish" /\ InventoryLoop'.out = InventoryAnswer(type, o)
    /\ \/ type = "InventoryReserved" /\ reservations' = reservations \cup {o}
       \/ type = "InventoryFailed" /\ reservations' = reservations

InventoryProceeds ==
    /\ \/ topics' = topics
       \/ InventoryLoop.pc = "publish" /\ InventoryLoop.out \in Outs /\ Grown(InventoryLoop.out)
    /\ FaultsMove
    /\ InventoryLoop'.pc # "publish"
    /\ reservations' = reservations

InventoryForgets ==
    /\ topics' = topics /\ FaultsTyped' /\ faults'.harmful = faults.harmful + 1
    /\ InventoryLoop'.pc # "publish"

InventoryMoves ==
    \/ \E type \in {"InventoryReserved", "InventoryFailed"}, o \in Orders : InventoryAnswers(type, o)
    \/ InventoryProceeds
    \/ InventoryForgets

LEMMA InventoryEffect ==
    ASSUME TypeOK, Inventory!Next, ApiStill, OrchStill, PaymentStill
    PROVE  InventoryMoves /\ TypeOK'
<1> DEFINE Effect == /\ IC!Typed'
                     /\ reservations' \in SUBSET Orders
                     /\ InventoryMoves
                     /\ TopicsMove /\ FaultsMove
<1>1. /\ IC!Typed /\ FaultsTyped /\ faults.harmful \in Nat
      /\ reservations \in SUBSET Orders
  BY TypesSplit DEF FaultsTyped, StoresTyped
<1>2. /\ Orch!AnswerTo("InventoryReserved") = "ReserveInventory"
      /\ Orch!AnswerTo("InventoryFailed") = "ReserveInventory"
  BY DEF Orch!AnswerTo, Orch!InventoryEvents
<1>3. ASSUME NEW t \in DOMAIN InventoryHandled, Reserves(t) PROVE Effect
  <2> DEFINE o == IC!InHand(t).order
  <2>1. IC!Handles(t) /\ t = "inventory-commands" /\ InventoryHandled[t] = {"ReserveInventory"}
    BY <1>3, TopicNames DEF Reserves, IC!Handle, IC!Begin
  <2>2. IC!InHand(t) \in IC!Messages /\ IC!At(t) \in DOMAIN topics[t]
    BY <2>1, TypesSplit, IC!HandFacts DEF IC!Handles
  <2>3. o \in Orders /\ Written("inventory-commands", "ReserveInventory", o)
    BY <2>1, <2>2 DEF Written, IC!InHand, IC!Messages, IC!Handles
  <2>4. \/ /\ IC!Handle(t, InventoryAnswer("InventoryReserved", o))
           /\ reservations' = reservations \cup {o}
        \/ /\ IC!Handle(t, InventoryAnswer("InventoryFailed", o))
           /\ reservations' = reservations
    BY <1>3 DEF Reserves
  <2> HIDE DEF o
  <2>5. PICK type \in {"InventoryReserved", "InventoryFailed"} :
            /\ IC!Handle(t, InventoryAnswer(type, o))
            /\ type = "InventoryReserved" => reservations' = reservations \cup {o}
            /\ type = "InventoryFailed" => reservations' = reservations
    BY <2>4
  <2>6. InventoryAnswer(type, o) \in IC!Outs
    BY <2>3, MessagesTyped, GrownSame
  <2>7. /\ IC!Typed' /\ topics' = topics /\ faults' = faults
        /\ InventoryLoop'.pc = "publish" /\ InventoryLoop'.out = InventoryAnswer(type, o)
    BY <1>1, <2>1, <2>5, <2>6, IC!HandleStep DEF InventoryLoop
  <2>8. FaultsMove
    BY <1>1, <2>7 DEF FaultsMove, FaultsTyped
  <2>9. InventoryAnswers(type, o)
    BY <1>2, <2>3, <2>5, <2>7 DEF InventoryAnswers
  <2>10. reservations' \in SUBSET Orders
    BY <1>1, <2>3, <2>5
  <2> QED
    BY <2>3, <2>7, <2>8, <2>9, <2>10 DEF InventoryMoves, TopicsMove
<1>4. ASSUME NEW t \in DOMAIN InventoryHandled, InventoryPublishes(t) PROVE Effect
  <2>1. t = "inventory-commands"
    BY TopicNames
  <2>2. /\ IC!Typed' /\ reservations' = reservations
        /\ inventoryLoop[t].pc = "publish" /\ inventoryLoop[t].out \in Outs
        /\ topics' = topics \/ Grown(inventoryLoop[t].out)
        /\ faults'.harmful = faults.harmful \/ faults'.harmful = faults.harmful + 1
        /\ inventoryLoop'[t].pc # "publish"
    BY <1>1, <1>4, IC!PublishStep, IC!PublishErrorStep, GrownSame DEF InventoryPublishes
  <2>3. FaultsMove
    BY <1>1, <2>2, FaultRecordsSame DEF FaultsMove, IC!Typed
  <2>4. InventoryProceeds
    BY <2>1, <2>2, <2>3 DEF InventoryProceeds, InventoryLoop
  <2> QED
    BY <1>1, <2>2, <2>3, <2>4 DEF InventoryMoves, TopicsMove
<1>5. ASSUME NEW t \in DOMAIN InventoryHandled, IC!Moves(t), reservations' = reservations PROVE Effect
  <2>1. t = "inventory-commands"
    BY TopicNames
  <2>2. IC!Typed' /\ topics' = topics /\ faults'.harmful = faults.harmful /\ inventoryLoop'[t].pc \in {"fetch", "commit"}
    BY <1>1, <1>5, IC!MovesStep
  <2>3. FaultsMove
    BY <1>1, <2>2, FaultRecordsSame DEF FaultsMove, IC!Typed
  <2> QED
    BY <1>1, <1>5, <2>1, <2>2, <2>3 DEF InventoryMoves, InventoryProceeds, InventoryLoop, TopicsMove
<1>6. ASSUME InventoryRestarts PROVE Effect
  <2>1. /\ IC!Typed' /\ topics' = topics /\ faults'.harmful = faults.harmful + 1
        /\ \A t \in DOMAIN InventoryHandled : inventoryLoop'[t].pc = "fetch"
    BY <1>1, <1>6, IC!RestartStep DEF InventoryRestarts
  <2>2. FaultsMove
    BY <1>1, <2>1, FaultRecordsSame DEF FaultsMove, IC!Typed
  <2>3. InventoryForgets
    BY <2>1, <2>2, TopicNames DEF InventoryForgets, InventoryLoop, FaultsMove
  <2> QED
    BY <1>6, <2>1, <2>2, <2>3 DEF InventoryMoves, TopicsMove, InventoryRestarts
<1>7. Effect
  BY <1>3, <1>4, <1>5, <1>6, InventorySteps
<1>8. StoresTyped'
  BY <1>7, TypesSplit DEF StoresTyped, ApiStill, PaymentStill
<1>9. AC!Typed' /\ PC!Typed' /\ FaultsTyped' /\ OrchConsumersTyped' /\ Orch!TypeOK' /\ DOMAIN topics' = Topics
  BY <1>7, ApiElsewhere, PaymentElsewhere, OrchElsewhere, TopicsMoveTyped DEF ApiStill, PaymentStill, FaultsMove
<1> QED
  BY <1>7, <1>8, <1>9, TypesTogether

-----------------------------------------------------------------------------
(* The orchestrator's consumers *)

\* The reader is never behind the group or past the end.
Fits(l, log) ==
    /\ l.committed <= l.fetched /\ l.fetched <= Len(log)
    /\ l.pc # "fetch" => l.fetched > 0

OrchPcs == {"fetch", "handle", "working", "dead", "commit"}

LoopOf(p, c, f, r, s) ==
    [pc |-> p, committed |-> c, fetched |-> f, retry |-> r, out |-> Consumers!Silent, letters |-> s]

LEMMA LoopOfTyped ==
    ASSUME NEW p \in OrchPcs, NEW c \in Nat, NEW f \in Nat, NEW r \in 0..HandlerRetries, NEW s \in SUBSET Orders
    PROVE  LoopOf(p, c, f, r, s) \in OrchLoops
<1>1. Consumers!Silent \in {Consumers!Silent}
  OBVIOUS
<1> QED
  BY <1>1, Zenon DEF LoopOf, OrchLoops, OrchPcs

LEMMA LoopIsOf ==
    ASSUME NEW l \in OrchLoops
    PROVE  /\ l = LoopOf(l.pc, l.committed, l.fetched, l.retry, l.letters)
           /\ l.pc \in OrchPcs /\ l.committed \in Nat /\ l.fetched \in Nat /\ l.retry \in 0..HandlerRetries
           /\ l.letters \in SUBSET Orders
BY DEF LoopOf, OrchLoops, OrchPcs

LEMMA LoopChanges ==
    ASSUME NEW p, NEW c, NEW f, NEW r, NEW s
    PROVE  /\ [LoopOf(p, c, f, r, s) EXCEPT !.pc = "working"] = LoopOf("working", c, f, r, s)
           /\ [LoopOf(p, c, f, r, s) EXCEPT !.pc = "fetch"] = LoopOf("fetch", c, f, r, s)
           /\ Consumers!Finished(LoopOf(p, c, f, r, s)) = LoopOf("commit", c, f, 0, s)
           /\ r < HandlerRetries => Consumers!Failed(LoopOf(p, c, f, r, s)) = LoopOf("handle", c, f, r + 1, s)
           /\ ~(r < HandlerRetries) => Consumers!Failed(LoopOf(p, c, f, r, s)) = LoopOf("dead", c, f, 0, s)
<1>1. LoopOf(p, c, f, r, s).retry = r
  BY DEF LoopOf
<1>2. ASSUME NEW q, NEW i
      PROVE  [LoopOf(p, c, f, r, s) EXCEPT !.pc = q, !.retry = i, !.out = Consumers!Silent] = LoopOf(q, c, f, i, s)
  <2>1. [LoopOf(p, c, f, r, s) EXCEPT !.pc = q] = LoopOf(q, c, f, r, s)
    BY DEF LoopOf
  <2>2. [LoopOf(q, c, f, r, s) EXCEPT !.retry = i] = LoopOf(q, c, f, i, s)
    BY DEF LoopOf
  <2>3. [LoopOf(q, c, f, i, s) EXCEPT !.out = Consumers!Silent] = LoopOf(q, c, f, i, s)
    BY DEF LoopOf
  <2> QED
    BY <2>1, <2>2, <2>3
<1>3. /\ [LoopOf(p, c, f, r, s) EXCEPT !.pc = "working"] = LoopOf("working", c, f, r, s)
      /\ [LoopOf(p, c, f, r, s) EXCEPT !.pc = "fetch"] = LoopOf("fetch", c, f, r, s)
  BY DEF LoopOf
<1>5. Consumers!Finished(LoopOf(p, c, f, r, s)) = LoopOf("commit", c, f, 0, s)
  BY <1>2 DEF Consumers!Finished
<1>6. ASSUME r < HandlerRetries
      PROVE  Consumers!Failed(LoopOf(p, c, f, r, s)) = LoopOf("handle", c, f, r + 1, s)
  BY <1>1, <1>2, <1>6 DEF Consumers!Failed
<1>7. ASSUME ~(r < HandlerRetries)
      PROVE  Consumers!Failed(LoopOf(p, c, f, r, s)) = LoopOf("dead", c, f, 0, s)
  BY <1>1, <1>2, <1>7 DEF Consumers!Failed
<1> QED
  BY <1>3, <1>5, <1>6, <1>7

LEMMA OrchHand ==
    ASSUME TypeOK, NEW t \in DOMAIN OrchHandled
    PROVE  /\ t \in Topics /\ Len(topics[t]) \in Nat
           /\ orchLoop[t] \in OrchLoops /\ Fits(orchLoop[t], topics[t])
           /\ Consumers!At(t) \in Nat
           /\ Consumers!Ready(t) \/ orchLoop[t].pc \in {"working", "dead", "commit"} =>
                  /\ Consumers!At(t) \in DOMAIN topics[t]
                  /\ Consumers!At(t) \in 1..Len(topics[t])
                  /\ orchLoop[t].committed <= Consumers!At(t)
                  /\ Consumers!InHand(t) \in Consumers!Messages
                  /\ Consumers!InHand(t).order \in Orders
                  /\ Written(t, Consumers!InHand(t).type, Consumers!InHand(t).order)
           /\ orchLoop[t].pc # "fetch" => Consumers!At(t) = orchLoop[t].fetched
<1>1. t \in Topics
  BY TopicNames
<1>2. topics[t] \in Seq(Consumers!Messages) /\ orchLoop[t] \in OrchLoops /\ Fits(orchLoop[t], topics[t])
  BY <1>1, TypesSplit DEF OrchConsumersTyped, Fits
<1>3. Len(topics[t]) \in Nat /\ DOMAIN topics[t] = 1..Len(topics[t])
  BY <1>2
<1>4. Consumers!At(t) \in Nat /\ (orchLoop[t].pc # "fetch" => Consumers!At(t) = orchLoop[t].fetched)
  BY <1>2 DEF Consumers!At, OrchLoops
<1>5. ASSUME Consumers!Ready(t) \/ orchLoop[t].pc \in {"working", "dead", "commit"}
      PROVE  Consumers!At(t) \in 1..Len(topics[t]) /\ orchLoop[t].committed <= Consumers!At(t)
  <2>1. orchLoop[t].committed \in Nat /\ orchLoop[t].fetched \in Nat
    BY <1>2 DEF OrchLoops
  <2>2. CASE orchLoop[t].pc = "fetch"
    BY <1>2, <1>3, <1>5, <2>1, <2>2 DEF Consumers!At, Fits, Consumers!Ready
  <2>3. CASE orchLoop[t].pc # "fetch"
    BY <1>2, <1>3, <1>4, <2>1, <2>3 DEF Fits
  <2> QED
    BY <2>2, <2>3
<1>6. ASSUME Consumers!Ready(t) \/ orchLoop[t].pc \in {"working", "dead", "commit"}
      PROVE  /\ Consumers!InHand(t) \in Consumers!Messages /\ Consumers!InHand(t).order \in Orders
             /\ Written(t, Consumers!InHand(t).type, Consumers!InHand(t).order)
  <2>1. Consumers!At(t) \in DOMAIN topics[t]
    BY <1>3, <1>5, <1>6
  <2>2. Consumers!InHand(t) \in Consumers!Messages
    BY <1>2, <2>1 DEF Consumers!InHand
  <2> QED
    BY <2>1, <2>2 DEF Consumers!InHand, Consumers!Messages, Written
<1> QED
  BY <1>1, <1>2, <1>3, <1>4, <1>5, <1>6

\* What a consumer's step may leave it in.
LEMMA OrchLoopsAfter ==
    ASSUME TypeOK, NEW t \in DOMAIN OrchHandled,
           Consumers!Ready(t) \/ orchLoop[t].pc \in {"working", "dead", "commit"}
    PROVE  LET working == [Consumers!Took(t) EXCEPT !.pc = "working"]
               finished == Consumers!Finished(Consumers!Took(t))
               failed == Consumers!Failed(Consumers!Took(t))
           IN  /\ working \in OrchLoops /\ Fits(working, topics[t]) /\ working.pc = "working"
               /\ finished \in OrchLoops /\ Fits(finished, topics[t]) /\ finished.pc = "commit"
               /\ failed \in OrchLoops /\ Fits(failed, topics[t]) /\ failed.pc \in {"handle", "dead"}
<1> DEFINE l == orchLoop[t]
           n == Consumers!At(t)
<1>1. l \in OrchLoops /\ n \in 1..Len(topics[t]) /\ l.committed <= n /\ Len(topics[t]) \in Nat
  BY OrchHand
<1>2. /\ l = LoopOf(l.pc, l.committed, l.fetched, l.retry, l.letters)
      /\ l.committed \in Nat /\ l.retry \in 0..HandlerRetries /\ l.letters \in SUBSET Orders
  BY <1>1, LoopIsOf
<1>3. PICK c, r, s : c = l.committed /\ r = l.retry /\ s = l.letters
  OBVIOUS
<1>4. c \in Nat /\ r \in 0..HandlerRetries /\ s \in SUBSET Orders /\ n \in Nat /\ c <= n /\ n <= Len(topics[t]) /\ n > 0
  BY <1>1, <1>2, <1>3
<1>5. Consumers!Took(t) = LoopOf(l.pc, c, n, r, s)
  <2>1. Consumers!Took(t) = [l EXCEPT !.fetched = n]
    BY DEF Consumers!Took
  <2> HIDE DEF l, n
  <2> QED
    BY <1>2, <1>3, <2>1 DEF LoopOf
<1> HIDE DEF l, n
<1>6. /\ [Consumers!Took(t) EXCEPT !.pc = "working"] = LoopOf("working", c, n, r, s)
      /\ Consumers!Finished(Consumers!Took(t)) = LoopOf("commit", c, n, 0, s)
  BY <1>5, LoopChanges
<1>7. /\ r < HandlerRetries => Consumers!Failed(Consumers!Took(t)) = LoopOf("handle", c, n, r + 1, s)
      /\ ~(r < HandlerRetries) => Consumers!Failed(Consumers!Took(t)) = LoopOf("dead", c, n, 0, s)
  BY <1>5, LoopChanges
<1>8. ASSUME NEW p \in OrchPcs, NEW q \in 0..HandlerRetries
      PROVE  LoopOf(p, c, n, q, s) \in OrchLoops /\ Fits(LoopOf(p, c, n, q, s), topics[t]) /\ LoopOf(p, c, n, q, s).pc = p
  <2>1. LoopOf(p, c, n, q, s) \in OrchLoops
    BY <1>4, LoopOfTyped
  <2>2. /\ LoopOf(p, c, n, q, s).pc = p /\ LoopOf(p, c, n, q, s).committed = c
        /\ LoopOf(p, c, n, q, s).fetched = n
    BY DEF LoopOf
  <2> QED
    BY <1>4, <2>1, <2>2 DEF Fits
<1>9. 0 \in 0..HandlerRetries /\ (r < HandlerRetries => r + 1 \in 0..HandlerRetries)
  BY <1>4, LimitsNatural
<1>10. "working" \in OrchPcs /\ "commit" \in OrchPcs /\ "handle" \in OrchPcs /\ "dead" \in OrchPcs
  BY DEF OrchPcs
<1>11. /\ LoopOf("working", c, n, r, s) \in OrchLoops /\ Fits(LoopOf("working", c, n, r, s), topics[t])
       /\ LoopOf("working", c, n, r, s).pc = "working"
       /\ LoopOf("commit", c, n, 0, s) \in OrchLoops /\ Fits(LoopOf("commit", c, n, 0, s), topics[t])
       /\ LoopOf("commit", c, n, 0, s).pc = "commit"
  BY <1>4, <1>8, <1>9, <1>10
<1>12. LET failed == Consumers!Failed(Consumers!Took(t))
       IN  failed \in OrchLoops /\ Fits(failed, topics[t]) /\ failed.pc \in {"handle", "dead"}
  <2>1. CASE r < HandlerRetries
    BY <1>7, <1>8, <1>9, <1>10, <2>1
  <2>2. CASE ~(r < HandlerRetries)
    BY <1>7, <1>8, <1>9, <1>10, <2>2
  <2> QED
    BY <2>1, <2>2
<1> QED
  BY <1>6, <1>11, <1>12

\* One consumer moves on, and its thread with it.
LEMMA OrchMoved ==
    ASSUME TypeOK, TopicsMove, NEW t \in DOMAIN OrchHandled, NEW l \in OrchLoops, Consumers!PassTo(t, l),
           Fits(l, topics[t]), \A u \in DOMAIN OrchHandled \ {t} : job'[u] = job[u],
           l.pc = "working" <=> job'[t] # Orch!Idle
    PROVE  OrchConsumersTyped'
<1>1. OrchConsumersTyped /\ orchLoop' = [orchLoop EXCEPT ![t] = l]
  BY TypesSplit DEF Consumers!PassTo
<1>2. orchLoop' \in [DOMAIN OrchHandled -> OrchLoops]
  BY <1>1 DEF OrchConsumersTyped
<1>3. \A u \in DOMAIN OrchHandled : Len(topics[u]) \in Nat /\ Len(topics'[u]) \in Nat /\ Len(topics[u]) <= Len(topics'[u])
  BY TopicNames, TopicsMoveTyped
<1>4. ASSUME NEW u \in DOMAIN OrchHandled
      PROVE  (orchLoop'[u].pc = "working" <=> job'[u] # Orch!Idle) /\ Fits(orchLoop'[u], topics'[u])
  <2>1. orchLoop'[u] \in OrchLoops /\ orchLoop'[u].fetched \in Nat
    BY <1>2 DEF OrchLoops
  <2>2. (orchLoop'[u].pc = "working" <=> job'[u] # Orch!Idle) /\ Fits(orchLoop'[u], topics[u])
    <3>1. CASE u = t
      BY <1>1, <3>1 DEF OrchConsumersTyped
    <3>2. CASE u # t
      BY <1>1, <3>2 DEF OrchConsumersTyped, Fits
    <3> QED
      BY <3>1, <3>2
  <2> QED
    BY <1>3, <2>1, <2>2 DEF Fits
<1> QED
  BY <1>2, <1>4 DEF OrchConsumersTyped, Fits

\* No consumer moves, whatever the threads do within their jobs.
LEMMA OrchUnmoved ==
    ASSUME TypeOK, TopicsMove, orchLoop' = orchLoop,
           \A u \in DOMAIN OrchHandled : job'[u] = Orch!Idle <=> job[u] = Orch!Idle
    PROVE  OrchConsumersTyped'
<1>1. OrchConsumersTyped
  BY TypesSplit
<1>2. \A u \in DOMAIN OrchHandled :
          /\ Len(topics[u]) \in Nat /\ Len(topics'[u]) \in Nat /\ Len(topics[u]) <= Len(topics'[u])
          /\ orchLoop[u].fetched \in Nat
  BY <1>1, TopicNames, TopicsMoveTyped DEF OrchConsumersTyped, OrchLoops
<1> QED
  BY <1>1, <1>2 DEF OrchConsumersTyped

LEMMA OrchResumed ==
    ASSUME TypeOK, Consumers!Resume, \A u \in DOMAIN OrchHandled : job'[u] = Orch!Idle
    PROVE  OrchConsumersTyped'
<1>1. /\ orchLoop' = [t \in DOMAIN OrchHandled |-> LoopOf("fetch", orchLoop[t].committed, orchLoop[t].committed, 0, orchLoop[t].letters)]
      /\ topics' = topics
  BY DEF Consumers!Resume, Consumers!StartAt, LoopOf
<1>2. ASSUME NEW t \in DOMAIN OrchHandled
      PROVE  /\ orchLoop'[t] \in OrchLoops /\ Fits(orchLoop'[t], topics[t]) /\ orchLoop'[t].pc # "working"
  <2>1. /\ orchLoop[t] \in OrchLoops /\ Fits(orchLoop[t], topics[t]) /\ Len(topics[t]) \in Nat
    BY OrchHand
  <2>2. /\ orchLoop[t].committed \in Nat /\ orchLoop[t].fetched \in Nat /\ orchLoop[t].letters \in SUBSET Orders
        /\ 0 \in 0..HandlerRetries /\ "fetch" \in OrchPcs
    BY <2>1, LoopIsOf, LimitsNatural DEF OrchPcs
  <2>3. PICK c, s : c = orchLoop[t].committed /\ s = orchLoop[t].letters
    OBVIOUS
  <2>4. orchLoop'[t] = LoopOf("fetch", c, c, 0, s) /\ c \in Nat /\ s \in SUBSET Orders /\ c <= Len(topics[t])
    BY <1>1, <2>1, <2>2, <2>3 DEF Fits
  <2>5. LoopOf("fetch", c, c, 0, s) \in OrchLoops
    BY <2>2, <2>4, LoopOfTyped
  <2>6. /\ LoopOf("fetch", c, c, 0, s).pc = "fetch" /\ LoopOf("fetch", c, c, 0, s).committed = c
        /\ LoopOf("fetch", c, c, 0, s).fetched = c
    BY DEF LoopOf
  <2> QED
    BY <2>4, <2>5, <2>6 DEF Fits
<1>3. orchLoop' \in [DOMAIN OrchHandled -> OrchLoops]
  BY <1>1, <1>2
<1> QED
  BY <1>1, <1>2, <1>3 DEF OrchConsumersTyped, Fits

LEMMA OrchFaultMoves ==
    ASSUME TypeOK, NEW kind, Consumers!Fault(kind)
    PROVE  FaultsMove
<1>1. PC!Fault(kind)
  BY DEF Consumers!Fault, PC!Fault, Consumers!HarmlessFaultKinds, PC!HarmlessFaultKinds
<1>2. FaultsTyped /\ faults.harmful \in Nat
  BY TypesSplit DEF FaultsTyped
<1> QED
  BY <1>1, <1>2, PC!FaultTyped, FaultRecordsSame, LimitsNatural DEF FaultsMove

LEMMA FaultsStay ==
    ASSUME TypeOK, faults' = faults
    PROVE  FaultsMove
BY TypesSplit DEF FaultsMove, FaultsTyped

LEMMA OrchConsumes ==
    ASSUME TypeOK, NEW t \in DOMAIN OrchHandled,
           \/ Consumers!Commit(t) \/ Consumers!CommitError(t) \/ Consumers!SkipDuplicate(t)
           \/ Consumers!DeadLetter(t) \/ Consumers!DeadLetterError(t)
    PROVE  /\ topics' = topics /\ FaultsMove
           /\ orchLoop[t].pc # "working"
           /\ \E l \in OrchLoops : Consumers!PassTo(t, l) /\ Fits(l, topics[t]) /\ l.pc # "working"
<1> DEFINE l == orchLoop[t]
<1>1. /\ l \in OrchLoops /\ Fits(l, topics[t]) /\ l = LoopOf(l.pc, l.committed, l.fetched, l.retry, l.letters)
      /\ l.committed \in Nat /\ l.fetched \in Nat /\ l.retry \in 0..HandlerRetries /\ l.letters \in SUBSET Orders
      /\ Len(topics[t]) \in Nat /\ orchLoop \in [DOMAIN OrchHandled -> OrchLoops]
  BY OrchHand, LoopIsOf, TypesSplit DEF OrchConsumersTyped
<1>2. PICK p, c, f, r, s : p = l.pc /\ c = l.committed /\ f = l.fetched /\ r = l.retry /\ s = l.letters
  OBVIOUS
<1>3. /\ l = LoopOf(p, c, f, r, s) /\ c \in Nat /\ f \in Nat /\ r \in 0..HandlerRetries /\ s \in SUBSET Orders
      /\ c <= f /\ f <= Len(topics[t]) /\ (p # "fetch" => f > 0)
  BY <1>1, <1>2 DEF Fits
<1>4. ASSUME NEW q \in {"fetch", "commit"}, NEW d \in Nat, NEW i \in 0..HandlerRetries, NEW w \in SUBSET Orders,
             d <= f, p # "fetch"
      PROVE  LoopOf(q, d, f, i, w) \in OrchLoops /\ Fits(LoopOf(q, d, f, i, w), topics[t]) /\ LoopOf(q, d, f, i, w).pc # "working"
  <2>1. q \in OrchPcs
    BY DEF OrchPcs
  <2>2. LoopOf(q, d, f, i, w) \in OrchLoops
    BY <1>3, <2>1, LoopOfTyped
  <2>3. /\ LoopOf(q, d, f, i, w).pc = q /\ LoopOf(q, d, f, i, w).committed = d
        /\ LoopOf(q, d, f, i, w).fetched = f
    BY DEF LoopOf
  <2> QED
    BY <1>3, <1>4, <2>2, <2>3 DEF Fits
<1>5. 0 \in 0..HandlerRetries
  BY LimitsNatural
<1>6. CASE Consumers!Commit(t)
  <2>1. orchLoop' = [orchLoop EXCEPT ![t] = [l EXCEPT !.pc = "fetch", !.committed = f]]
    BY <1>1, <1>2, <1>6 DEF Consumers!Commit
  <2>2. [LoopOf(p, c, f, r, s) EXCEPT !.pc = "fetch", !.committed = f] = LoopOf("fetch", f, f, r, s)
    <3>1. [LoopOf("fetch", c, f, r, s) EXCEPT !.committed = f] = LoopOf("fetch", f, f, r, s)
      BY DEF LoopOf
    <3>2. [LoopOf(p, c, f, r, s) EXCEPT !.pc = "fetch"] = LoopOf("fetch", c, f, r, s)
      BY LoopChanges
    <3> HIDE DEF l
    <3> QED
      BY <3>1, <3>2
  <2>3. Consumers!PassTo(t, LoopOf("fetch", f, f, r, s))
    BY <1>3, <2>1, <2>2 DEF Consumers!PassTo
  <2>4. p = "commit" /\ topics' = topics /\ faults' = faults
    BY <1>2, <1>6 DEF Consumers!Commit
  <2>5. LoopOf("fetch", f, f, r, s) \in OrchLoops /\ Fits(LoopOf("fetch", f, f, r, s), topics[t]) /\ LoopOf("fetch", f, f, r, s).pc # "working"
    BY <1>3, <1>4, <2>4
  <2> QED
    BY <1>2, <2>3, <2>4, <2>5, FaultsStay
<1>7. CASE Consumers!CommitError(t) \/ Consumers!DeadLetterError(t)
  <2>1. orchLoop' = [orchLoop EXCEPT ![t] = [l EXCEPT !.pc = "fetch"]]
    BY <1>1, <1>7 DEF Consumers!CommitError, Consumers!DeadLetterError
  <2>2. Consumers!PassTo(t, LoopOf("fetch", c, f, r, s))
    <3>1. [LoopOf(p, c, f, r, s) EXCEPT !.pc = "fetch"] = LoopOf("fetch", c, f, r, s)
      BY LoopChanges
    <3>2. [l EXCEPT !.pc = "fetch"] = LoopOf("fetch", c, f, r, s)
      BY <1>3, <3>1
    <3> QED
      BY <2>1, <3>2 DEF Consumers!PassTo
  <2>3. p \in {"commit", "dead"} /\ topics' = topics
    BY <1>2, <1>7 DEF Consumers!CommitError, Consumers!DeadLetterError
  <2>4. FaultsMove
    <3>1. CASE Consumers!CommitError(t)
      BY <3>1, OrchFaultMoves DEF Consumers!CommitError
    <3>2. CASE Consumers!DeadLetterError(t)
      <4>1. faults' = [faults EXCEPT !.untold = TRUE]
        BY <3>2 DEF Consumers!DeadLetterError
      <4>2. FaultsTyped /\ faults.harmful \in Nat
        BY TypesSplit DEF FaultsTyped
      <4>3. FaultsTyped' /\ faults'.harmful = faults.harmful
        BY <4>1, <4>2, Zenon DEF FaultsTyped
      <4> QED
        BY <4>2, <4>3 DEF FaultsMove
    <3> QED
      BY <1>7, <3>1, <3>2
  <2>5. LoopOf("fetch", c, f, r, s) \in OrchLoops /\ Fits(LoopOf("fetch", c, f, r, s), topics[t]) /\ LoopOf("fetch", c, f, r, s).pc # "working"
    BY <1>3, <1>4, <2>3
  <2> QED
    BY <1>2, <2>2, <2>3, <2>4, <2>5
<1>8. CASE Consumers!DeadLetter(t)
  <2>1. p = "dead" /\ topics' = topics /\ faults' = faults
    BY <1>2, <1>8 DEF Consumers!DeadLetter
  <2>2. PICK w : w = s \cup {Consumers!InHand(t).order}
    OBVIOUS
  <2>3. w \in SUBSET Orders
    BY <1>2, <1>3, <2>1, <2>2, OrchHand
  <2>4. Consumers!Finished(l) = LoopOf("commit", c, f, 0, s)
    BY <1>3, LoopChanges
  <2>5. [LoopOf("commit", c, f, 0, s) EXCEPT !.letters = w] = LoopOf("commit", c, f, 0, w) /\ LoopOf("commit", c, f, 0, s).letters = s
    BY DEF LoopOf
  <2>6. Consumers!PassTo(t, LoopOf("commit", c, f, 0, w))
    BY <1>8, <2>2, <2>4, <2>5 DEF Consumers!DeadLetter
  <2>7. LoopOf("commit", c, f, 0, w) \in OrchLoops /\ Fits(LoopOf("commit", c, f, 0, w), topics[t]) /\ LoopOf("commit", c, f, 0, w).pc # "working"
    BY <1>3, <1>4, <1>5, <2>1, <2>3
  <2> QED
    BY <1>2, <2>1, <2>6, <2>7, FaultsStay
<1>9. CASE Consumers!SkipDuplicate(t)
  <2>1. Consumers!Ready(t) /\ topics' = topics /\ faults' = faults /\ Consumers!PassTo(t, Consumers!Finished(Consumers!Took(t)))
    BY <1>9 DEF Consumers!SkipDuplicate, Consumers!Handles
  <2>2. l.pc # "working"
    BY <2>1 DEF Consumers!Ready
  <2> QED
    BY <2>1, <2>2, OrchLoopsAfter, FaultsStay
<1> QED
  BY <1>6, <1>7, <1>8, <1>9

-----------------------------------------------------------------------------
(* What a step of the orchestrator does *)

OrchTopics == {"payment-commands", "inventory-commands", "saga-events"}

\* What a thread does next belongs to the same event, or to one that was heard.
JobsFollow ==
    \A t \in Orch!Threads : job'[t] # Orch!Idle =>
        \/ job[t] # Orch!Idle /\ job'[t].event = job[t].event /\ job'[t].saga = job[t].saga
        \/ Heard(job'[t].event, job'[t].saga)

\* What is written belongs to a thread's job, or to a start that was heard.
WritesFollow ==
    \A w \in writes' \ writes :
        \/ Heard(w.event, w.saga)
        \/ \E t \in Orch!Threads : job[t] # Orch!Idle /\ w = Orch!WriteOf(job[t])

\* A message is the one a thread's job is about, and is published for the first time.
OrchSends ==
    \E m \in Outs, t \in Orch!Threads :
        /\ Grown(m) /\ m.topic \in OrchTopics
        /\ job[t].pc = "publish" /\ job[t].saga = m.order /\ job[t].action = m.type
        /\ published' = published \cup {Orch!Message(job[t])}

OrchMoves ==
    /\ Orch!Next \/ UNCHANGED threadState
    /\ OrchConsumersTyped'
    /\ topics' = topics \/ OrchSends
    /\ FaultsMove
    /\ JobsFollow
    /\ WritesFollow

LEMMA OrchThreads ==
    /\ DOMAIN OrchHandled \subseteq Orch!Threads /\ Workers \subseteq Orch!Threads
    /\ Orch!EventConsumers = {"payment-events", "inventory-events"}
    /\ \A w \in Workers : w \notin DOMAIN OrchHandled
BY TopicNames, WorkersAssumption DEF Orch!Threads, Orch!EventConsumers

LEMMA JobTypes ==
    ASSUME TypeOK
    PROVE  /\ job \in [Orch!Threads -> Orch!Jobs \cup {Orch!Idle}]
           /\ \A t \in Orch!Threads : job[t] # Orch!Idle =>
                  job[t] \in Orch!Jobs /\ job[t].pc \in {"update", "record", "publish"} /\ job[t].saga \in Orders
           /\ \A t \in Orch!Threads : job[t].pc \in {"update", "record", "publish"} => job[t] # Orch!Idle
           /\ orchFaults \in Nat
<1>1. job \in [Orch!Threads -> Orch!Jobs \cup {Orch!Idle}] /\ orchFaults \in 0..MaxFaults
  BY DEF TypeOK, Orch!TypeOK
<1>2. \A j \in Orch!Jobs : j.pc \in {"update", "record", "publish"} /\ j.saga \in Orders
  BY DEF Orch!Jobs
<1>3. Orch!Idle.pc = "idle"
  BY DEF Orch!Idle
<1>4. ASSUME NEW t \in Orch!Threads, job[t].pc \in {"update", "record", "publish"}
      PROVE  job[t] # Orch!Idle
  BY <1>3, <1>4
<1> QED
  BY <1>1, <1>2, <1>4, LimitsNatural

LEMMA SentIsGrown ==
    ASSUME TypeOK, NEW m \in Outs, Consumers!Sent(m) \/ Consumers!SentTwice(m)
    PROVE  Grown(m)
<1>1. PC!Sent(m) \/ PC!SentTwice(m)
  BY DEF Consumers!Sent, PC!Sent, Consumers!SentTwice, PC!SentTwice, Consumers!Written, PC!Written,
         Consumers!WrittenTwice, PC!WrittenTwice
<1>2. PC!TopicsTyped
  BY TopicFacts DEF TypeOK
<1> QED
  BY <1>1, <1>2, PC!SentGrows, PC!SentTwiceGrows DEF Outs, Grown

LEMMA OutgoingTyped ==
    ASSUME TypeOK, NEW t \in Orch!Threads, job[t] # Orch!Idle
    PROVE  /\ Outgoing(job[t]) \in Outs
           /\ Outgoing(job[t]).topic \in OrchTopics
           /\ Outgoing(job[t]).order = job[t].saga /\ Outgoing(job[t]).type = job[t].action
<1>1. job[t].action \in {"ReservePayment", "ReserveInventory", "CancelPayment", "SagaCompleted", "SagaFailed"}
      /\ job[t].saga \in Orders
  BY JobTypes DEF Orch!Jobs, Orch!MessageTypes, Orch!Commands, Orch!TerminalEvents
<1>2. PICK a, o : a = job[t].action /\ o = job[t].saga
  OBVIOUS
<1>3. /\ a \in {"ReservePayment", "ReserveInventory", "CancelPayment", "SagaCompleted", "SagaFailed"}
      /\ o \in Orders
  BY <1>1, <1>2
<1>4. TopicOf(a) \in OrchTopics
  BY <1>3 DEF TopicOf, OrchTopics
<1>5. OrchTopics \subseteq Topics /\ a \in PC!Types
  BY <1>3, TopicNames DEF OrchTopics, PC!Types
<1>6. [topic |-> TopicOf(a), type |-> a, order |-> o] \in Outs
  BY <1>3, <1>4, <1>5, OutsTyped
<1> QED
  BY <1>2, <1>4, <1>6 DEF Outgoing, Consumers!Message

\* A message in Kafka is one the producer wrote.
LEMMA JobIsSent ==
    ASSUME TypeOK, NEW t \in Orch!Threads, Orch!Publish(t), UNCHANGED orchFaults,
           Consumers!Sent(Outgoing(job[t])) \/ Consumers!SentTwice(Outgoing(job[t]))
    PROVE  OrchSends
<1>1. job[t] # Orch!Idle
  BY JobTypes DEF Orch!Publish
<1>2. published' = published \cup {Orch!Message(job[t])}
  BY JobTypes DEF Orch!Publish, Orch!Fault
<1>3. job[t].pc = "publish"
  BY DEF Orch!Publish
<1>4. Grown(Outgoing(job[t]))
  BY <1>1, OutgoingTyped, SentIsGrown
<1> QED
  BY <1>1, <1>2, <1>3, <1>4, OutgoingTyped DEF OrchSends

\* The steps of threads other than that of a handler taking an event.
ThreadSteps ==
    \/ \E s \in Orders :
           /\ Orch!StartSaga("saga-commands", s) \/ Orch!StartSagaLosesReply("saga-commands", s)
           /\ Written("saga-commands", "StartSaga", s)
    \/ \E w \in Workers : Orch!CheckTimeouts(w) \/ Orch!ProcessSaga(w)
    \/ \E t \in Orch!Threads : Orch!Step(t) \/ Orch!UpdateError(t)
    \/ \E s \in Orders : Orch!DeadlinePasses(s)
    \/ Orch!Crash
    \/ UNCHANGED threadState

\* Only the handlers of events begin a job on an event.
LEMMA ThreadsFollow ==
    ASSUME TypeOK, ThreadSteps
    PROVE  JobsFollow /\ WritesFollow /\ (Orch!Next \/ UNCHANGED threadState)
<1>1. job \in [Orch!Threads -> Orch!Jobs \cup {Orch!Idle}]
  BY JobTypes
<1>2. \A s : /\ Written("saga-commands", "StartSaga", s) => Heard("StartSaga", s)
            /\ Heard("Retry", s) /\ Heard("Timeout", s)
  BY DEF Heard, Orch!PaymentEvents, Orch!InventoryEvents
<1> DEFINE Follow == JobsFollow /\ WritesFollow
<1>3. CASE UNCHANGED threadState
  BY <1>3 DEF threadState, JobsFollow, WritesFollow
<1>4. ASSUME NEW s \in Orders, Orch!StartSaga("saga-commands", s) \/ Orch!StartSagaLosesReply("saga-commands", s),
             Written("saga-commands", "StartSaga", s)
      PROVE  Follow
  <2>1. Orch!StartJob(s).event = "StartSaga" /\ Orch!StartJob(s).saga = s
    BY DEF Orch!StartJob
  <2>2. Orch!StartWrite(s).event = "StartSaga" /\ Orch!StartWrite(s).saga = s
    BY DEF Orch!StartWrite
  <2>3. writes' = writes \cup {Orch!StartWrite(s)}
    BY <1>4 DEF Orch!StartSaga, Orch!StartSagaLosesReply, Orch!InsertRow
  <2>4. WritesFollow
    BY <1>2, <1>4, <2>2, <2>3 DEF WritesFollow
  <2> QED
    BY <1>1, <1>2, <1>4, <2>1, <2>4 DEF JobsFollow, Orch!StartSaga, Orch!StartSagaLosesReply
<1>5. ASSUME NEW w \in Workers, Orch!CheckTimeouts(w) PROVE Follow
  BY <1>5 DEF JobsFollow, WritesFollow, Orch!CheckTimeouts, Orch!stored
<1>6. ASSUME NEW w \in Workers, Orch!ProcessSaga(w) PROVE Follow
  <2>1. \A x, t : Orch!RetryJob(x).event = "Retry" /\ Orch!ExhaustJob(x, t).event = "Timeout"
    BY DEF Orch!RetryJob, Orch!ExhaustJob
  <2>2. PICK j : job' = [job EXCEPT ![w] = j] /\ j.event \in {"Retry", "Timeout"}
    BY <1>6, <2>1 DEF Orch!ProcessSaga, Orch!RetrySaga, Orch!ExhaustSaga, Orch!Take
  <2>3. writes' = writes
    BY <1>6 DEF Orch!ProcessSaga, Orch!RetrySaga, Orch!ExhaustSaga, Orch!Take, Orch!stored
  <2> QED
    BY <1>1, <1>2, <2>2, <2>3 DEF JobsFollow, WritesFollow
<1>7. ASSUME NEW t \in Orch!Threads, Orch!Step(t) \/ Orch!UpdateError(t) PROVE Follow
  <2>1. job[t] # Orch!Idle
    BY <1>7, JobTypes DEF Orch!Step, Orch!UpdateError, Orch!UpdateSaga, Orch!SkipModified, Orch!RecordHistory, Orch!Publish
  <2>2. PICK j : job' = [job EXCEPT ![t] = j] /\ (j = Orch!Idle \/ j = Orch!AfterUpdate(job[t]) \/ j = [job[t] EXCEPT !.pc = "publish"])
    BY <1>7 DEF Orch!Step, Orch!UpdateError, Orch!UpdateSaga, Orch!SkipModified, Orch!RecordHistory, Orch!Publish
  <2>3. job[t] \in Orch!Jobs
    BY <2>1, JobTypes
  <2>4. j = Orch!Idle \/ (j.event = job[t].event /\ j.saga = job[t].saga)
    BY <2>2, <2>3 DEF Orch!AfterUpdate, Orch!Jobs
  <2>5. writes' = writes \/ writes' = writes \cup {Orch!WriteOf(job[t])}
    BY <1>7 DEF Orch!Step, Orch!UpdateError, Orch!UpdateSaga, Orch!SkipModified, Orch!RecordHistory, Orch!Publish,
                Orch!UpdateRow, Orch!stored
  <2>6. WritesFollow
    BY <2>1, <2>5 DEF WritesFollow
  <2> QED
    BY <1>1, <2>1, <2>2, <2>4, <2>6 DEF JobsFollow
<1>8. ASSUME NEW s \in Orders, Orch!DeadlinePasses(s) PROVE Follow
  BY <1>8 DEF JobsFollow, WritesFollow, Orch!DeadlinePasses
<1>9. ASSUME Orch!Crash PROVE Follow
  BY <1>9 DEF JobsFollow, WritesFollow, Orch!Crash, Orch!stored
<1>10. Orch!Next \/ UNCHANGED threadState
  BY DEF ThreadSteps, Orch!Next
<1> QED
  BY <1>3, <1>4, <1>5, <1>6, <1>7, <1>8, <1>9, <1>10 DEF ThreadSteps

LEMMA EventTaken ==
    ASSUME TypeOK, NEW t \in Orch!EventConsumers, NEW s \in Orders, NEW event, Orch!HandleEvent(t, s, event),
           Written(t, event, s)
    PROVE  JobsFollow /\ WritesFollow /\ Orch!Next /\ job'[t] # Orch!Idle /\ \A u \in Orch!Threads \ {t} : job'[u] = job[u]
<1>1. t \in Orch!Threads /\ t \in {"payment-events", "inventory-events"}
  BY OrchThreads, TopicNames
<1>2. Orch!EventsOf(t) = IF t = "payment-events" THEN Orch!PaymentEvents ELSE Orch!InventoryEvents
  BY <1>1 DEF Orch!EventsOf
<1>3. event \in Orch!PaymentEvents \cup Orch!InventoryEvents
  BY <1>2 DEF Orch!HandleEvent
<1>4. Heard(event, s)
  BY <1>1, <1>2, <1>3 DEF Orch!HandleEvent, Heard, Orch!PaymentEvents, Orch!InventoryEvents
<1>5. PICK tr \in Orch!Apply(sagas[s].state, event) : job' = [job EXCEPT ![t] = Orch!EventJob(s, tr)]
  BY DEF Orch!HandleEvent
<1>6. tr.event = event
  BY <1>5 DEF Orch!Apply
<1>7. Orch!EventJob(s, tr).event = event /\ Orch!EventJob(s, tr).saga = s /\ Orch!EventJob(s, tr).pc = "update"
  BY <1>6 DEF Orch!EventJob
<1>8. Orch!EventJob(s, tr) # Orch!Idle
  <2>1. Orch!Idle.pc = "idle"
    BY DEF Orch!Idle
  <2> QED
    BY <1>7, <2>1
<1>9. job \in [Orch!Threads -> Orch!Jobs \cup {Orch!Idle}]
  BY JobTypes
<1>10. job'[t] = Orch!EventJob(s, tr) /\ \A u \in Orch!Threads \ {t} : job'[u] = job[u]
  BY <1>1, <1>5, <1>9
<1>11. JobsFollow /\ WritesFollow
  BY <1>4, <1>7, <1>10 DEF JobsFollow, WritesFollow, Orch!HandleEvent, Orch!stored
<1>12. Orch!Next
  BY <1>3 DEF Orch!Next
<1> QED
  BY <1>8, <1>10, <1>11, <1>12

\* The handlers' steps, one by one.
LEMMA HandlesCommand ==
    ASSUME TypeOK, NEW t \in {"saga-commands"}, HandleCommand(t) \/ HandleCommandError(t)
    PROVE  OrchMoves
<1>1. t \in DOMAIN OrchHandled /\ t \in Orch!Threads /\ job \in [Orch!Threads -> Orch!Jobs \cup {Orch!Idle}]
  BY TopicNames, OrchThreads, JobTypes
<1>2. topics' = topics /\ FaultsMove /\ TopicsMove
  BY FaultsStay DEF HandleCommand, HandleCommandError, TopicsMove
<1>3. /\ Consumers!Ready(t) /\ Consumers!InHand(t).order \in Orders
      /\ Written("saga-commands", "StartSaga", Consumers!InHand(t).order)
  <2>1. Consumers!Handles(t)
    BY DEF HandleCommand, HandleCommandError, Consumers!Begin
  <2>2. Consumers!InHand(t).type = "StartSaga"
    BY <2>1 DEF Consumers!Handles, OrchHandled
  <2>3. Consumers!Ready(t)
    BY <2>1 DEF Consumers!Handles
  <2> QED
    BY <1>1, <2>2, <2>3, OrchHand
<1>4. ThreadSteps
  BY <1>3 DEF HandleCommand, HandleCommandError, ThreadSteps
<1>5. CASE HandleCommand(t)
  <2>1. PICK s : job' = [job EXCEPT ![t] = Orch!StartJob(s)]
    BY <1>5 DEF HandleCommand, Orch!StartSaga
  <2>2. Orch!StartJob(s) # Orch!Idle
    <3>1. Orch!StartJob(s).pc = "record" /\ Orch!Idle.pc = "idle"
      BY DEF Orch!StartJob, Orch!Idle
    <3> QED
      BY <3>1
  <2>3. job'[t] # Orch!Idle /\ \A u \in DOMAIN OrchHandled \ {t} : job'[u] = job[u]
    BY <1>1, <2>1, <2>2, OrchThreads
  <2>4. OrchConsumersTyped'
    BY <1>1, <1>2, <1>3, <1>5, <2>3, OrchLoopsAfter, OrchMoved DEF HandleCommand, GoOn
  <2> QED
    BY <1>2, <1>4, <2>4, ThreadsFollow DEF OrchMoves
<1>6. CASE HandleCommandError(t)
  <2>1. job' = job
    BY <1>6 DEF HandleCommandError, threadState, Orch!StartSagaLosesReply
  <2>2. job[t] = Orch!Idle
    <3>1. orchLoop[t].pc # "working"
      BY <1>3 DEF Consumers!Ready
    <3> QED
      BY <1>1, <3>1, TypesSplit DEF OrchConsumersTyped
  <2>3. OrchConsumersTyped'
    BY <1>1, <1>2, <1>3, <1>6, <2>1, <2>2, OrchLoopsAfter, OrchMoved DEF HandleCommandError, Fails, Consumers!Fail
  <2> QED
    BY <1>2, <1>4, <2>3, ThreadsFollow DEF OrchMoves
<1> QED
  BY <1>5, <1>6

LEMMA HandlesEvent ==
    ASSUME TypeOK, NEW t \in EventTopics, HandleEvent(t) \/ SkipEvent(t)
    PROVE  OrchMoves
<1>1. t \in DOMAIN OrchHandled /\ t \in Orch!EventConsumers /\ t \in Orch!Threads
  BY TopicNames, OrchThreads DEF EventTopics
<1>2. topics' = topics /\ FaultsMove /\ TopicsMove
  <2>1. topics' = topics
    BY DEF HandleEvent, SkipEvent
  <2>2. UNCHANGED faults \/ Consumers!Fault("read")
    BY DEF HandleEvent, SkipEvent
  <2> QED
    BY <2>1, <2>2, FaultsStay, OrchFaultMoves DEF TopicsMove
<1>3. Consumers!Ready(t)
  BY DEF HandleEvent, SkipEvent, Consumers!Begin, Consumers!Handles
<1>4. /\ Consumers!InHand(t).order \in Orders
      /\ Written(t, Consumers!InHand(t).type, Consumers!InHand(t).order)
  BY <1>1, <1>3, OrchHand
<1>5. CASE HandleEvent(t)
  <2>1. Orch!HandleEvent(t, Consumers!InHand(t).order, Consumers!InHand(t).type)
    BY <1>5 DEF HandleEvent
  <2>2. JobsFollow /\ WritesFollow /\ Orch!Next /\ job'[t] # Orch!Idle /\ \A u \in Orch!Threads \ {t} : job'[u] = job[u]
    BY <1>1, <1>4, <2>1, EventTaken
  <2>3. \A u \in DOMAIN OrchHandled \ {t} : job'[u] = job[u]
    BY <2>2, OrchThreads
  <2>4. OrchConsumersTyped'
    BY <1>1, <1>2, <1>3, <1>5, <2>2, <2>3, OrchLoopsAfter, OrchMoved DEF HandleEvent, GoOn
  <2> QED
    BY <1>2, <2>2, <2>4 DEF OrchMoves
<1>6. CASE SkipEvent(t)
  <2>1. UNCHANGED threadState /\ job' = job
    BY <1>6 DEF SkipEvent, threadState
  <2>2. job[t] = Orch!Idle
    <3>1. orchLoop[t].pc # "working"
      BY <1>3 DEF Consumers!Ready
    <3> QED
      BY <1>1, <3>1, TypesSplit DEF OrchConsumersTyped
  <2>3. OrchConsumersTyped'
    BY <1>1, <1>2, <1>3, <1>6, <2>1, <2>2, OrchLoopsAfter, OrchMoved DEF SkipEvent, Consumers!Finish
  <2>4. ThreadSteps
    BY <2>1 DEF ThreadSteps
  <2> QED
    BY <1>2, <2>3, <2>4, ThreadsFollow DEF OrchMoves
<1> QED
  BY <1>5, <1>6

\* A handler at work goes on.
LEMMA JobProceeds ==
    ASSUME TypeOK, NEW t \in DOMAIN OrchHandled, JobStep(t)
    PROVE  OrchMoves
<1>1. t \in Orch!Threads /\ job \in [Orch!Threads -> Orch!Jobs \cup {Orch!Idle}]
  BY OrchThreads, JobTypes
<1>2. Orch!UpdateSaga(t) \/ Orch!RecordHistory(t) \/ Orch!SkipModified(t) \/ Orch!Publish(t)
  BY DEF JobStep
<1>3. ThreadSteps
  BY <1>1, <1>2 DEF ThreadSteps, Orch!Step
<1>4. job[t] # Orch!Idle
  BY <1>1, <1>2, JobTypes DEF Orch!UpdateSaga, Orch!RecordHistory, Orch!SkipModified, Orch!Publish
<1>5. orchLoop[t].pc = "working"
  BY <1>4, TypesSplit DEF OrchConsumersTyped
<1>6. CASE (Orch!UpdateSaga(t) \/ Orch!RecordHistory(t)) /\ UNCHANGED <<topics, orchLoop, orchSeen, faults>>
  <2>1. topics' = topics /\ FaultsMove /\ TopicsMove /\ orchLoop' = orchLoop
    BY <1>6, FaultsStay DEF TopicsMove
  <2>2. PICK j : job' = [job EXCEPT ![t] = j] /\ (j = Orch!AfterUpdate(job[t]) \/ j = [job[t] EXCEPT !.pc = "publish"])
    BY <1>6 DEF Orch!UpdateSaga, Orch!RecordHistory
  <2>3. j.pc \in {"record", "publish"}
    BY <1>1, <1>4, <2>2, JobTypes DEF Orch!AfterUpdate, Orch!Jobs
  <2>4. j # Orch!Idle
    BY <2>3 DEF Orch!Idle
  <2>5. \A u \in DOMAIN OrchHandled : job'[u] = Orch!Idle <=> job[u] = Orch!Idle
    BY <1>1, <1>4, <2>2, <2>4, OrchThreads
  <2>6. OrchConsumersTyped'
    BY <2>1, <2>5, OrchUnmoved
  <2> QED
    BY <1>3, <2>1, <2>6, ThreadsFollow DEF OrchMoves
<1>7. ASSUME Orch!SkipModified(t) \/ Orch!Publish(t), Consumers!Finish(t), TopicsMove
      PROVE  OrchConsumersTyped'
  <2>1. job' = [job EXCEPT ![t] = Orch!Idle]
    BY <1>7 DEF Orch!SkipModified, Orch!Publish
  <2>2. job'[t] = Orch!Idle /\ \A u \in DOMAIN OrchHandled \ {t} : job'[u] = job[u]
    BY <1>1, <2>1, OrchThreads
  <2> QED
    BY <1>5, <1>7, <2>2, OrchLoopsAfter, OrchMoved DEF Consumers!Finish
<1>8. CASE Orch!SkipModified(t) /\ Consumers!Finish(t) /\ UNCHANGED <<topics, orchSeen, faults>>
  <2>1. topics' = topics /\ FaultsMove /\ TopicsMove
    BY <1>8, FaultsStay DEF TopicsMove
  <2> QED
    BY <1>3, <1>7, <1>8, <2>1, ThreadsFollow DEF OrchMoves
<1>9. CASE /\ Orch!Publish(t) /\ UNCHANGED orchFaults
           /\ \/ Consumers!Sent(Outgoing(job[t])) /\ UNCHANGED faults
              \/ Consumers!SentTwice(Outgoing(job[t])) /\ Consumers!Fault("twice")
           /\ Consumers!Finish(t)
  <2>1. OrchSends
    BY <1>1, <1>9, JobIsSent
  <2>2. TopicsMove
    BY <2>1 DEF OrchSends, TopicsMove
  <2>3. FaultsMove
    BY <1>9, FaultsStay, OrchFaultMoves
  <2> QED
    BY <1>3, <1>7, <1>9, <2>1, <2>2, <2>3, ThreadsFollow DEF OrchMoves
<1> QED
  BY <1>6, <1>8, <1>9 DEF JobStep

LEMMA JobFails ==
    ASSUME TypeOK, NEW t \in DOMAIN OrchHandled, JobError(t)
    PROVE  OrchMoves
<1>1. t \in Orch!Threads /\ job \in [Orch!Threads -> Orch!Jobs \cup {Orch!Idle}]
  BY OrchThreads, JobTypes
<1>2. Orch!UpdateError(t) \/ Orch!Publish(t)
  BY DEF JobError
<1>3. ThreadSteps
  BY <1>1, <1>2 DEF ThreadSteps, Orch!Step
<1>4. job[t] # Orch!Idle
  BY <1>1, <1>2, JobTypes DEF Orch!UpdateError, Orch!Publish
<1>5. orchLoop[t].pc = "working"
  BY <1>4, TypesSplit DEF OrchConsumersTyped
<1>6. (topics' = topics \/ OrchSends) /\ FaultsMove
  <2>1. CASE UNCHANGED <<topics, faults>>
    BY <2>1, FaultsStay
  <2>2. CASE /\ Orch!Publish(t) /\ UNCHANGED orchFaults /\ Consumers!Sent(Outgoing(job[t]))
             /\ Consumers!Fault("unsure")
    BY <1>1, <2>2, JobIsSent, OrchFaultMoves
  <2> QED
    BY <2>1, <2>2 DEF JobError
<1>7. TopicsMove
  BY <1>6 DEF OrchSends, TopicsMove
<1>8. job' = [job EXCEPT ![t] = Orch!Idle] /\ Consumers!PassTo(t, Consumers!Failed(Consumers!Took(t)))
  BY <1>2 DEF JobError, Fails, Consumers!Fail, Orch!UpdateError, Orch!Publish
<1>9. job'[t] = Orch!Idle /\ \A u \in DOMAIN OrchHandled \ {t} : job'[u] = job[u]
  BY <1>1, <1>8, OrchThreads
<1>10. OrchConsumersTyped'
  BY <1>5, <1>7, <1>8, <1>9, OrchLoopsAfter, OrchMoved
<1> QED
  BY <1>3, <1>6, <1>10, ThreadsFollow DEF OrchMoves

\* The worker's steps, those of the clock and the end of the process.
LEMMA WorkersMove ==
    ASSUME TypeOK, NEW w \in Workers, WorkerStep(w) \/ WorkerPublish(w) \/ WorkerError(w), orchLoop' = orchLoop
    PROVE  OrchMoves
<1>1. w \in Orch!Threads /\ w \notin DOMAIN OrchHandled
  BY OrchThreads
<1>2. \/ Orch!CheckTimeouts(w) \/ Orch!ProcessSaga(w)
      \/ Orch!Step(w) \/ Orch!UpdateError(w)
  BY DEF WorkerStep, WorkerPublish, WorkerError, Orch!Step
<1>3. ThreadSteps
  BY <1>1, <1>2 DEF ThreadSteps
<1>4. (topics' = topics \/ OrchSends) /\ FaultsMove
  <2>1. CASE UNCHANGED <<topics, faults>>
    BY <2>1, FaultsStay
  <2>2. CASE WorkerPublish(w)
    BY <1>1, <2>2, JobIsSent, FaultsStay, OrchFaultMoves DEF WorkerPublish
  <2> QED
    BY <2>1, <2>2 DEF WorkerStep, WorkerError
<1>5. TopicsMove
  BY <1>4 DEF OrchSends, TopicsMove
<1>6. job' = job \/ \E j : job' = [job EXCEPT ![w] = j]
  BY <1>2 DEF Orch!CheckTimeouts, Orch!ProcessSaga, Orch!RetrySaga, Orch!ExhaustSaga, Orch!Take, Orch!Step,
              Orch!UpdateError, Orch!UpdateSaga, Orch!SkipModified, Orch!RecordHistory, Orch!Publish
<1>7. \A u \in DOMAIN OrchHandled : job'[u] = job[u]
  BY <1>1, <1>6, OrchThreads, JobTypes
<1>8. OrchConsumersTyped'
  BY <1>5, <1>7, OrchUnmoved
<1> QED
  BY <1>3, <1>4, <1>8, ThreadsFollow DEF OrchMoves

LEMMA ConsumingMoves ==
    ASSUME TypeOK, OrchConsuming
    PROVE  OrchMoves
<1>1. PICK t \in DOMAIN OrchHandled :
          \/ Consumers!Commit(t) \/ Consumers!CommitError(t) \/ Consumers!SkipDuplicate(t)
          \/ Consumers!DeadLetter(t) \/ Consumers!DeadLetterError(t)
  BY DEF OrchConsuming
<1>2. /\ topics' = topics /\ FaultsMove /\ orchLoop[t].pc # "working"
      /\ \E l \in OrchLoops : Consumers!PassTo(t, l) /\ Fits(l, topics[t]) /\ l.pc # "working"
  BY <1>1, OrchConsumes
<1>3. UNCHANGED threadState /\ job' = job
  BY DEF OrchConsuming, threadState
<1>4. job[t] = Orch!Idle
  BY <1>2, TypesSplit DEF OrchConsumersTyped
<1>5. OrchConsumersTyped'
  BY <1>2, <1>3, <1>4, OrchMoved DEF TopicsMove
<1>6. ThreadSteps
  BY <1>3 DEF ThreadSteps
<1> QED
  BY <1>2, <1>5, <1>6, ThreadsFollow DEF OrchMoves

LEMMA RestartMoves ==
    ASSUME TypeOK, RestartOrchestrator
    PROVE  OrchMoves
<1>1. Consumers!Resume /\ topics' = topics
  BY DEF RestartOrchestrator, Consumers!Restart, Consumers!Resume
<1>2. FaultsMove
  BY FaultsStay, OrchFaultMoves DEF RestartOrchestrator, Consumers!Restart
<1>3. ThreadSteps
  BY DEF RestartOrchestrator, ThreadSteps
<1>4. \A u \in DOMAIN OrchHandled : job'[u] = Orch!Idle
  <2>1. CASE Orch!Crash
    BY <2>1, OrchThreads DEF Orch!Crash
  <2>2. CASE (\A t \in Orch!Threads : job[t] = Orch!Idle) /\ UNCHANGED threadState
    BY <2>2, OrchThreads DEF threadState
  <2> QED
    BY <2>1, <2>2 DEF RestartOrchestrator
<1>5. OrchConsumersTyped'
  BY <1>1, <1>4, OrchResumed
<1> QED
  BY <1>1, <1>2, <1>3, <1>5, ThreadsFollow DEF OrchMoves

LEMMA OrchEffect ==
    ASSUME TypeOK, OrchNext
    PROVE  OrchMoves
<1>1. ASSUME HandleMessage PROVE OrchMoves
  <2>1. PICK t \in DOMAIN OrchHandled :
            IF t = "saga-commands" THEN HandleCommand(t) \/ HandleCommandError(t) ELSE HandleEvent(t) \/ SkipEvent(t)
    BY <1>1 DEF HandleMessage
  <2>2. CASE t = "saga-commands"
    BY <2>1, <2>2, HandlesCommand
  <2>3. CASE t # "saga-commands"
    BY <2>1, <2>3, HandlesEvent, TopicNames DEF EventTopics
  <2> QED
    BY <2>2, <2>3
<1>2. ASSUME DeadlinePasses PROVE OrchMoves
  <2>1. topics' = topics /\ TopicsMove /\ FaultsMove /\ orchLoop' = orchLoop
    BY <1>2, FaultsStay DEF DeadlinePasses, TopicsMove
  <2>2. ThreadSteps /\ job' = job
    BY <1>2 DEF DeadlinePasses, ThreadSteps, Orch!DeadlinePasses
  <2>3. OrchConsumersTyped'
    BY <2>1, <2>2, OrchUnmoved
  <2> QED
    BY <2>1, <2>2, <2>3, ThreadsFollow DEF OrchMoves
<1>3. ASSUME ConsumersProceed PROVE OrchMoves
  BY <1>1, <1>3, JobProceeds, ConsumingMoves DEF ConsumersProceed
<1>4. ASSUME WorkerProceeds \/ \E w \in Workers : WorkerError(w) /\ UNCHANGED <<orchLoop, orchSeen>> PROVE OrchMoves
  BY <1>4, WorkersMove DEF WorkerProceeds
<1> QED
  BY <1>2, <1>3, <1>4, JobFails, RestartMoves DEF OrchNext

-----------------------------------------------------------------------------
(* Types *)

LEMMA OrchTypesKept ==
    ASSUME Orch!TypeOK, Orch!Next \/ UNCHANGED threadState
    PROVE  Orch!TypeOK'
<1>1. OP!TypeOK /\ [OP!Next]_(OP!vars) => OP!TypeOK'
  BY LimitsNatural, OP!TypeStep
<1>2. (Orch!TypeOK <=> OP!TypeOK)'
  BY OrchTypes, PTL
<1>3. UNCHANGED threadState => UNCHANGED OP!vars
  BY DEF threadState, OP!vars
<1> QED
  BY <1>1, <1>2, <1>3, OrchTypes, OrchSteps

LEMMA OrchMovesTyped ==
    ASSUME TypeOK, OrchMoves, ApiStill, PaymentStill, InventoryStill
    PROVE  TypeOK'
<1>1. TopicsMove /\ FaultsTyped'
  BY DEF OrchMoves, OrchSends, TopicsMove, FaultsMove
<1>2. AC!Typed' /\ PC!Typed' /\ IC!Typed' /\ DOMAIN topics' = Topics
  BY <1>1, ApiElsewhere, PaymentElsewhere, InventoryElsewhere, TopicsMoveTyped DEF ApiStill, PaymentStill, InventoryStill
<1>3. StoresTyped'
  BY TypesSplit DEF StoresTyped, ApiStill, PaymentStill, InventoryStill
<1>4. Orch!TypeOK'
  BY TypesSplit, OrchTypesKept DEF OrchMoves
<1> QED
  BY <1>1, <1>2, <1>3, <1>4, TypesTogether DEF OrchMoves

LEMMA StillTyped ==
    ASSUME TypeOK, UNCHANGED vars
    PROVE  TypeOK'
<1>1. ApiStill /\ OrchStill /\ PaymentStill /\ InventoryStill /\ topics' = topics /\ faults' = faults
  BY DEF vars, apiState, orchState, paymentState, inventoryState, ApiStill, OrchStill, PaymentStill, InventoryStill
<1>2. TopicsMove /\ FaultsTyped'
  BY <1>1, FaultsStay DEF TopicsMove, FaultsMove
<1>3. AC!Typed' /\ PC!Typed' /\ IC!Typed' /\ DOMAIN topics' = Topics /\ OrchConsumersTyped' /\ Orch!TypeOK'
  BY <1>1, <1>2, ApiElsewhere, PaymentElsewhere, InventoryElsewhere, OrchElsewhere, TopicsMoveTyped
     DEF ApiStill, PaymentStill, InventoryStill
<1>4. StoresTyped'
  BY <1>1, TypesSplit DEF StoresTyped, ApiStill, PaymentStill, InventoryStill
<1> QED
  BY <1>2, <1>3, <1>4, TypesTogether

\* Whose step it is.
LEMMA Steps ==
    ASSUME TypeOK, [Next]_vars
    PROVE  /\ TypeOK'
           /\ \/ OrchStill /\ PaymentStill /\ InventoryStill /\ ApiMoves
              \/ ApiStill /\ PaymentStill /\ InventoryStill /\ OrchMoves
              \/ ApiStill /\ OrchStill /\ InventoryStill /\ PaymentMoves
              \/ ApiStill /\ OrchStill /\ PaymentStill /\ InventoryMoves
              \/ UNCHANGED vars
<1>1. CASE UNCHANGED <<orchState, paymentState, inventoryState>> /\ Api!Next
  <2>1. OrchStill /\ PaymentStill /\ InventoryStill
    BY <1>1 DEF OrchStill, PaymentStill, InventoryStill, orchState, paymentState, inventoryState
  <2> QED
    BY <1>1, <2>1, ApiEffect
<1>2. CASE UNCHANGED <<apiState, paymentState, inventoryState>> /\ OrchNext
  <2>1. ApiStill /\ PaymentStill /\ InventoryStill
    BY <1>2 DEF ApiStill, PaymentStill, InventoryStill, apiState, paymentState, inventoryState
  <2> QED
    BY <1>2, <2>1, OrchEffect, OrchMovesTyped
<1>3. CASE UNCHANGED <<apiState, orchState, inventoryState>> /\ Payment!Next
  <2>1. ApiStill /\ OrchStill /\ InventoryStill
    BY <1>3 DEF ApiStill, OrchStill, InventoryStill, apiState, orchState, inventoryState
  <2> QED
    BY <1>3, <2>1, PaymentEffect
<1>4. CASE UNCHANGED <<apiState, orchState, paymentState>> /\ Inventory!Next
  <2>1. ApiStill /\ OrchStill /\ PaymentStill
    BY <1>4 DEF ApiStill, OrchStill, PaymentStill, apiState, orchState, paymentState
  <2> QED
    BY <1>4, <2>1, InventoryEffect
<1>5. CASE UNCHANGED vars
  BY <1>5, StillTyped
<1> QED
  BY <1>1, <1>2, <1>3, <1>4, <1>5 DEF Next

LEMMA Initially ==
    ASSUME Init
    PROVE  /\ TypeOK
           /\ \A t \in Topics : topics[t] = <<>>
           /\ PaymentLoop.pc = "fetch" /\ InventoryLoop.pc = "fetch"
           /\ \A o \in Orders : orders[o] = "NONE" /\ payments[o] = "none"
           /\ \A t \in Orch!Threads : job[t] = Orch!Idle
           /\ writes = {}
<1>1. topics = [t \in Topics |-> <<>>] /\ topics \in [Topics -> Seq(Consumers!Messages)]
  BY DEF Init
<1>2. AC!TopicsTyped /\ PC!TopicsTyped /\ IC!TopicsTyped
  BY <1>1, TopicFacts
<1>3. faults = [all |-> 0, harmful |-> 0, untold |-> FALSE]
  BY DEF Init, Consumers!NoFaults
<1>4. FaultsTyped
  <2>1. 0 \in 0..MaxFaults /\ FALSE \in BOOLEAN /\ 0 \in Nat
    BY LimitsNatural
  <2> QED
    BY <1>3, <2>1, Zenon DEF FaultsTyped
<1>5. AC!ConsumersInit /\ PC!ConsumersInit /\ IC!ConsumersInit
  BY DEF Init, Api!Init, Payment!Init, Inventory!Init, Api!ConsumersInit, Payment!ConsumersInit,
         Inventory!ConsumersInit, AC!ConsumersInit, PC!ConsumersInit, IC!ConsumersInit, Api!StartAt, AC!StartAt,
         Payment!StartAt, PC!StartAt, Inventory!StartAt, IC!StartAt, Api!Silent, AC!Silent, Payment!Silent,
         PC!Silent, Inventory!Silent, IC!Silent
<1>6. /\ AC!Typed
      /\ PC!Typed /\ \A t \in DOMAIN PaymentHandled : paymentLoop[t].pc = "fetch"
      /\ IC!Typed /\ \A t \in DOMAIN InventoryHandled : inventoryLoop[t].pc = "fetch"
  BY <1>2, <1>4, <1>5, FaultRecordsSame, LimitsNatural, AC!InitTyped, PC!InitTyped, IC!InitTyped
<1>7. /\ orders = [o \in Orders |-> "NONE"] /\ requests = {}
      /\ payments = [o \in Orders |-> "none"] /\ reservations = {}
  BY DEF Init, Api!Init, Payment!Init, Inventory!Init
<1>8. StoresTyped
  <2>1. "NONE" \in Api!Statuses /\ "none" \in Payment!PaymentStates
    BY DEF Api!Statuses, Payment!PaymentStates
  <2> QED
    BY <1>7, <2>1 DEF StoresTyped
<1>9. job = [t \in Orch!Threads |-> Orch!Idle] /\ writes = {}
  BY DEF Init, Orch!Init
<1>10. Orch!TypeOK
  <2>1. OP!Init => OP!TypeOK
    BY LimitsNatural, OP!TypeInit
  <2> QED
    BY <2>1, OrchInits, OrchTypes DEF Init
<1>11. OrchConsumersTyped
  <2>1. orchLoop = [t \in DOMAIN OrchHandled |-> LoopOf("fetch", 0, 0, 0, {})]
    BY DEF Init, Consumers!ConsumersInit, Consumers!StartAt, LoopOf
  <2>2. LoopOf("fetch", 0, 0, 0, {}) \in OrchLoops
    <3>1. "fetch" \in OrchPcs /\ 0 \in Nat /\ 0 \in 0..HandlerRetries /\ {} \in SUBSET Orders
      BY LimitsNatural DEF OrchPcs
    <3> QED
      BY <3>1, LoopOfTyped
  <2>3. \A t \in DOMAIN OrchHandled : orchLoop[t].pc = "fetch" /\ orchLoop[t].committed = 0 /\ orchLoop[t].fetched = 0
    BY <2>1 DEF LoopOf
  <2>4. \A t \in DOMAIN OrchHandled : job[t] = Orch!Idle /\ Len(topics[t]) = 0
    BY <1>1, <1>9, OrchThreads, TopicNames
  <2> QED
    BY <2>1, <2>2, <2>3, <2>4 DEF OrchConsumersTyped
<1> QED
  BY <1>1, <1>4, <1>6, <1>7, <1>8, <1>9, <1>10, <1>11, TypesSplit, TopicNames DEF PaymentLoop, InventoryLoop

\* Topics, services and faults have their types, and the orchestrator's consumers and
\* threads agree on who is working.
THEOREM TypeCorrect == Spec => []TypeOK
<1>1. Init => TypeOK
  BY Initially
<1>2. TypeOK /\ [Next]_vars => TypeOK'
  BY Steps
<1> QED
  BY <1>1, <1>2, PTL DEF Spec

-----------------------------------------------------------------------------
(* The orchestrator among the services is the one of Orchestrator *)

LEMMA OrchStep ==
    ASSUME TypeOK, [Next]_vars
    PROVE  Orch!Next \/ UNCHANGED threadState
BY Steps DEF OrchMoves, OrchStill, vars, orchState

\* Between its consumers, fed by real services, the orchestrator does nothing that it
\* does not do on its own: all that is proved of Orchestrator holds of it here.
THEOREM OrchestratorRuns == Spec => Orch!Spec
<1>1. Init => Orch!Init
  BY DEF Init
<1>2. TypeOK /\ [Next]_vars => [Orch!Next]_(Orch!vars)
  <2>1. UNCHANGED threadState => UNCHANGED Orch!vars
    BY DEF threadState, Orch!vars
  <2> QED
    BY <2>1, OrchStep
<1> QED
  BY <1>1, <1>2, TypeCorrect, PTL DEF Spec, Orch!Spec

Known ==
    /\ Orch!OneOutcome /\ Orch!CompletionIsEarned
    /\ Orch!DiagramComplete /\ Orch!PublishedAfterPersist /\ Orch!NoLostUpdate
    /\ Orch!OnePathPerSaga /\ Orch!JobsAreSound

LEMMA KnownHolds == Spec => []Known
<1>1. OP!Spec => /\ []OP!OneOutcome /\ []OP!CompletionIsEarned /\ []OP!DiagramComplete
                 /\ []OP!PublishedAfterPersist /\ []OP!NoLostUpdate
                 /\ []OP!OnePathPerSaga /\ []OP!JobsAreSound
  <2>1. MaxRetries \in Nat /\ MaxFaults \in Nat
    BY LimitsNatural
  <2>2. OP!Spec => []OP!OneOutcome
    BY <2>1, OP!SingleOutcome, PTL
  <2>3. OP!Spec => []OP!CompletionIsEarned
    BY <2>1, OP!CompletionEarned, PTL
  <2>4. OP!Spec => []OP!DiagramComplete
    BY <2>1, OP!EdgesAreOnDiagram, PTL
  <2>5. OP!Spec => []OP!PublishedAfterPersist
    BY <2>1, OP!PersistBeforePublish, PTL
  <2>6. OP!Spec => []OP!NoLostUpdate
    BY <2>1, OP!OptimisticLocking, PTL
  <2>7. OP!Spec => []OP!OnePathPerSaga
    BY <2>1, OP!OnePath, PTL
  <2>8. OP!IInv => OP!JobsAreSound
    BY DEF OP!IInv
  <2>9. OP!Spec => []OP!JobsAreSound
    BY <2>1, <2>8, OP!Invariance, PTL
  <2> QED
    BY <2>2, <2>3, <2>4, <2>5, <2>6, <2>7, <2>9, PTL
<1>2. Init => OP!Init
  BY OrchInits DEF Init
<1>3. TypeOK /\ [Next]_vars => [OP!Next]_(OP!vars)
  <2>1. UNCHANGED threadState => UNCHANGED OP!vars
    BY DEF threadState, OP!vars
  <2> QED
    BY <2>1, OrchStep, OrchSteps
<1>4. Spec => OP!Spec
  BY <1>2, <1>3, TypeCorrect, PTL DEF Spec, OP!Spec
<1>5. /\ OP!OneOutcome /\ OP!CompletionIsEarned /\ OP!DiagramComplete /\ OP!PublishedAfterPersist
      /\ OP!NoLostUpdate /\ OP!OnePathPerSaga /\ OP!JobsAreSound
      => Known
  BY OrchOutcomes, OrchEarned, OrchDiagrams, OrchPublished, OrchUpdates, OrchPaths, OrchJobs DEF Known
<1> QED
  BY <1>1, <1>4, <1>5, PTL

-----------------------------------------------------------------------------
(* Logs only grow *)

\* At most one row is written in a step: a new one, or that of a thread's job.
LEMMA OrchWrites ==
    ASSUME TypeOK, Orch!Next \/ UNCHANGED threadState
    PROVE  /\ published \subseteq published'
           /\ \/ writes' = writes
              \/ \E s \in Orders : writes' = writes \cup {Orch!StartWrite(s)}
              \/ \E t \in Orch!Threads : job[t] # Orch!Idle /\ writes' = writes \cup {Orch!WriteOf(job[t])}
<1> DEFINE Goal == /\ published \subseteq published'
                   /\ \/ writes' = writes
                      \/ \E s \in Orders : writes' = writes \cup {Orch!StartWrite(s)}
                      \/ \E t \in Orch!Threads : job[t] # Orch!Idle /\ writes' = writes \cup {Orch!WriteOf(job[t])}
<1>1. ASSUME NEW c \in {"saga-commands"}, NEW s \in Orders, Orch!StartSaga(c, s) \/ Orch!StartSagaLosesReply(c, s)
      PROVE  Goal
  BY <1>1 DEF Orch!StartSaga, Orch!StartSagaLosesReply, Orch!InsertRow
<1>2. ASSUME NEW c, NEW s, NEW event, Orch!HandleEvent(c, s, event) PROVE Goal
  BY <1>2 DEF Orch!HandleEvent, Orch!stored
<1>3. ASSUME NEW w \in Workers, Orch!CheckTimeouts(w) \/ Orch!ProcessSaga(w) PROVE Goal
  BY <1>3 DEF Orch!CheckTimeouts, Orch!ProcessSaga, Orch!RetrySaga, Orch!ExhaustSaga, Orch!Take, Orch!stored
<1>4. ASSUME NEW t \in Orch!Threads, Orch!Step(t) \/ Orch!UpdateError(t) PROVE Goal
  <2>1. job[t] # Orch!Idle
    BY <1>4, JobTypes DEF Orch!Step, Orch!UpdateError, Orch!UpdateSaga, Orch!SkipModified, Orch!RecordHistory, Orch!Publish
  <2>2. writes' = writes \/ writes' = writes \cup {Orch!WriteOf(job[t])}
    BY <1>4 DEF Orch!Step, Orch!UpdateError, Orch!UpdateSaga, Orch!SkipModified, Orch!RecordHistory, Orch!Publish,
                Orch!UpdateRow, Orch!stored
  <2>3. published \subseteq published'
    BY <1>4 DEF Orch!Step, Orch!UpdateError, Orch!UpdateSaga, Orch!SkipModified, Orch!RecordHistory, Orch!Publish
  <2> QED
    BY <2>1, <2>2, <2>3
<1>5. ASSUME NEW s \in Orders, Orch!DeadlinePasses(s) PROVE Goal
  BY <1>5 DEF Orch!DeadlinePasses
<1>6. ASSUME Orch!Crash PROVE Goal
  BY <1>6 DEF Orch!Crash, Orch!stored
<1>7. ASSUME UNCHANGED threadState PROVE Goal
  BY <1>7 DEF threadState
<1> QED
  BY <1>1, <1>2, <1>3, <1>4, <1>5, <1>6, <1>7 DEF Orch!Next

\* What was written to a topic stays there.
LEMMA WrittenKept ==
    ASSUME TypeOK, TopicsMove
    PROVE  /\ \A t \in Topics : \A type, o : Written(t, type, o) => Written(t, type, o)'
           /\ \A event, o : Heard(event, o) => Heard(event, o)'
<1>1. ASSUME NEW t \in Topics, NEW type, NEW o, Written(t, type, o)
      PROVE  Written(t, type, o)'
  BY <1>1, TopicsMoveTyped DEF Written
<1>2. "payment-events" \in Topics /\ "inventory-events" \in Topics /\ "saga-commands" \in Topics
  BY TopicNames
<1> QED
  BY <1>1, <1>2 DEF Heard, Orch!PaymentEvents, Orch!InventoryEvents

\* What is new in a topic is the message that was sent.
LEMMA WrittenNew ==
    ASSUME TypeOK, NEW m \in Outs, Grown(m), NEW t \in Topics, NEW i \in DOMAIN topics'[t]
    PROVE  \/ i \in DOMAIN topics[t] /\ topics'[t][i] = topics[t][i]
           \/ /\ t = m.topic /\ topics'[t][i].type = m.type /\ topics'[t][i].order = m.order
              /\ topics'[t][i].id = Len(topics[t]) + 1
<1>1. PC!TopicsTyped /\ DOMAIN topics = Topics
  BY TopicFacts DEF TypeOK
<1>2. topics[t] \in Seq(PC!Messages) /\ Len(topics[t]) \in Nat /\ DOMAIN topics[t] = 1..Len(topics[t])
  BY <1>1 DEF PC!TopicsTyped
<1>3. topics'[t] \in Seq(PC!Messages) /\ i \in 1..Len(topics'[t]) /\ Len(topics'[t]) \in Nat
  BY <1>1 DEF Grown, PC!Grown
<1>4. CASE t # m.topic
  BY <1>1, <1>4 DEF Grown, PC!Grown
<1>5. CASE t = m.topic
  <2>1. topics'[t][i] = IF i <= Len(topics[t]) THEN topics[t][i]
                        ELSE [id |-> Len(topics[t]) + 1, type |-> m.type, order |-> m.order]
    BY <1>5 DEF Grown, PC!Grown
  <2>2. CASE i <= Len(topics[t])
    BY <1>2, <1>3, <2>1, <2>2
  <2>3. CASE ~(i <= Len(topics[t]))
    BY <1>5, <2>1, <2>3
  <2> QED
    BY <2>2, <2>3
<1> QED
  BY <1>4, <1>5

LEMMA WrittenThen ==
    ASSUME TypeOK, NEW m \in Outs, Grown(m), NEW t \in Topics, NEW type, NEW o, Written(t, type, o)'
    PROVE  Written(t, type, o) \/ (t = m.topic /\ type = m.type /\ o = m.order)
BY WrittenNew DEF Written

LEMMA WrittenStill ==
    ASSUME topics' = topics
    PROVE  \A t, type, o : Written(t, type, o)' <=> Written(t, type, o)
BY DEF Written

-----------------------------------------------------------------------------
(* The invariant, conjunct by conjunct *)

SentIn(log, o, type) == \E m \in log : m.saga = o /\ m.type = type

LEMMA SentThen ==
    ASSUME TypeOK, [Next]_vars
    PROVE  /\ published \subseteq published'
           /\ \A o, type : SentIn(published, o, type) => SentIn(published', o, type)
           /\ \A o, type : Orch!Sent(o, type) <=> SentIn(published, o, type)
           /\ \A o, type : Orch!Deliverable(o, type) <=> SentIn(published, o, Orch!AnswerTo(type))
BY OrchStep, OrchWrites DEF SentIn, Orch!Sent, Orch!Deliverable

LEMMA EventNames ==
    /\ Orch!AnswerTo("PaymentReserved") = "ReservePayment" /\ Orch!AnswerTo("PaymentFailed") = "ReservePayment"
    /\ Orch!AnswerTo("PaymentCancelled") = "CancelPayment"
    /\ Orch!AnswerTo("InventoryReserved") = "ReserveInventory"
    /\ Orch!AnswerTo("InventoryFailed") = "ReserveInventory"
BY DEF Orch!AnswerTo, Orch!InventoryEvents

LEMMA InHandFacts ==
    /\ AnswersInHand <=>
          /\ PaymentLoop.pc = "publish" => /\ PaymentLoop.out.topic = "payment-events"
                                           /\ Orch!Deliverable(PaymentLoop.out.order, PaymentLoop.out.type)
          /\ InventoryLoop.pc = "publish" => /\ InventoryLoop.out.topic = "inventory-events"
                                             /\ Orch!Deliverable(InventoryLoop.out.order, InventoryLoop.out.type)
BY TopicNames DEF AnswersInHand, PaymentLoop, InventoryLoop

\* A message comes from order-api, the orchestrator, or the participant that had it in hand.
Origin(m) ==
    \/ \E o \in Orders : m = Start(o)
    \/ m.topic \in OrchTopics /\ SentIn(published', m.order, m.type)
    \/ PaymentLoop.pc = "publish" /\ m = PaymentLoop.out
    \/ InventoryLoop.pc = "publish" /\ m = InventoryLoop.out

LEMMA Growth ==
    ASSUME TypeOK, [Next]_vars
    PROVE  /\ topics' = topics \/ \E m \in Outs : Grown(m) /\ Origin(m)
           /\ TopicsMove
<1>1. ASSUME ApiMoves PROVE topics' = topics \/ \E m \in Outs : Grown(m) /\ Origin(m)
  <2>1. requests \subseteq Orders
    BY TypesSplit DEF StoresTyped
  <2> QED
    BY <1>1, <2>1, MessagesTyped DEF ApiMoves, Origin
<1>2. ASSUME OrchMoves PROVE topics' = topics \/ \E m \in Outs : Grown(m) /\ Origin(m)
  <2>1. CASE topics' = topics
    BY <2>1
  <2>2. CASE OrchSends
    <3>1. PICK m \in Outs, t \in Orch!Threads :
              /\ Grown(m) /\ m.topic \in OrchTopics /\ job[t].saga = m.order /\ job[t].action = m.type
              /\ published' = published \cup {Orch!Message(job[t])}
      BY <2>2 DEF OrchSends
    <3>2. Orch!Message(job[t]).saga = m.order /\ Orch!Message(job[t]).type = m.type
      BY <3>1 DEF Orch!Message
    <3>3. SentIn(published', m.order, m.type)
      BY <3>1, <3>2 DEF SentIn
    <3> QED
      BY <3>1, <3>3 DEF Origin
  <2> QED
    BY <1>2, <2>1, <2>2 DEF OrchMoves
<1>3. ASSUME PaymentMoves PROVE topics' = topics \/ \E m \in Outs : Grown(m) /\ Origin(m)
  BY <1>3 DEF PaymentMoves, PaymentAnswers, PaymentProceeds, PaymentForgets, Origin
<1>4. ASSUME InventoryMoves PROVE topics' = topics \/ \E m \in Outs : Grown(m) /\ Origin(m)
  BY <1>4 DEF InventoryMoves, InventoryAnswers, InventoryProceeds, InventoryForgets, Origin
<1>5. topics' = topics \/ \E m \in Outs : Grown(m) /\ Origin(m)
  BY <1>1, <1>2, <1>3, <1>4, Steps DEF vars
<1> QED
  BY <1>5 DEF TopicsMove

\* Where a new message can have come from, by its topic.
LEMMA OriginByTopic ==
    ASSUME AnswersInHand, NEW m, Origin(m)
    PROVE  /\ m.topic \in OrchTopics => SentIn(published', m.order, m.type)
           /\ m.topic = "payment-events" =>
                  /\ PaymentLoop.pc = "publish" /\ m = PaymentLoop.out
                  /\ Orch!Deliverable(m.order, m.type)
           /\ m.topic = "inventory-events" =>
                  /\ InventoryLoop.pc = "publish" /\ m = InventoryLoop.out
                  /\ Orch!Deliverable(m.order, m.type)
BY InHandFacts DEF Origin, OrchTopics, Start

LEMMA CommandsStep ==
    ASSUME TypeOK, AnswersInHand, CommandsArePublished, [Next]_vars
    PROVE  CommandsArePublished'
<1> SUFFICES ASSUME NEW t \in OrchTopics, NEW i \in DOMAIN topics'[t]
             PROVE  SentIn(published', topics'[t][i].order, topics'[t][i].type)
  BY DEF CommandsArePublished, OrchTopics, SentIn, Orch!Sent
<1>1. t \in Topics
  BY TopicNames DEF OrchTopics
<1>2. CASE i \in DOMAIN topics[t] /\ topics'[t][i] = topics[t][i]
  <2>1. Orch!Sent(topics[t][i].order, topics[t][i].type)
    BY <1>2 DEF CommandsArePublished, OrchTopics
  <2> QED
    BY <1>2, <2>1, SentThen
<1>3. CASE \E m \in Outs : Origin(m) /\ t = m.topic /\ topics'[t][i].type = m.type /\ topics'[t][i].order = m.order
  BY <1>3, OriginByTopic
<1> QED
  BY <1>1, <1>2, <1>3, Growth, WrittenNew

LEMMA AnswersStep ==
    ASSUME TypeOK, AnswersInHand, AnswersAreSolicited, [Next]_vars
    PROVE  AnswersAreSolicited'
<1> SUFFICES ASSUME NEW t \in EventTopics, NEW i \in DOMAIN topics'[t]
             PROVE  SentIn(published', topics'[t][i].order, Orch!AnswerTo(topics'[t][i].type))
  BY DEF AnswersAreSolicited, SentIn, Orch!Deliverable
<1>1. t \in Topics /\ t \in {"payment-events", "inventory-events"}
  BY TopicNames DEF EventTopics
<1>2. CASE i \in DOMAIN topics[t] /\ topics'[t][i] = topics[t][i]
  <2>1. Orch!Deliverable(topics[t][i].order, topics[t][i].type)
    BY <1>2 DEF AnswersAreSolicited
  <2> QED
    BY <1>2, <2>1, SentThen
<1>3. CASE \E m \in Outs : Origin(m) /\ t = m.topic /\ topics'[t][i].type = m.type /\ topics'[t][i].order = m.order
  <2>1. PICK m \in Outs : Origin(m) /\ t = m.topic /\ topics'[t][i].type = m.type /\ topics'[t][i].order = m.order
    BY <1>3
  <2>2. Orch!Deliverable(m.order, m.type)
    BY <1>1, <2>1, OriginByTopic
  <2> QED
    BY <2>1, <2>2, SentThen
<1> QED
  BY <1>1, <1>2, <1>3, Growth, WrittenNew

\* A command in a topic was published.
LEMMA CommandPublished ==
    ASSUME CommandsArePublished, NEW t \in OrchTopics, NEW type, NEW o, Written(t, type, o)
    PROVE  Orch!Sent(o, type)
BY DEF CommandsArePublished, OrchTopics, Written

LEMMA InHandStep ==
    ASSUME TypeOK, CommandsArePublished, AnswersInHand, [Next]_vars
    PROVE  AnswersInHand'
<1>1. ASSUME PaymentLoop'.pc = "publish"
      PROVE  PaymentLoop'.out.topic = "payment-events" /\ SentIn(published', PaymentLoop'.out.order, Orch!AnswerTo(PaymentLoop'.out.type))
  <2>1. CASE PaymentLoop' = PaymentLoop
    BY <1>1, <2>1, InHandFacts, SentThen
  <2>2. ASSUME NEW type \in {"PaymentReserved", "PaymentFailed", "PaymentCancelled"}, NEW o \in Orders, PaymentAnswers(type, o)
        PROVE  /\ PaymentLoop'.out.topic = "payment-events"
               /\ SentIn(published', PaymentLoop'.out.order, Orch!AnswerTo(PaymentLoop'.out.type))
    <3>1. PaymentLoop'.out.topic = "payment-events" /\ PaymentLoop'.out.order = o /\ PaymentLoop'.out.type = type
      BY <2>2 DEF PaymentAnswers, PaymentAnswer
    <3>2. Orch!Sent(o, Orch!AnswerTo(type))
      BY <2>2, CommandPublished DEF PaymentAnswers, OrchTopics
    <3>3. Orch!Deliverable(o, type)
      BY <3>2 DEF Orch!Sent, Orch!Deliverable
    <3> QED
      BY <3>1, <3>3, SentThen
  <2>3. PaymentLoop' = PaymentLoop \/ PaymentMoves
    BY Steps DEF PaymentStill, PaymentLoop, vars, paymentState
  <2> QED
    BY <1>1, <2>1, <2>2, <2>3 DEF PaymentMoves, PaymentProceeds, PaymentForgets
<1>2. ASSUME InventoryLoop'.pc = "publish"
      PROVE  /\ InventoryLoop'.out.topic = "inventory-events"
             /\ SentIn(published', InventoryLoop'.out.order, Orch!AnswerTo(InventoryLoop'.out.type))
  <2>1. CASE InventoryLoop' = InventoryLoop
    BY <1>2, <2>1, InHandFacts, SentThen
  <2>2. ASSUME NEW type \in {"InventoryReserved", "InventoryFailed"}, NEW o \in Orders, InventoryAnswers(type, o)
        PROVE  /\ InventoryLoop'.out.topic = "inventory-events"
               /\ SentIn(published', InventoryLoop'.out.order, Orch!AnswerTo(InventoryLoop'.out.type))
    <3>1. InventoryLoop'.out.topic = "inventory-events" /\ InventoryLoop'.out.order = o /\ InventoryLoop'.out.type = type
      BY <2>2 DEF InventoryAnswers, InventoryAnswer
    <3>2. Orch!Sent(o, Orch!AnswerTo(type))
      BY <2>2, CommandPublished, EventNames DEF InventoryAnswers, OrchTopics
    <3>3. Orch!Deliverable(o, type)
      BY <3>2 DEF Orch!Sent, Orch!Deliverable
    <3> QED
      BY <3>1, <3>3, SentThen
  <2>3. InventoryLoop' = InventoryLoop \/ InventoryMoves
    BY Steps DEF InventoryStill, InventoryLoop, vars, inventoryState
  <2> QED
    BY <1>2, <2>1, <2>2, <2>3 DEF InventoryMoves, InventoryProceeds, InventoryForgets
<1>3. (AnswersInHand <=>
          /\ PaymentLoop.pc = "publish" => /\ PaymentLoop.out.topic = "payment-events"
                                           /\ Orch!Deliverable(PaymentLoop.out.order, PaymentLoop.out.type)
          /\ InventoryLoop.pc = "publish" => /\ InventoryLoop.out.topic = "inventory-events"
                                             /\ Orch!Deliverable(InventoryLoop.out.order, InventoryLoop.out.type))'
  BY InHandFacts, PTL
<1> QED
  BY <1>1, <1>2, <1>3 DEF SentIn, Orch!Deliverable

LEMMA OutcomesStep ==
    ASSUME TypeOK, CommandsArePublished, OutcomesAreTold, [Next]_vars
    PROVE  OutcomesAreTold'
<1> SUFFICES ASSUME NEW o \in Orders
             PROVE  /\ orders'[o] = "CONFIRMED" => SentIn(published', o, "SagaCompleted")
                    /\ orders'[o] = "CANCELLED" => SentIn(published', o, "SagaFailed")
  BY DEF OutcomesAreTold, SentIn, Orch!Sent
<1>1. OrderMoves(o)
  BY Steps DEF ApiMoves, OrderMoves, ApiStill, vars, apiState
<1>2. \A type : Written("saga-events", type, o) => Orch!Sent(o, type)
  BY CommandPublished DEF OrchTopics
<1> QED
  BY <1>1, <1>2, SentThen DEF OrderMoves, OutcomesAreTold

\* What a job wrote: an entry into the inventory step was made on PaymentReserved, or
\* replaced a row of that step, which another write had made.
LEMMA EntryHeard ==
    ASSUME TypeOK, TypeOK', Known', EventsAreHeard, NEW w \in writes', w \notin writes,
           \A v \in writes' \ writes : v = w, Heard(w.event, w.saga), w.to = "INVENTORY_PENDING", w.updatedAt > 0
    PROVE  Written("payment-events", "PaymentReserved", w.saga)
<1>1. writes' \subseteq Orch!Writes
  BY DEF TypeOK, Orch!TypeOK
<1>2. w.updatedAt \in Nat
  BY <1>1 DEF Orch!Writes
<1>3. CASE w.from # w.to
  <2>1. Orch!Edge(w.from, w.to, w.event) \in Orch!DiagramTransitions
    BY <1>3 DEF Known, Orch!DiagramComplete
  <2>2. \A e \in Orch!DiagramTransitions : e.to = "INVENTORY_PENDING" => e.event = "PaymentReserved"
    BY DEF Orch!Edge, Orch!DiagramTransitions
  <2>3. w.event = "PaymentReserved"
    BY <2>1, <2>2 DEF Orch!Edge
  <2> QED
    BY <2>3 DEF Heard, Orch!PaymentEvents
<1>4. CASE w.from = w.to
  <2>1. PICK v \in writes' : v.saga = w.saga /\ v.updatedAt + 1 = w.updatedAt /\ v.to = w.from
    BY <1>4 DEF Known, Orch!NoLostUpdate
  <2>2. v.updatedAt \in Nat
    BY <1>1 DEF Orch!Writes
  <2>3. v # w
    BY <1>2, <2>1, <2>2
  <2> QED
    BY <1>4, <2>1, <2>3 DEF EventsAreHeard
<1> QED
  BY <1>3, <1>4

LEMMA EventsStep ==
    ASSUME TypeOK, Known', EventsAreHeard, [Next]_vars
    PROVE  EventsAreHeard'
<1>1. TypeOK' /\ TopicsMove
  BY Steps, Growth
<1>2. \A event, o : Heard(event, o) => Heard(event, o)'
  BY <1>1, WrittenKept
<1>3. \A o : Written("payment-events", "PaymentReserved", o) => Written("payment-events", "PaymentReserved", o)'
  <2>1. "payment-events" \in Topics
    BY TopicNames
  <2> QED
    BY <1>1, <2>1, WrittenKept
<1>4. ASSUME NEW t \in Orch!Threads, job'[t] # Orch!Idle
      PROVE  Heard(job'[t].event, job'[t].saga)
  <2>1. CASE job' = job
    BY <1>4, <2>1 DEF EventsAreHeard
  <2>2. CASE JobsFollow
    BY <1>4, <2>2 DEF EventsAreHeard, JobsFollow
  <2>3. job' = job \/ JobsFollow
    BY Steps DEF OrchStill, OrchMoves, vars, orchState, threadState
  <2> QED
    BY <2>1, <2>2, <2>3
<1>5. ASSUME NEW w \in writes'
      PROVE  /\ Heard(w.event, w.saga)
             /\ w.to = "INVENTORY_PENDING" => Written("payment-events", "PaymentReserved", w.saga)
  <2>1. CASE w \in writes
    BY <2>1 DEF EventsAreHeard
  <2>2. ASSUME NEW s \in Orders, w = Orch!StartWrite(s)
        PROVE  w.to # "INVENTORY_PENDING"
    BY <2>2 DEF Orch!StartWrite
  <2>3. ASSUME NEW t \in Orch!Threads, job[t] # Orch!Idle, writes' = writes \cup {Orch!WriteOf(job[t])},
               w = Orch!WriteOf(job[t]), w \notin writes
        PROVE  w.to = "INVENTORY_PENDING" => Written("payment-events", "PaymentReserved", w.saga)
    <3>1. job[t].updatedAt \in Nat
      BY <2>3, JobTypes DEF Orch!Jobs
    <3>2. w.event = job[t].event /\ w.saga = job[t].saga /\ w.updatedAt > 0
      BY <2>3, <3>1 DEF Orch!WriteOf
    <3>3. Heard(w.event, w.saga)
      BY <2>3, <3>2 DEF EventsAreHeard
    <3>4. \A v \in writes' \ writes : v = w
      BY <2>3
    <3> QED
      BY <1>1, <2>3, <3>2, <3>3, <3>4, EntryHeard
  <2>4. ASSUME w \notin writes
        PROVE  Heard(w.event, w.saga)
    <3>1. writes' = writes \/ WritesFollow
      BY Steps DEF OrchStill, OrchMoves, vars, orchState, threadState
    <3>2. Heard(w.event, w.saga) \/ \E t \in Orch!Threads : job[t] # Orch!Idle /\ w = Orch!WriteOf(job[t])
      BY <2>4, <3>1 DEF WritesFollow
    <3> QED
      BY <3>2 DEF EventsAreHeard, Orch!WriteOf
  <2> QED
    BY <2>1, <2>2, <2>3, <2>4, OrchStep, OrchWrites
<1>6. ASSUME NEW t \in Orch!Threads, job'[t] # Orch!Idle
      PROVE  \E e, o : e = job'[t].event /\ o = job'[t].saga /\ Heard(e, o)'
  BY <1>2, <1>4, <1>6
<1>7. ASSUME NEW w \in writes'
      PROVE  /\ Heard(w.event, w.saga)'
             /\ w.to = "INVENTORY_PENDING" => Written("payment-events", "PaymentReserved", w.saga)'
  BY <1>2, <1>3, <1>5
<1> QED
  BY <1>6, <1>7 DEF EventsAreHeard, Heard, Written

\* What the stores tell of an order.
TellsOf(o) ==
    /\ Written("payment-events", "PaymentReserved", o) => payments[o] # "none"
    /\ Written("inventory-events", "InventoryReserved", o) => o \in reservations
    /\ payments[o] = "released" => SentIn(published, o, "CancelPayment")
    /\ PaymentLoop.pc = "publish" /\ PaymentLoop.out.type = "PaymentReserved" /\ PaymentLoop.out.order = o =>
           payments[o] # "none"
    /\ InventoryLoop.pc = "publish" /\ InventoryLoop.out.type = "InventoryReserved" /\ InventoryLoop.out.order = o =>
           o \in reservations

LEMMA StoresAre == StoresTell <=> \A o \in Orders : TellsOf(o)
BY TopicNames DEF StoresTell, TellsOf, PaymentLoop, InventoryLoop, SentIn, Orch!Sent

\* What payment-service does to an order, and inventory-service.
LEMMA StoresMove ==
    ASSUME TypeOK, CommandsArePublished, [Next]_vars, faults'.harmful = 0, NEW o \in Orders
    PROVE  /\ faults.harmful = 0
           /\ payments[o] # "none" => payments'[o] # "none"
           /\ payments'[o] = "released" => payments[o] = "released" \/ SentIn(published, o, "CancelPayment")
           /\ o \in reservations => o \in reservations'
           /\ PaymentLoop'.pc = "publish" =>
                  \/ PaymentLoop' = PaymentLoop
                  \/ PaymentLoop'.out.type = "PaymentReserved" /\ PaymentLoop'.out.order = o => payments'[o] # "none"
           /\ InventoryLoop'.pc = "publish" =>
                  \/ InventoryLoop' = InventoryLoop
                  \/ InventoryLoop'.out.type = "InventoryReserved" /\ InventoryLoop'.out.order = o => o \in reservations'
<1> DEFINE Goal ==
               /\ faults.harmful = 0
               /\ payments[o] # "none" => payments'[o] # "none"
               /\ payments'[o] = "released" => payments[o] = "released" \/ SentIn(published, o, "CancelPayment")
               /\ o \in reservations => o \in reservations'
               /\ PaymentLoop'.pc = "publish" =>
                      \/ PaymentLoop' = PaymentLoop
                      \/ PaymentLoop'.out.type = "PaymentReserved" /\ PaymentLoop'.out.order = o => payments'[o] # "none"
               /\ InventoryLoop'.pc = "publish" =>
                      \/ InventoryLoop' = InventoryLoop
                      \/ InventoryLoop'.out.type = "InventoryReserved" /\ InventoryLoop'.out.order = o => o \in reservations'
<1>1. faults.harmful \in Nat /\ payments \in [Orders -> Payment!PaymentStates] /\ (FaultsMove => faults.harmful = 0)
  BY TypesSplit DEF FaultsTyped, StoresTyped, FaultsMove
<1>2. /\ PaymentStill => payments' = payments /\ PaymentLoop' = PaymentLoop
      /\ InventoryStill => reservations' = reservations /\ InventoryLoop' = InventoryLoop
  BY DEF PaymentStill, InventoryStill, PaymentLoop, InventoryLoop
<1>3. CASE PaymentStill /\ InventoryStill /\ FaultsMove
  BY <1>1, <1>2, <1>3
<1>4. CASE InventoryStill /\ PaymentMoves
  <2>1. ASSUME NEW type \in {"PaymentReserved", "PaymentFailed", "PaymentCancelled"}, NEW p \in Orders, PaymentAnswers(type, p)
        PROVE  Goal
    <3>1. PaymentLoop'.out.type = type /\ PaymentLoop'.out.order = p /\ faults' = faults
      BY <2>1 DEF PaymentAnswers, PaymentAnswer
    <3>2. type = "PaymentCancelled" => SentIn(published, p, "CancelPayment")
      BY <2>1, CommandPublished, EventNames DEF PaymentAnswers, OrchTopics, SentIn, Orch!Sent
    <3>3. CASE p # o
      BY <1>2, <1>4, <2>1, <3>1, <3>3 DEF PaymentAnswers
    <3>4. CASE p = o
      BY <1>2, <1>4, <2>1, <3>1, <3>2, <3>4 DEF PaymentAnswers, Payment!AfterDelete
    <3> QED
      BY <3>3, <3>4
  <2>2. ASSUME PaymentProceeds PROVE Goal
    BY <1>1, <1>2, <1>4, <2>2 DEF PaymentProceeds
  <2>3. ASSUME PaymentForgets PROVE FALSE
    BY <1>1, <2>3 DEF PaymentForgets
  <2> QED
    BY <1>4, <2>1, <2>2, <2>3 DEF PaymentMoves
<1>5. CASE PaymentStill /\ InventoryMoves
  <2>1. ASSUME NEW type \in {"InventoryReserved", "InventoryFailed"}, NEW p \in Orders, InventoryAnswers(type, p)
        PROVE  Goal
    <3>1. InventoryLoop'.out.type = type /\ InventoryLoop'.out.order = p /\ faults' = faults
      BY <2>1 DEF InventoryAnswers, InventoryAnswer
    <3> QED
      BY <1>2, <1>5, <2>1, <3>1 DEF InventoryAnswers
  <2>2. ASSUME InventoryProceeds PROVE Goal
    BY <1>1, <1>2, <1>5, <2>2 DEF InventoryProceeds
  <2>3. ASSUME InventoryForgets PROVE FALSE
    BY <1>1, <2>3 DEF InventoryForgets
  <2> QED
    BY <1>5, <2>1, <2>2, <2>3 DEF InventoryMoves
<1>6. CASE UNCHANGED vars
  BY <1>6 DEF vars, paymentState, inventoryState, PaymentLoop, InventoryLoop
<1> QED
  BY <1>3, <1>4, <1>5, <1>6, Steps DEF ApiMoves, OrchMoves

LEMMA StoresStep ==
    ASSUME TypeOK, CommandsArePublished, AnswersInHand, faults.harmful = 0 => StoresTell, [Next]_vars, faults'.harmful = 0
    PROVE  StoresTell'
<1> SUFFICES ASSUME NEW o \in Orders PROVE TellsOf(o)'
  <2>1. (StoresTell <=> \A o \in Orders : TellsOf(o))'
    BY StoresAre, PTL
  <2> QED
    BY <2>1
<1>1. /\ faults.harmful = 0
      /\ payments[o] # "none" => payments'[o] # "none"
      /\ payments'[o] = "released" => payments[o] = "released" \/ SentIn(published, o, "CancelPayment")
      /\ o \in reservations => o \in reservations'
      /\ PaymentLoop'.pc = "publish" =>
             \/ PaymentLoop' = PaymentLoop
             \/ PaymentLoop'.out.type = "PaymentReserved" /\ PaymentLoop'.out.order = o => payments'[o] # "none"
      /\ InventoryLoop'.pc = "publish" =>
             \/ InventoryLoop' = InventoryLoop
             \/ InventoryLoop'.out.type = "InventoryReserved" /\ InventoryLoop'.out.order = o => o \in reservations'
  BY StoresMove
<1>2. TellsOf(o)
  BY <1>1, StoresAre
<1>3. "payment-events" \in Topics /\ "inventory-events" \in Topics
  BY TopicNames
<1>4. ASSUME Written("payment-events", "PaymentReserved", o)' PROVE payments'[o] # "none"
  <2>1. CASE Written("payment-events", "PaymentReserved", o)
    BY <1>1, <1>2, <2>1 DEF TellsOf
  <2>2. ASSUME NEW m \in Outs, Origin(m), m.topic = "payment-events", m.type = "PaymentReserved", m.order = o
        PROVE  payments[o] # "none"
    BY <1>2, <2>2, OriginByTopic DEF TellsOf
  <2>3. Written("payment-events", "PaymentReserved", o) \/ \E m \in Outs :
            Origin(m) /\ m.topic = "payment-events" /\ m.type = "PaymentReserved" /\ m.order = o
    BY <1>3, <1>4, Growth, WrittenThen, WrittenStill
  <2> QED
    BY <1>1, <2>1, <2>2, <2>3
<1>5. ASSUME Written("inventory-events", "InventoryReserved", o)' PROVE o \in reservations'
  <2>1. CASE Written("inventory-events", "InventoryReserved", o)
    BY <1>1, <1>2, <2>1 DEF TellsOf
  <2>2. ASSUME NEW m \in Outs, Origin(m), m.topic = "inventory-events", m.type = "InventoryReserved", m.order = o
        PROVE  o \in reservations
    BY <1>2, <2>2, OriginByTopic DEF TellsOf
  <2>3. Written("inventory-events", "InventoryReserved", o) \/ \E m \in Outs :
            Origin(m) /\ m.topic = "inventory-events" /\ m.type = "InventoryReserved" /\ m.order = o
    BY <1>3, <1>5, Growth, WrittenThen, WrittenStill
  <2> QED
    BY <1>1, <2>1, <2>2, <2>3
<1>6. payments'[o] = "released" => SentIn(published', o, "CancelPayment")
  BY <1>1, <1>2, SentThen DEF TellsOf
<1>7. PaymentLoop'.pc = "publish" /\ PaymentLoop'.out.type = "PaymentReserved" /\ PaymentLoop'.out.order = o =>
          payments'[o] # "none"
  BY <1>1, <1>2 DEF TellsOf
<1>8. InventoryLoop'.pc = "publish" /\ InventoryLoop'.out.type = "InventoryReserved" /\ InventoryLoop'.out.order = o =>
          o \in reservations'
  BY <1>1, <1>2 DEF TellsOf
<1> QED
  BY <1>4, <1>5, <1>6, <1>7, <1>8 DEF TellsOf

-----------------------------------------------------------------------------
(* The theorems *)

LEMMA InvInit == Init => TraceInv
<1> SUFFICES ASSUME Init PROVE TraceInv
  OBVIOUS
<1>1. /\ TypeOK /\ \A t \in Topics : topics[t] = <<>>
      /\ PaymentLoop.pc = "fetch" /\ InventoryLoop.pc = "fetch"
      /\ \A o \in Orders : orders[o] = "NONE" /\ payments[o] = "none"
      /\ \A t \in Orch!Threads : job[t] = Orch!Idle
      /\ writes = {}
  BY Initially
<1>2. \A t \in Topics : DOMAIN topics[t] = {}
  BY <1>1
<1>3. CommandsArePublished /\ AnswersAreSolicited
  BY <1>2, TopicNames DEF CommandsArePublished, AnswersAreSolicited, EventTopics
<1>4. AnswersInHand
  BY <1>1, InHandFacts
<1>5. OutcomesAreTold /\ EventsAreHeard
  BY <1>1 DEF OutcomesAreTold, EventsAreHeard
<1>6. StoresTell
  BY <1>1, <1>2, TopicNames, StoresAre DEF TellsOf, Written
<1> QED
  BY <1>1, <1>3, <1>4, <1>5, <1>6 DEF TraceInv

LEMMA InvStep == Known' /\ TraceInv /\ [Next]_vars => TraceInv'
<1> SUFFICES ASSUME Known', TraceInv, [Next]_vars PROVE TraceInv'
  OBVIOUS
<1>1. /\ TypeOK /\ CommandsArePublished /\ AnswersAreSolicited /\ AnswersInHand /\ OutcomesAreTold
      /\ EventsAreHeard /\ (faults.harmful = 0 => StoresTell)
  BY DEF TraceInv
<1>2. TypeOK'
  BY <1>1, Steps
<1>3. CommandsArePublished' /\ AnswersAreSolicited' /\ AnswersInHand' /\ OutcomesAreTold'
  BY <1>1, CommandsStep, AnswersStep, InHandStep, OutcomesStep
<1>4. EventsAreHeard'
  BY <1>1, EventsStep
<1>5. faults'.harmful = 0 => StoresTell'
  BY <1>1, StoresStep
<1> QED
  BY <1>2, <1>3, <1>4, <1>5 DEF TraceInv

\* Every step of one service leaves its trace in what the next one reads: the facts about
\* topics, stores and rows that together are inductive, given what is proved of the
\* orchestrator alone.
LEMMA TraceHolds == Spec => []TraceInv
<1>1. Init => TraceInv
  BY InvInit
<1>2. Known' /\ TraceInv /\ [Next]_vars => TraceInv'
  BY InvStep
<1> QED
  BY <1>1, <1>2, KnownHolds, PTL DEF Spec

\* No event is ever in a topic without its command having been published, whichever
\* faults the participants and the writers show: what Orchestrator supposes of its
\* environment is so.
THEOREM EventsAreAnswers == Spec => []AnswersAreSolicited
BY TraceHolds, PTL DEF TraceInv

LEMMA ResultsAgree ==
    ASSUME TraceInv, Known
    PROVE  OrderAgreesWithSaga
<1> SUFFICES ASSUME NEW o \in Orders
             PROVE  /\ orders[o] = "CONFIRMED" => sagas[o].state = "COMPLETED"
                    /\ orders[o] = "CANCELLED" => sagas[o].state = "FAILED"
  BY DEF OrderAgreesWithSaga
<1>1. ASSUME NEW type \in {"SagaCompleted", "SagaFailed"}, Orch!Sent(o, type)
      PROVE  type = Orch!MessageFor(sagas[o].state) /\ sagas[o] \in Orch!Rows
  <2>1. PICK m \in published : m.saga = o /\ m.type = type
    BY <1>1 DEF Orch!Sent
  <2>2. m.type = Orch!MessageFor(sagas[m.saga].state)
    BY <2>1 DEF Known, Orch!OneOutcome, Orch!TerminalEvents
  <2>3. PICK w \in writes : w.saga = o
    BY <2>1 DEF Known, Orch!PublishedAfterPersist
  <2>4. sagas[o] # Orch!NoSaga
    BY <2>3 DEF Known, Orch!NoLostUpdate, Orch!Exists
  <2>5. sagas[o] \in Orch!Rows
    BY <2>4 DEF TraceInv, TypeOK, Orch!TypeOK
  <2> QED
    BY <2>1, <2>2, <2>5
<1>2. ASSUME NEW row \in Orch!Rows
      PROVE  /\ Orch!MessageFor(row.state) = "SagaCompleted" => row.state = "COMPLETED"
             /\ Orch!MessageFor(row.state) = "SagaFailed" => row.state = "FAILED"
  <2>1. row.state \in {"PAYMENT_PENDING", "INVENTORY_PENDING", "CANCEL_PAYMENT_PENDING", "COMPLETED", "FAILED"}
    BY DEF Orch!Rows, Orch!SagaStates, Orch!PendingStates, Orch!TerminalStates
  <2> QED
    BY <2>1 DEF Orch!MessageFor
<1> QED
  BY <1>1, <1>2 DEF TraceInv, OutcomesAreTold

\* order-api overwrites the status of an order with every result it hears, and retries,
\* copies and redeliveries make it hear more than one: still the order agrees with the
\* saga in the orchestrator's store.
THEOREM OrdersAgreeWithSagas == Spec => []OrderAgreesWithSaga
BY TraceHolds, KnownHolds, ResultsAgree, PTL

LEMMA ConfirmedOrdersArePaid ==
    ASSUME TraceInv, Known
    PROVE  ConfirmedIsPaid
<1> SUFFICES ASSUME NEW o \in Orders, orders[o] = "CONFIRMED", faults.harmful = 0
             PROVE  payments[o] = "held" /\ o \in reservations
  BY DEF ConfirmedIsPaid
<1>1. TypeOK /\ EventsAreHeard /\ TellsOf(o)
  BY StoresAre DEF TraceInv
<1>2. PICK m \in published : m.saga = o /\ m.type = "SagaCompleted"
  BY DEF TraceInv, OutcomesAreTold, Orch!Sent
<1>3. PICK w \in writes : w.saga = o /\ w.updatedAt = m.updatedAt /\ Orch!MessageFor(w.to) = "SagaCompleted"
  BY <1>2 DEF Known, Orch!PublishedAfterPersist
<1>4. \A v \in writes : v.to \in {"PAYMENT_PENDING", "INVENTORY_PENDING", "CANCEL_PAYMENT_PENDING", "COMPLETED", "FAILED"}
  BY <1>1 DEF TypeOK, Orch!TypeOK, Orch!Writes, Orch!SagaStates, Orch!PendingStates, Orch!TerminalStates
<1>5. w.to = "COMPLETED" /\ w.from # w.to
  <2>1. w.to = "COMPLETED"
    BY <1>3, <1>4 DEF Orch!MessageFor
  <2>2. w.from # "COMPLETED"
    BY <1>1 DEF TypeOK, Orch!TypeOK, Orch!Writes, Orch!FromStates, Orch!PendingStates
  <2> QED
    BY <2>1, <2>2
<1>6. w.event = "InventoryReserved"
  <2>1. Orch!Edge(w.from, w.to, w.event) \in Orch!DiagramTransitions
    BY <1>5 DEF Known, Orch!DiagramComplete
  <2>2. \A e \in Orch!DiagramTransitions : e.to = "COMPLETED" => e.event = "InventoryReserved"
    BY DEF Orch!Edge, Orch!DiagramTransitions
  <2> QED
    BY <1>5, <2>1, <2>2 DEF Orch!Edge
<1>7. o \in reservations
  BY <1>1, <1>3, <1>6 DEF EventsAreHeard, Heard, Orch!InventoryEvents, TellsOf
<1>8. (\E n \in published : n.saga = o /\ n.type = "ReserveInventory") /\ ~SentIn(published, o, "CancelPayment")
  <2> DEFINE sent == {n.type : n \in {n \in published : n.saga = m.saga}}
  <2>1. "ReserveInventory" \in sent /\ "CancelPayment" \notin sent
    BY <1>2 DEF Known, Orch!CompletionIsEarned
  <2> QED
    BY <1>2, <2>1 DEF SentIn
<1>9. PICK v \in writes : v.saga = o /\ Orch!MessageFor(v.to) = "ReserveInventory"
  BY <1>8 DEF Known, Orch!PublishedAfterPersist
<1>10. v.to = "INVENTORY_PENDING"
  BY <1>4, <1>9 DEF Orch!MessageFor
<1>11. payments[o] # "none" /\ payments[o] # "released"
  BY <1>1, <1>8, <1>9, <1>10 DEF EventsAreHeard, TellsOf
<1>12. payments[o] \in {"none", "held", "released"}
  BY <1>1, TypesSplit DEF StoresTyped, Payment!PaymentStates
<1> QED
  BY <1>7, <1>11, <1>12

\* A confirmed order has its payment and its reservation, whatever timed out, was sent
\* again, failed in the orchestrator or was repeated on the way, as long as the
\* participants' memory lasts and their messages are written.
THEOREM ConfirmedOrdersPaid == Spec => []ConfirmedIsPaid
BY TraceHolds, KnownHolds, ConfirmedOrdersArePaid, PTL
=============================================================================
