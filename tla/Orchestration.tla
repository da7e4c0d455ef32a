--------------------------- MODULE Orchestration ---------------------------
(***************************************************************************)
(* The orchestrated variant as a whole: order-api, the orchestrator with   *)
(* its store, payment-service and inventory-service, and the six topics    *)
(* between them.  The orchestrator is the module Orchestrator; here its    *)
(* threads get the consumers around them, and what Orchestrator leaves to  *)
(* its environment - which events come, and when - comes from the topics.  *)
(***************************************************************************)
EXTENDS Naturals, Sequences, FiniteSets

CONSTANTS
    Orders,           \* orders that may be placed; the order id is the correlation id
    Workers,          \* timeout workers; none, if every answer comes in time
    MaxRetries,       \* MAX_RETRIES of the orchestrator
    HandlerRetries,   \* maxRetries of the consumers
    FaultKinds,       \* faults a behaviour may show: see ServiceConsumers; "call": the
                      \* orchestrator's calls that fail, and its crashes
    MaxFaults         \* bound: faults in one behaviour, of all services together

ASSUME LimitsAssumption == {MaxRetries, HandlerRetries, MaxFaults} \subseteq Nat

VARIABLES
    topics,                                                     \* Kafka
    apiLoop, apiSeen, orders, requests,                         \* order-api
    orchLoop, orchSeen,                                         \* the orchestrator's consumers,
    sagas, history, published, job, batch, orchFaults, writes,  \* its store and its threads
    paymentLoop, paymentSeen, payments,                         \* payment-service
    inventoryLoop, inventorySeen, reservations,                 \* inventory-service
    faults

apiState == <<apiLoop, apiSeen, orders, requests>>
threadState == <<sagas, history, published, job, batch, orchFaults, writes>>
orchState == <<orchLoop, orchSeen, threadState>>
paymentState == <<paymentLoop, paymentSeen, payments>>
inventoryState == <<inventoryLoop, inventorySeen, reservations>>
vars == <<topics, apiState, orchState, paymentState, inventoryState, faults>>

-----------------------------------------------------------------------------
(* The services and the topics each of them reads *)

ApiHandled == [t \in {"saga-events"} |-> {"SagaCompleted", "SagaFailed"}]

PaymentHandled == [t \in {"payment-commands"} |-> {"ReservePayment", "CancelPayment"}]

InventoryHandled == [t \in {"inventory-commands"} |-> {"ReserveInventory"}]

EventTopics == {"payment-events", "inventory-events"}

OrchHandled ==
    [t \in EventTopics \cup {"saga-commands"} |->
        CASE t = "saga-commands"    -> {"StartSaga"}
          [] t = "payment-events"   -> {"PaymentReserved", "PaymentFailed", "PaymentCancelled"}
          [] t = "inventory-events" -> {"InventoryReserved", "InventoryFailed"}]

\* A timeout worker is a thread of its own, none of the consumers.
ASSUME WorkersAssumption == Workers \cap DOMAIN OrchHandled = {}

Topics == UNION {DOMAIN h : h \in {ApiHandled, PaymentHandled, InventoryHandled, OrchHandled}}

Api == INSTANCE OrderApi WITH
    loop <- apiLoop, seen <- apiSeen, MaxRetries <- HandlerRetries,
    Reads <- DOMAIN ApiHandled, Handled <- ApiHandled

Payment == INSTANCE PaymentService WITH
    loop <- paymentLoop, seen <- paymentSeen, MaxRetries <- HandlerRetries,
    Reads <- DOMAIN PaymentHandled, Handled <- PaymentHandled

Inventory == INSTANCE InventoryService WITH
    loop <- inventoryLoop, seen <- inventorySeen, MaxRetries <- HandlerRetries,
    Reads <- DOMAIN InventoryHandled, Handled <- InventoryHandled

Consumers == INSTANCE ServiceConsumers WITH
    loop <- orchLoop, seen <- orchSeen, MaxRetries <- HandlerRetries,
    Reads <- DOMAIN OrchHandled, Handled <- OrchHandled

\* A thread of the orchestrator is named by the topic it consumes.
Orch == INSTANCE Orchestrator WITH
    Sagas <- Orders, CommandConsumers <- {"saga-commands"}, PaymentConsumers <- {"payment-events"},
    InventoryConsumers <- {"inventory-events"}, faults <- orchFaults

-----------------------------------------------------------------------------
(* The orchestrator's consumers begin a handler, which goes on as the thread's job *)

GoOn(t) == Consumers!PassTo(t, [Consumers!Took(t) EXCEPT !.pc = "working"])

\* A handler that fails before or after it did something: its id is unmarked.
Fails(t) == Consumers!Unmark(t) /\ Consumers!Fail(t)

TopicOf(type) ==
    CASE type = "ReserveInventory"                    -> "inventory-commands"
      [] type \in {"ReservePayment", "CancelPayment"} -> "payment-commands"
      [] type \in {"SagaCompleted", "SagaFailed"}     -> "saga-events"

HandleCommand(t) ==
    LET s == Consumers!InHand(t).order
    IN  /\ Consumers!Begin(t)
        /\ Orch!StartSaga(t, s)
        /\ GoOn(t)
        /\ UNCHANGED <<topics, faults>>

\* Mutant: the command is published although Create returned an error.
HandleCommandErrorIgnored(t) ==
    LET s == Consumers!InHand(t).order
    IN  /\ Consumers!Begin(t)
        /\ Orch!StartSagaLosesReply(t, s)
        /\ Consumers!Sent(Consumers!Message("payment-commands", "ReservePayment", s))
        /\ Consumers!Finish(t)
        /\ UNCHANGED faults

\* Create fails, because the saga exists or the reply of the INSERT is lost.
HandleCommandError(t) ==
    LET s == Consumers!InHand(t).order
    IN  /\ Consumers!Handles(t)
        /\ Consumers!Id(t) \notin orchSeen
        /\ \/ Orch!Exists(s) /\ UNCHANGED threadState
           \/ Orch!StartSagaLosesReply(t, s)
        /\ Fails(t)
        /\ UNCHANGED <<topics, faults>>

HandleEvent(t) ==
    LET m == Consumers!InHand(t)
    IN  /\ Consumers!Begin(t)
        /\ Orch!HandleEvent(t, m.order, m.type)
        /\ GoOn(t)
        /\ UNCHANGED <<topics, faults>>

\* No such saga, or no transition: the handler returns nil.  So it does if Get fails.
SkipEvent(t) ==
    LET m == Consumers!InHand(t)
    IN  /\ Consumers!Begin(t)
        /\ \/ ~Orch!Exists(m.order) /\ UNCHANGED faults
           \/ Orch!Apply(sagas[m.order].state, m.type) = {} /\ UNCHANGED faults
           \/ Consumers!Fault("read")
        /\ Consumers!Finish(t)
        /\ UNCHANGED <<topics, threadState>>

-----------------------------------------------------------------------------
(* A job ends with the handler's result *)

Outgoing(j) == Consumers!Message(TopicOf(j.action), j.action, j.saga)

\* Succeeding, Orchestrator's Publish is no fault: whether the handler learns of it is
\* another matter.
JobStep(t) ==
    \/ /\ Orch!UpdateSaga(t) \/ Orch!RecordHistory(t)
       /\ UNCHANGED <<topics, orchLoop, orchSeen, faults>>
    \/ /\ Orch!SkipModified(t)
       /\ Consumers!Finish(t)
       /\ UNCHANGED <<topics, orchSeen, faults>>
    \/ /\ Orch!Publish(t)
       /\ UNCHANGED orchFaults
       /\ \/ Consumers!Sent(Outgoing(job[t])) /\ UNCHANGED faults
          \/ Consumers!SentTwice(Outgoing(job[t])) /\ Consumers!Fault("twice")
       /\ Consumers!Finish(t)
       /\ UNCHANGED orchSeen

JobError(t) ==
    /\ \/ Orch!UpdateError(t) /\ UNCHANGED <<topics, faults>>
       \/ Orch!Publish(t) /\ Orch!Fault /\ UNCHANGED <<topics, faults>>
       \/ /\ Orch!Publish(t)
          /\ UNCHANGED orchFaults
          /\ Consumers!Sent(Outgoing(job[t]))
          /\ Consumers!Fault("unsure")
    /\ Fails(t)

-----------------------------------------------------------------------------
(* The timeout worker has no consumer around it: an error is logged *)

WorkerStep(w) ==
    /\ \/ Orch!CheckTimeouts(w) \/ Orch!ProcessSaga(w)
       \/ Orch!UpdateSaga(w) \/ Orch!SkipModified(w) \/ Orch!RecordHistory(w)
    /\ UNCHANGED <<topics, faults>>

WorkerPublish(w) ==
    /\ Orch!Publish(w)
    /\ UNCHANGED orchFaults
    /\ \/ Consumers!Sent(Outgoing(job[w])) /\ UNCHANGED faults
       \/ Consumers!SentTwice(Outgoing(job[w])) /\ Consumers!Fault("twice")

WorkerError(w) ==
    /\ Orch!UpdateError(w) \/ (Orch!Publish(w) /\ Orch!Fault)
    /\ UNCHANGED <<topics, faults>>

-----------------------------------------------------------------------------
HandleMessage == \E t \in DOMAIN OrchHandled :
    IF t = "saga-commands" THEN HandleCommand(t) \/ HandleCommandError(t)
                           ELSE HandleEvent(t) \/ SkipEvent(t)

OrchConsuming == \E t \in DOMAIN OrchHandled :
    /\ \/ Consumers!Commit(t) \/ Consumers!CommitError(t) \/ Consumers!SkipDuplicate(t)
       \/ Consumers!DeadLetter(t) \/ Consumers!DeadLetterError(t)
    /\ UNCHANGED threadState

\* A restart loses what the threads were doing, if they were doing anything.
RestartOrchestrator ==
    \/ Orch!Crash /\ Consumers!Resume /\ UNCHANGED faults
    \/ /\ \A t \in Orch!Threads : job[t] = Orch!Idle
       /\ \A w \in Workers : batch[w] = {}
       /\ "call" \in FaultKinds
       /\ Consumers!Restart
       /\ UNCHANGED threadState

WorkerProceeds == \E w \in Workers : (WorkerStep(w) \/ WorkerPublish(w)) /\ UNCHANGED <<orchLoop, orchSeen>>

ConsumersProceed ==
    \/ HandleMessage
    \/ \E t \in DOMAIN OrchHandled : JobStep(t)
    \/ OrchConsuming

\* A deadline that passes means nothing if there is no worker to see it.
DeadlinePasses ==
    /\ Workers # {}
    /\ \E s \in Orders : Orch!DeadlinePasses(s)
    /\ UNCHANGED <<topics, orchLoop, orchSeen, faults>>

OrchNext ==
    /\ \/ ConsumersProceed
       \/ \E t \in DOMAIN OrchHandled : JobError(t)
       \/ WorkerProceeds
       \/ \E w \in Workers : WorkerError(w) /\ UNCHANGED <<orchLoop, orchSeen>>
       \/ DeadlinePasses
       \/ RestartOrchestrator
    /\ orchFaults' # orchFaults => "call" \in FaultKinds

Init ==
    /\ topics = [t \in Topics |-> <<>>]
    /\ Api!Init
    /\ Orch!Init
    /\ Consumers!ConsumersInit
    /\ Payment!Init
    /\ Inventory!Init
    /\ faults = Consumers!NoFaults

Next ==
    /\ \/ UNCHANGED <<orchState, paymentState, inventoryState>> /\ Api!Next
       \/ UNCHANGED <<apiState, paymentState, inventoryState>> /\ OrchNext
       \/ UNCHANGED <<apiState, orchState, inventoryState>> /\ Payment!Next
       \/ UNCHANGED <<apiState, orchState, paymentState>> /\ Inventory!Next
    /\ orchFaults' + faults'.all <= MaxFaults

Spec == Init /\ [][Next]_vars

\* What the processes and the clock do by themselves.
Proceeding ==
    \/ UNCHANGED <<orchState, paymentState, inventoryState>> /\ Api!Working
    \/ UNCHANGED <<apiState, orchState, inventoryState>> /\ Payment!Working
    \/ UNCHANGED <<apiState, orchState, paymentState>> /\ Inventory!Working
    \/ /\ UNCHANGED <<apiState, paymentState, inventoryState>>
       /\ ConsumersProceed \/ WorkerProceeds \/ DeadlinePasses

\* The system as a whole goes on while any part of it can: which part goes first is open,
\* and every part gets its turn because none can go on for ever.  Nothing makes a client
\* place an order.
Fairness == WF_vars(Proceeding)

FairSpec == Spec /\ Fairness

-----------------------------------------------------------------------------
(* Properties *)

\* A consumer of the orchestrator: its messages are published by the thread's job.
OrchLoops == [pc : {"fetch", "handle", "working", "dead", "commit"}, committed : Nat, fetched : Nat,
              retry : 0..HandlerRetries, out : {Consumers!Silent}, letters : SUBSET Orders]

\* Topics and services have their types, and the orchestrator's consumers and threads
\* agree on who is working.
TypeOK ==
    /\ topics \in [Topics -> Seq(Consumers!Messages)]
    /\ Api!TypeOK
    /\ Payment!TypeOK
    /\ Inventory!TypeOK
    /\ Orch!TypeOK
    /\ orchLoop \in [DOMAIN OrchHandled -> OrchLoops]
    /\ \A t \in DOMAIN OrchHandled :
           /\ orchLoop[t].pc = "working" <=> job[t] # Orch!Idle
           /\ orchLoop[t].committed <= orchLoop[t].fetched /\ orchLoop[t].fetched <= Len(topics[t])
           /\ orchLoop[t].pc # "fetch" => orchLoop[t].fetched > 0
    /\ faults \in [all : 0..MaxFaults, harmful : Nat, untold : BOOLEAN]

Written(topic, type, o) == \E i \in DOMAIN topics[topic] :
    topics[topic][i].type = type /\ topics[topic][i].order = o

StatusOf(o) ==
    CASE orders[o] = "NONE"      -> "none"
      [] orders[o] = "CONFIRMED" -> "confirmed"
      [] orders[o] = "CANCELLED" -> "cancelled"
      [] OTHER                   -> "pending"

Saga == INSTANCE OrderSaga WITH
    status   <- [o \in Orders |-> StatusOf(o)],
    payment  <- payments,
    reserved <- [o \in Orders |-> o \in reservations]

\* What the timeout worker has done to sagas it found overdue.
Expiries == {w \in writes : w.event \in {"Retry", "Timeout"}}

\* The worker has found no saga overdue, and to the participants and to order-api nothing
\* worse has happened than messages written twice and commits lost.  What the orchestrator's
\* own faults can do is to leave a saga where it is.
Undisturbed == faults.harmful = 0 /\ Expiries = {}

\* Undisturbed, the services together are the order saga, the same one the choreography
\* implements.
ImplementsOrderSaga == Saga!Init /\ [][~Undisturbed' \/ Saga!Next]_(Saga!vars)

\* Orchestrator lets an event be delivered only if its command was published.  That is no
\* restriction: no event is ever in a topic without its command having been asked for,
\* whichever faults the participants and the writers show.
AnswersAreSolicited ==
    \A t \in EventTopics : \A i \in DOMAIN topics[t] : Orch!Deliverable(topics[t][i].order, topics[t][i].type)

Decided(o) == orders[o] \in {"CONFIRMED", "CANCELLED"}

\* order-api overwrites the status with every result it hears, unconditionally.  Still the
\* order agrees with the saga and no order is decided twice, since a saga has one result.
OrderAgreesWithSaga ==
    \A o \in Orders :
        /\ orders[o] = "CONFIRMED" => sagas[o].state = "COMPLETED"
        /\ orders[o] = "CANCELLED" => sagas[o].state = "FAILED"

\* A confirmed order has its payment and its reservation, whatever timed out or was sent
\* again on the way - as long as the participants' memory lasts.
ConfirmedIsPaid ==
    \A o \in Orders : orders[o] = "CONFIRMED" /\ faults.harmful = 0 =>
        payments[o] = "held" /\ o \in reservations

Worked(o, state, events) ==
    \E w \in writes : w.saga = o /\ w.from = state /\ w.event \in events

\* The timeout worker gives up on a step that may still happen, and sends commands again
\* that may arrive when they are no longer wanted.  Without faults of the participants, a
\* failed saga leaves a payment or a reservation behind only where the worker has done so:
\* a reservation, where it dealt with the inventory step; a payment, where it dealt with the
\* payment step or gave up the cancellation.
LeaksNeedTimeouts ==
    \A o \in Orders : orders[o] = "CANCELLED" /\ faults.harmful = 0 =>
        /\ o \in reservations => Worked(o, "INVENTORY_PENDING", {"Retry", "Timeout"})
        /\ payments[o] = "held" =>
               \/ Worked(o, "PAYMENT_PENDING", {"Retry", "Timeout"})
               \/ Worked(o, "CANCEL_PAYMENT_PENDING", {"Timeout"})

\* Once StartSaga is written, the order is decided, or lost with the order-api that held
\* it: restarts of the participants, lost answers, dead-lettered commands and skipped
\* events only cost time, because the worker resends and in the end gives up.
StartedIsDecided ==
    \A o \in Orders : Written("saga-commands", "StartSaga", o) ~> Decided(o) \/ orders[o] = "LOST"

AllDrained ==
    /\ Api!Drained /\ Payment!Drained /\ Inventory!Drained /\ Consumers!Drained
    /\ \A w \in Workers : job[w] = Orch!Idle

\* orchestrator.go gives as the reason of a saga that failed after its compensation:
\* "payment cancelled after inventory failure".  When nothing is left to do, it is.
CompensatedIsCancelled ==
    AllDrained =>
        \A o \in Orders :
            Worked(o, "CANCEL_PAYMENT_PENDING", {"PaymentCancelled"}) => payments[o] # "held"

-----------------------------------------------------------------------------
(* The inductive invariant, next to that of Orchestrator *)

\* Nobody but the orchestrator writes commands and results.
CommandsArePublished ==
    \A t \in {"payment-commands", "inventory-commands", "saga-events"} : \A i \in DOMAIN topics[t] :
        Orch!Sent(topics[t][i].order, topics[t][i].type)

\* What a participant is about to answer was asked for, too.
AnswersInHand ==
    /\ \A t \in DOMAIN PaymentHandled : paymentLoop[t].pc = "publish" =>
           /\ paymentLoop[t].out.topic = "payment-events"
           /\ Orch!Deliverable(paymentLoop[t].out.order, paymentLoop[t].out.type)
    /\ \A t \in DOMAIN InventoryHandled : inventoryLoop[t].pc = "publish" =>
           /\ inventoryLoop[t].out.topic = "inventory-events"
           /\ Orch!Deliverable(inventoryLoop[t].out.order, inventoryLoop[t].out.type)

\* order-api decides nothing by itself.
OutcomesAreTold ==
    \A o \in Orders :
        /\ orders[o] = "CONFIRMED" => Orch!Sent(o, "SagaCompleted")
        /\ orders[o] = "CANCELLED" => Orch!Sent(o, "SagaFailed")

Heard(event, o) ==
    /\ event = "StartSaga" => Written("saga-commands", "StartSaga", o)
    /\ event \in Orch!PaymentEvents => Written("payment-events", event, o)
    /\ event \in Orch!InventoryEvents => Written("inventory-events", event, o)

\* A saga moves on an answer only if it was given, and asks for the reservation only of
\* an order whose payment was.
EventsAreHeard ==
    /\ \A t \in Orch!Threads : job[t] # Orch!Idle => Heard(job[t].event, job[t].saga)
    /\ \A w \in writes :
           /\ Heard(w.event, w.saga)
           /\ w.to = "INVENTORY_PENDING" => Written("payment-events", "PaymentReserved", w.saga)

\* As long as the participants' memory lasts, the stores are what was answered, and a
\* payment is given back only on command.
StoresTell ==
    \A o \in Orders :
        /\ Written("payment-events", "PaymentReserved", o) => payments[o] # "none"
        /\ Written("inventory-events", "InventoryReserved", o) => o \in reservations
        /\ payments[o] = "released" => Orch!Sent(o, "CancelPayment")
        /\ \A t \in DOMAIN PaymentHandled :
               paymentLoop[t].pc = "publish" /\ paymentLoop[t].out.type = "PaymentReserved"
                   /\ paymentLoop[t].out.order = o => payments[o] # "none"
        /\ \A t \in DOMAIN InventoryHandled :
               inventoryLoop[t].pc = "publish" /\ inventoryLoop[t].out.type = "InventoryReserved"
                   /\ inventoryLoop[t].out.order = o => o \in reservations

\* Why the order agrees with the saga and a confirmed order is paid: every step of one
\* service leaves its trace in what the next one reads.
TraceInv ==
    /\ TypeOK
    /\ CommandsArePublished
    /\ AnswersAreSolicited
    /\ AnswersInHand
    /\ OutcomesAreTold
    /\ EventsAreHeard
    /\ faults.harmful = 0 => StoresTell

-----------------------------------------------------------------------------
(* How often things are asked for and answered *)

\* A saga is asked for after its order was created.
OrdersComeFirst ==
    \A o \in Orders : orders[o] = "NONE" => o \notin requests /\ ~Written("saga-commands", "StartSaga", o)

Copies(t, type, o) == {i \in DOMAIN topics[t] : topics[t][i].type = type /\ topics[t][i].order = o}

\* The command was sent more than once; copies the writer made share an id.
Resent(t, type, o) == \E i, j \in Copies(t, type, o) : topics[t][i].id # topics[t][j].id

\* Then it was published more than once.
ResentIsPublished ==
    \A t \in {"payment-commands", "inventory-commands"}, type \in Orch!Commands, o \in Orders :
        Resent(t, type, o) => \E m, n \in published : m # n /\ \A x \in {m, n} : x.saga = o /\ x.type = type

\* A handler has begun on a copy of the command.
Begun(seen, t, type, o) == \E i \in Copies(t, type, o) : <<t, topics[t][i].id>> \in seen

\* An answer is given once it is written, or about to be.
Answered(loop, topic, type, o) ==
    \/ Written(topic, type, o)
    \/ \E t \in DOMAIN loop : loop[t].pc = "publish" /\ loop[t].out.type = type /\ loop[t].out.order = o

\* As long as the participants' memory lasts: what they store they have answered, what they
\* answered they were asked, and two answers to one question were two questions.
PaymentTells(o) ==
    LET said(type) == Answered(paymentLoop, "payment-events", type, o)
        again == Resent("payment-commands", "ReservePayment", o)
    IN  /\ payments[o] # "none" => said("PaymentReserved")
        /\ said("PaymentReserved") \/ said("PaymentFailed") =>
               Begun(paymentSeen, "payment-commands", "ReservePayment", o)
        /\ said("PaymentReserved") /\ said("PaymentFailed") => again
        /\ said("PaymentCancelled") /\ payments[o] = "held" => again

InventoryTells(o) ==
    LET said(type) == Answered(inventoryLoop, "inventory-events", type, o)
    IN  /\ o \in reservations => said("InventoryReserved")
        /\ said("InventoryReserved") \/ said("InventoryFailed") =>
               Begun(inventorySeen, "inventory-commands", "ReserveInventory", o)
        /\ said("InventoryReserved") /\ said("InventoryFailed") =>
               Resent("inventory-commands", "ReserveInventory", o)

NothingToRetry ==
    /\ \A t \in DOMAIN PaymentHandled : paymentLoop[t].retry = 0
    /\ \A t \in DOMAIN InventoryHandled : inventoryLoop[t].retry = 0

\* Why the services together are the order saga, and why leaks need timeouts.
CourseInv ==
    /\ OrdersComeFirst
    /\ ResentIsPublished
    /\ faults.harmful = 0 => /\ NothingToRetry
                             /\ \A o \in Orders : PaymentTells(o) /\ InventoryTells(o)

IInv == TraceInv /\ CourseInv

=============================================================================
