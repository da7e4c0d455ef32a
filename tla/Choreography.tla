---------------------------- MODULE Choreography ----------------------------
(***************************************************************************)
(* The choreographed variant as a whole: order-service, payment-service    *)
(* and inventory-service, which share nothing but the three topics.  A     *)
(* step of the system is a step of one of them.                            *)
(***************************************************************************)
EXTENDS Naturals, Sequences, FiniteSets

CONSTANTS
    Orders,      \* orders that may be placed
    MaxRetries,  \* maxRetries of the consumers
    FaultKinds,  \* the faults a behaviour may show: see ServiceConsumers
    MaxFaults    \* bound: faults in one behaviour

ASSUME LimitsAssumption == MaxRetries \in Nat /\ MaxFaults \in Nat

VARIABLES
    topics,                                      \* Kafka
    orderLoop, orderSeen, orders, requests,      \* order-service
    paymentLoop, paymentSeen, payments,          \* payment-service
    inventoryLoop, inventorySeen, reservations,  \* inventory-service
    faults

orderState == <<orderLoop, orderSeen, orders, requests>>
paymentState == <<paymentLoop, paymentSeen, payments>>
inventoryState == <<inventoryLoop, inventorySeen, reservations>>
vars == <<topics, orderState, paymentState, inventoryState, faults>>

Topics == {"order-events", "payment-events", "inventory-events"}

-----------------------------------------------------------------------------
(* The services, with the topics and types each of them has a handler for *)

\* Mutant: an order is confirmed as soon as it is paid.
OrderHandledTooEarly ==
    [t \in {"payment-events", "inventory-events"} |->
        IF t = "payment-events" THEN {"PaymentReserved", "PaymentFailed", "PaymentRolledBack"}
                                ELSE {"InventoryReserved"}]

OrderHandled ==
    [t \in {"payment-events", "inventory-events"} |->
        IF t = "payment-events" THEN {"PaymentFailed", "PaymentRolledBack"} ELSE {"InventoryReserved"}]

PaymentHandled ==
    [t \in {"order-events", "inventory-events"} |->
        IF t = "order-events" THEN {"OrderCreated"} ELSE {"InventoryFailed"}]

InventoryHandled == [t \in {"payment-events"} |-> {"PaymentReserved"}]

OrderService == INSTANCE ChoreoOrderService WITH
    loop <- orderLoop, seen <- orderSeen, Reads <- DOMAIN OrderHandled, Handled <- OrderHandled

PaymentService == INSTANCE ChoreoPaymentService WITH
    loop <- paymentLoop, seen <- paymentSeen, Reads <- DOMAIN PaymentHandled, Handled <- PaymentHandled

InventoryService == INSTANCE ChoreoInventoryService WITH
    loop <- inventoryLoop, seen <- inventorySeen,
    Reads <- DOMAIN InventoryHandled, Handled <- InventoryHandled

Init ==
    /\ topics = [t \in Topics |-> <<>>]
    /\ OrderService!Init
    /\ PaymentService!Init
    /\ InventoryService!Init
    /\ faults = OrderService!NoFaults

Next ==
    \/ OrderService!Next /\ UNCHANGED <<paymentState, inventoryState>>
    \/ PaymentService!Next /\ UNCHANGED <<orderState, inventoryState>>
    \/ InventoryService!Next /\ UNCHANGED <<orderState, paymentState>>

Spec == Init /\ [][Next]_vars

\* A running service goes on; nothing makes a client place an order.
Fairness ==
    /\ WF_vars(OrderService!Working /\ UNCHANGED <<paymentState, inventoryState>>)
    /\ WF_vars(PaymentService!Working /\ UNCHANGED <<orderState, inventoryState>>)
    /\ WF_vars(InventoryService!Working /\ UNCHANGED <<orderState, paymentState>>)

FairSpec == Spec /\ Fairness

-----------------------------------------------------------------------------
(* Properties *)

\* Topics and services have their types; faults stay within their bound.
TypeOK ==
    /\ topics \in [Topics -> Seq(OrderService!Messages)]
    /\ OrderService!TypeOK
    /\ PaymentService!TypeOK
    /\ InventoryService!TypeOK
    /\ faults \in [all : 0..MaxFaults, harmful : Nat, untold : BOOLEAN]

\* The ids of the messages of a type about an order: a copy of a message is no other.
Ids(topic, type, o) ==
    {topics[topic][i].id : i \in {i \in DOMAIN topics[topic] :
                                     topics[topic][i].type = type /\ topics[topic][i].order = o}}

Paid(o) == {i \in DOMAIN payments[o] : payments[o][i] = "RESERVED"}

PaymentOf(o) == IF Paid(o) # {} THEN "held" ELSE IF payments[o] # <<>> THEN "released" ELSE "none"

StatusOf(o) ==
    CASE orders[o] = "NONE"      -> "none"
      [] orders[o] = "CONFIRMED" -> "confirmed"
      [] orders[o] = "CANCELLED" -> "cancelled"
      [] OTHER                   -> "pending"

Saga == INSTANCE OrderSaga WITH
    status   <- [o \in Orders |-> StatusOf(o)],
    payment  <- [o \in Orders |-> PaymentOf(o)],
    reserved <- [o \in Orders |-> reservations[o] > 0]

\* As long as nothing worse happens than messages written twice and commits lost, the
\* three services together are the order saga: an order ends confirmed with payment and
\* reservation or cancelled with neither, though nobody coordinates them.
ImplementsOrderSaga == Saga!Init /\ [][Saga!Next \/ faults'.harmful > 0]_(Saga!vars)

PaymentResults(o) ==
    Ids("payment-events", "PaymentReserved", o) \cup Ids("payment-events", "PaymentFailed", o)

InventoryResults(o) ==
    Ids("inventory-events", "InventoryReserved", o) \cup Ids("inventory-events", "InventoryFailed", o)

Created(o) == Ids("order-events", "OrderCreated", o)

RolledBack(o) == Ids("payment-events", "PaymentRolledBack", o)

\* Handlers are not idempotent: a retry after a failed publish or a redelivery after a
\* restart charges, reserves and rolls back anew, and so does every service after it.
\* A restart repeats what the commits did not cover, repetitions included, and so the
\* repetitions multiply along the chain.  They do so at most polynomially in the number of
\* faults, by one degree a step; messages written twice and commits lost add nothing by
\* themselves.
RepetitionBounded ==
    LET h == faults.harmful
    IN  \A o \in Orders :
            /\ Cardinality(PaymentResults(o)) <= 1 + h
            /\ 2 * Cardinality(InventoryResults(o)) <= (1 + h) * (2 + h)
            /\ 6 * Cardinality(RolledBack(o)) <= (1 + h) * (2 + h) * (3 + h)

\* order-service overwrites the status with whatever it hears, from two topics with no
\* order between them.  It confirms a cancelled order or cancels a confirmed one only if
\* a service has executed its step for the order more than once.
MindChangesNeedRepetition ==
    [][\A o \in Orders :
          {orders[o], orders'[o]} = {"CONFIRMED", "CANCELLED"} =>
              Cardinality(PaymentResults(o)) > 1 \/ Cardinality(InventoryResults(o)) > 1]_vars

\* Whatever order-service makes of an order has its cause in the topics, and the events
\* have theirs: faults, restarts and retries invent nothing.
EventsAreCaused ==
    \A o \in Orders :
        /\ orders[o] = "CONFIRMED" => Ids("inventory-events", "InventoryReserved", o) # {}
        /\ PaymentResults(o) # {} => orders[o] # "NONE"
        /\ InventoryResults(o) # {} => Ids("payment-events", "PaymentReserved", o) # {}
        /\ RolledBack(o) # {} => Ids("inventory-events", "InventoryFailed", o) # {}

DeadLettered(o) ==
    \/ \E t \in DOMAIN OrderHandled : o \in orderLoop[t].letters
    \/ \E t \in DOMAIN PaymentHandled : o \in paymentLoop[t].letters
    \/ \E t \in DOMAIN InventoryHandled : o \in inventoryLoop[t].letters

\* An order whose OrderCreated was written does not silently stop on its way: it is
\* decided, or lost with the process that held it, or a dead letter tells of it - unless
\* that could not be written either.  Nothing watches over an order as a whole, so this
\* hangs on every write, retry, redelivery and restart along the chain.
PublishedIsDecided ==
    \A o \in Orders :
        Created(o) # {} ~> orders[o] \in {"CONFIRMED", "CANCELLED", "LOST"} \/ DeadLettered(o) \/ faults.untold

AllDrained ==
    OrderService!Drained /\ requests = {} /\ PaymentService!Drained /\ InventoryService!Drained

\* A handler whose publish fails has stored its payment or its reservation already, and
\* the retry stores another one that byOrderID or an announced failure then hides.  Per
\* fault this happens once per attempt, and a reservation may besides be made for every
\* payment announced.
LeftoversBounded ==
    LET h == faults.harmful
    IN  \A o \in Orders :
            /\ Len(payments[o]) <= 1 + (MaxRetries + 1) * h
            /\ reservations[o] <= 1 + (MaxRetries + 2) * h

\* inventory_failed.go: "InventoryFailedHandler handles InventoryFailed events by rolling
\* back payment."  When nothing is left to do, an order that was cancelled because its
\* payment was rolled back holds no payment.
CancelledIsCompensated ==
    AllDrained =>
        \A o \in Orders :
            orders[o] = "CANCELLED" /\ RolledBack(o) # {} => Paid(o) = {}


-----------------------------------------------------------------------------
(* The inductive invariant *)

\* Copies share an id, different messages of a topic never do.
IdsAreFresh ==
    \A t \in Topics : \A i \in DOMAIN topics[t] :
        /\ topics[t][i].id \in 1..i
        /\ \A j \in DOMAIN topics[t] : topics[t][i].id = topics[t][j].id => topics[t][i] = topics[t][j]

\* What a handler is about to publish answers the message in hand.
Answers(l, t, type, topic, answers) ==
    l.pc = "publish" =>
        /\ topics[t][l.fetched].type = type
        /\ l.out.order = topics[t][l.fetched].order
        /\ l.out.topic = topic
        /\ l.out.type \in answers

AnswersMatch ==
    /\ \A t \in DOMAIN OrderHandled : orderLoop[t].pc # "publish"
    /\ Answers(paymentLoop["order-events"], "order-events", "OrderCreated",
               "payment-events", {"PaymentReserved", "PaymentFailed"})
    /\ Answers(paymentLoop["inventory-events"], "inventory-events", "InventoryFailed",
               "payment-events", {"PaymentRolledBack"})
    /\ Answers(inventoryLoop["payment-events"], "payment-events", "PaymentReserved",
               "inventory-events", {"InventoryReserved", "InventoryFailed"})

\* An order is announced once, and every other event and every decision has its cause.
Caused ==
    \A o \in Orders :
        /\ orders[o] = "NONE" \/ o \in requests => Created(o) = {}
        /\ orders[o] = "NONE" => o \notin requests
        /\ \A i, j \in Created(o) : i = j
        /\ PaymentResults(o) # {} => Created(o) # {}
        /\ InventoryResults(o) # {} => Ids("payment-events", "PaymentReserved", o) # {}
        /\ RolledBack(o) # {} => Ids("inventory-events", "InventoryFailed", o) # {}
        /\ orders[o] = "CONFIRMED" => Ids("inventory-events", "InventoryReserved", o) # {}
        /\ orders[o] = "CANCELLED" =>
               Ids("payment-events", "PaymentFailed", o) \cup RolledBack(o) # {}

\* Of these messages, the ones a service has marked.
Marked(seen, topic, ids) == {id \in ids : <<topic, id>> \in seen}

\* Is a message about the order being published: 0 or 1.
Sending(l, o) == IF l.pc = "publish" /\ l.out.order = o THEN 1 ELSE 0

CreatedMarked(o) == Marked(paymentSeen, "order-events", Created(o))

ReservedMarked(o) ==
    Marked(inventorySeen, "payment-events", Ids("payment-events", "PaymentReserved", o))

FailedMarked(o) ==
    Marked(paymentSeen, "inventory-events", Ids("inventory-events", "InventoryFailed", o))

\* An answer takes a mark on what it answers.  A fault takes back one mark, a restart all
\* of them, and those are as many as the step before was repeated.
RepetitionsCounted ==
    LET h == faults.harmful
    IN  \A o \in Orders :
            /\ Cardinality(PaymentResults(o)) + Sending(paymentLoop["order-events"], o)
                   <= Cardinality(CreatedMarked(o)) + h
            /\ 2 * (Cardinality(InventoryResults(o)) + Sending(inventoryLoop["payment-events"], o))
                   <= 2 * Cardinality(ReservedMarked(o)) + h * (1 + h)
            /\ 6 * (Cardinality(RolledBack(o)) + Sending(paymentLoop["inventory-events"], o))
                   <= 6 * Cardinality(FailedMarked(o)) + h * (1 + h) * (2 + h)

\* The attempts the message in hand has left, if it is about the order and failed already.
Spare(l, t, o) ==
    IF l.retry > 0 /\ topics[t][l.fetched].order = o THEN MaxRetries + 1 - l.retry ELSE 0

\* A payment or a reservation, too, takes a mark, and a fault has one for each attempt.
LeftoversCounted ==
    LET h == faults.harmful
    IN  \A o \in Orders :
            /\ Len(payments[o]) + Spare(paymentLoop["order-events"], "order-events", o)
                   <= Cardinality(CreatedMarked(o)) + (MaxRetries + 1) * h
            /\ reservations[o] + Spare(inventoryLoop["payment-events"], "payment-events", o)
                   <= Cardinality(ReservedMarked(o)) + (MaxRetries + 1) * h

Announced(l, type, ids, o) == ids # {} \/ (l.pc = "publish" /\ l.out.type = type /\ l.out.order = o)

PaymentAnnounced(o) ==
    Announced(paymentLoop["order-events"], "PaymentReserved", Ids("payment-events", "PaymentReserved", o), o)

RollbackAnnounced(o) ==
    Announced(paymentLoop["inventory-events"], "PaymentRolledBack", RolledBack(o), o)

ReservationAnnounced(o) ==
    Announced(inventoryLoop["payment-events"], "InventoryReserved",
              Ids("inventory-events", "InventoryReserved", o), o)

\* Without harmful faults no handler fails, and the stores are what the messages say.
Undisturbed ==
    /\ ~faults.untold
    /\ \A l \in {orderLoop[t] : t \in DOMAIN OrderHandled} \cup {paymentLoop[t] : t \in DOMAIN PaymentHandled}
                 \cup {inventoryLoop[t] : t \in DOMAIN InventoryHandled} : l.pc # "dead" /\ l.retry = 0
    /\ \A o \in Orders :
           /\ orders[o] # "LOST"
           /\ orders[o] = "CONFIRMED" =>
                  Marked(orderSeen, "inventory-events", Ids("inventory-events", "InventoryReserved", o)) # {}
           /\ orders[o] = "CANCELLED" =>
                  Marked(orderSeen, "payment-events",
                         Ids("payment-events", "PaymentFailed", o) \cup RolledBack(o)) # {}
           /\ payments[o] = IF RollbackAnnounced(o) THEN <<"ROLLED_BACK">>
                            ELSE IF PaymentAnnounced(o) THEN <<"RESERVED">> ELSE <<>>
           /\ reservations[o] = IF ReservationAnnounced(o) THEN 1 ELSE 0

\* Why repetitions and leftovers are bounded, and why the services agree as long as
\* nothing is repeated: at most one result of each kind is about, and each store matches it.
IInv ==
    /\ TypeOK
    /\ IdsAreFresh
    /\ AnswersMatch
    /\ Caused
    /\ RepetitionsCounted
    /\ LeftoversCounted
    /\ faults.harmful = 0 => Undisturbed
=============================================================================
