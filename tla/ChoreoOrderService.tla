------------------------ MODULE ChoreoOrderService ------------------------
(***************************************************************************)
(* order-service of the choreographed variant: it creates orders over HTTP *)
(* and publishes OrderCreated; what it hears from payment and inventory    *)
(* decides the order's status.  Orders live in memory.                     *)
(***************************************************************************)
EXTENDS ServiceConsumers

VARIABLES
    orders,   \* the store: the status of each order
    requests  \* HTTP requests that have created their order and not published it

vars == <<consumers, orders, requests>>

\* LOST is no status of the code: the process that held the order is gone.
Statuses == {"NONE", "PENDING", "CONFIRMED", "CANCELLED", "LOST"}

Known(o) == orders[o] \in {"PENDING", "CONFIRMED", "CANCELLED"}

-----------------------------------------------------------------------------
(* POST /orders *)

CreateOrder(o) ==
    /\ orders[o] = "NONE"
    /\ orders' = [orders EXCEPT ![o] = "PENDING"]
    /\ requests' = requests \cup {o}
    /\ UNCHANGED consumers

OrderCreated(o) == Message("order-events", "OrderCreated", o)

PublishOrderCreated(o) ==
    /\ o \in requests
    /\ \/ Sent(OrderCreated(o)) /\ UNCHANGED faults
       \/ SentTwice(OrderCreated(o)) /\ Fault("twice")
    /\ requests' = requests \ {o}
    /\ UNCHANGED <<loop, seen, orders>>

\* The client is told of an internal error; the order stays in the store.
PublishOrderCreatedError(o) ==
    /\ o \in requests
    /\ \/ UNCHANGED topics /\ Fault("publish")
       \/ Sent(OrderCreated(o)) /\ Fault("unsure")
    /\ requests' = requests \ {o}
    /\ UNCHANGED <<loop, seen, orders>>

-----------------------------------------------------------------------------
(* The events of the other services *)

\* Mutant: a failed payment is overlooked and the order confirmed.
StatusAfterConfirming(type) == IF type = "PaymentRolledBack" THEN "CANCELLED" ELSE "CONFIRMED"

StatusAfter(type) ==
    IF type \in {"PaymentFailed", "PaymentRolledBack"} THEN "CANCELLED" ELSE "CONFIRMED"

\* Get copies the order and Update replaces it; only the status ever differs, so the
\* two consumers cannot lose each other's change to anything else.
UpdateOrderStatus(t) ==
    /\ Begin(t)
    /\ Known(InHand(t).order)
    /\ orders' = [orders EXCEPT ![InHand(t).order] = StatusAfter(InHand(t).type)]
    /\ Finish(t)
    /\ UNCHANGED <<topics, faults, requests>>

\* Get finds no order, because this process did not create it.
OrderNotFound(t) ==
    /\ Handles(t)
    /\ Id(t) \notin seen
    /\ ~Known(InHand(t).order)
    /\ Fail(t)
    /\ UNCHANGED <<topics, seen, faults, orders, requests>>

Handling == \E t \in Reads : UpdateOrderStatus(t) \/ OrderNotFound(t)

-----------------------------------------------------------------------------
(* The consumers around the handlers *)

Consuming == /\ \E t \in Reads : Skip(t) \/ Commit(t) \/ CommitError(t)
             /\ UNCHANGED <<orders, requests>>

Deduplicating == /\ \E t \in Reads : SkipDuplicate(t)
                 /\ UNCHANGED <<orders, requests>>

DeadLettering == /\ \E t \in Reads : DeadLetter(t) \/ DeadLetterError(t)
                 /\ UNCHANGED <<orders, requests>>

RestartService ==
    /\ Restart
    /\ orders' = [o \in Orders |-> IF orders[o] = "NONE" THEN "NONE" ELSE "LOST"]
    /\ requests' = {}

-----------------------------------------------------------------------------
Init ==
    /\ ConsumersInit
    /\ orders = [o \in Orders |-> "NONE"]
    /\ requests = {}

\* What a running process does by itself.
Working ==
    \/ \E o \in Orders : PublishOrderCreated(o)
    \/ Handling
    \/ Consuming
    \/ Deduplicating
    \/ DeadLettering

Next ==
    \/ \E o \in Orders : CreateOrder(o) \/ PublishOrderCreatedError(o)
    \/ Working
    \/ RestartService

TypeOK ==
    /\ ConsumersTypeOK
    /\ orders \in [Orders -> Statuses]
    /\ requests \in SUBSET Orders
=============================================================================
