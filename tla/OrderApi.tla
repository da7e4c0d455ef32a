------------------------------ MODULE OrderApi ------------------------------
(***************************************************************************)
(* order-api of the orchestrated variant: it creates orders over HTTP,     *)
(* asks the orchestrator to start a saga and takes the saga's result for   *)
(* the order's status.  Orders live in memory.                             *)
(***************************************************************************)
EXTENDS ServiceConsumers

VARIABLES
    orders,   \* the store: the status of each order
    requests  \* HTTP requests that have created their order and not published StartSaga

vars == <<consumers, orders, requests>>

\* LOST is no status of the code: the process that held the order is gone.
Statuses == {"NONE", "PENDING", "CONFIRMED", "CANCELLED", "LOST"}

Known(o) == orders[o] \in {"PENDING", "CONFIRMED", "CANCELLED"}

-----------------------------------------------------------------------------
(* POST /orders *)

CreateOrder(o) ==
    /\ orders[o] = "NONE"
    /\ orders' = [orders EXCEPT ![o] = "PENDING"]
    /\ requests' = requests \cup {o}
    /\ UNCHANGED consumers

StartSaga(o) == Message("saga-commands", "StartSaga", o)

PublishStartSaga(o) ==
    /\ o \in requests
    /\ \/ Sent(StartSaga(o)) /\ UNCHANGED faults
       \/ SentTwice(StartSaga(o)) /\ Fault("twice")
    /\ requests' = requests \ {o}
    /\ UNCHANGED <<loop, seen, orders>>

\* The error is logged and the client gets its order.
PublishStartSagaError(o) ==
    /\ o \in requests
    /\ \/ UNCHANGED topics /\ Fault("publish")
       \/ Sent(StartSaga(o)) /\ Fault("unsure")
    /\ requests' = requests \ {o}
    /\ UNCHANGED <<loop, seen, orders>>

-----------------------------------------------------------------------------
(* saga-events *)

\* Mutant: any result confirms the order.
StatusAfterAnyResult(type) == "CONFIRMED"

StatusAfter(type) == IF type = "SagaCompleted" THEN "CONFIRMED" ELSE "CANCELLED"

\* Whatever the status was, it is overwritten.
UpdateOrderStatus(t) ==
    /\ Begin(t)
    /\ Known(InHand(t).order)
    /\ orders' = [orders EXCEPT ![InHand(t).order] = StatusAfter(InHand(t).type)]
    /\ Finish(t)
    /\ UNCHANGED <<topics, faults, requests>>

\* An order this process did not create is not an error: the result is dropped.
OrderNotFound(t) ==
    /\ Begin(t)
    /\ ~Known(InHand(t).order)
    /\ Finish(t)
    /\ UNCHANGED <<topics, faults, orders, requests>>

Handling == \E t \in Reads : UpdateOrderStatus(t) \/ OrderNotFound(t)

-----------------------------------------------------------------------------
(* The consumer around the handler: it never fails, so nothing is dead-lettered *)

Consuming == /\ \E t \in Reads : Commit(t) \/ CommitError(t)
             /\ UNCHANGED <<orders, requests>>

Deduplicating == /\ \E t \in Reads : SkipDuplicate(t)
                 /\ UNCHANGED <<orders, requests>>

RestartService ==
    /\ Restart
    /\ orders' = [o \in Orders |-> IF orders[o] = "NONE" THEN "NONE" ELSE "LOST"]
    /\ requests' = {}

-----------------------------------------------------------------------------
Init ==
    /\ ConsumersInit
    /\ orders = [o \in Orders |-> "NONE"]
    /\ requests = {}

\* What a running process does by itself.
Working ==
    \/ \E o \in Orders : PublishStartSaga(o)
    \/ Handling
    \/ Consuming
    \/ Deduplicating

Next ==
    \/ \E o \in Orders : CreateOrder(o) \/ PublishStartSagaError(o)
    \/ Working
    \/ RestartService

TypeOK ==
    /\ ConsumersTypeOK
    /\ orders \in [Orders -> Statuses]
    /\ requests \in SUBSET Orders
=============================================================================
