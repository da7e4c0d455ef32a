----------------------- MODULE ChoreoPaymentService -----------------------
(***************************************************************************)
(* payment-service of the choreographed variant: OrderCreated reserves a   *)
(* payment or fails, InventoryFailed rolls the order's payment back.       *)
(* Payments and their index by order live in memory.                       *)
(***************************************************************************)
EXTENDS ServiceConsumers

VARIABLE
    payments  \* the store: the statuses of an order's payments, in order of creation

vars == <<consumers, payments>>

PaymentStatuses == {"RESERVED", "ROLLED_BACK"}

\* byOrderID: the index knows the newest payment of an order and no other.
Indexed(o) == Len(payments[o])

-----------------------------------------------------------------------------
(* OrderCreated *)

\* rand and chaosMode decide; each call decides anew.
HandleOrderCreated(t) ==
    LET o == InHand(t).order
    IN  /\ t = "order-events"
        /\ Begin(t)
        /\ \/ /\ payments' = [payments EXCEPT ![o] = Append(@, "RESERVED")]
              /\ GoPublish(t, Message("payment-events", "PaymentReserved", o))
           \/ /\ UNCHANGED payments
              /\ GoPublish(t, Message("payment-events", "PaymentFailed", o))
        /\ UNCHANGED <<topics, faults>>

-----------------------------------------------------------------------------
(* InventoryFailed *)

\* Mutant: the event is published and the payment is not touched.
RollBackForgotten(o) == payments

RollBack(o) == [payments EXCEPT ![o][Indexed(o)] = "ROLLED_BACK"]

HandleInventoryFailed(t) ==
    LET o == InHand(t).order
    IN  /\ t = "inventory-events"
        /\ Begin(t)
        /\ Indexed(o) > 0
        /\ payments' = RollBack(o)
        /\ GoPublish(t, Message("payment-events", "PaymentRolledBack", o))
        /\ UNCHANGED <<topics, faults>>

\* GetByOrderID finds no payment, because this process did not make it.
PaymentNotFound(t) ==
    /\ t = "inventory-events"
    /\ Handles(t)
    /\ Id(t) \notin seen
    /\ Indexed(InHand(t).order) = 0
    /\ Fail(t)
    /\ UNCHANGED <<topics, seen, faults, payments>>

Handling == \E t \in Reads : HandleOrderCreated(t) \/ HandleInventoryFailed(t) \/ PaymentNotFound(t)

-----------------------------------------------------------------------------
(* The consumers around the handlers *)

Consuming == /\ \E t \in Reads : Skip(t) \/ Commit(t) \/ CommitError(t)
             /\ UNCHANGED payments

Deduplicating == /\ \E t \in Reads : SkipDuplicate(t)
                 /\ UNCHANGED payments

Publishing == /\ \E t \in Reads : Publish(t) \/ PublishTwice(t)
              /\ UNCHANGED payments

\* The handler returns the error of the producer and is called again as a whole.
Retrying == /\ \E t \in Reads : PublishError(t)
            /\ UNCHANGED payments

DeadLettering == /\ \E t \in Reads : DeadLetter(t) \/ DeadLetterError(t)
                 /\ UNCHANGED payments

RestartService == Restart /\ payments' = [o \in Orders |-> <<>>]

-----------------------------------------------------------------------------
Init ==
    /\ ConsumersInit
    /\ payments = [o \in Orders |-> <<>>]

Working == Handling \/ Consuming \/ Deduplicating \/ Publishing \/ DeadLettering

Next == Working \/ Retrying \/ RestartService

TypeOK ==
    /\ ConsumersTypeOK
    /\ payments \in [Orders -> Seq(PaymentStatuses)]
=============================================================================
