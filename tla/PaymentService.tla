--------------------------- MODULE PaymentService ---------------------------
(***************************************************************************)
(* payment-service of the orchestrated variant: it answers the commands of *)
(* payment-commands.  Payments live in memory, one per correlation id.     *)
(***************************************************************************)
EXTENDS ServiceConsumers

VARIABLE
    payments  \* the store: per order none, held or released

vars == <<consumers, payments>>

\* The code tells held from not held; that a payment was once held is auxiliary.
PaymentStates == {"none", "held", "released"}

-----------------------------------------------------------------------------
Answer(type, o) == Message("payment-events", type, o)

\* A payment that is held is confirmed again; otherwise rand decides, each time anew.
ReservePayment(t) ==
    LET o == InHand(t).order
    IN  /\ Begin(t)
        /\ InHand(t).type = "ReservePayment"
        /\ \/ /\ payments[o] = "held"
              /\ UNCHANGED payments
              /\ GoPublish(t, Answer("PaymentReserved", o))
           \/ /\ payments[o] # "held"
              /\ payments' = [payments EXCEPT ![o] = "held"]
              /\ GoPublish(t, Answer("PaymentReserved", o))
           \/ /\ payments[o] # "held"
              /\ UNCHANGED payments
              /\ GoPublish(t, Answer("PaymentFailed", o))
        /\ UNCHANGED <<topics, faults>>

\* Mutant: the payment is not deleted.
AfterForgottenDelete(state) == state

\* A payment that is not there cannot be deleted, and that is no error.
AfterDelete(state) == IF state = "held" THEN "released" ELSE state

CancelPayment(t) ==
    LET o == InHand(t).order
    IN  /\ Begin(t)
        /\ InHand(t).type = "CancelPayment"
        /\ payments' = [payments EXCEPT ![o] = AfterDelete(@)]
        /\ GoPublish(t, Answer("PaymentCancelled", o))
        /\ UNCHANGED <<topics, faults>>

Handling == \E t \in Reads : ReservePayment(t) \/ CancelPayment(t)

-----------------------------------------------------------------------------
(* The consumer around the handler *)

Consuming == /\ \E t \in Reads : Commit(t) \/ CommitError(t)
             /\ UNCHANGED payments

Deduplicating == /\ \E t \in Reads : SkipDuplicate(t)
                 /\ UNCHANGED payments

Publishing == /\ \E t \in Reads : Publish(t) \/ PublishTwice(t)
              /\ UNCHANGED payments

\* The handler returns the error of the producer and is called again as a whole.
Retrying == /\ \E t \in Reads : PublishError(t)
            /\ UNCHANGED payments

DeadLettering == /\ \E t \in Reads : DeadLetter(t) \/ DeadLetterError(t)
                 /\ UNCHANGED payments

RestartService == Restart /\ payments' = [o \in Orders |-> "none"]

-----------------------------------------------------------------------------
Init ==
    /\ ConsumersInit
    /\ payments = [o \in Orders |-> "none"]

Working == Handling \/ Consuming \/ Deduplicating \/ Publishing \/ DeadLettering

Next == Working \/ Retrying \/ RestartService

TypeOK ==
    /\ ConsumersTypeOK
    /\ payments \in [Orders -> PaymentStates]
=============================================================================
