---------------------- MODULE ChoreoInventoryService ----------------------
(***************************************************************************)
(* inventory-service of the choreographed variant: PaymentReserved makes a *)
(* reservation or fails.  Reservations live in memory, under ids of their  *)
(* own: an order may have several.                                         *)
(***************************************************************************)
EXTENDS ServiceConsumers

VARIABLE
    reservations  \* the store: how many reservations an order has

vars == <<consumers, reservations>>

-----------------------------------------------------------------------------
\* rand and chaosMode decide; each call decides anew.
HandlePaymentReserved(t) ==
    LET o == InHand(t).order
    IN  /\ Begin(t)
        /\ \/ /\ reservations' = [reservations EXCEPT ![o] = @ + 1]
              /\ GoPublish(t, Message("inventory-events", "InventoryReserved", o))
           \/ /\ UNCHANGED reservations
              /\ GoPublish(t, Message("inventory-events", "InventoryFailed", o))
        /\ UNCHANGED <<topics, faults>>

Handling == \E t \in Reads : HandlePaymentReserved(t)

-----------------------------------------------------------------------------
(* The consumer around the handler *)

Consuming == /\ \E t \in Reads : Skip(t) \/ Commit(t) \/ CommitError(t)
             /\ UNCHANGED reservations

Deduplicating == /\ \E t \in Reads : SkipDuplicate(t)
                 /\ UNCHANGED reservations

Publishing == /\ \E t \in Reads : Publish(t) \/ PublishTwice(t)
              /\ UNCHANGED reservations

\* The handler returns the error of the producer and is called again as a whole.
Retrying == /\ \E t \in Reads : PublishError(t)
            /\ UNCHANGED reservations

DeadLettering == /\ \E t \in Reads : DeadLetter(t) \/ DeadLetterError(t)
                 /\ UNCHANGED reservations

RestartService == Restart /\ reservations' = [o \in Orders |-> 0]

-----------------------------------------------------------------------------
Init ==
    /\ ConsumersInit
    /\ reservations = [o \in Orders |-> 0]

Working == Handling \/ Consuming \/ Deduplicating \/ Publishing \/ DeadLettering

Next == Working \/ Retrying \/ RestartService

TypeOK ==
    /\ ConsumersTypeOK
    /\ reservations \in [Orders -> Nat]
=============================================================================
