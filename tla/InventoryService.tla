-------------------------- MODULE InventoryService --------------------------
(***************************************************************************)
(* inventory-service of the orchestrated variant: it answers               *)
(* ReserveInventory.  Reservations live in memory, one per correlation id, *)
(* and there is no command that takes one back.                            *)
(***************************************************************************)
EXTENDS ServiceConsumers

VARIABLE
    reservations  \* the store: the orders with a reservation

vars == <<consumers, reservations>>

-----------------------------------------------------------------------------
Answer(type, o) == Message("inventory-events", type, o)

\* A reservation that exists is confirmed again; otherwise rand decides, each time anew.
ReserveInventory(t) ==
    LET o == InHand(t).order
    IN  /\ Begin(t)
        /\ \/ /\ reservations' = reservations \cup {o}
              /\ GoPublish(t, Answer("InventoryReserved", o))
           \/ /\ o \notin reservations
              /\ UNCHANGED reservations
              /\ GoPublish(t, Answer("InventoryFailed", o))
        /\ UNCHANGED <<topics, faults>>

Handling == \E t \in Reads : ReserveInventory(t)

-----------------------------------------------------------------------------
(* The consumer around the handler *)

Consuming == /\ \E t \in Reads : Commit(t) \/ CommitError(t)
             /\ UNCHANGED reservations

Deduplicating == /\ \E t \in Reads : SkipDuplicate(t)
                 /\ UNCHANGED reservations

Publishing == /\ \E t \in Reads : Publish(t) \/ PublishTwice(t)
              /\ UNCHANGED reservations

\* The handler returns the error of the producer and is called again as a whole.
Retrying == /\ \E t \in Reads : PublishError(t)
            /\ UNCHANGED reservations

DeadLettering == /\ \E t \in Reads : DeadLetter(t) \/ DeadLetterError(t)
                 /\ UNCHANGED reservations

RestartService == Restart /\ reservations' = {}

-----------------------------------------------------------------------------
Init ==
    /\ ConsumersInit
    /\ reservations = {}

Working == Handling \/ Consuming \/ Deduplicating \/ Publishing \/ DeadLettering

Next == Working \/ Retrying \/ RestartService

TypeOK ==
    /\ ConsumersTypeOK
    /\ reservations \in SUBSET Orders
=============================================================================
