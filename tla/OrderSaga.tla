----------------------------- MODULE OrderSaga -----------------------------
(***************************************************************************)
(* What both variants are for: an order, its payment and its reservation   *)
(* come to a joint end.  An order is confirmed with both in place, or      *)
(* cancelled with neither; until then it is pending, and a payment whose   *)
(* reservation cannot be had is given back.                                *)
(***************************************************************************)
CONSTANT Orders

VARIABLES
    status,   \* per order: none, pending, confirmed or cancelled
    payment,  \* per order: none, held or released
    reserved  \* per order: is there a reservation

vars == <<status, payment, reserved>>

Init == /\ status = [o \in Orders |-> "none"]
        /\ payment = [o \in Orders |-> "none"]
        /\ reserved = [o \in Orders |-> FALSE]

Decide(o, outcome) == status' = [status EXCEPT ![o] = outcome] /\ UNCHANGED <<payment, reserved>>

Place(o) == status[o] = "none" /\ Decide(o, "pending")

Pay(o) == /\ status[o] = "pending"
          /\ payment[o] = "none"
          /\ payment' = [payment EXCEPT ![o] = "held"]
          /\ UNCHANGED <<status, reserved>>

Reserve(o) == /\ status[o] = "pending"
              /\ payment[o] = "held"
              /\ ~reserved[o]
              /\ reserved' = [reserved EXCEPT ![o] = TRUE]
              /\ UNCHANGED <<status, payment>>

Release(o) == /\ status[o] = "pending"
              /\ payment[o] = "held"
              /\ ~reserved[o]
              /\ payment' = [payment EXCEPT ![o] = "released"]
              /\ UNCHANGED <<status, reserved>>

Confirm(o) == /\ status[o] = "pending"
              /\ payment[o] = "held"
              /\ reserved[o]
              /\ Decide(o, "confirmed")

Cancel(o) == /\ status[o] = "pending"
             /\ payment[o] # "held"
             /\ ~reserved[o]
             /\ Decide(o, "cancelled")

Proceed(o) == Pay(o) \/ Reserve(o) \/ Release(o) \/ Confirm(o) \/ Cancel(o)

Next == \E o \in Orders : Place(o) \/ Proceed(o)

Spec == Init /\ [][Next]_vars

\* An order that was placed is decided.
LiveSpec == Spec /\ \A o \in Orders : WF_vars(Proceed(o))
=============================================================================
