-------------------------- MODULE MCOrchestration --------------------------
(* Orchestration for TLC: one order, the timeout worker and the faults of a run. *)
EXTENDS Orchestration

CONSTANTS o1, worker

OneOrder == {o1}
OneWorker == {worker}
WithoutFaults == {}
OutageFaults == {"publish", "read", "crash", "dlq"}
AllFaults == {"publish", "unsure", "twice", "commit", "dlq", "crash", "read", "call"}

-----------------------------------------------------------------------------
(* Bounds of MCOrchestration.cfg: a fault, or sagas found overdue, but not both in one *)
(* behaviour, and the latter no more often than MaxExpiries.                           *)

MaxExpiries == 2

Overdue == \E o \in Orders : Orch!Exists(o) /\ sagas[o].stepDeadline = "past"

Bounded ==
    /\ Cardinality(Expiries) <= MaxExpiries
    /\ Overdue \/ Expiries # {} => faults.all + orchFaults = 0

SpecApart == Init /\ [][Next /\ Bounded']_vars
=============================================================================
