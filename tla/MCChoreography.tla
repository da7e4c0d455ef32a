--------------------------- MODULE MCChoreography ---------------------------
(* Choreography for TLC: one order and the faults of a run. *)
EXTENDS Choreography

CONSTANT o1

OneOrder == {o1}
PublishFaults == {"publish"}
AllFaults == {"publish", "unsure", "twice", "commit", "dlq", "crash", "read"}
=============================================================================
