----------------------- MODULE MCChoreographyConsumer -----------------------
(* ChoreographyConsumer for TLC: a repeated event and one without a handler. *)
EXTENDS ChoreographyConsumer

CONSTANTS e1, e2, other

Events == {e1, e2, other}
Handled == {e1, e2}
Partition == <<e1, other, e2, e1>>
=============================================================================
