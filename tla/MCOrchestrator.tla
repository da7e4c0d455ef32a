--------------------------- MODULE MCOrchestrator ---------------------------
(* Orchestrator for TLC: the threads of one replica and one or two sagas. *)
EXTENDS Orchestrator

CONSTANTS s1, s2, commands, payments, inventory, worker

OneSaga == {s1}
TwoSagas == {s1, s2}
OneCommandConsumer == {commands}
OnePaymentConsumer == {payments}
OneInventoryConsumer == {inventory}
OneWorker == {worker}
=============================================================================
