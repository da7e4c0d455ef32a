--------------------------- MODULE SagaLifecycle ---------------------------
(***************************************************************************)
(* What the orchestrator promises about one saga, whatever the threads,    *)
(* retries, timeouts and crashes behind it: it is started once, it comes   *)
(* to one outcome and keeps it, and what is announced to order-api is that *)
(* outcome, after it is decided and at most once.                          *)
(***************************************************************************)
CONSTANT Sagas

VARIABLES
    outcome,    \* per saga: none, running, completed or failed
    announced   \* per saga: the outcomes order-api has been told

vars == <<outcome, announced>>

Outcomes == {"completed", "failed"}

Init == /\ outcome = [s \in Sagas |-> "none"]
        /\ announced = [s \in Sagas |-> {}]

Start(s) == /\ outcome[s] = "none"
            /\ outcome' = [outcome EXCEPT ![s] = "running"]
            /\ UNCHANGED announced

Finish(s) == /\ outcome[s] = "running"
             /\ \E o \in Outcomes : outcome' = [outcome EXCEPT ![s] = o]
             /\ UNCHANGED announced

Announce(s) == /\ outcome[s] \in Outcomes
               /\ announced[s] = {}
               /\ announced' = [announced EXCEPT ![s] = {outcome[s]}]
               /\ UNCHANGED outcome

Next == \E s \in Sagas : Start(s) \/ Finish(s) \/ Announce(s)

Spec == Init /\ [][Next]_vars

\* A saga that was started is finished; the announcement is not promised.
LiveSpec == Spec /\ \A s \in Sagas : WF_vars(Finish(s))
=============================================================================
