---------------------------- MODULE SagaMachine ----------------------------
(***************************************************************************)
(* The state machine of the saga orchestrator: the states of a saga, the   *)
(* transition table an event is looked up in, what the timeout worker does *)
(* with a saga whose step timed out, and the diagram the HTTP interface    *)
(* shows.  There is no variable here: Orchestrator.tla gives these tables  *)
(* a store, threads and messages.                                          *)
(***************************************************************************)

PendingStates  == {"PAYMENT_PENDING", "INVENTORY_PENDING", "CANCEL_PAYMENT_PENDING"}
TerminalStates == {"COMPLETED", "FAILED"}
SagaStates     == PendingStates \cup TerminalStates

Commands       == {"ReservePayment", "ReserveInventory", "CancelPayment"}
TerminalEvents == {"SagaCompleted", "SagaFailed"}
MessageTypes   == Commands \cup TerminalEvents

PaymentEvents   == {"PaymentReserved", "PaymentFailed", "PaymentCancelled"}
InventoryEvents == {"InventoryReserved", "InventoryFailed"}

Transition(from, event, to, action) ==
    [from |-> from, event |-> event, to |-> to, action |-> action]

(***************************************************************************)
(* The transition table.  An action is the message published once the new  *)
(* state is persisted.                                                     *)
(***************************************************************************)
\* Mutant: the compensation edge forgets to cancel and fails the saga at once.
TransitionsWithoutCompensation ==
    { Transition("PAYMENT_PENDING",   "PaymentReserved",   "INVENTORY_PENDING", "ReserveInventory"),
      Transition("PAYMENT_PENDING",   "PaymentFailed",     "FAILED",            "SagaFailed"),
      Transition("INVENTORY_PENDING", "InventoryReserved", "COMPLETED",         "SagaCompleted"),
      Transition("INVENTORY_PENDING", "InventoryFailed",   "FAILED",            "SagaFailed") }

\* Mutant: payment alone completes the saga.
TransitionsSkippingInventory ==
    { Transition("PAYMENT_PENDING", "PaymentReserved", "COMPLETED", "SagaCompleted"),
      Transition("PAYMENT_PENDING", "PaymentFailed",   "FAILED",    "SagaFailed") }

Transitions ==
    { Transition("PAYMENT_PENDING",        "PaymentReserved",   "INVENTORY_PENDING",      "ReserveInventory"),
      Transition("PAYMENT_PENDING",        "PaymentFailed",     "FAILED",                 "SagaFailed"),
      Transition("INVENTORY_PENDING",      "InventoryReserved", "COMPLETED",              "SagaCompleted"),
      Transition("INVENTORY_PENDING",      "InventoryFailed",   "CANCEL_PAYMENT_PENDING", "CancelPayment"),
      Transition("CANCEL_PAYMENT_PENDING", "PaymentCancelled",  "FAILED",                 "SagaFailed") }

\* The transitions an event has from a state: one at most, none when the event is skipped.
Apply(state, event) == {t \in Transitions : t.from = state /\ t.event = event}

\* Mutant: a payment that cannot be cancelled is left to its retries for ever.
TimeoutTransitionsWithoutCompensation ==
    { Transition("PAYMENT_PENDING",   "Timeout", "FAILED",                 "SagaFailed"),
      Transition("INVENTORY_PENDING", "Timeout", "CANCEL_PAYMENT_PENDING", "CancelPayment") }

\* What the timeout worker does when a step has no retries left.
TimeoutTransitions ==
    { Transition("PAYMENT_PENDING",        "Timeout", "FAILED",                 "SagaFailed"),
      Transition("INVENTORY_PENDING",      "Timeout", "CANCEL_PAYMENT_PENDING", "CancelPayment"),
      Transition("CANCEL_PAYMENT_PENDING", "Timeout", "FAILED",                 "SagaFailed") }

\* The command the timeout worker sends again while retries are left.
ResendCommand(state) ==
    CASE state = "PAYMENT_PENDING"        -> "ReservePayment"
      [] state = "INVENTORY_PENDING"      -> "ReserveInventory"
      [] state = "CANCEL_PAYMENT_PENDING" -> "CancelPayment"

\* Mutant: the compensation step is given no deadline.
StepDeadlineForgetsCompensation(state) ==
    IF state = "INVENTORY_PENDING" THEN "ahead" ELSE "nil"

\* A step that waits for an answer gets a fresh deadline, a terminal state none.
StepDeadline(state) ==
    IF state \in {"INVENTORY_PENDING", "CANCEL_PAYMENT_PENDING"} THEN "ahead" ELSE "nil"

Edge(from, to, event) == [from |-> from, to |-> to, event |-> event]

\* The edges of the state diagram served over HTTP.
DiagramTransitions ==
    { Edge("STARTED",                "PAYMENT_PENDING",        "StartSaga"),
      Edge("PAYMENT_PENDING",        "INVENTORY_PENDING",      "PaymentReserved"),
      Edge("PAYMENT_PENDING",        "FAILED",                 "PaymentFailed"),
      Edge("INVENTORY_PENDING",      "COMPLETED",              "InventoryReserved"),
      Edge("INVENTORY_PENDING",      "CANCEL_PAYMENT_PENDING", "InventoryFailed"),
      Edge("CANCEL_PAYMENT_PENDING", "FAILED",                 "PaymentCancelled"),
      Edge("PAYMENT_PENDING",        "FAILED",                 "Timeout"),
      Edge("INVENTORY_PENDING",      "CANCEL_PAYMENT_PENDING", "Timeout"),
      Edge("CANCEL_PAYMENT_PENDING", "FAILED",                 "Timeout") }
=============================================================================
