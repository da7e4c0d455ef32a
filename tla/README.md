# Specifications of saga-pattern-go

The repository implements one business transaction, an order that needs a payment and an
inventory reservation, twice: as a saga with a central orchestrator and as a choreography of
services that react to each other's events. This directory holds TLA+ specifications of it, TLC
configurations that check them on small instances, and proofs that TLAPS checks for all.

Paths are relative to `src/`. Run the tools in this directory, for example

    tlc -workers 2 -config MCOrchestratorSafety.cfg MCOrchestrator
    tlapm OrchestratorProofs.tla

## Inventory

### Orchestrated variant (`orchestration/`)

| component | state | operations | talks to |
|---|---|---|---|
| saga-orchestrator | tables `sagas`, `saga_history` in PostgreSQL | StartSaga, HandleEvent, CheckTimeouts | consumes `saga-commands`, `payment-events`, `inventory-events`; publishes commands to payment and inventory and results to `saga-events` |
| order-api | orders, in memory | create order, handle result | publishes StartSaga, consumes `saga-events` |
| payment-service | payments by correlation id, in memory | reserve, cancel | consumes `payment-commands`, publishes `payment-events` |
| inventory-service | reservations by correlation id, in memory | reserve | consumes `inventory-commands`, publishes `inventory-events` |
| Kafka consumer (the same code in all four) | reader position, retry budget | fetch, retry, dead-letter, commit | the handler, the DLQ, the group's offset |
| deduplicator (the same code in all four) | ids with expiry, in memory, one per process | CheckAndMark, Unmark | wraps the handlers |

Hard here: three consumers and the timeout worker update the same row under an optimistic lock
on `updated_at`; persisting and publishing are two steps with no outbox; the worker acts on
snapshots; commands are resent and answers come late or twice; any call may fail, also after it
took effect; a crash forgets everything but the database and Kafka. It is correct if no update is
lost, a message is sent only for a persisted state and once per write, a saga has one outcome,
every saga settles without its participants, and retries are bounded. The consumer is correct if
the group's offset never passes a message that was neither handled nor dead-lettered, and
duplicates are filtered as far as the memory reaches.

### Choreographed variant (`choreography/`)

| component | state | operations |
|---|---|---|
| order-service | orders, in memory | create order and publish OrderCreated; InventoryReserved confirms, PaymentFailed and PaymentRolledBack cancel |
| payment-service | payments and an index by order, in memory | OrderCreated reserves or fails, InventoryFailed rolls back |
| inventory-service | reservations, in memory | PaymentReserved reserves or fails |
| Kafka consumer, deduplicator | as above, in a variant that leaves the loop when it is cancelled | |

Hard here: no timeout and no coordinator; effects are not idempotent per order, only per message
id; two topics update the order with no order between them. It is correct if an order ends
confirmed or cancelled, confirmed only with payment and reservation, cancelled with no payment
left - for which duplicates and failed publishes must be looked at.

### Around them

Helm charts and compose files (one partition per topic, one orchestrator replica), configuration,
telemetry, health endpoints, an integration test and an in-memory saga store for unit tests keep
no state of a saga and are not modelled. The SQL access code generated from `queries/` is the
body of the store's operations and is modelled with them.

`PROJECT.json` lists every component with its status, and every hazard with its line and the
properties that guard it.

## Modules

| module | models |
|---|---|
| `SagaMachine` | the tables: transitions (`saga/orchestrator.go`), the worker's switch (`saga/timeout_worker.go`), the diagram (`handler/diagram.go`) |
| `Orchestrator` | the orchestrator process on its store and topics |
| `SagaLifecycle` | what the orchestrator promises about a saga; an abstract specification |
| `OrchestratorProofs`, `OrchestratorBoundsProofs` | theorems about `Orchestrator` |
| `KafkaConsumer`, `KafkaConsumerProofs` | the orchestrated variant's consumer loop of one topic with deduplicator, budget, DLQ and offsets; theorems about it |
| `ChoreographyConsumer`, `ChoreographyConsumerProofs` | the same loop as the choreographed variant has it; theorems about it |
| `ServiceConsumers`, `ServiceConsumersProofs` | the consumers of one service process around its handlers, as the services extend them; lemmas about them for any handler |
| `OrderSaga` | what an order, its payment and its reservation should do together; the abstract specification of both variants |
| `ChoreoOrderService`, `ChoreoPaymentService`, `ChoreoInventoryService` | the services of the choreographed variant |
| `Choreography`, `ChoreographyProofs` | the three of them and their topics; theorems about the whole |
| `OrderApi`, `PaymentService`, `InventoryService` | the services around the orchestrator |
| `Orchestration`, `OrchestrationProofs`, `OrchestrationSagaProofs` | the three of them, `Orchestrator` with consumers around its threads, and the topics; theorems about the whole: what results agree with, and how it is the order saga |
| `MC*` | values and bounds for TLC |

`Choreography` and `Orchestration` take the services by INSTANCE, each with its own consumers and
store, over one variable `topics` and one count of `faults`.

### Orchestrator

`sagas` and `history` are the tables, `published` every message written to Kafka, `job[t]` what
thread `t` holds between two calls, `batch[w]` the rest of the list a worker is processing.

A handler is cut at its I/O, because that is where another thread can come between:

| step | code |
|---|---|
| `StartSaga`, `StartSagaLosesReply` | `Create`, succeeding or losing its reply |
| `HandleEvent` | `Get`, `Machine.Apply`, `setStepDeadline` |
| `CheckTimeouts`, `RetrySaga`, `ExhaustSaga` | `ListTimedOut` and, per saga, `processSaga` up to its `Update` |
| `UpdateSaga`, `SkipModified`, `UpdateError` | `Update`: a row, no row, an error (with or without effect) |
| `RecordHistory` | `recordHistory`, written or failed; not for a retry |
| `Publish` | the action, written or failed |
| `DeadlinePasses` | the clock passes `step_deadline` |
| `Crash` | all jobs and batches are forgotten |

The last four rows of a job are the same code path for a consumer and for the worker, so they are
one set of actions over the threads. The paths where the code changes nothing (unknown saga,
failed `Get`, no transition, a second StartSaga that violates the unique index, a message that
does not parse) are stuttering steps.

What is assumed, all of it visible in the module:

* `updated_at` is a counter per row. The code compares timestamps set by `NOW()`; two writes of a
  row in the same microsecond of the database clock are not modelled.
* An answer may be delivered whenever its command was published once: any result, any number of
  times, in any order, late, or never. This covers redelivery, duplicates under fresh ids and the
  participants' random outcome; it is more than the real participants do.
* `Crash` clears every thread, which is the single replica the chart deploys. The thread sets are
  parameters, so the proofs cover more consumers and workers of that one process.
* A deadline is ahead or past; how long is left does not matter to any property.

`writes` is auxiliary: every write ever committed to a row. Nothing reads it.

### KafkaConsumer

The log is a sequence of envelope ids, the handler succeeds or fails as it likes, and `committed`
and `dlq` are the only state that survives a restart. A message without an id or that does not
parse goes past the deduplicator; it behaves like a message whose id does not repeat. Auxiliary:
`handled`, `lapses`, `dropped`, `succeeded`, `spent`; `lapses` counts per id what costs the memory
- a new process, stopped or crashed before, and an expired mark - and leaves out the other faults. `HandleFailure` includes the decision on the next
retry because the budget is taken directly after the failed call. Rebalancing of the group is not
modelled: one consumer owns the partition.

### ChoreographyConsumer

The choreographed copy of the consumer differs where it matters. An event of a type without a
handler (`Known`) is committed unseen. A cancelled context makes the loop return with the message
in hand (`Interrupt`) where the orchestrated one dead-letters it. And `main` closes the reader and
the DLQ writer without waiting for the loop (`Close`): from then on no commit succeeds, and the DLQ
write, which does not follow the cancellation, may. `Restart` is the service started again after
`Start` has returned; that, an interrupted loop and a crash each count as a lapse of memory.

### ServiceConsumers and the services

The two modules above look at one loop in isolation. `ServiceConsumers` is as much of it as another
service can notice, for all topics a process reads: `loop[t]` is one consumer with its offset, its
reader, its retry and the message its handler has still to publish; `seen` is the deduplicator all
of them share. The steps follow a message:

| step | code |
|---|---|
| `Skip`, `SkipDuplicate` | no handler for the type; the id is marked already |
| `Begin`, `Mark`, then the service's handler | `CheckAndMark` and the handler up to its publish |
| `Publish`, `PublishTwice`, `PublishError` | the producer: written, written twice by a repeated request, failed with or without effect |
| `Finish`, `Fail`, `Unmark` | the handler's result: commit next, or retry, or dead-letter |
| `DeadLetter`, `DeadLetterError`, `Commit`, `CommitError` | as in the loops above |
| `Restart` | the process ends and starts again: marks and stores are empty, groups resume at their commits |

The fetch is one step with what follows, since a message fetched and not begun is as good as not
fetched. The retry budget is left out: its capacity of 100 outlasts any behaviour within the bounds,
and `KafkaConsumer` checks it. A fault is of one of the kinds in `AllFaultKinds`; `twice` and
`commit` are harmless, as deduplication and redelivery make up for them. `StillDown` lets the
attempts that retry a failed publish fail too, as part of the same fault: an outage may so outlast
the retries and end in the dead-letter topic.

Two details of the loops are left to the modules that look at one loop. A shutdown is a `Restart`
like any other: that the orchestrated copy dead-letters, and may commit, the message whose backoff
it cancels (`consumer.go:126`) is not a step of its own here. Where the handler failed to publish,
`StillDown`, the dead letter, its commit and a `Restart` come to the same. And a dead letter that is
written although the writer reports an error is not told apart from one that is not: both set
`untold`, and `PublishedIsDecided` claims nothing of an order in either case.

Each service adds its store and its handlers. Random outcomes and the chaos mode are free choices
made anew at each call. Two values are auxiliary: an order is `LOST` once the process that held it
was restarted (the code just does not find it), and a payment is `released` where the code of the
orchestrated variant has deleted it. An HTTP request creates the order and publishes in two steps.
If the publish fails, the choreographed order-service answers 500 and keeps the order as PENDING;
order-api logs the error and answers 201.

In `Orchestration` a thread of `Orchestrator` is named by the topic it consumes, and its job is the
handler's work between `Begin` and `Finish`: the actions of `Orchestrator` are conjoined with what
they do to the consumer and the topics. `Orchestrator` by itself lets an event come whenever
`Deliverable`; here it comes from the topic, and `AnswersAreSolicited` shows that what comes is
always `Deliverable`: what was checked and proved of `Orchestrator` alone left out no behaviour of
the participants, and it carries over. (`Orchestrator`'s own faults, the failed calls and crashes
of the orchestrator, are the kind `call`.)

## Runs

| run | question | instance | result |
|---|---|---|---|
| `safety` | do the orchestrator's safety properties and the inductive invariant hold under every interleaving, failure and crash | 1 saga, 3 consumers, 1 worker, 2 retries, 2 faults; 313 293 states | holds |
| `liveness` | is a lost start retried; does the orchestrator implement `SagaLifecycle` with liveness | 1 saga, 2 retries, 1 fault; 73 569 states | holds |
| `two_sagas` | does each saga settle when two share threads and the worker's batch | 2 sagas, 0 retries, 1 fault; 395 135 states | holds |
| `result` | is a result sent for every terminal saga (`events.go:47`) | 1 saga, 1 retry, 1 fault | refuted |
| `consumer` | offsets, duplicates, budget, progress | log a b a, 2 retries, budget 2, 3 faults; 128 963 states | holds |
| `consumer_dlq` | is a message left behind retried on restart (`consumer.go:86`) | one retry, one fault | refuted |
| `choreography_consumer` | offsets, duplicates, dead letters and shutdown in the choreographed copy | log e1 other e2 e1, 2 retries, budget 2, 3 faults; 70 403 states | holds |
| `choreography` | do the three services implement `OrderSaga`; what do faults repeat or leave behind; is a published order decided | 1 order, 1 retry, 1 fault of any kind; 76 772 states | holds |
| `choreography_compensation` | does the compensation find the payment (`inventory_failed.go:16`) | 1 order, 1 failed publish | refuted |
| `orchestration` | do the four services implement `OrderSaga`; does the order agree with the saga; what does the worker leave behind | 1 order, 1 retry of the saga and of the handlers, 1 fault of any kind or 2 expiries; 211 943 states | holds |
| `orchestration_outage` | is a started order decided | 1 order, no retries, 1 outage or restart of a participant, deadlines that pass; 179 743 states | holds |
| `orchestration_resend` | is the payment of a compensated saga cancelled (`orchestrator.go:87`) | 1 order, 1 retry, no fault | refuted |

Bounds of the first six. One saga suffices for the rows, since all properties but `SagasSettle`
speak of one saga at a time and threads only meet on a row; two sagas are needed for the worker's
batch. Two retries give a first, a last and an exhausted one in each state; the retry count crosses
from payment to inventory. Two faults allow an ambiguous update followed by a lost message, or a
crash in the handling of a failure. `MaxFaults` bounds the failed calls and crashes of a behaviour;
without it every call could fail for ever and nothing would settle. In the consumers, a repeated id
gives a duplicate in one process, across a restart and past an expiry, and a budget of two is spent
by one message.

Bounds of the compositions. One order, because every handler, row and store entry belongs to one
order and consumers of different orders only wait for each other; a message of another order adds
delay, which a consumer that has not taken its next step shows as well. One retry of a handler
gives a success after a failure and a dead letter after two. One fault is enough to duplicate, lose
or repeat every step of the chain; that repetitions multiply takes two, which no run in the table
has and the proofs cover. More runs were done by hand: `Choreography` with no and with two retries,
without liveness with two faults (3.76 million states), and, for as long as there was time, with
three crashes (5.3 million) and with two failed publishes and two retries (1.8 million);
`Orchestration` with all expiries that one retry allows (519 819 states). All hold. `orchestration`
does not combine a fault with an expired deadline - `SpecApart` in `MCOrchestration` keeps them
apart, since together they are beyond a short run. `orchestration_outage` does, for the faults that
make deadlines pass in practice, without retries: a saga is given up at its first deadline there,
and nothing is resent. Resending with faults is covered by `safety` and `liveness` against
arbitrary answers, and in the composition by the proofs. A message the worker sends is never doubled by its writer within these bounds.

Deadlock is not checked, because every system here may come to rest: the orchestrator when all
sagas are settled, a consumer at the end of its log, the compositions when no message is left.

### Properties of the orchestrator and the consumers

* `PublishedAfterPersist`: each message belongs to a committed write of the state it is about, and
  no write has two.
* `NoLostUpdate`: the writes of a row form a chain, each computed from the row it replaced.
* `OneOutcome`: one result at most, and the stored one.
* `CompletionIsEarned`: SagaCompleted only after both reservations were requested and no cancel.
* `OnePathPerSaga`: a saga leaves each state once and reaches none without the steps before it.
* `HistoryIsPersisted`, `DiagramComplete`: history and diagram agree with the writes.
* `PendingHasDeadline`: what waits can time out.
* `MessagesBounded`: at most `2 * MaxRetries + 4` writes, and so messages, per saga.
* `TimeoutAfterRetries`: the row a timeout replaces has no retries left, not only the snapshot.
* `SagasSettle`, `LostStartIsRetried`, `ImplementsLiveLifecycle`: liveness.
* `CommittedIsSettled`: the group passes over no message that was neither handled nor
  dead-lettered, unless its dead letter could not be written - for the choreographed copy even when
  the reader is closed under the loop. `EffectsBounded`: the handler succeeds once
  for an id, and once more for each time the process was started anew or the mark expired; failed
  commits and dead letters, retries and copies in the log give no further success. `RetriesWithinBudget`, `CommitsAdvance`, `ReaderComesThrough`.
* `DeadLetteredIsExhausted`: no shutdown dead-letters a message that has retries left.
  `ShutdownEnds`: a shutdown ends wherever it catches the loop.

### Properties of the two variants

* `ImplementsOrderSaga`, of both: an order is confirmed with payment and reservation in place, or
  cancelled with neither, and the steps on the way are those of `OrderSaga`. In the choreography
  this holds as long as nothing worse than harmless faults happened; in the orchestration the
  orchestrator's own faults are allowed, too, which can only leave a saga where it is, but no saga
  may have been found overdue. It is a refinement by an abstract specification they share,
  though one has a coordinator and the other has none. What happens otherwise is the subject of the
  next ones.
* `RepetitionBounded` (choreography): handlers repeat their effects on a retry and after a restart,
  and a restart further down repeats the repetitions, too. With h harmful faults there are at most
  1 + h answers of payment-service, (1+h)(2+h)/2 of inventory-service and (1+h)(2+h)(3+h)/6
  rollbacks. `LeftoversBounded`: what is stored for an order, announced or not, is bounded by the
  attempts that could fail. `MindChangesNeedRepetition`: the two topics order-service hears may
  contradict each other only if a service executed its step twice.
  `EventsAreCaused`: faults invent nothing.
* `PublishedIsDecided` (choreography): an order whose OrderCreated was written is decided, or lost
  with its process, or a dead letter tells of it - unless the dead letter could not be written.
* `AnswersAreSolicited`, `OrderAgreesWithSaga`, `ConfirmedIsPaid` (orchestration): the environment
  assumed by `Orchestrator`; order-api, which overwrites without looking, agrees with the saga; a
  confirmed order has both reservations whatever was resent.
* `LeaksNeedTimeouts` (orchestration): without faults of the participants a cancelled order keeps a
  payment or a reservation only where the worker gave up on the step or sent it again, whatever
  calls of the orchestrator fail.
* `StartedIsDecided` (orchestration): lost answers, restarts of the participants, dead letters and
  skipped events delay the decision but do not prevent it.

### Fairness

`Fairness` of `Orchestrator`: a thread that holds a job takes its next step (a goroutine is not
suspended for ever, and calls return), the worker polls (`Run` is a ticker loop) and works off its
list, and the clock passes every deadline. No fairness is given to deliveries: the participants
may stay silent for ever. `KafkaConsumer`, `ChoreographyConsumer`: the loop goes on and a stopped
service is started again; failures have no fairness, and a handler may fail every time.
`Choreography`: each service goes on while it can. `Orchestration`: the system goes on while any
part of it can, the clock included: it demands no more than that the step which happens next is
not put off for ever. In none of them does a client have to place an order, or a fault have to happen.

### Disagreements between text and code

1. `consumer.go:86` logs "DLQ unavailable, offset not committed - will retry on restart". The loop
   goes on to the next message, and committing that one moves the group past the first
   (`consumer_dlq`).
2. `events.go:47` says of the result that it "is sent to order-api when a saga reaches a terminal
   state". If the publish after the last update fails or the process dies before it, nothing sends
   it: a redelivered event finds no transition from a terminal state, and the worker lists pending
   sagas only (`result`). `SagaLifecycle` therefore does not promise the announcement.
3. `choreography/payment-service/internal/handler/inventory_failed.go:16` says that InventoryFailed
   is handled "by rolling back payment". When the publish of PaymentReserved fails, the retry makes
   a second payment; the index by order knows only the newest, and only that one is rolled back
   (`choreography_compensation`).
4. `orchestrator.go:87` gives as the reason of a failed saga "payment cancelled after inventory
   failure". The worker updates the row and then publishes the resent ReservePayment; if it is held
   up in between, the command arrives after the payment was cancelled and reserves it again, without
   any fault (`orchestration_resend`).

Three hazards have no property, because the code does nothing about them: a quantity beyond int32
makes `Create` fail for ever (`postgres_store.go:205`); a shutdown dead-letters a message that has
retries left (`consumer.go:128`; `AbandonRetry` models it, and the choreographed copy no longer does
it); order-api tells the client 201 although StartSaga was not published (`http.go:88`), and that
order stays PENDING. `StartedIsDecided`
therefore starts from a StartSaga that was written, with a quantity in range.

## Proofs

### Orchestrator

For all sets of sagas and threads, all numbers of retries and of faults, from
`RetriesAssumption` and `FaultsAssumption` (the two limits are natural numbers), in
`OrchestratorProofs`:

* `TypeCorrect`, `Invariance` (`Spec => []IInv`), and from it `OptimisticLocking`,
  `PersistBeforePublish`, `HistoryIsTrue`, `SingleOutcome`, `TimeoutsComeLast`;
* `Refinement`: `Spec => ImplementsLifecycle`, the safety of `SagaLifecycle`.

None of these is inductive, since each depends on what a thread holds between two
calls. `IInv` adds that. A job not yet written was computed from a row that existed, and if the row
has the same `updatedAt` it still has the same state (`Seen`): this is why passing the optimistic
lock means that nothing happened in between. A job already written has its write in the store and
no message yet (`WrittenJob`), and no two threads follow up the same write (`OneFollowUp`): hence
one message per write. The worker's snapshots obey the same (`BatchesAreSound`), which also keeps
the retry count and gives `TimeoutAfterRetries`. A write of a terminal state is the last of its
saga (`OutcomeIsLast`), because no job leaves a terminal state: hence one result. The step proof is
divided by what an action does to the store - nothing (`QuietStep`), update, insert, record,
publish - with one step per action in `InvStep`.

In `OrchestratorBoundsProofs`:

* `BoundedMessages`, `DeadlineWhilePending`, `EdgesAreOnDiagram` need none of that. The invariant
  `BoundsInv` says that every row, every job and every snapshot keeps to the bounds on its own:
  state and retry count determine how often it can have been written, an edge is one of the
  transition table or of the worker's switch, and a deadline comes with a pending state. The
  lemmas `RowsStepwise`, `JobsStepwise`, `SnapshotsStepwise`, `MessagesStepwise` and
  `WritesStepwise` say once what a step can do to each of them, and the invariant is carried
  through these instead of through the actions.
* `CompletionEarned` does need it (`EarnedInv`): a job decided before the compensation began must
  not be written after it, and it is the optimistic lock that prevents it.
* `OnePath` needs it, too (`PathInv`). Every edge of the diagram leads to a later stage, and a write
  replaces the row it was decided on, so that the stages of a saga's writes never fall (`Forward`):
  the same state cannot be left twice.

### Consumers

For `KafkaConsumer`, from `LogAssumption` and `LimitsAssumption`: `Invariance`,
`NothingCommittedUnsettled`, `DuplicatesAreFiltered`, `BudgetIsKept`, `GroupNeverMovesBack`. The
invariant says that everything fetched is dealt with but for the message in hand (`FetchedInv`),
that the message in hand is the last one fetched and settled once it is to be committed
(`ReaderInv`), that the successes of an id are no more than its lapses of memory, and one more while
it is remembered (`MemoryInv`), and that retries and the rest of the budget do not exceed what was
earned (`BudgetInv`).

For `ChoreographyConsumer`, from assumptions of the same names: `Invariance`,
`NothingCommittedUnsettled`, `DuplicatesAreFiltered`, `OnlyExhaustedDeadLettered`. Here everything
fetched is dealt with only while the reader is open, and a closed reader commits nothing.

### Choreography

For all sets of orders, all numbers of retries and faults and all kinds of faults, from
`LimitsAssumption` (both are natural numbers), in `ChoreographyProofs`: `TypeCorrect`, `Invariance`
(`Spec => []IInv`), and from it `NothingInvented`, `RepetitionsMultiplySlowly`, `LeftoversAreFew`,
`MindsChangeByRepetition` and the safety of the refinement, `Refinement`: `Spec =>
ImplementsOrderSaga`.

How many answers a service has given is not inductive by itself. What limits them is the
deduplicator: an answer that is written or about to be takes a mark on the message it answers, and
`RepetitionsCounted` compares the answers with the marks. A handler that begins adds one to both; a
failure takes back one mark, and a restart all of the service's, which are no more than the messages
the service before has written. So the numbers of answers are summed up along the chain, and this
is where the powers of h come from. That marks count messages needs `IdsAreFresh`. `LeftoversCounted` is the
same for the stores, with the attempts a message in hand has left (`Spare`), since a publish that is
still down fails again as part of the same fault. `Caused` says which message implies which other,
and `AnswersMatch` what a message about to be published answers. As long as `harmful` is 0 the counts are
at most one, and `Undisturbed` says that stores, messages and marks then tell the same story:
from this each step is one of `OrderSaga` or a stutter (the refinement splits on the actions of the
three services).

`ServiceConsumersProofs` says once for any handler what the actions of `ServiceConsumers` do to
loop, marks and topics: types and `Coherent` are kept, what a step may write, how a topic grows and
what that does to the sets of ids. The services are instances of it, so the lemmas are taken from
three instances in one proof and from three more in the next.

### Orchestration

From `LimitsAssumption` and `WorkersAssumption` (a worker is not a topic: `Orchestrator` wants
consumers and workers apart, and here a consumer is named by its topic), in `OrchestrationProofs`:

* `TypeCorrect`, and `OrchestratorRuns`: `Spec => Orch!Spec`. Every step of the composition is a
  step of `Orchestrator` or leaves its variables alone, so the theorems about `Orchestrator` hold of
  it here, among the real participants. The point where this could fail is `Deliverable`, the guard
  under which `Orchestrator` lets an event come: it follows from `AnswersAreSolicited`, so the two
  are proved together.
* `EventsAreAnswers`, `OrdersAgreeWithSagas`, `ConfirmedOrdersPaid`, from `TraceInv`.

And in `OrchestrationSagaProofs`, from `IInv`, which is `TraceInv` and `CourseInv`:

* `Invariance` (`Spec => []IInv`), and from it `LeaksFollowTimeouts` and the safety of the
  refinement, `Refinement`: `Spec => ImplementsOrderSaga`.

The inductions have what is already known of `Orchestrator` at every state as a hypothesis
(`Known`: one outcome, completion earned, messages after writes, writes in a chain, one path
per saga). `TraceInv` follows a fact through the system: a command in a topic was published
(`CommandsArePublished`),
an answer is to a command (`AnswersAreSolicited`, `AnswersInHand`), a thread and a write have heard
the answer they act on (`EventsAreHeard`), order-api was told what it believes (`OutcomesAreTold`).
While the participants remember, stores agree with answers (`StoresTell`), and a payment is given
back only after CancelPayment - of which there is none for a saga that completed. Its lemmas say,
per variable, what any step can do to it (`Steps`, `Growth`, `Origin`), and the conjuncts are carried
through these.

`CourseInv` says how often. What a participant stores it has answered, what it has answered it was
asked, and to answer both ways it must have been asked twice (`PaymentTells`, `InventoryTells`):
marks last as long as the participants' memory, so a handler begins on each id once. To be asked
twice, a command must have been published twice (`ResentIsPublished`), and since a saga takes one
path (`OnePathPerSaga`) this means that the worker wrote a retry (`AgainIsRetried`). A message of
the orchestrator stands for all the steps on the saga's path to it (`SagaPath`), each of them taken
on an answer that was given, or by the worker.

So a cancelled order was refused a payment or a reservation, or the worker gave up on it; and what
it holds nevertheless was answered the other way, so it was asked for again. This is
`LeaksFollowTimeouts`. Until the worker steps in each command has one answer, and the step that
changes a store is one of `OrderSaga`: a payment precedes its reservation, it is released only
after the reservation was refused, and the order is still pending at either, because order-api
hears a result only at the end of the path. Where an order is in its course needs no map of its
own: the writes of its saga say it.

### Only model-checked

Every invariant, action property and refinement that a run finds to hold is proved, but for
liveness (`SagasSettle`, `LostStartIsRetried`, `ReaderComesThrough`, `ShutdownEnds`,
`PublishedIsDecided`, `StartedIsDecided`, and `ImplementsLiveLifecycle`, of which `Refinement` of
`OrchestratorProofs` is the safety half): fairness and ENABLED are out of the prover's reach.

No recursive operators are used, since TLAPS cannot reason about modules that have them.

## Not modelled

* PostgreSQL and Kafka themselves: a statement is atomic, a partition is a log with committed
  offsets. Rebalancing of a group, since the charts deploy one consumer per group and topic.
* Payloads, encoding and validation. Quantities and amounts decide nothing but the case of
  `postgres_store.go:205`.
* The deduplicator's clock: a mark may expire at any time in the two consumer modules, and lasts as
  long as the process in the compositions.
* Reads over HTTP (`getOrder`, the saga list and its history), which change nothing; the diagram is
  compared with the transitions in `SagaMachine`.
* Configuration, telemetry, health endpoints, charts, compose files, the integration test, and the
  in-memory saga store, which only unit tests use.

## Plan

Done: the orchestrator, the consumers and the deduplicator of both variants, all services, the two
compositions, and proofs about all of them. Left, in this order:

1. That the four loops of `ServiceConsumers` and the loop of `KafkaConsumer` agree: the first as an
   implementation of the second, topic by topic, instead of by comparison with the code alone.
2. Two orders in `Choreography`, and a fault together with an expiry in `Orchestration`, if the
   instances can be made smaller; the proofs cover both.
