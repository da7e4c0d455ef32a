-------------------------- MODULE ServiceConsumers --------------------------
(***************************************************************************)
(* The consumers of one service process, around its handlers: every        *)
(* message is fetched, passed by the deduplicator to a handler, retried,   *)
(* dead-lettered or committed.  KafkaConsumer and ChoreographyConsumer     *)
(* look at one such loop closely; here it is as much of it as other        *)
(* services can notice, for the modules of the services to extend.         *)
(*                                                                         *)
(* A service reads each of its topics with one consumer, so a consumer is  *)
(* named by its topic.  All of them share the deduplicator, and a crash    *)
(* takes all of them and everything the process keeps in memory.  The      *)
(* retry budget is left out: its capacity of 100 outlasts every behaviour  *)
(* within the bounds.                                                      *)
(***************************************************************************)
EXTENDS Naturals, Sequences

CONSTANTS
    Orders,      \* what messages are about
    Reads,       \* the topics the service consumes
    Handled,     \* per topic read: the message types it has a handler for
    MaxRetries,  \* maxRetries
    FaultKinds,  \* the faults a behaviour may show, of AllFaultKinds
    MaxFaults    \* bound: faults in one behaviour

\* publish: a message is not written; unsure: it is, and the writer returns an error;
\* twice: it is written twice; commit, dlq: the offset, the dead letter is not written;
\* crash: the process ends and is started again; read: the store cannot be read.
AllFaultKinds == {"publish", "unsure", "twice", "commit", "dlq", "crash", "read"}

\* Deduplication and redelivery make up for these by themselves.
HarmlessFaultKinds == {"twice", "commit"}

VARIABLES
    topics,  \* Kafka: the messages of each topic, one partition each
    loop,    \* the state of each consumer
    seen,    \* the deduplicator: ids marked, of all topics read
    faults   \* faults so far: all of them, those that are not harmless, and whether a
             \* dead letter may not have been written

consumers == <<topics, loop, seen, faults>>

Fault(kind) ==
    /\ kind \in FaultKinds
    /\ faults.all < MaxFaults
    /\ faults' = [faults EXCEPT !.all = @ + 1,
                                !.harmful = IF kind \in HarmlessFaultKinds THEN @ ELSE @ + 1]

NoFaults == [all |-> 0, harmful |-> 0, untold |-> FALSE]

Silent == [topic |-> "none", type |-> "none", order |-> "none"]

Message(topic, type, order) == [topic |-> topic, type |-> type, order |-> order]

\* An id is fresh when a message is made; a copy the writer makes has the same id.
Written(log, m) == Append(log, [id |-> Len(log) + 1, type |-> m.type, order |-> m.order])

WrittenTwice(log, m) == Append(Written(log, m), Written(log, m)[Len(log) + 1])

Sent(m) == topics' = [topics EXCEPT ![m.topic] = Written(@, m)]

SentTwice(m) == topics' = [topics EXCEPT ![m.topic] = WrittenTwice(@, m)]

\* committed, fetched: how many messages the group, and the reader, have behind them;
\* letters: the orders with a message in the topic's dead-letter topic.
StartAt(committed, letters) ==
    [pc |-> "fetch", committed |-> committed, fetched |-> committed, retry |-> 0, out |-> Silent,
     letters |-> letters]

Finished(l) == [l EXCEPT !.pc = "commit", !.retry = 0, !.out = Silent]

\* Mutant: the number of retries is off by one.
FailedOffByOne(l) == IF l.retry <= MaxRetries
                     THEN [l EXCEPT !.pc = "handle", !.retry = @ + 1, !.out = Silent]
                     ELSE [l EXCEPT !.pc = "dead", !.retry = 0, !.out = Silent]

\* The handler returns an error: retry while there are retries, then dead-letter.
Failed(l) == IF l.retry < MaxRetries
             THEN [l EXCEPT !.pc = "handle", !.retry = @ + 1, !.out = Silent]
             ELSE [l EXCEPT !.pc = "dead", !.retry = 0, !.out = Silent]

\* The message to handle: the next one, or after a failure the last one again.
At(t) == IF loop[t].pc = "fetch" THEN loop[t].fetched + 1 ELSE loop[t].fetched
InHand(t) == topics[t][At(t)]
Id(t) == <<t, InHand(t).id>>

-----------------------------------------------------------------------------
(* From the fetch to the handler: a message fetched and not begun is as good as *)
(* not fetched, so the two are one step.                                        *)

Ready(t) == loop[t].pc \in {"fetch", "handle"} /\ At(t) <= Len(topics[t])

\* A message that has a handler.
Handles(t) == Ready(t) /\ InHand(t).type \in Handled[t]

\* The loop's state with the message in hand.
Took(t) == [loop[t] EXCEPT !.fetched = At(t)]

PassTo(t, l) == loop' = [loop EXCEPT ![t] = l]

\* No handler for the type: the message is committed at once.
Skip(t) ==
    /\ Ready(t)
    /\ InHand(t).type \notin Handled[t]
    /\ PassTo(t, Finished(Took(t)))
    /\ UNCHANGED <<topics, seen, faults>>

SkipDuplicate(t) ==
    /\ Handles(t)
    /\ Id(t) \in seen
    /\ PassTo(t, Finished(Took(t)))
    /\ UNCHANGED <<topics, seen, faults>>

\* Mutant: the id is not marked.
MarkForgotten(t) == UNCHANGED seen

Mark(t) == seen' = seen \cup {Id(t)}

\* A handler begins: the id is marked.
Begin(t) ==
    /\ Handles(t)
    /\ Id(t) \notin seen
    /\ Mark(t)

\* Mutant: the mark of a failed message stays, and the retry is taken for a duplicate.
UnmarkForgotten(t) == UNCHANGED seen

Unmark(t) == seen' = seen \ {Id(t)}

-----------------------------------------------------------------------------
(* From the handler to the commit *)

\* The handler has done its work on the store and goes on to publish a message.
GoPublish(t, m) == PassTo(t, [Took(t) EXCEPT !.pc = "publish", !.out = m])

\* The handler returns nil.
Finish(t) == PassTo(t, Finished(Took(t)))

Fail(t) == PassTo(t, Failed(Took(t)))

Publish(t) ==
    /\ loop[t].pc = "publish"
    /\ Sent(loop[t].out)
    /\ Finish(t)
    /\ UNCHANGED <<seen, faults>>

\* The writer repeats a request whose reply was lost.
PublishTwice(t) ==
    /\ loop[t].pc = "publish"
    /\ Fault("twice")
    /\ SentTwice(loop[t].out)
    /\ Finish(t)
    /\ UNCHANGED seen

\* The next attempt at the same message fails as well: the same fault, which may so
\* outlast the retries.
StillDown(t) == "publish" \in FaultKinds /\ loop[t].retry > 0 /\ UNCHANGED faults

PublishError(t) ==
    /\ loop[t].pc = "publish"
    /\ \/ (Fault("publish") \/ StillDown(t)) /\ UNCHANGED topics
       \/ Fault("unsure") /\ Sent(loop[t].out)
    /\ Unmark(t)
    /\ Fail(t)

DeadLetter(t) ==
    /\ loop[t].pc = "dead"
    /\ PassTo(t, [Finished(loop[t]) EXCEPT !.letters = @ \cup {InHand(t).order}])
    /\ UNCHANGED <<topics, seen, faults>>

\* The writer of the dead-letter topic reports an error: on to the next message without
\* a commit.  Whether the letter was written nevertheless is not told apart.  This is not
\* counted, as another fault has to come first to leave a message to dead-letter.
DeadLetterError(t) ==
    /\ loop[t].pc = "dead"
    /\ "dlq" \in FaultKinds
    /\ faults' = [faults EXCEPT !.untold = TRUE]
    /\ loop' = [loop EXCEPT ![t].pc = "fetch"]
    /\ UNCHANGED <<topics, seen>>

Commit(t) ==
    /\ loop[t].pc = "commit"
    /\ loop' = [loop EXCEPT ![t].pc = "fetch", ![t].committed = loop[t].fetched]
    /\ UNCHANGED <<topics, seen, faults>>

\* A commit that fails is only logged.
CommitError(t) ==
    /\ loop[t].pc = "commit"
    /\ Fault("commit")
    /\ loop' = [loop EXCEPT ![t].pc = "fetch"]
    /\ UNCHANGED <<topics, seen>>

\* A new process has no marks, and each group resumes after its last commit.
Resume ==
    /\ loop' = [t \in Reads |-> StartAt(loop[t].committed, loop[t].letters)]
    /\ seen' = {}
    /\ UNCHANGED topics

\* The process crashes, or is stopped, and is started again.  What a stopped loop may still
\* do to the message in hand, KafkaConsumer and ChoreographyConsumer show.
Restart == Fault("crash") /\ Resume

-----------------------------------------------------------------------------
ConsumersInit ==
    /\ loop = [t \in Reads |-> StartAt(0, {})]
    /\ seen = {}

\* Everything fetched was handled, given up or skipped, and nothing is left to fetch.
Drained == \A t \in Reads : loop[t].pc = "fetch" /\ loop[t].fetched = Len(topics[t])

\* The message types of both variants.
Types == {"OrderCreated", "StartSaga", "ReservePayment", "ReserveInventory", "CancelPayment",
          "PaymentReserved", "PaymentFailed", "PaymentRolledBack", "PaymentCancelled",
          "InventoryReserved", "InventoryFailed", "SagaCompleted", "SagaFailed"}

Messages == [id : Nat, type : Types, order : Orders]

Outs == [topic : DOMAIN topics, type : Types, order : Orders]

Loops == [pc : {"fetch", "handle", "publish", "dead", "commit"}, committed : Nat, fetched : Nat,
          retry : Nat, out : Outs \cup {Silent}, letters : SUBSET Orders]

\* The reader is never behind the group or past the end; there is a message to publish
\* exactly while there should be, and retries are counted while there is one to handle.
Coherent(l, log) ==
    /\ l.committed <= l.fetched
    /\ l.fetched <= Len(log)
    /\ l.pc # "fetch" => l.fetched > 0
    /\ l.retry <= MaxRetries
    /\ l.retry > 0 => l.pc \in {"handle", "publish"}
    /\ l.out # Silent <=> l.pc = "publish"

ConsumersTypeOK ==
    /\ loop \in [Reads -> Loops]
    /\ seen \subseteq Reads \X Nat
    /\ \A t \in Reads : Coherent(loop[t], topics[t])
=============================================================================
