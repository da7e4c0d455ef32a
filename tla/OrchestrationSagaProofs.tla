----------------------- MODULE OrchestrationSagaProofs -----------------------
(***************************************************************************)
(* Why the orchestrated services together are the order saga, and what it  *)
(* takes to leave a payment or a reservation behind: how often a command   *)
(* is sent, what each copy of it is answered, and which writes of a saga   *)
(* the answers stand behind.                                               *)
(***************************************************************************)
EXTENDS OrchestrationProofs

USE LimitsAssumption

CommandTopics == {"saga-commands", "payment-commands", "inventory-commands"}

-----------------------------------------------------------------------------
(* Copies of a command *)

\* Copies stay, and what was sent again has been sent again.
LEMMA CopiesKept ==
    ASSUME TypeOK, TopicsMove, NEW t \in Topics, NEW type, NEW o
    PROVE  /\ \A i \in Copies(t, type, o) : i \in Copies(t, type, o)' /\ topics'[t][i] = topics[t][i]
           /\ Resent(t, type, o) => Resent(t, type, o)'
BY TopicsMoveTyped DEF Copies, Resent

\* A copy that is new is one of the message that was sent.
LEMMA CopyThen ==
    ASSUME TypeOK, NEW m \in Outs, Grown(m), NEW t \in Topics, NEW type, NEW o, NEW i \in Copies(t, type, o)'
    PROVE  \/ i \in Copies(t, type, o) /\ topics'[t][i] = topics[t][i]
           \/ t = m.topic /\ type = m.type /\ o = m.order /\ topics'[t][i].id = Len(topics[t]) + 1
<1>1. i \in DOMAIN topics'[t] /\ topics'[t][i].type = type /\ topics'[t][i].order = o
  BY DEF Copies
<1> QED
  BY <1>1, WrittenNew DEF Copies

LEMMA GrownElsewhere ==
    ASSUME TypeOK, NEW m \in Outs, Grown(m), NEW t \in Topics, t # m.topic
    PROVE  topics'[t] = topics[t]
<1>1. DOMAIN topics = Topics
  BY TopicFacts DEF TypeOK
<1> QED
  BY <1>1 DEF Grown, PC!Grown

\* Commands come from order-api and from the orchestrator, and from no one else.
LEMMA CommandsGrow ==
    ASSUME TypeOK, AnswersInHand, [Next]_vars
    PROVE  \/ \A t \in CommandTopics : topics'[t] = topics[t]
           \/ ApiMoves /\ \E o \in requests : Start(o) \in Outs /\ Grown(Start(o))
           \/ OrchSends
<1>1. CommandTopics \subseteq Topics /\ "payment-events" \notin CommandTopics /\ "inventory-events" \notin CommandTopics
  BY TopicNames DEF CommandTopics
<1>2. requests \subseteq Orders
  BY TypesSplit DEF StoresTyped
<1>3. CASE ApiMoves
  BY <1>2, <1>3, MessagesTyped DEF ApiMoves
<1>4. CASE OrchMoves
  BY <1>4 DEF OrchMoves
<1>5. CASE PaymentMoves
  <2>1. topics' = topics \/ (PaymentLoop.out \in Outs /\ Grown(PaymentLoop.out) /\ PaymentLoop.out.topic = "payment-events")
    BY <1>5, InHandFacts DEF PaymentMoves, PaymentAnswers, PaymentProceeds, PaymentForgets
  <2> QED
    BY <1>1, <2>1, GrownElsewhere
<1>6. CASE InventoryMoves
  <2>1. \/ topics' = topics
        \/ InventoryLoop.out \in Outs /\ Grown(InventoryLoop.out) /\ InventoryLoop.out.topic = "inventory-events"
    BY <1>6, InHandFacts DEF InventoryMoves, InventoryAnswers, InventoryProceeds, InventoryForgets
  <2> QED
    BY <1>1, <2>1, GrownElsewhere
<1> QED
  BY <1>3, <1>4, <1>5, <1>6, Steps DEF vars

LEMMA FirstComeStep ==
    ASSUME TypeOK, AnswersInHand, OrdersComeFirst, [Next]_vars
    PROVE  OrdersComeFirst'
<1> SUFFICES ASSUME NEW o \in Orders, orders'[o] = "NONE"
             PROVE  o \notin requests' /\ ~Written("saga-commands", "StartSaga", o)'
  BY DEF OrdersComeFirst
<1>1. orders[o] = "NONE" /\ (o \in requests' => o \in requests)
  BY Steps DEF ApiMoves, OrderMoves, ApiStill, vars, apiState
<1>2. o \notin requests /\ ~Written("saga-commands", "StartSaga", o)
  BY <1>1 DEF OrdersComeFirst
<1>3. ~Written("saga-commands", "StartSaga", o)'
  <2>1. "saga-commands" \in Topics /\ "saga-commands" \in CommandTopics
    BY TopicNames DEF CommandTopics
  <2>2. CASE topics'["saga-commands"] = topics["saga-commands"]
    BY <1>2, <2>2 DEF Written
  <2>3. CASE \E p \in requests : Start(p) \in Outs /\ Grown(Start(p))
    BY <1>2, <2>1, <2>3, WrittenThen DEF Start
  <2>4. CASE OrchSends
    BY <1>2, <2>1, <2>4, WrittenThen DEF OrchSends, OrchTopics
  <2> QED
    BY <2>1, <2>2, <2>3, <2>4, CommandsGrow
<1> QED
  BY <1>1, <1>2, <1>3

LEMMA ResentStep ==
    ASSUME TypeOK, CommandsArePublished, AnswersInHand, Known, ResentIsPublished, [Next]_vars
    PROVE  ResentIsPublished'
<1> SUFFICES ASSUME NEW t \in {"payment-commands", "inventory-commands"}, NEW type \in Orch!Commands, NEW o \in Orders,
                    Resent(t, type, o)'
             PROVE  \E m, n \in published' : m # n /\ \A x \in {m, n} : x.saga = o /\ x.type = type
  BY DEF ResentIsPublished
<1>1. t \in Topics /\ t \in CommandTopics /\ t \in OrchTopics /\ t # "saga-commands"
  BY TopicNames DEF CommandTopics, OrchTopics
<1>2. CASE Resent(t, type, o)
  <2>1. PICK m, n \in published : m # n /\ \A x \in {m, n} : x.saga = o /\ x.type = type
    BY <1>2 DEF ResentIsPublished
  <2>2. m \in published' /\ n \in published'
    BY SentThen
  <2> QED
    BY <2>1, <2>2, Zenon
<1>3. CASE topics'[t] = topics[t]
  BY <1>2, <1>3 DEF Resent, Copies
<1>4. CASE \E p \in requests : Start(p) \in Outs /\ Grown(Start(p))
  BY <1>1, <1>3, <1>4, GrownElsewhere DEF Start
<1>5. CASE OrchSends /\ ~Resent(t, type, o)
  <2>1. PICK m \in Outs, u \in Orch!Threads :
            /\ Grown(m)
            /\ job[u].pc = "publish" /\ job[u].saga = m.order /\ job[u].action = m.type
            /\ published' = published \cup {Orch!Message(job[u])}
    BY <1>5 DEF OrchSends
  <2>2. PICK i, j \in Copies(t, type, o)' : topics'[t][i].id # topics'[t][j].id
    BY DEF Resent
  <2>3. (i \in Copies(t, type, o) /\ topics'[t][i] = topics[t][i]) \/
        (type = m.type /\ o = m.order /\ topics'[t][i].id = Len(topics[t]) + 1)
    BY <1>1, <2>1, CopyThen
  <2>4. (j \in Copies(t, type, o) /\ topics'[t][j] = topics[t][j]) \/
        (type = m.type /\ o = m.order /\ topics'[t][j].id = Len(topics[t]) + 1)
    BY <1>1, <2>1, CopyThen
  <2>5. ~(i \in Copies(t, type, o) /\ topics'[t][i] = topics[t][i] /\ j \in Copies(t, type, o) /\ topics'[t][j] = topics[t][j])
    BY <1>5, <2>2 DEF Resent
  <2>6. type = m.type /\ o = m.order /\ \E k : k \in Copies(t, type, o)
    BY <2>2, <2>3, <2>4, <2>5
  <2>7. Written(t, type, o)
    BY <2>6 DEF Copies, Written
  <2>8. PICK n \in published : n.saga = o /\ n.type = type
    BY <1>1, <2>7, CommandPublished DEF Orch!Sent
  <2>9. /\ Orch!Message(job[u]).saga = o /\ Orch!Message(job[u]).type = type
        /\ Orch!Message(job[u]).updatedAt = job[u].updatedAt
    BY <2>1, <2>6 DEF Orch!Message
  <2>10. Orch!WrittenJob(job[u])
    BY <2>1, JobTypes DEF Known, Orch!JobsAreSound, Orch!JobSound
  <2>11. ~(n.saga = job[u].saga /\ n.updatedAt = job[u].updatedAt)
    BY <2>10 DEF Orch!WrittenJob
  <2>12. n # Orch!Message(job[u])
    BY <2>1, <2>6, <2>8, <2>9, <2>11
  <2> QED
    BY <2>1, <2>8, <2>9, <2>12
<1> QED
  BY <1>1, <1>2, <1>3, <1>4, <1>5, CommandsGrow

-----------------------------------------------------------------------------
(* What stands behind a message of the orchestrator *)

SagaPathTo(o, type) ==
    /\ Worked(o, "STARTED", {"StartSaga"})
    /\ type \in {"ReserveInventory", "CancelPayment", "SagaCompleted"} => Worked(o, "PAYMENT_PENDING", {"PaymentReserved"})
    /\ type = "SagaCompleted" => Worked(o, "INVENTORY_PENDING", {"InventoryReserved"})
    /\ type = "CancelPayment" => Worked(o, "INVENTORY_PENDING", {"InventoryFailed", "Timeout"})
    /\ type = "SagaFailed" =>
           \/ Worked(o, "PAYMENT_PENDING", {"PaymentFailed", "Timeout"})
           \/ /\ Worked(o, "PAYMENT_PENDING", {"PaymentReserved"})
              /\ Worked(o, "INVENTORY_PENDING", {"InventoryFailed", "Timeout"})
              /\ Worked(o, "CANCEL_PAYMENT_PENDING", {"PaymentCancelled", "Timeout"})

\* Before a message is published the saga has taken the steps that lead to it.
LEMMA SagaPath ==
    ASSUME TypeOK, Known, NEW o, NEW type, Orch!Sent(o, type)
    PROVE  SagaPathTo(o, type)
<1>1. PICK m \in published : m.saga = o /\ m.type = type
  BY DEF Orch!Sent
<1>2. PICK w \in writes : w.saga = o /\ type = Orch!MessageFor(w.to)
  BY <1>1 DEF Known, Orch!PublishedAfterPersist
<1>3. w.to \in {"PAYMENT_PENDING", "INVENTORY_PENDING", "CANCEL_PAYMENT_PENDING", "COMPLETED", "FAILED"}
  BY DEF TypeOK, Orch!TypeOK, Orch!Writes, Orch!SagaStates, Orch!PendingStates, Orch!TerminalStates
<1>4. Orch!PathTo(writes, o, w.to)
  BY <1>2 DEF Known, Orch!OnePathPerSaga
<1>5. /\ Worked(o, "STARTED", {"StartSaga"})
      /\ w.to \in {"INVENTORY_PENDING", "CANCEL_PAYMENT_PENDING", "COMPLETED"} =>
             Worked(o, "PAYMENT_PENDING", {"PaymentReserved"})
      /\ w.to = "COMPLETED" => Worked(o, "INVENTORY_PENDING", {"InventoryReserved"})
      /\ w.to = "CANCEL_PAYMENT_PENDING" => Worked(o, "INVENTORY_PENDING", {"InventoryFailed", "Timeout"})
      /\ w.to = "FAILED" =>
             \/ Worked(o, "PAYMENT_PENDING", {"PaymentFailed", "Timeout"})
             \/ /\ Worked(o, "PAYMENT_PENDING", {"PaymentReserved"})
                /\ Worked(o, "INVENTORY_PENDING", {"InventoryFailed", "Timeout"})
                /\ Worked(o, "CANCEL_PAYMENT_PENDING", {"PaymentCancelled", "Timeout"})
  BY <1>3, <1>4 DEF Orch!PathTo, Worked
<1>6. /\ type = "ReserveInventory" => w.to = "INVENTORY_PENDING"
      /\ type = "CancelPayment" => w.to = "CANCEL_PAYMENT_PENDING"
      /\ type = "SagaCompleted" => w.to = "COMPLETED"
      /\ type = "SagaFailed" => w.to = "FAILED"
  BY <1>2, <1>3 DEF Orch!MessageFor
<1> QED
  BY <1>5, <1>6 DEF SagaPathTo

\* A step the saga took on an answer was taken when the answer was given.
LEMMA WorkedIsHeard ==
    ASSUME EventsAreHeard, NEW o, NEW state, NEW event, Worked(o, state, {event})
    PROVE  Heard(event, o)
BY DEF Worked, EventsAreHeard

LEMMA WorkedEither ==
    ASSUME NEW o, NEW state, NEW first, NEW second, Worked(o, state, {first, second})
    PROVE  Worked(o, state, {first}) \/ Worked(o, state, {second})
BY DEF Worked

LEMMA HeardAre ==
    ASSUME NEW o
    PROVE  /\ Heard("StartSaga", o) => Written("saga-commands", "StartSaga", o)
           /\ \A event \in {"PaymentReserved", "PaymentFailed", "PaymentCancelled"} :
                  Heard(event, o) => Written("payment-events", event, o)
           /\ \A event \in {"InventoryReserved", "InventoryFailed"} :
                  Heard(event, o) => Written("inventory-events", event, o)
BY DEF Heard, Orch!PaymentEvents, Orch!InventoryEvents

-----------------------------------------------------------------------------
(* Whose turn it is, as long as the participants' memory lasts *)

LEMMA Turns ==
    ASSUME TypeOK, [Next]_vars
    PROVE  \/ PaymentStill /\ InventoryStill /\ (ApiMoves \/ OrchMoves)
           \/ InventoryStill /\ Payment!Next /\ PaymentMoves
           \/ PaymentStill /\ Inventory!Next /\ InventoryMoves
           \/ UNCHANGED vars
<1>1. CASE UNCHANGED <<orchState, paymentState, inventoryState>> /\ Api!Next
  <2>1. OrchStill /\ PaymentStill /\ InventoryStill
    BY <1>1 DEF OrchStill, PaymentStill, InventoryStill, orchState, paymentState, inventoryState
  <2> QED
    BY <1>1, <2>1, ApiEffect
<1>2. CASE UNCHANGED <<apiState, paymentState, inventoryState>> /\ OrchNext
  <2>1. PaymentStill /\ InventoryStill
    BY <1>2 DEF PaymentStill, InventoryStill, paymentState, inventoryState
  <2> QED
    BY <1>2, <2>1, OrchEffect
<1>3. CASE UNCHANGED <<apiState, orchState, inventoryState>> /\ Payment!Next
  <2>1. ApiStill /\ OrchStill /\ InventoryStill
    BY <1>3 DEF ApiStill, OrchStill, InventoryStill, apiState, orchState, inventoryState
  <2> QED
    BY <1>3, <2>1, PaymentEffect
<1>4. CASE UNCHANGED <<apiState, orchState, paymentState>> /\ Inventory!Next
  <2>1. ApiStill /\ OrchStill /\ PaymentStill
    BY <1>4 DEF ApiStill, OrchStill, PaymentStill, apiState, orchState, paymentState
  <2> QED
    BY <1>4, <2>1, InventoryEffect
<1>5. CASE UNCHANGED vars
  BY <1>5
<1> QED
  BY <1>1, <1>2, <1>3, <1>4, <1>5 DEF Next

\* What the others write is no event of a participant.
LEMMA OthersWrite ==
    ASSUME TypeOK, AnswersInHand
    PROVE  /\ ApiMoves \/ OrchMoves => \A t \in {"payment-events", "inventory-events"} : topics'[t] = topics[t]
           /\ PaymentMoves => topics'["inventory-events"] = topics["inventory-events"]
           /\ InventoryMoves => topics'["payment-events"] = topics["payment-events"]
<1>1. /\ {"payment-events", "inventory-events"} \subseteq Topics /\ "saga-commands" \notin {"payment-events", "inventory-events"}
      /\ OrchTopics \cap {"payment-events", "inventory-events"} = {}
  BY TopicNames DEF OrchTopics
<1>2. requests \subseteq Orders
  BY TypesSplit DEF StoresTyped
<1>3. ApiMoves => \A t \in {"payment-events", "inventory-events"} : topics'[t] = topics[t]
  BY <1>1, <1>2, GrownElsewhere, MessagesTyped DEF ApiMoves, Start
<1>4. OrchMoves => \A t \in {"payment-events", "inventory-events"} : topics'[t] = topics[t]
  BY <1>1, GrownElsewhere DEF OrchMoves, OrchSends
<1>5. PaymentMoves => topics'["inventory-events"] = topics["inventory-events"]
  BY <1>1, GrownElsewhere, InHandFacts DEF PaymentMoves, PaymentAnswers, PaymentProceeds, PaymentForgets
<1>6. InventoryMoves => topics'["payment-events"] = topics["payment-events"]
  BY <1>1, GrownElsewhere, InHandFacts DEF InventoryMoves, InventoryAnswers, InventoryProceeds, InventoryForgets
<1> QED
  BY <1>3, <1>4, <1>5, <1>6

\* A handler begins on a copy of a command that it has not begun on before.
Takes(seen, seenThen, t, type, o) ==
    \E i \in Copies(t, type, o) :
        <<t, topics[t][i].id>> \notin seen /\ seenThen = seen \cup {<<t, topics[t][i].id>>}

LEMMA TakesNew ==
    ASSUME NEW seen, NEW seenThen, NEW t, NEW type, NEW o, Takes(seen, seenThen, t, type, o)
    PROVE  /\ Begun(seenThen, t, type, o)
           /\ Begun(seen, t, type, o) => Resent(t, type, o)
           /\ seen \subseteq seenThen
BY DEF Takes, Begun, Resent

-----------------------------------------------------------------------------
(* What payment-service says *)

PaymentTypes == {"PaymentReserved", "PaymentFailed", "PaymentCancelled"}

PaymentAfter(type, state) ==
    CASE type = "PaymentReserved"  -> "held"
      [] type = "PaymentFailed"    -> state
      [] type = "PaymentCancelled" -> Payment!AfterDelete(state)

\* A handler changes the store and has its answer in hand.
PaymentTakes(type, o) ==
    /\ topics' = topics
    /\ Takes(paymentSeen, paymentSeen', "payment-commands", Orch!AnswerTo(type), o)
    /\ PaymentLoop.pc # "publish"
    /\ PaymentLoop'.pc = "publish" /\ PaymentLoop'.out = PaymentAnswer(type, o) /\ PaymentLoop'.retry = 0
    /\ payments' = [payments EXCEPT ![o] = PaymentAfter(type, payments[o])]

\* The answer is written.
PaymentGives ==
    /\ PaymentLoop.pc = "publish" /\ PaymentLoop.out \in Outs /\ Grown(PaymentLoop.out)
    /\ PaymentLoop'.pc # "publish" /\ PaymentLoop'.retry = 0
    /\ UNCHANGED <<paymentSeen, payments>>

\* Nothing is said, and nothing changes that was.
PaymentRests ==
    /\ topics'["payment-events"] = topics["payment-events"]
    /\ PaymentLoop' = PaymentLoop \/ (PaymentLoop.pc # "publish" /\ PaymentLoop'.pc # "publish" /\ PaymentLoop'.retry = 0)
    /\ UNCHANGED <<paymentSeen, payments>>

LEMMA PaymentTakesOne ==
    ASSUME TypeOK, PaymentLoop.retry = 0, NEW t \in DOMAIN PaymentHandled, Pays(t) \/ GivesBack(t)
    PROVE  \E type \in PaymentTypes, o \in Orders : PaymentTakes(type, o)
<1> DEFINE o == PC!InHand(t).order
<1>1. PC!Typed /\ payments \in [Orders -> Payment!PaymentStates]
  BY TypesSplit DEF StoresTyped
<1>2. t = "payment-commands" /\ PC!Handles(t) /\ PC!Id(t) \notin paymentSeen /\ o \in Orders
  BY PaymentCommandInHand DEF Pays, GivesBack, PC!Handle, PC!Begin
<1>3. PC!At(t) \in Copies(t, PC!InHand(t).type, o) /\ PC!Id(t) = <<t, topics[t][PC!At(t)].id>>
  BY <1>1, <1>2, PC!HandFacts DEF Copies, PC!InHand, PC!Id, PC!Handles
<1> HIDE DEF o
<1>4. ASSUME NEW type \in PaymentTypes, PC!InHand(t).type = Orch!AnswerTo(type), PC!Handle(t, PaymentAnswer(type, o)),
             payments' = [payments EXCEPT ![o] = PaymentAfter(type, payments[o])]
      PROVE  PaymentTakes(type, o)
  <2>1. PaymentAnswer(type, o) \in PC!Outs
    BY <1>2, MessagesTyped DEF Outs, PaymentTypes
  <2>2. /\ topics' = topics /\ paymentSeen' = paymentSeen \cup {PC!Id(t)}
        /\ paymentLoop[t].pc \in {"fetch", "handle"}
        /\ paymentLoop'[t].pc = "publish" /\ paymentLoop'[t].out = PaymentAnswer(type, o)
        /\ paymentLoop'[t].retry = paymentLoop[t].retry
    BY <1>1, <1>4, <2>1, PC!HandleStep
  <2>3. Takes(paymentSeen, paymentSeen', "payment-commands", Orch!AnswerTo(type), o)
    BY <1>2, <1>3, <1>4, <2>2 DEF Takes
  <2> QED
    BY <1>2, <1>4, <2>2, <2>3 DEF PaymentTakes, PaymentLoop
<1>5. CASE Pays(t)
  <2>1. /\ PC!InHand(t).type = "ReservePayment"
        /\ \/ /\ PC!Handle(t, PaymentAnswer("PaymentReserved", o))
              /\ payments' = [payments EXCEPT ![o] = "held"]
           \/ /\ PC!Handle(t, PaymentAnswer("PaymentReserved", o))
              /\ payments[o] = "held" /\ payments' = payments
           \/ /\ PC!Handle(t, PaymentAnswer("PaymentFailed", o))
              /\ payments' = payments
    BY <1>5 DEF Pays, o
  <2>2. payments = [payments EXCEPT ![o] = payments[o]]
    BY <1>1
  <2>3. \E type \in {"PaymentReserved", "PaymentFailed"} :
            /\ PC!Handle(t, PaymentAnswer(type, o))
            /\ payments' = [payments EXCEPT ![o] = PaymentAfter(type, payments[o])]
    BY <2>1, <2>2 DEF PaymentAfter
  <2> QED
    BY <1>2, <1>4, <2>1, <2>3, EventNames DEF PaymentTypes
<1>6. CASE GivesBack(t)
  <2>1. /\ PC!InHand(t).type = "CancelPayment" /\ PC!Handle(t, PaymentAnswer("PaymentCancelled", o))
        /\ payments' = [payments EXCEPT ![o] = PaymentAfter("PaymentCancelled", payments[o])]
    BY <1>6 DEF GivesBack, o, PaymentAfter
  <2> QED
    BY <1>2, <1>4, <2>1, EventNames DEF PaymentTypes
<1> QED
  BY <1>5, <1>6

LEMMA PaymentActs ==
    ASSUME TypeOK, AnswersInHand, PaymentLoop.retry = 0, [Next]_vars, faults'.harmful = 0
    PROVE  \/ \E type \in PaymentTypes, o \in Orders : PaymentTakes(type, o)
           \/ PaymentGives
           \/ PaymentRests
<1>1. PC!Typed /\ faults.harmful \in Nat
  BY TypesSplit DEF FaultsTyped
<1>2. CASE PaymentStill /\ topics'["payment-events"] = topics["payment-events"]
  BY <1>2 DEF PaymentStill, PaymentRests, PaymentLoop
<1>3. CASE Payment!Next
  <2>1. ASSUME NEW t \in DOMAIN PaymentHandled, PaymentPublishes(t) PROVE PaymentGives
    <3>1. t = "payment-commands"
      BY TopicNames
    <3>2. PC!Publish(t) \/ PC!PublishTwice(t)
      BY <1>1, <2>1, <3>1, PC!PublishErrorStep DEF PaymentPublishes, PaymentLoop
    <3> QED
      BY <1>1, <2>1, <3>1, <3>2, PC!PublishStep DEF PaymentPublishes, PaymentGives, PaymentLoop, Outs, Grown
  <2>2. ASSUME NEW t \in DOMAIN PaymentHandled, PC!Moves(t), payments' = payments PROVE PaymentRests
    <3>1. t = "payment-commands"
      BY TopicNames
    <3> QED
      BY <1>1, <2>2, <3>1, PC!MovesStep DEF PaymentRests, PaymentLoop
  <2>3. ~PaymentRestarts
    BY <1>1, PC!RestartStep DEF PaymentRestarts
  <2> QED
    BY <1>3, <2>1, <2>2, <2>3, PaymentSteps, PaymentTakesOne
<1>4. CASE UNCHANGED vars
  BY <1>2, <1>4 DEF vars, paymentState, PaymentStill
<1> QED
  BY <1>2, <1>3, <1>4, Turns, OthersWrite

PaymentSays(type, o) ==
    \/ Written("payment-events", type, o)
    \/ PaymentLoop.pc = "publish" /\ PaymentLoop.out.type = type /\ PaymentLoop.out.order = o

PaymentBegun(type, o) == Begun(paymentSeen, "payment-commands", type, o)

PaymentAgain(o) == Resent("payment-commands", "ReservePayment", o)

\* The model's terms.
PaymentTellsOf(o) ==
    /\ payments[o] # "none" => PaymentSays("PaymentReserved", o)
    /\ PaymentSays("PaymentReserved", o) \/ PaymentSays("PaymentFailed", o) => PaymentBegun("ReservePayment", o)
    /\ PaymentSays("PaymentReserved", o) /\ PaymentSays("PaymentFailed", o) => PaymentAgain(o)
    /\ PaymentSays("PaymentCancelled", o) /\ payments[o] = "held" => PaymentAgain(o)

LEMMA PaymentTellings ==
    ASSUME TypeOK
    PROVE  /\ \A o \in Orders : PaymentTells(o) <=> PaymentTellsOf(o)
           /\ \A t \in DOMAIN PaymentHandled : paymentLoop[t].retry = PaymentLoop.retry
<1>1. DOMAIN paymentLoop = {"payment-commands"} /\ DOMAIN PaymentHandled = {"payment-commands"}
  BY TypesSplit, TopicNames DEF PC!Typed, PC!ConsumersTypeOK
<1>2. \A type, o : Answered(paymentLoop, "payment-events", type, o) <=> PaymentSays(type, o)
  BY <1>1 DEF Answered, PaymentSays, PaymentLoop
<1> QED
  BY <1>1, <1>2 DEF PaymentTells, PaymentTellsOf, PaymentBegun, PaymentAgain, PaymentLoop

\* A message that is sent is in its topic.
LEMMA GrownWritten ==
    ASSUME TypeOK, NEW m \in Outs, Grown(m)
    PROVE  Written(m.topic, m.type, m.order)'
<1>1. PC!TopicsTyped /\ DOMAIN topics = Topics /\ m.topic \in DOMAIN topics
  BY TopicFacts DEF TypeOK, Outs, PC!Outs
<1>2. topics[m.topic] \in Seq(PC!Messages) /\ topics'[m.topic] \in Seq(PC!Messages)
  BY <1>1 DEF PC!TopicsTyped, Grown, PC!Grown
<1>3. Len(topics[m.topic]) \in Nat /\ Len(topics'[m.topic]) \in Nat /\ Len(topics'[m.topic]) > Len(topics[m.topic])
  BY <1>2 DEF Grown, PC!Grown
<1>4. /\ Len(topics[m.topic]) + 1 \in DOMAIN topics'[m.topic]
      /\ ~(Len(topics[m.topic]) + 1 <= Len(topics[m.topic]))
  BY <1>2, <1>3
<1>5. topics'[m.topic][Len(topics[m.topic]) + 1] = [id |-> Len(topics[m.topic]) + 1, type |-> m.type, order |-> m.order]
  BY <1>4 DEF Grown, PC!Grown
<1> QED
  BY <1>4, <1>5 DEF Written

\* What is said stays said, and what is new is the answer of a handler.
LEMMA PaymentSaysStep ==
    ASSUME TypeOK, AnswersInHand, NEW type, NEW o,
           \/ \E kind \in PaymentTypes, p \in Orders : PaymentTakes(kind, p)
           \/ PaymentGives
           \/ PaymentRests
    PROVE  /\ PaymentSays(type, o) => PaymentSays(type, o)'
           /\ PaymentSays(type, o)' => PaymentSays(type, o) \/ (PaymentTakes(type, o) /\ type \in PaymentTypes /\ o \in Orders)
<1>1. "payment-events" \in Topics
  BY TopicNames
<1>2. ASSUME NEW kind \in PaymentTypes, NEW p \in Orders, PaymentTakes(kind, p)
      PROVE  /\ PaymentSays(type, o) => PaymentSays(type, o)'
             /\ PaymentSays(type, o)' => PaymentSays(type, o) \/ (PaymentTakes(type, o) /\ type \in PaymentTypes /\ o \in Orders)
  <2>1. PaymentLoop'.out.type = kind /\ PaymentLoop'.out.order = p
    BY <1>2 DEF PaymentTakes, PaymentAnswer
  <2>2. topics' = topics /\ PaymentLoop.pc # "publish"
    BY <1>2 DEF PaymentTakes
  <2>3. Written("payment-events", type, o)' <=> Written("payment-events", type, o)
    BY <2>2, WrittenStill
  <2>4. PaymentSays(type, o)' => Written("payment-events", type, o) \/ (type = kind /\ o = p)
    BY <2>1, <2>3 DEF PaymentSays
  <2>5. PaymentSays(type, o) => PaymentSays(type, o)'
    BY <2>2, <2>3 DEF PaymentSays
  <2>6. Written("payment-events", type, o) => PaymentSays(type, o)
    BY DEF PaymentSays
  <2> QED
    BY <1>2, <2>4, <2>5, <2>6
<1>3. CASE PaymentGives
  <2>1. PICK m \in Outs : m = PaymentLoop.out /\ m.topic = "payment-events" /\ Grown(m)
    BY <1>3, InHandFacts DEF PaymentGives
  <2>2. Written("payment-events", m.type, m.order)'
    BY <2>1, GrownWritten
  <2>3. Written("payment-events", type, o) => Written("payment-events", type, o)'
    BY <1>1, <2>1, WrittenKept DEF TopicsMove
  <2>4. Written("payment-events", type, o)' => Written("payment-events", type, o) \/ (type = m.type /\ o = m.order)
    BY <1>1, <2>1, WrittenThen
  <2>5. PaymentLoop.pc = "publish" /\ PaymentLoop'.pc # "publish"
    BY <1>3 DEF PaymentGives
  <2> QED
    BY <2>1, <2>2, <2>3, <2>4, <2>5 DEF PaymentSays
<1>4. CASE PaymentRests
  BY <1>4 DEF PaymentRests, PaymentSays, Written
<1> QED
  BY <1>2, <1>3, <1>4

LEMMA PaymentKept ==
    ASSUME TypeOK, TopicsMove, paymentSeen \subseteq paymentSeen', NEW type, NEW o
    PROVE  /\ PaymentBegun(type, o) => PaymentBegun(type, o)'
           /\ PaymentAgain(o) => PaymentAgain(o)'
<1>1. "payment-commands" \in Topics
  BY TopicNames
<1>2. PaymentAgain(o) => PaymentAgain(o)'
  BY <1>1, CopiesKept DEF PaymentAgain
<1>3. ASSUME PaymentBegun(type, o) PROVE PaymentBegun(type, o)'
  <2>1. PICK i \in Copies("payment-commands", type, o) :
            <<"payment-commands", topics["payment-commands"][i].id>> \in paymentSeen
    BY <1>3 DEF PaymentBegun, Begun
  <2>2. i \in Copies("payment-commands", type, o)' /\ topics'["payment-commands"][i] = topics["payment-commands"][i]
    BY <1>1, CopiesKept
  <2> QED
    BY <2>1, <2>2 DEF PaymentBegun, Begun
<1> QED
  BY <1>2, <1>3

\* What payment-service says, it was asked.
LEMMA PaymentAsked ==
    ASSUME AnswersAreSolicited, AnswersInHand, NEW type, NEW o, PaymentSays(type, o)
    PROVE  Orch!Sent(o, Orch!AnswerTo(type))
BY InHandFacts DEF PaymentSays, Written, AnswersAreSolicited, EventTopics, Orch!Deliverable, Orch!Sent

LEMMA PaymentTellsStep ==
    ASSUME TypeOK, TopicsMove, AnswersAreSolicited, AnswersInHand, EventsAreHeard, Known,
           NEW o \in Orders, PaymentTellsOf(o),
           \/ \E kind \in PaymentTypes, p \in Orders : PaymentTakes(kind, p)
           \/ PaymentGives
           \/ PaymentRests
    PROVE  PaymentTellsOf(o)'
<1>1. payments \in [Orders -> Payment!PaymentStates]
  BY TypesSplit DEF StoresTyped
<1>2. \A type : /\ PaymentSays(type, o) => PaymentSays(type, o)'
                /\ PaymentSays(type, o)' =>
                       PaymentSays(type, o) \/ (PaymentTakes(type, o) /\ type \in PaymentTypes /\ o \in Orders)
  BY PaymentSaysStep
<1>3. paymentSeen \subseteq paymentSeen'
  BY TakesNew DEF PaymentTakes, PaymentGives, PaymentRests
<1>4. /\ \A type : PaymentBegun(type, o) => PaymentBegun(type, o)'
      /\ PaymentAgain(o) => PaymentAgain(o)'
  BY <1>3, PaymentKept
<1>5. \A type \in PaymentTypes : PaymentTakes(type, o) =>
          /\ PaymentBegun(Orch!AnswerTo(type), o)'
          /\ PaymentBegun("ReservePayment", o) /\ Orch!AnswerTo(type) = "ReservePayment" => PaymentAgain(o)'
          /\ payments'[o] = PaymentAfter(type, payments[o])
          /\ PaymentLoop'.pc = "publish" /\ PaymentLoop'.out.type = type
          /\ PaymentSays(type, o)'
  <2> TAKE type \in PaymentTypes
  <2> HAVE PaymentTakes(type, o)
  <2>1. topics' = topics /\ Takes(paymentSeen, paymentSeen', "payment-commands", Orch!AnswerTo(type), o)
    BY DEF PaymentTakes
  <2>2. Begun(paymentSeen', "payment-commands", Orch!AnswerTo(type), o)
    BY <2>1, TakesNew
  <2>3. PaymentBegun(Orch!AnswerTo(type), o)'
    BY <2>1, <2>2 DEF PaymentBegun, Begun, Copies
  <2>4. PaymentBegun("ReservePayment", o) /\ Orch!AnswerTo(type) = "ReservePayment" => PaymentAgain(o)'
    BY <1>4, <2>1, TakesNew DEF PaymentBegun, PaymentAgain
  <2>5. payments'[o] = PaymentAfter(type, payments[o])
    BY <1>1 DEF PaymentTakes
  <2>6. PaymentLoop'.pc = "publish" /\ PaymentLoop'.out.type = type /\ PaymentLoop'.out.order = o
    BY DEF PaymentTakes, PaymentAnswer
  <2>7. PaymentSays(type, o)'
    BY <2>6 DEF PaymentSays
  <2> QED
    BY <2>3, <2>4, <2>5, <2>6, <2>7
<1>6. \/ payments'[o] = payments[o]
      \/ \E type \in PaymentTypes : PaymentTakes(type, o)
  BY <1>1 DEF PaymentTakes, PaymentGives, PaymentRests
<1>7. /\ PaymentAfter("PaymentReserved", payments[o]) = "held"
      /\ PaymentAfter("PaymentFailed", payments[o]) = payments[o]
      /\ PaymentAfter("PaymentCancelled", payments[o]) # "held"
      /\ payments[o] = "none" => PaymentAfter("PaymentCancelled", payments[o]) = "none"
  BY DEF PaymentAfter, Payment!AfterDelete
<1>8. payments'[o] # "none" => PaymentSays("PaymentReserved", o)'
  BY <1>2, <1>5, <1>6, <1>7 DEF PaymentTellsOf, PaymentTypes
<1>9. PaymentSays("PaymentReserved", o)' \/ PaymentSays("PaymentFailed", o)' => PaymentBegun("ReservePayment", o)'
  BY <1>2, <1>4, <1>5, EventNames DEF PaymentTellsOf
<1>10. PaymentSays("PaymentReserved", o)' /\ PaymentSays("PaymentFailed", o)' => PaymentAgain(o)'
  BY <1>2, <1>4, <1>5, EventNames DEF PaymentTellsOf
<1>11. PaymentSays("PaymentCancelled", o)' /\ payments'[o] = "held" => PaymentAgain(o)'
  <2> SUFFICES ASSUME PaymentSays("PaymentCancelled", o)', payments'[o] = "held" PROVE PaymentAgain(o)'
    OBVIOUS
  <2>1. PaymentSays("PaymentCancelled", o)
    BY <1>2, <1>5, <1>7
  <2>2. CASE payments[o] = "held"
    BY <1>4, <2>1, <2>2 DEF PaymentTellsOf
  <2>3. CASE PaymentTakes("PaymentReserved", o)
    <3>1. Orch!Sent(o, "CancelPayment")
      BY <2>1, PaymentAsked, EventNames
    <3>2. Worked(o, "PAYMENT_PENDING", {"PaymentReserved"})
      BY <3>1, SagaPath DEF SagaPathTo
    <3>3. Written("payment-events", "PaymentReserved", o)
      <4>1. Heard("PaymentReserved", o)
        BY <3>2, WorkedIsHeard
      <4> QED
        BY <4>1, HeardAre
    <3>4. PaymentBegun("ReservePayment", o)
      BY <3>3 DEF PaymentTellsOf, PaymentSays
    <3> QED
      BY <1>5, <2>3, <3>4, EventNames DEF PaymentTypes
  <2> QED
    BY <1>5, <1>6, <1>7, <2>2, <2>3 DEF PaymentTypes
<1> QED
  BY <1>8, <1>9, <1>10, <1>11 DEF PaymentTellsOf

-----------------------------------------------------------------------------
(* What inventory-service says *)

InventoryTypes == {"InventoryReserved", "InventoryFailed"}

InventoryTakes(type, o) ==
    /\ topics' = topics
    /\ Takes(inventorySeen, inventorySeen', "inventory-commands", "ReserveInventory", o)
    /\ InventoryLoop.pc # "publish"
    /\ InventoryLoop'.pc = "publish" /\ InventoryLoop'.out = InventoryAnswer(type, o) /\ InventoryLoop'.retry = 0
    /\ reservations' = IF type = "InventoryReserved" THEN reservations \cup {o} ELSE reservations

InventoryGives ==
    /\ InventoryLoop.pc = "publish" /\ InventoryLoop.out \in Outs /\ Grown(InventoryLoop.out)
    /\ InventoryLoop'.pc # "publish" /\ InventoryLoop'.retry = 0
    /\ UNCHANGED <<inventorySeen, reservations>>

InventoryRests ==
    /\ topics'["inventory-events"] = topics["inventory-events"]
    /\ \/ InventoryLoop' = InventoryLoop
       \/ InventoryLoop.pc # "publish" /\ InventoryLoop'.pc # "publish" /\ InventoryLoop'.retry = 0
    /\ UNCHANGED <<inventorySeen, reservations>>

LEMMA InventoryCommandInHand ==
    ASSUME TypeOK, NEW t \in DOMAIN InventoryHandled, IC!Handles(t)
    PROVE  /\ t = "inventory-commands"
           /\ IC!InHand(t).order \in Orders
           /\ IC!At(t) \in Copies(t, "ReserveInventory", IC!InHand(t).order)
<1>1. t = "inventory-commands"
  BY TopicNames
<1>2. IC!InHand(t) \in IC!Messages /\ IC!At(t) \in DOMAIN topics[t]
  BY TypesSplit, IC!HandFacts DEF IC!Handles
<1>3. IC!InHand(t).order \in Orders
  BY <1>2 DEF IC!Messages
<1>4. IC!InHand(t).type = "ReserveInventory"
  BY <1>1, TopicNames DEF IC!Handles
<1> QED
  BY <1>1, <1>2, <1>3, <1>4 DEF Copies, IC!InHand

LEMMA InventoryTakesOne ==
    ASSUME TypeOK, InventoryLoop.retry = 0, NEW t \in DOMAIN InventoryHandled, Reserves(t)
    PROVE  \E type \in InventoryTypes, o \in Orders : InventoryTakes(type, o)
<1> DEFINE o == IC!InHand(t).order
<1>1. IC!Typed
  BY TypesSplit
<1>2. t = "inventory-commands" /\ IC!Id(t) \notin inventorySeen /\ o \in Orders /\ IC!At(t) \in Copies(t, "ReserveInventory", o)
  BY InventoryCommandInHand DEF Reserves, IC!Handle, IC!Begin
<1>3. IC!Id(t) = <<t, topics[t][IC!At(t)].id>>
  BY DEF IC!InHand, IC!Id
<1>4. \E type \in InventoryTypes :
          /\ IC!Handle(t, InventoryAnswer(type, o))
          /\ reservations' = IF type = "InventoryReserved" THEN reservations \cup {o} ELSE reservations
  BY DEF Reserves, InventoryTypes
<1> HIDE DEF o
<1>5. ASSUME NEW type \in InventoryTypes, IC!Handle(t, InventoryAnswer(type, o)),
             reservations' = IF type = "InventoryReserved" THEN reservations \cup {o} ELSE reservations
      PROVE  InventoryTakes(type, o)
  <2>1. InventoryAnswer(type, o) \in IC!Outs
    BY <1>2, MessagesTyped, GrownSame DEF InventoryTypes
  <2>2. /\ topics' = topics /\ inventorySeen' = inventorySeen \cup {IC!Id(t)}
        /\ inventoryLoop[t].pc \in {"fetch", "handle"}
        /\ inventoryLoop'[t].pc = "publish" /\ inventoryLoop'[t].out = InventoryAnswer(type, o)
        /\ inventoryLoop'[t].retry = inventoryLoop[t].retry
    BY <1>1, <1>5, <2>1, IC!HandleStep
  <2>3. Takes(inventorySeen, inventorySeen', "inventory-commands", "ReserveInventory", o)
    BY <1>2, <1>3, <2>2 DEF Takes
  <2> QED
    BY <1>2, <1>5, <2>2, <2>3 DEF InventoryTakes, InventoryLoop
<1> QED
  BY <1>2, <1>4, <1>5

LEMMA InventoryActs ==
    ASSUME TypeOK, AnswersInHand, InventoryLoop.retry = 0, [Next]_vars, faults'.harmful = 0
    PROVE  \/ \E type \in InventoryTypes, o \in Orders : InventoryTakes(type, o)
           \/ InventoryGives
           \/ InventoryRests
<1>1. IC!Typed /\ faults.harmful \in Nat
  BY TypesSplit DEF FaultsTyped
<1>2. CASE InventoryStill /\ topics'["inventory-events"] = topics["inventory-events"]
  BY <1>2 DEF InventoryStill, InventoryRests, InventoryLoop
<1>3. CASE Inventory!Next
  <2>1. ASSUME NEW t \in DOMAIN InventoryHandled, InventoryPublishes(t) PROVE InventoryGives
    <3>1. t = "inventory-commands"
      BY TopicNames
    <3>2. IC!Publish(t) \/ IC!PublishTwice(t)
      BY <1>1, <2>1, <3>1, IC!PublishErrorStep DEF InventoryPublishes, InventoryLoop
    <3> QED
      BY <1>1, <2>1, <3>1, <3>2, IC!PublishStep, GrownSame DEF InventoryPublishes, InventoryGives, InventoryLoop
  <2>2. ASSUME NEW t \in DOMAIN InventoryHandled, IC!Moves(t), reservations' = reservations PROVE InventoryRests
    <3>1. t = "inventory-commands"
      BY TopicNames
    <3> QED
      BY <1>1, <2>2, <3>1, IC!MovesStep DEF InventoryRests, InventoryLoop
  <2>3. ~InventoryRestarts
    BY <1>1, IC!RestartStep DEF InventoryRestarts
  <2> QED
    BY <1>3, <2>1, <2>2, <2>3, InventorySteps, InventoryTakesOne
<1>4. CASE UNCHANGED vars
  BY <1>2, <1>4 DEF vars, inventoryState, InventoryStill
<1> QED
  BY <1>2, <1>3, <1>4, Turns, OthersWrite

InventorySays(type, o) ==
    \/ Written("inventory-events", type, o)
    \/ InventoryLoop.pc = "publish" /\ InventoryLoop.out.type = type /\ InventoryLoop.out.order = o

InventoryBegun(o) == Begun(inventorySeen, "inventory-commands", "ReserveInventory", o)

InventoryAgain(o) == Resent("inventory-commands", "ReserveInventory", o)

InventoryTellsOf(o) ==
    /\ o \in reservations => InventorySays("InventoryReserved", o)
    /\ InventorySays("InventoryReserved", o) \/ InventorySays("InventoryFailed", o) => InventoryBegun(o)
    /\ InventorySays("InventoryReserved", o) /\ InventorySays("InventoryFailed", o) => InventoryAgain(o)

LEMMA InventoryTellings ==
    ASSUME TypeOK
    PROVE  /\ \A o \in Orders : InventoryTells(o) <=> InventoryTellsOf(o)
           /\ \A t \in DOMAIN InventoryHandled : inventoryLoop[t].retry = InventoryLoop.retry
<1>1. DOMAIN inventoryLoop = {"inventory-commands"} /\ DOMAIN InventoryHandled = {"inventory-commands"}
  BY TypesSplit, TopicNames DEF IC!Typed, IC!ConsumersTypeOK
<1>2. \A type, o : Answered(inventoryLoop, "inventory-events", type, o) <=> InventorySays(type, o)
  BY <1>1 DEF Answered, InventorySays, InventoryLoop
<1> QED
  BY <1>1, <1>2 DEF InventoryTells, InventoryTellsOf, InventoryBegun, InventoryAgain, InventoryLoop

LEMMA InventorySaysStep ==
    ASSUME TypeOK, AnswersInHand, NEW type, NEW o,
           \/ \E kind \in InventoryTypes, p \in Orders : InventoryTakes(kind, p)
           \/ InventoryGives
           \/ InventoryRests
    PROVE  /\ InventorySays(type, o) => InventorySays(type, o)'
           /\ InventorySays(type, o)' =>
                  InventorySays(type, o) \/ (InventoryTakes(type, o) /\ type \in InventoryTypes /\ o \in Orders)
<1>1. "inventory-events" \in Topics
  BY TopicNames
<1>2. ASSUME NEW kind \in InventoryTypes, NEW p \in Orders, InventoryTakes(kind, p)
      PROVE  /\ InventorySays(type, o) => InventorySays(type, o)'
             /\ InventorySays(type, o)' =>
                    InventorySays(type, o) \/ (InventoryTakes(type, o) /\ type \in InventoryTypes /\ o \in Orders)
  <2>1. InventoryLoop'.out.type = kind /\ InventoryLoop'.out.order = p
    BY <1>2 DEF InventoryTakes, InventoryAnswer
  <2>2. topics' = topics /\ InventoryLoop.pc # "publish"
    BY <1>2 DEF InventoryTakes
  <2>3. Written("inventory-events", type, o)' <=> Written("inventory-events", type, o)
    BY <2>2, WrittenStill
  <2>4. InventorySays(type, o)' => Written("inventory-events", type, o) \/ (type = kind /\ o = p)
    BY <2>1, <2>3 DEF InventorySays
  <2>5. InventorySays(type, o) => InventorySays(type, o)'
    BY <2>2, <2>3 DEF InventorySays
  <2>6. Written("inventory-events", type, o) => InventorySays(type, o)
    BY DEF InventorySays
  <2> QED
    BY <1>2, <2>4, <2>5, <2>6
<1>3. CASE InventoryGives
  <2>1. PICK m \in Outs : m = InventoryLoop.out /\ m.topic = "inventory-events" /\ Grown(m)
    BY <1>3, InHandFacts DEF InventoryGives
  <2>2. Written("inventory-events", m.type, m.order)'
    BY <2>1, GrownWritten
  <2>3. Written("inventory-events", type, o) => Written("inventory-events", type, o)'
    BY <1>1, <2>1, WrittenKept DEF TopicsMove
  <2>4. Written("inventory-events", type, o)' => Written("inventory-events", type, o) \/ (type = m.type /\ o = m.order)
    BY <1>1, <2>1, WrittenThen
  <2>5. InventoryLoop.pc = "publish" /\ InventoryLoop'.pc # "publish"
    BY <1>3 DEF InventoryGives
  <2> QED
    BY <2>1, <2>2, <2>3, <2>4, <2>5 DEF InventorySays
<1>4. CASE InventoryRests
  BY <1>4 DEF InventoryRests, InventorySays, Written
<1> QED
  BY <1>2, <1>3, <1>4

LEMMA InventoryKept ==
    ASSUME TypeOK, TopicsMove, inventorySeen \subseteq inventorySeen', NEW o
    PROVE  /\ InventoryBegun(o) => InventoryBegun(o)'
           /\ InventoryAgain(o) => InventoryAgain(o)'
<1>1. "inventory-commands" \in Topics
  BY TopicNames
<1>2. InventoryAgain(o) => InventoryAgain(o)'
  BY <1>1, CopiesKept DEF InventoryAgain
<1>3. ASSUME InventoryBegun(o) PROVE InventoryBegun(o)'
  <2>1. PICK i \in Copies("inventory-commands", "ReserveInventory", o) :
            <<"inventory-commands", topics["inventory-commands"][i].id>> \in inventorySeen
    BY <1>3 DEF InventoryBegun, Begun
  <2>2. /\ i \in Copies("inventory-commands", "ReserveInventory", o)'
        /\ topics'["inventory-commands"][i] = topics["inventory-commands"][i]
    BY <1>1, CopiesKept
  <2> QED
    BY <2>1, <2>2 DEF InventoryBegun, Begun
<1> QED
  BY <1>2, <1>3

LEMMA InventoryAsked ==
    ASSUME AnswersAreSolicited, AnswersInHand, NEW type, NEW o, InventorySays(type, o)
    PROVE  Orch!Sent(o, Orch!AnswerTo(type))
BY InHandFacts DEF InventorySays, Written, AnswersAreSolicited, EventTopics, Orch!Deliverable, Orch!Sent

LEMMA InventoryTellsStep ==
    ASSUME TypeOK, TopicsMove, AnswersInHand, NEW o \in Orders, InventoryTellsOf(o),
           \/ \E kind \in InventoryTypes, p \in Orders : InventoryTakes(kind, p)
           \/ InventoryGives
           \/ InventoryRests
    PROVE  InventoryTellsOf(o)'
<1>1. \A type : /\ InventorySays(type, o) => InventorySays(type, o)'
                /\ InventorySays(type, o)' =>
                       InventorySays(type, o) \/ (InventoryTakes(type, o) /\ type \in InventoryTypes /\ o \in Orders)
  BY InventorySaysStep
<1>2. inventorySeen \subseteq inventorySeen'
  BY TakesNew DEF InventoryTakes, InventoryGives, InventoryRests
<1>3. (InventoryBegun(o) => InventoryBegun(o)') /\ (InventoryAgain(o) => InventoryAgain(o)')
  BY <1>2, InventoryKept
<1>4. \A type \in InventoryTypes : InventoryTakes(type, o) =>
          /\ InventoryBegun(o)'
          /\ InventoryBegun(o) => InventoryAgain(o)'
          /\ InventoryLoop'.pc = "publish" /\ InventoryLoop'.out.type = type
          /\ InventorySays(type, o)'
  <2> TAKE type \in InventoryTypes
  <2> HAVE InventoryTakes(type, o)
  <2>1. topics' = topics /\ Takes(inventorySeen, inventorySeen', "inventory-commands", "ReserveInventory", o)
    BY DEF InventoryTakes
  <2>2. Begun(inventorySeen', "inventory-commands", "ReserveInventory", o)
    BY <2>1, TakesNew
  <2>3. InventoryBegun(o)'
    BY <2>1, <2>2 DEF InventoryBegun, Begun, Copies
  <2>4. InventoryBegun(o) => InventoryAgain(o)'
    BY <1>3, <2>1, TakesNew DEF InventoryBegun, InventoryAgain
  <2>5. InventoryLoop'.pc = "publish" /\ InventoryLoop'.out.type = type /\ InventoryLoop'.out.order = o
    BY DEF InventoryTakes, InventoryAnswer
  <2>6. InventorySays(type, o)'
    BY <2>5 DEF InventorySays
  <2> QED
    BY <2>3, <2>4, <2>5, <2>6
<1>5. o \in reservations' => o \in reservations \/ InventoryTakes("InventoryReserved", o)
  BY DEF InventoryTakes, InventoryGives, InventoryRests, InventoryTypes
<1>6. o \in reservations' => InventorySays("InventoryReserved", o)'
  BY <1>1, <1>4, <1>5 DEF InventoryTellsOf, InventoryTypes
<1>7. InventorySays("InventoryReserved", o)' \/ InventorySays("InventoryFailed", o)' => InventoryBegun(o)'
  BY <1>1, <1>3, <1>4 DEF InventoryTellsOf
<1>8. InventorySays("InventoryReserved", o)' /\ InventorySays("InventoryFailed", o)' => InventoryAgain(o)'
  BY <1>1, <1>3, <1>4 DEF InventoryTellsOf
<1> QED
  BY <1>6, <1>7, <1>8 DEF InventoryTellsOf

-----------------------------------------------------------------------------
(* The invariant *)

LEMMA CourseSplit ==
    ASSUME TypeOK
    PROVE  CourseInv <=>
               /\ OrdersComeFirst
               /\ ResentIsPublished
               /\ faults.harmful = 0 => /\ PaymentLoop.retry = 0 /\ InventoryLoop.retry = 0
                                        /\ \A o \in Orders : PaymentTellsOf(o) /\ InventoryTellsOf(o)
<1>1. "payment-commands" \in DOMAIN PaymentHandled /\ "inventory-commands" \in DOMAIN InventoryHandled
  BY TopicNames
<1> QED
  BY <1>1, PaymentTellings, InventoryTellings DEF CourseInv, NothingToRetry

LEMMA CourseInit == Init => CourseInv
<1> SUFFICES ASSUME Init PROVE CourseInv
  OBVIOUS
<1>1. /\ TypeOK /\ \A t \in Topics : topics[t] = <<>>
      /\ PaymentLoop.pc = "fetch" /\ InventoryLoop.pc = "fetch"
      /\ \A o \in Orders : payments[o] = "none"
  BY Initially
<1>2. requests = {} /\ reservations = {}
  BY DEF Init, Api!Init, Inventory!Init
<1>3. \A t \in Topics : DOMAIN topics[t] = {}
  BY <1>1
<1>4. \A t \in Topics : \A type, o : ~Written(t, type, o) /\ ~Resent(t, type, o)
  BY <1>3 DEF Written, Resent, Copies
<1>5. OrdersComeFirst /\ ResentIsPublished
  BY <1>2, <1>4, TopicNames DEF OrdersComeFirst, ResentIsPublished
<1>6. PaymentLoop.retry = 0 /\ InventoryLoop.retry = 0
  BY TopicNames DEF Init, Payment!Init, Inventory!Init, Payment!ConsumersInit, Inventory!ConsumersInit, Payment!StartAt,
                    Inventory!StartAt, PaymentLoop, InventoryLoop
<1>7. \A type, o : ~PaymentSays(type, o) /\ ~InventorySays(type, o)
  BY <1>1, <1>4, TopicNames DEF PaymentSays, InventorySays
<1>8. \A o \in Orders : PaymentTellsOf(o) /\ InventoryTellsOf(o)
  BY <1>1, <1>2, <1>7 DEF PaymentTellsOf, InventoryTellsOf
<1> QED
  BY <1>1, <1>5, <1>6, <1>8, CourseSplit

LEMMA CourseStep == Known /\ IInv /\ [Next]_vars => CourseInv'
<1> SUFFICES ASSUME Known, IInv, [Next]_vars PROVE CourseInv'
  OBVIOUS
<1>1. /\ TypeOK /\ CommandsArePublished /\ AnswersAreSolicited /\ AnswersInHand /\ EventsAreHeard
      /\ CourseInv
  BY DEF IInv, TraceInv
<1>2. /\ OrdersComeFirst /\ ResentIsPublished
      /\ faults.harmful = 0 => /\ PaymentLoop.retry = 0 /\ InventoryLoop.retry = 0
                               /\ \A o \in Orders : PaymentTellsOf(o) /\ InventoryTellsOf(o)
  BY <1>1, CourseSplit
<1>3. TypeOK' /\ TopicsMove
  BY <1>1, Steps, Growth
<1>4. OrdersComeFirst' /\ ResentIsPublished'
  BY <1>1, <1>2, FirstComeStep, ResentStep
<1>5. ASSUME faults'.harmful = 0
      PROVE  /\ PaymentLoop'.retry = 0 /\ InventoryLoop'.retry = 0
             /\ \A o \in Orders : PaymentTellsOf(o)' /\ InventoryTellsOf(o)'
  <2>1. faults.harmful = 0
    <3>1. FaultsMove \/ faults'.harmful = faults.harmful + 1 \/ faults' = faults
      BY <1>1, Steps DEF ApiMoves, OrchMoves, PaymentMoves, PaymentAnswers, PaymentProceeds, PaymentForgets,
                         InventoryMoves, InventoryAnswers, InventoryProceeds, InventoryForgets, vars
    <3>2. faults.harmful \in Nat
      BY <1>1, TypesSplit DEF FaultsTyped
    <3> QED
      BY <1>5, <3>1, <3>2 DEF FaultsMove
  <2>2. /\ PaymentLoop.retry = 0 /\ InventoryLoop.retry = 0
        /\ \A o \in Orders : PaymentTellsOf(o) /\ InventoryTellsOf(o)
    BY <1>2, <2>1
  <2>3. \/ \E type \in PaymentTypes, o \in Orders : PaymentTakes(type, o)
        \/ PaymentGives
        \/ PaymentRests
    BY <1>1, <1>5, <2>2, PaymentActs
  <2>4. \/ \E type \in InventoryTypes, o \in Orders : InventoryTakes(type, o)
        \/ InventoryGives
        \/ InventoryRests
    BY <1>1, <1>5, <2>2, InventoryActs
  <2>5. PaymentLoop'.retry = 0
    BY <2>2, <2>3 DEF PaymentTakes, PaymentGives, PaymentRests
  <2>6. InventoryLoop'.retry = 0
    BY <2>2, <2>4 DEF InventoryTakes, InventoryGives, InventoryRests
  <2>7. ASSUME NEW o \in Orders PROVE PaymentTellsOf(o)' /\ InventoryTellsOf(o)'
    BY <1>1, <1>3, <2>2, <2>3, <2>4, PaymentTellsStep, InventoryTellsStep
  <2> QED
    BY <2>5, <2>6, <2>7
<1>6. TypeOK' => (CourseInv <=>
          /\ OrdersComeFirst
          /\ ResentIsPublished
          /\ faults.harmful = 0 => /\ PaymentLoop.retry = 0 /\ InventoryLoop.retry = 0
                                   /\ \A o \in Orders : PaymentTellsOf(o) /\ InventoryTellsOf(o))'
  BY CourseSplit, PTL
<1> QED
  BY <1>3, <1>4, <1>5, <1>6

\* The invariant of the services together: the traces each step leaves, and how often
\* commands are sent and answered, given what is proved of the orchestrator alone.
THEOREM Invariance == Spec => []IInv
<1>1. Init => IInv
  BY InvInit, CourseInit DEF IInv
<1>2. Known /\ Known' /\ IInv /\ [Next]_vars => IInv'
  BY InvStep, CourseStep DEF IInv
<1> QED
  BY <1>1, <1>2, KnownHolds, PTL DEF Spec

-----------------------------------------------------------------------------
(* What a failed saga leaves behind *)

\* A saga leaves a state in one way.
LEMMA OneWay ==
    ASSUME Known, NEW o, NEW state, NEW events, "Retry" \notin events, Worked(o, state, events),
           NEW event, event # "Retry", Worked(o, state, {event})
    PROVE  event \in events
<1>1. PICK v \in writes : v.saga = o /\ v.from = state /\ v.event \in events
  BY DEF Worked
<1>2. PICK w \in writes : w.saga = o /\ w.from = state /\ w.event = event
  BY DEF Worked
<1>3. v.from # v.to /\ w.from # w.to
  BY <1>1, <1>2 DEF Known, Orch!OnePathPerSaga
<1>4. v = w
  BY <1>1, <1>2, <1>3 DEF Known, Orch!OnePathPerSaga
<1> QED
  BY <1>1, <1>2, <1>4

\* The state a command belongs to, and the way into it.
StepOf(type) == IF type = "ReservePayment" THEN "PAYMENT_PENDING" ELSE "INVENTORY_PENDING"

\* A command is published more than once only for a retry.
LEMMA PublishedAgain ==
    ASSUME TypeOK, Known, NEW o, NEW type \in {"ReservePayment", "ReserveInventory"},
           NEW m \in published, NEW n \in published, m # n, m.saga = o, n.saga = o, m.type = type, n.type = type
    PROVE  Worked(o, StepOf(type), {"Retry"})
<1>1. PICK v \in writes : v.saga = o /\ v.updatedAt = m.updatedAt /\ type = Orch!MessageFor(v.to)
  BY DEF Known, Orch!PublishedAfterPersist
<1>2. PICK w \in writes : w.saga = o /\ w.updatedAt = n.updatedAt /\ type = Orch!MessageFor(w.to)
  BY DEF Known, Orch!PublishedAfterPersist
<1>3. m.updatedAt # n.updatedAt
  BY DEF Known, Orch!PublishedAfterPersist
<1>4. \A x \in writes : x.to \in {"PAYMENT_PENDING", "INVENTORY_PENDING", "CANCEL_PAYMENT_PENDING", "COMPLETED", "FAILED"}
  BY DEF TypeOK, Orch!TypeOK, Orch!Writes, Orch!SagaStates, Orch!PendingStates, Orch!TerminalStates
<1>5. v.to = StepOf(type) /\ w.to = StepOf(type)
  BY <1>1, <1>2, <1>4 DEF Orch!MessageFor, StepOf
<1>6. ASSUME NEW x \in writes, x.saga = o, x.to = StepOf(type), x.from = x.to PROVE Worked(o, StepOf(type), {"Retry"})
  BY <1>6 DEF Known, Orch!OnePathPerSaga, Worked
<1>7. ASSUME NEW x \in writes, x.to = StepOf(type), x.from # x.to
      PROVE  x.from = IF type = "ReservePayment" THEN "STARTED" ELSE "PAYMENT_PENDING"
  <2>1. Orch!Edge(x.from, x.to, x.event) \in Orch!DiagramTransitions
    BY <1>7 DEF Known, Orch!DiagramComplete
  <2>2. \A e \in Orch!DiagramTransitions :
            /\ e.to = "PAYMENT_PENDING" => e.from = "STARTED"
            /\ e.to = "INVENTORY_PENDING" => e.from = "PAYMENT_PENDING"
    BY DEF Orch!Edge, Orch!DiagramTransitions
  <2>3. /\ x.to = "PAYMENT_PENDING" => x.from = "STARTED"
        /\ x.to = "INVENTORY_PENDING" => x.from = "PAYMENT_PENDING"
    BY <2>1, <2>2 DEF Orch!Edge
  <2> QED
    BY <1>7, <2>3 DEF StepOf
<1>8. CASE v.from # v.to /\ w.from # w.to
  <2>1. v.from = w.from
    BY <1>5, <1>7, <1>8
  <2>2. v = w
    BY <1>1, <1>2, <1>8, <2>1 DEF Known, Orch!OnePathPerSaga
  <2> QED
    BY <1>1, <1>2, <1>3, <2>2
<1> QED
  BY <1>1, <1>2, <1>5, <1>6, <1>8

LEMMA AgainIsRetried ==
    ASSUME TypeOK, Known, ResentIsPublished, NEW o \in Orders
    PROVE  /\ PaymentAgain(o) => Worked(o, "PAYMENT_PENDING", {"Retry"})
           /\ InventoryAgain(o) => Worked(o, "INVENTORY_PENDING", {"Retry"})
<1>1. ASSUME NEW t \in {"payment-commands", "inventory-commands"}, NEW type \in {"ReservePayment", "ReserveInventory"},
             Resent(t, type, o)
      PROVE  Worked(o, StepOf(type), {"Retry"})
  <2>1. type \in Orch!Commands
    BY DEF Orch!Commands
  <2>2. PICK m, n \in published : m # n /\ \A x \in {m, n} : x.saga = o /\ x.type = type
    BY <1>1, <2>1 DEF ResentIsPublished
  <2>3. m.saga = o /\ n.saga = o /\ m.type = type /\ n.type = type
    BY <2>2
  <2> QED
    BY <2>2, <2>3, PublishedAgain
<1>2. StepOf("ReservePayment") = "PAYMENT_PENDING" /\ StepOf("ReserveInventory") = "INVENTORY_PENDING"
  BY DEF StepOf
<1> QED
  BY <1>1, <1>2 DEF PaymentAgain, InventoryAgain

\* What a participant says, and what the saga did about it, of the ways a saga can fail.
LEMMA SaidIsHeard ==
    ASSUME EventsAreHeard, NEW o
    PROVE  /\ \A state : Worked(o, state, {"PaymentReserved"}) => PaymentSays("PaymentReserved", o)
           /\ \A state : Worked(o, state, {"PaymentFailed"}) => PaymentSays("PaymentFailed", o)
           /\ \A state : Worked(o, state, {"PaymentCancelled"}) => PaymentSays("PaymentCancelled", o)
           /\ \A state : Worked(o, state, {"InventoryFailed"}) => InventorySays("InventoryFailed", o)
<1>1. \A state, event : Worked(o, state, {event}) => Heard(event, o)
  BY WorkedIsHeard
<1> QED
  BY <1>1, HeardAre DEF PaymentSays, InventorySays

LEMMA LeaksAre ==
    ASSUME IInv, Known
    PROVE  LeaksNeedTimeouts
<1> SUFFICES ASSUME NEW o \in Orders, orders[o] = "CANCELLED", faults.harmful = 0
             PROVE  /\ o \in reservations => Worked(o, "INVENTORY_PENDING", {"Retry", "Timeout"})
                    /\ payments[o] = "held" =>
                           \/ Worked(o, "PAYMENT_PENDING", {"Retry", "Timeout"})
                           \/ Worked(o, "CANCEL_PAYMENT_PENDING", {"Timeout"})
  BY DEF LeaksNeedTimeouts
<1>1. /\ TypeOK /\ AnswersAreSolicited /\ AnswersInHand /\ OutcomesAreTold /\ EventsAreHeard
      /\ ResentIsPublished /\ PaymentTellsOf(o) /\ InventoryTellsOf(o)
  BY CourseSplit DEF IInv, TraceInv
<1>2. SagaPathTo(o, "SagaFailed")
  BY <1>1, SagaPath DEF OutcomesAreTold
<1>3. /\ PaymentAgain(o) => Worked(o, "PAYMENT_PENDING", {"Retry"})
      /\ InventoryAgain(o) => Worked(o, "INVENTORY_PENDING", {"Retry"})
  BY <1>1, AgainIsRetried
<1>4. \A state, event : event \in {"Retry", "Timeout"} /\ Worked(o, state, {event}) => Worked(o, state, {"Retry", "Timeout"})
  BY DEF Worked
<1>5. \/ Worked(o, "PAYMENT_PENDING", {"PaymentFailed", "Timeout"})
      \/ /\ Worked(o, "PAYMENT_PENDING", {"PaymentReserved"})
         /\ Worked(o, "INVENTORY_PENDING", {"InventoryFailed", "Timeout"})
         /\ Worked(o, "CANCEL_PAYMENT_PENDING", {"PaymentCancelled", "Timeout"})
  BY <1>2 DEF SagaPathTo
<1>6. ASSUME o \in reservations PROVE Worked(o, "INVENTORY_PENDING", {"Retry", "Timeout"})
  <2>1. InventorySays("InventoryReserved", o)
    BY <1>1, <1>6 DEF InventoryTellsOf
  <2>2. Orch!Sent(o, "ReserveInventory")
    BY <1>1, <2>1, InventoryAsked, EventNames
  <2>3. Worked(o, "PAYMENT_PENDING", {"PaymentReserved"})
    BY <1>1, <2>2, SagaPath DEF SagaPathTo
  <2>4. ~Worked(o, "PAYMENT_PENDING", {"PaymentFailed", "Timeout"})
    BY <2>3, OneWay
  <2>5. Worked(o, "INVENTORY_PENDING", {"InventoryFailed"}) \/ Worked(o, "INVENTORY_PENDING", {"Timeout"})
    BY <1>5, <2>4, WorkedEither
  <2>6. ASSUME Worked(o, "INVENTORY_PENDING", {"InventoryFailed"}) PROVE InventoryAgain(o)
    BY <1>1, <2>1, <2>6, SaidIsHeard DEF InventoryTellsOf
  <2> QED
    BY <1>3, <1>4, <2>5, <2>6
<1>7. ASSUME payments[o] = "held"
      PROVE  Worked(o, "PAYMENT_PENDING", {"Retry", "Timeout"}) \/ Worked(o, "CANCEL_PAYMENT_PENDING", {"Timeout"})
  <2>1. PaymentSays("PaymentReserved", o)
    BY <1>1, <1>7 DEF PaymentTellsOf
  <2>2. ASSUME Worked(o, "PAYMENT_PENDING", {"PaymentFailed"}) PROVE PaymentAgain(o)
    BY <1>1, <2>1, <2>2, SaidIsHeard DEF PaymentTellsOf
  <2>3. ASSUME Worked(o, "CANCEL_PAYMENT_PENDING", {"PaymentCancelled"}) PROVE PaymentAgain(o)
    BY <1>1, <1>7, <2>3, SaidIsHeard DEF PaymentTellsOf
  <2>4. \/ Worked(o, "PAYMENT_PENDING", {"PaymentFailed"}) \/ Worked(o, "PAYMENT_PENDING", {"Timeout"})
        \/ Worked(o, "CANCEL_PAYMENT_PENDING", {"PaymentCancelled"}) \/ Worked(o, "CANCEL_PAYMENT_PENDING", {"Timeout"})
    BY <1>5, WorkedEither
  <2> QED
    BY <1>3, <1>4, <2>2, <2>3, <2>4
<1> QED
  BY <1>6, <1>7

\* A failed saga leaves a payment or a reservation behind only where the timeout worker
\* resent a command or gave a step up, whatever else fails in the orchestrator.
THEOREM LeaksFollowTimeouts == Spec => []LeaksNeedTimeouts
BY Invariance, KnownHolds, LeaksAre, PTL

-----------------------------------------------------------------------------
(* The order saga *)

SagaStatus == [o \in Orders |-> StatusOf(o)]
SagaReserved == [o \in Orders |-> o \in reservations]

LEMMA SagaKept ==
    /\ orders' = orders => SagaStatus' = SagaStatus
    /\ reservations' = reservations => SagaReserved' = SagaReserved
BY DEF SagaStatus, SagaReserved, StatusOf

LEMMA SagaMoves ==
    ASSUME NEW o \in Orders
    PROVE  /\ (\A p \in Orders \ {o} : orders'[p] = orders[p]) =>
                  SagaStatus' = [SagaStatus EXCEPT ![o] = StatusOf(o)']
           /\ reservations' = reservations \cup {o} => SagaReserved' = [SagaReserved EXCEPT ![o] = TRUE]
           /\ SagaStatus[o] = StatusOf(o) /\ SagaReserved[o] = (o \in reservations)
<1>1. ASSUME \A p \in Orders \ {o} : orders'[p] = orders[p]
      PROVE  SagaStatus' = [SagaStatus EXCEPT ![o] = StatusOf(o)']
  <2>1. \A p \in Orders \ {o} : StatusOf(p)' = StatusOf(p)
    BY <1>1 DEF StatusOf
  <2> QED
    BY <2>1 DEF SagaStatus
<1>2. ASSUME reservations' = reservations \cup {o} PROVE SagaReserved' = [SagaReserved EXCEPT ![o] = TRUE]
  <2>1. (o \in reservations') = TRUE /\ \A p \in Orders \ {o} : (p \in reservations') = (p \in reservations)
    BY <1>2
  <2>2. SagaReserved' = [p \in Orders |-> p \in reservations']
    BY DEF SagaReserved
  <2>3. DOMAIN SagaReserved = Orders /\ \A p \in Orders : SagaReserved[p] = (p \in reservations)
    BY DEF SagaReserved
  <2> QED
    BY <2>1, <2>2, <2>3, Zenon
<1> QED
  BY <1>1, <1>2 DEF SagaStatus, SagaReserved

LEMMA SagaTerms ==
    /\ \A o : Saga!Place(o) <=> /\ SagaStatus[o] = "none"
                                /\ SagaStatus' = [SagaStatus EXCEPT ![o] = "pending"]
                                /\ payments' = payments /\ SagaReserved' = SagaReserved
    /\ \A o : Saga!Pay(o) <=> /\ SagaStatus[o] = "pending" /\ payments[o] = "none"
                              /\ payments' = [payments EXCEPT ![o] = "held"]
                              /\ SagaStatus' = SagaStatus /\ SagaReserved' = SagaReserved
    /\ \A o : Saga!Release(o) <=> /\ SagaStatus[o] = "pending" /\ payments[o] = "held" /\ ~SagaReserved[o]
                                  /\ payments' = [payments EXCEPT ![o] = "released"]
                                  /\ SagaStatus' = SagaStatus /\ SagaReserved' = SagaReserved
    /\ \A o : Saga!Reserve(o) <=> /\ SagaStatus[o] = "pending" /\ payments[o] = "held" /\ ~SagaReserved[o]
                                  /\ SagaReserved' = [SagaReserved EXCEPT ![o] = TRUE]
                                  /\ SagaStatus' = SagaStatus /\ payments' = payments
    /\ \A o : Saga!Confirm(o) <=> /\ SagaStatus[o] = "pending" /\ payments[o] = "held" /\ SagaReserved[o]
                                  /\ SagaStatus' = [SagaStatus EXCEPT ![o] = "confirmed"]
                                  /\ payments' = payments /\ SagaReserved' = SagaReserved
    /\ \A o : Saga!Cancel(o) <=> /\ SagaStatus[o] = "pending" /\ payments[o] # "held" /\ ~SagaReserved[o]
                                 /\ SagaStatus' = [SagaStatus EXCEPT ![o] = "cancelled"]
                                 /\ payments' = payments /\ SagaReserved' = SagaReserved
    /\ SagaStatus' = SagaStatus /\ payments' = payments /\ SagaReserved' = SagaReserved
           <=> Saga!vars' = Saga!vars
BY DEF SagaStatus, SagaReserved, Saga!Place, Saga!Pay, Saga!Release, Saga!Reserve, Saga!Confirm,
       Saga!Cancel, Saga!Decide, Saga!vars

\* What is proved above of the results.
Agreed == OrderAgreesWithSaga /\ ConfirmedIsPaid /\ LeaksNeedTimeouts

LEMMA AgreedHolds == IInv /\ Known => Agreed
BY ResultsAgree, ConfirmedOrdersArePaid, LeaksAre DEF IInv, Agreed

\* Without the timeout worker nothing is asked twice, and the participants answer once.
Quiet ==
    /\ IInv /\ Known /\ Agreed /\ Undisturbed

LEMMA AskedOnce ==
    ASSUME Quiet, NEW o \in Orders
    PROVE  /\ \A state : ~Worked(o, state, {"Retry"}) /\ ~Worked(o, state, {"Timeout"})
           /\ ~Worked(o, "INVENTORY_PENDING", {"Retry", "Timeout"}) /\ ~Worked(o, "PAYMENT_PENDING", {"Retry", "Timeout"})
           /\ ~PaymentAgain(o) /\ ~InventoryAgain(o)
           /\ PaymentTellsOf(o) /\ InventoryTellsOf(o)
<1>1. \A state : ~Worked(o, state, {"Retry"}) /\ ~Worked(o, state, {"Timeout"}) /\ ~Worked(o, state, {"Retry", "Timeout"})
  BY DEF Quiet, Undisturbed, Expiries, Worked
<1>2. TypeOK /\ CourseInv /\ Known /\ faults.harmful = 0
  BY DEF Quiet, IInv, TraceInv, Undisturbed
<1>3. ResentIsPublished /\ PaymentTellsOf(o) /\ InventoryTellsOf(o)
  BY <1>2, CourseSplit
<1> QED
  BY <1>1, <1>2, <1>3, AgainIsRetried

\* A command in its topic was published, after the steps that lead to it.
LEMMA CommandPath ==
    ASSUME Quiet, NEW t \in OrchTopics, NEW type, NEW o \in Orders, Written(t, type, o)
    PROVE  /\ Orch!Sent(o, type) /\ SagaPathTo(o, type)
           /\ Written("saga-commands", "StartSaga", o) /\ orders[o] # "NONE"
<1>1. TypeOK /\ CommandsArePublished /\ EventsAreHeard /\ OrdersComeFirst /\ Known
  BY CourseSplit DEF Quiet, IInv, TraceInv
<1>2. Orch!Sent(o, type) /\ SagaPathTo(o, type)
  BY <1>1, CommandPublished, SagaPath
<1>3. Written("saga-commands", "StartSaga", o)
  BY <1>1, <1>2, WorkedIsHeard, HeardAre DEF SagaPathTo
<1> QED
  BY <1>1, <1>2, <1>3 DEF OrdersComeFirst

\* A saga that failed of itself was refused a payment, or a reservation.
LEMMA CancelledFor ==
    ASSUME Quiet, NEW o \in Orders, orders[o] = "CANCELLED"
    PROVE  /\ payments[o] # "held" /\ o \notin reservations
           /\ \/ PaymentSays("PaymentFailed", o) /\ ~Worked(o, "PAYMENT_PENDING", {"PaymentReserved"})
              \/ PaymentSays("PaymentReserved", o) /\ InventorySays("InventoryFailed", o)
<1>1. TypeOK /\ OutcomesAreTold /\ EventsAreHeard /\ Known /\ faults.harmful = 0 /\ LeaksNeedTimeouts
  BY DEF Quiet, IInv, TraceInv, Agreed, Undisturbed
<1>2. SagaPathTo(o, "SagaFailed")
  BY <1>1, SagaPath DEF OutcomesAreTold
<1>3. \A state : ~Worked(o, state, {"Timeout"})
  BY AskedOnce
<1>4. \/ Worked(o, "PAYMENT_PENDING", {"PaymentFailed"})
      \/ Worked(o, "PAYMENT_PENDING", {"PaymentReserved"}) /\ Worked(o, "INVENTORY_PENDING", {"InventoryFailed"})
  BY <1>2, <1>3, WorkedEither DEF SagaPathTo
<1>5. ~(Worked(o, "PAYMENT_PENDING", {"PaymentFailed"}) /\ Worked(o, "PAYMENT_PENDING", {"PaymentReserved"}))
  BY <1>1, OneWay
<1>6. payments[o] # "held" /\ o \notin reservations
  BY <1>1, <1>3, AskedOnce DEF LeaksNeedTimeouts
<1> QED
  BY <1>1, <1>4, <1>5, <1>6, SaidIsHeard

LEMMA ConfirmedFor ==
    ASSUME Quiet, NEW o \in Orders, orders[o] = "CONFIRMED"
    PROVE  payments[o] = "held" /\ o \in reservations
BY DEF Quiet, Agreed, ConfirmedIsPaid, Undisturbed

LEMMA Pending ==
    ASSUME NEW o \in Orders, orders[o] \notin {"NONE", "CONFIRMED", "CANCELLED"}
    PROVE  StatusOf(o) = "pending"
BY DEF StatusOf

LEMMA WhoseTurn ==
    ASSUME TypeOK, [Next]_vars
    PROVE  \/ OrchStill /\ PaymentStill /\ InventoryStill /\ Api!Next
           \/ ApiStill /\ PaymentStill /\ InventoryStill
           \/ ApiStill /\ OrchStill /\ InventoryStill
           \/ ApiStill /\ OrchStill /\ PaymentStill
<1>1. CASE UNCHANGED <<orchState, paymentState, inventoryState>> /\ Api!Next
  BY <1>1 DEF OrchStill, PaymentStill, InventoryStill, orchState, paymentState, inventoryState
<1>2. CASE UNCHANGED <<apiState, paymentState, inventoryState>>
  BY <1>2 DEF ApiStill, PaymentStill, InventoryStill, apiState, paymentState, inventoryState
<1>3. CASE UNCHANGED <<apiState, orchState, inventoryState>>
  BY <1>3 DEF ApiStill, OrchStill, InventoryStill, apiState, orchState, inventoryState
<1>4. CASE UNCHANGED <<apiState, orchState, paymentState>>
  BY <1>4 DEF ApiStill, OrchStill, PaymentStill, apiState, orchState, paymentState
<1>5. CASE UNCHANGED vars
  BY <1>5 DEF vars, ApiStill, OrchStill, InventoryStill, apiState, orchState, inventoryState
<1> QED
  BY <1>1, <1>2, <1>3, <1>4, <1>5 DEF Next

\* order-api decides as the saga did, and an order is not decided anew.
LEMMA ResultStepSaga ==
    ASSUME Quiet, Agreed', faults'.harmful = 0, OrchStill, PaymentStill, InventoryStill,
           NEW t \in DOMAIN ApiHandled, HearsResult(t)
    PROVE  (\E o \in Orders : Saga!Confirm(o) \/ Saga!Cancel(o)) \/ Saga!vars' = Saga!vars
<1>0. /\ TypeOK /\ orders \in [Orders -> Api!Statuses]
      /\ payments' = payments /\ SagaReserved' = SagaReserved /\ reservations' = reservations /\ sagas' = sagas
  BY SagaKept, TypesSplit
     DEF Quiet, IInv, TraceInv, StoresTyped, PaymentStill, InventoryStill, OrchStill, threadState
<1> DEFINE o == AC!InHand(t).order
<1> DEFINE type == AC!InHand(t).type
<1>1. CASE orders' = orders
  BY <1>0, <1>1, SagaKept, SagaTerms
<1>2. CASE orders[o] # "NONE" /\ orders' = [orders EXCEPT ![o] = Api!StatusAfter(type)]
  <2>1. o \in Orders /\ type \in {"SagaCompleted", "SagaFailed"}
    BY <1>0, ResultInHand DEF HearsResult, AC!Digest, AC!Begin
  <2>2. PICK p \in Orders : p = o
    BY <2>1
  <2>3. /\ orders'[p] = "CONFIRMED" \/ orders'[p] = "CANCELLED"
        /\ \A q \in Orders \ {p} : orders'[q] = orders[q]
        /\ orders[p] # "NONE"
    BY <1>0, <1>2, <2>1, <2>2 DEF Api!StatusAfter
  <2>4. SagaStatus' = [SagaStatus EXCEPT ![p] = StatusOf(p)'] /\ SagaStatus[p] = StatusOf(p)
        /\ SagaReserved[p] = (p \in reservations)
    BY <2>3, SagaMoves
  <2>5. /\ orders[p] = "CONFIRMED" => StatusOf(p) = "confirmed"
        /\ orders[p] = "CANCELLED" => StatusOf(p) = "cancelled"
        /\ orders'[p] = "CONFIRMED" => StatusOf(p)' = "confirmed"
        /\ orders'[p] = "CANCELLED" => StatusOf(p)' = "cancelled"
    BY DEF StatusOf
  <2>6. StatusOf(p)' = StatusOf(p) => SagaStatus' = SagaStatus
    BY <2>4 DEF SagaStatus
  <2>7. /\ orders[p] = "CONFIRMED" => sagas[p].state = "COMPLETED"
        /\ orders[p] = "CANCELLED" => sagas[p].state = "FAILED"
        /\ orders'[p] = "CONFIRMED" => sagas[p].state = "COMPLETED"
        /\ orders'[p] = "CANCELLED" => sagas[p].state = "FAILED"
    BY <1>0 DEF Quiet, Agreed, OrderAgreesWithSaga
  <2>8. /\ orders'[p] = "CONFIRMED" => payments[p] = "held" /\ p \in reservations
        /\ orders'[p] = "CANCELLED" => payments[p] # "held" /\ p \notin reservations
    <3>1. orders'[p] = "CONFIRMED" => payments[p] = "held" /\ p \in reservations
      BY <1>0 DEF Agreed, ConfirmedIsPaid
    <3>2. orders'[p] = "CANCELLED" =>
              /\ p \in reservations => Worked(p, "INVENTORY_PENDING", {"Retry", "Timeout"})
              /\ payments[p] = "held" =>
                    \/ Worked(p, "PAYMENT_PENDING", {"Retry", "Timeout"})
                    \/ Worked(p, "CANCEL_PAYMENT_PENDING", {"Timeout"})
      <4>1. writes' = writes
        BY DEF OrchStill, threadState
      <4> QED
        BY <1>0, <4>1 DEF Agreed, LeaksNeedTimeouts, Worked
    <3> QED
      BY <3>1, <3>2, AskedOnce
  <2>9. CASE orders[p] \in {"CONFIRMED", "CANCELLED"}
    <3>1. StatusOf(p)' = StatusOf(p)
      BY <2>3, <2>5, <2>7, <2>9
    <3> QED
      BY <1>0, <2>6, <3>1, SagaTerms
  <2>10. CASE orders[p] \notin {"CONFIRMED", "CANCELLED"}
    <3>1. StatusOf(p) = "pending"
      BY <2>3, <2>10, Pending
    <3>2. Saga!Confirm(p) \/ Saga!Cancel(p)
      BY <1>0, <2>3, <2>4, <2>5, <2>8, <3>1, SagaTerms
    <3> QED
      BY <3>2
  <2> QED
    BY <2>9, <2>10
<1> QED
  BY <1>1, <1>2 DEF HearsResult

LEMMA ApiStepSaga ==
    ASSUME Quiet, Agreed', faults'.harmful = 0, OrchStill, PaymentStill, InventoryStill, Api!Next
    PROVE  Saga!Next \/ Saga!vars' = Saga!vars
<1>0. /\ TypeOK /\ orders \in [Orders -> Api!Statuses]
      /\ payments' = payments /\ SagaReserved' = SagaReserved
  BY SagaKept, TypesSplit DEF Quiet, IInv, TraceInv, StoresTyped, PaymentStill, InventoryStill
<1>1. ASSUME NEW o \in Orders, CreatesOrder(o) PROVE Saga!Place(o)
  <2>1. orders[o] = "NONE" /\ orders'[o] = "PENDING" /\ \A p \in Orders \ {o} : orders'[p] = orders[p]
    BY <1>0, <1>1 DEF CreatesOrder
  <2>2. StatusOf(o) = "none" /\ StatusOf(o)' = "pending"
    BY <2>1 DEF StatusOf
  <2> QED
    BY <1>0, <2>1, <2>2, SagaMoves, SagaTerms
<1>2. ASSUME orders' = orders PROVE Saga!vars' = Saga!vars
  BY <1>0, <1>2, SagaKept, SagaTerms
<1>3. ~ApiRestarts
  <2>1. ApiRestarts => faults'.harmful = faults.harmful + 1
    BY <1>0, TypesSplit, AC!RestartStep DEF ApiRestarts
  <2>2. faults.harmful \in Nat
    BY <1>0, TypesSplit DEF FaultsTyped
  <2> QED
    BY <2>1, <2>2
<1>4. ASSUME NEW t \in DOMAIN ApiHandled, HearsResult(t)
      PROVE  (\E o \in Orders : Saga!Confirm(o) \/ Saga!Cancel(o)) \/ Saga!vars' = Saga!vars
  BY <1>4, ResultStepSaga
<1> QED
  BY <1>1, <1>2, <1>3, <1>4, ApiSteps DEF AsksForSaga, Saga!Next, Saga!Proceed

\* Without retries a participant begins on a command once.
LEMMA BegunOnce ==
    ASSUME Quiet, NEW o \in Orders
    PROVE  /\ \A seenThen : Takes(paymentSeen, seenThen, "payment-commands", "ReservePayment", o) =>
                  ~PaymentSays("PaymentReserved", o) /\ ~PaymentSays("PaymentFailed", o)
           /\ \A seenThen : Takes(inventorySeen, seenThen, "inventory-commands", "ReserveInventory", o) =>
                  ~InventorySays("InventoryReserved", o) /\ ~InventorySays("InventoryFailed", o)
           /\ \A seen, seenThen, t, type : Takes(seen, seenThen, t, type, o) => Written(t, type, o)
<1>1. \A seen, seenThen, t, type : Takes(seen, seenThen, t, type, o) => Written(t, type, o)
  BY DEF Takes, Copies, Written
<1>2. \A seen, seenThen, t, type : Takes(seen, seenThen, t, type, o) /\ Begun(seen, t, type, o) => Resent(t, type, o)
  BY TakesNew
<1> QED
  BY <1>1, <1>2, AskedOnce
     DEF PaymentTellsOf, InventoryTellsOf, PaymentBegun, PaymentAgain, InventoryBegun, InventoryAgain

LEMMA PaymentStepSaga ==
    ASSUME Quiet, ApiStill, InventoryStill, NEW type \in PaymentTypes, NEW o \in Orders, PaymentTakes(type, o)
    PROVE  Saga!Pay(o) \/ Saga!Release(o) \/ Saga!vars' = Saga!vars
<1>0. /\ SagaStatus' = SagaStatus /\ SagaReserved' = SagaReserved
      /\ payments \in [Orders -> Payment!PaymentStates] /\ "payment-commands" \in OrchTopics
      /\ SagaStatus[o] = StatusOf(o) /\ SagaReserved[o] = (o \in reservations)
  BY SagaKept, SagaMoves, TypesSplit
     DEF Quiet, IInv, TraceInv, StoresTyped, ApiStill, InventoryStill, OrchTopics
<1>1. ASSUME payments' = payments PROVE Saga!vars' = Saga!vars
  BY <1>0, <1>1, SagaTerms
<1>2. payments' = [payments EXCEPT ![o] = PaymentAfter(type, payments[o])]
  BY DEF PaymentTakes
<1>3. PaymentTellsOf(o) /\ InventoryTellsOf(o) /\ ~PaymentAgain(o) /\ ~InventoryAgain(o)
      /\ ~Worked(o, "INVENTORY_PENDING", {"Timeout"})
  BY AskedOnce
<1>4. CASE type = "PaymentReserved"
  <2>1. payments' = [payments EXCEPT ![o] = "held"]
    BY <1>2, <1>4 DEF PaymentAfter
  <2>2. Takes(paymentSeen, paymentSeen', "payment-commands", "ReservePayment", o)
    BY <1>4, EventNames DEF PaymentTakes
  <2>3. /\ ~PaymentSays("PaymentReserved", o) /\ ~PaymentSays("PaymentFailed", o)
        /\ Written("payment-commands", "ReservePayment", o)
    BY <2>2, BegunOnce
  <2>4. payments[o] = "none"
    BY <1>3, <2>3 DEF PaymentTellsOf
  <2>5. orders[o] \notin {"NONE", "CONFIRMED", "CANCELLED"}
    BY <1>0, <2>3, <2>4, CommandPath, ConfirmedFor, CancelledFor
  <2> QED
    BY <1>0, <2>1, <2>4, <2>5, Pending, SagaTerms
<1>5. CASE type = "PaymentCancelled" /\ payments[o] = "held"
  <2>1. payments' = [payments EXCEPT ![o] = "released"]
    BY <1>2, <1>5 DEF PaymentAfter, Payment!AfterDelete
  <2>2. Takes(paymentSeen, paymentSeen', "payment-commands", "CancelPayment", o)
    BY <1>5, EventNames DEF PaymentTakes
  <2>3. SagaPathTo(o, "CancelPayment") /\ orders[o] # "NONE"
    BY <1>0, <2>2, BegunOnce, CommandPath
  <2>4. Worked(o, "INVENTORY_PENDING", {"InventoryFailed"})
    BY <1>3, <2>3, WorkedEither DEF SagaPathTo
  <2>5. InventorySays("InventoryFailed", o)
    BY <2>4, SaidIsHeard DEF Quiet, IInv, TraceInv
  <2>6. o \notin reservations
    BY <1>3, <2>5 DEF InventoryTellsOf
  <2>7. orders[o] \notin {"NONE", "CONFIRMED", "CANCELLED"}
    BY <1>5, <2>3, <2>6, ConfirmedFor, CancelledFor
  <2> QED
    BY <1>0, <1>5, <2>1, <2>6, <2>7, Pending, SagaTerms
<1>6. CASE type = "PaymentFailed" \/ (type = "PaymentCancelled" /\ payments[o] # "held")
  <2>1. payments' = payments
    BY <1>0, <1>2, <1>6 DEF PaymentAfter, Payment!AfterDelete
  <2> QED
    BY <1>1, <2>1
<1> QED
  BY <1>4, <1>5, <1>6 DEF PaymentTypes

LEMMA InventoryStepSaga ==
    ASSUME Quiet, ApiStill, PaymentStill, NEW type \in InventoryTypes, NEW o \in Orders, InventoryTakes(type, o)
    PROVE  Saga!Reserve(o) \/ Saga!vars' = Saga!vars
<1>0. /\ SagaStatus' = SagaStatus /\ payments' = payments
      /\ payments \in [Orders -> Payment!PaymentStates] /\ "inventory-commands" \in OrchTopics
      /\ SagaStatus[o] = StatusOf(o) /\ SagaReserved[o] = (o \in reservations)
  BY SagaKept, SagaMoves, TypesSplit
     DEF Quiet, IInv, TraceInv, StoresTyped, ApiStill, PaymentStill, OrchTopics
<1>1. ASSUME reservations' = reservations PROVE Saga!vars' = Saga!vars
  BY <1>0, <1>1, SagaKept, SagaTerms
<1>2. CASE type = "InventoryReserved" /\ o \notin reservations
  <2>1. SagaReserved' = [SagaReserved EXCEPT ![o] = TRUE]
    BY <1>2, SagaMoves DEF InventoryTakes
  <2>2. /\ ~InventorySays("InventoryReserved", o) /\ ~InventorySays("InventoryFailed", o)
        /\ Written("inventory-commands", "ReserveInventory", o)
    BY BegunOnce DEF InventoryTakes
  <2>3. SagaPathTo(o, "ReserveInventory") /\ orders[o] # "NONE"
    BY <1>0, <2>2, CommandPath
  <2>4. EventsAreHeard /\ TypeOK /\ Known /\ StoresTell
    BY DEF Quiet, IInv, TraceInv, Undisturbed
  <2>5. Worked(o, "PAYMENT_PENDING", {"PaymentReserved"})
    BY <2>3 DEF SagaPathTo
  <2>6. payments[o] # "none"
    BY <2>4, <2>5, WorkedIsHeard, HeardAre DEF StoresTell
  <2>7. payments[o] # "released"
    <3>1. SUFFICES ASSUME Orch!Sent(o, "CancelPayment") PROVE FALSE
      BY <2>4 DEF StoresTell
    <3>2. Worked(o, "INVENTORY_PENDING", {"InventoryFailed", "Timeout"})
      BY <2>4, <3>1, SagaPath DEF SagaPathTo
    <3>3. Worked(o, "INVENTORY_PENDING", {"InventoryFailed"})
      BY <3>2, WorkedEither, AskedOnce
    <3> QED
      BY <2>2, <2>4, <3>3, SaidIsHeard
  <2>8. payments[o] = "held"
    BY <1>0, <2>6, <2>7 DEF Payment!PaymentStates
  <2>9. orders[o] \notin {"NONE", "CONFIRMED", "CANCELLED"}
    BY <1>2, <2>2, <2>3, <2>5, ConfirmedFor, CancelledFor
  <2> QED
    BY <1>0, <1>2, <2>1, <2>8, <2>9, Pending, SagaTerms
<1>3. CASE ~(type = "InventoryReserved" /\ o \notin reservations)
  <2>1. reservations' = reservations
    BY <1>3 DEF InventoryTakes
  <2> QED
    BY <1>1, <2>1
<1> QED
  BY <1>2, <1>3

\* What was found overdue before stays so.
LEMMA UndisturbedBefore ==
    ASSUME TypeOK, [Next]_vars, Undisturbed'
    PROVE  Undisturbed
<1>1. faults.harmful = 0
  <2>1. FaultsMove \/ faults'.harmful = faults.harmful + 1 \/ faults' = faults
    BY Steps DEF ApiMoves, OrchMoves, PaymentMoves, PaymentAnswers, PaymentProceeds, PaymentForgets,
                 InventoryMoves, InventoryAnswers, InventoryProceeds, InventoryForgets, vars
  <2>2. faults.harmful \in Nat
    BY TypesSplit DEF FaultsTyped
  <2> QED
    BY <2>1, <2>2 DEF FaultsMove, Undisturbed
<1>2. writes \subseteq writes'
  BY OrchStep, OrchWrites
<1> QED
  BY <1>1, <1>2 DEF Undisturbed, Expiries

LEMMA SagaInit ==
    ASSUME Init
    PROVE  Saga!Init
<1>1. \A o \in Orders : orders[o] = "NONE" /\ payments[o] = "none"
  BY Initially
<1>2. \A o \in Orders : StatusOf(o) = "none"
  BY <1>1 DEF StatusOf
<1>3. payments = [o \in Orders |-> "none"] /\ reservations = {}
  BY DEF Init, Payment!Init, Inventory!Init
<1>4. \A o \in Orders : (o \in reservations) = FALSE
  BY <1>3
<1>5. SagaStatus = [o \in Orders |-> "none"] /\ SagaReserved = [o \in Orders |-> FALSE]
  BY <1>2, <1>4 DEF SagaStatus, SagaReserved
<1> QED
  BY <1>3, <1>5 DEF Saga!Init, SagaStatus, SagaReserved

LEMMA SagaStep ==
    ASSUME IInv, Known, Agreed, Agreed', [Next]_vars
    PROVE  [~Undisturbed' \/ Saga!Next]_(Saga!vars)
<1> SUFFICES ASSUME Undisturbed' PROVE Saga!Next \/ Saga!vars' = Saga!vars
  OBVIOUS
<1>1. TypeOK /\ AnswersInHand /\ CourseInv
  BY DEF IInv, TraceInv
<1>2. Quiet /\ faults.harmful = 0 /\ faults'.harmful = 0
  BY <1>1, UndisturbedBefore DEF Quiet, Undisturbed
<1>3. PaymentLoop.retry = 0 /\ InventoryLoop.retry = 0
  BY <1>1, <1>2, CourseSplit
<1>4. ASSUME ApiStill, payments' = payments, reservations' = reservations PROVE Saga!vars' = Saga!vars
  BY <1>4, SagaKept, SagaTerms DEF ApiStill
<1>5. CASE OrchStill /\ PaymentStill /\ InventoryStill /\ Api!Next
  BY <1>2, <1>5, ApiStepSaga
<1>6. CASE ApiStill /\ PaymentStill /\ InventoryStill
  BY <1>4, <1>6 DEF PaymentStill, InventoryStill
<1>7. CASE ApiStill /\ OrchStill /\ InventoryStill
  <2>1. \/ \E type \in PaymentTypes, o \in Orders : PaymentTakes(type, o)
        \/ PaymentGives
        \/ PaymentRests
    BY <1>1, <1>2, <1>3, PaymentActs
  <2>2. CASE \E type \in PaymentTypes, o \in Orders : PaymentTakes(type, o)
    <3>1. PICK type \in PaymentTypes, o \in Orders : PaymentTakes(type, o)
      BY <2>2
    <3>2. Saga!Pay(o) \/ Saga!Release(o) \/ Saga!vars' = Saga!vars
      BY <1>2, <1>7, <3>1, PaymentStepSaga
    <3> QED
      BY <3>2 DEF Saga!Next, Saga!Proceed
  <2>3. CASE PaymentGives \/ PaymentRests
    BY <1>4, <1>7, <2>3 DEF PaymentGives, PaymentRests, InventoryStill
  <2> QED
    BY <2>1, <2>2, <2>3
<1>8. CASE ApiStill /\ OrchStill /\ PaymentStill
  <2>1. \/ \E type \in InventoryTypes, o \in Orders : InventoryTakes(type, o)
        \/ InventoryGives
        \/ InventoryRests
    BY <1>1, <1>2, <1>3, InventoryActs
  <2>2. CASE \E type \in InventoryTypes, o \in Orders : InventoryTakes(type, o)
    <3>1. PICK type \in InventoryTypes, o \in Orders : InventoryTakes(type, o)
      BY <2>2
    <3>2. Saga!Reserve(o) \/ Saga!vars' = Saga!vars
      BY <1>2, <1>8, <3>1, InventoryStepSaga
    <3> QED
      BY <3>2 DEF Saga!Next, Saga!Proceed
  <2>3. CASE InventoryGives \/ InventoryRests
    BY <1>4, <1>8, <2>3 DEF InventoryGives, InventoryRests, PaymentStill
  <2> QED
    BY <2>1, <2>2, <2>3
<1> QED
  BY <1>1, <1>5, <1>6, <1>7, <1>8, WhoseTurn

\* As long as the timeout worker finds no saga overdue and the participants' memory lasts,
\* the orchestrated services take only steps of the order saga, the same one that the
\* choreography implements, whatever else fails in the orchestrator.
THEOREM Refinement == Spec => ImplementsOrderSaga
<1>1. Init => Saga!Init
  BY SagaInit
<1>2. IInv /\ Known => Agreed
  BY AgreedHolds
<1>3. IInv /\ Known /\ Agreed /\ Agreed' /\ [Next]_vars => [~Undisturbed' \/ Saga!Next]_(Saga!vars)
  BY SagaStep
<1> QED
  BY <1>1, <1>2, <1>3, Invariance, KnownHolds, PTL DEF Spec, ImplementsOrderSaga
=============================================================================
