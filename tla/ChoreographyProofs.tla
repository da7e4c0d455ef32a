-------------------------- MODULE ChoreographyProofs --------------------------
(***************************************************************************)
(* The choreographed services together, for every set of orders, every     *)
(* limit on retries and any number of faults of any kind: what causes      *)
(* what, how often a step is repeated, what is left over, and that they    *)
(* are the order saga as long as nothing is repeated.                      *)
(***************************************************************************)
EXTENDS Choreography, FiniteSetTheorems, TLAPS

USE LimitsAssumption

\* The lemmas about consumers, for each of the services.
OC == INSTANCE ServiceConsumersProofs WITH
    loop <- orderLoop, seen <- orderSeen, Reads <- DOMAIN OrderHandled, Handled <- OrderHandled

PC == INSTANCE ServiceConsumersProofs WITH
    loop <- paymentLoop, seen <- paymentSeen, Reads <- DOMAIN PaymentHandled, Handled <- PaymentHandled

IC == INSTANCE ServiceConsumersProofs WITH
    loop <- inventoryLoop, seen <- inventorySeen, Reads <- DOMAIN InventoryHandled, Handled <- InventoryHandled

-----------------------------------------------------------------------------
(* The services' terms are those of the lemmas *)

\* So are those for finite sets, which each of them brings along.
LEMMA SizesSame ==
    \A S : /\ PC!Cardinality(S) = Cardinality(S) /\ (PC!IsFiniteSet(S) <=> IsFiniteSet(S))
           /\ IC!Cardinality(S) = Cardinality(S) /\ (IC!IsFiniteSet(S) <=> IsFiniteSet(S))
BY DEF Cardinality, PC!Cardinality, IC!Cardinality, IsFiniteSet, PC!IsFiniteSet, IC!IsFiniteSet

FaultsTyped == faults \in [all : 0..MaxFaults, harmful : Nat, untold : BOOLEAN]

StoresTyped ==
    /\ orders \in [Orders -> OrderService!Statuses]
    /\ requests \in SUBSET Orders
    /\ payments \in [Orders -> Seq(PaymentService!PaymentStatuses)]
    /\ reservations \in [Orders -> Nat]

LEMMA TopicFacts ==
    ASSUME topics \in [Topics -> Seq(OrderService!Messages)]
    PROVE  OC!TopicsTyped /\ PC!TopicsTyped /\ IC!TopicsTyped /\ DOMAIN topics = Topics
<1>1. OC!Messages = OrderService!Messages /\ PC!Messages = OrderService!Messages /\ IC!Messages = OrderService!Messages
  BY DEF OrderService!Messages, OC!Messages, PC!Messages, IC!Messages,
         OrderService!Types, OC!Types, PC!Types, IC!Types
<1>2. DOMAIN topics = Topics
  OBVIOUS
<1>3. "none" \notin Topics
  BY DEF Topics
<1>4. DOMAIN OrderHandled \subseteq Topics /\ DOMAIN PaymentHandled \subseteq Topics /\ DOMAIN InventoryHandled \subseteq Topics
  BY DEF Topics, OrderHandled, PaymentHandled, InventoryHandled
<1> QED
  BY <1>1, <1>2, <1>3, <1>4 DEF OC!TopicsTyped, PC!TopicsTyped, IC!TopicsTyped

LEMMA OrderConsumersTyped == OrderService!ConsumersTypeOK <=> OC!ConsumersTypeOK
BY DEF OrderService!ConsumersTypeOK, OC!ConsumersTypeOK, OrderService!Loops, OC!Loops, OrderService!Outs, OC!Outs,
       OrderService!Silent, OC!Silent, OrderService!Coherent, OC!Coherent,
       OrderService!Types, OC!Types

LEMMA PaymentConsumersTyped == PaymentService!ConsumersTypeOK <=> PC!ConsumersTypeOK
BY DEF PaymentService!ConsumersTypeOK, PC!ConsumersTypeOK, PaymentService!Loops, PC!Loops, PaymentService!Outs,
       PC!Outs, PaymentService!Silent, PC!Silent, PaymentService!Coherent, PC!Coherent,
       PaymentService!Types, PC!Types

LEMMA InventoryConsumersTyped == InventoryService!ConsumersTypeOK <=> IC!ConsumersTypeOK
BY DEF InventoryService!ConsumersTypeOK, IC!ConsumersTypeOK, InventoryService!Loops, IC!Loops,
       InventoryService!Outs, IC!Outs, InventoryService!Silent, IC!Silent, InventoryService!Coherent, IC!Coherent,
       InventoryService!Types, IC!Types

LEMMA TypesSplit ==
    TypeOK <=> /\ topics \in [Topics -> Seq(OrderService!Messages)]
               /\ OC!Typed /\ PC!Typed /\ IC!Typed
               /\ FaultsTyped
               /\ StoresTyped
BY TopicFacts, OrderConsumersTyped, PaymentConsumersTyped, InventoryConsumersTyped
   DEF TypeOK, FaultsTyped, StoresTyped, OrderService!TypeOK, PaymentService!TypeOK, InventoryService!TypeOK,
       OC!Typed, PC!Typed, IC!Typed, OC!FaultRecords, PC!FaultRecords, IC!FaultRecords

LEMMA FreshSplit ==
    DOMAIN topics = Topics =>
        (IdsAreFresh <=> OC!IdsAreFresh) /\ (IdsAreFresh <=> PC!IdsAreFresh) /\ (IdsAreFresh <=> IC!IdsAreFresh)
BY DEF IdsAreFresh, OC!IdsAreFresh, PC!IdsAreFresh, IC!IdsAreFresh

\* The same of the state after a step.
LEMMA TypesSplitThen ==
    TypeOK' <=> /\ topics' \in [Topics -> Seq(OrderService!Messages)]
                /\ OC!Typed' /\ PC!Typed' /\ IC!Typed'
                /\ FaultsTyped'
                /\ StoresTyped'
<1> DEFINE T == topics \in [Topics -> Seq(OrderService!Messages)]
<1>1. TypeOK <=> T /\ OC!Typed /\ PC!Typed /\ IC!Typed /\ FaultsTyped /\ StoresTyped
  BY TypesSplit
<1> HIDE DEF T
<1>2. (TypeOK <=> T /\ OC!Typed /\ PC!Typed /\ IC!Typed /\ FaultsTyped /\ StoresTyped)'
  BY <1>1, PTL
<1> QED
  BY <1>2 DEF T

\* The messages of a service's topics, as its lemmas count them.
LEMMA CountsMatch ==
    \A o : /\ PaymentResults(o) = PC!Ids("payment-events", {"PaymentReserved", "PaymentFailed"}, o)
           /\ InventoryResults(o) = IC!Ids("inventory-events", {"InventoryReserved", "InventoryFailed"}, o)
           /\ RolledBack(o) = PC!Ids("payment-events", {"PaymentRolledBack"}, o)
           /\ \A t, type :
                  /\ Ids(t, type, o) = OC!Ids(t, {type}, o)
                  /\ Ids(t, type, o) = PC!Ids(t, {type}, o)
                  /\ Ids(t, type, o) = IC!Ids(t, {type}, o)
BY DEF PaymentResults, InventoryResults, RolledBack, Ids, OC!Ids, PC!Ids, IC!Ids, OC!LogIds, PC!LogIds, IC!LogIds

LEMMA MarksMatch ==
    \A o : /\ CreatedMarked(o) = PC!Marked("order-events", "OrderCreated", o)
           /\ ReservedMarked(o) = IC!Marked("payment-events", "PaymentReserved", o)
           /\ FailedMarked(o) = PC!Marked("inventory-events", "InventoryFailed", o)
BY CountsMatch DEF CreatedMarked, ReservedMarked, FailedMarked, Created, Marked, PC!Marked, IC!Marked

LEMMA SendingMatches ==
    \A o, t : /\ Sending(paymentLoop[t], o) = PC!Sending(t, o)
              /\ Sending(inventoryLoop[t], o) = IC!Sending(t, o)
              /\ Spare(paymentLoop[t], t, o) = PC!Spare(t, o)
              /\ Spare(inventoryLoop[t], t, o) = IC!Spare(t, o)
BY DEF Sending, PC!Sending, IC!Sending, Spare, PC!Spare, IC!Spare

LEMMA AnswersMatchLoops ==
    \A t, type, topic, answers :
        /\ Answers(paymentLoop[t], t, type, topic, answers) <=> PC!Answers(t, type, topic, answers)
        /\ Answers(inventoryLoop[t], t, type, topic, answers) <=> IC!Answers(t, type, topic, answers)
BY DEF Answers, PC!Answers, IC!Answers, PC!InHand, IC!InHand, PC!At, IC!At

-----------------------------------------------------------------------------
(* The steps *)

PaymentStill == UNCHANGED <<paymentLoop, paymentSeen, payments>>
OrderStill == UNCHANGED <<orderLoop, orderSeen, orders, requests>>
InventoryStill == UNCHANGED <<inventoryLoop, inventorySeen, reservations>>

Announcement(o) == [topic |-> "order-events", type |-> "OrderCreated", order |-> o]

\* A message of a payment or an inventory service.
PaymentAnswer(type, o) == [topic |-> "payment-events", type |-> type, order |-> o]
InventoryAnswer(type, o) == [topic |-> "inventory-events", type |-> type, order |-> o]

CreatesOrder(o) ==
    /\ orders[o] = "NONE"
    /\ orders' = [orders EXCEPT ![o] = "PENDING"]
    /\ requests' = requests \cup {o}
    /\ UNCHANGED <<topics, orderLoop, orderSeen, faults>>

AnnouncesOrder(o) ==
    /\ o \in requests
    /\ \/ OC!Sent(Announcement(o)) /\ UNCHANGED faults
       \/ OC!SentTwice(Announcement(o)) /\ OC!Fault("twice")
       \/ UNCHANGED topics /\ OC!Fault("publish")
       \/ OC!Sent(Announcement(o)) /\ OC!Fault("unsure")
    /\ requests' = requests \ {o}
    /\ UNCHANGED <<orderLoop, orderSeen, orders>>

Decides(t) ==
    /\ OC!Digest(t)
    /\ OrderService!Known(OC!InHand(t).order)
    /\ orders' = [orders EXCEPT ![OC!InHand(t).order] = OrderService!StatusAfter(OC!InHand(t).type)]
    /\ requests' = requests

OrderMisses(t) ==
    /\ OC!NotFound(t)
    /\ ~OrderService!Known(OC!InHand(t).order)
    /\ UNCHANGED <<orders, requests>>

OrderRestarts ==
    /\ OC!Restart
    /\ orders' = [o \in Orders |-> IF orders[o] = "NONE" THEN "NONE" ELSE "LOST"]
    /\ requests' = {}

LEMMA OrderSteps ==
    ASSUME OrderService!Next
    PROVE  \/ \E o \in Orders : CreatesOrder(o) \/ AnnouncesOrder(o)
           \/ \E t \in DOMAIN OrderHandled :
                  Decides(t) \/ OrderMisses(t) \/ (OC!Moves(t) /\ UNCHANGED <<orders, requests>>)
           \/ OrderRestarts
<1>1. ASSUME NEW o \in Orders, OrderService!CreateOrder(o) PROVE CreatesOrder(o)
  BY <1>1 DEF OrderService!CreateOrder, CreatesOrder, OrderService!consumers
<1>2. ASSUME NEW o \in Orders, OrderService!PublishOrderCreated(o) \/ OrderService!PublishOrderCreatedError(o)
      PROVE  AnnouncesOrder(o)
  BY <1>2 DEF OrderService!PublishOrderCreated, OrderService!PublishOrderCreatedError, AnnouncesOrder,
              OrderService!OrderCreated, OrderService!Message, Announcement, OrderService!Sent, OC!Sent,
              OrderService!SentTwice, OC!SentTwice, OrderService!Written, OC!Written, OrderService!WrittenTwice,
              OC!WrittenTwice, OrderService!Fault, OC!Fault, OrderService!HarmlessFaultKinds, OC!HarmlessFaultKinds
<1>3. ASSUME NEW t \in DOMAIN OrderHandled, OrderService!UpdateOrderStatus(t) PROVE Decides(t)
  BY <1>3 DEF OrderService!UpdateOrderStatus, Decides, OC!Digest, OrderService!Begin, OC!Begin, OrderService!Handles,
              OC!Handles, OrderService!Ready, OC!Ready, OrderService!At, OC!At, OrderService!InHand, OC!InHand,
              OrderService!Id, OC!Id, OrderService!Mark, OC!Mark, OrderService!Finish, OC!Finish, OrderService!PassTo,
              OC!PassTo, OrderService!Finished, OC!Finished, OrderService!Took, OC!Took, OrderService!Silent, OC!Silent
<1>4. ASSUME NEW t \in DOMAIN OrderHandled, OrderService!OrderNotFound(t) PROVE OrderMisses(t)
  BY <1>4 DEF OrderService!OrderNotFound, OrderMisses, OC!NotFound, OrderService!Handles,
              OC!Handles, OrderService!Ready, OC!Ready, OrderService!At, OC!At, OrderService!InHand, OC!InHand,
              OrderService!Id, OC!Id, OrderService!Fail, OC!Fail, OrderService!PassTo,
              OC!PassTo, OrderService!Failed, OC!Failed, OrderService!Took, OC!Took, OrderService!Silent, OC!Silent
<1>5. ASSUME NEW t \in DOMAIN OrderHandled,
             \/ OrderService!Skip(t) \/ OrderService!SkipDuplicate(t) \/ OrderService!Commit(t)
             \/ OrderService!CommitError(t) \/ OrderService!DeadLetter(t) \/ OrderService!DeadLetterError(t)
      PROVE  OC!Moves(t)
  BY <1>5 DEF OC!Moves, OrderService!Skip, OC!Skip, OrderService!SkipDuplicate, OC!SkipDuplicate,
              OrderService!Commit, OC!Commit, OrderService!CommitError, OC!CommitError, OrderService!DeadLetter,
              OC!DeadLetter, OrderService!DeadLetterError, OC!DeadLetterError, OrderService!Fault, OC!Fault,
              OrderService!HarmlessFaultKinds, OC!HarmlessFaultKinds, OrderService!Handles,
              OC!Handles, OrderService!Ready, OC!Ready, OrderService!At, OC!At, OrderService!InHand, OC!InHand,
              OrderService!Id, OC!Id, OrderService!PassTo,
              OC!PassTo, OrderService!Finished, OC!Finished, OrderService!Took, OC!Took, OrderService!Silent, OC!Silent
<1>6. ASSUME OrderService!RestartService PROVE OrderRestarts
  BY <1>6 DEF OrderService!RestartService, OrderRestarts, OrderService!Restart, OC!Restart, OrderService!Resume,
              OC!Resume, OrderService!Fault, OC!Fault, OrderService!HarmlessFaultKinds, OC!HarmlessFaultKinds,
              OrderService!StartAt, OC!StartAt, OrderService!Silent, OC!Silent
<1> QED
  BY <1>1, <1>2, <1>3, <1>4, <1>5, <1>6
     DEF OrderService!Next, OrderService!Working, OrderService!Handling, OrderService!Consuming,
         OrderService!Deduplicating, OrderService!DeadLettering

Pays(o) ==
    /\ PC!InHand("order-events").order = o
    /\ \/ /\ payments' = [payments EXCEPT ![o] = Append(@, "RESERVED")]
          /\ PC!Handle("order-events", PaymentAnswer("PaymentReserved", o))
       \/ /\ payments' = payments
          /\ PC!Handle("order-events", PaymentAnswer("PaymentFailed", o))

RollsBack(o) ==
    /\ PC!InHand("inventory-events").order = o
    /\ Len(payments[o]) > 0
    /\ payments' = [payments EXCEPT ![o][Len(payments[o])] = "ROLLED_BACK"]
    /\ PC!Handle("inventory-events", PaymentAnswer("PaymentRolledBack", o))

PaymentMisses ==
    /\ PC!NotFound("inventory-events")
    /\ Len(payments[PC!InHand("inventory-events").order]) = 0
    /\ payments' = payments

PaymentRestarts == PC!Restart /\ payments' = [o \in Orders |-> <<>>]

PaymentPublishes(t) ==
    /\ PC!Publish(t) \/ PC!PublishTwice(t) \/ PC!PublishError(t)
    /\ payments' = payments

LEMMA PaymentSteps ==
    ASSUME PaymentService!Next
    PROVE  \/ \E o : Pays(o) \/ RollsBack(o)
           \/ PaymentMisses
           \/ \E t \in DOMAIN PaymentHandled : PaymentPublishes(t) \/ (PC!Moves(t) /\ payments' = payments)
           \/ PaymentRestarts
<1>1. ASSUME NEW t \in DOMAIN PaymentHandled, PaymentService!HandleOrderCreated(t) PROVE \E o : Pays(o)
  <2>1. t = "order-events" /\ PC!InHand(t) = PaymentService!InHand(t)
    BY <1>1 DEF PaymentService!HandleOrderCreated, PaymentService!InHand, PC!InHand, PaymentService!At, PC!At
  <2>2. Pays(PC!InHand(t).order)
    BY <1>1, <2>1
       DEF PaymentService!HandleOrderCreated, Pays, PaymentAnswer, PC!Handle, PaymentService!Begin, PC!Begin, PaymentService!Handles, PC!Handles, PaymentService!Ready, PC!Ready,
              PaymentService!At, PC!At, PaymentService!InHand, PC!InHand, PaymentService!Id, PC!Id, PaymentService!Mark, PC!Mark,
              PaymentService!GoPublish, PC!GoPublish, PaymentService!PassTo, PC!PassTo, PaymentService!Took, PC!Took, PaymentService!Message
  <2> QED
    BY <2>2
<1>2. ASSUME NEW t \in DOMAIN PaymentHandled, PaymentService!HandleInventoryFailed(t) PROVE \E o : RollsBack(o)
  <2>1. t = "inventory-events" /\ PC!InHand(t) = PaymentService!InHand(t)
    BY <1>2 DEF PaymentService!HandleInventoryFailed, PaymentService!InHand, PC!InHand, PaymentService!At, PC!At
  <2>2. RollsBack(PC!InHand(t).order)
    BY <1>2, <2>1
       DEF PaymentService!HandleInventoryFailed, PaymentService!RollBack, PaymentService!Indexed, RollsBack, PaymentAnswer, PC!Handle, PaymentService!Begin, PC!Begin, PaymentService!Handles, PC!Handles, PaymentService!Ready, PC!Ready,
              PaymentService!At, PC!At, PaymentService!InHand, PC!InHand, PaymentService!Id, PC!Id, PaymentService!Mark, PC!Mark,
              PaymentService!GoPublish, PC!GoPublish, PaymentService!PassTo, PC!PassTo, PaymentService!Took, PC!Took, PaymentService!Message
  <2> QED
    BY <2>2
<1>3. ASSUME NEW t \in DOMAIN PaymentHandled, PaymentService!PaymentNotFound(t) PROVE PaymentMisses
  BY <1>3 DEF PaymentService!PaymentNotFound, PaymentMisses, PC!NotFound, PaymentService!Indexed, PaymentService!Handles, PC!Handles,
              PaymentService!Ready, PC!Ready, PaymentService!At, PC!At, PaymentService!InHand, PC!InHand, PaymentService!Id, PC!Id, PaymentService!Fail, PC!Fail,
              PaymentService!PassTo, PC!PassTo, PaymentService!Failed, PC!Failed, PaymentService!Took, PC!Took, PaymentService!Silent, PC!Silent
<1>4. ASSUME NEW t \in DOMAIN PaymentHandled,
             \/ PaymentService!Skip(t) \/ PaymentService!SkipDuplicate(t) \/ PaymentService!Commit(t)
             \/ PaymentService!CommitError(t) \/ PaymentService!DeadLetter(t) \/ PaymentService!DeadLetterError(t)
      PROVE  PC!Moves(t)
  BY <1>4 DEF PC!Moves, PaymentService!Skip, PC!Skip, PaymentService!SkipDuplicate, PC!SkipDuplicate,
              PaymentService!Commit, PC!Commit, PaymentService!CommitError, PC!CommitError, PaymentService!DeadLetter,
              PC!DeadLetter, PaymentService!DeadLetterError, PC!DeadLetterError, PaymentService!Fault, PC!Fault,
              PaymentService!HarmlessFaultKinds, PC!HarmlessFaultKinds, PaymentService!Handles, PC!Handles,
              PaymentService!Ready, PC!Ready, PaymentService!At, PC!At, PaymentService!InHand, PC!InHand, PaymentService!Id, PC!Id,
              PaymentService!PassTo, PC!PassTo, PaymentService!Finished, PC!Finished, PaymentService!Took, PC!Took,
              PaymentService!Silent, PC!Silent
<1>5. ASSUME NEW t \in DOMAIN PaymentHandled, PaymentService!Publish(t) \/ PaymentService!PublishTwice(t)
      PROVE  PC!Publish(t) \/ PC!PublishTwice(t)
  BY <1>5 DEF PaymentService!Publish, PC!Publish, PaymentService!PublishTwice, PC!PublishTwice, PaymentService!Sent, PC!Sent,
              PaymentService!SentTwice, PC!SentTwice, PaymentService!Written, PC!Written, PaymentService!WrittenTwice, PC!WrittenTwice,
              PaymentService!Fault, PC!Fault, PaymentService!HarmlessFaultKinds, PC!HarmlessFaultKinds,
              PaymentService!Finish, PC!Finish, PaymentService!PassTo, PC!PassTo, PaymentService!Finished, PC!Finished,
              PaymentService!Took, PC!Took, PaymentService!At, PC!At, PaymentService!Silent, PC!Silent
<1>6. ASSUME NEW t \in DOMAIN PaymentHandled, PaymentService!PublishError(t)
      PROVE  PC!PublishError(t)
  BY <1>6 DEF PaymentService!PublishError, PC!PublishError, PaymentService!StillDown, PC!StillDown, PaymentService!Unmark, PC!Unmark,
              PaymentService!Sent, PC!Sent, PaymentService!Written, PC!Written, PaymentService!Fault, PC!Fault,
              PaymentService!HarmlessFaultKinds, PC!HarmlessFaultKinds, PaymentService!Fail, PC!Fail, PaymentService!PassTo, PC!PassTo,
              PaymentService!Failed, PC!Failed, PaymentService!Took, PC!Took, PaymentService!At, PC!At, PaymentService!InHand, PC!InHand,
              PaymentService!Id, PC!Id, PaymentService!Silent, PC!Silent
<1>7. ASSUME PaymentService!RestartService PROVE PaymentRestarts
  BY <1>7 DEF PaymentService!RestartService, PaymentRestarts, PaymentService!Restart, PC!Restart, PaymentService!Resume, PC!Resume, PaymentService!Fault, PC!Fault,
              PaymentService!HarmlessFaultKinds, PC!HarmlessFaultKinds, PaymentService!StartAt, PC!StartAt, PaymentService!Silent, PC!Silent
<1> QED
  BY <1>1, <1>2, <1>3, <1>4, <1>5, <1>6, <1>7
     DEF PaymentService!Next, PaymentService!Working, PaymentService!Handling, PaymentService!Consuming, PaymentService!Deduplicating, PaymentService!Publishing,
         PaymentService!Retrying, PaymentService!DeadLettering, PaymentPublishes

Reserves(o) ==
    /\ IC!InHand("payment-events").order = o
    /\ \/ /\ reservations' = [reservations EXCEPT ![o] = @ + 1]
          /\ IC!Handle("payment-events", InventoryAnswer("InventoryReserved", o))
       \/ /\ reservations' = reservations
          /\ IC!Handle("payment-events", InventoryAnswer("InventoryFailed", o))

InventoryRestarts == IC!Restart /\ reservations' = [o \in Orders |-> 0]

InventoryPublishes ==
    /\ \/ IC!Publish("payment-events") \/ IC!PublishTwice("payment-events") \/ IC!PublishError("payment-events")
    /\ reservations' = reservations

LEMMA InventorySteps ==
    ASSUME InventoryService!Next
    PROVE  \/ \E o : Reserves(o)
           \/ InventoryPublishes
           \/ IC!Moves("payment-events") /\ reservations' = reservations
           \/ InventoryRestarts
<1>0. \A t \in DOMAIN InventoryHandled : t = "payment-events"
  BY DEF InventoryHandled
<1>1. ASSUME NEW t \in DOMAIN InventoryHandled, InventoryService!HandlePaymentReserved(t) PROVE \E o : Reserves(o)
  <2>1. t = "payment-events" /\ IC!InHand(t) = InventoryService!InHand(t)
    BY <1>0, <1>1 DEF InventoryService!InHand, IC!InHand, InventoryService!At, IC!At
  <2>2. Reserves(IC!InHand(t).order)
    BY <1>1, <2>1
       DEF InventoryService!HandlePaymentReserved, Reserves, InventoryAnswer, IC!Handle, InventoryService!Begin, IC!Begin, InventoryService!Handles, IC!Handles, InventoryService!Ready, IC!Ready,
              InventoryService!At, IC!At, InventoryService!InHand, IC!InHand, InventoryService!Id, IC!Id, InventoryService!Mark, IC!Mark,
              InventoryService!GoPublish, IC!GoPublish, InventoryService!PassTo, IC!PassTo, InventoryService!Took, IC!Took, InventoryService!Message
  <2> QED
    BY <2>2
<1>2. ASSUME NEW t \in DOMAIN InventoryHandled,
             \/ InventoryService!Skip(t) \/ InventoryService!SkipDuplicate(t) \/ InventoryService!Commit(t)
             \/ InventoryService!CommitError(t) \/ InventoryService!DeadLetter(t) \/ InventoryService!DeadLetterError(t)
      PROVE  IC!Moves(t)
  BY <1>2 DEF IC!Moves, InventoryService!Skip, IC!Skip, InventoryService!SkipDuplicate, IC!SkipDuplicate,
              InventoryService!Commit, IC!Commit, InventoryService!CommitError, IC!CommitError, InventoryService!DeadLetter,
              IC!DeadLetter, InventoryService!DeadLetterError, IC!DeadLetterError, InventoryService!Fault, IC!Fault,
              InventoryService!HarmlessFaultKinds, IC!HarmlessFaultKinds, InventoryService!Handles, IC!Handles,
              InventoryService!Ready, IC!Ready, InventoryService!At, IC!At, InventoryService!InHand, IC!InHand, InventoryService!Id, IC!Id,
              InventoryService!PassTo, IC!PassTo, InventoryService!Finished, IC!Finished, InventoryService!Took, IC!Took,
              InventoryService!Silent, IC!Silent
<1>3. ASSUME NEW t \in DOMAIN InventoryHandled, InventoryService!Publish(t) \/ InventoryService!PublishTwice(t)
      PROVE  IC!Publish(t) \/ IC!PublishTwice(t)
  BY <1>3 DEF InventoryService!Publish, IC!Publish, InventoryService!PublishTwice, IC!PublishTwice, InventoryService!Sent, IC!Sent,
              InventoryService!SentTwice, IC!SentTwice, InventoryService!Written, IC!Written, InventoryService!WrittenTwice, IC!WrittenTwice,
              InventoryService!Fault, IC!Fault, InventoryService!HarmlessFaultKinds, IC!HarmlessFaultKinds,
              InventoryService!Finish, IC!Finish, InventoryService!PassTo, IC!PassTo, InventoryService!Finished, IC!Finished,
              InventoryService!Took, IC!Took, InventoryService!At, IC!At, InventoryService!Silent, IC!Silent
<1>4. ASSUME NEW t \in DOMAIN InventoryHandled, InventoryService!PublishError(t)
      PROVE  IC!PublishError(t)
  BY <1>4 DEF InventoryService!PublishError, IC!PublishError, InventoryService!StillDown, IC!StillDown, InventoryService!Unmark, IC!Unmark,
              InventoryService!Sent, IC!Sent, InventoryService!Written, IC!Written, InventoryService!Fault, IC!Fault,
              InventoryService!HarmlessFaultKinds, IC!HarmlessFaultKinds, InventoryService!Fail, IC!Fail, InventoryService!PassTo, IC!PassTo,
              InventoryService!Failed, IC!Failed, InventoryService!Took, IC!Took, InventoryService!At, IC!At, InventoryService!InHand, IC!InHand,
              InventoryService!Id, IC!Id, InventoryService!Silent, IC!Silent
<1>5. ASSUME InventoryService!RestartService PROVE InventoryRestarts
  BY <1>5 DEF InventoryService!RestartService, InventoryRestarts, InventoryService!Restart, IC!Restart, InventoryService!Resume, IC!Resume, InventoryService!Fault, IC!Fault,
              InventoryService!HarmlessFaultKinds, IC!HarmlessFaultKinds, InventoryService!StartAt, IC!StartAt, InventoryService!Silent, IC!Silent
<1> QED
  BY <1>0, <1>1, <1>2, <1>3, <1>4, <1>5
     DEF InventoryService!Next, InventoryService!Working, InventoryService!Handling, InventoryService!Consuming, InventoryService!Deduplicating, InventoryService!Publishing,
         InventoryService!Retrying, InventoryService!DeadLettering, InventoryPublishes

-----------------------------------------------------------------------------
(* Every step: types, topics, faults *)

Grown(m) == PC!Grown(m)
Outs == PC!Outs

LEMMA AnswersTyped ==
    ASSUME TypeOK, NEW o \in Orders
    PROVE  /\ Announcement(o) \in Outs
           /\ \A type \in PC!Types : PaymentAnswer(type, o) \in Outs /\ InventoryAnswer(type, o) \in Outs
<1>1. Outs = [topic : Topics, type : PC!Types, order : Orders]
  BY DEF Outs, PC!Outs, TypeOK
<1>2. "order-events" \in Topics /\ "payment-events" \in Topics /\ "inventory-events" \in Topics
  BY DEF Topics
<1>3. "OrderCreated" \in PC!Types
  BY DEF PC!Types
<1> QED
  BY <1>1, <1>2, <1>3 DEF Announcement, PaymentAnswer, InventoryAnswer

LEMMA GrownSame ==
    /\ OC!Outs = Outs /\ IC!Outs = Outs
    /\ \A m : (OC!Grown(m) <=> Grown(m)) /\ (IC!Grown(m) <=> Grown(m))
BY DEF Outs, OC!Outs, PC!Outs, IC!Outs, Grown, OC!Grown, PC!Grown, IC!Grown, OC!Messages, PC!Messages, IC!Messages,
       OC!Types, PC!Types, IC!Types

TopicsMove == topics' = topics \/ \E m \in Outs : Grown(m)

FaultsMove == FaultsTyped' /\ faults'.harmful >= faults.harmful

LEMMA FaultRecordsSame ==
    (OC!FaultRecords = PC!FaultRecords) /\ (IC!FaultRecords = PC!FaultRecords)
    /\ (FaultsTyped <=> faults \in PC!FaultRecords) /\ (FaultsTyped' <=> faults' \in PC!FaultRecords)
BY DEF OC!FaultRecords, PC!FaultRecords, IC!FaultRecords, FaultsTyped

LEMMA OrderElsewhere ==
    ASSUME TypeOK, UNCHANGED <<orderLoop, orderSeen>>, TopicsMove, FaultsTyped'
    PROVE  OC!Typed'
BY TypesSplit, GrownSame, FaultRecordsSame, OC!ElsewhereTyped DEF OC!Elsewhere, TopicsMove

LEMMA PaymentElsewhere ==
    ASSUME TypeOK, UNCHANGED <<paymentLoop, paymentSeen>>, TopicsMove, FaultsTyped'
    PROVE  PC!Typed'
BY TypesSplit, GrownSame, FaultRecordsSame, PC!ElsewhereTyped DEF PC!Elsewhere, TopicsMove, Outs, Grown

LEMMA InventoryElsewhere ==
    ASSUME TypeOK, UNCHANGED <<inventoryLoop, inventorySeen>>, TopicsMove, FaultsTyped'
    PROVE  IC!Typed'
BY TypesSplit, GrownSame, FaultRecordsSame, IC!ElsewhereTyped DEF IC!Elsewhere, TopicsMove

LEMMA TypesTogether ==
    ASSUME OC!Typed', PC!Typed', IC!Typed', FaultsTyped', StoresTyped', DOMAIN topics' = Topics
    PROVE  TypeOK'
<1>1. topics' \in [Topics -> Seq(PC!Messages)]
  BY DEF PC!Typed, PC!TopicsTyped
<1>2. PC!Messages = OrderService!Messages
  BY DEF PC!Messages, OrderService!Messages, PC!Types, OrderService!Types
<1> QED
  BY <1>1, <1>2, TypesSplitThen

LEMMA TopicsMoveTyped ==
    ASSUME TypeOK, TopicsMove
    PROVE  DOMAIN topics' = Topics /\ DOMAIN topics = Topics
<1>1. DOMAIN topics = Topics /\ PC!TopicsTyped
  BY TopicFacts DEF TypeOK
<1> QED
  BY <1>1, PC!GrownTyped DEF TopicsMove, Outs, Grown

LEMMA FreshMove ==
    ASSUME TypeOK, IdsAreFresh, TopicsMove
    PROVE  IdsAreFresh'
<1>1. PC!Typed /\ PC!IdsAreFresh
  BY TypesSplit, FreshSplit, TopicsMoveTyped
<1>2. PC!IdsAreFresh'
  BY <1>1, PC!StillTyped DEF TopicsMove, Outs, Grown
<1>3. (DOMAIN topics = Topics =>
        (IdsAreFresh <=> OC!IdsAreFresh) /\ (IdsAreFresh <=> PC!IdsAreFresh) /\ (IdsAreFresh <=> IC!IdsAreFresh))'
  BY FreshSplit, PTL
<1> QED
  BY <1>2, <1>3, TopicsMoveTyped

\* What each step of order-service does.
LEMMA CreatesEffect ==
    ASSUME TypeOK, NEW o \in Orders, CreatesOrder(o), PaymentStill, InventoryStill
    PROVE  TypeOK' /\ topics' = topics /\ faults' = faults
<1>1. topics' = topics /\ faults' = faults /\ TopicsMove /\ FaultsTyped' /\ UNCHANGED <<orderLoop, orderSeen>>
  BY TypesSplit DEF CreatesOrder, TopicsMove, FaultsTyped
<1>2. StoresTyped'
  <2>1. orders \in [Orders -> OrderService!Statuses] /\ requests \in SUBSET Orders
        /\ payments \in [Orders -> Seq(PaymentService!PaymentStatuses)] /\ reservations \in [Orders -> Nat]
    BY TypesSplit DEF StoresTyped
  <2>2. "PENDING" \in OrderService!Statuses
    BY DEF OrderService!Statuses
  <2> QED
    BY <2>1, <2>2 DEF StoresTyped, CreatesOrder, PaymentStill, InventoryStill
<1> QED
  BY <1>1, <1>2, OrderElsewhere, PaymentElsewhere, InventoryElsewhere, TypesTogether, TopicsMoveTyped
     DEF PaymentStill, InventoryStill

LEMMA AnnouncesEffect ==
    ASSUME TypeOK, NEW o \in Orders, AnnouncesOrder(o), PaymentStill, InventoryStill
    PROVE  /\ TypeOK' /\ FaultsMove
           /\ Announcement(o) \in Outs
           /\ topics' = topics \/ Grown(Announcement(o))
           /\ faults'.untold = faults.untold
<1>1. OC!Typed /\ OC!TopicsTyped /\ FaultsTyped /\ faults \in OC!FaultRecords /\ MaxFaults \in Nat /\ DOMAIN topics = Topics
  BY TypesSplit, TopicFacts, FaultRecordsSame DEF OC!Typed, TypeOK
<1>2. Announcement(o) \in OC!Outs
  BY AnswersTyped, GrownSame
<1>3. topics' = topics \/ OC!Grown(Announcement(o))
  BY <1>1, <1>2, OC!SentGrows, OC!SentTwiceGrows DEF AnnouncesOrder
<1>4. FaultsMove /\ faults'.untold = faults.untold
  <2>1. faults.harmful \in Nat
    BY <1>1 DEF FaultsTyped
  <2>2. CASE UNCHANGED faults
    BY <1>1, <2>1, <2>2 DEF FaultsMove, FaultsTyped
  <2>3. CASE OC!Fault("twice") \/ OC!Fault("publish") \/ OC!Fault("unsure")
    BY <1>1, <2>1, <2>3, OC!FaultTyped, FaultRecordsSame DEF FaultsMove, FaultsTyped
  <2> QED
    BY <2>2, <2>3 DEF AnnouncesOrder
<1>5. TopicsMove /\ FaultsTyped' /\ UNCHANGED <<orderLoop, orderSeen>>
  BY <1>2, <1>3, <1>4, GrownSame DEF TopicsMove, FaultsMove, AnnouncesOrder
<1>6. StoresTyped'
  BY TypesSplit DEF StoresTyped, AnnouncesOrder, PaymentStill, InventoryStill
<1>7. TypeOK'
  BY <1>5, <1>6, OrderElsewhere, PaymentElsewhere, InventoryElsewhere, TypesTogether, TopicsMoveTyped
     DEF PaymentStill, InventoryStill
<1> QED
  BY <1>2, <1>3, <1>4, <1>7, GrownSame

LEMMA DecidesEffect ==
    ASSUME TypeOK, NEW t \in DOMAIN OrderHandled, Decides(t), PaymentStill, InventoryStill
    PROVE  /\ TypeOK' /\ topics' = topics /\ faults' = faults
           /\ orderSeen' = orderSeen \cup {OC!Id(t)}
           /\ orderLoop'[t].pc = "commit" /\ orderLoop'[t].retry = 0 /\ OC!OthersKept(t)
<1>1. /\ OC!Typed' /\ topics' = topics /\ faults' = faults /\ orderSeen' = orderSeen \cup {OC!Id(t)}
      /\ orderLoop'[t].pc = "commit" /\ orderLoop'[t].retry = 0 /\ OC!OthersKept(t)
  BY TypesSplit, OC!DigestStep DEF Decides
<1>2. TopicsMove /\ FaultsTyped'
  BY <1>1, TypesSplit DEF TopicsMove, FaultsTyped
<1>3. StoresTyped'
  <2>1. OrderService!StatusAfter(OC!InHand(t).type) \in OrderService!Statuses
    BY DEF OrderService!StatusAfter, OrderService!Statuses
  <2>2. orders' \in [Orders -> OrderService!Statuses]
    BY <2>1, TypesSplit DEF Decides, StoresTyped
  <2> QED
    BY <2>2, TypesSplit DEF Decides, StoresTyped, PaymentStill, InventoryStill
<1> QED
  BY <1>1, <1>2, <1>3, PaymentElsewhere, InventoryElsewhere, TypesTogether, TopicsMoveTyped
     DEF PaymentStill, InventoryStill

LEMMA OrderMissesEffect ==
    ASSUME TypeOK, NEW t \in DOMAIN OrderHandled, OrderMisses(t), PaymentStill, InventoryStill
    PROVE  /\ TypeOK' /\ topics' = topics /\ faults' = faults /\ orderSeen' = orderSeen
           /\ orderLoop'[t].pc \in {"handle", "dead"} /\ OC!OthersKept(t)
<1>1. /\ OC!Typed' /\ topics' = topics /\ faults' = faults /\ orderSeen' = orderSeen
      /\ orderLoop'[t].pc \in {"handle", "dead"} /\ OC!OthersKept(t)
  BY TypesSplit, OC!NotFoundStep DEF OrderMisses
<1>2. TopicsMove /\ FaultsTyped'
  BY <1>1, TypesSplit DEF TopicsMove, FaultsTyped
<1>3. StoresTyped'
  BY TypesSplit DEF OrderMisses, StoresTyped, PaymentStill, InventoryStill
<1> QED
  BY <1>1, <1>2, <1>3, PaymentElsewhere, InventoryElsewhere, TypesTogether, TopicsMoveTyped
     DEF PaymentStill, InventoryStill

LEMMA OrderMovesEffect ==
    ASSUME TypeOK, NEW t \in DOMAIN OrderHandled, OC!Moves(t), UNCHANGED <<orders, requests>>,
           PaymentStill, InventoryStill
    PROVE  /\ TypeOK' /\ topics' = topics /\ orderSeen' = orderSeen
           /\ FaultsTyped' /\ faults'.harmful = faults.harmful
           /\ faults'.untold = faults.untold \/ orderLoop[t].pc = "dead"
           /\ orderLoop'[t].pc \in {"fetch", "commit"} /\ orderLoop'[t].retry = 0 /\ OC!OthersKept(t)
<1>1. /\ OC!Typed' /\ topics' = topics /\ orderSeen' = orderSeen /\ faults'.harmful = faults.harmful
      /\ faults'.untold = faults.untold \/ orderLoop[t].pc = "dead"
      /\ orderLoop'[t].pc \in {"fetch", "commit"} /\ orderLoop'[t].retry = 0 /\ OC!OthersKept(t)
  BY TypesSplit, OC!MovesStep
<1>2. TopicsMove /\ FaultsTyped'
  BY <1>1, FaultRecordsSame DEF TopicsMove, OC!Typed
<1>3. StoresTyped'
  BY TypesSplit DEF StoresTyped, PaymentStill, InventoryStill
<1> QED
  BY <1>1, <1>2, <1>3, PaymentElsewhere, InventoryElsewhere, TypesTogether, TopicsMoveTyped
     DEF PaymentStill, InventoryStill

LEMMA OrderRestartsEffect ==
    ASSUME TypeOK, OrderRestarts, PaymentStill, InventoryStill
    PROVE  /\ TypeOK' /\ topics' = topics /\ orderSeen' = {}
           /\ FaultsTyped' /\ faults'.harmful = faults.harmful + 1
           /\ \A t \in DOMAIN OrderHandled : orderLoop'[t].pc = "fetch"
<1>1. /\ OC!Typed' /\ topics' = topics /\ orderSeen' = {} /\ faults'.harmful = faults.harmful + 1
      /\ \A t \in DOMAIN OrderHandled : orderLoop'[t].pc = "fetch"
  BY TypesSplit, OC!RestartStep DEF OrderRestarts
<1>2. TopicsMove /\ FaultsTyped'
  BY <1>1, FaultRecordsSame DEF TopicsMove, OC!Typed
<1>3. StoresTyped'
  <2>1. \A o \in Orders : (IF orders[o] = "NONE" THEN "NONE" ELSE "LOST") \in OrderService!Statuses
    BY DEF OrderService!Statuses
  <2>2. orders' \in [Orders -> OrderService!Statuses]
    BY <2>1 DEF OrderRestarts
  <2> QED
    BY <2>2, TypesSplit DEF OrderRestarts, StoresTyped, PaymentStill, InventoryStill
<1> QED
  BY <1>1, <1>2, <1>3, PaymentElsewhere, InventoryElsewhere, TypesTogether, TopicsMoveTyped
     DEF PaymentStill, InventoryStill

\* What each step of payment-service does.
LEMMA PaysEffect ==
    ASSUME TypeOK, NEW o, Pays(o), OrderStill, InventoryStill
    PROVE  /\ o \in Orders /\ TypeOK' /\ topics' = topics /\ faults' = faults
           /\ PC!InHand("order-events").type = "OrderCreated"
           /\ PC!At("order-events") \in DOMAIN topics["order-events"]
           /\ \E type \in {"PaymentReserved", "PaymentFailed"} :
                  /\ PaymentAnswer(type, o) \in Outs
                  /\ PC!Handle("order-events", PaymentAnswer(type, o))
<1> DEFINE t == "order-events"
<1>1. t \in DOMAIN PaymentHandled /\ PaymentHandled[t] = {"OrderCreated"}
  BY DEF PaymentHandled
<1>2. PC!Handles(t)
  BY DEF Pays, PC!Handle, PC!Begin
<1>3. PC!InHand(t) \in PC!Messages /\ PC!InHand(t).type = "OrderCreated" /\ PC!At(t) \in DOMAIN topics[t]
  BY <1>1, <1>2, TypesSplit, PC!HandFacts DEF PC!Handles
<1>4. o \in Orders
  BY <1>3 DEF Pays, PC!Messages
<1>5. PICK type \in {"PaymentReserved", "PaymentFailed"} : PC!Handle(t, PaymentAnswer(type, o))
  BY DEF Pays
<1>6. PaymentAnswer(type, o) \in Outs
  BY <1>4, AnswersTyped DEF PC!Types
<1>7. PC!Typed' /\ topics' = topics /\ faults' = faults
  BY <1>1, <1>5, <1>6, TypesSplit, PC!HandleStep DEF Outs
<1>8. TopicsMove /\ FaultsTyped'
  BY <1>7, TypesSplit DEF TopicsMove, FaultsTyped
<1>9. StoresTyped'
  <2>1. payments \in [Orders -> Seq(PaymentService!PaymentStatuses)] /\ "RESERVED" \in PaymentService!PaymentStatuses
    BY TypesSplit DEF StoresTyped, PaymentService!PaymentStatuses
  <2>2. Append(payments[o], "RESERVED") \in Seq(PaymentService!PaymentStatuses)
    BY <1>4, <2>1
  <2>3. payments' \in [Orders -> Seq(PaymentService!PaymentStatuses)]
    BY <2>1, <2>2 DEF Pays
  <2> QED
    BY <2>3, TypesSplit DEF StoresTyped, OrderStill, InventoryStill
<1> QED
  BY <1>3, <1>4, <1>5, <1>6, <1>7, <1>8, <1>9, OrderElsewhere, InventoryElsewhere, TypesTogether, TopicsMoveTyped
     DEF OrderStill, InventoryStill

LEMMA RollsBackEffect ==
    ASSUME TypeOK, NEW o, RollsBack(o), OrderStill, InventoryStill
    PROVE  /\ o \in Orders /\ TypeOK' /\ topics' = topics /\ faults' = faults
           /\ PC!InHand("inventory-events").type = "InventoryFailed"
           /\ PC!At("inventory-events") \in DOMAIN topics["inventory-events"]
           /\ PaymentAnswer("PaymentRolledBack", o) \in Outs
           /\ Len(payments'[o]) = Len(payments[o])
           /\ \A p \in Orders \ {o} : payments'[p] = payments[p]
<1> DEFINE t == "inventory-events"
           m == PaymentAnswer("PaymentRolledBack", o)
<1>1. t \in DOMAIN PaymentHandled /\ PaymentHandled[t] = {"InventoryFailed"}
  BY DEF PaymentHandled
<1>2. PC!Handles(t)
  BY DEF RollsBack, PC!Handle, PC!Begin
<1>3. PC!InHand(t) \in PC!Messages /\ PC!InHand(t).type = "InventoryFailed" /\ PC!At(t) \in DOMAIN topics[t]
  BY <1>1, <1>2, TypesSplit, PC!HandFacts DEF PC!Handles
<1>4. o \in Orders
  BY <1>3 DEF RollsBack, PC!Messages
<1>5. m \in Outs
  BY <1>4, AnswersTyped DEF PC!Types
<1>6. PC!Typed' /\ topics' = topics /\ faults' = faults
  BY <1>1, <1>5, TypesSplit, PC!HandleStep DEF Outs, RollsBack
<1>7. TopicsMove /\ FaultsTyped'
  BY <1>6, TypesSplit DEF TopicsMove, FaultsTyped
<1>8. /\ payments' \in [Orders -> Seq(PaymentService!PaymentStatuses)]
      /\ Len(payments'[o]) = Len(payments[o])
      /\ \A p \in Orders \ {o} : payments'[p] = payments[p]
  <2> DEFINE old == payments[o]
             new == [old EXCEPT ![Len(old)] = "ROLLED_BACK"]
  <2>1. payments \in [Orders -> Seq(PaymentService!PaymentStatuses)] /\ "ROLLED_BACK" \in PaymentService!PaymentStatuses
    BY TypesSplit DEF StoresTyped, PaymentService!PaymentStatuses
  <2>2. old \in Seq(PaymentService!PaymentStatuses)
    BY <1>4, <2>1
  <2>3. new \in Seq(PaymentService!PaymentStatuses) /\ Len(new) = Len(old)
    <3>1. old \in [1..Len(old) -> PaymentService!PaymentStatuses] /\ Len(old) \in Nat
      BY <2>2
    <3>2. new \in [1..Len(old) -> PaymentService!PaymentStatuses]
      BY <2>1, <3>1
    <3> HIDE DEF new
    <3>3. ASSUME NEW n \in Nat, NEW S, NEW f \in [1..n -> S] PROVE f \in Seq(S) /\ Len(f) = n
      OBVIOUS
    <3> QED
      BY <3>1, <3>2, <3>3
  <2>4. payments' = [payments EXCEPT ![o] = new]
    BY DEF RollsBack
  <2> HIDE DEF new
  <2> QED
    BY <1>4, <2>1, <2>3, <2>4
<1>9. StoresTyped'
  BY <1>8, TypesSplit DEF StoresTyped, OrderStill, InventoryStill
<1> QED
  BY <1>3, <1>4, <1>5, <1>6, <1>7, <1>8, <1>9, OrderElsewhere, InventoryElsewhere, TypesTogether, TopicsMoveTyped
     DEF OrderStill, InventoryStill

LEMMA PaymentQuietEffect ==
    ASSUME TypeOK, OrderStill, InventoryStill, payments' = payments, NEW t \in DOMAIN PaymentHandled,
           PC!Moves(t) \/ PC!NotFound(t)
    PROVE  /\ TypeOK' /\ topics' = topics /\ paymentSeen' = paymentSeen
           /\ FaultsTyped' /\ faults'.harmful = faults.harmful
           /\ paymentLoop[t].pc # "publish" /\ paymentLoop'[t].pc # "publish" /\ PC!OthersKept(t)
           /\ PC!Moves(t) => /\ faults'.untold = faults.untold \/ paymentLoop[t].pc = "dead"
                             /\ paymentLoop'[t].pc # "dead" /\ paymentLoop'[t].retry = 0
<1>1. /\ PC!Typed' /\ topics' = topics /\ paymentSeen' = paymentSeen /\ faults'.harmful = faults.harmful
      /\ paymentLoop[t].pc # "publish" /\ paymentLoop'[t].pc # "publish" /\ PC!OthersKept(t)
      /\ PC!Moves(t) => /\ faults'.untold = faults.untold \/ paymentLoop[t].pc = "dead"
                        /\ paymentLoop'[t].pc # "dead" /\ paymentLoop'[t].retry = 0
  BY TypesSplit, PC!MovesStep, PC!NotFoundStep
<1>2. TopicsMove /\ FaultsTyped'
  BY <1>1, FaultRecordsSame DEF TopicsMove, PC!Typed
<1>3. StoresTyped'
  BY TypesSplit DEF StoresTyped, OrderStill, InventoryStill
<1> QED
  BY <1>1, <1>2, <1>3, OrderElsewhere, InventoryElsewhere, TypesTogether, TopicsMoveTyped
     DEF OrderStill, InventoryStill

LEMMA PaymentPublishesEffect ==
    ASSUME TypeOK, NEW t \in DOMAIN PaymentHandled, PaymentPublishes(t), OrderStill, InventoryStill
    PROVE  /\ TypeOK' /\ FaultsMove /\ faults'.untold = faults.untold /\ payments' = payments
           /\ paymentLoop[t].pc = "publish" /\ paymentLoop[t].out \in Outs
           /\ topics' = topics \/ Grown(paymentLoop[t].out)
           /\ paymentLoop'[t].pc # "publish" /\ PC!OthersKept(t)
           /\ \/ PC!PublishError(t)
              \/ /\ Grown(paymentLoop[t].out) /\ paymentSeen' = paymentSeen /\ faults'.harmful = faults.harmful
                 /\ paymentLoop'[t].pc = "commit" /\ paymentLoop'[t].retry = 0
<1>1. /\ PC!Typed' /\ faults'.untold = faults.untold /\ payments' = payments
      /\ paymentLoop[t].pc = "publish" /\ paymentLoop[t].out \in PC!Outs
      /\ topics' = topics \/ PC!Grown(paymentLoop[t].out)
      /\ faults'.harmful = faults.harmful \/ faults'.harmful = faults.harmful + 1
      /\ paymentLoop'[t].pc # "publish" /\ PC!OthersKept(t)
      /\ \/ PC!PublishError(t)
         \/ /\ PC!Grown(paymentLoop[t].out) /\ paymentSeen' = paymentSeen /\ faults'.harmful = faults.harmful
            /\ paymentLoop'[t].pc = "commit" /\ paymentLoop'[t].retry = 0
  BY TypesSplit, PC!PublishStep, PC!PublishErrorStep DEF PaymentPublishes
<1>2. TopicsMove /\ FaultsTyped'
  BY <1>1, FaultRecordsSame DEF TopicsMove, PC!Typed, Outs, Grown
<1>3. FaultsMove
  BY <1>1, <1>2, TypesSplit DEF FaultsMove, FaultsTyped
<1>4. StoresTyped'
  BY <1>1, TypesSplit DEF StoresTyped, OrderStill, InventoryStill
<1> QED
  BY <1>1, <1>2, <1>3, <1>4, OrderElsewhere, InventoryElsewhere, TypesTogether, TopicsMoveTyped
     DEF OrderStill, InventoryStill, Outs, Grown

LEMMA PaymentRestartsEffect ==
    ASSUME TypeOK, PaymentRestarts, OrderStill, InventoryStill
    PROVE  /\ TypeOK' /\ topics' = topics /\ paymentSeen' = {}
           /\ FaultsTyped' /\ faults'.harmful = faults.harmful + 1
           /\ \A t \in DOMAIN PaymentHandled : paymentLoop'[t].pc = "fetch" /\ paymentLoop'[t].retry = 0
<1>1. /\ PC!Typed' /\ topics' = topics /\ paymentSeen' = {} /\ faults'.harmful = faults.harmful + 1
      /\ \A t \in DOMAIN PaymentHandled : paymentLoop'[t].pc = "fetch" /\ paymentLoop'[t].retry = 0
  BY TypesSplit, PC!RestartStep DEF PaymentRestarts
<1>2. TopicsMove /\ FaultsTyped'
  BY <1>1, FaultRecordsSame DEF TopicsMove, PC!Typed
<1>3. StoresTyped'
  <2>1. payments' \in [Orders -> Seq(PaymentService!PaymentStatuses)]
    BY DEF PaymentRestarts
  <2> QED
    BY <2>1, TypesSplit DEF StoresTyped, OrderStill, InventoryStill
<1> QED
  BY <1>1, <1>2, <1>3, OrderElsewhere, InventoryElsewhere, TypesTogether, TopicsMoveTyped
     DEF OrderStill, InventoryStill

\* What each step of inventory-service does.
LEMMA ReservesEffect ==
    ASSUME TypeOK, NEW o, Reserves(o), OrderStill, PaymentStill
    PROVE  /\ o \in Orders /\ TypeOK' /\ topics' = topics /\ faults' = faults
           /\ IC!InHand("payment-events").type = "PaymentReserved"
           /\ IC!At("payment-events") \in DOMAIN topics["payment-events"]
           /\ \E type \in {"InventoryReserved", "InventoryFailed"} :
                  /\ InventoryAnswer(type, o) \in Outs
                  /\ IC!Handle("payment-events", InventoryAnswer(type, o))
<1> DEFINE t == "payment-events"
<1>1. t \in DOMAIN InventoryHandled /\ InventoryHandled[t] = {"PaymentReserved"}
  BY DEF InventoryHandled
<1>2. IC!Handles(t)
  BY DEF Reserves, IC!Handle, IC!Begin
<1>3. IC!InHand(t) \in IC!Messages /\ IC!InHand(t).type = "PaymentReserved" /\ IC!At(t) \in DOMAIN topics[t]
  BY <1>1, <1>2, TypesSplit, IC!HandFacts DEF IC!Handles
<1>4. o \in Orders
  BY <1>3 DEF Reserves, IC!Messages
<1>5. PICK type \in {"InventoryReserved", "InventoryFailed"} : IC!Handle(t, InventoryAnswer(type, o))
  BY DEF Reserves
<1>6. InventoryAnswer(type, o) \in Outs
  BY <1>4, AnswersTyped DEF PC!Types
<1>7. IC!Typed' /\ topics' = topics /\ faults' = faults
  BY <1>1, <1>5, <1>6, TypesSplit, GrownSame, IC!HandleStep
<1>8. TopicsMove /\ FaultsTyped'
  BY <1>7, TypesSplit DEF TopicsMove, FaultsTyped
<1>9. StoresTyped'
  <2>1. reservations \in [Orders -> Nat]
    BY TypesSplit DEF StoresTyped
  <2>2. reservations' \in [Orders -> Nat]
    BY <1>4, <2>1 DEF Reserves
  <2> QED
    BY <2>2, TypesSplit DEF StoresTyped, OrderStill, PaymentStill
<1> QED
  BY <1>3, <1>4, <1>5, <1>6, <1>7, <1>8, <1>9, OrderElsewhere, PaymentElsewhere, TypesTogether, TopicsMoveTyped
     DEF OrderStill, PaymentStill

LEMMA InventoryMovesEffect ==
    ASSUME TypeOK, OrderStill, PaymentStill, reservations' = reservations, IC!Moves("payment-events")
    PROVE  /\ TypeOK' /\ topics' = topics /\ inventorySeen' = inventorySeen
           /\ FaultsTyped' /\ faults'.harmful = faults.harmful
           /\ faults'.untold = faults.untold \/ inventoryLoop["payment-events"].pc = "dead"
           /\ inventoryLoop["payment-events"].pc # "publish"
           /\ inventoryLoop'["payment-events"].pc \in {"fetch", "commit"}
           /\ inventoryLoop'["payment-events"].retry = 0
<1> DEFINE t == "payment-events"
<1>1. t \in DOMAIN InventoryHandled
  BY DEF InventoryHandled
<1>2. /\ IC!Typed' /\ topics' = topics /\ inventorySeen' = inventorySeen /\ faults'.harmful = faults.harmful
      /\ faults'.untold = faults.untold \/ inventoryLoop[t].pc = "dead"
      /\ inventoryLoop[t].pc # "publish" /\ inventoryLoop'[t].pc \in {"fetch", "commit"} /\ inventoryLoop'[t].retry = 0
  BY <1>1, TypesSplit, IC!MovesStep
<1>3. TopicsMove /\ FaultsTyped'
  BY <1>2, FaultRecordsSame DEF TopicsMove, IC!Typed
<1>4. StoresTyped'
  BY TypesSplit DEF StoresTyped, OrderStill, PaymentStill
<1> QED
  BY <1>2, <1>3, <1>4, OrderElsewhere, PaymentElsewhere, TypesTogether, TopicsMoveTyped
     DEF OrderStill, PaymentStill

LEMMA InventoryPublishesEffect ==
    ASSUME TypeOK, InventoryPublishes, OrderStill, PaymentStill
    PROVE  LET l == inventoryLoop["payment-events"]
           IN  /\ TypeOK' /\ FaultsMove /\ faults'.untold = faults.untold /\ reservations' = reservations
               /\ l.pc = "publish" /\ l.out \in Outs
               /\ topics' = topics \/ Grown(l.out)
               /\ inventoryLoop'["payment-events"].pc # "publish"
               /\ \/ IC!PublishError("payment-events")
                  \/ /\ Grown(l.out) /\ inventorySeen' = inventorySeen /\ faults'.harmful = faults.harmful
                     /\ inventoryLoop'["payment-events"].pc = "commit" /\ inventoryLoop'["payment-events"].retry = 0
<1> DEFINE t == "payment-events"
<1>1. t \in DOMAIN InventoryHandled
  BY DEF InventoryHandled
<1>2. /\ IC!Typed' /\ faults'.untold = faults.untold /\ reservations' = reservations
      /\ inventoryLoop[t].pc = "publish" /\ inventoryLoop[t].out \in IC!Outs
      /\ topics' = topics \/ IC!Grown(inventoryLoop[t].out)
      /\ faults'.harmful = faults.harmful \/ faults'.harmful = faults.harmful + 1
      /\ inventoryLoop'[t].pc # "publish"
      /\ \/ IC!PublishError(t)
         \/ /\ IC!Grown(inventoryLoop[t].out) /\ inventorySeen' = inventorySeen /\ faults'.harmful = faults.harmful
            /\ inventoryLoop'[t].pc = "commit" /\ inventoryLoop'[t].retry = 0
  BY <1>1, TypesSplit, IC!PublishStep, IC!PublishErrorStep DEF InventoryPublishes
<1>3. TopicsMove /\ FaultsTyped'
  BY <1>2, FaultRecordsSame, GrownSame DEF TopicsMove, IC!Typed
<1>4. FaultsMove
  BY <1>2, <1>3, TypesSplit DEF FaultsMove, FaultsTyped
<1>5. StoresTyped'
  BY <1>2, TypesSplit DEF StoresTyped, OrderStill, PaymentStill
<1> QED
  BY <1>2, <1>3, <1>4, <1>5, GrownSame, OrderElsewhere, PaymentElsewhere, TypesTogether, TopicsMoveTyped
     DEF OrderStill, PaymentStill

LEMMA InventoryRestartsEffect ==
    ASSUME TypeOK, InventoryRestarts, OrderStill, PaymentStill
    PROVE  /\ TypeOK' /\ topics' = topics /\ inventorySeen' = {}
           /\ FaultsTyped' /\ faults'.harmful = faults.harmful + 1
           /\ inventoryLoop'["payment-events"].pc = "fetch" /\ inventoryLoop'["payment-events"].retry = 0
<1>1. /\ IC!Typed' /\ topics' = topics /\ inventorySeen' = {} /\ faults'.harmful = faults.harmful + 1
      /\ inventoryLoop'["payment-events"].pc = "fetch" /\ inventoryLoop'["payment-events"].retry = 0
  BY TypesSplit, IC!RestartStep DEF InventoryRestarts, InventoryHandled
<1>2. TopicsMove /\ FaultsTyped'
  BY <1>1, FaultRecordsSame DEF TopicsMove, IC!Typed
<1>3. StoresTyped'
  <2>1. reservations' \in [Orders -> Nat]
    BY DEF InventoryRestarts
  <2> QED
    BY <2>1, TypesSplit DEF StoresTyped, OrderStill, PaymentStill
<1> QED
  BY <1>1, <1>2, <1>3, OrderElsewhere, PaymentElsewhere, TypesTogether, TopicsMoveTyped
     DEF OrderStill, PaymentStill

-----------------------------------------------------------------------------
(* A step of the system is one of these *)

OrderStep ==
    /\ PaymentStill
    /\ InventoryStill
    /\ \/ \E o \in Orders : CreatesOrder(o) \/ AnnouncesOrder(o)
       \/ \E t \in DOMAIN OrderHandled :
              Decides(t) \/ OrderMisses(t) \/ (OC!Moves(t) /\ UNCHANGED <<orders, requests>>)
       \/ OrderRestarts

PaymentStep ==
    /\ OrderStill
    /\ InventoryStill
    /\ \/ \E o : Pays(o) \/ RollsBack(o)
       \/ PaymentMisses
       \/ \E t \in DOMAIN PaymentHandled : PaymentPublishes(t) \/ (PC!Moves(t) /\ payments' = payments)
       \/ PaymentRestarts

InventoryStep ==
    /\ OrderStill
    /\ PaymentStill
    /\ \/ \E o : Reserves(o)
       \/ InventoryPublishes
       \/ IC!Moves("payment-events") /\ reservations' = reservations
       \/ InventoryRestarts

LEMMA Steps ==
    ASSUME Next
    PROVE  OrderStep \/ PaymentStep \/ InventoryStep
<1>1. ASSUME OrderService!Next, UNCHANGED <<paymentState, inventoryState>> PROVE OrderStep
  BY <1>1, OrderSteps DEF OrderStep, paymentState, inventoryState, PaymentStill, InventoryStill
<1>2. ASSUME PaymentService!Next, UNCHANGED <<orderState, inventoryState>> PROVE PaymentStep
  BY <1>2, PaymentSteps DEF PaymentStep, orderState, inventoryState, OrderStill, InventoryStill
<1>3. ASSUME InventoryService!Next, UNCHANGED <<orderState, paymentState>> PROVE InventoryStep
  BY <1>3, InventorySteps DEF InventoryStep, orderState, paymentState, OrderStill, PaymentStill
<1> QED
  BY <1>1, <1>2, <1>3 DEF Next

LEMMA TopicNames ==
    /\ DOMAIN OrderHandled = {"payment-events", "inventory-events"}
    /\ DOMAIN PaymentHandled = {"order-events", "inventory-events"}
    /\ DOMAIN InventoryHandled = {"payment-events"}
    /\ "order-events" \in Topics /\ "payment-events" \in Topics /\ "inventory-events" \in Topics
BY DEF OrderHandled, PaymentHandled, InventoryHandled, Topics

LEMMA OrderStepMoves ==
    ASSUME TypeOK, OrderStep
    PROVE  TypeOK' /\ TopicsMove /\ FaultsMove
<1>0. FaultsTyped /\ faults.harmful \in Nat
  BY TypesSplit DEF FaultsTyped
<1>1. ASSUME NEW o \in Orders, CreatesOrder(o) PROVE TypeOK' /\ TopicsMove /\ FaultsMove
  BY <1>0, <1>1, CreatesEffect DEF OrderStep, TopicsMove, FaultsMove, FaultsTyped
<1>2. ASSUME NEW o \in Orders, AnnouncesOrder(o) PROVE TypeOK' /\ TopicsMove /\ FaultsMove
  BY <1>2, AnnouncesEffect DEF OrderStep, TopicsMove
<1>3. ASSUME NEW t \in DOMAIN OrderHandled, Decides(t) PROVE TypeOK' /\ TopicsMove /\ FaultsMove
  BY <1>0, <1>3, DecidesEffect DEF OrderStep, TopicsMove, FaultsMove, FaultsTyped
<1>4. ASSUME NEW t \in DOMAIN OrderHandled, OrderMisses(t) PROVE TypeOK' /\ TopicsMove /\ FaultsMove
  BY <1>0, <1>4, OrderMissesEffect DEF OrderStep, TopicsMove, FaultsMove, FaultsTyped
<1>5. ASSUME NEW t \in DOMAIN OrderHandled, OC!Moves(t), UNCHANGED <<orders, requests>>
      PROVE  TypeOK' /\ TopicsMove /\ FaultsMove
  BY <1>0, <1>5, OrderMovesEffect DEF OrderStep, TopicsMove, FaultsMove
<1>6. ASSUME OrderRestarts PROVE TypeOK' /\ TopicsMove /\ FaultsMove
  BY <1>0, <1>6, OrderRestartsEffect DEF OrderStep, TopicsMove, FaultsMove
<1> QED
  BY <1>1, <1>2, <1>3, <1>4, <1>5, <1>6 DEF OrderStep

LEMMA PaymentStepMoves ==
    ASSUME TypeOK, PaymentStep
    PROVE  TypeOK' /\ TopicsMove /\ FaultsMove
<1>0. FaultsTyped /\ faults.harmful \in Nat
  BY TypesSplit DEF FaultsTyped
<1>1. ASSUME NEW o, Pays(o) PROVE TypeOK' /\ TopicsMove /\ FaultsMove
  BY <1>0, <1>1, PaysEffect DEF PaymentStep, TopicsMove, FaultsMove, FaultsTyped
<1>2. ASSUME NEW o, RollsBack(o) PROVE TypeOK' /\ TopicsMove /\ FaultsMove
  BY <1>0, <1>2, RollsBackEffect DEF PaymentStep, TopicsMove, FaultsMove, FaultsTyped
<1>3. ASSUME NEW t \in DOMAIN PaymentHandled, PC!Moves(t) \/ PC!NotFound(t), payments' = payments
      PROVE TypeOK' /\ TopicsMove /\ FaultsMove
  BY <1>0, <1>3, PaymentQuietEffect DEF PaymentStep, TopicsMove, FaultsMove
<1>4. ASSUME NEW t \in DOMAIN PaymentHandled, PaymentPublishes(t) PROVE TypeOK' /\ TopicsMove /\ FaultsMove
  BY <1>4, PaymentPublishesEffect DEF PaymentStep, TopicsMove
<1>5. ASSUME PaymentRestarts PROVE TypeOK' /\ TopicsMove /\ FaultsMove
  BY <1>0, <1>5, PaymentRestartsEffect DEF PaymentStep, TopicsMove, FaultsMove
<1> QED
  BY <1>1, <1>2, <1>3, <1>4, <1>5, TopicNames DEF PaymentStep, PaymentMisses

LEMMA InventoryStepMoves ==
    ASSUME TypeOK, InventoryStep
    PROVE  TypeOK' /\ TopicsMove /\ FaultsMove
<1>0. FaultsTyped /\ faults.harmful \in Nat
  BY TypesSplit DEF FaultsTyped
<1>1. ASSUME NEW o, Reserves(o) PROVE TypeOK' /\ TopicsMove /\ FaultsMove
  BY <1>0, <1>1, ReservesEffect DEF InventoryStep, TopicsMove, FaultsMove, FaultsTyped
<1>2. ASSUME IC!Moves("payment-events"), reservations' = reservations PROVE TypeOK' /\ TopicsMove /\ FaultsMove
  BY <1>0, <1>2, InventoryMovesEffect DEF InventoryStep, TopicsMove, FaultsMove
<1>3. ASSUME InventoryPublishes PROVE TypeOK' /\ TopicsMove /\ FaultsMove
  BY <1>3, InventoryPublishesEffect DEF InventoryStep, TopicsMove
<1>4. ASSUME InventoryRestarts PROVE TypeOK' /\ TopicsMove /\ FaultsMove
  BY <1>0, <1>4, InventoryRestartsEffect DEF InventoryStep, TopicsMove, FaultsMove
<1> QED
  BY <1>1, <1>2, <1>3, <1>4 DEF InventoryStep

LEMMA StepMoves ==
    ASSUME TypeOK, Next
    PROVE  TypeOK' /\ TopicsMove /\ FaultsMove
BY Steps, OrderStepMoves, PaymentStepMoves, InventoryStepMoves

LEMMA Initially ==
    ASSUME Init
    PROVE  /\ TypeOK
           /\ \A t \in Topics : topics[t] = <<>>
           /\ \A t \in DOMAIN OrderHandled : orderLoop[t].pc = "fetch" /\ orderLoop[t].retry = 0
           /\ \A t \in DOMAIN PaymentHandled : paymentLoop[t].pc = "fetch" /\ paymentLoop[t].retry = 0
           /\ \A t \in DOMAIN InventoryHandled : inventoryLoop[t].pc = "fetch" /\ inventoryLoop[t].retry = 0
           /\ \A o \in Orders : orders[o] = "NONE" /\ payments[o] = <<>> /\ reservations[o] = 0
           /\ requests = {} /\ faults.harmful = 0 /\ ~faults.untold
<1>1. topics = [t \in Topics |-> <<>>] /\ topics \in [Topics -> Seq(OrderService!Messages)]
  BY DEF Init
<1>2. OC!TopicsTyped /\ PC!TopicsTyped /\ IC!TopicsTyped
  BY <1>1, TopicFacts
<1>3. faults = [all |-> 0, harmful |-> 0, untold |-> FALSE]
  BY DEF Init, OrderService!NoFaults
<1>4. FaultsTyped
  <2>1. 0 \in 0..MaxFaults /\ FALSE \in BOOLEAN /\ 0 \in Nat
    OBVIOUS
  <2> QED
    BY <1>3, <2>1, Zenon DEF FaultsTyped
<1>5. OC!ConsumersInit /\ PC!ConsumersInit /\ IC!ConsumersInit
  BY DEF Init, OrderService!Init, PaymentService!Init, InventoryService!Init, OrderService!ConsumersInit,
         PaymentService!ConsumersInit, InventoryService!ConsumersInit, OC!ConsumersInit, PC!ConsumersInit, IC!ConsumersInit,
         OrderService!StartAt, OC!StartAt, PaymentService!StartAt, PC!StartAt, InventoryService!StartAt, IC!StartAt,
         OrderService!Silent, OC!Silent, PaymentService!Silent, PC!Silent, InventoryService!Silent, IC!Silent
<1>6. /\ OC!Typed /\ \A t \in DOMAIN OrderHandled : orderLoop[t].pc = "fetch" /\ orderLoop[t].retry = 0
      /\ PC!Typed /\ \A t \in DOMAIN PaymentHandled : paymentLoop[t].pc = "fetch" /\ paymentLoop[t].retry = 0
      /\ IC!Typed /\ \A t \in DOMAIN InventoryHandled : inventoryLoop[t].pc = "fetch" /\ inventoryLoop[t].retry = 0
  BY <1>2, <1>4, <1>5, FaultRecordsSame, OC!InitTyped, PC!InitTyped, IC!InitTyped
<1>7. /\ orders = [o \in Orders |-> "NONE"] /\ requests = {}
      /\ payments = [o \in Orders |-> <<>>] /\ reservations = [o \in Orders |-> 0]
  BY DEF Init, OrderService!Init, PaymentService!Init, InventoryService!Init
<1>8. StoresTyped
  <2>1. "NONE" \in OrderService!Statuses
    BY DEF OrderService!Statuses
  <2> QED
    BY <1>7, <2>1 DEF StoresTyped
<1> QED
  BY <1>1, <1>3, <1>4, <1>6, <1>7, <1>8, TypesSplit

-----------------------------------------------------------------------------
(* What is published answers what was handled *)

PaymentAnswers == PC!Answers("order-events", "OrderCreated", "payment-events", {"PaymentReserved", "PaymentFailed"})
RollbackAnswers == PC!Answers("inventory-events", "InventoryFailed", "payment-events", {"PaymentRolledBack"})
ReservationAnswers ==
    IC!Answers("payment-events", "PaymentReserved", "inventory-events", {"InventoryReserved", "InventoryFailed"})
OrderSilent == \A t \in DOMAIN OrderHandled : orderLoop[t].pc # "publish"

LEMMA AnswersSplit == AnswersMatch <=> OrderSilent /\ PaymentAnswers /\ RollbackAnswers /\ ReservationAnswers
BY AnswersMatchLoops DEF AnswersMatch, OrderSilent, PaymentAnswers, RollbackAnswers, ReservationAnswers

LEMMA AnswersSplitThen == AnswersMatch' <=> OrderSilent' /\ PaymentAnswers' /\ RollbackAnswers' /\ ReservationAnswers'
<1>1. (AnswersMatch <=> OrderSilent /\ PaymentAnswers /\ RollbackAnswers /\ ReservationAnswers)'
  BY AnswersSplit, PTL
<1> QED
  BY <1>1

LEMMA PaymentAnswersKept ==
    ASSUME TypeOK, AnswersMatch, TopicsMove
    PROVE  /\ paymentLoop'["order-events"] = paymentLoop["order-events"]
              \/ paymentLoop'["order-events"].pc # "publish" => PaymentAnswers'
           /\ paymentLoop'["inventory-events"] = paymentLoop["inventory-events"]
              \/ paymentLoop'["inventory-events"].pc # "publish" => RollbackAnswers'
<1>1. PC!Typed /\ PaymentAnswers /\ RollbackAnswers /\ (topics' = topics \/ \E m \in PC!Outs : PC!Grown(m))
  BY TypesSplit, AnswersSplit DEF TopicsMove, Outs, Grown
<1> QED
  BY <1>1, TopicNames, PC!AnswersKept DEF PaymentAnswers, RollbackAnswers

LEMMA ReservationAnswersKept ==
    ASSUME TypeOK, AnswersMatch, TopicsMove,
           \/ inventoryLoop'["payment-events"] = inventoryLoop["payment-events"]
           \/ inventoryLoop'["payment-events"].pc # "publish"
    PROVE  ReservationAnswers'
<1>1. IC!Typed /\ ReservationAnswers /\ (topics' = topics \/ \E m \in IC!Outs : IC!Grown(m))
  BY TypesSplit, AnswersSplit, GrownSame DEF TopicsMove
<1> QED
  BY <1>1, TopicNames, IC!AnswersKept DEF ReservationAnswers

LEMMA OrderStepAnswers ==
    ASSUME TypeOK, AnswersMatch, OrderStep
    PROVE  AnswersMatch'
<1>1. PaymentAnswers' /\ RollbackAnswers' /\ ReservationAnswers'
  BY OrderStepMoves, PaymentAnswersKept, ReservationAnswersKept DEF OrderStep, PaymentStill, InventoryStill
<1>2. OrderSilent'
  <2>1. OrderSilent
    BY AnswersSplit
  <2>2. ASSUME NEW o \in Orders, CreatesOrder(o) \/ AnnouncesOrder(o) PROVE OrderSilent'
    BY <2>1, <2>2 DEF CreatesOrder, AnnouncesOrder, OrderSilent
  <2>3. ASSUME NEW t \in DOMAIN OrderHandled, orderLoop'[t].pc # "publish", OC!OthersKept(t) PROVE OrderSilent'
    BY <2>1, <2>3 DEF OrderSilent, OC!OthersKept
  <2>4. ASSUME NEW t \in DOMAIN OrderHandled,
               Decides(t) \/ OrderMisses(t) \/ (OC!Moves(t) /\ UNCHANGED <<orders, requests>>)
        PROVE  OrderSilent'
    BY <2>3, <2>4, DecidesEffect, OrderMissesEffect, OrderMovesEffect DEF OrderStep
  <2>5. ASSUME OrderRestarts PROVE OrderSilent'
    BY <2>5, OrderRestartsEffect DEF OrderStep, OrderSilent
  <2> QED
    BY <2>2, <2>4, <2>5 DEF OrderStep
<1> QED
  BY <1>1, <1>2, AnswersSplitThen

LEMMA PaymentStepAnswers ==
    ASSUME TypeOK, AnswersMatch, PaymentStep
    PROVE  AnswersMatch'
<1> DEFINE t1 == "order-events"
           t2 == "inventory-events"
<1>1. TopicsMove /\ PC!Typed
  BY PaymentStepMoves, TypesSplit
<1>2. OrderSilent' /\ ReservationAnswers'
  BY <1>1, ReservationAnswersKept, AnswersSplit DEF OrderSilent, PaymentStep, OrderStill, InventoryStill
<1>3. ASSUME NEW o, Pays(o) PROVE PaymentAnswers' /\ RollbackAnswers'
  <2>1. PICK type \in {"PaymentReserved", "PaymentFailed"} :
            PaymentAnswer(type, o) \in PC!Outs /\ PC!Handle(t1, PaymentAnswer(type, o))
    BY <1>3, PaysEffect DEF PaymentStep, Outs
  <2>2. PC!InHand(t1).type = "OrderCreated" /\ PC!InHand(t1).order = o
    BY <1>3, PaysEffect DEF PaymentStep, Pays
  <2>3. PaymentAnswers'
    BY <1>1, <2>1, <2>2, TopicNames, PC!AnswersHandle DEF PaymentAnswers, PaymentAnswer
  <2>4. paymentLoop'[t2] = paymentLoop[t2]
    BY <1>1, <2>1, TopicNames, PC!HandleStep DEF PC!OthersKept
  <2> QED
    BY <1>1, <2>3, <2>4, PaymentAnswersKept
<1>4. ASSUME NEW o, RollsBack(o) PROVE PaymentAnswers' /\ RollbackAnswers'
  <2> DEFINE m == PaymentAnswer("PaymentRolledBack", o)
  <2>1. m \in PC!Outs /\ PC!Handle(t2, m)
    BY <1>4, RollsBackEffect DEF PaymentStep, Outs, RollsBack
  <2>2. PC!InHand(t2).type = "InventoryFailed" /\ PC!InHand(t2).order = o
    BY <1>4, RollsBackEffect DEF PaymentStep, RollsBack
  <2>3. RollbackAnswers'
    BY <1>1, <2>1, <2>2, TopicNames, PC!AnswersHandle DEF RollbackAnswers, PaymentAnswer
  <2>4. paymentLoop'[t1] = paymentLoop[t1]
    BY <1>1, <2>1, TopicNames, PC!HandleStep DEF PC!OthersKept
  <2> QED
    BY <1>1, <2>3, <2>4, PaymentAnswersKept
<1>5. ASSUME NEW t \in DOMAIN PaymentHandled, paymentLoop'[t].pc # "publish", PC!OthersKept(t)
      PROVE PaymentAnswers' /\ RollbackAnswers'
  BY <1>1, <1>5, TopicNames, PaymentAnswersKept DEF PC!OthersKept
<1>6. ASSUME NEW t \in DOMAIN PaymentHandled,
             PaymentPublishes(t) \/ ((PC!Moves(t) \/ PC!NotFound(t)) /\ payments' = payments)
      PROVE PaymentAnswers' /\ RollbackAnswers'
  BY <1>5, <1>6, PaymentPublishesEffect, PaymentQuietEffect DEF PaymentStep
<1>7. ASSUME PaymentRestarts PROVE PaymentAnswers' /\ RollbackAnswers'
  BY <1>1, <1>7, TopicNames, PaymentRestartsEffect, PaymentAnswersKept DEF PaymentStep
<1>8. PaymentAnswers' /\ RollbackAnswers'
  BY <1>3, <1>4, <1>6, <1>7, TopicNames DEF PaymentStep, PaymentMisses
<1> QED
  BY <1>2, <1>8, AnswersSplitThen

LEMMA InventoryStepAnswers ==
    ASSUME TypeOK, AnswersMatch, InventoryStep
    PROVE  AnswersMatch'
<1> DEFINE t == "payment-events"
<1>1. TopicsMove /\ IC!Typed
  BY InventoryStepMoves, TypesSplit
<1>2. OrderSilent' /\ PaymentAnswers' /\ RollbackAnswers'
  BY <1>1, PaymentAnswersKept, AnswersSplit DEF OrderSilent, InventoryStep, OrderStill, PaymentStill
<1>3. ASSUME NEW o, Reserves(o) PROVE ReservationAnswers'
  <2>1. PICK type \in {"InventoryReserved", "InventoryFailed"} :
            InventoryAnswer(type, o) \in IC!Outs /\ IC!Handle(t, InventoryAnswer(type, o))
    BY <1>3, ReservesEffect, GrownSame DEF InventoryStep
  <2>2. IC!InHand(t).type = "PaymentReserved" /\ IC!InHand(t).order = o
    BY <1>3, ReservesEffect DEF InventoryStep, Reserves
  <2> QED
    BY <1>1, <2>1, <2>2, TopicNames, IC!AnswersHandle DEF ReservationAnswers, InventoryAnswer
<1>4. ASSUME InventoryPublishes \/ (IC!Moves(t) /\ reservations' = reservations) \/ InventoryRestarts
      PROVE ReservationAnswers'
  BY <1>1, <1>4, InventoryPublishesEffect, InventoryMovesEffect, InventoryRestartsEffect, ReservationAnswersKept
     DEF InventoryStep
<1>5. ReservationAnswers'
  BY <1>3, <1>4 DEF InventoryStep
<1> QED
  BY <1>2, <1>5, AnswersSplitThen

LEMMA StepAnswers ==
    ASSUME TypeOK, AnswersMatch, Next
    PROVE  AnswersMatch'
BY Steps, OrderStepAnswers, PaymentStepAnswers, InventoryStepAnswers

-----------------------------------------------------------------------------
(* What is in the topics, and why *)

Grounds == TypeOK /\ IdsAreFresh /\ AnswersMatch

LEMMA StepGrounds ==
    ASSUME Grounds, Next
    PROVE  Grounds' /\ TopicsMove /\ FaultsMove
BY StepMoves, StepAnswers, FreshMove DEF Grounds

LEMMA IdsAgreeThen ==
    \A t, type, o : Ids(t, type, o)' = PC!Ids(t, {type}, o)'
BY DEF Ids, PC!Ids, PC!LogIds

LEMMA IdsStay ==
    ASSUME Grounds, NEW m \in Outs, topics' = topics \/ Grown(m), NEW t \in Topics, NEW type, NEW o
    PROVE  /\ Ids(t, type, o) \subseteq Ids(t, type, o)'
           /\ Ids(t, type, o)' # Ids(t, type, o) => m.topic = t /\ m.type = type /\ m.order = o
           /\ Grown(m) /\ m.topic = t /\ m.type = type /\ m.order = o => Ids(t, type, o)' # {}
           /\ \E new : Ids(t, type, o)' \in {Ids(t, type, o), Ids(t, type, o) \cup {new}}
<1>1. PC!TopicsTyped /\ PC!IdsAreFresh /\ t \in DOMAIN topics
  BY TopicFacts, FreshSplit DEF Grounds, TypeOK
<1>2. Ids(t, type, o) = PC!Ids(t, {type}, o) /\ Ids(t, type, o)' = PC!Ids(t, {type}, o)'
  BY CountsMatch, IdsAgreeThen
<1>3. CASE topics' = topics
  BY <1>3 DEF Ids, Grown, PC!Grown
<1>4. CASE Grown(m)
  <2> DEFINE new == Len(topics[t]) + 1
  <2>1. Ids(t, type, o)' = IF t = m.topic /\ m.type \in {type} /\ o = m.order
                           THEN Ids(t, type, o) \cup {new} ELSE Ids(t, type, o)
    <3>1. ASSUME NEW types
          PROVE  PC!Ids(t, types, o)' = IF t = m.topic /\ m.type \in types /\ o = m.order
                                        THEN PC!Ids(t, types, o) \cup {new} ELSE PC!Ids(t, types, o)
      BY <1>1, <1>4, PC!GrownIds DEF Grown, Outs
    <3> QED
      BY <1>2, <3>1
  <2>2. Ids(t, type, o)' \in {Ids(t, type, o), Ids(t, type, o) \cup {new}}
    BY <2>1
  <2>3. \E n : Ids(t, type, o)' \in {Ids(t, type, o), Ids(t, type, o) \cup {n}}
    BY <2>2
  <2> QED
    BY <2>1, <2>3
<1> QED
  BY <1>3, <1>4

LEMMA IdsGrow ==
    ASSUME Grounds, TopicsMove, NEW t \in Topics, NEW type, NEW o
    PROVE  Ids(t, type, o) \subseteq Ids(t, type, o)'
<1>1. CASE topics' = topics
  BY <1>1 DEF Ids
<1>2. CASE \E m \in Outs : Grown(m)
  BY <1>2, IdsStay
<1> QED
  BY <1>1, <1>2 DEF TopicsMove

LEMMA InTopic ==
    ASSUME Grounds, NEW t \in Topics, NEW i \in DOMAIN topics[t], NEW type, NEW o
    PROVE  topics[t][i].id \in Ids(t, type, o) <=> topics[t][i].type = type /\ topics[t][i].order = o
BY DEF Grounds, TypeOK, IdsAreFresh, Ids

\* No id is that of two kinds of messages.
LEMMA KindsApart ==
    ASSUME Grounds, NEW t \in Topics, NEW a, NEW b, a # b, NEW o, NEW p
    PROVE  Ids(t, a, o) \cap Ids(t, b, p) = {}
BY DEF Grounds, IdsAreFresh, Ids

LEMMA ResultsFinite ==
    ASSUME Grounds, NEW o
    PROVE  /\ \A t \in Topics : \A type : IsFiniteSet(Ids(t, type, o))
           /\ IsFiniteSet(PaymentResults(o)) /\ IsFiniteSet(InventoryResults(o))
<1>1. PC!TopicsTyped /\ PC!IdsAreFresh /\ DOMAIN topics = Topics
  BY TopicFacts, FreshSplit DEF Grounds, TypeOK
<1>2. ASSUME NEW t \in Topics, NEW type PROVE IsFiniteSet(Ids(t, type, o))
  <2>1. PC!IsFiniteSet(PC!Ids(t, {type}, o))
    BY <1>1, PC!IdsFinite
  <2> QED
    BY <2>1, CountsMatch, SizesSame
<1> QED
  BY <1>2, TopicNames, FS_Union DEF PaymentResults, InventoryResults

\* The reason for a message about an order.
Cause(m) ==
    \/ m.topic = "order-events" /\ m.type = "OrderCreated" /\ AnnouncesOrder(m.order) /\ OrderStep
    \/ m.topic = "payment-events" /\ m.type \in {"PaymentReserved", "PaymentFailed"} /\ Created(m.order) # {}
    \/ /\ m.topic = "payment-events" /\ m.type = "PaymentRolledBack"
       /\ Ids("inventory-events", "InventoryFailed", m.order) # {}
    \/ /\ m.topic = "inventory-events" /\ m.type \in {"InventoryReserved", "InventoryFailed"}
       /\ Ids("payment-events", "PaymentReserved", m.order) # {}

LEMMA PaymentCauses ==
    ASSUME Grounds, NEW t \in DOMAIN PaymentHandled, paymentLoop[t].pc = "publish"
    PROVE  Cause(paymentLoop[t].out)
<1> DEFINE m == paymentLoop[t].out
<1>1. /\ PC!Typed /\ t \in Topics /\ PC!InHand(t) = topics[t][PC!At(t)] /\ PC!At(t) \in DOMAIN topics[t]
  BY TypesSplit, TopicNames, PC!HandFacts DEF Grounds, PC!InHand
<1>2. CASE t = "order-events"
  <2>1. m.topic = "payment-events" /\ m.type \in {"PaymentReserved", "PaymentFailed"}
        /\ PC!InHand(t).type = "OrderCreated" /\ PC!InHand(t).order = m.order
    BY <1>2, AnswersSplit DEF Grounds, PaymentAnswers, PC!Answers
  <2>2. PC!InHand(t).id \in Created(m.order)
    BY <1>1, <1>2, <2>1, InTopic DEF Created
  <2> QED
    BY <2>1, <2>2 DEF Cause
<1>3. CASE t = "inventory-events"
  <2>1. m.topic = "payment-events" /\ m.type = "PaymentRolledBack"
        /\ PC!InHand(t).type = "InventoryFailed" /\ PC!InHand(t).order = m.order
    BY <1>3, AnswersSplit DEF Grounds, RollbackAnswers, PC!Answers
  <2>2. PC!InHand(t).id \in Ids("inventory-events", "InventoryFailed", m.order)
    BY <1>1, <1>3, <2>1, InTopic
  <2> QED
    BY <2>1, <2>2 DEF Cause
<1> QED
  BY <1>2, <1>3, TopicNames

LEMMA InventoryCauses ==
    ASSUME Grounds, inventoryLoop["payment-events"].pc = "publish"
    PROVE  Cause(inventoryLoop["payment-events"].out)
<1> DEFINE t == "payment-events"
           m == inventoryLoop[t].out
<1>1. /\ IC!Typed /\ t \in Topics /\ IC!InHand(t) = topics[t][IC!At(t)] /\ IC!At(t) \in DOMAIN topics[t]
  BY TypesSplit, TopicNames, IC!HandFacts DEF Grounds, IC!InHand
<1>2. m.topic = "inventory-events" /\ m.type \in {"InventoryReserved", "InventoryFailed"}
      /\ IC!InHand(t).type = "PaymentReserved" /\ IC!InHand(t).order = m.order
  BY AnswersSplit DEF Grounds, ReservationAnswers, IC!Answers
<1>3. IC!InHand(t).id \in Ids("payment-events", "PaymentReserved", m.order)
  BY <1>1, <1>2, InTopic
<1> QED
  BY <1>2, <1>3 DEF Cause

\* Nothing is published without a reason, and each service publishes to its own topic.
LEMMA OrderStepCauses ==
    ASSUME Grounds, OrderStep
    PROVE  topics' = topics \/ \E m \in Outs : Grown(m) /\ Cause(m) /\ m.topic = "order-events"
<1>1. ASSUME NEW o \in Orders, AnnouncesOrder(o)
      PROVE  topics' = topics \/ \E m \in Outs : Grown(m) /\ Cause(m) /\ m.topic = "order-events"
  BY <1>1, AnnouncesEffect DEF Grounds, OrderStep, Cause, Announcement
<1>2. ASSUME NEW o \in Orders, CreatesOrder(o) PROVE topics' = topics
  BY <1>2 DEF CreatesOrder
<1>3. ASSUME NEW t \in DOMAIN OrderHandled,
             Decides(t) \/ OrderMisses(t) \/ (OC!Moves(t) /\ UNCHANGED <<orders, requests>>)
      PROVE  topics' = topics
  BY <1>3, DecidesEffect, OrderMissesEffect, OrderMovesEffect DEF Grounds, OrderStep
<1>4. ASSUME OrderRestarts PROVE topics' = topics
  BY <1>4, OrderRestartsEffect DEF Grounds, OrderStep
<1> QED
  BY <1>1, <1>2, <1>3, <1>4 DEF OrderStep

LEMMA PaymentStepCauses ==
    ASSUME Grounds, PaymentStep
    PROVE  topics' = topics \/ \E m \in Outs : Grown(m) /\ Cause(m) /\ m.topic = "payment-events"
<1>1. ASSUME NEW t \in DOMAIN PaymentHandled, PaymentPublishes(t)
      PROVE  topics' = topics \/ \E m \in Outs : Grown(m) /\ Cause(m) /\ m.topic = "payment-events"
  <2>1. /\ paymentLoop[t].pc = "publish" /\ paymentLoop[t].out \in Outs
        /\ topics' = topics \/ Grown(paymentLoop[t].out)
    BY <1>1, PaymentPublishesEffect DEF Grounds, PaymentStep
  <2>2. paymentLoop[t].out.topic = "payment-events"
    BY <2>1, TopicNames, AnswersSplit DEF Grounds, PaymentAnswers, RollbackAnswers, PC!Answers
  <2> QED
    BY <2>1, <2>2, PaymentCauses
<1>2. ASSUME NEW o, Pays(o) \/ RollsBack(o) PROVE topics' = topics
  BY <1>2, PaysEffect, RollsBackEffect DEF Grounds, PaymentStep
<1>3. ASSUME NEW t \in DOMAIN PaymentHandled, PC!Moves(t) \/ PC!NotFound(t), payments' = payments
      PROVE  topics' = topics
  BY <1>3, PaymentQuietEffect DEF Grounds, PaymentStep
<1>4. ASSUME PaymentRestarts PROVE topics' = topics
  BY <1>4, PaymentRestartsEffect DEF Grounds, PaymentStep
<1> QED
  BY <1>1, <1>2, <1>3, <1>4, TopicNames DEF PaymentStep, PaymentMisses

LEMMA InventoryStepCauses ==
    ASSUME Grounds, InventoryStep
    PROVE  topics' = topics \/ \E m \in Outs : Grown(m) /\ Cause(m) /\ m.topic = "inventory-events"
<1>1. ASSUME InventoryPublishes
      PROVE  topics' = topics \/ \E m \in Outs : Grown(m) /\ Cause(m) /\ m.topic = "inventory-events"
  <2> DEFINE l == inventoryLoop["payment-events"]
  <2>1. l.pc = "publish" /\ l.out \in Outs /\ (topics' = topics \/ Grown(l.out))
    BY <1>1, InventoryPublishesEffect DEF Grounds, InventoryStep
  <2>2. l.out.topic = "inventory-events"
    BY <2>1, AnswersSplit DEF Grounds, ReservationAnswers, IC!Answers
  <2> QED
    BY <2>1, <2>2, InventoryCauses
<1>2. ASSUME NEW o, Reserves(o) PROVE topics' = topics
  BY <1>2, ReservesEffect DEF Grounds, InventoryStep
<1>3. ASSUME \/ IC!Moves("payment-events") /\ reservations' = reservations
             \/ InventoryRestarts
      PROVE  topics' = topics
  BY <1>3, InventoryMovesEffect, InventoryRestartsEffect DEF Grounds, InventoryStep
<1> QED
  BY <1>1, <1>2, <1>3 DEF InventoryStep

LEMMA StepCauses ==
    ASSUME Grounds, Next
    PROVE  topics' = topics \/ \E m \in Outs : Grown(m) /\ Cause(m)
BY Steps, OrderStepCauses, PaymentStepCauses, InventoryStepCauses

\* What order-service decides has a message for its reason.
Confirms(o, t) ==
    /\ t = "inventory-events"
    /\ orders'[o] = "CONFIRMED"
    /\ OC!InHand(t).id \in Ids("inventory-events", "InventoryReserved", o)

Cancels(o, t) ==
    /\ t = "payment-events"
    /\ orders'[o] = "CANCELLED"
    /\ OC!InHand(t).id \in Ids("payment-events", "PaymentFailed", o) \cup RolledBack(o)

LEMMA OrderHears ==
    ASSUME Grounds, NEW t \in DOMAIN OrderHandled, OC!Handles(t)
    PROVE  LET m == OC!InHand(t)
           IN  /\ m.order \in Orders
               /\ \/ t = "inventory-events" /\ m.type = "InventoryReserved"
                     /\ m.id \in Ids("inventory-events", "InventoryReserved", m.order)
                  \/ /\ t = "payment-events" /\ m.type \in {"PaymentFailed", "PaymentRolledBack"}
                     /\ m.id \in Ids("payment-events", "PaymentFailed", m.order) \cup RolledBack(m.order)
<1> DEFINE m == OC!InHand(t)
<1>1. OC!Typed /\ t \in Topics
  BY TypesSplit, TopicNames DEF Grounds
<1>2. m = topics[t][OC!At(t)] /\ OC!At(t) \in DOMAIN topics[t] /\ m \in OC!Messages
  BY <1>1, OC!HandFacts DEF OC!InHand, OC!Handles
<1>3. m.order \in Orders
  BY <1>2 DEF OC!Messages
<1>4. m.type \in OrderHandled[t]
  BY DEF OC!Handles
<1>5. CASE t = "inventory-events"
  <2>1. m.type = "InventoryReserved"
    BY <1>4, <1>5 DEF OrderHandled
  <2>2. m.id \in Ids("inventory-events", "InventoryReserved", m.order)
    BY <1>1, <1>2, <1>5, <2>1, InTopic
  <2> QED
    BY <1>3, <1>5, <2>1, <2>2
<1>6. CASE t = "payment-events"
  <2>1. m.type \in {"PaymentFailed", "PaymentRolledBack"}
    BY <1>4, <1>6 DEF OrderHandled
  <2>2. m.id \in Ids("payment-events", m.type, m.order)
    BY <1>1, <1>2, <1>6, InTopic
  <2> QED
    BY <1>3, <1>6, <2>1, <2>2 DEF RolledBack
<1> QED
  BY <1>5, <1>6, TopicNames

LEMMA DecidesCause ==
    ASSUME Grounds, NEW t \in DOMAIN OrderHandled, Decides(t)
    PROVE  LET o == OC!InHand(t).order
           IN  /\ o \in Orders /\ orders[o] \in {"PENDING", "CONFIRMED", "CANCELLED"}
               /\ Confirms(o, t) \/ Cancels(o, t)
               /\ OC!Id(t) \notin orderSeen
               /\ \A p \in Orders \ {o} : orders'[p] = orders[p]
<1> DEFINE m == OC!InHand(t)
<1>1. orders \in [Orders -> OrderService!Statuses]
  BY TypesSplit DEF Grounds, StoresTyped
<1>2. OC!Handles(t) /\ OC!Id(t) \notin orderSeen
  BY DEF Decides, OC!Digest, OC!Begin
<1>3. /\ m.order \in Orders
      /\ \/ t = "inventory-events" /\ m.type = "InventoryReserved"
            /\ m.id \in Ids("inventory-events", "InventoryReserved", m.order)
         \/ /\ t = "payment-events" /\ m.type \in {"PaymentFailed", "PaymentRolledBack"}
            /\ m.id \in Ids("payment-events", "PaymentFailed", m.order) \cup RolledBack(m.order)
  BY <1>2, OrderHears
<1>4. orders[m.order] \in {"PENDING", "CONFIRMED", "CANCELLED"}
  BY DEF Decides, OrderService!Known
<1>5. /\ orders'[m.order] = OrderService!StatusAfter(m.type)
      /\ \A p \in Orders \ {m.order} : orders'[p] = orders[p]
  BY <1>1, <1>3 DEF Decides
<1>6. Confirms(m.order, t) \/ Cancels(m.order, t)
  BY <1>3, <1>5 DEF Confirms, Cancels, OrderService!StatusAfter
<1> QED
  BY <1>2, <1>3, <1>4, <1>5, <1>6

\* What a step may make of an order in the store of order-service.
LEMMA OrderChanges ==
    ASSUME Grounds, Next, NEW o \in Orders
    PROVE  \/ orders'[o] = orders[o] /\ (o \in requests' => o \in requests)
           \/ orders[o] = "NONE" /\ orders'[o] = "PENDING" /\ topics' = topics
           \/ /\ \E t \in DOMAIN OrderHandled : Decides(t) /\ (Confirms(o, t) \/ Cancels(o, t))
              /\ orders[o] \in {"PENDING", "CONFIRMED", "CANCELLED"}
              /\ requests' = requests /\ topics' = topics
           \/ /\ orders'[o] = IF orders[o] = "NONE" THEN "NONE" ELSE "LOST"
              /\ requests' = {} /\ topics' = topics /\ faults'.harmful > 0
<1>1. orders \in [Orders -> OrderService!Statuses]
  BY TypesSplit DEF Grounds, StoresTyped
<1>2. CASE OrderStep
  <2>1. ASSUME NEW p \in Orders, AnnouncesOrder(p)
        PROVE  orders'[o] = orders[o] /\ (o \in requests' => o \in requests)
    BY <2>1 DEF AnnouncesOrder
  <2>2. ASSUME NEW p \in Orders, CreatesOrder(p)
        PROVE  \/ orders'[o] = orders[o] /\ (o \in requests' => o \in requests)
               \/ orders[o] = "NONE" /\ orders'[o] = "PENDING" /\ topics' = topics
    BY <1>1, <2>2 DEF CreatesOrder
  <2>3. ASSUME NEW t \in DOMAIN OrderHandled, Decides(t)
        PROVE  \/ orders'[o] = orders[o] /\ (o \in requests' => o \in requests)
               \/ /\ Confirms(o, t) \/ Cancels(o, t)
                  /\ orders[o] \in {"PENDING", "CONFIRMED", "CANCELLED"}
                  /\ requests' = requests /\ topics' = topics
    BY <1>2, <2>3, DecidesCause, DecidesEffect DEF Grounds, OrderStep, Decides
  <2>4. ASSUME NEW t \in DOMAIN OrderHandled,
               OrderMisses(t) \/ (OC!Moves(t) /\ UNCHANGED <<orders, requests>>)
        PROVE  orders'[o] = orders[o] /\ (o \in requests' => o \in requests)
    BY <2>4 DEF OrderMisses
  <2>5. ASSUME OrderRestarts
        PROVE  /\ orders'[o] = IF orders[o] = "NONE" THEN "NONE" ELSE "LOST"
               /\ requests' = {} /\ topics' = topics /\ faults'.harmful > 0
    <3>1. faults.harmful \in Nat
      BY TypesSplit DEF Grounds, FaultsTyped
    <3> QED
      BY <1>2, <2>5, <3>1, OrderRestartsEffect DEF Grounds, OrderStep, OrderRestarts
  <2> QED
    BY <1>2, <2>1, <2>2, <2>3, <2>4, <2>5 DEF OrderStep
<1>3. CASE PaymentStep \/ InventoryStep
  BY <1>3 DEF PaymentStep, InventoryStep, OrderStill
<1> QED
  BY <1>2, <1>3, Steps

LEMMA StepCaused ==
    ASSUME Grounds, Caused, Next
    PROVE  Caused'
<1> SUFFICES ASSUME NEW o \in Orders
             PROVE  /\ orders'[o] = "NONE" \/ o \in requests' => Created(o)' = {}
                    /\ orders'[o] = "NONE" => o \notin requests'
                    /\ \A i, j \in Created(o)' : i = j
                    /\ PaymentResults(o)' # {} => Created(o)' # {}
                    /\ InventoryResults(o)' # {} => Ids("payment-events", "PaymentReserved", o)' # {}
                    /\ RolledBack(o)' # {} => Ids("inventory-events", "InventoryFailed", o)' # {}
                    /\ orders'[o] = "CONFIRMED" => Ids("inventory-events", "InventoryReserved", o)' # {}
                    /\ orders'[o] = "CANCELLED" =>
                           (Ids("payment-events", "PaymentFailed", o) \cup RolledBack(o))' # {}
  BY DEF Caused
<1> DEFINE C == Created(o)
           PR == Ids("payment-events", "PaymentReserved", o)
           PF == Ids("payment-events", "PaymentFailed", o)
           RB == Ids("payment-events", "PaymentRolledBack", o)
           IR == Ids("inventory-events", "InventoryReserved", o)
           IF_ == Ids("inventory-events", "InventoryFailed", o)
<1>1. TopicsMove
  BY StepGrounds
<1>2. C \subseteq C' /\ PR \subseteq PR' /\ PF \subseteq PF' /\ RB \subseteq RB' /\ IR \subseteq IR' /\ IF_ \subseteq IF_'
  BY <1>1, TopicNames, IdsGrow DEF Created
<1>3. /\ C' # C => /\ o \in requests /\ o \notin requests' /\ orders' = orders
                   /\ \E new : C' = C \cup {new}
      /\ PR' # PR \/ PF' # PF => C # {}
      /\ RB' # RB => IF_ # {}
      /\ IR' # IR \/ IF_' # IF_ => PR # {}
  <2>1. CASE topics' = topics
    BY <2>1 DEF Created, Ids
  <2>2. CASE \E m \in Outs : Grown(m) /\ Cause(m)
    <3>1. PICK m \in Outs : Grown(m) /\ Cause(m)
      BY <2>2
    <3>2. C' # C => m.topic = "order-events" /\ m.type = "OrderCreated" /\ m.order = o /\ \E new : C' = C \cup {new}
      <4>1. /\ C' # C => m.topic = "order-events" /\ m.type = "OrderCreated" /\ m.order = o
            /\ \E new : C' \in {C, C \cup {new}}
        <5> HIDE DEF C
        <5>1. C = Ids("order-events", "OrderCreated", o) /\ C' = Ids("order-events", "OrderCreated", o)'
          BY DEF C, Created
        <5> QED
          BY <3>1, <5>1, TopicNames, IdsStay
      <4> HIDE DEF C
      <4> QED
        BY <4>1
    <3>3. ASSUME C' # C
          PROVE  o \in requests /\ o \notin requests' /\ orders' = orders
      BY <3>1, <3>2, <3>3 DEF Cause, AnnouncesOrder
    <3>4. ASSUME PR' # PR \/ PF' # PF PROVE C # {}
      <4>1. m.topic = "payment-events" /\ m.type \in {"PaymentReserved", "PaymentFailed"} /\ m.order = o
        BY <3>1, <3>4, TopicNames, IdsStay
      <4> QED
        BY <3>1, <4>1 DEF Cause
    <3>5. ASSUME RB' # RB PROVE IF_ # {}
      <4>1. m.topic = "payment-events" /\ m.type = "PaymentRolledBack" /\ m.order = o
        BY <3>1, <3>5, TopicNames, IdsStay
      <4> QED
        BY <3>1, <4>1 DEF Cause
    <3>6. ASSUME IR' # IR \/ IF_' # IF_ PROVE PR # {}
      <4>1. m.topic = "inventory-events" /\ m.type \in {"InventoryReserved", "InventoryFailed"} /\ m.order = o
        BY <3>1, <3>6, TopicNames, IdsStay
      <4> QED
        BY <3>1, <4>1 DEF Cause
    <3> QED
      BY <3>2, <3>3, <3>4, <3>5, <3>6
  <2> QED
    BY <2>1, <2>2, StepCauses
<1>4. /\ orders[o] = "NONE" \/ o \in requests => C = {}
      /\ orders[o] = "NONE" => o \notin requests
      /\ \A i, j \in C : i = j
      /\ PR \cup PF # {} => C # {}
      /\ IR \cup IF_ # {} => PR # {}
      /\ RB # {} => IF_ # {}
      /\ orders[o] = "CONFIRMED" => IR # {}
      /\ orders[o] = "CANCELLED" => PF \cup RB # {}
  BY DEF Caused, PaymentResults, InventoryResults, RolledBack
<1>5. /\ PaymentResults(o)' = PR' \cup PF' /\ InventoryResults(o)' = IR' \cup IF_' /\ RolledBack(o)' = RB'
      /\ RolledBack(o) = RB
  BY DEF PaymentResults, InventoryResults, RolledBack
<1>6. topics' = topics => C' = C
  BY DEF Created, Ids
<1>7. /\ orders'[o] = "NONE" \/ o \in requests' => C' = {}
      /\ orders'[o] = "NONE" => o \notin requests'
      /\ \A i, j \in C' : i = j
      /\ orders'[o] = "CONFIRMED" => IR' # {}
      /\ orders'[o] = "CANCELLED" => PF' \cup RB' # {}
  <2> HIDE DEF C, PR, PF, RB, IR, IF_
  <2>1. CASE orders'[o] = orders[o] /\ (o \in requests' => o \in requests)
    BY <1>2, <1>3, <1>4, <2>1
  <2>2. CASE orders[o] = "NONE" /\ orders'[o] = "PENDING" /\ topics' = topics
    BY <1>4, <1>6, <2>2
  <2>3. CASE /\ \E t \in DOMAIN OrderHandled : Decides(t) /\ (Confirms(o, t) \/ Cancels(o, t))
             /\ orders[o] \in {"PENDING", "CONFIRMED", "CANCELLED"}
             /\ requests' = requests /\ topics' = topics
    <3>1. \/ orders'[o] = "CONFIRMED" /\ IR # {}
          \/ orders'[o] = "CANCELLED" /\ PF \cup RB # {}
      BY <1>5, <2>3 DEF Confirms, Cancels, IR, PF, RB
    <3> QED
      BY <1>2, <1>4, <1>6, <2>3, <3>1
  <2>4. CASE /\ orders'[o] = IF orders[o] = "NONE" THEN "NONE" ELSE "LOST"
             /\ requests' = {} /\ topics' = topics /\ faults'.harmful > 0
    BY <1>4, <1>6, <2>4
  <2> QED
    BY <2>1, <2>2, <2>3, <2>4, OrderChanges
<1> HIDE DEF PR, PF, RB, IR, IF_
<1>8. /\ PaymentResults(o)' # {} => C' # {}
      /\ InventoryResults(o)' # {} => PR' # {}
      /\ RolledBack(o)' # {} => IF_' # {}
  BY <1>2, <1>3, <1>4, <1>5
<1> QED
  BY <1>5, <1>7, <1>8 DEF PR, PF, RB, IR, IF_

-----------------------------------------------------------------------------
(* How often a step is repeated *)

PaymentBalance(o) ==
    PC!Balanced("order-events", "OrderCreated", "payment-events", {"PaymentReserved", "PaymentFailed"}, o)
RollbackBalance(o) ==
    PC!Balanced("inventory-events", "InventoryFailed", "payment-events", {"PaymentRolledBack"}, o)
ReservationBalance(o) ==
    IC!Balanced("payment-events", "PaymentReserved", "inventory-events", {"InventoryReserved", "InventoryFailed"}, o)

LEMMA PaymentsBalancedElsewhere ==
    ASSUME Grounds, PaymentStill, FaultsMove, NEW o,
           topics' = topics \/ \E m \in Outs : Grown(m) /\ m.topic # "payment-events"
    PROVE  PaymentBalance(o) /\ RollbackBalance(o)
<1>1. PC!Typed /\ PC!IdsAreFresh /\ "payment-events" \in DOMAIN topics /\ faults' \in PC!FaultRecords
  BY TypesSplit, FreshSplit, TopicNames, FaultRecordsSame DEF Grounds, FaultsMove
<1>2. topics' = topics \/ \E m \in PC!Outs : PC!Grown(m) /\ m.topic # "payment-events"
  BY DEF Outs, Grown
<1> QED
  BY <1>1, <1>2, TopicNames, PC!ElsewhereBalanced
     DEF PaymentBalance, RollbackBalance, PC!Apart, PaymentStill, FaultsMove

LEMMA ReservationsBalancedElsewhere ==
    ASSUME Grounds, InventoryStill, FaultsMove, NEW o,
           topics' = topics \/ \E m \in Outs : Grown(m) /\ m.topic # "inventory-events"
    PROVE  ReservationBalance(o)
<1>1. IC!Typed /\ IC!IdsAreFresh /\ "inventory-events" \in DOMAIN topics /\ faults' \in IC!FaultRecords
  BY TypesSplit, FreshSplit, TopicNames, FaultRecordsSame DEF Grounds, FaultsMove
<1>2. topics' = topics \/ \E m \in IC!Outs : IC!Grown(m) /\ m.topic # "inventory-events"
  BY GrownSame
<1> QED
  BY <1>1, <1>2, TopicNames, IC!ElsewhereBalanced DEF ReservationBalance, IC!Apart, InventoryStill, FaultsMove

LEMMA PaymentsBalanced ==
    ASSUME Grounds, PaymentStep, ~PaymentRestarts, NEW o
    PROVE  PaymentBalance(o) /\ RollbackBalance(o)
<1> DEFINE t1 == "order-events"
           t2 == "inventory-events"
<1>1. /\ PC!Typed /\ PC!IdsAreFresh /\ "payment-events" \in DOMAIN topics
      /\ t1 \in DOMAIN PaymentHandled /\ t2 \in DOMAIN PaymentHandled
  BY TypesSplit, FreshSplit, TopicNames DEF Grounds
<1>2. ASSUME NEW p, Pays(p) PROVE PaymentBalance(o) /\ RollbackBalance(o)
  <2>1. PICK type \in {"PaymentReserved", "PaymentFailed"} :
            PaymentAnswer(type, p) \in PC!Outs /\ PC!Handle(t1, PaymentAnswer(type, p))
    BY <1>2, PaysEffect DEF Grounds, PaymentStep, Outs
  <2>2. PC!InHand(t1).type = "OrderCreated" /\ PC!InHand(t1).order = PaymentAnswer(type, p).order
    BY <1>2, PaysEffect DEF Grounds, PaymentStep, Pays, PaymentAnswer
  <2> QED
    BY <1>1, <2>1, <2>2, PC!HandleBalanced DEF PaymentBalance, RollbackBalance
<1>3. ASSUME NEW p, RollsBack(p) PROVE PaymentBalance(o) /\ RollbackBalance(o)
  <2> DEFINE m == PaymentAnswer("PaymentRolledBack", p)
  <2>1. m \in PC!Outs /\ PC!Handle(t2, m)
    BY <1>3, RollsBackEffect DEF Grounds, PaymentStep, Outs, RollsBack
  <2>2. PC!InHand(t2).type = "InventoryFailed" /\ PC!InHand(t2).order = m.order
    BY <1>3, RollsBackEffect DEF Grounds, PaymentStep, RollsBack, PaymentAnswer
  <2> HIDE DEF m
  <2> QED
    BY <1>1, <2>1, <2>2, PC!HandleBalanced DEF PaymentBalance, RollbackBalance
<1>4. ASSUME NEW t \in DOMAIN PaymentHandled, PC!Moves(t) \/ PC!NotFound(t)
      PROVE  PaymentBalance(o) /\ RollbackBalance(o)
  BY <1>1, <1>4, PC!MovesBalanced DEF PaymentBalance, RollbackBalance
<1>5. ASSUME NEW t \in DOMAIN PaymentHandled, PaymentPublishes(t) PROVE PaymentBalance(o) /\ RollbackBalance(o)
  <2>1. PaymentAnswers /\ RollbackAnswers /\ paymentLoop[t].pc = "publish"
    BY <1>5, AnswersSplit, PaymentPublishesEffect DEF Grounds, PaymentStep
  <2>2. /\ t # t1 => PC!Apart(paymentLoop[t].out, "payment-events", {"PaymentReserved", "PaymentFailed"})
        /\ t # t2 => PC!Apart(paymentLoop[t].out, "payment-events", {"PaymentRolledBack"})
    BY <2>1, TopicNames DEF PaymentAnswers, RollbackAnswers, PC!Answers, PC!Apart
  <2> QED
    BY <1>1, <1>5, <2>1, <2>2, PC!PublishBalanced, PC!PublishErrorBalanced
       DEF PaymentPublishes, PaymentBalance, RollbackBalance, PaymentAnswers, RollbackAnswers
<1> QED
  BY <1>1, <1>2, <1>3, <1>4, <1>5 DEF PaymentStep, PaymentMisses

LEMMA ReservationsBalanced ==
    ASSUME Grounds, InventoryStep, ~InventoryRestarts, NEW o
    PROVE  ReservationBalance(o)
<1> DEFINE t == "payment-events"
<1>1. IC!Typed /\ IC!IdsAreFresh /\ "inventory-events" \in DOMAIN topics /\ t \in DOMAIN InventoryHandled
  BY TypesSplit, FreshSplit, TopicNames DEF Grounds
<1>2. ASSUME NEW p, Reserves(p) PROVE ReservationBalance(o)
  <2>1. PICK type \in {"InventoryReserved", "InventoryFailed"} :
            InventoryAnswer(type, p) \in IC!Outs /\ IC!Handle(t, InventoryAnswer(type, p))
    BY <1>2, ReservesEffect, GrownSame DEF Grounds, InventoryStep
  <2>2. IC!InHand(t).type = "PaymentReserved" /\ IC!InHand(t).order = InventoryAnswer(type, p).order
    BY <1>2, ReservesEffect DEF Grounds, InventoryStep, Reserves, InventoryAnswer
  <2> QED
    BY <1>1, <2>1, <2>2, IC!HandleBalanced DEF ReservationBalance
<1>3. ASSUME IC!Moves(t) PROVE ReservationBalance(o)
  BY <1>1, <1>3, IC!MovesBalanced DEF ReservationBalance
<1>4. ASSUME InventoryPublishes PROVE ReservationBalance(o)
  <2>1. ReservationAnswers
    BY AnswersSplit DEF Grounds
  <2> QED
    BY <1>1, <1>4, <2>1, IC!PublishBalanced, IC!PublishErrorBalanced
       DEF InventoryPublishes, ReservationBalance, ReservationAnswers
<1> QED
  BY <1>2, <1>3, <1>4 DEF InventoryStep

\* Every step but a restart of the service concerned balances its repetitions.
LEMMA StepBalanced ==
    ASSUME Grounds, Next, NEW o
    PROVE  /\ (PaymentBalance(o) /\ RollbackBalance(o)) \/ PaymentRestarts
           /\ ReservationBalance(o) \/ InventoryRestarts
<1>1. FaultsMove
  BY StepGrounds
<1>2. CASE OrderStep
  BY <1>1, <1>2, OrderStepCauses, PaymentsBalancedElsewhere, ReservationsBalancedElsewhere DEF OrderStep
<1>3. CASE PaymentStep
  BY <1>1, <1>3, PaymentStepCauses, PaymentsBalanced, ReservationsBalancedElsewhere DEF PaymentStep
<1>4. CASE InventoryStep
  BY <1>1, <1>4, InventoryStepCauses, PaymentsBalancedElsewhere, ReservationsBalanced DEF InventoryStep
<1> QED
  BY <1>2, <1>3, <1>4, Steps

\* A step's answers and marks, counted with the terms of its service.
LEMMA CountsSame ==
    \A o : /\ Cardinality(PaymentResults(o)) + Sending(paymentLoop["order-events"], o)
                  = PC!Answered("order-events", "payment-events", {"PaymentReserved", "PaymentFailed"}, o)
           /\ Cardinality(RolledBack(o)) + Sending(paymentLoop["inventory-events"], o)
                  = PC!Answered("inventory-events", "payment-events", {"PaymentRolledBack"}, o)
           /\ Cardinality(InventoryResults(o)) + Sending(inventoryLoop["payment-events"], o)
                  = IC!Answered("payment-events", "inventory-events", {"InventoryReserved", "InventoryFailed"}, o)
           /\ Cardinality(CreatedMarked(o)) = PC!Asked("order-events", "OrderCreated", o)
           /\ Cardinality(FailedMarked(o)) = PC!Asked("inventory-events", "InventoryFailed", o)
           /\ Cardinality(ReservedMarked(o)) = IC!Asked("payment-events", "PaymentReserved", o)
BY CountsMatch, MarksMatch, SendingMatches, SizesSame DEF PC!Answered, IC!Answered, PC!Asked, IC!Asked

Paid1(o) == PC!Answered("order-events", "payment-events", {"PaymentReserved", "PaymentFailed"}, o)
Asked1(o) == PC!Asked("order-events", "OrderCreated", o)
Reserved2(o) == IC!Answered("payment-events", "inventory-events", {"InventoryReserved", "InventoryFailed"}, o)
Asked2(o) == IC!Asked("payment-events", "PaymentReserved", o)
Undone3(o) == PC!Answered("inventory-events", "payment-events", {"PaymentRolledBack"}, o)
Asked3(o) == PC!Asked("inventory-events", "InventoryFailed", o)

\* The invariant in those terms.
Counted(o) ==
    LET h == faults.harmful
    IN  /\ Paid1(o) <= Asked1(o) + h
        /\ 2 * Reserved2(o) <= 2 * Asked2(o) + h * (1 + h)
        /\ 6 * Undone3(o) <= 6 * Asked3(o) + h * (1 + h) * (2 + h)

LEMMA CountedSame == RepetitionsCounted <=> \A o \in Orders : Counted(o)
BY CountsSame DEF RepetitionsCounted, Counted, Paid1, Asked1, Reserved2, Asked2, Undone3, Asked3

LEMMA CountedSameThen == RepetitionsCounted' <=> \A o \in Orders : Counted(o)'
<1>1. (RepetitionsCounted <=> \A o \in Orders : Counted(o))'
  BY CountedSame, PTL
<1> QED
  BY <1>1

LEMMA CountsNatural ==
    ASSUME Grounds, NEW o
    PROVE  /\ faults.harmful \in Nat
           /\ Paid1(o) \in Nat /\ Asked1(o) \in Nat /\ Reserved2(o) \in Nat /\ Asked2(o) \in Nat
           /\ Undone3(o) \in Nat /\ Asked3(o) \in Nat
           /\ Cardinality(PaymentResults(o)) \in Nat /\ Cardinality(PaymentResults(o)) <= Paid1(o)
           /\ Cardinality(InventoryResults(o)) \in Nat /\ Cardinality(InventoryResults(o)) <= Reserved2(o)
           /\ Cardinality(RolledBack(o)) \in Nat /\ Cardinality(RolledBack(o)) <= Undone3(o)
           /\ Asked1(o) <= Cardinality(Created(o)) /\ Cardinality(Created(o)) \in Nat
           /\ Asked2(o) <= Cardinality(PaymentResults(o))
           /\ Asked3(o) <= Cardinality(InventoryResults(o))
<1>1. /\ PC!Typed /\ PC!IdsAreFresh /\ IC!Typed /\ IC!IdsAreFresh
      /\ "payment-events" \in DOMAIN topics /\ "inventory-events" \in DOMAIN topics /\ "order-events" \in Topics
  BY TypesSplit, FreshSplit, TopicNames DEF Grounds
<1>2. /\ faults.harmful \in Nat
      /\ Paid1(o) \in Nat /\ Asked1(o) \in Nat /\ Reserved2(o) \in Nat /\ Asked2(o) \in Nat
      /\ Undone3(o) \in Nat /\ Asked3(o) \in Nat
  BY <1>1, TopicNames, PC!CountsAreNatural, IC!CountsAreNatural
     DEF Paid1, Asked1, Reserved2, Asked2, Undone3, Asked3
<1>3. /\ IsFiniteSet(PaymentResults(o)) /\ IsFiniteSet(InventoryResults(o)) /\ IsFiniteSet(RolledBack(o))
      /\ IsFiniteSet(Created(o))
  BY <1>1, ResultsFinite, TopicNames DEF RolledBack, Created
<1>4. /\ Cardinality(PaymentResults(o)) \in Nat /\ Cardinality(InventoryResults(o)) \in Nat
      /\ Cardinality(RolledBack(o)) \in Nat /\ Cardinality(Created(o)) \in Nat
  BY <1>3, FS_CardinalityType
<1>5. /\ Cardinality(PaymentResults(o)) <= Paid1(o) /\ Cardinality(InventoryResults(o)) <= Reserved2(o)
      /\ Cardinality(RolledBack(o)) <= Undone3(o)
  BY <1>4, CountsSame DEF Paid1, Reserved2, Undone3, Sending
<1>6. /\ Asked1(o) = Cardinality(CreatedMarked(o)) /\ CreatedMarked(o) \subseteq Created(o)
      /\ Asked2(o) = Cardinality(ReservedMarked(o)) /\ ReservedMarked(o) \subseteq PaymentResults(o)
      /\ Asked3(o) = Cardinality(FailedMarked(o)) /\ FailedMarked(o) \subseteq InventoryResults(o)
  BY CountsSame DEF Asked1, Asked2, Asked3, CreatedMarked, ReservedMarked, FailedMarked, Marked, PaymentResults, InventoryResults
<1>7. /\ Asked1(o) <= Cardinality(Created(o)) /\ Asked2(o) <= Cardinality(PaymentResults(o))
      /\ Asked3(o) <= Cardinality(InventoryResults(o))
  BY <1>3, <1>6, FS_Subset
<1> QED
  BY <1>2, <1>4, <1>5, <1>7

LEMMA CountsNaturalThen ==
    \A o : Grounds' => /\ Paid1(o)' \in Nat /\ Asked1(o)' \in Nat /\ Reserved2(o)' \in Nat /\ Asked2(o)' \in Nat
                       /\ Undone3(o)' \in Nat /\ Asked3(o)' \in Nat
<1>1. \A o : Grounds => /\ Paid1(o) \in Nat /\ Asked1(o) \in Nat /\ Reserved2(o) \in Nat /\ Asked2(o) \in Nat
                        /\ Undone3(o) \in Nat /\ Asked3(o) \in Nat
  BY CountsNatural
<1>2. (\A o : Grounds => /\ Paid1(o) \in Nat /\ Asked1(o) \in Nat /\ Reserved2(o) \in Nat /\ Asked2(o) \in Nat
                         /\ Undone3(o) \in Nat /\ Asked3(o) \in Nat)'
  BY <1>1, PTL
<1> QED
  BY <1>2

LEMMA ProductsGrow ==
    ASSUME NEW a \in Nat, NEW b \in Nat, NEW c \in Nat, NEW d \in Nat, a <= c, b <= d
    PROVE  a * b \in Nat /\ a * b <= c * d
<1>1. a * b <= a * d
  <2>1. a * (d - b) >= 0
    OBVIOUS
  <2> QED
    BY <2>1
<1>2. a * d <= c * d
  <2>1. (c - a) * d >= 0
    OBVIOUS
  <2> QED
    BY <2>1
<1> QED
  BY <1>1, <1>2

\* What one more fault adds to the bounds.
LEMMA Allowances ==
    ASSUME NEW h \in Nat, NEW g \in Nat, g >= h
    PROVE  /\ h * (1 + h) \in Nat /\ h * (1 + h) * (2 + h) \in Nat
           /\ g * (1 + g) >= h * (1 + h)
           /\ g * (1 + g) * (2 + g) >= h * (1 + h) * (2 + h)
           /\ g = h + 1 => /\ g * (1 + g) = h * (1 + h) + 2 * (1 + h)
                           /\ g * (1 + g) * (2 + g) = h * (1 + h) * (2 + h) + 3 * ((1 + h) * (2 + h))
                           /\ (1 + h) * (2 + h) = h * (1 + h) + 2 * (1 + h)
<1>1. h * (1 + h) \in Nat /\ g * (1 + g) \in Nat /\ g * (1 + g) >= h * (1 + h)
  BY ProductsGrow
<1>2. h * (1 + h) * (2 + h) \in Nat /\ g * (1 + g) * (2 + g) >= h * (1 + h) * (2 + h)
  <2> DEFINE p == h * (1 + h)
             q == g * (1 + g)
  <2>1. p \in Nat /\ q \in Nat /\ p <= q
    BY <1>1
  <2> HIDE DEF p, q
  <2>2. p * (2 + h) \in Nat /\ p * (2 + h) <= q * (2 + g)
    BY <2>1, ProductsGrow
  <2> QED
    BY <2>2 DEF p, q
<1>3. ASSUME g = h + 1
      PROVE  /\ g * (1 + g) = h * (1 + h) + 2 * (1 + h)
             /\ g * (1 + g) * (2 + g) = h * (1 + h) * (2 + h) + 3 * ((1 + h) * (2 + h))
             /\ (1 + h) * (2 + h) = h * (1 + h) + 2 * (1 + h)
  BY <1>3
<1> QED
  BY <1>1, <1>2, <1>3

\* Repetitions as counted are repetitions as bounded.
LEMMA CountedBounded ==
    ASSUME Grounds, Caused, RepetitionsCounted, NEW o \in Orders
    PROVE  LET h == faults.harmful
           IN  /\ Cardinality(Created(o)) <= 1
               /\ Cardinality(PaymentResults(o)) <= 1 + h
               /\ 2 * Cardinality(InventoryResults(o)) <= (1 + h) * (2 + h)
               /\ 6 * Cardinality(RolledBack(o)) <= (1 + h) * (2 + h) * (3 + h)
<1> DEFINE h == faults.harmful
           p == h * (1 + h)
           q == (1 + h) * (2 + h)
           r == h * (1 + h) * (2 + h)
           s == (1 + h) * (2 + h) * (3 + h)
<1>1. Cardinality(Created(o)) <= 1
  <2>1. \A i, j \in Created(o) : i = j
    BY DEF Caused
  <2>2. CASE Created(o) = {}
    BY <2>2, FS_EmptySet
  <2>3. CASE Created(o) # {}
    <3>1. PICK i \in Created(o) : TRUE
      BY <2>3
    <3>2. Created(o) = {i}
      BY <2>1, <3>1
    <3>3. Cardinality({i}) = 1
      BY FS_Singleton, Zenon
    <3> QED
      BY <3>2, <3>3
  <2> QED
    BY <2>2, <2>3
<1>2. Counted(o)
  BY CountedSame
<1>3. Cardinality(PaymentResults(o)) <= 1 + h
  BY <1>1, <1>2, CountsNatural DEF Counted
<1>4. h \in Nat /\ p \in Nat /\ r \in Nat /\ q = p + 2 * (1 + h) /\ s = r + 3 * q
  <2>1. h \in Nat /\ h + 1 \in Nat /\ h + 1 >= h
    BY CountsNatural
  <2>2. (h + 1) * (1 + (h + 1)) = p + 2 * (1 + h) /\ (h + 1) * (1 + (h + 1)) * (2 + (h + 1)) = r + 3 * q
        /\ p \in Nat /\ r \in Nat
    BY <2>1, Allowances
  <2>3. (h + 1) * (1 + (h + 1)) = q /\ (h + 1) * (1 + (h + 1)) * (2 + (h + 1)) = s
    <3>1. h + 1 = 1 + h /\ 1 + (h + 1) = 2 + h /\ 2 + (h + 1) = 3 + h
      BY <2>1
    <3> QED
      BY <3>1
  <2> QED
    BY <2>1, <2>2, <2>3
<1>5. /\ 2 * Reserved2(o) <= 2 * Asked2(o) + p
      /\ 6 * Undone3(o) <= 6 * Asked3(o) + r
  BY <1>2 DEF Counted
<1> HIDE DEF p, q, r, s, h
<1>6. 2 * Cardinality(InventoryResults(o)) <= q
  BY <1>3, <1>4, <1>5, CountsNatural
<1>7. 6 * Cardinality(RolledBack(o)) <= s
  BY <1>4, <1>5, <1>6, CountsNatural
<1> QED
  BY <1>1, <1>3, <1>6, <1>7 DEF p, q, r, s, h

LEMMA StepCounted ==
    ASSUME Grounds, Caused, RepetitionsCounted, Next
    PROVE  RepetitionsCounted'
<1> SUFFICES ASSUME NEW o \in Orders PROVE Counted(o)'
  BY CountedSameThen
<1> DEFINE h == faults.harmful
           g == faults'.harmful
           p == h * (1 + h)
           r == h * (1 + h) * (2 + h)
           q == (1 + h) * (2 + h)
           p2 == g * (1 + g)
           r2 == g * (1 + g) * (2 + g)
<1>1. Grounds' /\ h \in Nat /\ g \in Nat /\ g >= h
  <2>1. Grounds' /\ FaultsMove
    BY StepGrounds
  <2> QED
    BY <2>1, CountsNatural DEF FaultsMove, FaultsTyped
<1>2. /\ p \in Nat /\ r \in Nat /\ p2 >= p /\ r2 >= r
      /\ g = h + 1 => p2 = p + 2 * (1 + h) /\ r2 = r + 3 * q /\ q = p + 2 * (1 + h)
      /\ p2 \in Nat /\ r2 \in Nat
  <2> HIDE DEF h, g
  <2>1. /\ p \in Nat /\ r \in Nat /\ p2 >= p /\ r2 >= r
        /\ g = h + 1 => p2 = p + 2 * (1 + h) /\ r2 = r + 3 * q /\ q = p + 2 * (1 + h)
    BY <1>1, Allowances
  <2>2. p2 \in Nat /\ r2 \in Nat
    <3>1. g >= g
      BY <1>1
    <3> QED
      BY <1>1, <3>1, Allowances
  <2> QED
    BY <2>1, <2>2
<1>3. Paid1(o) <= Asked1(o) + h /\ 2 * Reserved2(o) <= 2 * Asked2(o) + p /\ 6 * Undone3(o) <= 6 * Asked3(o) + r
  BY CountedSame DEF Counted
<1>4. /\ Cardinality(Created(o)) <= 1 /\ Cardinality(PaymentResults(o)) <= 1 + h
      /\ 2 * Cardinality(InventoryResults(o)) <= q
  BY CountedBounded
<1>5. /\ Paid1(o) \in Nat /\ Asked1(o) \in Nat /\ Reserved2(o) \in Nat /\ Asked2(o) \in Nat
      /\ Undone3(o) \in Nat /\ Asked3(o) \in Nat
      /\ Asked1(o) <= 1 /\ Asked2(o) <= 1 + h /\ 2 * Asked3(o) <= q
  <2>1. /\ Cardinality(Created(o)) \in Nat /\ Cardinality(PaymentResults(o)) \in Nat
        /\ Cardinality(InventoryResults(o)) \in Nat /\ Asked1(o) <= Cardinality(Created(o))
        /\ Asked2(o) <= Cardinality(PaymentResults(o)) /\ Asked3(o) <= Cardinality(InventoryResults(o))
        /\ Paid1(o) \in Nat /\ Asked1(o) \in Nat /\ Reserved2(o) \in Nat /\ Asked2(o) \in Nat
        /\ Undone3(o) \in Nat /\ Asked3(o) \in Nat
    BY CountsNatural
  <2>2. q \in Nat
    BY <1>1, ProductsGrow
  <2> HIDE DEF q, h
  <2> QED
    BY <1>1, <1>4, <2>1, <2>2
<1>6. /\ Paid1(o)' \in Nat /\ Asked1(o)' \in Nat /\ Reserved2(o)' \in Nat /\ Asked2(o)' \in Nat
      /\ Undone3(o)' \in Nat /\ Asked3(o)' \in Nat
  BY <1>1, CountsNaturalThen
<1> HIDE DEF h, g, p, q, r, p2, r2
<1>7. Paid1(o)' <= Asked1(o)' + g /\ 6 * Undone3(o)' <= 6 * Asked3(o)' + r2
  <2>1. CASE PaymentRestarts
    <3>1. /\ Paid1(o)' <= Paid1(o) /\ Asked1(o)' = 0 /\ Undone3(o)' <= Undone3(o) /\ Asked3(o)' = 0
          /\ g = h + 1
      <4>1. PC!Typed /\ PC!IdsAreFresh /\ "payment-events" \in DOMAIN topics /\ PC!Restart
        BY <2>1, TypesSplit, FreshSplit, TopicNames DEF Grounds, PaymentRestarts
      <4> QED
        BY <4>1, TopicNames, PC!RestartUnbalanced DEF Paid1, Asked1, Undone3, Asked3, h, g
    <3> QED
      BY <1>1, <1>2, <1>3, <1>5, <1>6, <3>1
  <2>2. CASE PaymentBalance(o) /\ RollbackBalance(o)
    <3>1. /\ \/ Paid1(o)' + Asked1(o) <= Paid1(o) + Asked1(o)' /\ g >= h
             \/ Paid1(o)' + Asked1(o) <= Paid1(o) + Asked1(o)' + 1 /\ g = h + 1
          /\ \/ Undone3(o)' + Asked3(o) <= Undone3(o) + Asked3(o)' /\ g >= h
             \/ Undone3(o)' + Asked3(o) <= Undone3(o) + Asked3(o)' + 1 /\ g = h + 1
      BY <2>2 DEF PaymentBalance, RollbackBalance, PC!Balanced, Paid1, Asked1, Undone3, Asked3, h, g
    <3> QED
      BY <1>1, <1>2, <1>3, <1>5, <1>6, <3>1
  <2> QED
    BY <2>1, <2>2, StepBalanced
<1>8. 2 * Reserved2(o)' <= 2 * Asked2(o)' + p2
  <2>1. CASE InventoryRestarts
    <3>1. Reserved2(o)' <= Reserved2(o) /\ Asked2(o)' = 0 /\ g = h + 1
      <4>1. IC!Typed /\ IC!IdsAreFresh /\ "inventory-events" \in DOMAIN topics /\ IC!Restart
        BY <2>1, TypesSplit, FreshSplit, TopicNames DEF Grounds, InventoryRestarts
      <4> QED
        BY <4>1, TopicNames, IC!RestartUnbalanced DEF Reserved2, Asked2, h, g
    <3> QED
      BY <1>1, <1>2, <1>3, <1>5, <1>6, <3>1
  <2>2. CASE ReservationBalance(o)
    <3>1. \/ Reserved2(o)' + Asked2(o) <= Reserved2(o) + Asked2(o)' /\ g >= h
          \/ Reserved2(o)' + Asked2(o) <= Reserved2(o) + Asked2(o)' + 1 /\ g = h + 1
      BY <2>2 DEF ReservationBalance, IC!Balanced, Reserved2, Asked2, h, g
    <3> QED
      BY <1>1, <1>2, <1>3, <1>5, <1>6, <3>1
  <2> QED
    BY <2>1, <2>2, StepBalanced
<1> QED
  BY <1>7, <1>8 DEF Counted, h, g, p, p2, r2

-----------------------------------------------------------------------------
(* What failed attempts leave in the stores *)

Charged(o) == Len(payments[o]) + PC!Spare("order-events", o)
Stocked(o) == reservations[o] + IC!Spare("payment-events", o)

\* There is more in store only for more marks, or for a fault.
PaymentsCovered(o) ==
    \/ Charged(o)' + Asked1(o) <= Charged(o) + Asked1(o)' /\ faults'.harmful >= faults.harmful
    \/ /\ Charged(o)' + Asked1(o) <= Charged(o) + Asked1(o)' + MaxRetries + 1
       /\ faults'.harmful = faults.harmful + 1

ReservationsCovered(o) ==
    \/ Stocked(o)' + Asked2(o) <= Stocked(o) + Asked2(o)' /\ faults'.harmful >= faults.harmful
    \/ /\ Stocked(o)' + Asked2(o) <= Stocked(o) + Asked2(o)' + MaxRetries + 1
       /\ faults'.harmful = faults.harmful + 1

LEMMA StoresNatural ==
    ASSUME Grounds, NEW o \in Orders
    PROVE  /\ Len(payments[o]) \in Nat /\ reservations[o] \in Nat
           /\ PC!Spare("order-events", o) \in Nat /\ IC!Spare("payment-events", o) \in Nat
<1>1. PC!Typed /\ IC!Typed /\ StoresTyped /\ MaxRetries \in Nat
  BY TypesSplit DEF Grounds
<1>2. PC!Spare("order-events", o) \in 0..MaxRetries /\ IC!Spare("payment-events", o) \in 0..MaxRetries
  BY <1>1, TopicNames, PC!SpareTyped, IC!SpareTyped
<1>3. payments[o] \in Seq(PaymentService!PaymentStatuses) /\ reservations[o] \in Nat
  BY <1>1 DEF StoresTyped
<1> QED
  BY <1>1, <1>2, <1>3

LEMMA StoresNaturalThen ==
    \A o \in Orders :
        Grounds' => /\ Len(payments'[o]) \in Nat /\ reservations'[o] \in Nat
                    /\ PC!Spare("order-events", o)' \in Nat /\ IC!Spare("payment-events", o)' \in Nat
<1>1. \A o \in Orders :
        Grounds => /\ Len(payments[o]) \in Nat /\ reservations[o] \in Nat
                   /\ PC!Spare("order-events", o) \in Nat /\ IC!Spare("payment-events", o) \in Nat
  BY StoresNatural
<1>2. (\A o \in Orders :
        Grounds => /\ Len(payments[o]) \in Nat /\ reservations[o] \in Nat
                   /\ PC!Spare("order-events", o) \in Nat /\ IC!Spare("payment-events", o) \in Nat)'
  BY <1>1, PTL
<1> QED
  BY <1>2

\* Where nothing is marked or unmarked, marks stay.
LEMMA MarksStay ==
    ASSUME Grounds, Next, NEW o
    PROVE  /\ (\A id : <<"order-events", id>> \in paymentSeen => <<"order-events", id>> \in paymentSeen')
                  => Asked1(o) <= Asked1(o)'
           /\ (\A id : <<"payment-events", id>> \in inventorySeen => <<"payment-events", id>> \in inventorySeen')
                  => Asked2(o) <= Asked2(o)'
<1>1. Grounds' /\ TopicsMove
  BY StepGrounds
<1>2. PC!Typed /\ PC!Typed' /\ PC!IdsAreFresh /\ IC!Typed /\ IC!Typed' /\ IC!IdsAreFresh
  BY <1>1, TypesSplit, TypesSplitThen, FreshSplit, TopicNames DEF Grounds
<1>3. /\ topics' = topics \/ \E m \in PC!Outs : PC!Grown(m)
      /\ topics' = topics \/ \E m \in IC!Outs : IC!Grown(m)
  BY <1>1, GrownSame DEF TopicsMove, Outs, Grown
<1> QED
  BY <1>2, <1>3, TopicNames, PC!MarksKept, IC!MarksKept DEF Asked1, Asked2

LEMMA PaymentsStayCovered ==
    ASSUME Grounds, Next, NEW o \in Orders
    PROVE  PaymentsCovered(o) \/ PaymentRestarts
<1> DEFINE t == "order-events"
           n == Len(payments[o])
           sp == PC!Spare(t, o)
<1>1. /\ Grounds' /\ TopicsMove /\ FaultsMove /\ PC!Typed /\ PC!IdsAreFresh
      /\ (topics' = topics \/ \E m \in PC!Outs : PC!Grown(m)) /\ t \in DOMAIN PaymentHandled
  BY StepGrounds, TypesSplit, FreshSplit, TopicNames DEF Grounds, TopicsMove, Outs, Grown
<1>2. /\ n \in Nat /\ n' \in Nat /\ sp \in Nat /\ sp' \in Nat /\ Asked1(o) \in Nat /\ Asked1(o)' \in Nat
      /\ MaxRetries \in Nat /\ faults'.harmful >= faults.harmful
  BY <1>1, StoresNatural, StoresNaturalThen, CountsNatural, CountsNaturalThen DEF FaultsMove
<1> HIDE DEF n, sp
<1>3. ASSUME n' <= n, sp' <= sp, Asked1(o) <= Asked1(o)' PROVE PaymentsCovered(o)
  BY <1>2, <1>3 DEF PaymentsCovered, Charged, n, sp
<1>4. CASE OrderStep \/ InventoryStep
  <2>1. PaymentStill
    BY <1>4 DEF OrderStep, InventoryStep
  <2>2. sp' = sp
    BY <1>1, <2>1, PC!SpareKept DEF sp, PaymentStill
  <2> QED
    BY <1>2, <1>3, <2>1, <2>2, MarksStay DEF PaymentStill, n
<1>5. CASE PaymentStep
  <2>1. ASSUME NEW p, Pays(p) PROVE PaymentsCovered(o)
    <3>1. PICK type \in {"PaymentReserved", "PaymentFailed"} :
              PaymentAnswer(type, p) \in PC!Outs /\ PC!Handle(t, PaymentAnswer(type, p))
      BY <1>5, <2>1, PaysEffect DEF Grounds, PaymentStep, Outs
    <3>2. /\ PC!InHand(t).type = "OrderCreated" /\ PC!InHand(t).order = p /\ p \in Orders
          /\ PC!Handles(t) /\ PC!Id(t) \notin paymentSeen
          /\ topics' = topics /\ paymentSeen' = paymentSeen \cup {PC!Id(t)}
      BY <1>1, <1>5, <2>1, <3>1, PaysEffect, PC!HandleStep DEF Grounds, PaymentStep, Pays, PC!Handle, PC!Begin
    <3>3. sp' = sp
      BY <1>1, <3>1, PC!SpareHandle DEF sp
    <3>4. payments \in [Orders -> Seq(PaymentService!PaymentStatuses)]
      BY TypesSplit DEF Grounds, StoresTyped
    <3>5. CASE p = o
      <4>1. Asked1(o)' = Asked1(o) + 1
        BY <1>1, <3>2, <3>5, PC!MarkTaken DEF Asked1
      <4>2. n' <= n + 1
        BY <1>2, <2>1, <3>2, <3>4, <3>5 DEF Pays, n
      <4> QED
        BY <1>2, <3>3, <4>1, <4>2 DEF PaymentsCovered, Charged, n, sp
    <3>6. CASE p # o
      <4>1. n' = n
        BY <2>1, <3>4, <3>6 DEF Pays, n
      <4> QED
        BY <1>2, <1>3, <3>2, <3>3, <4>1, MarksStay
    <3> QED
      BY <3>5, <3>6
  <2>2. ASSUME NEW p, RollsBack(p) PROVE PaymentsCovered(o)
    <3> DEFINE m == PaymentAnswer("PaymentRolledBack", p)
    <3>1. m \in PC!Outs /\ PC!Handle("inventory-events", m)
      BY <1>5, <2>2, RollsBackEffect DEF Grounds, PaymentStep, Outs, RollsBack
    <3>2. paymentSeen' = paymentSeen \cup {PC!Id("inventory-events")}
      BY <1>1, <3>1, TopicNames, PC!HandleStep
    <3>3. sp' = sp
      BY <1>1, <3>1, TopicNames, PC!SpareHandle DEF sp
    <3>4. n' = n
      BY <1>5, <2>2, RollsBackEffect DEF Grounds, PaymentStep, n
    <3> QED
      BY <1>2, <1>3, <3>2, <3>3, <3>4, MarksStay
  <2>3. ASSUME NEW u \in DOMAIN PaymentHandled, PC!Moves(u), payments' = payments PROVE PaymentsCovered(o)
    <3>1. paymentSeen' = paymentSeen
      BY <1>1, <2>3, PC!MovesStep
    <3>2. sp' <= sp
      BY <1>1, <2>3, PC!SpareMoves DEF sp
    <3> QED
      BY <1>2, <1>3, <2>3, <3>1, <3>2, MarksStay DEF n
  <2>4. ASSUME PaymentMisses PROVE PaymentsCovered(o)
    <3>1. paymentSeen' = paymentSeen /\ paymentLoop'[t] = paymentLoop[t]
      BY <1>1, <2>4, TopicNames, PC!NotFoundStep DEF PaymentMisses, PC!OthersKept
    <3>2. sp' = sp
      BY <1>1, <3>1, PC!SpareKept DEF sp
    <3> QED
      BY <1>2, <1>3, <2>4, <3>1, <3>2, MarksStay DEF n, PaymentMisses
  <2>5. ASSUME NEW u \in DOMAIN PaymentHandled, PaymentPublishes(u) PROVE PaymentsCovered(o)
    <3>1. n' = n
      BY <2>5 DEF PaymentPublishes, n
    <3>2. CASE PC!Publish(u) \/ PC!PublishTwice(u)
      <4>1. paymentSeen' = paymentSeen
        BY <1>1, <3>2, PC!PublishStep
      <4>2. sp' <= sp
        BY <1>1, <3>2, PC!SparePublish DEF sp
      <4> QED
        BY <1>2, <1>3, <3>1, <4>1, <4>2, MarksStay
    <3>3. CASE PC!PublishError(u)
      <4>1. \/ /\ sp' + Asked1(o) <= sp + Asked1(o)'
               /\ faults'.harmful >= faults.harmful
            \/ /\ sp' + Asked1(o) <= sp + Asked1(o)' + MaxRetries + 1
               /\ faults'.harmful = faults.harmful + 1
        BY <1>1, <3>3, PC!SparePublishError DEF sp, Asked1
      <4>2. \/ (n' + sp') + Asked1(o) <= (n + sp) + Asked1(o)' /\ faults'.harmful >= faults.harmful
            \/ /\ (n' + sp') + Asked1(o) <= (n + sp) + Asked1(o)' + MaxRetries + 1
               /\ faults'.harmful = faults.harmful + 1
        BY <1>2, <3>1, <4>1
      <4> QED
        BY <4>2 DEF PaymentsCovered, Charged, n, sp
    <3> QED
      BY <2>5, <3>2, <3>3 DEF PaymentPublishes
  <2> QED
    BY <1>5, <2>1, <2>2, <2>3, <2>4, <2>5 DEF PaymentStep
<1> QED
  BY <1>4, <1>5, Steps

LEMMA ReservationsStayCovered ==
    ASSUME Grounds, Next, NEW o \in Orders
    PROVE  ReservationsCovered(o) \/ InventoryRestarts
<1> DEFINE t == "payment-events"
           n == reservations[o]
           sp == IC!Spare(t, o)
<1>1. /\ Grounds' /\ TopicsMove /\ FaultsMove /\ IC!Typed /\ IC!IdsAreFresh
      /\ (topics' = topics \/ \E m \in IC!Outs : IC!Grown(m)) /\ t \in DOMAIN InventoryHandled
  BY StepGrounds, TypesSplit, FreshSplit, TopicNames, GrownSame DEF Grounds, TopicsMove
<1>2. /\ n \in Nat /\ n' \in Nat /\ sp \in Nat /\ sp' \in Nat /\ Asked2(o) \in Nat /\ Asked2(o)' \in Nat
      /\ MaxRetries \in Nat /\ faults'.harmful >= faults.harmful
  BY <1>1, StoresNatural, StoresNaturalThen, CountsNatural, CountsNaturalThen DEF FaultsMove
<1> HIDE DEF n, sp
<1>3. ASSUME n' <= n, sp' <= sp, Asked2(o) <= Asked2(o)' PROVE ReservationsCovered(o)
  BY <1>2, <1>3 DEF ReservationsCovered, Stocked, n, sp
<1>4. CASE OrderStep \/ PaymentStep
  <2>1. InventoryStill
    BY <1>4 DEF OrderStep, PaymentStep
  <2>2. sp' = sp
    BY <1>1, <2>1, IC!SpareKept DEF sp, InventoryStill
  <2> QED
    BY <1>2, <1>3, <2>1, <2>2, MarksStay DEF InventoryStill, n
<1>5. CASE InventoryStep
  <2>1. ASSUME NEW p, Reserves(p) PROVE ReservationsCovered(o)
    <3>1. PICK type \in {"InventoryReserved", "InventoryFailed"} :
              InventoryAnswer(type, p) \in IC!Outs /\ IC!Handle(t, InventoryAnswer(type, p))
      BY <1>5, <2>1, ReservesEffect, GrownSame DEF Grounds, InventoryStep
    <3>2. /\ IC!InHand(t).type = "PaymentReserved" /\ IC!InHand(t).order = p /\ p \in Orders
          /\ IC!Handles(t) /\ IC!Id(t) \notin inventorySeen
          /\ topics' = topics /\ inventorySeen' = inventorySeen \cup {IC!Id(t)}
      BY <1>1, <1>5, <2>1, <3>1, ReservesEffect, IC!HandleStep DEF Grounds, InventoryStep, Reserves, IC!Handle, IC!Begin
    <3>3. sp' = sp
      BY <1>1, <3>1, IC!SpareHandle DEF sp
    <3>4. reservations \in [Orders -> Nat]
      BY TypesSplit DEF Grounds, StoresTyped
    <3>5. CASE p = o
      <4>1. Asked2(o)' = Asked2(o) + 1
        BY <1>1, <3>2, <3>5, IC!MarkTaken DEF Asked2
      <4>2. n' <= n + 1
        BY <1>2, <2>1, <3>2, <3>4, <3>5 DEF Reserves, n
      <4> QED
        BY <1>2, <3>3, <4>1, <4>2 DEF ReservationsCovered, Stocked, n, sp
    <3>6. CASE p # o
      <4>1. n' = n
        BY <2>1, <3>4, <3>6 DEF Reserves, n
      <4> QED
        BY <1>2, <1>3, <3>2, <3>3, <4>1, MarksStay
    <3> QED
      BY <3>5, <3>6
  <2>2. ASSUME IC!Moves(t), reservations' = reservations PROVE ReservationsCovered(o)
    <3>1. inventorySeen' = inventorySeen
      BY <1>1, <2>2, IC!MovesStep
    <3>2. sp' <= sp
      BY <1>1, <2>2, IC!SpareMoves DEF sp
    <3> QED
      BY <1>2, <1>3, <2>2, <3>1, <3>2, MarksStay DEF n
  <2>3. ASSUME InventoryPublishes PROVE ReservationsCovered(o)
    <3>1. n' = n
      BY <2>3 DEF InventoryPublishes, n
    <3>2. CASE IC!Publish(t) \/ IC!PublishTwice(t)
      <4>1. inventorySeen' = inventorySeen
        BY <1>1, <3>2, IC!PublishStep
      <4>2. sp' <= sp
        BY <1>1, <3>2, IC!SparePublish DEF sp
      <4> QED
        BY <1>2, <1>3, <3>1, <4>1, <4>2, MarksStay
    <3>3. CASE IC!PublishError(t)
      <4>1. \/ /\ sp' + Asked2(o) <= sp + Asked2(o)'
               /\ faults'.harmful >= faults.harmful
            \/ /\ sp' + Asked2(o) <= sp + Asked2(o)' + MaxRetries + 1
               /\ faults'.harmful = faults.harmful + 1
        BY <1>1, <3>3, IC!SparePublishError DEF sp, Asked2
      <4> QED
        BY <1>2, <3>1, <4>1 DEF ReservationsCovered, Stocked, n, sp
    <3> QED
      BY <2>3, <3>2, <3>3 DEF InventoryPublishes
  <2> QED
    BY <1>5, <2>1, <2>2, <2>3 DEF InventoryStep
<1> QED
  BY <1>4, <1>5, Steps

Covered(o) ==
    /\ Charged(o) <= Asked1(o) + (MaxRetries + 1) * faults.harmful
    /\ Stocked(o) <= Asked2(o) + (MaxRetries + 1) * faults.harmful

LEMMA CoveredSame == LeftoversCounted <=> \A o \in Orders : Covered(o)
BY CountsSame, SendingMatches DEF LeftoversCounted, Covered, Charged, Stocked, Asked1, Asked2

LEMMA CoveredSameThen == LeftoversCounted' <=> \A o \in Orders : Covered(o)'
<1>1. (LeftoversCounted <=> \A o \in Orders : Covered(o))'
  BY CoveredSame, PTL
<1> QED
  BY <1>1

LEMMA StepCovered ==
    ASSUME Grounds, LeftoversCounted, Next
    PROVE  LeftoversCounted'
<1> SUFFICES ASSUME NEW o \in Orders PROVE Covered(o)'
  BY CoveredSameThen
<1> DEFINE h == faults.harmful
           g == faults'.harmful
           k == MaxRetries + 1
           a == k * h
           b == k * g
<1>1. Grounds' /\ h \in Nat /\ g \in Nat /\ g >= h /\ k \in Nat
  <2>1. Grounds' /\ FaultsMove
    BY StepGrounds
  <2> QED
    BY <2>1, CountsNatural DEF FaultsMove, FaultsTyped
<1>2. /\ a \in Nat /\ b \in Nat /\ a <= b
      /\ g = h + 1 => b = a + k
  <2> HIDE DEF h, g, k
  <2>1. k <= k
    BY <1>1
  <2>2. a \in Nat /\ b \in Nat /\ a <= b
    BY <1>1, <2>1, ProductsGrow
  <2>3. k * (h + 1) = k * h + k
    BY <1>1
  <2> QED
    BY <2>2, <2>3
<1>3. Charged(o) <= Asked1(o) + a /\ Stocked(o) <= Asked2(o) + a
  BY CoveredSame DEF Covered
<1>4. /\ Charged(o) \in Nat /\ Charged(o)' \in Nat /\ Stocked(o) \in Nat /\ Stocked(o)' \in Nat
      /\ Asked1(o) \in Nat /\ Asked1(o)' \in Nat /\ Asked2(o) \in Nat /\ Asked2(o)' \in Nat
  <2>1. /\ Charged(o) \in Nat /\ Stocked(o) \in Nat
    BY StoresNatural DEF Charged, Stocked
  <2>2. /\ Charged(o)' \in Nat /\ Stocked(o)' \in Nat
    BY <1>1, StoresNaturalThen DEF Charged, Stocked
  <2> QED
    BY <1>1, <2>1, <2>2, CountsNatural, CountsNaturalThen
<1> HIDE DEF h, g, a, b
<1>5. Charged(o)' <= Asked1(o)' + b
  <2>1. CASE PaymentRestarts
    <3>1. /\ payments' = [p \in Orders |-> <<>>] /\ PC!Restart /\ PC!Typed
      BY <2>1, TypesSplit DEF Grounds, PaymentRestarts
    <3>2. paymentLoop'["order-events"].retry = 0
      BY <3>1, TopicNames, PC!RestartStep
    <3>3. Charged(o)' = 0
      BY <3>1, <3>2 DEF Charged, PC!Spare
    <3> QED
      BY <1>2, <1>4, <3>3
  <2>2. CASE PaymentsCovered(o)
    <3>1. \/ Charged(o)' + Asked1(o) <= Charged(o) + Asked1(o)' /\ g >= h
          \/ Charged(o)' + Asked1(o) <= Charged(o) + Asked1(o)' + k /\ g = h + 1
      BY <1>1, <1>4, <2>2 DEF PaymentsCovered, g, h
    <3> QED
      BY <1>1, <1>2, <1>3, <1>4, <3>1
  <2> QED
    BY <2>1, <2>2, PaymentsStayCovered
<1>6. Stocked(o)' <= Asked2(o)' + b
  <2>1. CASE InventoryRestarts
    <3>1. /\ reservations' = [p \in Orders |-> 0] /\ IC!Restart /\ IC!Typed
      BY <2>1, TypesSplit DEF Grounds, InventoryRestarts
    <3>2. inventoryLoop'["payment-events"].retry = 0
      BY <3>1, TopicNames, IC!RestartStep
    <3>3. Stocked(o)' = 0
      BY <3>1, <3>2 DEF Stocked, IC!Spare
    <3> QED
      BY <1>2, <1>4, <3>3
  <2>2. CASE ReservationsCovered(o)
    <3>1. \/ Stocked(o)' + Asked2(o) <= Stocked(o) + Asked2(o)' /\ g >= h
          \/ Stocked(o)' + Asked2(o) <= Stocked(o) + Asked2(o)' + k /\ g = h + 1
      BY <1>1, <1>4, <2>2 DEF ReservationsCovered, g, h
    <3> QED
      BY <1>1, <1>2, <1>3, <1>4, <3>1
  <2> QED
    BY <2>1, <2>2, ReservationsStayCovered
<1> QED
  BY <1>5, <1>6 DEF Covered, b, g

\* What is left over as counted is left over as bounded.
LEMMA CoveredBounded ==
    ASSUME Grounds, Caused, RepetitionsCounted, LeftoversCounted
    PROVE  LeftoversBounded
<1> DEFINE h == faults.harmful
<1> SUFFICES ASSUME NEW o \in Orders
             PROVE  Len(payments[o]) <= 1 + (MaxRetries + 1) * h /\ reservations[o] <= 1 + (MaxRetries + 2) * h
  BY DEF LeftoversBounded
<1>1. Charged(o) <= Asked1(o) + (MaxRetries + 1) * h /\ Stocked(o) <= Asked2(o) + (MaxRetries + 1) * h
  BY CoveredSame DEF Covered
<1>2. h \in Nat /\ MaxRetries + 1 \in Nat
  BY CountsNatural
<1>3. /\ Asked1(o) \in Nat /\ Asked2(o) \in Nat
      /\ Asked1(o) <= 1 /\ Asked2(o) <= 1 + h
  BY <1>2, CountsNatural, CountedBounded
<1>4. /\ (MaxRetries + 1) * h \in Nat
      /\ (MaxRetries + 2) * h = (MaxRetries + 1) * h + h
  <2> HIDE DEF h
  <2>1. 0 \in Nat /\ 0 <= h /\ 0 <= MaxRetries + 1
    BY <1>2
  <2>2. MaxRetries + 1 <= MaxRetries + 1 /\ h <= h
    BY <1>2
  <2>3. (MaxRetries + 1) * h \in Nat
    BY <1>2, <2>2, ProductsGrow
  <2> QED
    BY <1>2, <2>3
<1> DEFINE p == (MaxRetries + 1) * h
<1> HIDE DEF p
<1>5. Len(payments[o]) <= 1 + p /\ reservations[o] <= 1 + h + p
  <2>1. Charged(o) <= Asked1(o) + p /\ Stocked(o) <= Asked2(o) + p /\ p \in Nat
    BY <1>1, <1>4 DEF p
  <2> HIDE DEF h
  <2> QED
    BY <1>2, <1>3, <2>1, StoresNatural DEF Charged, Stocked
<1>6. reservations[o] <= 1 + (MaxRetries + 2) * h
  <2> HIDE DEF h
  <2> QED
    BY <1>2, <1>4, <1>5, StoresNatural DEF p
<1> QED
  BY <1>5, <1>6 DEF p

-----------------------------------------------------------------------------
(* Without harmful faults *)

NoneFails ==
    /\ \A t \in DOMAIN OrderHandled : orderLoop[t].pc # "dead" /\ orderLoop[t].retry = 0
    /\ \A t \in DOMAIN PaymentHandled : paymentLoop[t].pc # "dead" /\ paymentLoop[t].retry = 0
    /\ \A t \in DOMAIN InventoryHandled : inventoryLoop[t].pc # "dead" /\ inventoryLoop[t].retry = 0

PR(o) == Ids("payment-events", "PaymentReserved", o)
PF(o) == Ids("payment-events", "PaymentFailed", o)
RB(o) == Ids("payment-events", "PaymentRolledBack", o)
IR(o) == Ids("inventory-events", "InventoryReserved", o)
NR(o) == Ids("inventory-events", "InventoryFailed", o)

DecisionsMarked(o) ==
    /\ orders[o] # "LOST"
    /\ orders[o] = "CONFIRMED" => Marked(orderSeen, "inventory-events", IR(o)) # {}
    /\ orders[o] = "CANCELLED" => Marked(orderSeen, "payment-events", PF(o) \cup RB(o)) # {}

PaymentInStore(o) ==
    payments[o] = IF RollbackAnnounced(o) THEN <<"ROLLED_BACK">>
                  ELSE IF PaymentAnnounced(o) THEN <<"RESERVED">> ELSE <<>>

ReservationInStore(o) == reservations[o] = IF ReservationAnnounced(o) THEN 1 ELSE 0

LEMMA UndisturbedSplit ==
    Undisturbed <=> /\ ~faults.untold
                    /\ NoneFails
                    /\ \A o \in Orders : DecisionsMarked(o) /\ PaymentInStore(o) /\ ReservationInStore(o)
<1> DEFINE loops == {orderLoop[t] : t \in DOMAIN OrderHandled} \cup {paymentLoop[t] : t \in DOMAIN PaymentHandled}
                        \cup {inventoryLoop[t] : t \in DOMAIN InventoryHandled}
<1>1. NoneFails <=> \A l \in loops : l.pc # "dead" /\ l.retry = 0
  BY DEF NoneFails
<1> HIDE DEF loops
<1>2. Undisturbed <=> /\ ~faults.untold
                      /\ \A l \in loops : l.pc # "dead" /\ l.retry = 0
                      /\ \A o \in Orders : DecisionsMarked(o) /\ PaymentInStore(o) /\ ReservationInStore(o)
  BY DEF Undisturbed, loops, DecisionsMarked, PaymentInStore, ReservationInStore, PR, PF, RB, IR, RolledBack
<1> QED
  BY <1>1, <1>2

LEMMA UndisturbedSplitThen ==
    Undisturbed' <=> /\ ~faults'.untold
                     /\ NoneFails'
                     /\ \A o \in Orders : DecisionsMarked(o)' /\ PaymentInStore(o)' /\ ReservationInStore(o)'
<1>1. (Undisturbed <=> /\ ~faults.untold
                       /\ NoneFails
                       /\ \A o \in Orders : DecisionsMarked(o) /\ PaymentInStore(o) /\ ReservationInStore(o))'
  BY UndisturbedSplit, PTL
<1> QED
  BY <1>1

Quiet == Grounds /\ Caused /\ RepetitionsCounted /\ LeftoversCounted /\ faults.harmful = 0 /\ Undisturbed

LEMMA OnlyOne ==
    ASSUME NEW S, IsFiniteSet(S), Cardinality(S) <= 1, NEW x \in S, NEW y \in S
    PROVE  x = y
<1> SUFFICES ASSUME x # y PROVE FALSE
  OBVIOUS
<1>1. IsFiniteSet({x}) /\ Cardinality({x}) = 1
  BY FS_Singleton, Zenon
<1>2. Cardinality({x} \cup {y}) = 2
  BY <1>1, FS_AddElement
<1>3. Cardinality({x} \cup {y}) <= Cardinality(S) /\ Cardinality(S) \in Nat
  BY FS_Subset, FS_CardinalityType
<1> QED
  BY <1>2, <1>3

\* Each step is executed once at most.
LEMMA DoneOnce ==
    ASSUME Quiet, NEW o \in Orders
    PROVE  /\ \A i, j \in PaymentResults(o) : i = j
           /\ \A i, j \in InventoryResults(o) : i = j
           /\ PaymentResults(o) # {} => Sending(paymentLoop["order-events"], o) = 0
           /\ InventoryResults(o) # {} => Sending(inventoryLoop["payment-events"], o) = 0
           /\ CreatedMarked(o) = {} => PaymentResults(o) = {}
           /\ ReservedMarked(o) = {} => InventoryResults(o) = {}
<1> DEFINE p == Cardinality(PaymentResults(o))
           r == Cardinality(InventoryResults(o))
<1>1. /\ IsFiniteSet(PaymentResults(o)) /\ IsFiniteSet(InventoryResults(o)) /\ p \in Nat /\ r \in Nat
  BY ResultsFinite, CountsNatural DEF Quiet
<1>2. Counted(o) /\ faults.harmful = 0
  BY CountedSame DEF Quiet
<1>3. /\ p + Sending(paymentLoop["order-events"], o) <= Asked1(o)
      /\ r + Sending(inventoryLoop["payment-events"], o) <= Asked2(o)
  <2>1. Paid1(o) <= Asked1(o) + 0 /\ 2 * Reserved2(o) <= 2 * Asked2(o) + 0 * (1 + 0)
    BY <1>2 DEF Counted
  <2>2. Paid1(o) <= Asked1(o) /\ Reserved2(o) <= Asked2(o)
    BY <2>1, CountsNatural DEF Quiet
  <2> QED
    BY <2>2, CountsSame DEF Paid1, Reserved2
<1>4. Asked1(o) \in Nat /\ Asked2(o) \in Nat /\ Asked1(o) <= 1 /\ Asked2(o) <= p
  BY <1>2, CountsNatural, CountedBounded DEF Quiet
<1>5. Sending(paymentLoop["order-events"], o) \in {0, 1} /\ Sending(inventoryLoop["payment-events"], o) \in {0, 1}
  BY DEF Sending
<1>6. /\ CreatedMarked(o) = {} => Asked1(o) = 0
      /\ ReservedMarked(o) = {} => Asked2(o) = 0
  BY CountsSame, FS_EmptySet DEF Asked1, Asked2
<1>7. /\ PaymentResults(o) # {} <=> p > 0
      /\ InventoryResults(o) # {} <=> r > 0
  <2>1. /\ PaymentResults(o) = {} <=> p = 0
        /\ InventoryResults(o) = {} <=> r = 0
    BY <1>1, FS_EmptySet
  <2> QED
    BY <1>1, <2>1
<1> HIDE DEF p, r
<1>8. p <= 1 /\ r <= 1
  BY <1>1, <1>3, <1>4, <1>5
<1>9. (\A i, j \in PaymentResults(o) : i = j) /\ (\A i, j \in InventoryResults(o) : i = j)
  BY <1>1, <1>8, OnlyOne DEF p, r
<1> QED
  BY <1>1, <1>3, <1>4, <1>5, <1>6, <1>7, <1>8, <1>9

\* One outcome excludes the other, and nothing is announced without its cause.
LEMMA OneOutcome ==
    ASSUME Quiet, NEW o \in Orders
    PROVE  /\ PR(o) # {} => PF(o) = {}
           /\ IR(o) # {} => NR(o) = {}
           /\ PF(o) # {} => ~PaymentAnnounced(o)
           /\ NR(o) # {} => ~ReservationAnnounced(o)
           /\ RollbackAnnounced(o) => NR(o) # {}
           /\ ReservationAnnounced(o) => PR(o) # {}
           /\ PaymentAnnounced(o) => Created(o) # {}
           /\ PR(o) # {} => PaymentAnnounced(o)
           /\ RB(o) # {} => RollbackAnnounced(o)
           /\ IR(o) # {} => ReservationAnnounced(o)
           /\ IR(o) \cup NR(o) # {} => PR(o) # {}
           /\ PR(o) \cup PF(o) # {} => Created(o) # {}
<1>1. PaymentResults(o) = PR(o) \cup PF(o) /\ InventoryResults(o) = IR(o) \cup NR(o)
  BY DEF PaymentResults, InventoryResults, PR, PF, IR, NR
<1>2. PR(o) \cap PF(o) = {} /\ IR(o) \cap NR(o) = {}
  BY KindsApart, TopicNames DEF Quiet, PR, PF, IR, NR
<1>3. (PR(o) # {} => PF(o) = {}) /\ (IR(o) # {} => NR(o) = {})
  BY <1>1, <1>2, DoneOnce
<1>4. /\ IR(o) \cup NR(o) # {} => PR(o) # {}
      /\ PR(o) \cup PF(o) # {} => Created(o) # {}
      /\ RB(o) # {} => NR(o) # {}
  BY <1>1 DEF Quiet, Caused, PR, PF, RB, IR, NR, RolledBack
<1>5. /\ paymentLoop["order-events"].pc = "publish" => Cause(paymentLoop["order-events"].out)
      /\ paymentLoop["inventory-events"].pc = "publish" => Cause(paymentLoop["inventory-events"].out)
      /\ inventoryLoop["payment-events"].pc = "publish" => Cause(inventoryLoop["payment-events"].out)
  BY PaymentCauses, InventoryCauses, TopicNames DEF Quiet
<1>6. PF(o) # {} => ~PaymentAnnounced(o)
  BY <1>1, <1>3, DoneOnce DEF PaymentAnnounced, Announced, PR, Sending
<1>7. NR(o) # {} => ~ReservationAnnounced(o)
  BY <1>1, <1>3, DoneOnce DEF ReservationAnnounced, Announced, IR, Sending
<1>8. RollbackAnnounced(o) => NR(o) # {}
  BY <1>4, <1>5 DEF RollbackAnnounced, Announced, RolledBack, RB, NR, Cause
<1>9. ReservationAnnounced(o) => PR(o) # {}
  BY <1>4, <1>5 DEF ReservationAnnounced, Announced, IR, PR, Cause
<1>10. PaymentAnnounced(o) => Created(o) # {}
  BY <1>4, <1>5 DEF PaymentAnnounced, Announced, PR, Cause
<1>11. /\ PR(o) # {} => PaymentAnnounced(o)
       /\ RB(o) # {} => RollbackAnnounced(o)
       /\ IR(o) # {} => ReservationAnnounced(o)
  BY DEF PaymentAnnounced, RollbackAnnounced, ReservationAnnounced, Announced, PR, RB, IR, RolledBack
<1> QED
  BY <1>3, <1>4, <1>6, <1>7, <1>8, <1>9, <1>10, <1>11

LEMMA NothingPaid ==
    ASSUME Quiet, NEW o, Pays(o), PaymentStep
    PROVE  /\ o \in Orders /\ Created(o) # {}
           /\ PR(o) = {} /\ PF(o) = {} /\ RB(o) = {} /\ IR(o) = {} /\ NR(o) = {}
           /\ paymentLoop["order-events"].pc # "publish"
           /\ ~PaymentAnnounced(o) /\ ~RollbackAnnounced(o) /\ payments[o] = <<>>
<1> DEFINE t == "order-events"
<1>1. /\ o \in Orders /\ PC!InHand(t).type = "OrderCreated" /\ PC!InHand(t).order = o
      /\ PC!At(t) \in DOMAIN topics[t] /\ PC!InHand(t) = topics[t][PC!At(t)]
      /\ PC!Id(t) \notin paymentSeen /\ PC!Id(t) = <<t, PC!InHand(t).id>>
      /\ paymentLoop[t].pc # "publish"
  BY PaysEffect DEF Quiet, Grounds, PaymentStep, Pays, PC!InHand, PC!Id, PC!Handle, PC!Begin, PC!Handles, PC!Ready
<1>2. PC!InHand(t).id \in Created(o)
  BY <1>1, InTopic, TopicNames DEF Quiet, Created
<1>3. \A i, j \in Created(o) : i = j
  BY <1>1 DEF Quiet, Caused
<1>4. CreatedMarked(o) = {}
  BY <1>1, <1>2, <1>3 DEF CreatedMarked, Marked
<1>5. PR(o) = {} /\ PF(o) = {}
  BY <1>1, <1>4, DoneOnce DEF PaymentResults, PR, PF
<1>6. IR(o) = {} /\ NR(o) = {} /\ RB(o) = {} /\ ~RollbackAnnounced(o)
  BY <1>1, <1>5, OneOutcome
<1>7. ~PaymentAnnounced(o)
  BY <1>1, <1>5 DEF PaymentAnnounced, Announced, PR
<1>8. PaymentInStore(o)
  BY <1>1, UndisturbedSplit DEF Quiet
<1> QED
  BY <1>1, <1>2, <1>5, <1>6, <1>7, <1>8 DEF PaymentInStore

LEMMA NothingReserved ==
    ASSUME Quiet, NEW o, Reserves(o), InventoryStep
    PROVE  /\ o \in Orders /\ PR(o) # {}
           /\ IR(o) = {} /\ NR(o) = {}
           /\ inventoryLoop["payment-events"].pc # "publish"
           /\ ~ReservationAnnounced(o) /\ reservations[o] = 0
<1> DEFINE t == "payment-events"
<1>1. /\ o \in Orders /\ IC!InHand(t).type = "PaymentReserved" /\ IC!InHand(t).order = o
      /\ IC!At(t) \in DOMAIN topics[t] /\ IC!InHand(t) = topics[t][IC!At(t)]
      /\ IC!Id(t) \notin inventorySeen /\ IC!Id(t) = <<t, IC!InHand(t).id>>
      /\ inventoryLoop[t].pc # "publish"
  BY ReservesEffect DEF Quiet, Grounds, InventoryStep, Reserves, IC!InHand, IC!Id, IC!Handle, IC!Begin, IC!Handles, IC!Ready
<1>2. IC!InHand(t).id \in PR(o)
  BY <1>1, InTopic, TopicNames DEF Quiet, PR
<1>3. \A i, j \in PR(o) : i = j
  BY <1>1, DoneOnce DEF PaymentResults, PR
<1>4. ReservedMarked(o) = {}
  BY <1>1, <1>2, <1>3 DEF ReservedMarked, Marked, PR
<1>5. IR(o) = {} /\ NR(o) = {}
  BY <1>1, <1>4, DoneOnce DEF InventoryResults, IR, NR
<1>6. ~ReservationAnnounced(o)
  BY <1>1, <1>5 DEF ReservationAnnounced, Announced, IR
<1>7. ReservationInStore(o)
  BY <1>1, UndisturbedSplit DEF Quiet
<1> QED
  BY <1>1, <1>2, <1>5, <1>6, <1>7 DEF ReservationInStore

LEMMA PaidBefore ==
    ASSUME Quiet, NEW o \in Orders, NR(o) # {}
    PROVE  /\ PR(o) # {} /\ PaymentAnnounced(o) /\ ~ReservationAnnounced(o)
           /\ payments[o] = IF RollbackAnnounced(o) THEN <<"ROLLED_BACK">> ELSE <<"RESERVED">>
<1>1. PR(o) # {} /\ PaymentAnnounced(o) /\ ~ReservationAnnounced(o)
  BY OneOutcome
<1>2. PaymentInStore(o)
  BY UndisturbedSplit DEF Quiet
<1> QED
  BY <1>1, <1>2 DEF PaymentInStore

LEMMA GivesBack ==
    ASSUME Quiet, NEW t, t = "inventory-events", PC!Handles(t)
    PROVE  LET o == PC!InHand(t).order IN o \in Orders /\ NR(o) # {}
<1> DEFINE m == PC!InHand(t)
<1>1. t \in DOMAIN PaymentHandled /\ PaymentHandled[t] = {"InventoryFailed"} /\ PC!Typed /\ t \in Topics
  BY TypesSplit, TopicNames DEF PaymentHandled, Quiet, Grounds
<1>2. m \in PC!Messages /\ m.type = "InventoryFailed" /\ PC!At(t) \in DOMAIN topics[t] /\ m = topics[t][PC!At(t)]
  BY <1>1, PC!HandFacts DEF PC!Handles, PC!InHand
<1>3. m.id \in NR(m.order)
  BY <1>1, <1>2, InTopic DEF Quiet, NR
<1> QED
  BY <1>2, <1>3 DEF PC!Messages

-----------------------------------------------------------------------------
(* Without harmful faults, nothing disturbs *)

\* Nothing is lost or fails, no store forgets: the steps that remain.
CalmOrderStep ==
    /\ PaymentStill
    /\ InventoryStill
    /\ \/ \E o \in Orders : CreatesOrder(o) \/ AnnouncesOrder(o)
       \/ \E t \in DOMAIN OrderHandled : Decides(t) \/ (OC!Moves(t) /\ UNCHANGED <<orders, requests>>)

CalmPaymentStep ==
    /\ OrderStill
    /\ InventoryStill
    /\ \/ \E o : Pays(o) \/ RollsBack(o)
       \/ \E t \in DOMAIN PaymentHandled :
              \/ PaymentPublishes(t) /\ ~PC!PublishError(t)
              \/ PC!Moves(t) /\ payments' = payments

CalmInventoryStep ==
    /\ OrderStill
    /\ PaymentStill
    /\ \/ \E o : Reserves(o)
       \/ InventoryPublishes /\ ~IC!PublishError("payment-events")
       \/ IC!Moves("payment-events") /\ reservations' = reservations

LEMMA CalmSteps ==
    ASSUME Quiet, Next, faults'.harmful = 0
    PROVE  CalmOrderStep \/ CalmPaymentStep \/ CalmInventoryStep
<1>0. NoneFails /\ OC!Typed /\ PC!Typed /\ IC!Typed /\ faults.harmful = 0
  BY UndisturbedSplit, TypesSplit DEF Quiet, Grounds
<1>1. ASSUME OrderStep PROVE CalmOrderStep
  <2>1. ~OrderRestarts
    BY <1>0, <1>1, OrderRestartsEffect DEF OrderStep, Quiet, Grounds
  <2>2. ASSUME NEW t \in DOMAIN OrderHandled, OrderMisses(t) PROVE FALSE
    <3> DEFINE o == OC!InHand(t).order
    <3>1. OC!Handles(t) /\ orders[o] \notin {"PENDING", "CONFIRMED", "CANCELLED"}
      BY <2>2 DEF OrderMisses, OC!NotFound, OrderService!Known
    <3>2. o \in Orders /\ (IR(o) # {} \/ PF(o) # {} \/ RB(o) # {})
      BY <3>1, OrderHears DEF Quiet, IR, PF, RB, RolledBack
    <3>3. RB(o) # {} => NR(o) # {}
      BY <3>2, OneOutcome
    <3>4. Created(o) # {}
      BY <3>2, <3>3, OneOutcome
    <3>5. orders[o] # "NONE"
      BY <3>2, <3>4 DEF Quiet, Caused
    <3>6. orders[o] # "LOST"
      BY <3>2, UndisturbedSplit DEF Quiet, DecisionsMarked
    <3>7. orders[o] \in OrderService!Statuses
      BY <3>2, TypesSplit DEF Quiet, Grounds, StoresTyped
    <3> QED
      BY <3>1, <3>5, <3>6, <3>7 DEF OrderService!Statuses
  <2> QED
    BY <1>1, <2>1, <2>2 DEF OrderStep, CalmOrderStep
<1>2. ASSUME PaymentStep PROVE CalmPaymentStep
  <2>1. ~PaymentRestarts
    BY <1>0, <1>2, PaymentRestartsEffect DEF PaymentStep, Quiet, Grounds
  <2>2. ~PaymentMisses
    <3> SUFFICES ASSUME PaymentMisses PROVE FALSE
      OBVIOUS
    <3> DEFINE t == "inventory-events"
               o == PC!InHand(t).order
    <3>1. PC!Handles(t) /\ Len(payments[o]) = 0
      BY DEF PaymentMisses, PC!NotFound
    <3>2. o \in Orders /\ NR(o) # {}
      BY <3>1, GivesBack
    <3>3. payments[o] = <<"ROLLED_BACK">> \/ payments[o] = <<"RESERVED">>
      BY <3>2, PaidBefore
    <3> QED
      BY <3>1, <3>3
  <2>3. ASSUME NEW t \in DOMAIN PaymentHandled, PC!PublishError(t) PROVE FALSE
    BY <1>0, <2>3, PC!PublishErrorStep DEF NoneFails
  <2> QED
    BY <1>2, <2>1, <2>2, <2>3 DEF PaymentStep, CalmPaymentStep
<1>3. ASSUME InventoryStep PROVE CalmInventoryStep
  <2>1. ~InventoryRestarts
    BY <1>0, <1>3, InventoryRestartsEffect DEF InventoryStep, Quiet, Grounds
  <2>2. ASSUME IC!PublishError("payment-events") PROVE FALSE
    BY <1>0, <2>2, TopicNames, IC!PublishErrorStep DEF NoneFails
  <2> QED
    BY <1>3, <2>1, <2>2 DEF InventoryStep, CalmInventoryStep
<1> QED
  BY <1>1, <1>2, <1>3, Steps

LEMMA NoneFailsStill ==
    ASSUME Quiet, Next, faults'.harmful = 0
    PROVE  NoneFails' /\ ~faults'.untold
<1>0. NoneFails /\ ~faults.untold /\ OC!Typed /\ PC!Typed /\ IC!Typed
  BY UndisturbedSplit, TypesSplit DEF Quiet, Grounds
<1>1. CASE CalmOrderStep
  <2>1. (\A t \in DOMAIN OrderHandled : orderLoop'[t].pc # "dead" /\ orderLoop'[t].retry = 0) /\ ~faults'.untold
    <3>1. ASSUME NEW o \in Orders, CreatesOrder(o) \/ AnnouncesOrder(o)
          PROVE  orderLoop' = orderLoop /\ ~faults'.untold
      BY <1>0, <1>1, <3>1, AnnouncesEffect DEF CalmOrderStep, CreatesOrder, AnnouncesOrder, Quiet, Grounds
    <3>2. ASSUME NEW t \in DOMAIN OrderHandled, Decides(t) \/ (OC!Moves(t) /\ UNCHANGED <<orders, requests>>)
          PROVE  orderLoop'[t].pc # "dead" /\ orderLoop'[t].retry = 0 /\ OC!OthersKept(t) /\ ~faults'.untold
      BY <1>0, <1>1, <3>2, DecidesEffect, OrderMovesEffect DEF CalmOrderStep, Quiet, Grounds, NoneFails
    <3> QED
      BY <1>0, <1>1, <3>1, <3>2 DEF CalmOrderStep, NoneFails, OC!OthersKept
  <2> QED
    BY <1>0, <1>1, <2>1 DEF CalmOrderStep, PaymentStill, InventoryStill, NoneFails
<1>2. CASE CalmPaymentStep
  <2>1. (\A t \in DOMAIN PaymentHandled : paymentLoop'[t].pc # "dead" /\ paymentLoop'[t].retry = 0) /\ ~faults'.untold
    <3>1. ASSUME NEW t \in DOMAIN PaymentHandled, NEW m \in PC!Outs, PC!Handle(t, m)
          PROVE  paymentLoop'[t].pc # "dead" /\ paymentLoop'[t].retry = 0 /\ PC!OthersKept(t) /\ ~faults'.untold
      BY <1>0, <3>1, PC!HandleStep DEF NoneFails
    <3>2. ASSUME NEW o, Pays(o) \/ RollsBack(o)
          PROVE  \E t \in DOMAIN PaymentHandled : \E m \in PC!Outs : PC!Handle(t, m)
      BY <1>2, <3>2, TopicNames, PaysEffect, RollsBackEffect DEF CalmPaymentStep, RollsBack, Quiet, Grounds, Outs
    <3>3. ASSUME NEW t \in DOMAIN PaymentHandled,
                 (PaymentPublishes(t) /\ ~PC!PublishError(t)) \/ (PC!Moves(t) /\ payments' = payments)
          PROVE  paymentLoop'[t].pc # "dead" /\ paymentLoop'[t].retry = 0 /\ PC!OthersKept(t) /\ ~faults'.untold
      BY <1>0, <1>2, <3>3, PaymentPublishesEffect, PaymentQuietEffect DEF CalmPaymentStep, Quiet, Grounds, NoneFails
    <3> QED
      BY <1>0, <1>2, <3>1, <3>2, <3>3 DEF CalmPaymentStep, NoneFails, PC!OthersKept
  <2> QED
    BY <1>0, <1>2, <2>1 DEF CalmPaymentStep, OrderStill, InventoryStill, NoneFails
<1>3. CASE CalmInventoryStep
  <2> DEFINE t == "payment-events"
  <2>1. inventoryLoop'[t].pc # "dead" /\ inventoryLoop'[t].retry = 0 /\ ~faults'.untold
    <3>1. ASSUME NEW m \in IC!Outs, IC!Handle(t, m)
          PROVE  inventoryLoop'[t].pc # "dead" /\ inventoryLoop'[t].retry = 0 /\ ~faults'.untold
      BY <1>0, <3>1, TopicNames, IC!HandleStep DEF NoneFails
    <3>2. ASSUME NEW o, Reserves(o) PROVE \E m \in IC!Outs : IC!Handle(t, m)
      BY <1>3, <3>2, GrownSame, ReservesEffect DEF CalmInventoryStep, Quiet, Grounds
    <3>3. ASSUME \/ InventoryPublishes /\ ~IC!PublishError(t)
                 \/ IC!Moves(t) /\ reservations' = reservations
          PROVE  inventoryLoop'[t].pc # "dead" /\ inventoryLoop'[t].retry = 0 /\ ~faults'.untold
      BY <1>0, <1>3, <3>3, TopicNames, InventoryPublishesEffect, InventoryMovesEffect
         DEF CalmInventoryStep, Quiet, Grounds, NoneFails
    <3> QED
      BY <1>3, <3>1, <3>2, <3>3 DEF CalmInventoryStep
  <2> QED
    BY <1>0, <1>3, <2>1, TopicNames DEF CalmInventoryStep, OrderStill, PaymentStill, NoneFails
<1> QED
  BY <1>1, <1>2, <1>3, CalmSteps

LEMMA DecisionsStay ==
    ASSUME Quiet, Next, faults'.harmful = 0, NEW o \in Orders
    PROVE  DecisionsMarked(o)'
<1>1. TopicsMove /\ DecisionsMarked(o)
  BY StepGrounds, UndisturbedSplit DEF Quiet
<1>2. IR(o) \subseteq IR(o)' /\ PF(o) \subseteq PF(o)' /\ RB(o) \subseteq RB(o)'
  BY <1>1, TopicNames, IdsGrow DEF Quiet, IR, PF, RB
<1>3. orderSeen \subseteq orderSeen'
  <2>1. CASE CalmOrderStep
    <3>1. ASSUME NEW t \in DOMAIN OrderHandled, Decides(t) \/ (OC!Moves(t) /\ UNCHANGED <<orders, requests>>)
          PROVE  orderSeen \subseteq orderSeen'
      BY <2>1, <3>1, DecidesEffect, OrderMovesEffect DEF CalmOrderStep, Quiet, Grounds
    <3> QED
      BY <2>1, <3>1 DEF CalmOrderStep, CreatesOrder, AnnouncesOrder
  <2>2. CASE CalmPaymentStep \/ CalmInventoryStep
    BY <2>2 DEF CalmPaymentStep, CalmInventoryStep, OrderStill
  <2> QED
    BY <2>1, <2>2, CalmSteps
<1>4. CASE orders'[o] = orders[o]
  BY <1>1, <1>2, <1>3, <1>4 DEF DecisionsMarked, Marked
<1>5. CASE orders'[o] = "PENDING"
  BY <1>5 DEF DecisionsMarked
<1>6. ASSUME NEW t \in DOMAIN OrderHandled, Decides(t), Confirms(o, t) \/ Cancels(o, t)
      PROVE  DecisionsMarked(o)'
  <2>1. OrderStep /\ topics' = topics
    <3>1. CASE OrderStep
      BY <1>6, <3>1, DecidesEffect DEF Quiet, Grounds, OrderStep
    <3>2. CASE ~OrderStep
      <4>1. OrderStill
        BY <3>2, Steps DEF PaymentStep, InventoryStep
      <4>2. OC!Digest(t) /\ orderLoop' = orderLoop /\ OC!Typed
        BY <1>6, <4>1, TypesSplit DEF Decides, OrderStill, Quiet, Grounds
      <4> QED
        BY <4>2, OC!DigestStep
    <3> QED
      BY <3>1, <3>2
  <2>2. <<t, OC!InHand(t).id>> \in orderSeen'
    BY <1>6, <2>1, DecidesEffect DEF Quiet, Grounds, OrderStep, OC!Id
  <2>3. IR(o)' = IR(o) /\ PF(o)' = PF(o) /\ RB(o)' = RB(o) /\ RolledBack(o) = RB(o)
    BY <2>1 DEF IR, PF, RB, Ids, RolledBack
  <2> QED
    BY <1>6, <2>2, <2>3 DEF Confirms, Cancels, DecisionsMarked, Marked, IR, PF
<1> QED
  BY <1>4, <1>5, <1>6, OrderChanges DEF Quiet

\* An announcement stays one: first about to be published, then published.
LEMMA AnnouncementStays ==
    ASSUME Grounds, NEW m \in Outs, Grown(m), NEW l, l.pc = "publish", l.out = m, NEW k, k.pc # "publish",
           NEW t \in Topics, NEW type, NEW o, m.type = type => m.topic = t
    PROVE  Announced(k, type, Ids(t, type, o)', o) <=> Announced(l, type, Ids(t, type, o), o)
<1>1. CASE m.type = type /\ m.order = o
  <2>1. Ids(t, type, o)' # {}
    BY <1>1, IdsStay
  <2> QED
    BY <1>1, <2>1 DEF Announced
<1>2. CASE ~(m.type = type /\ m.order = o)
  <2>1. Ids(t, type, o)' = Ids(t, type, o)
    BY <1>2, IdsStay
  <2> QED
    BY <1>2, <2>1 DEF Announced
<1> QED
  BY <1>1, <1>2

\* Messages of other topics and types announce nothing.
LEMMA ElsewhereAnnounced ==
    ASSUME Grounds, NEW t \in Topics, NEW type, NEW o,
           topics' = topics \/ \E m \in Outs : Grown(m) /\ (m.topic # t \/ m.type # type)
    PROVE  Ids(t, type, o)' = Ids(t, type, o)
<1>1. CASE topics' = topics
  BY <1>1 DEF Ids
<1>2. CASE \E m \in Outs : Grown(m) /\ (m.topic # t \/ m.type # type)
  BY <1>2, IdsStay
<1> QED
  BY <1>1, <1>2

LEMMA PaymentsStay ==
    ASSUME Quiet, Next, faults'.harmful = 0, NEW o \in Orders
    PROVE  PaymentInStore(o)'
<1> DEFINE t1 == "order-events"
           t2 == "inventory-events"
<1>1. PaymentInStore(o) /\ Grounds /\ PC!Typed
  BY UndisturbedSplit, TypesSplit DEF Quiet, Grounds
<1>2. ASSUME payments'[o] = payments[o],
             PaymentAnnounced(o)' <=> PaymentAnnounced(o), RollbackAnnounced(o)' <=> RollbackAnnounced(o)
      PROVE  PaymentInStore(o)'
  BY <1>1, <1>2 DEF PaymentInStore
<1>3. PaymentAnnounced(o) <=> Announced(paymentLoop[t1], "PaymentReserved", PR(o), o)
  BY DEF PaymentAnnounced, PR
<1>4. RollbackAnnounced(o) <=> Announced(paymentLoop[t2], "PaymentRolledBack", RB(o), o)
  BY DEF RollbackAnnounced, RolledBack, RB
<1>5. PaymentAnnounced(o)' <=> Announced(paymentLoop'[t1], "PaymentReserved", PR(o)', o)
  BY DEF PaymentAnnounced, PR
<1>6. RollbackAnnounced(o)' <=> Announced(paymentLoop'[t2], "PaymentRolledBack", RB(o)', o)
  BY DEF RollbackAnnounced, RolledBack, RB
<1>7. topics' = topics => PR(o)' = PR(o) /\ RB(o)' = RB(o)
  BY DEF PR, RB, Ids
<1>8. CASE CalmOrderStep \/ CalmInventoryStep
  <2>1. PaymentStill
    BY <1>8 DEF CalmOrderStep, CalmInventoryStep
  <2>2. topics' = topics \/ \E m \in Outs : Grown(m) /\ m.topic # "payment-events"
    <3>1. OrderStep \/ InventoryStep
      BY <1>8 DEF CalmOrderStep, CalmInventoryStep, OrderStep, InventoryStep
    <3> QED
      BY <1>1, <3>1, OrderStepCauses, InventoryStepCauses
  <2>3. PR(o)' = PR(o) /\ RB(o)' = RB(o)
    BY <1>1, <2>2, TopicNames, ElsewhereAnnounced DEF PR, RB
  <2> QED
    BY <1>2, <1>3, <1>4, <1>5, <1>6, <2>1, <2>3 DEF PaymentStill
<1>9. CASE CalmPaymentStep
  <2>0. PaymentStep
    BY <1>9 DEF CalmPaymentStep, PaymentStep
  <2>1. ASSUME NEW p, Pays(p) PROVE PaymentInStore(o)'
    <3>1. /\ p \in Orders /\ topics' = topics
          /\ PR(p) = {} /\ ~PaymentAnnounced(p) /\ ~RollbackAnnounced(p) /\ payments[p] = <<>>
          /\ paymentLoop[t1].pc # "publish"
      BY <1>1, <2>0, <2>1, PaysEffect, NothingPaid DEF Grounds, PaymentStep
    <3>2. payments \in [Orders -> Seq(PaymentService!PaymentStatuses)]
      BY TypesSplit DEF Quiet, Grounds, StoresTyped
    <3>3. PICK type \in {"PaymentReserved", "PaymentFailed"} :
              /\ PC!Handle(t1, PaymentAnswer(type, p))
              /\ payments' = IF type = "PaymentReserved" THEN [payments EXCEPT ![p] = Append(@, "RESERVED")] ELSE payments
      BY <2>1 DEF Pays
    <3>4. PaymentAnswer(type, p) \in PC!Outs
      BY <1>1, <3>1, <3>3, AnswersTyped DEF Grounds, Outs, PC!Types
    <3>5. /\ paymentLoop'[t1].pc = "publish" /\ paymentLoop'[t1].out = PaymentAnswer(type, p)
          /\ paymentLoop'[t2] = paymentLoop[t2]
      BY <1>1, <3>3, <3>4, TopicNames, PC!HandleStep DEF PC!OthersKept
    <3>6. RollbackAnnounced(o)' <=> RollbackAnnounced(o)
      BY <1>4, <1>6, <1>7, <3>1, <3>5
    <3>7. PaymentAnnounced(o)' <=> PaymentAnnounced(o) \/ (type = "PaymentReserved" /\ p = o)
      BY <1>3, <1>5, <1>7, <3>1, <3>5 DEF Announced, PaymentAnswer
    <3>8. CASE p = o /\ type = "PaymentReserved"
      <4>1. payments'[o] = Append(<<>>, "RESERVED")
        BY <3>1, <3>2, <3>3, <3>8
      <4>2. payments'[o] = <<"RESERVED">>
        BY <4>1
      <4> QED
        BY <3>1, <3>6, <3>7, <3>8, <4>2 DEF PaymentInStore
    <3>9. CASE ~(p = o /\ type = "PaymentReserved")
      <4>1. payments'[o] = payments[o]
        BY <3>1, <3>2, <3>3, <3>9
      <4> QED
        BY <1>2, <3>6, <3>7, <3>9, <4>1
    <3> QED
      BY <3>8, <3>9
  <2>2. ASSUME NEW p, RollsBack(p) PROVE PaymentInStore(o)'
    <3> DEFINE m == PaymentAnswer("PaymentRolledBack", p)
    <3>1. /\ p \in Orders /\ topics' = topics /\ m \in PC!Outs /\ PC!Handle(t2, m)
          /\ \A q \in Orders \ {p} : payments'[q] = payments[q]
      BY <1>1, <2>0, <2>2, RollsBackEffect DEF Grounds, PaymentStep, RollsBack, Outs
    <3>2. NR(p) # {}
      BY <2>2, GivesBack DEF RollsBack, PC!Handle, PC!Begin
    <3>3. /\ paymentLoop'[t2].pc = "publish" /\ paymentLoop'[t2].out = m /\ paymentLoop[t2].pc # "publish"
          /\ paymentLoop'[t1] = paymentLoop[t1]
      BY <1>1, <3>1, TopicNames, PC!HandleStep DEF PC!OthersKept
    <3>4. PaymentAnnounced(o)' <=> PaymentAnnounced(o)
      BY <1>3, <1>5, <1>7, <3>1, <3>3
    <3>5. RollbackAnnounced(o)' <=> RollbackAnnounced(o) \/ p = o
      BY <1>4, <1>6, <1>7, <3>1, <3>3 DEF Announced, PaymentAnswer
    <3>6. CASE p = o
      <4>1. payments[o] = <<"ROLLED_BACK">> \/ payments[o] = <<"RESERVED">>
        BY <3>2, <3>6, PaidBefore
      <4>2. payments'[o] = [payments[o] EXCEPT ![Len(payments[o])] = "ROLLED_BACK"]
        BY <2>2, <3>6, TypesSplit DEF RollsBack, Quiet, Grounds, StoresTyped
      <4>3. payments'[o] = <<"ROLLED_BACK">>
        <5>1. ASSUME NEW x PROVE Len(<<x>>) = 1 /\ [<<x>> EXCEPT ![1] = "ROLLED_BACK"] = <<"ROLLED_BACK">>
          OBVIOUS
        <5>2. PICK x : payments[o] = <<x>>
          BY <4>1
        <5>3. Len(payments[o]) = 1
          BY <5>1, <5>2
        <5>4. payments'[o] = [<<x>> EXCEPT ![1] = "ROLLED_BACK"]
          BY <4>2, <5>2, <5>3
        <5> QED
          BY <5>1, <5>4
      <4> QED
        BY <3>5, <3>6, <4>3 DEF PaymentInStore
    <3>7. CASE p # o
      BY <1>2, <3>1, <3>4, <3>5, <3>7
    <3> QED
      BY <3>6, <3>7
  <2>3. ASSUME NEW t \in DOMAIN PaymentHandled, PC!Moves(t), payments' = payments PROVE PaymentInStore(o)'
    <3>1. /\ topics' = topics /\ paymentLoop[t].pc # "publish" /\ paymentLoop'[t].pc # "publish" /\ PC!OthersKept(t)
      BY <1>1, <2>0, <2>3, PaymentQuietEffect DEF Grounds, PaymentStep
    <3>2. /\ \/ paymentLoop'[t1] = paymentLoop[t1]
             \/ paymentLoop[t1].pc # "publish" /\ paymentLoop'[t1].pc # "publish"
          /\ \/ paymentLoop'[t2] = paymentLoop[t2]
             \/ paymentLoop[t2].pc # "publish" /\ paymentLoop'[t2].pc # "publish"
      <4>1. CASE t = t1
        BY <3>1, <4>1, TopicNames DEF PC!OthersKept
      <4>2. CASE t = t2
        BY <3>1, <4>2, TopicNames DEF PC!OthersKept
      <4> QED
        BY <4>1, <4>2, TopicNames
    <3> QED
      BY <1>2, <1>3, <1>4, <1>5, <1>6, <1>7, <2>3, <3>1, <3>2 DEF Announced
  <2>4. ASSUME NEW t \in DOMAIN PaymentHandled, PaymentPublishes(t), ~PC!PublishError(t) PROVE PaymentInStore(o)'
    <3> DEFINE m == paymentLoop[t].out
    <3>1. /\ payments' = payments /\ paymentLoop[t].pc = "publish" /\ m \in Outs /\ Grown(m)
          /\ paymentLoop'[t].pc # "publish" /\ PC!OthersKept(t)
      BY <1>1, <2>0, <2>4, PaymentPublishesEffect DEF Grounds, PaymentStep
    <3>2. PaymentAnswers /\ RollbackAnswers
      BY <1>1, AnswersSplit DEF Grounds
    <3>3. CASE t = t1
      <4>1. m.topic = "payment-events" /\ m.type \in {"PaymentReserved", "PaymentFailed"}
        BY <3>1, <3>2, <3>3 DEF PaymentAnswers, PC!Answers
      <4>2. RB(o)' = RB(o) /\ paymentLoop'[t2] = paymentLoop[t2]
        BY <1>1, <3>1, <3>3, <4>1, TopicNames, ElsewhereAnnounced DEF RB, PC!OthersKept
      <4>3. PaymentAnnounced(o)' <=> PaymentAnnounced(o)
        BY <1>1, <1>3, <1>5, <3>1, <3>3, <4>1, TopicNames, AnnouncementStays DEF PR
      <4> QED
        BY <1>2, <1>4, <1>6, <3>1, <4>2, <4>3
    <3>4. CASE t = t2
      <4>1. m.topic = "payment-events" /\ m.type = "PaymentRolledBack"
        BY <3>1, <3>2, <3>4 DEF RollbackAnswers, PC!Answers
      <4>2. PR(o)' = PR(o) /\ paymentLoop'[t1] = paymentLoop[t1]
        BY <1>1, <3>1, <3>4, <4>1, TopicNames, ElsewhereAnnounced DEF PR, PC!OthersKept
      <4>3. RollbackAnnounced(o)' <=> RollbackAnnounced(o)
        BY <1>1, <1>4, <1>6, <3>1, <3>4, <4>1, TopicNames, AnnouncementStays DEF RB
      <4> QED
        BY <1>2, <1>3, <1>5, <3>1, <4>2, <4>3
    <3> QED
      BY <3>3, <3>4, TopicNames
  <2> QED
    BY <1>9, <2>1, <2>2, <2>3, <2>4 DEF CalmPaymentStep
<1> QED
  BY <1>8, <1>9, CalmSteps

LEMMA ReservationsStay ==
    ASSUME Quiet, Next, faults'.harmful = 0, NEW o \in Orders
    PROVE  ReservationInStore(o)'
<1> DEFINE t == "payment-events"
<1>1. ReservationInStore(o) /\ Grounds /\ IC!Typed
  BY UndisturbedSplit, TypesSplit DEF Quiet, Grounds
<1>2. ASSUME reservations'[o] = reservations[o], ReservationAnnounced(o)' <=> ReservationAnnounced(o)
      PROVE  ReservationInStore(o)'
  BY <1>1, <1>2 DEF ReservationInStore
<1>3. ReservationAnnounced(o) <=> Announced(inventoryLoop[t], "InventoryReserved", IR(o), o)
  BY DEF ReservationAnnounced, IR
<1>4. ReservationAnnounced(o)' <=> Announced(inventoryLoop'[t], "InventoryReserved", IR(o)', o)
  BY DEF ReservationAnnounced, IR
<1>5. topics' = topics => IR(o)' = IR(o)
  BY DEF IR, Ids
<1>6. CASE CalmOrderStep \/ CalmPaymentStep
  <2>1. InventoryStill
    BY <1>6 DEF CalmOrderStep, CalmPaymentStep
  <2>2. topics' = topics \/ \E m \in Outs : Grown(m) /\ m.topic # "inventory-events"
    <3>1. OrderStep \/ PaymentStep
      BY <1>6 DEF CalmOrderStep, CalmPaymentStep, OrderStep, PaymentStep
    <3> QED
      BY <1>1, <3>1, OrderStepCauses, PaymentStepCauses
  <2>3. IR(o)' = IR(o)
    BY <1>1, <2>2, TopicNames, ElsewhereAnnounced DEF IR
  <2> QED
    BY <1>2, <1>3, <1>4, <2>1, <2>3 DEF InventoryStill
<1>7. CASE CalmInventoryStep
  <2>0. InventoryStep
    BY <1>7 DEF CalmInventoryStep, InventoryStep
  <2>1. ASSUME NEW p, Reserves(p) PROVE ReservationInStore(o)'
    <3>1. /\ p \in Orders /\ topics' = topics
          /\ ~ReservationAnnounced(p) /\ reservations[p] = 0 /\ inventoryLoop[t].pc # "publish"
      BY <1>1, <2>0, <2>1, ReservesEffect, NothingReserved DEF Grounds, InventoryStep
    <3>2. reservations \in [Orders -> Nat]
      BY TypesSplit DEF Quiet, Grounds, StoresTyped
    <3>3. PICK type \in {"InventoryReserved", "InventoryFailed"} :
              /\ IC!Handle(t, InventoryAnswer(type, p))
              /\ reservations' = IF type = "InventoryReserved" THEN [reservations EXCEPT ![p] = @ + 1] ELSE reservations
      BY <2>1 DEF Reserves
    <3>4. InventoryAnswer(type, p) \in IC!Outs
      BY <1>1, <3>1, <3>3, AnswersTyped, GrownSame DEF Grounds, PC!Types
    <3>5. /\ inventoryLoop'[t].pc = "publish" /\ inventoryLoop'[t].out = InventoryAnswer(type, p)
      BY <1>1, <3>3, <3>4, TopicNames, IC!HandleStep
    <3>6. ReservationAnnounced(o)' <=> ReservationAnnounced(o) \/ (type = "InventoryReserved" /\ p = o)
      BY <1>3, <1>4, <1>5, <3>1, <3>5 DEF Announced, InventoryAnswer
    <3>7. CASE p = o /\ type = "InventoryReserved"
      <4>1. reservations'[o] = 1
        BY <3>1, <3>2, <3>3, <3>7
      <4> QED
        BY <3>6, <3>7, <4>1 DEF ReservationInStore
    <3>8. CASE ~(p = o /\ type = "InventoryReserved")
      <4>1. reservations'[o] = reservations[o]
        BY <3>1, <3>2, <3>3, <3>8
      <4> QED
        BY <1>2, <3>6, <3>8, <4>1
    <3> QED
      BY <3>7, <3>8
  <2>2. ASSUME IC!Moves(t), reservations' = reservations PROVE ReservationInStore(o)'
    <3>1. topics' = topics /\ inventoryLoop[t].pc # "publish" /\ inventoryLoop'[t].pc # "publish"
      BY <1>1, <2>0, <2>2, InventoryMovesEffect DEF Grounds, InventoryStep
    <3> QED
      BY <1>2, <1>3, <1>4, <1>5, <2>2, <3>1 DEF Announced
  <2>3. ASSUME InventoryPublishes, ~IC!PublishError(t) PROVE ReservationInStore(o)'
    <3> DEFINE m == inventoryLoop[t].out
    <3>1. /\ reservations' = reservations /\ inventoryLoop[t].pc = "publish" /\ m \in Outs /\ Grown(m)
          /\ inventoryLoop'[t].pc # "publish"
      BY <1>1, <2>0, <2>3, InventoryPublishesEffect DEF Grounds, InventoryStep
    <3>2. m.topic = "inventory-events"
      BY <1>1, <3>1, AnswersSplit DEF Grounds, ReservationAnswers, IC!Answers
    <3>3. ReservationAnnounced(o)' <=> ReservationAnnounced(o)
      BY <1>1, <1>3, <1>4, <3>1, <3>2, TopicNames, AnnouncementStays DEF IR
    <3> QED
      BY <1>2, <3>1, <3>3
  <2> QED
    BY <1>7, <2>1, <2>2, <2>3 DEF CalmInventoryStep
<1> QED
  BY <1>6, <1>7, CalmSteps

LEMMA StepUndisturbed ==
    ASSUME Quiet, Next, faults'.harmful = 0
    PROVE  Undisturbed'
BY UndisturbedSplitThen, NoneFailsStill, DecisionsStay, PaymentsStay, ReservationsStay

-----------------------------------------------------------------------------
(* The order saga *)

SagaStatus == [o \in Orders |-> StatusOf(o)]
SagaPayment == [o \in Orders |-> PaymentOf(o)]
SagaReserved == [o \in Orders |-> reservations[o] > 0]

LEMMA PaymentValues ==
    ASSUME NEW o
    PROVE  /\ payments[o] = <<>> => PaymentOf(o) = "none"
           /\ payments[o] = <<"RESERVED">> => PaymentOf(o) = "held"
           /\ payments[o] = <<"ROLLED_BACK">> => PaymentOf(o) = "released"
<1>1. ASSUME payments[o] = <<>> PROVE PaymentOf(o) = "none"
  <2>1. Paid(o) = {}
    BY <1>1 DEF Paid
  <2> QED
    BY <1>1, <2>1 DEF PaymentOf
<1>2. ASSUME payments[o] = <<"RESERVED">> PROVE PaymentOf(o) = "held"
  <2>1. 1 \in Paid(o)
    BY <1>2 DEF Paid
  <2> QED
    BY <2>1 DEF PaymentOf
<1>3. ASSUME payments[o] = <<"ROLLED_BACK">> PROVE PaymentOf(o) = "released"
  <2>1. Paid(o) = {} /\ payments[o] # <<>>
    BY <1>3 DEF Paid
  <2> QED
    BY <2>1 DEF PaymentOf
<1> QED
  BY <1>1, <1>2, <1>3

LEMMA PaymentValuesThen ==
    \A o : /\ payments'[o] = <<>> => PaymentOf(o)' = "none"
           /\ payments'[o] = <<"RESERVED">> => PaymentOf(o)' = "held"
           /\ payments'[o] = <<"ROLLED_BACK">> => PaymentOf(o)' = "released"
<1>1. \A o : /\ payments[o] = <<>> => PaymentOf(o) = "none"
             /\ payments[o] = <<"RESERVED">> => PaymentOf(o) = "held"
             /\ payments[o] = <<"ROLLED_BACK">> => PaymentOf(o) = "released"
  BY PaymentValues
<1>2. (\A o : /\ payments[o] = <<>> => PaymentOf(o) = "none"
              /\ payments[o] = <<"RESERVED">> => PaymentOf(o) = "held"
              /\ payments[o] = <<"ROLLED_BACK">> => PaymentOf(o) = "released")'
  BY <1>1, PTL
<1> QED
  BY <1>2

LEMMA SagaKept ==
    /\ orders' = orders => SagaStatus' = SagaStatus
    /\ payments' = payments => SagaPayment' = SagaPayment
    /\ reservations' = reservations => SagaReserved' = SagaReserved
BY DEF SagaStatus, SagaPayment, SagaReserved, StatusOf, PaymentOf, Paid

LEMMA SagaMoves ==
    ASSUME NEW o \in Orders
    PROVE  /\ (\A p \in Orders \ {o} : orders'[p] = orders[p]) =>
                  SagaStatus' = [SagaStatus EXCEPT ![o] = StatusOf(o)']
           /\ (\A p \in Orders \ {o} : payments'[p] = payments[p]) =>
                  SagaPayment' = [SagaPayment EXCEPT ![o] = PaymentOf(o)']
           /\ (\A p \in Orders \ {o} : reservations'[p] = reservations[p]) =>
                  SagaReserved' = [SagaReserved EXCEPT ![o] = (reservations'[o] > 0)]
           /\ SagaStatus[o] = StatusOf(o) /\ SagaPayment[o] = PaymentOf(o) /\ SagaReserved[o] = (reservations[o] > 0)
<1>1. ASSUME \A p \in Orders \ {o} : orders'[p] = orders[p]
      PROVE  SagaStatus' = [SagaStatus EXCEPT ![o] = StatusOf(o)']
  <2>1. \A p \in Orders \ {o} : StatusOf(p)' = StatusOf(p)
    BY <1>1 DEF StatusOf
  <2> QED
    BY <2>1 DEF SagaStatus
<1>2. ASSUME \A p \in Orders \ {o} : payments'[p] = payments[p]
      PROVE  SagaPayment' = [SagaPayment EXCEPT ![o] = PaymentOf(o)']
  <2>1. \A p \in Orders \ {o} : PaymentOf(p)' = PaymentOf(p)
    BY <1>2 DEF PaymentOf, Paid
  <2> QED
    BY <2>1 DEF SagaPayment
<1>3. ASSUME \A p \in Orders \ {o} : reservations'[p] = reservations[p]
      PROVE  SagaReserved' = [SagaReserved EXCEPT ![o] = (reservations'[o] > 0)]
  BY <1>3 DEF SagaReserved
<1> QED
  BY <1>1, <1>2, <1>3 DEF SagaStatus, SagaPayment, SagaReserved

LEMMA SagaTerms ==
    /\ \A o : Saga!Place(o) <=> /\ SagaStatus[o] = "none"
                                /\ SagaStatus' = [SagaStatus EXCEPT ![o] = "pending"]
                                /\ SagaPayment' = SagaPayment /\ SagaReserved' = SagaReserved
    /\ \A o : Saga!Pay(o) <=> /\ SagaStatus[o] = "pending" /\ SagaPayment[o] = "none"
                              /\ SagaPayment' = [SagaPayment EXCEPT ![o] = "held"]
                              /\ SagaStatus' = SagaStatus /\ SagaReserved' = SagaReserved
    /\ \A o : Saga!Release(o) <=> /\ SagaStatus[o] = "pending" /\ SagaPayment[o] = "held" /\ ~SagaReserved[o]
                                  /\ SagaPayment' = [SagaPayment EXCEPT ![o] = "released"]
                                  /\ SagaStatus' = SagaStatus /\ SagaReserved' = SagaReserved
    /\ \A o : Saga!Reserve(o) <=> /\ SagaStatus[o] = "pending" /\ SagaPayment[o] = "held" /\ ~SagaReserved[o]
                                  /\ SagaReserved' = [SagaReserved EXCEPT ![o] = TRUE]
                                  /\ SagaStatus' = SagaStatus /\ SagaPayment' = SagaPayment
    /\ \A o : Saga!Confirm(o) <=> /\ SagaStatus[o] = "pending" /\ SagaPayment[o] = "held" /\ SagaReserved[o]
                                  /\ SagaStatus' = [SagaStatus EXCEPT ![o] = "confirmed"]
                                  /\ SagaPayment' = SagaPayment /\ SagaReserved' = SagaReserved
    /\ \A o : Saga!Cancel(o) <=> /\ SagaStatus[o] = "pending" /\ SagaPayment[o] # "held" /\ ~SagaReserved[o]
                                 /\ SagaStatus' = [SagaStatus EXCEPT ![o] = "cancelled"]
                                 /\ SagaPayment' = SagaPayment /\ SagaReserved' = SagaReserved
    /\ SagaStatus' = SagaStatus /\ SagaPayment' = SagaPayment /\ SagaReserved' = SagaReserved
           <=> Saga!vars' = Saga!vars
BY DEF SagaStatus, SagaPayment, SagaReserved, Saga!Place, Saga!Pay, Saga!Release, Saga!Reserve, Saga!Confirm,
       Saga!Cancel, Saga!Decide, Saga!vars

LEMMA ConfirmedOnce ==
    ASSUME Quiet, NEW o \in Orders, IR(o) # {}
    PROVE  orders[o] # "CANCELLED" /\ PaymentOf(o) = "held" /\ reservations[o] > 0
<1>1. /\ PR(o) # {} /\ PF(o) = {} /\ NR(o) = {} /\ RB(o) = {}
      /\ ~RollbackAnnounced(o) /\ PaymentAnnounced(o) /\ ReservationAnnounced(o)
  BY OneOutcome
<1>2. orders[o] # "CANCELLED"
  BY <1>1 DEF Quiet, Caused, PF, RB, RolledBack
<1>3. payments[o] = <<"RESERVED">> /\ reservations[o] = 1
  BY <1>1, UndisturbedSplit DEF Quiet, PaymentInStore, ReservationInStore
<1> QED
  BY <1>2, <1>3, PaymentValues

LEMMA CancelledOnce ==
    ASSUME Quiet, NEW o \in Orders, PF(o) \cup RB(o) # {}
    PROVE  orders[o] # "CONFIRMED" /\ PaymentOf(o) # "held" /\ ~(reservations[o] > 0)
<1>1. PaymentInStore(o) /\ ReservationInStore(o)
  BY UndisturbedSplit DEF Quiet
<1>2. IR(o) = {} /\ ~ReservationAnnounced(o) /\ (RollbackAnnounced(o) \/ ~PaymentAnnounced(o))
  BY OneOutcome
<1>3. orders[o] # "CONFIRMED"
  BY <1>2 DEF Quiet, Caused, IR
<1> QED
  BY <1>1, <1>2, <1>3, PaymentValues DEF PaymentInStore, ReservationInStore

LEMMA OrderStepSaga ==
    ASSUME Quiet, CalmOrderStep
    PROVE  Saga!Next \/ Saga!vars' = Saga!vars
<1>0. /\ SagaPayment' = SagaPayment /\ SagaReserved' = SagaReserved
      /\ orders \in [Orders -> OrderService!Statuses]
  BY SagaKept, TypesSplit DEF CalmOrderStep, PaymentStill, InventoryStill, Quiet, Grounds, StoresTyped
<1>1. ASSUME NEW o \in Orders, CreatesOrder(o) PROVE Saga!Place(o)
  <2>1. orders[o] = "NONE" /\ orders'[o] = "PENDING" /\ \A p \in Orders \ {o} : orders'[p] = orders[p]
    BY <1>0, <1>1 DEF CreatesOrder
  <2>2. StatusOf(o) = "none" /\ StatusOf(o)' = "pending"
    BY <2>1 DEF StatusOf
  <2> QED
    BY <1>0, <2>1, <2>2, SagaMoves, SagaTerms
<1>2. ASSUME NEW o \in Orders, AnnouncesOrder(o) PROVE Saga!vars' = Saga!vars
  BY <1>0, <1>2, SagaKept, SagaTerms DEF AnnouncesOrder
<1>3. ASSUME NEW t \in DOMAIN OrderHandled, OC!Moves(t), UNCHANGED <<orders, requests>>
      PROVE  Saga!vars' = Saga!vars
  BY <1>0, <1>3, SagaKept, SagaTerms
<1>4. ASSUME NEW t \in DOMAIN OrderHandled, Decides(t)
      PROVE  (\E o \in Orders : Saga!Confirm(o) \/ Saga!Cancel(o)) \/ Saga!vars' = Saga!vars
  <2>1. PICK o \in Orders : /\ orders[o] \in {"PENDING", "CONFIRMED", "CANCELLED"}
                            /\ Confirms(o, t) \/ Cancels(o, t)
                            /\ \A p \in Orders \ {o} : orders'[p] = orders[p]
    BY <1>4, DecidesCause DEF Quiet
  <2>2. /\ SagaStatus' = [SagaStatus EXCEPT ![o] = StatusOf(o)'] /\ SagaStatus[o] = StatusOf(o)
        /\ SagaPayment[o] = PaymentOf(o) /\ SagaReserved[o] = (reservations[o] > 0)
    BY <2>1, SagaMoves
  <2>3. /\ orders[o] = "PENDING" => StatusOf(o) = "pending"
        /\ orders[o] = "CONFIRMED" => StatusOf(o) = "confirmed"
        /\ orders[o] = "CANCELLED" => StatusOf(o) = "cancelled"
        /\ orders'[o] = "CONFIRMED" => StatusOf(o)' = "confirmed"
        /\ orders'[o] = "CANCELLED" => StatusOf(o)' = "cancelled"
    BY DEF StatusOf
  <2>4. StatusOf(o)' = StatusOf(o) => SagaStatus' = SagaStatus
    BY <2>2 DEF SagaStatus
  <2>5. CASE Confirms(o, t)
    <3>1. /\ orders'[o] = "CONFIRMED" /\ orders[o] # "CANCELLED" /\ PaymentOf(o) = "held" /\ reservations[o] > 0
      BY <2>1, <2>5, ConfirmedOnce DEF Confirms, IR
    <3>2. CASE orders[o] = "PENDING"
      <4>1. Saga!Confirm(o)
        BY <1>0, <2>2, <2>3, <3>1, <3>2, SagaTerms
      <4> QED
        BY <2>1, <4>1
    <3>3. CASE orders[o] = "CONFIRMED"
      BY <1>0, <2>3, <2>4, <3>1, <3>3, SagaTerms
    <3> QED
      BY <2>1, <3>1, <3>2, <3>3
  <2>6. CASE Cancels(o, t)
    <3>1. /\ orders'[o] = "CANCELLED" /\ orders[o] # "CONFIRMED" /\ PaymentOf(o) # "held" /\ ~(reservations[o] > 0)
      BY <2>1, <2>6, CancelledOnce DEF Cancels, PF, RB, RolledBack
    <3>2. CASE orders[o] = "PENDING"
      <4>1. Saga!Cancel(o)
        BY <1>0, <2>2, <2>3, <3>1, <3>2, SagaTerms
      <4> QED
        BY <2>1, <4>1
    <3>3. CASE orders[o] = "CANCELLED"
      BY <1>0, <2>3, <2>4, <3>1, <3>3, SagaTerms
    <3> QED
      BY <2>1, <3>1, <3>2, <3>3
  <2> QED
    BY <2>1, <2>5, <2>6
<1> QED
  BY <1>1, <1>2, <1>3, <1>4 DEF CalmOrderStep, Saga!Next, Saga!Proceed

\* An order that was announced and has no outcome yet is pending.
LEMMA PendingStill ==
    ASSUME Quiet, NEW o \in Orders, Created(o) # {}, IR(o) = {}, PF(o) = {}, RB(o) = {}
    PROVE  StatusOf(o) = "pending"
<1>1. orders[o] \notin {"NONE", "LOST", "CONFIRMED", "CANCELLED"}
  <2>1. orders[o] # "LOST"
    BY UndisturbedSplit DEF Quiet, DecisionsMarked
  <2> QED
    BY <2>1 DEF Quiet, Caused, IR, PF, RB, RolledBack
<1> QED
  BY <1>1 DEF StatusOf

LEMMA PaymentStepSaga ==
    ASSUME Quiet, CalmPaymentStep
    PROVE  Saga!Next \/ Saga!vars' = Saga!vars
<1>0. /\ SagaStatus' = SagaStatus /\ SagaReserved' = SagaReserved
      /\ payments \in [Orders -> Seq(PaymentService!PaymentStatuses)] /\ PaymentStep
  BY SagaKept, TypesSplit
     DEF CalmPaymentStep, PaymentStep, OrderStill, InventoryStill, Quiet, Grounds, StoresTyped
<1>1. ASSUME payments' = payments PROVE Saga!vars' = Saga!vars
  BY <1>0, <1>1, SagaKept, SagaTerms
<1>2. ASSUME NEW o, Pays(o) PROVE (\E p \in Orders : Saga!Pay(p)) \/ Saga!vars' = Saga!vars
  <2>1. o \in Orders /\ payments[o] = <<>> /\ StatusOf(o) = "pending"
    BY <1>0, <1>2, NothingPaid, PendingStill
  <2>2. CASE payments' = [payments EXCEPT ![o] = Append(@, "RESERVED")]
    <3>1. payments'[o] = Append(<<>>, "RESERVED") /\ \A p \in Orders \ {o} : payments'[p] = payments[p]
      BY <1>0, <2>1, <2>2
    <3>2. payments'[o] = <<"RESERVED">>
      BY <3>1
    <3>3. PaymentOf(o) = "none" /\ PaymentOf(o)' = "held"
      BY <2>1, <3>2, PaymentValues, PaymentValuesThen
    <3>4. Saga!Pay(o)
      BY <1>0, <2>1, <3>1, <3>3, SagaMoves, SagaTerms
    <3> QED
      BY <2>1, <3>4
  <2> QED
    BY <1>1, <1>2, <2>2 DEF Pays
<1>3. ASSUME NEW o, RollsBack(o) PROVE (\E p \in Orders : Saga!Release(p)) \/ Saga!vars' = Saga!vars
  <2>1. /\ o \in Orders /\ NR(o) # {}
        /\ \A p \in Orders \ {o} : payments'[p] = payments[p]
    BY <1>0, <1>3, RollsBackEffect, GivesBack DEF Quiet, Grounds, PaymentStep, RollsBack, PC!Handle, PC!Begin
  <2>2. /\ PR(o) # {} /\ ~ReservationAnnounced(o)
        /\ payments[o] = IF RollbackAnnounced(o) THEN <<"ROLLED_BACK">> ELSE <<"RESERVED">>
    BY <2>1, PaidBefore
  <2>3. payments'[o] = <<"ROLLED_BACK">>
    <3>1. ASSUME NEW x PROVE Len(<<x>>) = 1 /\ [<<x>> EXCEPT ![1] = "ROLLED_BACK"] = <<"ROLLED_BACK">>
      OBVIOUS
    <3>2. PICK x : payments[o] = <<x>>
      BY <2>2
    <3>3. payments'[o] = [payments[o] EXCEPT ![Len(payments[o])] = "ROLLED_BACK"]
      BY <1>0, <1>3, <2>1 DEF RollsBack
    <3>4. payments'[o] = [<<x>> EXCEPT ![1] = "ROLLED_BACK"]
      BY <3>1, <3>2, <3>3
    <3> QED
      BY <3>1, <3>4
  <2>4. SagaPayment' = [SagaPayment EXCEPT ![o] = "released"] /\ SagaPayment[o] = PaymentOf(o)
    BY <2>1, <2>3, SagaMoves, PaymentValuesThen
  <2>5. CASE RollbackAnnounced(o)
    <3>1. SagaPayment[o] = "released"
      BY <2>2, <2>4, <2>5, PaymentValues
    <3>2. SagaPayment' = SagaPayment
      BY <2>4, <3>1 DEF SagaPayment
    <3> QED
      BY <1>0, <3>2, SagaTerms
  <2>6. CASE ~RollbackAnnounced(o)
    <3>1. Created(o) # {} /\ IR(o) = {} /\ PF(o) = {} /\ RB(o) = {}
      BY <2>1, <2>2, <2>6, OneOutcome
    <3>2. StatusOf(o) = "pending" /\ PaymentOf(o) = "held"
      BY <2>1, <2>2, <2>6, <3>1, PendingStill, PaymentValues
    <3>3. ~(reservations[o] > 0)
      BY <2>1, <2>2, UndisturbedSplit DEF Quiet, ReservationInStore
    <3>4. Saga!Release(o)
      BY <1>0, <2>1, <2>4, <3>2, <3>3, SagaMoves, SagaTerms
    <3> QED
      BY <2>1, <3>4
  <2> QED
    BY <2>5, <2>6
<1> QED
  BY <1>1, <1>2, <1>3 DEF CalmPaymentStep, PaymentPublishes, Saga!Next, Saga!Proceed

LEMMA InventoryStepSaga ==
    ASSUME Quiet, CalmInventoryStep
    PROVE  Saga!Next \/ Saga!vars' = Saga!vars
<1>0. /\ SagaStatus' = SagaStatus /\ SagaPayment' = SagaPayment
      /\ reservations \in [Orders -> Nat] /\ InventoryStep
  BY SagaKept, TypesSplit
     DEF CalmInventoryStep, InventoryStep, OrderStill, PaymentStill, Quiet, Grounds, StoresTyped
<1>1. ASSUME reservations' = reservations PROVE Saga!vars' = Saga!vars
  BY <1>0, <1>1, SagaKept, SagaTerms
<1>2. ASSUME NEW o, Reserves(o) PROVE (\E p \in Orders : Saga!Reserve(p)) \/ Saga!vars' = Saga!vars
  <2>1. o \in Orders /\ PR(o) # {} /\ IR(o) = {} /\ NR(o) = {} /\ reservations[o] = 0
    BY <1>0, <1>2, NothingReserved
  <2>2. Created(o) # {} /\ PF(o) = {} /\ RB(o) = {} /\ PaymentAnnounced(o) /\ ~RollbackAnnounced(o)
    BY <2>1, OneOutcome
  <2>3. StatusOf(o) = "pending"
    BY <2>1, <2>2, PendingStill
  <2>4. PaymentOf(o) = "held"
    <3>1. payments[o] = <<"RESERVED">>
      BY <2>1, <2>2, UndisturbedSplit DEF Quiet, PaymentInStore
    <3> QED
      BY <3>1, PaymentValues
  <2>5. CASE reservations' = [reservations EXCEPT ![o] = @ + 1]
    <3>1. reservations'[o] = 1 /\ \A p \in Orders \ {o} : reservations'[p] = reservations[p]
      BY <1>0, <2>1, <2>5
    <3>2. (reservations'[o] > 0) = TRUE /\ ~(reservations[o] > 0)
      BY <2>1, <3>1
    <3>3. Saga!Reserve(o)
      BY <1>0, <2>1, <2>3, <2>4, <3>1, <3>2, SagaMoves, SagaTerms
    <3> QED
      BY <2>1, <3>3
  <2> QED
    BY <1>1, <1>2, <2>5 DEF Reserves
<1> QED
  BY <1>1, <1>2 DEF CalmInventoryStep, InventoryPublishes, Saga!Next, Saga!Proceed

LEMMA StepSaga ==
    ASSUME Quiet, Next, faults'.harmful = 0
    PROVE  Saga!Next \/ Saga!vars' = Saga!vars
BY CalmSteps, OrderStepSaga, PaymentStepSaga, InventoryStepSaga

LEMMA MindChanges ==
    ASSUME Grounds, Caused, Next, NEW o \in Orders, {orders[o], orders'[o]} = {"CONFIRMED", "CANCELLED"}
    PROVE  Cardinality(PaymentResults(o)) > 1 \/ Cardinality(InventoryResults(o)) > 1
<1>1. \/ orders[o] = "CONFIRMED" /\ orders'[o] = "CANCELLED"
      \/ orders[o] = "CANCELLED" /\ orders'[o] = "CONFIRMED"
  OBVIOUS
<1>2. \E t \in DOMAIN OrderHandled : Confirms(o, t) \/ Cancels(o, t)
  BY <1>1, OrderChanges
<1>3. IR(o) # {} /\ PF(o) \cup RB(o) # {}
  BY <1>1, <1>2 DEF Caused, Confirms, Cancels, IR, PF, RB, RolledBack
<1>4. PR(o) # {} /\ (RB(o) # {} => NR(o) # {})
  BY <1>3 DEF Caused, InventoryResults, PR, IR, RB, NR, RolledBack
<1>5. ASSUME NEW S, IsFiniteSet(S), NEW x \in S, NEW y \in S, x # y PROVE Cardinality(S) > 1
  BY <1>5, OnlyOne, FS_CardinalityType
<1>6. CASE PF(o) # {}
  <2>1. PICK x \in PR(o), y \in PF(o) : x # y
    BY <1>4, <1>6, KindsApart, TopicNames DEF PR, PF
  <2>2. x \in PaymentResults(o) /\ y \in PaymentResults(o)
    BY DEF PaymentResults, PR, PF
  <2> QED
    BY <1>5, <2>1, <2>2, ResultsFinite
<1>7. CASE RB(o) # {}
  <2>1. PICK x \in IR(o), y \in NR(o) : x # y
    BY <1>3, <1>4, <1>7, KindsApart, TopicNames DEF IR, NR
  <2>2. x \in InventoryResults(o) /\ y \in InventoryResults(o)
    BY DEF InventoryResults, IR, NR
  <2> QED
    BY <1>5, <2>1, <2>2, ResultsFinite
<1> QED
  BY <1>3, <1>6, <1>7

-----------------------------------------------------------------------------
(* The inductive invariant *)

LEMMA InitIInv ==
    ASSUME Init
    PROVE  IInv
<1>1. /\ TypeOK /\ DOMAIN topics = Topics
      /\ \A t \in Topics : topics[t] = <<>>
      /\ \A t \in DOMAIN OrderHandled : orderLoop[t].pc = "fetch" /\ orderLoop[t].retry = 0
      /\ \A t \in DOMAIN PaymentHandled : paymentLoop[t].pc = "fetch" /\ paymentLoop[t].retry = 0
      /\ \A t \in DOMAIN InventoryHandled : inventoryLoop[t].pc = "fetch" /\ inventoryLoop[t].retry = 0
      /\ \A o \in Orders : orders[o] = "NONE" /\ payments[o] = <<>> /\ reservations[o] = 0
      /\ requests = {} /\ faults.harmful = 0 /\ ~faults.untold
  BY Initially, TopicFacts DEF TypeOK
<1>2. \A t \in Topics : \A type, o : Ids(t, type, o) = {}
  <2>1. ASSUME NEW t \in Topics, NEW type, NEW o PROVE Ids(t, type, o) = {}
    <3>1. DOMAIN topics[t] = {}
      BY <1>1
    <3> QED
      BY <3>1 DEF Ids
  <2> QED
    BY <2>1
<1>3. \A o : /\ PR(o) = {} /\ PF(o) = {} /\ RB(o) = {} /\ IR(o) = {} /\ NR(o) = {} /\ Created(o) = {}
             /\ PaymentResults(o) = {} /\ InventoryResults(o) = {} /\ RolledBack(o) = {}
  BY <1>2, TopicNames DEF PR, PF, RB, IR, NR, Created, PaymentResults, InventoryResults, RolledBack
<1>4. IdsAreFresh
  <2>1. \A t \in Topics : DOMAIN topics[t] = {}
    BY <1>1
  <2> QED
    BY <2>1 DEF IdsAreFresh
<1>5. AnswersMatch
  BY <1>1 DEF AnswersMatch, Answers, PaymentHandled, InventoryHandled
<1>6. Caused
  BY <1>1, <1>3 DEF Caused, PR, PF, IR, NR
<1>7. \A o : CreatedMarked(o) = {} /\ ReservedMarked(o) = {} /\ FailedMarked(o) = {}
  BY <1>3 DEF CreatedMarked, ReservedMarked, FailedMarked, Marked, PR, NR
<1>8. Cardinality({}) = 0
  BY FS_EmptySet
<1>9. \A o : /\ Sending(paymentLoop["order-events"], o) = 0 /\ Sending(paymentLoop["inventory-events"], o) = 0
             /\ Sending(inventoryLoop["payment-events"], o) = 0
             /\ Spare(paymentLoop["order-events"], "order-events", o) = 0
             /\ Spare(inventoryLoop["payment-events"], "payment-events", o) = 0
  BY <1>1 DEF Sending, Spare, PaymentHandled, InventoryHandled
<1>10. RepetitionsCounted
  <2>1. 0 * (1 + 0) = 0 /\ 0 * (1 + 0) * (2 + 0) = 0
    OBVIOUS
  <2> SUFFICES ASSUME NEW o \in Orders
               PROVE  /\ 0 + 0 <= 0 + 0
                      /\ 2 * (0 + 0) <= 2 * 0 + 0 * (1 + 0)
                      /\ 6 * (0 + 0) <= 6 * 0 + 0 * (1 + 0) * (2 + 0)
    BY <1>1, <1>3, <1>7, <1>8, <1>9 DEF RepetitionsCounted
  <2> QED
    BY <2>1
<1>11. LeftoversCounted
  <2>1. (MaxRetries + 1) * 0 = 0 /\ Len(<<>>) = 0
    OBVIOUS
  <2>2. \A o \in Orders : Len(payments[o]) = 0 /\ reservations[o] = 0
    BY <1>1, <2>1
  <2> SUFFICES ASSUME NEW o \in Orders
               PROVE  0 + 0 <= 0 + (MaxRetries + 1) * 0
    BY <1>1, <1>7, <1>8, <1>9, <2>2 DEF LeftoversCounted
  <2> QED
    BY <2>1
<1>12. Undisturbed
  <2>1. NoneFails
    BY <1>1 DEF NoneFails
  <2>2. \A o : ~RollbackAnnounced(o) /\ ~PaymentAnnounced(o) /\ ~ReservationAnnounced(o)
    BY <1>1, <1>3 DEF RollbackAnnounced, PaymentAnnounced, ReservationAnnounced, Announced, PR, IR,
                      PaymentHandled, InventoryHandled
  <2>3. \A o \in Orders : DecisionsMarked(o) /\ PaymentInStore(o) /\ ReservationInStore(o)
    BY <1>1, <2>2 DEF DecisionsMarked, PaymentInStore, ReservationInStore
  <2> QED
    BY <1>1, <2>1, <2>3, UndisturbedSplit
<1> QED
  BY <1>1, <1>4, <1>5, <1>6, <1>10, <1>11, <1>12 DEF IInv

LEMMA StepIInv ==
    ASSUME IInv, Next
    PROVE  IInv'
<1>1. Grounds /\ Caused /\ RepetitionsCounted /\ LeftoversCounted /\ (faults.harmful = 0 => Undisturbed)
  BY DEF IInv, Grounds
<1>2. Grounds' /\ faults'.harmful >= faults.harmful /\ faults.harmful \in Nat
  BY <1>1, StepGrounds DEF FaultsMove, Grounds, TypeOK
<1>3. Caused' /\ RepetitionsCounted' /\ LeftoversCounted'
  BY <1>1, StepCaused, StepCounted, StepCovered
<1>4. ASSUME faults'.harmful = 0 PROVE Undisturbed'
  BY <1>1, <1>2, <1>4, StepUndisturbed DEF Quiet
<1> QED
  BY <1>2, <1>3, <1>4 DEF IInv, Grounds

LEMMA StutterIInv ==
    ASSUME IInv, UNCHANGED vars
    PROVE  IInv'
<1> SUFFICES IInv' = IInv
  OBVIOUS
<1>1. /\ topics' = topics /\ orderLoop' = orderLoop /\ orderSeen' = orderSeen /\ orders' = orders
      /\ requests' = requests /\ paymentLoop' = paymentLoop /\ paymentSeen' = paymentSeen
      /\ payments' = payments /\ inventoryLoop' = inventoryLoop /\ inventorySeen' = inventorySeen
      /\ reservations' = reservations /\ faults' = faults
  BY DEF vars, orderState, paymentState, inventoryState
<1>2. TypeOK' = TypeOK
  BY <1>1
     DEF TypeOK, OrderService!TypeOK, PaymentService!TypeOK,
         InventoryService!TypeOK, OrderService!ConsumersTypeOK, PaymentService!ConsumersTypeOK,
         InventoryService!ConsumersTypeOK, OrderService!Loops, PaymentService!Loops, InventoryService!Loops,
         OrderService!Outs, PaymentService!Outs, InventoryService!Outs
<1>3. IdsAreFresh' = IdsAreFresh /\ AnswersMatch' = AnswersMatch
  BY <1>1 DEF IdsAreFresh, AnswersMatch, Answers
<1>4. (\A t, type, o : Ids(t, type, o)' = Ids(t, type, o))
  BY <1>1 DEF Ids
<1>5. \A o : /\ Created(o)' = Created(o) /\ RolledBack(o)' = RolledBack(o)
             /\ PaymentResults(o)' = PaymentResults(o) /\ InventoryResults(o)' = InventoryResults(o)
  BY <1>4 DEF Created, RolledBack, PaymentResults, InventoryResults
<1>6. Caused' = Caused
  BY <1>1, <1>4, <1>5 DEF Caused
<1>7. \A o : /\ CreatedMarked(o)' = CreatedMarked(o) /\ ReservedMarked(o)' = ReservedMarked(o)
             /\ FailedMarked(o)' = FailedMarked(o)
  BY <1>1, <1>4, <1>5 DEF CreatedMarked, ReservedMarked, FailedMarked, Marked
<1>8. \A t, o : /\ Sending(paymentLoop[t], o)' = Sending(paymentLoop[t], o)
                /\ Sending(inventoryLoop[t], o)' = Sending(inventoryLoop[t], o)
                /\ Spare(paymentLoop[t], t, o)' = Spare(paymentLoop[t], t, o)
                /\ Spare(inventoryLoop[t], t, o)' = Spare(inventoryLoop[t], t, o)
  BY <1>1 DEF Sending, Spare
<1>9. RepetitionsCounted' = RepetitionsCounted
  BY <1>1, <1>5, <1>7, <1>8 DEF RepetitionsCounted
<1>10. LeftoversCounted' = LeftoversCounted
  BY <1>1, <1>7, <1>8 DEF LeftoversCounted
<1>11. \A o : /\ RollbackAnnounced(o)' = RollbackAnnounced(o) /\ PaymentAnnounced(o)' = PaymentAnnounced(o)
              /\ ReservationAnnounced(o)' = ReservationAnnounced(o)
  BY <1>1, <1>4, <1>5 DEF RollbackAnnounced, PaymentAnnounced, ReservationAnnounced, Announced
<1>12. Undisturbed' = Undisturbed
  <2>1. NoneFails' = NoneFails
    BY <1>1 DEF NoneFails
  <2>2. \A o : /\ DecisionsMarked(o)' = DecisionsMarked(o) /\ PaymentInStore(o)' = PaymentInStore(o)
               /\ ReservationInStore(o)' = ReservationInStore(o)
    BY <1>1, <1>4, <1>11 DEF DecisionsMarked, PaymentInStore, ReservationInStore, Marked, PR, PF, RB, IR, NR
  <2> QED
    BY <1>1, <2>1, <2>2, UndisturbedSplit, UndisturbedSplitThen
<1> QED
  BY <1>1, <1>2, <1>3, <1>6, <1>9, <1>10, <1>12 DEF IInv

\* Why repetitions and leftovers are bounded and undisturbed services agree: this holds
\* however often messages are lost, copied or handled anew.
THEOREM Invariance == Spec => []IInv
<1>1. Init => IInv
  BY InitIInv
<1>2. IInv /\ [Next]_vars => IInv'
  BY StepIInv, StutterIInv
<1> QED
  BY <1>1, <1>2, PTL DEF Spec

\* Topics, services and faults have their types, and no consumer runs ahead of its topic.
THEOREM TypeCorrect == Spec => []TypeOK
BY Invariance, PTL DEF IInv

LEMMA CausesKnown ==
    ASSUME IInv
    PROVE  EventsAreCaused
<1>1. Caused
  BY DEF IInv
<1> SUFFICES ASSUME NEW o \in Orders
             PROVE  /\ orders[o] = "CONFIRMED" => Ids("inventory-events", "InventoryReserved", o) # {}
                    /\ PaymentResults(o) # {} => orders[o] # "NONE"
                    /\ InventoryResults(o) # {} => Ids("payment-events", "PaymentReserved", o) # {}
                    /\ RolledBack(o) # {} => Ids("inventory-events", "InventoryFailed", o) # {}
  BY DEF EventsAreCaused
<1> QED
  BY <1>1 DEF Caused

\* No handler invents an order, a payment or a reservation: every event and every
\* confirmation has its cause in the topics, whatever fails and is repeated.
THEOREM NothingInvented == Spec => []EventsAreCaused
BY Invariance, CausesKnown, PTL

LEMMA RepetitionsKnown ==
    ASSUME IInv
    PROVE  RepetitionBounded
<1>1. Grounds /\ Caused /\ RepetitionsCounted
  BY DEF IInv, Grounds
<1> QED
  BY <1>1, CountedBounded DEF RepetitionBounded

\* However many faults come, the results of a step about one order stay within the first,
\* second and third degree in their number.
THEOREM RepetitionsMultiplySlowly == Spec => []RepetitionBounded
BY Invariance, RepetitionsKnown, PTL

LEMMA LeftoversKnown ==
    ASSUME IInv
    PROVE  LeftoversBounded
BY CoveredBounded DEF IInv, Grounds

\* The payments and reservations that retries leave in the stores are bounded by the
\* attempts the faults give them.
THEOREM LeftoversAreFew == Spec => []LeftoversBounded
BY Invariance, LeftoversKnown, PTL

\* order-service turns a confirmed order into a cancelled one, or back, only when a
\* service answered about it more than once.
THEOREM MindsChangeByRepetition == Spec => MindChangesNeedRepetition
<1>1. ASSUME IInv, [Next]_vars
      PROVE  \/ \A o \in Orders :
                   {orders[o], orders'[o]} = {"CONFIRMED", "CANCELLED"} =>
                       Cardinality(PaymentResults(o)) > 1 \/ Cardinality(InventoryResults(o)) > 1
             \/ UNCHANGED vars
  <2>1. Grounds /\ Caused
    BY <1>1 DEF IInv, Grounds
  <2> QED
    BY <1>1, <2>1, MindChanges
<1>2. IInv /\ [Next]_vars =>
          [\A o \in Orders :
              {orders[o], orders'[o]} = {"CONFIRMED", "CANCELLED"} =>
                  Cardinality(PaymentResults(o)) > 1 \/ Cardinality(InventoryResults(o)) > 1]_vars
  BY <1>1
<1> QED
  BY <1>2, Invariance, PTL DEF Spec, MindChangesNeedRepetition

LEMMA SagaInit ==
    ASSUME Init
    PROVE  Saga!Init
<1>1. \A o \in Orders : orders[o] = "NONE" /\ payments[o] = <<>> /\ reservations[o] = 0
  BY Initially
<1>2. \A o \in Orders : StatusOf(o) = "none" /\ PaymentOf(o) = "none" /\ (reservations[o] > 0) = FALSE
  BY <1>1, PaymentValues DEF StatusOf
<1> QED
  BY <1>2 DEF Saga!Init

LEMMA SagaStep ==
    ASSUME IInv, [Next]_vars
    PROVE  [Saga!Next \/ faults'.harmful > 0]_(Saga!vars)
<1>1. CASE UNCHANGED vars
  <2>1. orders' = orders /\ payments' = payments /\ reservations' = reservations
    BY <1>1 DEF vars, orderState, paymentState, inventoryState
  <2> QED
    BY <2>1, SagaKept, SagaTerms
<1>2. CASE Next
  <2>1. Grounds /\ (faults.harmful = 0 => Quiet)
    BY DEF IInv, Grounds, Quiet
  <2>2. faults'.harmful >= faults.harmful /\ faults.harmful \in Nat /\ faults'.harmful \in Nat
    BY <1>2, <2>1, StepGrounds DEF FaultsMove, Grounds, TypeOK, FaultsTyped
  <2>3. CASE faults'.harmful = 0
    BY <1>2, <2>1, <2>2, <2>3, StepSaga
  <2> QED
    BY <2>2, <2>3
<1> QED
  BY <1>1, <1>2

\* Until the first fault that deduplication and redelivery do not make up for, the three
\* services take only steps of the order saga, though none of them knows of it.
THEOREM Refinement == Spec => ImplementsOrderSaga
<1>1. Init => Saga!Init
  BY SagaInit
<1>2. IInv /\ [Next]_vars => [Saga!Next \/ faults'.harmful > 0]_(Saga!vars)
  BY SagaStep
<1> QED
  BY <1>1, <1>2, Invariance, PTL DEF Spec, ImplementsOrderSaga
=============================================================================
