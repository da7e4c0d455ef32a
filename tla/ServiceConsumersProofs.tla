------------------------ MODULE ServiceConsumersProofs ------------------------
(***************************************************************************)
(* The consumers of any service, for every set of topics and handlers: how *)
(* topics grow, what each step leaves of the types, and how often what is  *)
(* published can have been repeated.  The proofs about whole systems take  *)
(* these lemmas for each of their services.                                *)
(***************************************************************************)
EXTENDS ServiceConsumers, FiniteSetTheorems, TLAPS

FaultRecords == [all : 0..MaxFaults, harmful : Nat, untold : BOOLEAN]

TopicsTyped ==
    /\ topics \in [DOMAIN topics -> Seq(Messages)]
    /\ Reads \subseteq DOMAIN topics
    /\ "none" \notin DOMAIN topics

Typed ==
    /\ MaxRetries \in Nat
    /\ MaxFaults \in Nat
    /\ TopicsTyped
    /\ faults \in FaultRecords
    /\ ConsumersTypeOK

\* Copies share an id, different messages of a topic never do.
IdsAreFresh ==
    \A t \in DOMAIN topics : \A i \in DOMAIN topics[t] :
        /\ topics[t][i].id \in 1..i
        /\ \A j \in DOMAIN topics[t] : topics[t][i].id = topics[t][j].id => topics[t][i] = topics[t][j]

\* The ids of a topic's messages of these types about an order.
LogIds(log, types, o) ==
    {log[i].id : i \in {i \in DOMAIN log : log[i].type \in types /\ log[i].order = o}}

Ids(t, types, o) == LogIds(topics[t], types, o)

-----------------------------------------------------------------------------
(* Topics grow at their end *)

\* The message m is added to its topic, once or several times, with a fresh id.
Grown(m) ==
    LET old == topics[m.topic]
        new == topics'[m.topic]
    IN  /\ topics' \in [DOMAIN topics -> Seq(Messages)]
        /\ \A t \in DOMAIN topics : t # m.topic => topics'[t] = topics[t]
        /\ Len(new) > Len(old)
        /\ \A i \in DOMAIN new :
               new[i] = IF i <= Len(old) THEN old[i]
                        ELSE [id |-> Len(old) + 1, type |-> m.type, order |-> m.order]

Entry(log, m) == [id |-> Len(log) + 1, type |-> m.type, order |-> m.order]

LEMMA EntryTyped ==
    ASSUME TopicsTyped, NEW m \in Outs
    PROVE  /\ m.topic \in DOMAIN topics
           /\ topics[m.topic] \in Seq(Messages)
           /\ Entry(topics[m.topic], m) \in Messages
<1>1. m.topic \in DOMAIN topics /\ m.type \in Types /\ m.order \in Orders
  BY DEF Outs
<1>2. topics[m.topic] \in Seq(Messages) /\ Len(topics[m.topic]) + 1 \in Nat
  BY <1>1 DEF TopicsTyped
<1>3. [id |-> Len(topics[m.topic]) + 1, type |-> m.type, order |-> m.order]
          \in [id : Nat, type : Types, order : Orders]
  BY <1>1, <1>2
<1> QED
  BY <1>1, <1>2, <1>3 DEF Entry, Messages

LEMMA SentGrows ==
    ASSUME TopicsTyped, NEW m \in Outs, Sent(m)
    PROVE  Grown(m)
<1> DEFINE log == topics[m.topic]
           e == Entry(log, m)
<1>1. m.topic \in DOMAIN topics /\ e \in Messages /\ log \in Seq(Messages)
  BY EntryTyped
<1>2. topics' = [topics EXCEPT ![m.topic] = Append(log, e)]
  BY DEF Sent, Written, Entry
<1>3. topics'[m.topic] = Append(log, e) /\ \A t \in DOMAIN topics : t # m.topic => topics'[t] = topics[t]
  BY <1>1, <1>2 DEF TopicsTyped
<1>4. Append(log, e) \in Seq(Messages) /\ Len(Append(log, e)) = Len(log) + 1
  BY <1>1
<1>5. \A i \in 1..(Len(log) + 1) : Append(log, e)[i] = IF i <= Len(log) THEN log[i] ELSE e
  BY <1>1
<1>6. topics' \in [DOMAIN topics -> Seq(Messages)]
  BY <1>1, <1>2, <1>4 DEF TopicsTyped
<1>7. DOMAIN topics'[m.topic] = 1..(Len(log) + 1) /\ Len(log) \in Nat
  BY <1>1, <1>3, <1>4
<1> QED
  BY <1>3, <1>4, <1>5, <1>6, <1>7 DEF Grown, Entry

LEMMA SentTwiceGrows ==
    ASSUME TopicsTyped, NEW m \in Outs, SentTwice(m)
    PROVE  Grown(m)
<1> DEFINE log == topics[m.topic]
           e == Entry(log, m)
           more == Append(Append(log, e), e)
<1>1. m.topic \in DOMAIN topics /\ e \in Messages /\ log \in Seq(Messages)
  BY EntryTyped
<1>2. Append(log, e)[Len(log) + 1] = e
  BY <1>1
<1>3. topics' = [topics EXCEPT ![m.topic] = more]
  BY <1>2 DEF SentTwice, WrittenTwice, Written, Entry
<1>4. topics'[m.topic] = more /\ \A t \in DOMAIN topics : t # m.topic => topics'[t] = topics[t]
  BY <1>1, <1>3 DEF TopicsTyped
<1>5. more \in Seq(Messages) /\ Len(more) = Len(log) + 2
  BY <1>1
<1>6. \A i \in 1..(Len(log) + 2) : more[i] = IF i <= Len(log) THEN log[i] ELSE e
  BY <1>1
<1>7. topics' \in [DOMAIN topics -> Seq(Messages)]
  BY <1>1, <1>3, <1>5 DEF TopicsTyped
<1>8. DOMAIN topics'[m.topic] = 1..(Len(log) + 2) /\ Len(log) \in Nat
  BY <1>1, <1>4, <1>5
<1> QED
  BY <1>4, <1>5, <1>6, <1>7, <1>8 DEF Grown, Entry

\* What is in a topic stays where it is.
LEMMA GrownKeeps ==
    ASSUME TopicsTyped, NEW m \in Outs, Grown(m), NEW t \in DOMAIN topics
    PROVE  /\ Len(topics[t]) <= Len(topics'[t])
           /\ \A i \in DOMAIN topics[t] : i \in DOMAIN topics'[t] /\ topics'[t][i] = topics[t][i]
<1>1. topics[t] \in Seq(Messages) /\ topics'[t] \in Seq(Messages)
  BY DEF TopicsTyped, Grown
<1>2. CASE t = m.topic
  BY <1>1, <1>2 DEF Grown
<1>3. CASE t # m.topic
  BY <1>1, <1>3 DEF Grown
<1> QED
  BY <1>2, <1>3

LEMMA GrownTyped ==
    ASSUME TopicsTyped, NEW m \in Outs, Grown(m)
    PROVE  TopicsTyped' /\ DOMAIN topics' = DOMAIN topics /\ Outs' = Outs /\ Loops' = Loops
<1>1. topics' \in [DOMAIN topics -> Seq(Messages)] /\ DOMAIN topics' = DOMAIN topics
  BY DEF Grown
<1> QED
  BY <1>1 DEF TopicsTyped, Messages, Outs, Loops

LEMMA GrownIsFresh ==
    ASSUME TopicsTyped, IdsAreFresh, NEW m \in Outs, Grown(m)
    PROVE  IdsAreFresh'
<1> SUFFICES ASSUME NEW t \in DOMAIN topics, NEW i \in DOMAIN topics'[t], NEW j \in DOMAIN topics'[t]
             PROVE  /\ topics'[t][i].id \in 1..i
                    /\ topics'[t][i].id = topics'[t][j].id => topics'[t][i] = topics'[t][j]
  BY GrownTyped DEF IdsAreFresh
<1>1. CASE t # m.topic
  BY <1>1 DEF Grown, IdsAreFresh
<1>2. CASE t = m.topic
  <2> DEFINE old == Len(topics[t])
  <2>1. old \in Nat /\ DOMAIN topics[t] = 1..old /\ Len(topics'[t]) \in Nat /\ DOMAIN topics'[t] = 1..Len(topics'[t])
    BY DEF Grown, TopicsTyped
  <2>2. \A k \in DOMAIN topics'[t] :
            \/ k \in DOMAIN topics[t] /\ topics'[t][k] = topics[t][k] /\ topics[t][k].id \in 1..k /\ k <= old
            \/ topics'[t][k] = [id |-> old + 1, type |-> m.type, order |-> m.order] /\ k > old
    BY <1>2, <2>1 DEF Grown, IdsAreFresh
  <2>3. topics'[t][i].id \in 1..i
    BY <2>1, <2>2
  <2>4. topics'[t][i].id = topics'[t][j].id => topics'[t][i] = topics'[t][j]
    <3>1. CASE i \in DOMAIN topics[t] /\ j \in DOMAIN topics[t]
      BY <2>1, <2>2, <3>1 DEF IdsAreFresh
    <3>2. CASE i \notin DOMAIN topics[t] \/ j \notin DOMAIN topics[t]
      BY <2>1, <2>2, <3>2
    <3> QED
      BY <3>1, <3>2
  <2> QED
    BY <2>3, <2>4
<1> QED
  BY <1>1, <1>2

\* A topic's ids of some types and an order: unchanged, or one more, which is fresh.
LEMMA GrownIds ==
    ASSUME TopicsTyped, IdsAreFresh, NEW m \in Outs, Grown(m), NEW t \in DOMAIN topics, NEW types, NEW o
    PROVE  LET new == Len(topics[t]) + 1
           IN  /\ new \notin Ids(t, types, o)
               /\ Ids(t, types, o)' = IF t = m.topic /\ m.type \in types /\ o = m.order
                                      THEN Ids(t, types, o) \cup {new} ELSE Ids(t, types, o)
<1> DEFINE new == Len(topics[t]) + 1
<1>1. \A i \in DOMAIN topics[t] : topics[t][i].id \in 1..i /\ i <= Len(topics[t])
  BY DEF IdsAreFresh, TopicsTyped
<1>2. new \notin Ids(t, types, o)
  BY <1>1 DEF Ids, LogIds, TopicsTyped
<1>3. CASE t # m.topic
  BY <1>2, <1>3 DEF Grown, Ids, LogIds
<1>4. CASE t = m.topic
  <2>1. \A i \in DOMAIN topics[t] : i \in DOMAIN topics'[t] /\ topics'[t][i] = topics[t][i]
    BY GrownKeeps
  <2>2. \A i \in DOMAIN topics'[t] \ DOMAIN topics[t] :
            topics'[t][i] = [id |-> new, type |-> m.type, order |-> m.order]
    BY <1>4 DEF Grown, TopicsTyped
  <2>3. new \in DOMAIN topics'[t] \ DOMAIN topics[t]
    BY <1>4 DEF Grown, TopicsTyped
  <2> QED
    BY <1>2, <1>4, <2>1, <2>2, <2>3 DEF Ids, LogIds
<1> QED
  BY <1>2, <1>3, <1>4

\* A message in a topic is among the ids of its types and order, and of no others.
LEMMA InIds ==
    ASSUME IdsAreFresh, NEW t \in DOMAIN topics, NEW i \in DOMAIN topics[t], NEW types, NEW o
    PROVE  topics[t][i].id \in Ids(t, types, o) <=> topics[t][i].type \in types /\ topics[t][i].order = o
BY DEF IdsAreFresh, Ids, LogIds

LEMMA LogIdsFinite ==
    ASSUME NEW log \in Seq(Messages), \A i \in DOMAIN log : log[i].id \in 1..i, NEW types, NEW o
    PROVE  IsFiniteSet(LogIds(log, types, o))
<1>1. Len(log) \in Nat /\ DOMAIN log = 1..Len(log)
  OBVIOUS
<1>2. LogIds(log, types, o) \subseteq 1..Len(log)
  BY <1>1 DEF LogIds
<1>3. IsFiniteSet(1..Len(log))
  BY <1>1, FS_Interval
<1> QED
  BY <1>2, <1>3, FS_Subset

LEMMA IdsFinite ==
    ASSUME TopicsTyped, IdsAreFresh, NEW t \in DOMAIN topics, NEW types, NEW o
    PROVE  IsFiniteSet(Ids(t, types, o))
BY LogIdsFinite DEF TopicsTyped, IdsAreFresh, Ids

LEMMA IdsFiniteThen ==
    ASSUME TopicsTyped', IdsAreFresh', NEW t \in DOMAIN topics', NEW types, NEW o
    PROVE  IsFiniteSet(Ids(t, types, o)')
BY LogIdsFinite DEF TopicsTyped, IdsAreFresh, Ids

-----------------------------------------------------------------------------
(* What the steps of a consumer leave of the types *)

LEMMA FaultTyped ==
    ASSUME MaxFaults \in Nat, faults \in FaultRecords, NEW kind, Fault(kind)
    PROVE  /\ faults' \in FaultRecords
           /\ faults'.untold = faults.untold
           /\ faults'.harmful = IF kind \in HarmlessFaultKinds THEN faults.harmful ELSE faults.harmful + 1
<1> DEFINE harm == IF kind \in HarmlessFaultKinds THEN faults.harmful ELSE faults.harmful + 1
<1>1. faults.all \in 0..MaxFaults /\ faults.harmful \in Nat /\ faults.untold \in BOOLEAN
  BY DEF FaultRecords
<1>2. faults' = [faults EXCEPT !.all = faults.all + 1, !.harmful = harm]
  BY DEF Fault
<1>3. harm \in Nat /\ faults.all + 1 \in 0..MaxFaults
  BY <1>1 DEF Fault
<1>4. faults' = [all |-> faults.all + 1, harmful |-> harm, untold |-> faults.untold]
  BY <1>2, Zenon DEF FaultRecords
<1>5. faults' \in FaultRecords
  BY <1>1, <1>3, <1>4, Zenon DEF FaultRecords
<1> QED
  BY <1>4, <1>5

\* Others: messages that come in, and faults elsewhere.
Elsewhere ==
    /\ UNCHANGED <<loop, seen>>
    /\ topics' = topics \/ \E m \in Outs : Grown(m)
    /\ faults' \in FaultRecords

LEMMA SameLoops ==
    ASSUME Typed, topics' = topics \/ \E m \in Outs : Grown(m)
    PROVE  /\ TopicsTyped'
           /\ DOMAIN topics' = DOMAIN topics
           /\ Loops' = Loops
           /\ Outs' = Outs
           /\ \A t \in DOMAIN topics :
                  /\ Len(topics[t]) \in Nat /\ Len(topics'[t]) \in Nat
                  /\ Len(topics[t]) <= Len(topics'[t])
                  /\ \A i \in DOMAIN topics[t] : i \in DOMAIN topics'[t] /\ topics'[t][i] = topics[t][i]
<1>1. TopicsTyped
  BY DEF Typed
<1>2. CASE topics' = topics
  BY <1>1, <1>2 DEF TopicsTyped, Outs, Loops
<1>3. ASSUME NEW m \in Outs, Grown(m)
      PROVE  /\ TopicsTyped'
             /\ DOMAIN topics' = DOMAIN topics
             /\ Loops' = Loops
             /\ Outs' = Outs
             /\ \A t \in DOMAIN topics :
                    /\ Len(topics[t]) \in Nat /\ Len(topics'[t]) \in Nat
                    /\ Len(topics[t]) <= Len(topics'[t])
                    /\ \A i \in DOMAIN topics[t] : i \in DOMAIN topics'[t] /\ topics'[t][i] = topics[t][i]
  <2>1. TopicsTyped' /\ DOMAIN topics' = DOMAIN topics /\ Outs' = Outs /\ Loops' = Loops
    BY <1>1, <1>3, GrownTyped
  <2>2. \A t \in DOMAIN topics : Len(topics[t]) \in Nat /\ Len(topics'[t]) \in Nat
    BY <1>1, <2>1 DEF TopicsTyped
  <2> QED
    BY <1>1, <1>3, <2>1, <2>2, GrownKeeps
<1> QED
  BY <1>2, <1>3

LEMMA ElsewhereTyped ==
    ASSUME Typed, Elsewhere
    PROVE  Typed'
<1>1. /\ TopicsTyped' /\ Loops' = Loops
      /\ \A t \in DOMAIN topics : Len(topics[t]) \in Nat /\ Len(topics'[t]) \in Nat /\ Len(topics[t]) <= Len(topics'[t])
  BY SameLoops DEF Elsewhere
<1>2. \A t \in Reads : Coherent(loop[t], topics'[t])
  <2> SUFFICES ASSUME NEW t \in Reads PROVE Coherent(loop[t], topics'[t])
    OBVIOUS
  <2>1. Coherent(loop[t], topics[t]) /\ t \in DOMAIN topics /\ loop[t].fetched \in Nat
    BY DEF Typed, ConsumersTypeOK, TopicsTyped, Loops
  <2> QED
    BY <1>1, <2>1 DEF Coherent
<1>3. ConsumersTypeOK'
  BY <1>1, <1>2 DEF Typed, ConsumersTypeOK, Elsewhere
<1> QED
  BY <1>1, <1>3 DEF Typed, Elsewhere, FaultRecords

\* One consumer moves on and leaves the others alone.
LEMMA MovedTyped ==
    ASSUME Typed, topics' = topics \/ \E m \in Outs : Grown(m), faults' \in FaultRecords,
           seen' \subseteq Reads \X Nat,
           NEW t \in Reads, NEW l \in Loops, PassTo(t, l), Coherent(l, topics[t])
    PROVE  Typed' /\ loop'[t] = l /\ \A u \in Reads \ {t} : loop'[u] = loop[u]
<1>1. /\ TopicsTyped' /\ Loops' = Loops
      /\ \A u \in DOMAIN topics : Len(topics[u]) \in Nat /\ Len(topics'[u]) \in Nat /\ Len(topics[u]) <= Len(topics'[u])
  BY SameLoops
<1>2. loop \in [Reads -> Loops] /\ Reads \subseteq DOMAIN topics
  BY DEF Typed, ConsumersTypeOK, TopicsTyped
<1>3. loop' \in [Reads -> Loops] /\ loop'[t] = l /\ \A u \in Reads \ {t} : loop'[u] = loop[u]
  BY <1>2 DEF PassTo
<1>4. \A u \in Reads : Coherent(loop'[u], topics'[u])
  <2> SUFFICES ASSUME NEW u \in Reads PROVE Coherent(loop'[u], topics'[u])
    OBVIOUS
  <2>1. Coherent(loop'[u], topics[u]) /\ loop'[u].fetched \in Nat /\ u \in DOMAIN topics
    BY <1>2, <1>3 DEF Typed, ConsumersTypeOK, Loops
  <2> QED
    BY <1>1, <2>1 DEF Coherent
<1>5. ConsumersTypeOK'
  BY <1>1, <1>3, <1>4 DEF ConsumersTypeOK
<1> QED
  BY <1>1, <1>3, <1>5 DEF Typed, FaultRecords

\* The message in hand.
LEMMA HandFacts ==
    ASSUME Typed, NEW t \in Reads
    PROVE  /\ t \in DOMAIN topics
           /\ loop[t] \in Loops
           /\ Coherent(loop[t], topics[t])
           /\ Len(topics[t]) \in Nat
           /\ At(t) \in Nat
           /\ Took(t) = [loop[t] EXCEPT !.fetched = At(t)]
           /\ Took(t) \in Loops
           /\ Ready(t) \/ loop[t].pc \in {"publish", "dead", "commit"} =>
                  /\ At(t) \in 1..Len(topics[t])
                  /\ At(t) \in DOMAIN topics[t]
                  /\ loop[t].committed <= At(t)
                  /\ InHand(t) \in Messages
                  /\ Id(t) \in Reads \X Nat
           /\ loop[t].pc \in {"handle", "publish", "dead", "commit"} => At(t) = loop[t].fetched /\ Took(t) = loop[t]
<1>1. t \in DOMAIN topics /\ loop[t] \in Loops /\ Coherent(loop[t], topics[t]) /\ Len(topics[t]) \in Nat
      /\ topics[t] \in Seq(Messages)
  BY DEF Typed, ConsumersTypeOK, TopicsTyped
<1>2. loop[t].fetched \in Nat /\ loop[t].committed \in Nat /\ At(t) \in Nat
  BY <1>1 DEF Loops, At
<1>3. Took(t) = [loop[t] EXCEPT !.fetched = At(t)]
  BY DEF Took
<1>4. Took(t) \in Loops
  BY <1>1, <1>2, <1>3 DEF Loops
<1>5. ASSUME Ready(t) \/ loop[t].pc \in {"publish", "dead", "commit"}
      PROVE  At(t) \in 1..Len(topics[t]) /\ loop[t].committed <= At(t)
  BY <1>1, <1>2, <1>5 DEF Ready, At, Coherent
<1>6. ASSUME At(t) \in 1..Len(topics[t])
      PROVE  At(t) \in DOMAIN topics[t] /\ InHand(t) \in Messages /\ Id(t) \in Reads \X Nat
  <2>1. At(t) \in DOMAIN topics[t] /\ InHand(t) \in Messages
    BY <1>1, <1>6 DEF InHand
  <2>2. InHand(t).id \in Nat
    BY <2>1 DEF Messages
  <2> QED
    BY <2>1, <2>2 DEF Id
<1>7. ASSUME loop[t].pc \in {"handle", "publish", "dead", "commit"}
      PROVE  At(t) = loop[t].fetched /\ Took(t) = loop[t]
  BY <1>1, <1>3, <1>7 DEF At, Loops
<1> QED
  BY <1>1, <1>2, <1>3, <1>4, <1>5, <1>6, <1>7

-----------------------------------------------------------------------------
(* What each step does *)

\* The consumer moves on by itself; nobody else notices.
Moves(t) == Skip(t) \/ SkipDuplicate(t) \/ Commit(t) \/ CommitError(t) \/ DeadLetter(t) \/ DeadLetterError(t)

\* A handler that will publish m, one that will not, and one that finds nothing to work on.
Handle(t, m) == Begin(t) /\ GoPublish(t, m) /\ UNCHANGED <<topics, faults>>
Digest(t) == Begin(t) /\ Finish(t) /\ UNCHANGED <<topics, faults>>
NotFound(t) == Handles(t) /\ Id(t) \notin seen /\ Fail(t) /\ UNCHANGED <<topics, seen, faults>>

OthersKept(t) == \A u \in Reads \ {t} : loop'[u] = loop[u]

LEMMA InitTyped ==
    ASSUME MaxRetries \in Nat, MaxFaults \in Nat, TopicsTyped, faults \in FaultRecords, ConsumersInit
    PROVE  Typed /\ \A t \in Reads : loop[t].pc = "fetch" /\ loop[t].retry = 0
<1>1. \A t \in Reads : loop[t] = [pc |-> "fetch", committed |-> 0, fetched |-> 0, retry |-> 0, out |-> Silent, letters |-> {}]
  BY DEF ConsumersInit, StartAt
<1>2. ASSUME NEW t \in Reads PROVE loop[t] \in Loops
  <2> DEFINE outs == Outs \cup {Silent}
             letters == SUBSET Orders
             pcs == {"fetch", "handle", "publish", "dead", "commit"}
  <2>1. "fetch" \in pcs /\ Silent \in outs /\ {} \in letters
    OBVIOUS
  <2> HIDE DEF outs, letters, pcs
  <2>2. Loops = [pc : pcs, committed : Nat, fetched : Nat, retry : Nat, out : outs, letters : letters]
    BY DEF Loops, outs, letters, pcs
  <2> QED
    BY <1>1, <2>1, <2>2
<1>3. ASSUME NEW t \in Reads PROVE Coherent(loop[t], topics[t])
  <2>1. Len(topics[t]) \in Nat
    BY DEF TopicsTyped
  <2>2. loop[t].pc = "fetch" /\ loop[t].committed = 0 /\ loop[t].fetched = 0 /\ loop[t].retry = 0 /\ loop[t].out = Silent
    BY <1>1
  <2> QED
    BY <2>1, <2>2 DEF Coherent
<1>4. ConsumersTypeOK
  BY <1>2, <1>3 DEF ConsumersTypeOK, ConsumersInit
<1> QED
  BY <1>1, <1>4 DEF Typed

LEMMA SilentFacts ==
    ASSUME TopicsTyped
    PROVE  Silent \notin Outs
BY DEF Silent, Outs, TopicsTyped

Pcs == {"fetch", "handle", "publish", "dead", "commit"}

Changed(l, p, r, m) == [l EXCEPT !.pc = p, !.retry = r, !.out = m]

LEMMA LoopChanged ==
    ASSUME NEW l \in Loops, NEW p \in Pcs, NEW r \in Nat, NEW m \in Outs \cup {Silent}
    PROVE  /\ Changed(l, p, r, m) \in Loops
           /\ Changed(l, p, r, m).pc = p
           /\ Changed(l, p, r, m).retry = r
           /\ Changed(l, p, r, m).out = m
           /\ Changed(l, p, r, m).fetched = l.fetched
           /\ Changed(l, p, r, m).committed = l.committed
<1> DEFINE e == [pc |-> p, committed |-> l.committed, fetched |-> l.fetched, retry |-> r, out |-> m,
                 letters |-> l.letters]
           outs == Outs \cup {Silent}
           letters == SUBSET Orders
<1> HIDE DEF outs, letters
<1>1. Loops = [pc : Pcs, committed : Nat, fetched : Nat, retry : Nat, out : outs, letters : letters]
  BY DEF Loops, Pcs, outs, letters
<1>2. m \in outs
  BY DEF outs
<1>3. e \in Loops
  BY <1>1, <1>2
<1>4. Changed(l, p, r, m) = e
  <2>1. ASSUME NEW k, k = [l EXCEPT !.pc = p, !.retry = r, !.out = m]
        PROVE  k = e
    BY <1>1, <2>1, Zenon
  <2> QED
    BY <2>1 DEF Changed
<1> QED
  BY <1>3, <1>4

LEMMA FinishedTyped ==
    ASSUME Typed, NEW t \in Reads, Ready(t) \/ loop[t].pc \in {"publish", "dead", "commit"}
    PROVE  /\ Finished(Took(t)) \in Loops
           /\ Coherent(Finished(Took(t)), topics[t])
           /\ Finished(Took(t)).pc = "commit"
           /\ Finished(Took(t)).retry = 0
           /\ Finished(Took(t)).fetched = At(t)
<1> DEFINE l == Took(t)
           k == Finished(l)
<1>1. l \in Loops /\ l.fetched = At(t) /\ l.committed <= At(t) /\ At(t) \in 1..Len(topics[t])
  BY HandFacts DEF Loops
<1>2. k = Changed(l, "commit", 0, Silent)
  BY DEF Finished, Changed
<1> HIDE DEF k, l
<1>3. "commit" \in Pcs /\ 0 \in Nat /\ Silent \in Outs \cup {Silent}
  BY DEF Pcs
<1>4. /\ k \in Loops
      /\ k.pc = "commit" /\ k.retry = 0 /\ k.out = Silent /\ k.fetched = l.fetched /\ k.committed = l.committed
  BY <1>1, <1>2, <1>3, LoopChanged
<1>5. Coherent(k, topics[t])
  <2>1. MaxRetries \in Nat /\ k.fetched \in Nat /\ k.fetched <= Len(topics[t]) /\ k.fetched > 0
    BY <1>1, <1>4, HandFacts DEF Typed
  <2>2. k.committed <= k.fetched
    BY <1>1, <1>4
  <2> QED
    BY <1>4, <2>1, <2>2 DEF Coherent
<1> QED
  BY <1>1, <1>4, <1>5 DEF k, l

LEMMA FailedTyped ==
    ASSUME Typed, NEW t \in Reads, Ready(t) \/ loop[t].pc = "publish"
    PROVE  /\ Failed(Took(t)) \in Loops
           /\ Coherent(Failed(Took(t)), topics[t])
           /\ Failed(Took(t)).pc \in {"handle", "dead"}
           /\ Failed(Took(t)).fetched = At(t)
           /\ IF loop[t].retry < MaxRetries
              THEN Failed(Took(t)).retry = loop[t].retry + 1
              ELSE Failed(Took(t)).retry = 0
<1> DEFINE l == Took(t)
           k == Failed(l)
<1>1. /\ l \in Loops /\ l.fetched = At(t) /\ l.committed <= At(t) /\ At(t) \in 1..Len(topics[t])
      /\ l.retry = loop[t].retry /\ Len(topics[t]) \in Nat
  BY HandFacts DEF Loops
<1>2. MaxRetries \in Nat /\ l.retry \in Nat
  BY <1>1 DEF Typed, Loops
<1>3. CASE loop[t].retry < MaxRetries
  <2>1. k = Changed(l, "handle", l.retry + 1, Silent)
    BY <1>1, <1>3 DEF Failed, Changed
  <2> HIDE DEF k, l
  <2>2. "handle" \in Pcs /\ l.retry + 1 \in Nat /\ Silent \in Outs \cup {Silent}
    BY <1>2 DEF Pcs
  <2>3. /\ k \in Loops
        /\ k.pc = "handle" /\ k.retry = l.retry + 1 /\ k.out = Silent /\ k.fetched = l.fetched /\ k.committed = l.committed
    BY <1>1, <2>1, <2>2, LoopChanged
  <2>4. Coherent(k, topics[t])
    BY <1>1, <1>2, <1>3, <2>3 DEF Coherent
  <2> QED
    BY <1>1, <1>3, <2>3, <2>4 DEF k, l
<1>4. CASE ~(loop[t].retry < MaxRetries)
  <2>1. k = Changed(l, "dead", 0, Silent)
    BY <1>1, <1>4 DEF Failed, Changed
  <2> HIDE DEF k, l
  <2>2. "dead" \in Pcs /\ 0 \in Nat /\ Silent \in Outs \cup {Silent}
    BY <1>2 DEF Pcs
  <2>3. /\ k \in Loops
        /\ k.pc = "dead" /\ k.retry = 0 /\ k.out = Silent /\ k.fetched = l.fetched /\ k.committed = l.committed
    BY <1>1, <2>1, <2>2, LoopChanged
  <2>4. Coherent(k, topics[t])
    BY <1>1, <1>2, <2>3 DEF Coherent
  <2> QED
    BY <1>1, <1>4, <2>3, <2>4 DEF k, l
<1> QED
  BY <1>3, <1>4

LEMMA MovesStep ==
    ASSUME Typed, NEW t \in Reads, Moves(t)
    PROVE  /\ Typed'
           /\ topics' = topics /\ seen' = seen
           /\ faults'.harmful = faults.harmful
           /\ faults'.untold = faults.untold \/ loop[t].pc = "dead"
           /\ loop[t].pc # "publish"
           /\ loop'[t].pc \in {"fetch", "commit"}
           /\ loop'[t].retry = 0
           /\ OthersKept(t)
<1>1. /\ MaxFaults \in Nat /\ faults \in FaultRecords /\ seen \subseteq Reads \X Nat
      /\ loop \in [Reads -> Loops] /\ loop[t] \in Loops /\ Coherent(loop[t], topics[t])
  BY DEF Typed, ConsumersTypeOK
<1>2. CASE Skip(t) \/ SkipDuplicate(t)
  <2>1. Ready(t) /\ PassTo(t, Finished(Took(t))) /\ UNCHANGED <<topics, seen, faults>>
    BY <1>2 DEF Skip, SkipDuplicate, Handles
  <2>2. loop[t].pc \in {"fetch", "handle"}
    BY <2>1 DEF Ready
  <2> QED
    BY <1>1, <2>1, <2>2, FinishedTyped, MovedTyped DEF OthersKept
<1>3. CASE DeadLetter(t)
  <2> DEFINE k == Finished(loop[t])
             l == [k EXCEPT !.letters = k.letters \cup {InHand(t).order}]
  <2>1. loop[t].pc = "dead" /\ PassTo(t, l) /\ UNCHANGED <<topics, seen, faults>>
    BY <1>3 DEF DeadLetter
  <2>2. Took(t) = loop[t] /\ InHand(t) \in Messages
    BY <2>1, HandFacts
  <2>3. k \in Loops /\ Coherent(k, topics[t]) /\ k.pc = "commit" /\ k.retry = 0
    BY <2>1, <2>2, FinishedTyped
  <2>4. InHand(t).order \in Orders
    BY <2>2 DEF Messages
  <2> HIDE DEF k
  <2>5. l \in Loops /\ l.pc = k.pc /\ l.retry = k.retry /\ l.out = k.out /\ l.fetched = k.fetched
        /\ l.committed = k.committed
    BY <2>3, <2>4 DEF Loops
  <2>6. Coherent(l, topics[t])
    BY <2>3, <2>5 DEF Coherent
  <2> QED
    BY <1>1, <2>1, <2>3, <2>5, <2>6, MovedTyped DEF OthersKept
<1>4. CASE DeadLetterError(t) \/ CommitError(t) \/ Commit(t)
  <2>1. PICK c \in {loop[t].committed, loop[t].fetched} : loop' = [loop EXCEPT ![t] = [loop[t] EXCEPT !.pc = "fetch", !.committed = c]]
    <3>1. CASE Commit(t)
      <4>1. loop' = [loop EXCEPT ![t] = [loop[t] EXCEPT !.pc = "fetch", !.committed = loop[t].fetched]]
        BY <1>1, <3>1 DEF Commit
      <4> QED
        BY <4>1
    <3>2. CASE DeadLetterError(t) \/ CommitError(t)
      <4>1. loop' = [loop EXCEPT ![t] = [loop[t] EXCEPT !.pc = "fetch"]]
        BY <1>1, <3>2 DEF DeadLetterError, CommitError
      <4>2. [loop[t] EXCEPT !.pc = "fetch"] = [loop[t] EXCEPT !.pc = "fetch", !.committed = loop[t].committed]
        BY <1>1 DEF Loops
      <4> QED
        BY <4>1, <4>2
    <3> QED
      BY <1>4, <3>1, <3>2
  <2> DEFINE l == [loop[t] EXCEPT !.pc = "fetch", !.committed = c]
  <2>2. loop[t].pc \in {"dead", "commit"} /\ UNCHANGED <<topics, seen>>
    BY <1>4 DEF DeadLetterError, CommitError, Commit
  <2>3. loop[t].committed \in Nat /\ loop[t].fetched \in Nat /\ loop[t].retry \in Nat /\ MaxRetries \in Nat
    BY <1>1 DEF Loops, Typed
  <2>4. loop[t].retry = 0 /\ loop[t].out = Silent
    BY <1>1, <2>2, <2>3 DEF Coherent
  <2>5. l \in Loops /\ l.pc = "fetch" /\ l.retry = 0 /\ l.out = Silent /\ l.fetched = loop[t].fetched /\ l.committed = c
    BY <1>1, <2>3, <2>4 DEF Loops
  <2>6. PassTo(t, l)
    BY <2>1 DEF PassTo
  <2> HIDE DEF l
  <2>7. Coherent(l, topics[t])
    BY <1>1, <2>3, <2>5 DEF Coherent
  <2>8. /\ faults' \in FaultRecords /\ faults'.harmful = faults.harmful
        /\ faults'.untold = faults.untold \/ loop[t].pc = "dead"
    <3>1. CASE Commit(t)
      BY <1>1, <3>1 DEF Commit
    <3>2. CASE CommitError(t)
      BY <1>1, <3>2, FaultTyped DEF CommitError, HarmlessFaultKinds
    <3>3. CASE DeadLetterError(t)
      <4>1. faults' = [faults EXCEPT !.untold = TRUE] /\ loop[t].pc = "dead"
        BY <3>3 DEF DeadLetterError
      <4>2. faults' \in FaultRecords /\ faults'.harmful = faults.harmful
        BY <1>1, <4>1, Zenon DEF FaultRecords
      <4> QED
        BY <4>1, <4>2
    <3> QED
      BY <1>4, <3>1, <3>2, <3>3
  <2> QED
    BY <1>1, <2>2, <2>5, <2>6, <2>7, <2>8, MovedTyped DEF OthersKept
<1> QED
  BY <1>2, <1>3, <1>4 DEF Moves

LEMMA HandleStep ==
    ASSUME Typed, NEW t \in Reads, NEW m \in Outs, Handle(t, m)
    PROVE  /\ Typed'
           /\ topics' = topics /\ faults' = faults /\ seen' = seen \cup {Id(t)}
           /\ loop[t].pc \in {"fetch", "handle"}
           /\ loop'[t].pc = "publish" /\ loop'[t].out = m
           /\ loop'[t].fetched = At(t) /\ loop'[t].retry = loop[t].retry
           /\ OthersKept(t)
<1> DEFINE l == Took(t)
           k == [l EXCEPT !.pc = "publish", !.out = m]
<1>1. Ready(t) /\ seen' = seen \cup {Id(t)} /\ PassTo(t, k) /\ UNCHANGED <<topics, faults>>
  BY DEF Handle, Begin, Handles, Mark, GoPublish
<1>2. loop[t].pc \in {"fetch", "handle"}
  BY <1>1 DEF Ready
<1>3. /\ l \in Loops /\ l.fetched = At(t) /\ l.committed <= At(t) /\ At(t) \in 1..Len(topics[t])
      /\ l.retry = loop[t].retry /\ Id(t) \in Reads \X Nat /\ loop[t].retry \in Nat
      /\ loop[t].retry <= MaxRetries
  BY <1>1, HandFacts DEF Loops, Coherent
<1>4. k = Changed(l, "publish", l.retry, m)
  <2>1. k = [l EXCEPT !.pc = "publish", !.retry = l.retry, !.out = m]
    BY <1>3 DEF Loops
  <2> QED
    BY <2>1 DEF Changed
<1> HIDE DEF k, l
<1>5. "publish" \in Pcs /\ m \in Outs \cup {Silent} /\ l.retry \in Nat
  BY <1>3 DEF Pcs
<1>6. k \in Loops /\ k.pc = "publish" /\ k.retry = l.retry /\ k.out = m /\ k.fetched = l.fetched
      /\ k.committed = l.committed
  BY <1>3, <1>4, <1>5, LoopChanged
<1>7. Coherent(k, topics[t])
  <2>1. m # Silent
    BY SilentFacts DEF Typed
  <2> QED
    BY <1>3, <1>6, <2>1 DEF Coherent
<1>8. faults' \in FaultRecords /\ seen' \subseteq Reads \X Nat
  BY <1>1, <1>3 DEF Typed, ConsumersTypeOK
<1> QED
  BY <1>1, <1>2, <1>3, <1>6, <1>7, <1>8, MovedTyped DEF OthersKept

LEMMA DigestStep ==
    ASSUME Typed, NEW t \in Reads, Digest(t)
    PROVE  /\ Typed'
           /\ topics' = topics /\ faults' = faults /\ seen' = seen \cup {Id(t)}
           /\ loop[t].pc \in {"fetch", "handle"}
           /\ loop'[t].pc = "commit" /\ loop'[t].retry = 0
           /\ OthersKept(t)
<1>1. Ready(t) /\ seen' = seen \cup {Id(t)} /\ PassTo(t, Finished(Took(t))) /\ UNCHANGED <<topics, faults>>
  BY DEF Digest, Begin, Handles, Mark, Finish
<1>2. loop[t].pc \in {"fetch", "handle"} /\ Id(t) \in Reads \X Nat
  BY <1>1, HandFacts DEF Ready
<1>3. faults' \in FaultRecords /\ seen' \subseteq Reads \X Nat
  BY <1>1, <1>2 DEF Typed, ConsumersTypeOK
<1> QED
  BY <1>1, <1>2, <1>3, FinishedTyped, MovedTyped DEF OthersKept

LEMMA NotFoundStep ==
    ASSUME Typed, NEW t \in Reads, NotFound(t)
    PROVE  /\ Typed'
           /\ topics' = topics /\ faults' = faults /\ seen' = seen
           /\ loop[t].pc \in {"fetch", "handle"}
           /\ loop'[t].pc \in {"handle", "dead"}
           /\ OthersKept(t)
<1>1. Ready(t) /\ PassTo(t, Failed(Took(t))) /\ UNCHANGED <<topics, faults, seen>>
  BY DEF NotFound, Handles, Fail
<1>2. loop[t].pc \in {"fetch", "handle"}
  BY <1>1 DEF Ready
<1>3. faults' \in FaultRecords /\ seen' \subseteq Reads \X Nat
  BY <1>1 DEF Typed, ConsumersTypeOK
<1> QED
  BY <1>1, <1>2, <1>3, FailedTyped, MovedTyped DEF OthersKept

LEMMA PublishStep ==
    ASSUME Typed, NEW t \in Reads, Publish(t) \/ PublishTwice(t)
    PROVE  /\ Typed'
           /\ loop[t].pc = "publish" /\ loop[t].out \in Outs /\ Grown(loop[t].out)
           /\ seen' = seen /\ faults'.harmful = faults.harmful /\ faults'.untold = faults.untold
           /\ loop'[t].pc = "commit" /\ loop'[t].retry = 0
           /\ OthersKept(t)
<1> DEFINE m == loop[t].out
<1>1. /\ TopicsTyped /\ MaxFaults \in Nat /\ faults \in FaultRecords /\ seen \subseteq Reads \X Nat
      /\ loop[t] \in Loops /\ Coherent(loop[t], topics[t])
  BY DEF Typed, ConsumersTypeOK
<1>2. loop[t].pc = "publish" /\ PassTo(t, Finished(Took(t))) /\ UNCHANGED seen
  BY DEF Publish, PublishTwice, Finish
<1>3. m \in Outs
  BY <1>1, <1>2 DEF Loops, Coherent
<1>4. Grown(m)
  BY <1>1, <1>3, SentGrows, SentTwiceGrows DEF Publish, PublishTwice
<1>5. faults' \in FaultRecords /\ faults'.harmful = faults.harmful /\ faults'.untold = faults.untold
  BY <1>1, FaultTyped DEF Publish, PublishTwice, HarmlessFaultKinds
<1> HIDE DEF m
<1> QED
  BY <1>1, <1>2, <1>3, <1>4, <1>5, FinishedTyped, MovedTyped DEF OthersKept, m

\* A failed publish: its fault is counted, or it is one that outlasts the retries.
LEMMA PublishErrorStep ==
    ASSUME Typed, NEW t \in Reads, PublishError(t)
    PROVE  /\ Typed'
           /\ loop[t].pc = "publish" /\ loop[t].out \in Outs
           /\ seen' = seen \ {Id(t)} /\ faults'.untold = faults.untold
           /\ \/ faults'.harmful = faults.harmful + 1 /\ (topics' = topics \/ Grown(loop[t].out))
              \/ faults'.harmful = faults.harmful /\ topics' = topics /\ loop[t].retry > 0
           /\ loop'[t].pc \in {"handle", "dead"} /\ loop'[t].fetched = At(t)
           /\ loop'[t].retry = IF loop[t].retry < MaxRetries THEN loop[t].retry + 1 ELSE 0
           /\ OthersKept(t)
<1> DEFINE m == loop[t].out
<1>1. /\ TopicsTyped /\ MaxFaults \in Nat /\ faults \in FaultRecords /\ seen \subseteq Reads \X Nat
      /\ loop[t] \in Loops /\ Coherent(loop[t], topics[t])
  BY DEF Typed, ConsumersTypeOK
<1>2. loop[t].pc = "publish" /\ PassTo(t, Failed(Took(t))) /\ seen' = seen \ {Id(t)}
  BY DEF PublishError, Unmark, Fail
<1>3. m \in Outs
  BY <1>1, <1>2 DEF Loops, Coherent
<1>4. /\ faults' \in FaultRecords /\ faults'.untold = faults.untold
      /\ \/ faults'.harmful = faults.harmful + 1 /\ (topics' = topics \/ Grown(loop[t].out))
         \/ faults'.harmful = faults.harmful /\ topics' = topics /\ loop[t].retry > 0
  <2>1. CASE StillDown(t) /\ UNCHANGED topics
    BY <1>1, <2>1 DEF StillDown
  <2>2. CASE Fault("publish") /\ UNCHANGED topics
    BY <1>1, <2>2, FaultTyped DEF HarmlessFaultKinds
  <2>3. CASE Fault("unsure") /\ Sent(m)
    BY <1>1, <1>3, <2>3, FaultTyped, SentGrows DEF HarmlessFaultKinds
  <2> QED
    BY <2>1, <2>2, <2>3 DEF PublishError
<1>5. seen' \subseteq Reads \X Nat
  BY <1>1, <1>2
<1> HIDE DEF m
<1> QED
  BY <1>1, <1>2, <1>3, <1>4, <1>5, FailedTyped, MovedTyped DEF OthersKept, m

LEMMA RestartStep ==
    ASSUME Typed, Restart
    PROVE  /\ Typed'
           /\ topics' = topics /\ seen' = {}
           /\ faults'.harmful = faults.harmful + 1
           /\ \A t \in Reads : loop'[t].pc = "fetch" /\ loop'[t].retry = 0
<1>1. /\ MaxFaults \in Nat /\ faults \in FaultRecords /\ MaxRetries \in Nat
      /\ loop \in [Reads -> Loops] /\ \A t \in Reads : Coherent(loop[t], topics[t])
      /\ TopicsTyped
  BY DEF Typed, ConsumersTypeOK
<1>2. faults' \in FaultRecords /\ faults'.harmful = faults.harmful + 1
  BY <1>1, FaultTyped DEF Restart, HarmlessFaultKinds
<1>3. topics' = topics /\ seen' = {} /\ loop' = [t \in Reads |-> StartAt(loop[t].committed, loop[t].letters)]
  BY DEF Restart, Resume
<1>4. ASSUME NEW t \in Reads
      PROVE  loop'[t] \in Loops /\ Coherent(loop'[t], topics[t]) /\ loop'[t].pc = "fetch" /\ loop'[t].retry = 0
  <2> DEFINE c == loop[t].committed
             k == loop'[t]
  <2>1. /\ c \in Nat /\ loop[t].letters \in SUBSET Orders /\ c <= loop[t].fetched /\ loop[t].fetched <= Len(topics[t])
        /\ loop[t].fetched \in Nat /\ Len(topics[t]) \in Nat
    BY <1>1, HandFacts DEF Loops, Coherent
  <2>2. k = [pc |-> "fetch", committed |-> c, fetched |-> c, retry |-> 0, out |-> Silent, letters |-> loop[t].letters]
    BY <1>3 DEF StartAt
  <2> HIDE DEF k, c
  <2>3. k \in Loops
    <3> DEFINE outs == Outs \cup {Silent}
               letters == SUBSET Orders
    <3> HIDE DEF outs, letters
    <3>1. Loops = [pc : Pcs, committed : Nat, fetched : Nat, retry : Nat, out : outs, letters : letters]
      BY DEF Loops, Pcs, outs, letters
    <3>2. Silent \in outs /\ loop[t].letters \in letters /\ "fetch" \in Pcs
      BY <2>1 DEF outs, letters, Pcs
    <3> QED
      BY <2>1, <2>2, <3>1, <3>2
  <2>4. Coherent(k, topics[t])
    <3>1. /\ k.pc = "fetch" /\ k.retry = 0 /\ k.committed = c /\ k.fetched = c /\ k.out = Silent
          /\ c <= Len(topics[t])
      BY <2>1, <2>2
    <3> QED
      BY <1>1, <2>1, <3>1 DEF Coherent
  <2> QED
    BY <2>2, <2>3, <2>4 DEF k
<1>5. DOMAIN loop' = Reads /\ loop' \in [Reads -> Loops]
  BY <1>3, <1>4
<1>6. Loops' = Loops /\ TopicsTyped'
  BY <1>1, <1>3 DEF Loops, Outs, TopicsTyped
<1>7. ConsumersTypeOK'
  BY <1>3, <1>4, <1>5, <1>6 DEF ConsumersTypeOK
<1> QED
  BY <1>1, <1>2, <1>3, <1>4, <1>6, <1>7 DEF Typed, FaultRecords

-----------------------------------------------------------------------------
(* Marks on the messages a consumer answers *)

\* Of a topic's messages of a type about an order: those the service has marked.
Marked(t, type, o) == {id \in Ids(t, {type}, o) : <<t, id>> \in seen}

Asked(t, type, o) == Cardinality(Marked(t, type, o))

LEMMA MarkedFinite ==
    ASSUME Typed, IdsAreFresh, NEW t \in Reads, NEW type, NEW o
    PROVE  /\ IsFiniteSet(Ids(t, {type}, o)) /\ IsFiniteSet(Marked(t, type, o))
           /\ Asked(t, type, o) \in Nat
           /\ Cardinality(Ids(t, {type}, o)) \in Nat
           /\ Asked(t, type, o) <= Cardinality(Ids(t, {type}, o))
<1>1. IsFiniteSet(Ids(t, {type}, o))
  BY IdsFinite DEF Typed, TopicsTyped
<1>2. Marked(t, type, o) \subseteq Ids(t, {type}, o)
  BY DEF Marked
<1> QED
  BY <1>1, <1>2, FS_Subset, FS_CardinalityType DEF Asked

LEMMA StillTyped ==
    ASSUME Typed, IdsAreFresh, topics' = topics \/ \E m \in Outs : Grown(m)
    PROVE  IdsAreFresh'
<1>1. CASE topics' = topics
  BY <1>1 DEF IdsAreFresh
<1>2. CASE \E m \in Outs : Grown(m)
  BY <1>2, GrownIsFresh DEF Typed
<1> QED
  BY <1>1, <1>2

LEMMA MarkedFiniteThen ==
    ASSUME Typed', IdsAreFresh', NEW t \in Reads, NEW type, NEW o
    PROVE  /\ IsFiniteSet(Marked(t, type, o)')
           /\ Asked(t, type, o)' \in Nat
<1>1. IsFiniteSet(Ids(t, {type}, o)')
  BY IdsFiniteThen DEF Typed, TopicsTyped
<1>2. Marked(t, type, o)' \subseteq Ids(t, {type}, o)'
  BY DEF Marked
<1> QED
  BY <1>1, <1>2, FS_Subset, FS_CardinalityType DEF Asked

\* New messages carry no mark; nothing else has to be said of marks that stay.
LEMMA MarksKept ==
    ASSUME Typed, Typed', IdsAreFresh, topics' = topics \/ \E m \in Outs : Grown(m),
           NEW t \in Reads, NEW type, NEW o, \A id : <<t, id>> \in seen => <<t, id>> \in seen'
    PROVE  Asked(t, type, o) <= Asked(t, type, o)'
<1>1. IdsAreFresh'
  BY StillTyped
<1>2. Ids(t, {type}, o) \subseteq Ids(t, {type}, o)'
  <2>1. CASE topics' = topics
    BY <2>1 DEF Ids, LogIds
  <2>2. CASE \E m \in Outs : Grown(m)
    BY <2>2, GrownIds DEF Typed, TopicsTyped
  <2> QED
    BY <2>1, <2>2
<1>3. Marked(t, type, o) \subseteq Marked(t, type, o)'
  BY <1>2 DEF Marked
<1>4. IsFiniteSet(Marked(t, type, o)')
  BY <1>1, MarkedFiniteThen
<1> QED
  BY <1>3, <1>4, FS_Subset DEF Asked

\* A handler's mark is one more, and only on what it handles.
LEMMA MarkTaken ==
    ASSUME Typed, IdsAreFresh, NEW t \in Reads, Handles(t), Id(t) \notin seen, seen' = seen \cup {Id(t)},
           topics' = topics, NEW type, InHand(t).type = type, NEW o, InHand(t).order = o
    PROVE  Asked(t, type, o)' = Asked(t, type, o) + 1
<1>1. At(t) \in DOMAIN topics[t] /\ t \in DOMAIN topics /\ InHand(t) = topics[t][At(t)]
  BY HandFacts DEF Handles, InHand
<1>2. InHand(t).id \in Ids(t, {type}, o)
  BY <1>1, InIds
<1>3. Ids(t, {type}, o)' = Ids(t, {type}, o)
  BY DEF Ids, LogIds
<1>4. /\ Marked(t, type, o)' = Marked(t, type, o) \cup {InHand(t).id}
      /\ InHand(t).id \notin Marked(t, type, o)
  BY <1>2, <1>3 DEF Marked, Id
<1> QED
  BY <1>4, MarkedFinite, FS_AddElement DEF Asked

\* A mark taken back is one less, and only on what was handled.
LEMMA MarkLost ==
    ASSUME Typed, Typed', IdsAreFresh, topics' = topics \/ \E m \in Outs : Grown(m),
           NEW u \in Reads, seen' = seen \ {Id(u)}, loop[u].pc = "publish", NEW t \in Reads, NEW type, NEW o
    PROVE  /\ Asked(t, type, o) <= Asked(t, type, o)' + 1
           /\ u # t \/ InHand(u).order # o => Asked(t, type, o) <= Asked(t, type, o)'
<1>1. At(u) \in DOMAIN topics[u] /\ u \in DOMAIN topics /\ InHand(u) = topics[u][At(u)]
  BY HandFacts DEF InHand
<1>2. IdsAreFresh'
  BY StillTyped
<1>3. Ids(t, {type}, o) \subseteq Ids(t, {type}, o)'
  <2>1. CASE topics' = topics
    BY <2>1 DEF Ids, LogIds
  <2>2. CASE \E m \in Outs : Grown(m)
    BY <2>2, GrownIds DEF Typed, TopicsTyped
  <2> QED
    BY <2>1, <2>2
<1>4. Marked(t, type, o) \ {InHand(u).id} \subseteq Marked(t, type, o)'
  BY <1>3 DEF Marked, Id
<1>5. IsFiniteSet(Marked(t, type, o)') /\ IsFiniteSet(Marked(t, type, o))
      /\ Asked(t, type, o) \in Nat /\ Asked(t, type, o)' \in Nat
  BY <1>2, MarkedFinite, MarkedFiniteThen
<1>6. Asked(t, type, o) <= Asked(t, type, o)' + 1
  <2>1. Cardinality(Marked(t, type, o) \ {InHand(u).id}) <= Asked(t, type, o)'
    BY <1>4, <1>5, FS_Subset DEF Asked
  <2>2. Cardinality(Marked(t, type, o) \ {InHand(u).id}) \in {Asked(t, type, o), Asked(t, type, o) - 1}
    BY <1>5, FS_RemoveElement DEF Asked
  <2> QED
    BY <1>5, <2>1, <2>2
<1>7. ASSUME u # t \/ InHand(u).order # o PROVE Asked(t, type, o) <= Asked(t, type, o)'
  <2>1. Marked(t, type, o) \subseteq Marked(t, type, o)'
    <3>1. CASE u # t
      BY <1>3, <3>1 DEF Marked, Id
    <3>2. CASE u = t /\ InHand(u).order # o
      <4>1. InHand(u).id \notin Ids(t, {type}, o)
        BY <1>1, <3>2, InIds
      <4> QED
        BY <1>4, <4>1 DEF Marked
    <3> QED
      BY <1>7, <3>1, <3>2
  <2> QED
    BY <1>5, <2>1, FS_Subset DEF Asked
<1> QED
  BY <1>6, <1>7

-----------------------------------------------------------------------------
(* How often a consumer answers *)

\* What is about to be published answers the message in hand.
Answers(t, type, topic, answers) ==
    loop[t].pc = "publish" =>
        /\ InHand(t).type = type
        /\ loop[t].out.order = InHand(t).order
        /\ loop[t].out.topic = topic
        /\ loop[t].out.type \in answers

\* Is an answer about the order being published: 0 or 1.
Sending(t, o) == IF loop[t].pc = "publish" /\ loop[t].out.order = o THEN 1 ELSE 0

Answered(t, topic, answers, o) == Cardinality(Ids(topic, answers, o)) + Sending(t, o)

\* There are more answers only for more marks, or for a fault.
Balanced(t, type, topic, answers, o) ==
    \/ /\ Answered(t, topic, answers, o)' + Asked(t, type, o) <= Answered(t, topic, answers, o) + Asked(t, type, o)'
       /\ faults'.harmful >= faults.harmful
    \/ /\ Answered(t, topic, answers, o)' + Asked(t, type, o) <= Answered(t, topic, answers, o) + Asked(t, type, o)' + 1
       /\ faults'.harmful = faults.harmful + 1

\* Nobody else gives these answers.
Apart(m, topic, answers) == m.topic # topic \/ m.type \notin answers

LEMMA AnswersKept ==
    ASSUME Typed, NEW t \in Reads, NEW type, NEW topic, NEW answers, Answers(t, type, topic, answers),
           topics' = topics \/ \E m \in Outs : Grown(m), loop'[t] = loop[t] \/ loop'[t].pc # "publish"
    PROVE  Answers(t, type, topic, answers)'
<1>1. CASE loop'[t].pc # "publish"
  BY <1>1 DEF Answers
<1>2. CASE loop'[t] = loop[t] /\ loop[t].pc = "publish"
  <2>1. At(t) \in DOMAIN topics[t] /\ t \in DOMAIN topics /\ At(t)' = At(t)
    BY <1>2, HandFacts DEF At
  <2>2. InHand(t)' = InHand(t)
    BY <2>1, SameLoops DEF InHand
  <2> QED
    BY <1>2, <2>2 DEF Answers
<1> QED
  BY <1>1, <1>2

LEMMA AnswersHandle ==
    ASSUME Typed, NEW t \in Reads, NEW m \in Outs, Handle(t, m), NEW type, NEW topic, NEW answers,
           InHand(t).type = type, m.order = InHand(t).order, m.topic = topic, m.type \in answers
    PROVE  Answers(t, type, topic, answers)'
<1>1. topics' = topics /\ loop'[t].pc = "publish" /\ loop'[t].out = m /\ loop'[t].fetched = At(t)
  BY HandleStep
<1>2. InHand(t)' = InHand(t)
  BY <1>1 DEF InHand, At
<1> QED
  BY <1>1, <1>2 DEF Answers

LEMMA IdsCounted ==
    ASSUME Typed, IdsAreFresh, NEW t \in DOMAIN topics, NEW types, NEW o
    PROVE  /\ Cardinality(Ids(t, types, o)) \in Nat
           /\ topics' = topics => Cardinality(Ids(t, types, o)') = Cardinality(Ids(t, types, o))
           /\ \A m \in Outs :
                  Grown(m) => Cardinality(Ids(t, types, o)') =
                                  IF t = m.topic /\ m.type \in types /\ o = m.order
                                  THEN Cardinality(Ids(t, types, o)) + 1 ELSE Cardinality(Ids(t, types, o))
<1>1. IsFiniteSet(Ids(t, types, o))
  BY IdsFinite DEF Typed
<1>2. topics' = topics => Ids(t, types, o)' = Ids(t, types, o)
  BY DEF Ids
<1>3. ASSUME NEW m \in Outs, Grown(m)
      PROVE  Cardinality(Ids(t, types, o)') =
                 IF t = m.topic /\ m.type \in types /\ o = m.order
                 THEN Cardinality(Ids(t, types, o)) + 1 ELSE Cardinality(Ids(t, types, o))
  <2> DEFINE new == Len(topics[t]) + 1
  <2>1. /\ new \notin Ids(t, types, o)
        /\ Ids(t, types, o)' = IF t = m.topic /\ m.type \in types /\ o = m.order
                               THEN Ids(t, types, o) \cup {new} ELSE Ids(t, types, o)
    BY <1>3, GrownIds DEF Typed
  <2> HIDE DEF new
  <2> QED
    BY <1>1, <2>1, FS_AddElement
<1> QED
  BY <1>1, <1>2, <1>3, FS_CardinalityType

LEMMA CountsAreNatural ==
    ASSUME Typed, IdsAreFresh, NEW t \in Reads, NEW type, NEW topic \in DOMAIN topics, NEW answers, NEW o
    PROVE  /\ Cardinality(Ids(topic, answers, o)) \in Nat /\ Sending(t, o) \in {0, 1}
           /\ Answered(t, topic, answers, o) \in Nat /\ Asked(t, type, o) \in Nat
           /\ faults.harmful \in Nat
<1>1. Cardinality(Ids(topic, answers, o)) \in Nat
  BY IdsCounted
<1>2. Sending(t, o) \in {0, 1}
  BY DEF Sending
<1>3. faults.harmful \in Nat
  BY DEF Typed, FaultRecords
<1>4. Answered(t, topic, answers, o) \in Nat
  BY <1>1, <1>2 DEF Answered
<1> QED
  BY <1>1, <1>2, <1>3, <1>4, MarkedFinite

LEMMA ElsewhereBalanced ==
    ASSUME Typed, IdsAreFresh, NEW t \in Reads, NEW type, NEW topic \in DOMAIN topics, NEW answers, NEW o,
           UNCHANGED <<loop, seen>>, faults' \in FaultRecords, faults'.harmful >= faults.harmful,
           topics' = topics \/ \E m \in Outs : Grown(m) /\ Apart(m, topic, answers)
    PROVE  Balanced(t, type, topic, answers, o)
<1>1. Typed' /\ IdsAreFresh'
  BY ElsewhereTyped, StillTyped DEF Elsewhere
<1>2. Asked(t, type, o) <= Asked(t, type, o)' /\ Asked(t, type, o)' \in Nat
  BY <1>1, MarksKept, MarkedFiniteThen
<1>3. Sending(t, o)' = Sending(t, o)
  BY DEF Sending
<1>4. Cardinality(Ids(topic, answers, o)') = Cardinality(Ids(topic, answers, o))
  BY IdsCounted DEF Apart
<1> QED
  BY <1>2, <1>3, <1>4, CountsAreNatural DEF Balanced, Answered

LEMMA MovesBalanced ==
    ASSUME Typed, IdsAreFresh, NEW t \in Reads, NEW type, NEW topic \in DOMAIN topics, NEW answers, NEW o,
           NEW u \in Reads, Moves(u) \/ Digest(u) \/ NotFound(u)
    PROVE  Balanced(t, type, topic, answers, o)
<1>1. /\ Typed' /\ topics' = topics /\ seen \subseteq seen' /\ faults'.harmful = faults.harmful
      /\ loop[u].pc # "publish" /\ loop'[u].pc # "publish" /\ OthersKept(u)
  BY MovesStep, DigestStep, NotFoundStep
<1>2. IdsAreFresh'
  BY <1>1, StillTyped
<1>3. Asked(t, type, o) <= Asked(t, type, o)' /\ Asked(t, type, o)' \in Nat
  BY <1>1, <1>2, MarksKept, MarkedFiniteThen
<1>4. Sending(t, o)' = Sending(t, o)
  BY <1>1 DEF Sending, OthersKept
<1>5. Cardinality(Ids(topic, answers, o)') = Cardinality(Ids(topic, answers, o))
  BY <1>1, IdsCounted
<1> QED
  BY <1>1, <1>3, <1>4, <1>5, CountsAreNatural DEF Balanced, Answered

LEMMA HandleBalanced ==
    ASSUME Typed, IdsAreFresh, NEW t \in Reads, NEW type, NEW topic \in DOMAIN topics, NEW answers, NEW o,
           NEW u \in Reads, NEW m \in Outs, Handle(u, m),
           u = t => InHand(t).type = type /\ m.order = InHand(t).order
    PROVE  Balanced(t, type, topic, answers, o)
<1>1. /\ Typed' /\ topics' = topics /\ faults' = faults /\ seen' = seen \cup {Id(u)} /\ OthersKept(u)
      /\ loop[u].pc # "publish" /\ loop'[u].pc = "publish" /\ loop'[u].out = m
  BY HandleStep
<1>2. IdsAreFresh'
  BY <1>1, StillTyped
<1>3. Asked(t, type, o) <= Asked(t, type, o)' /\ Asked(t, type, o)' \in Nat
  BY <1>1, <1>2, MarksKept, MarkedFiniteThen
<1>4. Cardinality(Ids(topic, answers, o)') = Cardinality(Ids(topic, answers, o))
  BY <1>1, IdsCounted
<1>5. CASE u = t /\ m.order = o
  <2>1. Asked(t, type, o)' = Asked(t, type, o) + 1
    BY <1>1, <1>5, MarkTaken DEF Handle, Begin
  <2>2. Sending(t, o) = 0 /\ Sending(t, o)' = 1
    BY <1>1, <1>5 DEF Sending
  <2> QED
    BY <1>1, <1>4, <2>1, <2>2, CountsAreNatural DEF Balanced, Answered
<1>6. CASE ~(u = t /\ m.order = o)
  <2>1. Sending(t, o)' = Sending(t, o)
    BY <1>1, <1>6 DEF Sending, OthersKept
  <2> QED
    BY <1>1, <1>3, <1>4, <2>1, CountsAreNatural DEF Balanced, Answered
<1> QED
  BY <1>5, <1>6

LEMMA PublishBalanced ==
    ASSUME Typed, IdsAreFresh, NEW t \in Reads, NEW type, NEW topic \in DOMAIN topics, NEW answers, NEW o,
           Answers(t, type, topic, answers),
           NEW u \in Reads, Publish(u) \/ PublishTwice(u), u # t => Apart(loop[u].out, topic, answers)
    PROVE  Balanced(t, type, topic, answers, o)
<1> DEFINE m == loop[u].out
<1>1. /\ Typed' /\ m \in Outs /\ Grown(m) /\ seen' = seen /\ faults'.harmful = faults.harmful /\ OthersKept(u)
      /\ loop[u].pc = "publish" /\ loop'[u].pc = "commit"
  BY PublishStep
<1>2. IdsAreFresh'
  BY <1>1, StillTyped
<1>3. Asked(t, type, o) <= Asked(t, type, o)' /\ Asked(t, type, o)' \in Nat
  BY <1>1, <1>2, MarksKept, MarkedFiniteThen
<1>4. CASE u = t
  <2>1. m.topic = topic /\ m.type \in answers
    BY <1>1, <1>4 DEF Answers
  <2>2. Cardinality(Ids(topic, answers, o)') = IF m.order = o THEN Cardinality(Ids(topic, answers, o)) + 1
                                               ELSE Cardinality(Ids(topic, answers, o))
    BY <1>1, <2>1, IdsCounted
  <2>3. Sending(t, o) = (IF m.order = o THEN 1 ELSE 0) /\ Sending(t, o)' = 0
    BY <1>1, <1>4 DEF Sending
  <2> QED
    BY <1>1, <1>3, <2>2, <2>3, CountsAreNatural DEF Balanced, Answered
<1>5. CASE u # t
  <2>1. Cardinality(Ids(topic, answers, o)') = Cardinality(Ids(topic, answers, o))
    BY <1>1, <1>5, IdsCounted DEF Apart
  <2>2. Sending(t, o)' = Sending(t, o)
    BY <1>5, <1>1 DEF Sending, OthersKept
  <2> QED
    BY <1>1, <1>3, <2>1, <2>2, CountsAreNatural DEF Balanced, Answered
<1> QED
  BY <1>4, <1>5

LEMMA PublishErrorBalanced ==
    ASSUME Typed, IdsAreFresh, NEW t \in Reads, NEW type, NEW topic \in DOMAIN topics, NEW answers, NEW o,
           Answers(t, type, topic, answers),
           NEW u \in Reads, PublishError(u), u # t => Apart(loop[u].out, topic, answers)
    PROVE  Balanced(t, type, topic, answers, o)
<1> DEFINE m == loop[u].out
           c == Cardinality(Ids(topic, answers, o))
<1>1. /\ Typed' /\ m \in Outs /\ seen' = seen \ {Id(u)} /\ OthersKept(u)
      /\ loop[u].pc = "publish" /\ loop'[u].pc \in {"handle", "dead"}
      /\ \/ faults'.harmful = faults.harmful + 1 /\ (topics' = topics \/ Grown(m))
         \/ faults'.harmful = faults.harmful /\ topics' = topics
  BY PublishErrorStep
<1>2. IdsAreFresh' /\ (topics' = topics \/ \E n \in Outs : Grown(n))
  BY <1>1, StillTyped
<1>3. /\ Asked(t, type, o) <= Asked(t, type, o)' + 1 /\ Asked(t, type, o)' \in Nat
      /\ u # t \/ InHand(u).order # o => Asked(t, type, o) <= Asked(t, type, o)'
  BY <1>1, <1>2, MarkLost, MarkedFiniteThen
<1>4. /\ c \in Nat
      /\ \/ c' = c
         \/ c' = c + 1 /\ faults'.harmful = faults.harmful + 1 /\ m.order = o /\ ~Apart(m, topic, answers)
  BY <1>1, IdsCounted DEF Apart
<1> HIDE DEF c
<1>5. CASE u = t /\ m.order = o
  <2>1. Sending(t, o) = 1 /\ Sending(t, o)' = 0
    BY <1>1, <1>5 DEF Sending
  <2> QED
    BY <1>1, <1>3, <1>4, <2>1, CountsAreNatural DEF Balanced, Answered, c
<1>6. CASE u = t /\ m.order # o
  <2>1. Sending(t, o) = 0 /\ Sending(t, o)' = 0
    BY <1>1, <1>6 DEF Sending
  <2>2. InHand(u).order # o
    BY <1>1, <1>6 DEF Answers
  <2> QED
    BY <1>1, <1>3, <1>4, <1>6, <2>1, <2>2, CountsAreNatural DEF Balanced, Answered, c
<1>7. CASE u # t
  <2>1. Sending(t, o)' = Sending(t, o)
    BY <1>1, <1>7 DEF Sending, OthersKept
  <2> QED
    BY <1>1, <1>3, <1>4, <1>7, <2>1, CountsAreNatural DEF Balanced, Answered, c
<1> QED
  BY <1>5, <1>6, <1>7

\* A restart loses every mark, and those were no more than there was to answer.
LEMMA RestartUnbalanced ==
    ASSUME Typed, IdsAreFresh, NEW t \in Reads, NEW type, NEW topic \in DOMAIN topics, NEW answers, NEW o, Restart
    PROVE  /\ Answered(t, topic, answers, o)' <= Answered(t, topic, answers, o)
           /\ Answered(t, topic, answers, o)' \in Nat
           /\ Asked(t, type, o) <= Cardinality(Ids(t, {type}, o))
           /\ Cardinality(Ids(t, {type}, o)) \in Nat
           /\ Asked(t, type, o)' = 0
           /\ faults'.harmful = faults.harmful + 1
<1>1. /\ topics' = topics /\ seen' = {} /\ faults'.harmful = faults.harmful + 1
      /\ loop'[t].pc = "fetch"
  BY RestartStep
<1>2. Cardinality(Ids(topic, answers, o)') = Cardinality(Ids(topic, answers, o))
  BY <1>1, IdsCounted
<1>3. Sending(t, o)' = 0
  BY <1>1 DEF Sending
<1>4. Marked(t, type, o)' = {}
  BY <1>1 DEF Marked
<1>5. Asked(t, type, o)' = 0
  BY <1>4, FS_EmptySet DEF Asked
<1>6. Asked(t, type, o) <= Cardinality(Ids(t, {type}, o)) /\ Cardinality(Ids(t, {type}, o)) \in Nat
  BY MarkedFinite
<1>7. /\ Answered(t, topic, answers, o)' <= Answered(t, topic, answers, o)
      /\ Answered(t, topic, answers, o)' \in Nat
  BY <1>2, <1>3, CountsAreNatural DEF Answered
<1> QED
  BY <1>1, <1>5, <1>6, <1>7

-----------------------------------------------------------------------------
(* How often a failed message is handled again *)

\* The attempts the message in hand has left, if it is about the order and failed already.
Spare(t, o) ==
    IF loop[t].retry > 0 /\ topics[t][loop[t].fetched].order = o THEN MaxRetries + 1 - loop[t].retry ELSE 0

LEMMA SpareTyped ==
    ASSUME Typed, NEW t \in Reads, NEW o
    PROVE  Spare(t, o) \in 0..MaxRetries
<1>1. loop[t].retry \in Nat /\ loop[t].retry <= MaxRetries /\ MaxRetries \in Nat
  BY HandFacts DEF Loops, Coherent, Typed
<1> QED
  BY <1>1 DEF Spare

LEMMA SpareTypedThen ==
    ASSUME Typed', NEW t \in Reads, NEW o
    PROVE  Spare(t, o)' \in 0..MaxRetries
<1>1. loop'[t].retry \in Nat /\ loop'[t].retry <= MaxRetries /\ MaxRetries \in Nat
  BY DEF Loops, Coherent, Typed, ConsumersTypeOK
<1> QED
  BY <1>1 DEF Spare

\* What a consumer has left is not changed by others, nor by its own topic's growth.
LEMMA SpareKept ==
    ASSUME Typed, NEW t \in Reads, NEW o, loop'[t] = loop[t], topics' = topics \/ \E m \in Outs : Grown(m)
    PROVE  Spare(t, o)' = Spare(t, o)
<1>1. CASE loop[t].retry > 0
  <2>1. loop[t].pc \in {"handle", "publish"}
    BY <1>1, HandFacts DEF Coherent
  <2>2. t \in DOMAIN topics /\ loop[t].fetched \in DOMAIN topics[t]
    <3>1. /\ t \in DOMAIN topics /\ topics[t] \in Seq(Messages)
          /\ loop[t].fetched \in Nat /\ loop[t].fetched <= Len(topics[t]) /\ loop[t].fetched > 0
      BY <2>1, HandFacts DEF Coherent, Loops, Typed, TopicsTyped
    <3> QED
      BY <3>1
  <2>3. topics'[t][loop[t].fetched] = topics[t][loop[t].fetched]
    BY <2>2, SameLoops
  <2> QED
    BY <2>3 DEF Spare
<1>2. CASE ~(loop[t].retry > 0)
  BY <1>2 DEF Spare
<1> QED
  BY <1>1, <1>2

LEMMA SpareMoves ==
    ASSUME Typed, NEW t \in Reads, NEW o, NEW u \in Reads, Moves(u) \/ Digest(u)
    PROVE  Spare(t, o)' <= Spare(t, o)
<1>1. topics' = topics /\ OthersKept(u) /\ loop'[u].retry = 0
  BY MovesStep, DigestStep
<1>2. CASE u = t
  BY <1>1, <1>2, SpareTyped DEF Spare
<1>3. CASE u # t
  BY <1>1, <1>3, SpareKept, SpareTyped DEF OthersKept
<1> QED
  BY <1>2, <1>3

LEMMA SparePublish ==
    ASSUME Typed, NEW t \in Reads, NEW o, NEW u \in Reads, Publish(u) \/ PublishTwice(u)
    PROVE  Spare(t, o)' <= Spare(t, o)
<1>1. /\ loop[u].out \in Outs /\ Grown(loop[u].out) /\ OthersKept(u) /\ loop'[u].retry = 0
  BY PublishStep
<1>2. CASE u = t
  <2>1. Spare(t, o)' = 0
    BY <1>1, <1>2 DEF Spare
  <2> QED
    BY <2>1, SpareTyped
<1>3. CASE u # t
  BY <1>1, <1>3, SpareKept, SpareTyped DEF OthersKept
<1> QED
  BY <1>2, <1>3

LEMMA SpareHandle ==
    ASSUME Typed, NEW t \in Reads, NEW o, NEW u \in Reads, NEW m \in Outs, Handle(u, m)
    PROVE  Spare(t, o)' = Spare(t, o)
<1>1. /\ topics' = topics /\ OthersKept(u)
      /\ loop[u].pc \in {"fetch", "handle"} /\ loop'[u].fetched = At(u) /\ loop'[u].retry = loop[u].retry
  BY HandleStep
<1>2. CASE u = t
  <2>1. CASE loop[t].retry > 0
    <3>1. loop[t].pc = "handle"
      BY <1>1, <1>2, <2>1, HandFacts DEF Coherent
    <3>2. loop'[t].fetched = loop[t].fetched
      BY <1>1, <1>2, <3>1 DEF At
    <3> QED
      BY <1>1, <1>2, <3>2 DEF Spare
  <2>2. CASE ~(loop[t].retry > 0)
    BY <1>1, <1>2, <2>2 DEF Spare
  <2> QED
    BY <2>1, <2>2
<1>3. CASE u # t
  BY <1>1, <1>3, SpareKept DEF OthersKept
<1> QED
  BY <1>2, <1>3

\* A failure takes back a mark and leaves the attempts that were left, less one; it gives
\* all of them when it is the first, and so a fault.
LEMMA SparePublishError ==
    ASSUME Typed, IdsAreFresh, NEW t \in Reads, NEW type, NEW o, NEW u \in Reads, PublishError(u)
    PROVE  \/ /\ Spare(t, o)' + Asked(t, type, o) <= Spare(t, o) + Asked(t, type, o)'
              /\ faults'.harmful >= faults.harmful
           \/ /\ Spare(t, o)' + Asked(t, type, o) <= Spare(t, o) + Asked(t, type, o)' + MaxRetries + 1
              /\ faults'.harmful = faults.harmful + 1
<1> DEFINE a == Asked(t, type, o)
<1>1. /\ Typed' /\ seen' = seen \ {Id(u)} /\ OthersKept(u) /\ loop[u].pc = "publish"
      /\ topics' = topics \/ \E n \in Outs : Grown(n)
      /\ \/ faults'.harmful = faults.harmful + 1
         \/ faults'.harmful = faults.harmful /\ loop[u].retry > 0
      /\ loop'[u].fetched = At(u)
      /\ loop'[u].retry = IF loop[u].retry < MaxRetries THEN loop[u].retry + 1 ELSE 0
  BY PublishErrorStep
<1>2. IdsAreFresh'
  BY <1>1, StillTyped
<1>3. /\ a \in Nat /\ a' \in Nat /\ a <= a' + 1
      /\ u # t \/ InHand(u).order # o => a <= a'
  BY <1>1, <1>2, MarkLost, MarkedFinite, MarkedFiniteThen
<1>4. Spare(t, o) \in 0..MaxRetries /\ Spare(t, o)' \in 0..MaxRetries /\ MaxRetries \in Nat /\ faults.harmful \in Nat
  BY <1>1, SpareTyped, SpareTypedThen DEF Typed, FaultRecords
<1> HIDE DEF a
<1>5. CASE u # t
  <2>1. Spare(t, o)' = Spare(t, o)
    BY <1>1, <1>5, SpareKept DEF OthersKept
  <2> QED
    BY <1>1, <1>3, <1>4, <1>5, <2>1 DEF a
<1>6. CASE u = t
  <2>1. /\ At(t) = loop[t].fetched /\ loop'[t].fetched = loop[t].fetched
        /\ InHand(t) = topics[t][loop[t].fetched] /\ topics'[t][loop[t].fetched] = InHand(t)
    <3>1. At(t) = loop[t].fetched /\ At(t) \in DOMAIN topics[t] /\ t \in DOMAIN topics
      BY <1>1, <1>6, HandFacts
    <3>2. topics'[t][At(t)] = topics[t][At(t)]
      BY <1>1, <3>1, SameLoops
    <3> QED
      BY <1>1, <1>6, <3>1, <3>2 DEF InHand
  <2>2. loop[t].retry \in Nat /\ loop[t].retry <= MaxRetries
    BY HandFacts DEF Loops, Coherent
  <2>3. CASE InHand(t).order # o
    <3>1. Spare(t, o)' = 0
      BY <2>1, <2>3 DEF Spare
    <3> QED
      BY <1>1, <1>3, <1>4, <1>6, <2>3, <3>1 DEF a
  <2>4. CASE InHand(t).order = o /\ loop[t].retry > 0
    <3>1. Spare(t, o) = MaxRetries + 1 - loop[t].retry
      BY <2>1, <2>4 DEF Spare
    <3>2. Spare(t, o)' = MaxRetries - loop[t].retry
      BY <1>1, <1>4, <1>6, <2>1, <2>2, <2>4 DEF Spare
    <3> QED
      BY <1>1, <1>3, <1>4, <2>2, <3>1, <3>2 DEF a
  <2>5. CASE ~(loop[t].retry > 0)
    BY <1>1, <1>3, <1>4, <1>6, <2>5 DEF a
  <2> QED
    BY <2>3, <2>4, <2>5
<1> QED
  BY <1>5, <1>6
=============================================================================
