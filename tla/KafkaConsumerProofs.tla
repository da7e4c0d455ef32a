------------------------ MODULE KafkaConsumerProofs ------------------------
(***************************************************************************)
(* Safety of the consumer for every log, every limit on retries, every     *)
(* budget and any number of faults.                                        *)
(***************************************************************************)
EXTENDS KafkaConsumer, TLAPS

USE LogAssumption, LimitsAssumption

LEMMA LogFacts ==
    /\ Len(Log) \in Nat
    /\ \A o \in Offsets : Log[o] \in Ids /\ o \in Nat /\ o >= 1
BY DEF Offsets

LEMMA InvInit == Init => IInv
<1> SUFFICES ASSUME Init PROVE IInv
  OBVIOUS
<1>1. TypeOK
  <2>1. handled \in [Ids -> Nat] /\ lapses \in [Ids -> Nat]
    BY DEF Init
  <2>6. dlq \subseteq Offsets /\ dropped \subseteq Offsets /\ seen \subseteq Ids
    BY DEF Init
  <2>2. committed \in 1..(Len(Log) + 1) /\ position \in 1..(Len(Log) + 1)
    BY LogFacts DEF Init
  <2>3. retry \in 0..MaxRetries /\ budget \in 0..BudgetCapacity /\ faults \in 0..MaxFaults
    BY DEF Init
  <2>4. /\ pc \in {"fetch", "handle", "backoff", "dead", "commit"}
        /\ current \in Offsets \cup {0}
        /\ succeeded \in Nat /\ spent \in Nat
    BY DEF Init
  <2>5. stopping \in BOOLEAN
    BY Zenon DEF Init
  <2> QED
    BY <2>1, <2>2, <2>3, <2>4, <2>5, <2>6, Zenon DEF TypeOK
<1>2. CommittedIsSettled /\ ReaderInv /\ FetchedInv
  BY DEF Init, CommittedIsSettled, ReaderInv, FetchedInv, InHand
<1>3. MemoryInv /\ BudgetInv
  BY DEF Init, MemoryInv, BudgetInv
<1> QED
  BY <1>1, <1>2, <1>3 DEF IInv

\* What was settled stays so: no step forgets a success or a dead letter.
LEMMA SettledKept ==
    ASSUME TypeOK, TypeOK', dlq \subseteq dlq', \A id \in Ids : handled'[id] >= handled[id],
           NEW o \in Offsets, Settled(o)
    PROVE  Settled(o)'
<1>1. Log[o] \in Ids /\ handled[Log[o]] \in Nat /\ handled'[Log[o]] \in Nat
  BY LogFacts DEF TypeOK
<1>2. CASE o \in dlq
  BY <1>2 DEF Settled
<1>3. CASE handled[Log[o]] > 0
  BY <1>1, <1>3 DEF Settled
<1> QED
  BY <1>2, <1>3 DEF Settled

\* A step that neither fetches nor commits, keeps the message in hand and settles or
\* drops what it lets go of.
LEMMA OffsetsKept ==
    ASSUME IInv, TypeOK', dlq \subseteq dlq', dropped \subseteq dropped',
           \A id \in Ids : handled'[id] >= handled[id],
           UNCHANGED <<committed, current, position>>,
           InHand' => InHand,
           pc' = "commit" => Settled(current)',
           InHand /\ ~InHand' => Settled(current)' \/ current \in dropped'
    PROVE  CommittedIsSettled' /\ ReaderInv' /\ FetchedInv'
<1>1. \A o \in Offsets : Settled(o) => Settled(o)'
  BY SettledKept DEF IInv
<1>2. 1..(committed - 1) \subseteq Offsets /\ 1..(position - 1) \subseteq Offsets
  <2>1. committed \in 1..(Len(Log) + 1) /\ position \in 1..(Len(Log) + 1)
    BY DEF IInv, TypeOK
  <2> QED
    BY <2>1, LogFacts DEF Offsets
<1>3. CommittedIsSettled'
  BY <1>1, <1>2 DEF IInv, CommittedIsSettled
<1>4. ReaderInv'
  BY DEF IInv, ReaderInv
<1>5. FetchedInv'
  BY <1>1, <1>2 DEF IInv, FetchedInv
<1> QED
  BY <1>3, <1>4, <1>5

LEMMA FetchStep == IInv /\ Fetch => IInv'
<1> SUFFICES ASSUME IInv, Fetch PROVE IInv'
  OBVIOUS
<1>1. TypeOK'
  <2>1. position' \in 1..(Len(Log) + 1) /\ current' \in Offsets \cup {0}
    BY LogFacts DEF Fetch, Offsets
  <2>2. retry' \in 0..MaxRetries /\ pc' \in {"fetch", "handle", "backoff", "dead", "commit"}
    BY DEF Fetch
  <2>3. UNCHANGED <<committed, dlq, budget, seen, stopping, faults, handled, lapses, dropped, succeeded, spent>>
    BY DEF Fetch
  <2> QED
    BY <2>1, <2>2, <2>3 DEF IInv, TypeOK, Offsets
<1>2. \A o : Settled(o)' = Settled(o)
  BY DEF Fetch, Settled
<1>3. CommittedIsSettled'
  BY <1>2 DEF IInv, CommittedIsSettled, Fetch
<1>4. ReaderInv'
  BY DEF IInv, ReaderInv, TypeOK, Fetch, InHand, Offsets
<1>5. FetchedInv'
  BY <1>2 DEF IInv, FetchedInv, TypeOK, Fetch, InHand, Offsets
<1>6. MemoryInv' /\ BudgetInv'
  BY DEF IInv, MemoryInv, BudgetInv, Fetch
<1> QED
  BY <1>1, <1>3, <1>4, <1>5, <1>6 DEF IInv

LEMMA HandleStep == IInv /\ Handle => IInv'
<1> SUFFICES ASSUME IInv, Handle PROVE IInv'
  OBVIOUS
<1>0. InHand /\ current \in Offsets /\ Log[current] \in Ids
  BY LogFacts DEF Handle, HandleDuplicate, HandleSuccess, HandleFailure, Retry, AbandonRetry,
                  InHand, IInv, ReaderInv
<1>1. CASE HandleDuplicate
  <2>1. TypeOK'
    BY <1>1 DEF IInv, TypeOK, HandleDuplicate, EarnRetry
  <2>2. Settled(current)'
    BY <1>0, <1>1 DEF IInv, MemoryInv, Settled, HandleDuplicate
  <2>3. CommittedIsSettled' /\ ReaderInv' /\ FetchedInv'
    <3>1. /\ UNCHANGED <<committed, dlq, current, position, handled, dropped>>
          /\ InHand'
      BY <1>1 DEF HandleDuplicate, InHand
    <3>2. \A id \in Ids : handled'[id] >= handled[id]
      BY <3>1 DEF IInv, TypeOK
    <3> QED
      BY <1>0, <2>1, <2>2, <3>1, <3>2, OffsetsKept
  <2>4. MemoryInv' /\ BudgetInv'
    BY <1>1 DEF IInv, TypeOK, MemoryInv, BudgetInv, HandleDuplicate, EarnRetry
  <2> QED
    BY <2>1, <2>3, <2>4 DEF IInv
<1>2. CASE HandleSuccess
  <2>1. TypeOK'
    <3>1. /\ budget' \in 0..BudgetCapacity /\ succeeded' \in Nat
          /\ pc' \in {"fetch", "handle", "backoff", "dead", "commit"}
      BY <1>2 DEF IInv, TypeOK, HandleSuccess, EarnRetry
    <3>2. handled' \in [Ids -> Nat] /\ seen' \subseteq Ids
      BY <1>0, <1>2 DEF IInv, TypeOK, HandleSuccess, Marked
    <3>3. UNCHANGED <<committed, dlq, current, position, retry, stopping, faults, lapses, dropped, spent>>
      BY <1>2 DEF HandleSuccess
    <3> QED
      BY <3>1, <3>2, <3>3 DEF IInv, TypeOK, Offsets
  <2>2. \A id \in Ids : handled'[id] = IF id = Log[current] THEN handled[id] + 1 ELSE handled[id]
    BY <1>0, <1>2 DEF IInv, TypeOK, HandleSuccess
  <2>3. Settled(current)' /\ \A id \in Ids : handled'[id] >= handled[id]
    BY <1>0, <1>2, <2>2 DEF IInv, TypeOK, Settled, HandleSuccess
  <2>4. CommittedIsSettled' /\ ReaderInv' /\ FetchedInv'
    BY <1>0, <1>2, <2>1, <2>3, OffsetsKept DEF HandleSuccess, InHand
  <2>5. MemoryInv'
    <3>1. seen' = seen \cup {Log[current]} /\ Log[current] \notin seen /\ lapses' = lapses
      BY <1>2 DEF HandleSuccess, Marked
    <3>2. \A id \in Ids : handled[id] \in Nat /\ lapses[id] \in Nat
      BY DEF IInv, TypeOK
    <3> QED
      BY <1>0, <2>2, <3>1, <3>2 DEF IInv, MemoryInv
  <2>6. BudgetInv'
    BY <1>2 DEF IInv, TypeOK, BudgetInv, HandleSuccess, EarnRetry
  <2> QED
    BY <2>1, <2>4, <2>5, <2>6 DEF IInv
<1>3. CASE HandleFailure
  <2>1. TypeOK'
    <3>1. /\ retry' \in 0..MaxRetries /\ budget' \in 0..BudgetCapacity /\ spent' \in Nat
          /\ pc' \in {"fetch", "handle", "backoff", "dead", "commit"}
      <4>0. retry \in 0..MaxRetries /\ budget \in 0..BudgetCapacity /\ spent \in Nat
        BY DEF IInv, TypeOK
      <4>1. CASE MayRetry /\ SpendRetry /\ retry' = retry + 1 /\ pc' = "backoff"
        BY <4>0, <4>1 DEF MayRetry, SpendRetry
      <4>2. CASE pc' = "dead" /\ UNCHANGED <<retry, budget, spent>>
        BY <4>0, <4>2
      <4> QED
        BY <1>3, <4>1, <4>2, Zenon DEF HandleFailure
    <3>2. UNCHANGED <<committed, dlq, current, position, seen, stopping, faults, handled, lapses, dropped, succeeded>>
      BY <1>3 DEF HandleFailure, AfterFailure
    <3> QED
      BY <3>1, <3>2 DEF IInv, TypeOK, Offsets
  <2>2. CommittedIsSettled' /\ ReaderInv' /\ FetchedInv'
    <3>1. /\ UNCHANGED <<committed, dlq, current, position, handled, dropped>>
          /\ InHand' /\ pc' # "commit"
      BY <1>3 DEF HandleFailure, InHand
    <3>2. \A id \in Ids : handled'[id] >= handled[id]
      BY <3>1 DEF IInv, TypeOK
    <3> QED
      BY <1>0, <2>1, <3>1, <3>2, OffsetsKept
  <2>3. MemoryInv'
    <3>1. UNCHANGED <<seen, handled, lapses>>
      BY <1>3 DEF HandleFailure, AfterFailure
    <3> QED
      BY <3>1 DEF IInv, MemoryInv
  <2>4. BudgetInv'
    BY <1>3 DEF IInv, TypeOK, BudgetInv, HandleFailure, SpendRetry
  <2> QED
    BY <2>1, <2>2, <2>3, <2>4 DEF IInv
<1>4. CASE Retry \/ AbandonRetry
  <2>1. TypeOK'
    BY <1>4 DEF IInv, TypeOK, Retry, AbandonRetry
  <2>2. CommittedIsSettled' /\ ReaderInv' /\ FetchedInv'
    <3>1. /\ UNCHANGED <<committed, dlq, current, position, handled, dropped>>
          /\ InHand' /\ pc' # "commit"
      BY <1>4 DEF Retry, AbandonRetry, InHand
    <3>2. \A id \in Ids : handled'[id] >= handled[id]
      BY <3>1 DEF IInv, TypeOK
    <3> QED
      BY <1>0, <2>1, <3>1, <3>2, OffsetsKept
  <2>3. MemoryInv' /\ BudgetInv'
    BY <1>4 DEF IInv, MemoryInv, BudgetInv, Retry, AbandonRetry
  <2> QED
    BY <2>1, <2>2, <2>3 DEF IInv
<1> QED
  BY <1>1, <1>2, <1>3, <1>4 DEF Handle

LEMMA DeadLetterStep == IInv /\ (DeadLetter \/ DeadLetterError) => IInv'
<1> SUFFICES ASSUME IInv, DeadLetter \/ DeadLetterError PROVE IInv'
  OBVIOUS
<1>0. InHand /\ current \in Offsets
  BY DEF DeadLetter, DeadLetterError, InHand, IInv, ReaderInv
<1>1. TypeOK'
  <2>1. UNCHANGED <<committed, current, position, retry, budget, seen, stopping, handled, lapses, succeeded, spent>>
    BY DEF DeadLetter, DeadLetterError
  <2>2. faults' \in 0..MaxFaults /\ pc' \in {"commit", "fetch"}
    BY DEF IInv, TypeOK, DeadLetter, DeadLetterError, Fault
  <2>3. dlq' \subseteq Offsets /\ dropped' \subseteq Offsets
    BY <1>0 DEF IInv, TypeOK, DeadLetter, DeadLetterError
  <2> QED
    BY <2>1, <2>2, <2>3 DEF IInv, TypeOK, Offsets
<1>2. CommittedIsSettled' /\ ReaderInv' /\ FetchedInv'
  <2>1. Settled(current)' \/ current \in dropped'
    BY DEF DeadLetter, DeadLetterError, Settled
  <2>2. pc' = "commit" => Settled(current)'
    BY DEF DeadLetter, DeadLetterError, Settled
  <2>3. /\ dlq \subseteq dlq' /\ dropped \subseteq dropped'
        /\ UNCHANGED <<committed, current, position, handled>>
    BY DEF DeadLetter, DeadLetterError
  <2> QED
    <3>1. \A id \in Ids : handled'[id] >= handled[id]
      BY <2>3 DEF IInv, TypeOK
    <3> QED
      BY <1>0, <1>1, <2>1, <2>2, <2>3, <3>1, OffsetsKept
<1>3. MemoryInv' /\ BudgetInv'
  BY DEF IInv, TypeOK, MemoryInv, BudgetInv, DeadLetter, DeadLetterError
<1> QED
  BY <1>1, <1>2, <1>3 DEF IInv

LEMMA CommitStep == IInv /\ (Commit \/ CommitError) => IInv'
<1> SUFFICES ASSUME IInv, Commit \/ CommitError PROVE IInv'
  OBVIOUS
<1>0. /\ pc = "commit"
      /\ current \in Offsets
      /\ position = current + 1
      /\ Settled(current)
      /\ committed' \in {committed, current + 1}
      /\ UNCHANGED <<dlq, current, position, budget, seen, stopping, handled, lapses, dropped, succeeded, spent>>
  BY DEF Commit, CommitError, OffsetAfterCurrent, InHand, IInv, ReaderInv
<1>1. TypeOK'
  <2>1. faults' \in 0..MaxFaults /\ pc' = "fetch" /\ retry' = retry
    BY DEF IInv, TypeOK, Commit, CommitError, Fault
  <2>2. committed' \in 1..(Len(Log) + 1)
    BY <1>0 DEF IInv, TypeOK
  <2> QED
    BY <1>0, <2>1, <2>2 DEF IInv, TypeOK, Offsets
<1>2. \A o : Settled(o)' = Settled(o)
  BY <1>0 DEF Settled
<1>3. FetchedInv'
  BY <1>0, <1>2 DEF IInv, FetchedInv, Commit, CommitError, InHand
<1>4. CommittedIsSettled'
  <2>1. CASE committed' = committed
    BY <1>0, <1>2, <2>1 DEF IInv, CommittedIsSettled
  <2>2. CASE committed' = position
    <3>1. \A o \in 1..(position - 1) : Settled(o) \/ o \in dropped
      BY <1>0 DEF IInv, FetchedInv
    <3> QED
      BY <1>0, <1>2, <2>2, <3>1 DEF CommittedIsSettled
  <2> QED
    BY <1>0, <2>1, <2>2
<1>5. ReaderInv'
  BY <1>0, <1>1 DEF IInv, ReaderInv, TypeOK, Commit, CommitError, InHand
<1>6. MemoryInv' /\ BudgetInv'
  BY <1>0 DEF IInv, TypeOK, MemoryInv, BudgetInv, Commit, CommitError
<1> QED
  BY <1>1, <1>3, <1>4, <1>5, <1>6 DEF IInv

\* A new process: the offsets it resumes from are settled, and it remembers nothing.
LEMMA FreshStep == IInv /\ (Restart \/ Crash) => IInv'
<1> SUFFICES ASSUME IInv, Restart \/ Crash PROVE IInv'
  OBVIOUS
<1>0. Fresh /\ UNCHANGED <<committed, dlq, handled, dropped>>
  BY DEF Restart, Crash
<1>1. TypeOK'
  <2>1. faults' \in 0..MaxFaults
    BY DEF IInv, TypeOK, Restart, Crash, Fault
  <2>2. position' \in 1..(Len(Log) + 1)
    BY <1>0 DEF IInv, TypeOK, Fresh
  <2>3. retry' \in 0..MaxRetries /\ budget' \in 0..BudgetCapacity
    BY <1>0 DEF Fresh
  <2>4. /\ pc' \in {"fetch", "handle", "backoff", "dead", "commit"}
        /\ current' \in Offsets \cup {0}
        /\ succeeded' \in Nat /\ spent' \in Nat
    BY <1>0 DEF Fresh
  <2>5. stopping' \in BOOLEAN /\ seen' \subseteq Ids
    BY <1>0, Zenon DEF Fresh
  <2>6. /\ committed' \in 1..(Len(Log) + 1)
        /\ dlq' \subseteq Offsets /\ dropped' \subseteq Offsets
        /\ handled' \in [Ids -> Nat]
    BY <1>0 DEF IInv, TypeOK
  <2>7. lapses' \in [Ids -> Nat]
    BY <1>0 DEF IInv, TypeOK, Fresh
  <2> QED
    BY <2>1, <2>2, <2>3, <2>4, <2>5, <2>6, <2>7, Zenon DEF TypeOK, Offsets
<1>2. \A o : Settled(o)' = Settled(o)
  BY <1>0 DEF Settled
<1>3. CommittedIsSettled' /\ ReaderInv' /\ FetchedInv'
  <2>1. committed \in 1..(Len(Log) + 1)
    BY DEF IInv, TypeOK
  <2>2. committed' = committed /\ position' = committed /\ pc' = "fetch" /\ dropped' = dropped
    BY <1>0 DEF Fresh
  <2> QED
    BY <1>2, <2>1, <2>2 DEF IInv, CommittedIsSettled, ReaderInv, FetchedInv, InHand
<1>4. MemoryInv'
  <2> SUFFICES ASSUME NEW id \in Ids
               PROVE  id \notin seen' /\ handled'[id] <= lapses'[id] + (IF id \in seen' THEN 1 ELSE 0)
    BY DEF MemoryInv
  <2>1. handled[id] \in Nat /\ lapses[id] \in Nat
    BY DEF IInv, TypeOK
  <2>2. seen' = {} /\ lapses'[id] = lapses[id] + 1 /\ handled' = handled
    BY <1>0 DEF Fresh
  <2> QED
    BY <2>1, <2>2 DEF IInv, MemoryInv
<1>5. BudgetInv'
  BY <1>0 DEF IInv, TypeOK, BudgetInv, Fresh
<1> QED
  BY <1>1, <1>3, <1>4, <1>5 DEF IInv

\* Expiry and the signal to stop touch no offset.
LEMMA AsideStep == IInv /\ (Stop \/ \E id \in Ids : Expire(id)) => IInv'
<1> SUFFICES ASSUME IInv, Stop \/ \E id \in Ids : Expire(id) PROVE IInv'
  OBVIOUS
<1>1. TypeOK'
  <2>1. UNCHANGED <<committed, dlq, pc, current, position, retry, budget, handled, dropped, succeeded, spent>>
    BY DEF Stop, Expire
  <2>2. faults' \in 0..MaxFaults
    BY DEF IInv, TypeOK, Stop, Expire, Fault
  <2>3. seen' \subseteq Ids /\ lapses' \in [Ids -> Nat]
    <3>1. seen \subseteq Ids /\ lapses \in [Ids -> Nat]
      BY DEF IInv, TypeOK
    <3>2. UNCHANGED <<seen, lapses>>
          \/ \E id \in Ids : seen' = seen \ {id} /\ lapses' = [lapses EXCEPT ![id] = @ + 1]
      BY DEF Stop, Expire
    <3> QED
      BY <3>1, <3>2
  <2>4. stopping' \in BOOLEAN
    BY Zenon DEF IInv, TypeOK, Stop, Expire
  <2> QED
    BY <2>1, <2>2, <2>3, <2>4 DEF IInv, TypeOK, Offsets
<1>2. UNCHANGED <<committed, dlq, pc, current, position, handled, dropped, budget, succeeded, spent>>
  BY DEF Stop, Expire
<1>3. CommittedIsSettled' /\ ReaderInv' /\ FetchedInv'
  BY <1>2 DEF IInv, CommittedIsSettled, ReaderInv, FetchedInv, InHand, Settled
<1>4. MemoryInv'
  <2>1. CASE Stop
    BY <2>1 DEF IInv, MemoryInv, Stop
  <2>2. ASSUME NEW id \in Ids, Expire(id) PROVE MemoryInv'
    BY <2>2 DEF IInv, TypeOK, MemoryInv, Expire
  <2> QED
    BY <2>1, <2>2
<1>5. BudgetInv'
  BY <1>2 DEF IInv, BudgetInv
<1> QED
  BY <1>1, <1>3, <1>4, <1>5 DEF IInv

LEMMA InvStep == IInv /\ [Next]_vars => IInv'
<1> SUFFICES ASSUME IInv, [Next]_vars PROVE IInv'
  OBVIOUS
<1>1. CASE UNCHANGED vars
  BY <1>1 DEF vars, process, IInv, TypeOK, CommittedIsSettled, ReaderInv, FetchedInv, MemoryInv,
              BudgetInv, InHand, Settled
<1>2. CASE Next
  BY <1>2, FetchStep, HandleStep, DeadLetterStep, CommitStep, FreshStep, AsideStep DEF Next, Loop
<1> QED
  BY <1>1, <1>2

\* The invariant holds in every behaviour.
THEOREM Invariance == Spec => []IInv
<1>1. Init => IInv
  BY InvInit
<1>2. IInv /\ [Next]_vars => IInv'
  BY InvStep
<1> QED
  BY <1>1, <1>2, PTL DEF Spec

\* No offset is committed over a message that was neither handled nor dead-lettered,
\* unless its dead-lettering failed.
THEOREM NothingCommittedUnsettled == Spec => []CommittedIsSettled
BY Invariance, PTL DEF IInv

LEMMA InvGivesBounds == IInv => EffectsBounded /\ RetriesWithinBudget
<1> SUFFICES ASSUME IInv PROVE EffectsBounded /\ RetriesWithinBudget
  OBVIOUS
<1>1. EffectsBounded
  <2> SUFFICES ASSUME NEW id \in Ids PROVE handled[id] <= 1 + lapses[id]
    BY DEF EffectsBounded
  <2>1. handled[id] \in Nat /\ lapses[id] \in Nat
    BY DEF IInv, TypeOK
  <2>2. handled[id] <= lapses[id] + (IF id \in seen THEN 1 ELSE 0)
    BY DEF IInv, MemoryInv
  <2> QED
    BY <2>1, <2>2
<1>2. RetriesWithinBudget
  BY DEF IInv, TypeOK, BudgetInv, RetriesWithinBudget
<1> QED
  BY <1>1, <1>2

\* The handler repeats a success only after a restart or an expiry, once for each; no
\* other fault counts.
THEOREM DuplicatesAreFiltered == Spec => []EffectsBounded
BY Invariance, InvGivesBounds, PTL

\* A process spends no more retries than its budget and its successes give it.
THEOREM BudgetIsKept == Spec => []RetriesWithinBudget
BY Invariance, InvGivesBounds, PTL

LEMMA StepAdvances == IInv /\ Next => committed' >= committed /\ position' >= committed'
<1> SUFFICES ASSUME IInv, Next PROVE committed' >= committed /\ position' >= committed'
  OBVIOUS
<1>0. committed \in Nat /\ position \in Nat /\ committed <= position
  BY DEF IInv, TypeOK, ReaderInv
<1>1. CASE Fetch
  BY <1>0, <1>1 DEF Fetch
<1>2. CASE Commit
  <2>1. current + 1 = position
    BY <1>2 DEF Commit, IInv, ReaderInv, InHand
  <2> QED
    BY <1>0, <1>2, <2>1 DEF Commit, OffsetAfterCurrent
<1>3. CASE Restart \/ Crash
  BY <1>0, <1>3 DEF Restart, Crash, Fresh
<1>4. CASE UNCHANGED <<committed, position>>
  BY <1>0, <1>4
<1>5. Handle \/ DeadLetter \/ DeadLetterError \/ CommitError \/ Stop \/ (\E id \in Ids : Expire(id))
        => UNCHANGED <<committed, position>>
  BY DEF Handle, HandleDuplicate, HandleSuccess, HandleFailure, Retry, AbandonRetry, DeadLetter,
         DeadLetterError, CommitError, Stop, Expire
<1> QED
  BY <1>1, <1>2, <1>3, <1>4, <1>5 DEF Next, Loop

\* The group never moves back, and the reader never falls behind it.
THEOREM GroupNeverMovesBack == Spec => CommitsAdvance
<1>1. IInv /\ [Next]_vars => [committed' >= committed /\ position' >= committed']_vars
  BY StepAdvances
<1> QED
  BY <1>1, Invariance, PTL DEF Spec, CommitsAdvance
=============================================================================
