--------------------- MODULE ChoreographyConsumerProofs ---------------------
(***************************************************************************)
(* Safety of the choreographed variant's consumer for every partition,     *)
(* every limit on retries, every budget and any number of faults: what its *)
(* shutdown, which closes the reader under the running loop, cannot break. *)
(***************************************************************************)
EXTENDS ChoreographyConsumer, TLAPS

USE LogAssumption, LimitsAssumption

LEMMA LogFacts ==
    /\ Len(Log) \in Nat
    /\ \A o \in Offsets : Log[o] \in Ids /\ o \in Nat /\ o >= 1
BY DEF Offsets

LEMMA InvInit == Init => IInv
<1> SUFFICES ASSUME Init PROVE IInv
  OBVIOUS
<1>1. TypeOK
  <2>1. handled \in [Ids -> Nat] /\ lapses \in [Ids -> Nat]
    BY DEF Init
  <2>6. dlq \subseteq Offsets /\ dropped \subseteq Offsets /\ seen \subseteq Ids
    BY DEF Init
  <2>2. committed \in 1..(Len(Log) + 1) /\ position \in 1..(Len(Log) + 1)
    BY LogFacts DEF Init
  <2>3. retry \in 0..MaxRetries /\ budget \in 0..BudgetCapacity /\ faults \in 0..MaxFaults
    BY DEF Init
  <2>4. pc \in {"fetch", "handle", "backoff", "dead", "commit"} /\ current \in Offsets \cup {0}
    BY DEF Init
  <2>5. stopping \in BOOLEAN /\ closed \in BOOLEAN
    BY Zenon DEF Init
  <2> QED
    BY <2>1, <2>2, <2>3, <2>4, <2>5, <2>6, Zenon DEF TypeOK
<1>2. CommittedIsSettled /\ ReaderInv /\ FetchedInv
  BY DEF Init, CommittedIsSettled, ReaderInv, FetchedInv, InHand
<1>3. MemoryInv
  <2>1. \A id \in Ids : handled[id] = 0 /\ lapses[id] = 0 /\ id \notin seen
    BY DEF Init
  <2> QED
    <3> SUFFICES ASSUME NEW id \in Ids
                 PROVE  handled[id] <= lapses[id] + (IF id \in seen THEN 1 ELSE 0) /\ id \notin seen
      BY DEF MemoryInv
    <3> QED
      BY <2>1
<1> QED
  BY <1>1, <1>2, <1>3 DEF IInv

\* What was settled stays so: no step forgets a success or a dead letter.
LEMMA SettledKept ==
    ASSUME TypeOK, TypeOK', dlq \subseteq dlq', \A id \in Ids : handled'[id] >= handled[id],
           NEW o \in Offsets, Settled(o)
    PROVE  Settled(o)'
<1>1. Log[o] \in Ids /\ handled[Log[o]] \in Nat /\ handled'[Log[o]] \in Nat
  BY LogFacts DEF TypeOK
<1>2. CASE o \in dlq \/ Log[o] \notin Known
  BY <1>2 DEF Settled
<1>3. CASE handled[Log[o]] > 0
  BY <1>1, <1>3 DEF Settled
<1> QED
  BY <1>2, <1>3 DEF Settled

\* A step that neither fetches nor commits, keeps the event in hand, and settles or drops
\* what it lets go of, unless the reader is closed.
LEMMA OffsetsKept ==
    ASSUME IInv, TypeOK', dlq \subseteq dlq', dropped \subseteq dropped',
           \A id \in Ids : handled'[id] >= handled[id],
           UNCHANGED <<committed, current, position, shutdown>>,
           InHand' => InHand,
           pc' = "commit" => Settled(current)',
           pc' = "dead" => retry' = MaxRetries \/ budget' = 0,
           InHand /\ ~InHand' => Settled(current)' \/ current \in dropped' \/ closed
    PROVE  CommittedIsSettled' /\ ReaderInv' /\ FetchedInv'
<1>1. \A o \in Offsets : Settled(o) => Settled(o)'
  BY SettledKept DEF IInv
<1>2. 1..(committed - 1) \subseteq Offsets /\ 1..(position - 1) \subseteq Offsets
  <2>1. committed \in 1..(Len(Log) + 1) /\ position \in 1..(Len(Log) + 1)
    BY DEF IInv, TypeOK
  <2> QED
    BY <2>1, LogFacts DEF Offsets
<1>3. CommittedIsSettled'
  BY <1>1, <1>2 DEF IInv, CommittedIsSettled
<1>4. ReaderInv'
  BY DEF IInv, ReaderInv, shutdown
<1>5. FetchedInv'
  <2>1. CASE closed
    BY <2>1 DEF FetchedInv, shutdown
  <2>2. CASE ~closed
    BY <1>1, <1>2, <2>2 DEF IInv, FetchedInv, shutdown
  <2> QED
    BY <2>1, <2>2
<1> QED
  BY <1>3, <1>4, <1>5

LEMMA FetchStep == IInv /\ Fetch => IInv'
<1> SUFFICES ASSUME IInv, Fetch PROVE IInv'
  OBVIOUS
<1>0. /\ position \in Offsets /\ current' = position /\ position' = position + 1
      /\ pc = "fetch"
      /\ pc' = (IF Log[position] \in Known THEN "handle" ELSE "commit")
      /\ UNCHANGED <<kafka, shutdown, handled, dropped>>
  BY DEF Fetch
<1>1. TypeOK'
  <2>1. position' \in 1..(Len(Log) + 1) /\ current' \in Offsets \cup {0} /\ retry' \in 0..MaxRetries
    BY LogFacts DEF Fetch, Offsets
  <2>2. pc' \in {"fetch", "handle", "backoff", "dead", "commit"}
    BY <1>0
  <2>3. UNCHANGED <<committed, dlq, budget, seen, stopping, closed, faults, handled, lapses, dropped>>
    BY DEF Fetch, kafka, shutdown
  <2> QED
    BY <2>1, <2>2, <2>3 DEF IInv, TypeOK, Offsets
<1>2. \A o : Settled(o)' = Settled(o)
  BY <1>0 DEF kafka, Settled
<1>3. CommittedIsSettled'
  BY <1>0, <1>2 DEF IInv, CommittedIsSettled, kafka
<1>4. ReaderInv'
  <2>1. pc' = "commit" => Settled(current)'
    BY <1>0, <1>2 DEF Settled
  <2>2. committed' <= position' /\ pc' # "dead"
    BY <1>0 DEF IInv, ReaderInv, TypeOK, kafka
  <2> QED
    BY <1>0, <2>1, <2>2 DEF IInv, ReaderInv, InHand, shutdown
<1>5. FetchedInv'
  <2>1. CASE closed
    BY <1>0, <2>1 DEF FetchedInv, shutdown
  <2>2. CASE ~closed
    BY <1>0, <1>2, <2>2 DEF IInv, FetchedInv, TypeOK, InHand, Offsets, shutdown
  <2> QED
    BY <2>1, <2>2
<1>6. MemoryInv'
  BY DEF IInv, MemoryInv, Fetch, shutdown
<1> QED
  BY <1>1, <1>3, <1>4, <1>5, <1>6 DEF IInv

LEMMA HandleStep ==
    IInv /\ (HandleDuplicate \/ HandleSuccess \/ HandleFailure \/ GiveUp \/ Retry) => IInv'
<1> SUFFICES ASSUME IInv, HandleDuplicate \/ HandleSuccess \/ HandleFailure \/ GiveUp \/ Retry
             PROVE  IInv'
  OBVIOUS
<1>0. InHand /\ pc \in {"handle", "backoff"} /\ current \in Offsets /\ Log[current] \in Ids
  BY LogFacts DEF HandleDuplicate, HandleSuccess, HandleFailure, GiveUp, Fails, Retry, InHand, IInv, ReaderInv
<1>1. CASE HandleDuplicate
  <2>1. TypeOK'
    <3>1. budget' \in 0..BudgetCapacity /\ pc' \in {"fetch", "handle", "backoff", "dead", "commit"}
      BY <1>1 DEF IInv, TypeOK, HandleDuplicate, EarnRetry
    <3>2. UNCHANGED <<committed, dlq, current, position, retry, seen, stopping, closed, faults, handled, lapses, dropped>>
      BY <1>1 DEF HandleDuplicate, kafka, reader, shutdown
    <3> QED
      BY <3>1, <3>2 DEF IInv, TypeOK, Offsets
  <2>2. Settled(current)'
    BY <1>0, <1>1 DEF IInv, MemoryInv, Settled, HandleDuplicate, reader, kafka
  <2>3. CommittedIsSettled' /\ ReaderInv' /\ FetchedInv'
    <3>1. /\ UNCHANGED <<committed, dlq, current, position, shutdown, handled, dropped>>
          /\ InHand' /\ pc' # "dead"
      BY <1>1 DEF HandleDuplicate, InHand, kafka, reader
    <3>2. \A id \in Ids : handled'[id] >= handled[id]
      BY <3>1 DEF IInv, TypeOK
    <3> QED
      BY <1>0, <2>1, <2>2, <3>1, <3>2, OffsetsKept
  <2>4. MemoryInv'
    BY <1>1 DEF IInv, MemoryInv, HandleDuplicate, shutdown
  <2> QED
    BY <2>1, <2>3, <2>4 DEF IInv
<1>2. CASE HandleSuccess
  <2>1. TypeOK'
    <3>1. budget' \in 0..BudgetCapacity /\ pc' \in {"fetch", "handle", "backoff", "dead", "commit"}
      BY <1>2 DEF IInv, TypeOK, HandleSuccess, EarnRetry
    <3>2. handled' \in [Ids -> Nat] /\ seen' \subseteq Ids
      BY <1>0, <1>2 DEF IInv, TypeOK, HandleSuccess, Marked
    <3>3. UNCHANGED <<committed, dlq, current, position, retry, stopping, closed, faults, lapses, dropped>>
      BY <1>2 DEF HandleSuccess, kafka, reader, shutdown
    <3> QED
      BY <3>1, <3>2, <3>3 DEF IInv, TypeOK, Offsets
  <2>2. \A id \in Ids : handled'[id] = IF id = Log[current] THEN handled[id] + 1 ELSE handled[id]
    BY <1>0, <1>2 DEF IInv, TypeOK, HandleSuccess
  <2>3. Settled(current)' /\ \A id \in Ids : handled'[id] >= handled[id]
    BY <1>0, <1>2, <2>2 DEF IInv, TypeOK, Settled, HandleSuccess, reader
  <2>4. CommittedIsSettled' /\ ReaderInv' /\ FetchedInv'
    BY <1>0, <1>2, <2>1, <2>3, OffsetsKept DEF HandleSuccess, InHand, kafka, reader
  <2>5. MemoryInv'
    <3>1. seen' = seen \cup {Log[current]} /\ Log[current] \notin seen /\ lapses' = lapses
      BY <1>2 DEF HandleSuccess, Marked
    <3>2. \A id \in Ids : handled[id] \in Nat /\ lapses[id] \in Nat
      BY DEF IInv, TypeOK
    <3> QED
      BY <1>0, <2>2, <3>1, <3>2 DEF IInv, MemoryInv
  <2> QED
    BY <2>1, <2>4, <2>5 DEF IInv
<1>3. CASE HandleFailure \/ GiveUp \/ Retry
  <2>1. TypeOK'
    <3>1. retry' \in 0..MaxRetries /\ budget' \in 0..BudgetCapacity /\ pc' \in {"backoff", "dead", "handle"}
      BY <1>3 DEF IInv, TypeOK, HandleFailure, GiveUp, Retry, MayRetry, retries
    <3>2. UNCHANGED <<committed, dlq, current, position, seen, stopping, closed, faults, handled, lapses, dropped>>
      BY <1>3 DEF HandleFailure, GiveUp, Retry, Fails, AfterFailure, kafka, reader, shutdown
    <3> QED
      BY <3>1, <3>2 DEF IInv, TypeOK, Offsets
  <2>2. pc' = "dead" => retry' = MaxRetries \/ budget' = 0
    BY <1>3 DEF IInv, TypeOK, HandleFailure, GiveUp, Retry, MayRetry, retries
  <2>3. /\ InHand' /\ pc' # "commit"
        /\ UNCHANGED <<committed, dlq, current, position, shutdown, handled, dropped>>
    BY <1>3 DEF HandleFailure, GiveUp, Retry, Fails, InHand, kafka, reader
  <2>4. \A id \in Ids : handled'[id] >= handled[id]
    BY <2>3 DEF IInv, TypeOK
  <2>5. CommittedIsSettled' /\ ReaderInv' /\ FetchedInv'
    BY <1>0, <2>1, <2>2, <2>3, <2>4, OffsetsKept
  <2>6. MemoryInv'
    BY <1>3 DEF IInv, MemoryInv, HandleFailure, GiveUp, Retry, Fails, AfterFailure, shutdown
  <2> QED
    BY <2>1, <2>5, <2>6 DEF IInv
<1> QED
  BY <1>1, <1>2, <1>3

LEMMA DeadLetterStep == IInv /\ (DeadLetter \/ DeadLetterError) => IInv'
<1> SUFFICES ASSUME IInv, DeadLetter \/ DeadLetterError PROVE IInv'
  OBVIOUS
<1>0. /\ InHand /\ current \in Offsets
      /\ UNCHANGED <<committed, current, position, retry, budget, seen, stopping, closed, handled, lapses>>
      /\ pc' \in {"commit", "fetch"}
  BY DEF DeadLetter, DeadLetterError, InHand, IInv, ReaderInv, reader, retries, shutdown
<1>1. TypeOK'
  <2>1. faults' \in 0..MaxFaults
    BY DEF IInv, TypeOK, DeadLetter, DeadLetterError, Fault
  <2>2. dlq' \subseteq Offsets /\ dropped' \subseteq Offsets
    BY <1>0 DEF IInv, TypeOK, DeadLetter, DeadLetterError
  <2> QED
    BY <1>0, <2>1, <2>2 DEF IInv, TypeOK, Offsets
<1>2. CommittedIsSettled' /\ ReaderInv' /\ FetchedInv'
  <2>1. Settled(current)' \/ current \in dropped' \/ closed
    BY <1>0 DEF DeadLetter, DeadLetterError, Settled
  <2>2. pc' = "commit" => Settled(current)'
    BY <1>0 DEF DeadLetter, DeadLetterError, Settled
  <2>3. dlq \subseteq dlq' /\ dropped \subseteq dropped'
    BY DEF DeadLetter, DeadLetterError
  <2>4. \A id \in Ids : handled'[id] >= handled[id]
    BY <1>0 DEF IInv, TypeOK
  <2> QED
    BY <1>0, <1>1, <2>1, <2>2, <2>3, <2>4, OffsetsKept DEF shutdown
<1>3. MemoryInv'
  BY <1>0 DEF IInv, MemoryInv
<1> QED
  BY <1>1, <1>2, <1>3 DEF IInv

LEMMA CommitStep == IInv /\ (Commit \/ CommitError) => IInv'
<1> SUFFICES ASSUME IInv, Commit \/ CommitError PROVE IInv'
  OBVIOUS
<1>0. /\ pc = "commit" /\ pc' = "fetch"
      /\ current \in Offsets
      /\ position = current + 1
      /\ Settled(current)
      /\ committed' = committed \/ (~closed /\ committed' = position)
      /\ UNCHANGED <<dlq, current, position, retry, budget, seen, stopping, closed, handled, lapses, dropped>>
  BY DEF Commit, CommitError, InHand, IInv, ReaderInv, kafka, reader, retries, shutdown
<1>1. TypeOK'
  <2>1. faults' \in 0..MaxFaults
    BY DEF IInv, TypeOK, Commit, CommitError, Fault
  <2>2. committed' \in 1..(Len(Log) + 1)
    BY <1>0 DEF IInv, TypeOK
  <2> QED
    BY <1>0, <2>1, <2>2 DEF IInv, TypeOK, Offsets
<1>2. \A o : Settled(o)' = Settled(o)
  BY <1>0 DEF Settled
<1>3. closed \/ \A o \in 1..(position - 1) : Settled(o) \/ o \in dropped
  BY <1>0 DEF IInv, FetchedInv
<1>4. FetchedInv'
  BY <1>0, <1>2, <1>3 DEF FetchedInv
<1>5. CommittedIsSettled'
  <2>1. CASE committed' = committed
    BY <1>0, <1>2, <2>1 DEF IInv, CommittedIsSettled
  <2>2. CASE ~closed /\ committed' = position
    BY <1>0, <1>2, <1>3, <2>2 DEF CommittedIsSettled
  <2> QED
    BY <1>0, <2>1, <2>2
<1>6. ReaderInv'
  BY <1>0, <1>1 DEF IInv, ReaderInv, TypeOK, InHand
<1>7. MemoryInv'
  BY <1>0 DEF IInv, MemoryInv
<1> QED
  BY <1>1, <1>4, <1>5, <1>6, <1>7 DEF IInv

\* A new process: it remembers nothing and resumes where everything before is settled.
LEMMA FreshStep == IInv /\ (Restart \/ Interrupt \/ Crash) => IInv'
<1> SUFFICES ASSUME IInv, Restart \/ Interrupt \/ Crash PROVE IInv'
  OBVIOUS
<1>0. /\ pc' = "fetch" /\ current' = 0 /\ position' = committed
      /\ retry' = 0 /\ budget' = BudgetCapacity /\ seen' = {}
      /\ lapses' = [id \in Ids |-> lapses[id] + 1]
      /\ UNCHANGED <<committed, dlq, handled, dropped>>
  BY DEF Restart, Interrupt, Crash, Fresh, kafka
<1>1. ~stopping' /\ stopping' \in BOOLEAN /\ ~closed' /\ closed' \in BOOLEAN
  BY Zenon DEF Restart, Interrupt, Crash, Fresh
<1>2. TypeOK'
  <2>1. faults' \in 0..MaxFaults
    BY DEF IInv, TypeOK, Restart, Interrupt, Crash, Fault
  <2>2. /\ position' \in 1..(Len(Log) + 1) /\ committed' \in 1..(Len(Log) + 1)
        /\ retry' \in 0..MaxRetries /\ budget' \in 0..BudgetCapacity
    BY <1>0 DEF IInv, TypeOK
  <2>3. pc' \in {"fetch", "handle", "backoff", "dead", "commit"} /\ current' \in Offsets \cup {0}
    BY <1>0
  <2>4. /\ dlq' \subseteq Offsets /\ dropped' \subseteq Offsets
        /\ handled' \in [Ids -> Nat] /\ lapses' \in [Ids -> Nat] /\ seen' \subseteq Ids
    BY <1>0 DEF IInv, TypeOK
  <2> QED
    BY <1>1, <2>1, <2>2, <2>3, <2>4, Zenon DEF TypeOK, Offsets
<1>3. \A o : Settled(o)' = Settled(o)
  BY <1>0 DEF Settled
<1>4. CommittedIsSettled' /\ FetchedInv'
  BY <1>0, <1>3 DEF IInv, TypeOK, CommittedIsSettled, FetchedInv
<1>5. ReaderInv'
  BY <1>0, <1>1 DEF IInv, TypeOK, ReaderInv, InHand
<1>6. MemoryInv'
  BY <1>0 DEF IInv, TypeOK, MemoryInv
<1> QED
  BY <1>2, <1>4, <1>5, <1>6 DEF IInv

\* Expiry, the signal to stop and the closing of the reader touch no offset.
LEMMA AsideStep == IInv /\ (Stop \/ Close \/ \E id \in Ids : Expire(id)) => IInv'
<1> SUFFICES ASSUME IInv, Stop \/ Close \/ \E id \in Ids : Expire(id) PROVE IInv'
  OBVIOUS
<1>0. UNCHANGED <<committed, dlq, pc, current, position, retry, budget, handled, dropped>>
  BY DEF Stop, Close, Expire, kafka, reader, retries
<1>1. stopping' \in BOOLEAN /\ closed' \in BOOLEAN /\ (closed => closed') /\ (closed' => stopping')
  <2>1. stopping \in BOOLEAN /\ closed \in BOOLEAN /\ (closed => stopping)
    BY DEF IInv, TypeOK, ReaderInv
  <2>2. CASE Stop
    BY <2>1, <2>2, Zenon DEF Stop
  <2>3. CASE Close
    BY <2>1, <2>3, Zenon DEF Close
  <2>4. CASE \E id \in Ids : Expire(id)
    <3>1. stopping' = stopping /\ closed' = closed
      BY <2>4, Zenon DEF Expire, shutdown
    <3> QED
      BY <2>1, <3>1, Zenon
  <2> QED
    BY <2>2, <2>3, <2>4
<1>2. TypeOK'
  <2>1. faults' \in 0..MaxFaults
    BY DEF IInv, TypeOK, Stop, Close, Expire, Fault
  <2>2. seen' \subseteq Ids /\ lapses' \in [Ids -> Nat]
    <3>1. seen \subseteq Ids /\ lapses \in [Ids -> Nat]
      BY DEF IInv, TypeOK
    <3>2. UNCHANGED <<seen, lapses>>
          \/ \E id \in Ids : seen' = seen \ {id} /\ lapses' = [lapses EXCEPT ![id] = @ + 1]
      BY DEF Stop, Close, Expire
    <3> QED
      BY <3>1, <3>2
  <2> QED
    BY <1>0, <1>1, <2>1, <2>2 DEF IInv, TypeOK, Offsets
<1>3. CommittedIsSettled' /\ ReaderInv' /\ FetchedInv'
  BY <1>0, <1>1 DEF IInv, CommittedIsSettled, ReaderInv, FetchedInv, InHand, Settled
<1>4. MemoryInv'
  <2>1. CASE Stop
    BY <2>1 DEF IInv, MemoryInv, Stop
  <2>2. CASE Close
    BY <2>2 DEF IInv, MemoryInv, Close
  <2>3. ASSUME NEW id \in Ids, Expire(id) PROVE MemoryInv'
    BY <2>3 DEF IInv, TypeOK, MemoryInv, Expire
  <2> QED
    BY <2>1, <2>2, <2>3
<1> QED
  BY <1>2, <1>3, <1>4 DEF IInv

LEMMA InvStep == IInv /\ [Next]_vars => IInv'
<1> SUFFICES ASSUME IInv, [Next]_vars PROVE IInv'
  OBVIOUS
<1>1. CASE UNCHANGED vars
  BY <1>1 DEF vars, kafka, reader, retries, shutdown, IInv, TypeOK, CommittedIsSettled, ReaderInv,
              FetchedInv, MemoryInv, InHand, Settled
<1>2. CASE Next
  BY <1>2, FetchStep, HandleStep, DeadLetterStep, CommitStep, FreshStep, AsideStep DEF Next, Loop
<1> QED
  BY <1>1, <1>2

\* The invariant holds in every behaviour.
THEOREM Invariance == Spec => []IInv
<1>1. Init => IInv
  BY InvInit
<1>2. IInv /\ [Next]_vars => IInv'
  BY InvStep
<1> QED
  BY <1>1, <1>2, PTL DEF Spec

\* No shutdown, crash or failed commit moves the group past an event that was neither
\* handled nor dead-lettered, unless its dead-lettering failed.
THEOREM NothingCommittedUnsettled == Spec => []CommittedIsSettled
BY Invariance, PTL DEF IInv

LEMMA InvGivesBound == IInv => EffectsBounded
<1> SUFFICES ASSUME IInv, NEW id \in Ids PROVE handled[id] <= 1 + lapses[id]
  BY DEF EffectsBounded
<1>1. handled[id] \in Nat /\ lapses[id] \in Nat
  BY DEF IInv, TypeOK
<1>2. handled[id] <= lapses[id] + (IF id \in seen THEN 1 ELSE 0)
  BY DEF IInv, MemoryInv
<1> QED
  BY <1>1, <1>2

\* The handler repeats a success only after a restart or an expiry, once for each; no
\* other fault counts.
THEOREM DuplicatesAreFiltered == Spec => []EffectsBounded
BY Invariance, InvGivesBound, PTL

LEMMA LettersAreExhausted == IInv /\ [Next]_vars => [dlq' # dlq => retry = MaxRetries \/ budget = 0]_vars
<1> SUFFICES ASSUME IInv, Next, dlq' # dlq PROVE retry = MaxRetries \/ budget = 0
  OBVIOUS
<1>1. DeadLetter \/ DeadLetterError
  BY Zenon DEF Next, Loop, Fetch, HandleDuplicate, HandleSuccess, HandleFailure, GiveUp, Fails,
     Retry, Commit, CommitError, Restart, Interrupt, Crash, Fresh, Stop, Close, Expire, kafka
<1>2. pc = "dead"
  BY <1>1 DEF DeadLetter, DeadLetterError
<1> QED
  BY <1>2 DEF IInv, ReaderInv

\* Only an event that failed until its retries or the budget were used up is dead-lettered.
THEOREM OnlyExhaustedDeadLettered == Spec => DeadLetteredIsExhausted
BY Invariance, LettersAreExhausted, PTL DEF Spec, DeadLetteredIsExhausted
=============================================================================
