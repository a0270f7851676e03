----------------------- MODULE IdempotencyStoreProofs -----------------------
(***************************************************************************)
(* Theorems about IdempotencyStore, for every number of threads and keys,  *)
(* every capacity and every time to live.                                  *)
(***************************************************************************)
EXTENDS IdempotencyStore, FiniteSetTheorems, TLAPS

\* Typing holds whichever way the clock moves.
LEMMA SkewedTyping == SkewedSpec => []TypeOK
<1>1. StoreInit => TypeOK
  BY StoreAssumption DEF StoreInit, TypeOK, Times, EmptyMap
<1>2. TypeOK /\ [SkewedNext]_storeVars => TypeOK'
  <2> SUFFICES ASSUME TypeOK, [SkewedNext]_storeVars PROVE TypeOK'
    OBVIOUS
  <2> USE StoreAssumption DEF TypeOK, Times
  <2>1. CASE UNCHANGED storeVars
    BY <2>1 DEF storeVars
  <2>2. CASE Tick
    BY <2>2 DEF Tick
  <2>3. CASE StepBack
    BY <2>3 DEF StepBack
  <2>4. CASE Clear
    BY <2>4 DEF Clear, EmptyMap
  <2>5. ASSUME NEW t \in Threads, NEW k \in Keys, BeginRecord(t, k) \/ IsReplayed(t, k)
        PROVE  TypeOK'
    <3>1. CASE BeginRecord(t, k)
      BY <3>1 DEF BeginRecord
    <3>2. CASE IsReplayed(t, k)
      BY <3>2 DEF IsReplayed
    <3>3. QED
      BY <2>5, <3>1, <3>2
  <2>6. ASSUME NEW t \in Threads, RecordStep(t) PROVE TypeOK'
    <3>1. CASE PruneExpired(t)
      BY <3>1 DEF PruneExpired, Restrict
    <3>2. CASE EndPrune(t)
      BY <3>2 DEF EndPrune
    <3>3. CASE AnswerReplay(t)
      BY <3>3 DEF AnswerReplay, Return
    <3>4. CASE AnswerCapacityExceeded(t)
      BY <3>4 DEF AnswerCapacityExceeded, Return
    <3>5. CASE AnswerRecorded(t)
      BY <3>5 DEF AnswerRecorded, Guarded, Return
    <3>6. QED
      BY <2>6, <3>1, <3>2, <3>3, <3>4, <3>5 DEF RecordStep
  <2>7. QED
    BY <2>1, <2>2, <2>3, <2>4, <2>5, <2>6 DEF SkewedNext, StoreNext
<1>3. QED
  BY <1>1, <1>2, PTL DEF SkewedSpec

-----------------------------------------------------------------------------
\* One thread at a time is inside record_request, it is the one that holds the
\* mutex, and it has not been answered yet.
CallsOK ==
    \A t \in Threads :
        /\ call[t].op # "none" <=> mutex = t
        /\ call[t].op # "none" <=> answer[t] = "pending"

\* The thread inside record_request() is the one that holds the mutex.
LEMMA SkewedCalls == SkewedSpec => []CallsOK
<1>1. StoreInit => CallsOK
  BY StoreAssumption DEF StoreInit, CallsOK
<1>2. TypeOK /\ CallsOK /\ [SkewedNext]_storeVars => CallsOK'
  <2> SUFFICES ASSUME TypeOK, CallsOK, [SkewedNext]_storeVars PROVE CallsOK'
    OBVIOUS
  <2> USE StoreAssumption DEF TypeOK, CallsOK
  <2>1. CASE UNCHANGED storeVars
    BY <2>1 DEF storeVars
  <2>2. CASE Tick \/ StepBack \/ Clear
    BY <2>2 DEF Tick, StepBack, Clear
  <2>3. ASSUME NEW t \in Threads, NEW k \in Keys, BeginRecord(t, k) \/ IsReplayed(t, k)
        PROVE  CallsOK'
    <3>1. CASE BeginRecord(t, k)
      BY <3>1 DEF BeginRecord
    <3>2. CASE IsReplayed(t, k)
      BY <3>2 DEF IsReplayed
    <3>3. QED
      BY <2>3, <3>1, <3>2
  <2>4. ASSUME NEW t \in Threads, RecordStep(t) PROVE CallsOK'
    <3>1. CASE PruneExpired(t)
      BY <3>1 DEF PruneExpired
    <3>2. CASE EndPrune(t)
      BY <3>2 DEF EndPrune
    <3>3. CASE AnswerReplay(t) \/ AnswerCapacityExceeded(t) \/ AnswerRecorded(t)
      BY <3>3 DEF AnswerReplay, AnswerCapacityExceeded, AnswerRecorded, Return
    <3>4. QED
      BY <2>4, <3>1, <3>2, <3>3 DEF RecordStep
  <2>5. QED
    BY <2>1, <2>2, <2>3, <2>4 DEF SkewedNext, StoreNext
<1>3. QED
  BY <1>1, <1>2, SkewedTyping, PTL DEF SkewedSpec

-----------------------------------------------------------------------------
\* The deque and the map of the store list the same guards with the same
\* timestamps, and no key twice, in every reachable state: also when the clock
\* is set back, when the comment that history_ is chronological is wrong.
\* HistoryMatchesMap is inductive given typing.
THEOREM SkewedHistoryMatchesMap == SkewedSpec => []HistoryMatchesMap
<1>1. StoreInit => HistoryMatchesMap
  BY DEF StoreInit, HistoryMatchesMap, EmptyMap
<1>2. TypeOK /\ HistoryMatchesMap /\ [SkewedNext]_storeVars => HistoryMatchesMap'
  <2> SUFFICES ASSUME TypeOK, HistoryMatchesMap, [SkewedNext]_storeVars
               PROVE  HistoryMatchesMap'
    OBVIOUS
  <2>1. CASE UNCHANGED <<seen_requests, history>>
    BY <2>1 DEF HistoryMatchesMap
  <2>2. CASE Clear
    BY <2>2 DEF Clear, HistoryMatchesMap, EmptyMap
  <2>3. ASSUME NEW t \in Threads, PruneExpired(t) PROVE HistoryMatchesMap'
    <3> DEFINE front == Head(history)
    <3>1. /\ history \in Seq([key : Keys, recorded_at : Times])
          /\ Len(history) \in Nat \ {0}
          /\ front = history[1]
          /\ history' = Tail(history)
      BY <2>3 DEF PruneExpired, TypeOK
    <3>2. /\ DOMAIN history = 1..Len(history)
          /\ DOMAIN history' = 1..(Len(history) - 1)
          /\ \A i \in DOMAIN history' : i + 1 \in DOMAIN history /\ history'[i] = history[i + 1]
      BY <3>1
    <3>3. seen_requests' = [k \in DOMAIN seen_requests \ {front.key} |-> seen_requests[k]]
      BY <2>3, <3>1, <3>2 DEF PruneExpired, HistoryMatchesMap, Restrict
    <3>4. \A i \in DOMAIN history' : history'[i].key # front.key
      BY <3>1, <3>2 DEF HistoryMatchesMap
    <3>5. \A k \in DOMAIN seen_requests' : \E i \in DOMAIN history' : history'[i].key = k
      <4> SUFFICES ASSUME NEW k \in DOMAIN seen_requests'
                   PROVE  \E i \in DOMAIN history' : history'[i].key = k
        OBVIOUS
      <4>1. PICK j \in DOMAIN history : history[j].key = k
        BY <3>3 DEF HistoryMatchesMap
      <4>2. j # 1
        BY <3>1, <3>3, <4>1
      <4>3. j - 1 \in DOMAIN history' /\ history'[j - 1] = history[j]
        BY <3>1, <3>2, <4>2
      <4>4. QED
        BY <4>1, <4>3
    <3>6. ASSUME NEW i \in DOMAIN history'
          PROVE  /\ history'[i].key \in DOMAIN seen_requests'
                 /\ seen_requests'[history'[i].key] = history'[i].recorded_at
      BY <3>2, <3>3, <3>4 DEF HistoryMatchesMap
    <3>7. ASSUME NEW i \in DOMAIN history', NEW j \in DOMAIN history',
                 history'[i].key = history'[j].key
          PROVE  i = j
      <4>1. i + 1 = j + 1
        BY <3>2, <3>7 DEF HistoryMatchesMap
      <4>2. QED
        BY <3>1, <3>2, <4>1
    <3>8. QED
      BY <3>5, <3>6, <3>7 DEF HistoryMatchesMap
  <2>4. ASSUME NEW t \in Threads, AnswerRecorded(t) PROVE HistoryMatchesMap'
    <3> DEFINE k0 == call[t].key
               item == [key |-> k0, recorded_at |-> clock]
    <3>1. /\ k0 \notin DOMAIN seen_requests
          /\ k0 \in Keys /\ clock \in Times
          /\ history' = Append(history, item)
          /\ seen_requests' = [k \in DOMAIN seen_requests \cup {k0} |->
                                 IF k = k0 THEN clock ELSE seen_requests[k]]
      BY <2>4 DEF AnswerRecorded, Guarded, TypeOK
    <3>2. /\ DOMAIN history = 1..Len(history) /\ Len(history) \in Nat
          /\ DOMAIN history' = 1..(Len(history) + 1)
          /\ \A i \in DOMAIN history : history'[i] = history[i]
          /\ history'[Len(history) + 1] = item
      BY <3>1 DEF TypeOK
    <3>3. \A i \in DOMAIN history : history[i].key # k0
      BY <3>1 DEF HistoryMatchesMap
    <3>4. ASSUME NEW i \in DOMAIN history'
          PROVE  /\ history'[i].key \in DOMAIN seen_requests'
                 /\ seen_requests'[history'[i].key] = history'[i].recorded_at
      <4>1. CASE i \in DOMAIN history
        BY <3>1, <3>2, <3>3, <4>1 DEF HistoryMatchesMap
      <4>2. CASE i = Len(history) + 1
        BY <3>1, <3>2, <4>2
      <4>3. QED
        BY <3>2, <4>1, <4>2
    <3>5. ASSUME NEW i \in DOMAIN history', NEW j \in DOMAIN history',
                 history'[i].key = history'[j].key
          PROVE  i = j
      <4>1. (i \in DOMAIN history \/ i = Len(history) + 1) /\ (j \in DOMAIN history \/ j = Len(history) + 1)
        BY <3>2
      <4>2. CASE i \in DOMAIN history /\ j \in DOMAIN history
        BY <3>2, <3>5, <4>2 DEF HistoryMatchesMap
      <4>3. history'[Len(history) + 1].key = k0
        BY <3>2
      <4>4. QED
        BY <3>2, <3>3, <3>5, <4>1, <4>2, <4>3
    <3>6. ASSUME NEW k \in DOMAIN seen_requests'
          PROVE  \E i \in DOMAIN history' : history'[i].key = k
      <4>1. CASE k = k0
        <5>1. Len(history) + 1 \in DOMAIN history' /\ history'[Len(history) + 1].key = k
          BY <3>2, <4>1
        <5>2. QED
          BY <5>1
      <4>2. CASE k # k0
        <5>1. PICK j \in DOMAIN history : history[j].key = k
          BY <3>1, <4>2 DEF HistoryMatchesMap
        <5>2. j \in DOMAIN history' /\ history'[j].key = k
          BY <3>2, <5>1
        <5>3. QED
          BY <5>2
      <4>3. QED
        BY <4>1, <4>2
    <3>7. QED
      BY <3>4, <3>5, <3>6 DEF HistoryMatchesMap
  <2>5. CASE Tick \/ StepBack \/ UNCHANGED storeVars
    BY <2>1, <2>5 DEF Tick, StepBack, storeVars
  <2>6. ASSUME NEW t \in Threads, NEW k \in Keys, BeginRecord(t, k) \/ IsReplayed(t, k)
        PROVE  HistoryMatchesMap'
    BY <2>1, <2>6 DEF BeginRecord, IsReplayed
  <2>7. ASSUME NEW t \in Threads, EndPrune(t) \/ AnswerReplay(t) \/ AnswerCapacityExceeded(t)
        PROVE  HistoryMatchesMap'
    BY <2>1, <2>7 DEF EndPrune, AnswerReplay, AnswerCapacityExceeded
  <2>8. QED
    BY <2>2, <2>3, <2>4, <2>5, <2>6, <2>7 DEF SkewedNext, StoreNext, RecordStep
<1>3. QED
  BY <1>1, <1>2, SkewedTyping, PTL DEF SkewedSpec

-----------------------------------------------------------------------------
\* The deque enumerates the keys of the map.
LEMMA SeenIsFinite ==
    ASSUME TypeOK, HistoryMatchesMap
    PROVE  /\ IsFiniteSet(DOMAIN seen_requests)
           /\ Cardinality(DOMAIN seen_requests) = Len(history)
           /\ Len(history) \in Nat
<1> DEFINE keyAt == [i \in 1..Len(history) |-> history[i].key]
<1>1. Len(history) \in Nat /\ DOMAIN history = 1..Len(history)
  BY DEF TypeOK
<1>2. keyAt \in [1..Len(history) -> DOMAIN seen_requests]
  BY <1>1 DEF HistoryMatchesMap
<1>3. keyAt \in Surjection(1..Len(history), DOMAIN seen_requests)
  BY <1>1, <1>2 DEF HistoryMatchesMap, Surjection
<1>4. keyAt \in Injection(1..Len(history), DOMAIN seen_requests)
  BY <1>1, <1>2 DEF HistoryMatchesMap, Injection, IsInjective
<1>5. IsFiniteSet(1..Len(history)) /\ Cardinality(1..Len(history)) = Len(history)
  <2>1. 1 \in Int /\ Len(history) \in Int
    BY <1>1
  <2>2. /\ IsFiniteSet(1..Len(history))
        /\ Cardinality(1..Len(history))
             = IF 1 > Len(history) THEN 0 ELSE Len(history) - 1 + 1
    BY <2>1, FS_Interval
  <2>3. QED
    BY <1>1, <2>2
<1>6. QED
  BY <1>1, <1>3, <1>4, <1>5, FS_Surjection

\* The map and the deque never hold more than max_entries_ guards, whichever
\* way the clock moves.
THEOREM SkewedWithinCapacity == SkewedSpec => []WithinCapacity
<1> DEFINE Bounded == Len(history) <= MaxEntries
<1>1. StoreInit => Bounded
  BY StoreAssumption DEF StoreInit
<1>2. TypeOK /\ HistoryMatchesMap /\ Bounded /\ [SkewedNext]_storeVars => Bounded'
  <2> SUFFICES ASSUME TypeOK, HistoryMatchesMap, Bounded, [SkewedNext]_storeVars
               PROVE  Bounded'
    OBVIOUS
  <2>1. Len(history) \in Nat /\ Cardinality(DOMAIN seen_requests) = Len(history)
    BY SeenIsFinite
  <2>2. CASE UNCHANGED history
    BY <2>2
  <2>3. CASE Clear
    BY <2>3, StoreAssumption DEF Clear
  <2>4. ASSUME NEW t \in Threads, PruneExpired(t) PROVE Bounded'
    <3>1. Len(history') = Len(history) - 1
      BY <2>4 DEF PruneExpired, TypeOK
    <3>2. QED
      BY <2>1, <3>1, StoreAssumption
  <2>5. ASSUME NEW t \in Threads, AnswerRecorded(t) PROVE Bounded'
    <3>1. Len(history') = Len(history) + 1 /\ Len(history) < MaxEntries
      BY <2>1, <2>5 DEF AnswerRecorded, Guarded, TypeOK
    <3>2. QED
      BY <2>1, <3>1, StoreAssumption
  <2>6. QED
    BY <2>2, <2>3, <2>4, <2>5
       DEF SkewedNext, StoreNext, RecordStep, storeVars, Tick, StepBack, BeginRecord,
           IsReplayed, EndPrune, AnswerReplay, AnswerCapacityExceeded
<1>3. TypeOK /\ HistoryMatchesMap /\ Bounded => WithinCapacity
  BY SeenIsFinite DEF WithinCapacity
<1>4. QED
  BY <1>1, <1>2, <1>3, SkewedTyping, SkewedHistoryMatchesMap, PTL DEF SkewedSpec

-----------------------------------------------------------------------------
\* On a host whose clock is never set back, timestamps never decrease along
\* the deque and none is in the future.
Chronological ==
    /\ \A i, j \in DOMAIN history : i < j => history[i].recorded_at <= history[j].recorded_at
    /\ \A i \in DOMAIN history : history[i].recorded_at <= clock

\* The inductive invariant of the store under a clock that only advances.
StoreInv == TypeOK /\ CallsOK /\ HistoryMatchesMap /\ Chronological

\* An item of a sequence over S is in S.
LEMMA ItemOfSeq ==
    ASSUME NEW S, NEW s \in Seq(S), NEW i \in DOMAIN s PROVE s[i] \in S
OBVIOUS

\* What the invariant says of one item of the deque.
LEMMA HistoryItems ==
    TypeOK => /\ clock \in Int
              /\ \A i \in DOMAIN history :
                   history[i].key \in Keys /\ history[i].recorded_at \in Int
<1> SUFFICES ASSUME TypeOK
             PROVE  /\ clock \in Int
                    /\ \A i \in DOMAIN history :
                         history[i].key \in Keys /\ history[i].recorded_at \in Int
  OBVIOUS
<1>1. Times \subseteq Int
  BY StoreAssumption DEF Times
<1>2. clock \in Times /\ history \in Seq([key : Keys, recorded_at : Times])
  BY DEF TypeOK
<1>3. \A i \in DOMAIN history : history[i] \in [key : Keys, recorded_at : Times]
  BY <1>2, ItemOfSeq
<1>4. QED
  BY <1>1, <1>2, <1>3

\* A clock that only advances is a clock that happens never to be set back.
LEMMA StoreIsSkewed == StoreSpec => SkewedSpec
<1>1. [StoreNext]_storeVars => [SkewedNext]_storeVars
  BY DEF SkewedNext
<1>2. QED
  BY <1>1, PTL DEF StoreSpec, SkewedSpec

\* The inductive invariant holds: under this clock timestamps are in order.
LEMMA StoreInvariant == StoreSpec => []StoreInv
<1>1. StoreInit => Chronological
  BY DEF StoreInit, Chronological
<1>2. TypeOK /\ Chronological /\ [StoreNext]_storeVars => Chronological'
  <2> SUFFICES ASSUME TypeOK, Chronological, [StoreNext]_storeVars
               PROVE  Chronological'
    OBVIOUS
  <2>1. CASE UNCHANGED <<history, clock>>
    BY <2>1 DEF Chronological
  <2>2. CASE Tick
    BY <2>2, HistoryItems DEF Tick, Chronological
  <2>3. CASE Clear
    BY <2>3 DEF Clear, Chronological
  <2>4. ASSUME NEW t \in Threads, PruneExpired(t) PROVE Chronological'
    <3>1. /\ history' = Tail(history) /\ Len(history) \in Nat \ {0}
          /\ clock' = clock
          /\ DOMAIN history = 1..Len(history)
          /\ DOMAIN history' = 1..(Len(history) - 1)
          /\ \A i \in DOMAIN history' : i + 1 \in DOMAIN history /\ history'[i] = history[i + 1]
      BY <2>4 DEF PruneExpired, TypeOK
    <3>2. QED
      BY <3>1 DEF Chronological
  <2>5. ASSUME NEW t \in Threads, AnswerRecorded(t) PROVE Chronological'
    <3> DEFINE item == [key |-> call[t].key, recorded_at |-> clock]
    <3>1. /\ history' = Append(history, item)
          /\ clock' = clock /\ clock \in Nat
          /\ call[t].key \in Keys /\ item \in [key : Keys, recorded_at : Times]
      BY <2>5 DEF AnswerRecorded, Guarded, TypeOK, Times
    <3>2. /\ DOMAIN history = 1..Len(history) /\ Len(history) \in Nat
          /\ DOMAIN history' = 1..(Len(history) + 1)
          /\ \A i \in DOMAIN history : history'[i] = history[i]
          /\ history'[Len(history) + 1].recorded_at = clock
      BY <3>1 DEF TypeOK
    <3>3. QED
      BY <3>1, <3>2 DEF Chronological
  <2>6. ASSUME NEW t \in Threads, NEW k \in Keys, BeginRecord(t, k) \/ IsReplayed(t, k)
        PROVE  Chronological'
    BY <2>1, <2>6 DEF BeginRecord, IsReplayed
  <2>7. ASSUME NEW t \in Threads, EndPrune(t) \/ AnswerReplay(t) \/ AnswerCapacityExceeded(t)
        PROVE  Chronological'
    BY <2>1, <2>7 DEF EndPrune, AnswerReplay, AnswerCapacityExceeded
  <2>8. QED
    BY <2>1, <2>2, <2>3, <2>4, <2>5, <2>6, <2>7 DEF StoreNext, RecordStep, storeVars
<1>3. QED
  BY <1>1, <1>2, StoreIsSkewed, SkewedTyping, SkewedCalls, SkewedHistoryMatchesMap, PTL
     DEF StoreSpec, StoreInv

\* Typing of the store, on a host whose clock only advances.
THEOREM StoreTyping == StoreSpec => []TypeOK
BY StoreInvariant, PTL DEF StoreInv

\* prune_expired() may stop at the first live entry: no expired entry stands
\* behind a live one, as the comment on it says.
THEOREM StoreExpiredAtFront == StoreSpec => []ExpiredAtFront
<1>1. StoreInv => ExpiredAtFront
  <2> SUFFICES ASSUME StoreInv, NEW i \in DOMAIN history, NEW j \in DOMAIN history,
                      i < j, IsExpired(history[j].recorded_at)
               PROVE  IsExpired(history[i].recorded_at)
    BY DEF ExpiredAtFront
  <2>1. /\ clock \in Int /\ history[i].recorded_at \in Int /\ history[j].recorded_at \in Int
        /\ history[i].recorded_at <= history[j].recorded_at
    BY HistoryItems DEF StoreInv, Chronological
  <2>2. QED
    BY <2>1, StoreAssumption DEF IsExpired
<1>2. QED
  BY <1>1, StoreInvariant, PTL

-----------------------------------------------------------------------------
\* When prune_expired() stops, every guard of the map is live: the front of
\* the deque is the oldest of them.
LEMMA PrunedIsLive ==
    ASSUME StoreInv, NEW t \in Threads, EndPrune(t)
    PROVE  \A k \in DOMAIN seen_requests : clock - seen_requests[k] < TtlSeconds
<1> SUFFICES ASSUME NEW k \in DOMAIN seen_requests
             PROVE  clock - seen_requests[k] < TtlSeconds
  OBVIOUS
<1>1. PICK i \in DOMAIN history : history[i].key = k /\ seen_requests[k] = history[i].recorded_at
  BY DEF StoreInv, HistoryMatchesMap
<1>2. history # <<>> /\ 1 \in DOMAIN history /\ Head(history) = history[1] /\ i \in Nat /\ 1 <= i
  BY <1>1 DEF StoreInv, TypeOK
<1>3. history[1].recorded_at <= history[i].recorded_at
  BY <1>1, <1>2, HistoryItems DEF StoreInv, Chronological
<1>4. clock - history[1].recorded_at < TtlSeconds
  BY <1>2, HistoryItems, StoreAssumption DEF EndPrune, IsExpired, StoreInv
<1>5. QED
  BY <1>1, <1>2, <1>3, <1>4, HistoryItems, StoreAssumption DEF StoreInv

\* The instance of ReplayGuard brings its own copy of Cardinality.
LEMMA GuardCardinality == \A S : Guard!Cardinality(S) = Cardinality(S)
BY DEF Guard!Cardinality, Cardinality

\* The store keeps ReplayGuard's promise: once a key is recorded, no call is
\* told "Recorded" for it again until its time to live has elapsed or the host
\* clears the store, and no call is refused but for guards that are live.
THEOREM StoreImplementsGuard == StoreSpec => GuardSpec
<1>1. StoreInit => Guard!Init
  BY DEF StoreInit, Guard!Init, GuardAnswer, Times, EmptyMap
<1>2. StoreInv /\ [StoreNext]_storeVars => [Guard!Next]_(Guard!vars)
  <2> SUFFICES ASSUME StoreInv, [StoreNext]_storeVars
               PROVE  Guard!Next \/ UNCHANGED Guard!vars
    OBVIOUS
  <2> USE DEF GuardAnswer
  <2>1. CASE UNCHANGED storeVars
    BY <2>1 DEF storeVars, Guard!vars
  <2>2. CASE Tick
    <3>1. Guard!Advance
      BY <2>2 DEF Tick, Guard!Advance
    <3>2. QED
      BY <3>1 DEF Guard!Next
  <2>3. CASE Clear
    <3>1. \A t \in Threads : call[t].op = "none"
      BY <2>3, StoreAssumption DEF Clear, StoreInv, CallsOK
    <3>2. Guard!Forget
      BY <2>3, <3>1 DEF Clear, Guard!Forget, EmptyMap
    <3>3. QED
      BY <3>2 DEF Guard!Next
  <2>4. ASSUME NEW t \in Threads, NEW k \in Keys, BeginRecord(t, k)
        PROVE  Guard!Next
    <3>1. Guard!Invoke(t, k)
      BY <2>4 DEF BeginRecord, Guard!Invoke, StoreInv, CallsOK, TypeOK
    <3>2. QED
      BY <3>1 DEF Guard!Next
  <2>5. ASSUME NEW t \in Threads, NEW k \in Keys, IsReplayed(t, k)
        PROVE  Guard!Next
    <3>1. \A u \in Threads : call[u].op = "none" /\ call'[u].op = "none"
      BY <2>5, StoreAssumption DEF IsReplayed, StoreInv, CallsOK, TypeOK
    <3>2. \A u \in Threads : GuardAnswer(u) = answer[u] /\ GuardAnswer(u)' = answer'[u]
      BY <3>1
    <3>3. answer[t] # "pending"
      BY <3>1 DEF StoreInv, CallsOK
    <3>4. /\ answer' = [answer EXCEPT ![t] = IF Guard!Live(k) THEN "Replay" ELSE "Fresh"]
          /\ answer \in [Threads -> {"none", "pending", "Recorded", "Replay",
                                    "CapacityExceeded", "Fresh"}]
      <4>1. Guard!Live(k) <=> IsReplayedNow(k)
        BY HistoryItems, StoreAssumption
           DEF Guard!Live, IsReplayedNow, IsExpired, StoreInv, TypeOK, Times
      <4>2. QED
        BY <2>5, <4>1 DEF IsReplayed, StoreInv, TypeOK
    <3>5. \A u \in Threads : call'[u].key = IF u = t THEN k ELSE call[u].key
      BY <2>5 DEF IsReplayed, StoreInv, TypeOK
    <3>6. Guard!Query(t, k)
      <4> HIDE DEF GuardAnswer
      <4>1. clock' = clock /\ seen_requests' = seen_requests
        BY <2>5 DEF IsReplayed
      <4>2. [u \in Threads |-> call[u].key]'
              = [[u \in Threads |-> call[u].key] EXCEPT ![t] = k]
        BY <3>5
      <4>3. [u \in Threads |-> GuardAnswer(u)]'
              = [[u \in Threads |-> GuardAnswer(u)] EXCEPT
                    ![t] = IF Guard!Live(k) THEN "Replay" ELSE "Fresh"]
        BY <3>2, <3>4
      <4>4. QED
        BY <3>2, <3>3, <4>1, <4>2, <4>3 DEF Guard!Query
    <3>7. QED
      BY <3>6 DEF Guard!Next
  \* A step inside record_request changes what the abstract store sees of its
  \* own thread only: no other thread has a call open.
  <2>6. ASSUME NEW t \in Threads, RecordStep(t)
        PROVE  /\ \A u \in Threads \ {t} : GuardAnswer(u)' = GuardAnswer(u)
               /\ \A u \in Threads : call'[u].key = call[u].key
    <3>1. /\ call[t].op # "none"
          /\ \A u \in Threads : call'[u].key = call[u].key
          /\ \A u \in Threads \ {t} : call'[u] = call[u] /\ answer'[u] = answer[u]
      <4>1. CASE PruneExpired(t)
        BY <4>1 DEF PruneExpired
      <4>2. CASE EndPrune(t)
        BY <4>2 DEF EndPrune, StoreInv, TypeOK
      <4>3. CASE AnswerReplay(t) \/ AnswerCapacityExceeded(t) \/ AnswerRecorded(t)
        BY <4>3 DEF AnswerReplay, AnswerCapacityExceeded, AnswerRecorded, Return, Guarded,
                    StoreInv, TypeOK
      <4>4. QED
        BY <2>6, <4>1, <4>2, <4>3 DEF RecordStep
    <3>2. \A u \in Threads \ {t} : call[u].op = "none"
      BY <3>1 DEF StoreInv, CallsOK
    <3>3. QED
      BY <3>1, <3>2
  <2>7. ASSUME NEW t \in Threads, PruneExpired(t) PROVE Guard!Next
    <3> DEFINE k == Head(history).key
    <3>1. 1 \in DOMAIN history /\ Head(history) = history[1]
      BY <2>7 DEF PruneExpired, StoreInv, TypeOK
    <3>2. k \in DOMAIN seen_requests /\ seen_requests[k] = Head(history).recorded_at
      BY <3>1 DEF StoreInv, HistoryMatchesMap
    <3>3. k \in Keys /\ ~Guard!Live(k)
      BY <2>7, <3>1, <3>2, HistoryItems, StoreAssumption
         DEF Guard!Live, PruneExpired, IsExpired, StoreInv
    <3>4. /\ seen_requests' = Restrict(seen_requests, DOMAIN seen_requests \ {k})
          /\ clock' = clock /\ call' = call /\ answer' = answer
          /\ call[t].op # "decide"
      BY <2>7, <3>2 DEF PruneExpired
    <3>5. \A u \in Threads : GuardAnswer(u)' = GuardAnswer(u)
      BY <2>6, <2>7, <3>4 DEF RecordStep
    <3>6. Guard!Expire(k)
      <4> HIDE DEF GuardAnswer, k
      <4>1. [u \in Threads |-> GuardAnswer(u)]' = [u \in Threads |-> GuardAnswer(u)]
        BY <3>5
      <4>2. [u \in Threads |-> call[u].key]' = [u \in Threads |-> call[u].key]
        BY <3>4
      <4>3. QED
        BY <3>2, <3>3, <3>4, <4>1, <4>2 DEF Guard!Expire, Guard!Restrict, Restrict
    <3>7. QED
      BY <3>3, <3>6 DEF Guard!Next
  <2>8. ASSUME NEW t \in Threads, EndPrune(t) PROVE Guard!Next \/ UNCHANGED Guard!vars
    <3>1. /\ clock' = clock /\ seen_requests' = seen_requests
          /\ \A u \in Threads \ {t} : GuardAnswer(u)' = GuardAnswer(u)
          /\ \A u \in Threads : call'[u].key = call[u].key
          /\ GuardAnswer(t) = "pending"
          /\ call'[t].op = "decide" /\ answer'[t] = "pending"
      BY <2>6, <2>8 DEF EndPrune, RecordStep, StoreInv, TypeOK, CallsOK
    <3>2. [u \in Threads |-> call[u].key]' = [u \in Threads |-> call[u].key]
      BY <3>1
    <3>3. [u \in Threads |-> GuardAnswer(u)]'
            = [[u \in Threads |-> GuardAnswer(u)] EXCEPT ![t] = GuardAnswer(t)']
      <4> HIDE DEF GuardAnswer
      <4>1. QED
        BY <3>1
    <3>4. CASE call[t].key \in DOMAIN seen_requests
      <4>1. GuardAnswer(t)' = "Replay"
        BY <3>1, <3>4
      <4>2. Guard!Live(call[t].key)
        BY <2>8, <3>4, PrunedIsLive DEF Guard!Live
      <4> HIDE DEF GuardAnswer
      <4>3. Guard!Refuse(t)
        BY <3>1, <3>2, <3>3, <4>1, <4>2 DEF Guard!Refuse
      <4>4. QED
        BY <4>3 DEF Guard!Next
    <3>5. CASE /\ call[t].key \notin DOMAIN seen_requests
               /\ Cardinality(DOMAIN seen_requests) >= MaxEntries
      <4>1. GuardAnswer(t)' = "CapacityExceeded"
        BY <3>1, <3>5
      <4>2. {k \in DOMAIN seen_requests : Guard!Live(k)} = DOMAIN seen_requests
        BY <2>8, PrunedIsLive DEF Guard!Live
      <4> HIDE DEF GuardAnswer
      <4>3. [u \in Threads |-> GuardAnswer(u)][t] = "pending"
        BY <3>1
      <4>4. [u \in Threads |-> call[u].key][t] = call[t].key
        OBVIOUS
      <4>5. Guard!Overflow(t)
        BY <3>1, <3>2, <3>3, <3>5, <4>1, <4>2, <4>3, <4>4, GuardCardinality
           DEF Guard!Overflow
      <4>6. QED
        BY <4>5 DEF Guard!Next
    <3>6. CASE /\ call[t].key \notin DOMAIN seen_requests
               /\ ~(Cardinality(DOMAIN seen_requests) >= MaxEntries)
      <4>1. GuardAnswer(t)' = GuardAnswer(t)
        BY <3>1, <3>6
      <4> HIDE DEF GuardAnswer
      <4>2. QED
        BY <3>1, <3>2, <4>1 DEF Guard!vars
    <3>7. QED
      BY <3>4, <3>5, <3>6
  <2>9. ASSUME NEW t \in Threads,
               AnswerReplay(t) \/ AnswerCapacityExceeded(t) \/ AnswerRecorded(t)
        PROVE  Guard!Next \/ UNCHANGED Guard!vars
    <3>1. /\ clock' = clock
          /\ \A u \in Threads \ {t} : GuardAnswer(u)' = GuardAnswer(u)
          /\ \A u \in Threads : call'[u].key = call[u].key
          /\ call[t].op = "decide" /\ call'[t].op = "none" /\ answer[t] = "pending"
      <4> HIDE DEF GuardAnswer
      <4>1. RecordStep(t)
        BY <2>9 DEF RecordStep
      <4>2. /\ clock' = clock
            /\ call[t].op = "decide" /\ call'[t].op = "none"
        BY <2>9 DEF AnswerReplay, AnswerCapacityExceeded, AnswerRecorded, Return, StoreInv, TypeOK
      <4>3. answer[t] = "pending"
        BY <4>2 DEF StoreInv, CallsOK
      <4>4. QED
        BY <2>6, <4>1, <4>2, <4>3
    <3>2. [u \in Threads |-> call[u].key]' = [u \in Threads |-> call[u].key]
      BY <3>1
    <3>3. GuardAnswer(t)' = answer'[t]
      BY <3>1
    <3>4. CASE AnswerReplay(t) \/ AnswerCapacityExceeded(t)
      <4>1. seen_requests' = seen_requests /\ GuardAnswer(t)' = GuardAnswer(t)
        BY <3>1, <3>3, <3>4 DEF AnswerReplay, AnswerCapacityExceeded, Return, StoreInv, TypeOK
      <4> HIDE DEF GuardAnswer
      <4>2. QED
        BY <3>1, <3>2, <4>1 DEF Guard!vars
    <3>5. CASE AnswerRecorded(t)
      <4>1. /\ call[t].key \notin DOMAIN seen_requests
            /\ Cardinality(DOMAIN seen_requests) < MaxEntries
            /\ seen_requests' = [k \in DOMAIN seen_requests \cup {call[t].key} |->
                                    IF k = call[t].key THEN clock ELSE seen_requests[k]]
            /\ answer'[t] = "Recorded"
        BY <3>5 DEF AnswerRecorded, Guarded, Return, StoreInv, TypeOK
      <4>2. Cardinality(DOMAIN seen_requests) >= MaxEntries <=> ~(Cardinality(DOMAIN seen_requests) < MaxEntries)
        BY StoreAssumption, SeenIsFinite DEF StoreInv
      <4>3. GuardAnswer(t) = "pending"
        BY <3>1, <4>1, <4>2
      <4> HIDE DEF GuardAnswer
      <4>4. [u \in Threads |-> GuardAnswer(u)]'
              = [[u \in Threads |-> GuardAnswer(u)] EXCEPT ![t] = "Recorded"]
        BY <3>1, <3>3, <4>1
      <4>5. [u \in Threads |-> GuardAnswer(u)][t] = "pending"
        BY <4>3
      <4>6. [u \in Threads |-> call[u].key][t] = call[t].key
        OBVIOUS
      <4>7. Guard!Accept(t)
        BY <3>1, <3>2, <4>1, <4>4, <4>5, <4>6, GuardCardinality DEF Guard!Accept
      <4>8. QED
        BY <4>7 DEF Guard!Next
    <3>6. QED
      BY <2>9, <3>4, <3>5
  <2>10. QED
    BY <2>1, <2>2, <2>3, <2>4, <2>5, <2>6, <2>7, <2>8, <2>9 DEF StoreNext, RecordStep
<1>3. QED
  BY <1>1, <1>2, StoreInvariant, PTL DEF StoreSpec, GuardSpec, Guard!Spec
=============================================================================
