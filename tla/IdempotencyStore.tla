-------------------------- MODULE IdempotencyStore --------------------------
(***************************************************************************)
(* class IdempotencyStore of middleware.hpp: the keys that were executed,  *)
(* each guarded for TtlSeconds, in a map bounded by MaxEntries and in a    *)
(* deque that lists them in the order they were recorded.                  *)
(*                                                                         *)
(* Every public operation holds mutex_ from its first line to its last,    *)
(* but record_request reads the wall clock many times while it does: once  *)
(* for each entry prune_expired() tests and once more for the timestamp.   *)
(* So a call is a sequence of steps, one for each reading of the clock,    *)
(* and the clock moves between them.                                       *)
(***************************************************************************)
EXTENDS Integers, Sequences, FiniteSets, Functions

CONSTANTS
    Threads,        \* callers of the store
    NoThread,       \* the owner of the mutex when it is free
    Keys,           \* the strings agent_id + ":" + reqid
    NoKey,          \* the key of a thread that has called nothing yet
    MaxEntries,     \* max_entries_
    TtlSeconds,     \* ttl_seconds_
    MaxClock        \* bound: the last second of a behaviour

ASSUME StoreAssumption ==
    /\ NoThread \notin Threads
    /\ NoKey \notin Keys
    /\ MaxEntries \in Nat
    /\ TtlSeconds \in Nat
    /\ MaxClock \in Nat

VARIABLES
    clock,          \* std::chrono::system_clock, in seconds
    seen_requests,  \* seen_requests_: key -> recorded_at
    history,        \* history_: <<[key, recorded_at], ...>>
    mutex,          \* mutex_: the thread inside, or NoThread
    call,           \* thread -> [op, key]: where its record_request stands
    answer          \* thread -> what its last call returned

storeVars == <<clock, seen_requests, history, mutex, call, answer>>

Times == 0..MaxClock

EmptyMap == [k \in {} |-> 0]

TypeOK ==
    /\ clock \in Times
    /\ DOMAIN seen_requests \subseteq Keys
    /\ seen_requests \in [DOMAIN seen_requests -> Times]
    /\ history \in Seq([key : Keys, recorded_at : Times])
    /\ mutex \in Threads \cup {NoThread}
    /\ call \in [Threads -> [op : {"none"}, key : Keys \cup {NoKey}]
                          \cup [op : {"prune", "decide"}, key : Keys]]
    /\ answer \in [Threads ->
         {"none", "pending", "Recorded", "Replay", "CapacityExceeded", "Fresh"}]

StoreInit ==
    /\ clock \in Times
    /\ seen_requests = EmptyMap
    /\ history = <<>>
    /\ mutex = NoThread
    /\ call = [t \in Threads |-> [op |-> "none", key |-> NoKey]]
    /\ answer = [t \in Threads |-> "none"]

-----------------------------------------------------------------------------
\* Operators named Mutant... are variants of the definition that follows them
\* with a bug in it; they show which property notices that bug.
MutantExpiresEarly(recorded_at) == clock + 1 - recorded_at >= TtlSeconds

IsExpired(recorded_at) == clock - recorded_at >= TtlSeconds

MutantForgetsExpiry(k) == k \in DOMAIN seen_requests

IsReplayedNow(k) == k \in DOMAIN seen_requests /\ ~IsExpired(seen_requests[k])

MutantKeyNotStored(t, k) ==
    /\ mutex = NoThread
    /\ call[t].op = "none"
    /\ mutex' = t
    /\ call' = [call EXCEPT ![t].op = "prune"]
    /\ answer' = [answer EXCEPT ![t] = "pending"]
    /\ UNCHANGED <<clock, seen_requests, history>>

\* record_request(): the mutex is taken.
BeginRecord(t, k) ==
    /\ mutex = NoThread
    /\ call[t].op = "none"
    /\ mutex' = t
    /\ call' = [call EXCEPT ![t] = [op |-> "prune", key |-> k]]
    /\ answer' = [answer EXCEPT ![t] = "pending"]
    /\ UNCHANGED <<clock, seen_requests, history>>

MutantPrunesDequeOnly(t) ==
    /\ call[t].op = "prune"
    /\ history # <<>> /\ IsExpired(Head(history).recorded_at)
    /\ history' = Tail(history)
    /\ UNCHANGED <<clock, seen_requests, mutex, call, answer>>

\* One round of the loop of prune_expired(): the front has expired.
PruneExpired(t) ==
    /\ call[t].op = "prune"
    /\ history # <<>>
    /\ IsExpired(Head(history).recorded_at)
    /\ LET front == Head(history)
           isItsEntry == /\ front.key \in DOMAIN seen_requests
                         /\ seen_requests[front.key] = front.recorded_at
       IN  seen_requests' = IF isItsEntry
                            THEN Restrict(seen_requests, DOMAIN seen_requests \ {front.key})
                            ELSE seen_requests
    /\ history' = Tail(history)
    /\ UNCHANGED <<clock, mutex, call, answer>>

MutantSkipsPruning(t) ==
    /\ call[t].op = "prune"
    /\ call' = [call EXCEPT ![t].op = "decide"]
    /\ UNCHANGED <<clock, seen_requests, history, mutex, answer>>

\* The loop ends: nothing is left, or the front is still live.
EndPrune(t) ==
    /\ call[t].op = "prune"
    /\ history # <<>> => ~IsExpired(Head(history).recorded_at)
    /\ call' = [call EXCEPT ![t].op = "decide"]
    /\ UNCHANGED <<clock, seen_requests, history, mutex, answer>>

\* The lock_guard goes out of scope.
Return(t, result) ==
    /\ mutex' = NoThread
    /\ call' = [call EXCEPT ![t].op = "none"]
    /\ answer' = [answer EXCEPT ![t] = result]

AnswerReplay(t) ==
    /\ call[t].op = "decide"
    /\ call[t].key \in DOMAIN seen_requests
    /\ Return(t, "Replay")
    /\ UNCHANGED <<clock, seen_requests, history>>

\* The map with a new entry, recorded now.
Guarded(key) ==
    [k \in DOMAIN seen_requests \cup {key} |-> IF k = key THEN clock ELSE seen_requests[k]]

MutantInsertsFirst(t) ==
    /\ call[t].op = "decide"
    /\ call[t].key \notin DOMAIN seen_requests
    /\ Cardinality(DOMAIN seen_requests) >= MaxEntries
    /\ seen_requests' = Guarded(call[t].key)
    /\ Return(t, "CapacityExceeded")
    /\ UNCHANGED <<clock, history>>

AnswerCapacityExceeded(t) ==
    /\ call[t].op = "decide"
    /\ call[t].key \notin DOMAIN seen_requests
    /\ Cardinality(DOMAIN seen_requests) >= MaxEntries
    /\ Return(t, "CapacityExceeded")
    /\ UNCHANGED <<clock, seen_requests, history>>

MutantPushesFront(t) ==
    /\ call[t].op = "decide"
    /\ call[t].key \notin DOMAIN seen_requests
    /\ Cardinality(DOMAIN seen_requests) < MaxEntries
    /\ seen_requests' = Guarded(call[t].key)
    /\ history' = <<[key |-> call[t].key, recorded_at |-> clock]>> \o history
    /\ Return(t, "Recorded")
    /\ UNCHANGED clock

MutantOffByOne(t) ==
    /\ call[t].op = "decide"
    /\ call[t].key \notin DOMAIN seen_requests
    /\ Cardinality(DOMAIN seen_requests) <= MaxEntries
    /\ seen_requests' = Guarded(call[t].key)
    /\ history' = Append(history, [key |-> call[t].key, recorded_at |-> clock])
    /\ Return(t, "Recorded")
    /\ UNCHANGED clock

MutantEvicts(t) ==
    /\ call[t].op = "decide"
    /\ call[t].key \notin DOMAIN seen_requests
    /\ LET full    == Cardinality(DOMAIN seen_requests) >= MaxEntries
           evicted == IF full /\ history # <<>> THEN {Head(history).key} ELSE {}
       IN  /\ seen_requests' = Restrict(Guarded(call[t].key),
                                 (DOMAIN seen_requests \ evicted) \cup {call[t].key})
           /\ history' = Append(IF evicted = {} THEN history ELSE Tail(history),
                                [key |-> call[t].key, recorded_at |-> clock])
    /\ Return(t, "Recorded")
    /\ UNCHANGED clock

AnswerRecorded(t) ==
    /\ call[t].op = "decide"
    /\ call[t].key \notin DOMAIN seen_requests
    /\ Cardinality(DOMAIN seen_requests) < MaxEntries
    /\ seen_requests' = Guarded(call[t].key)
    /\ history' = Append(history, [key |-> call[t].key, recorded_at |-> clock])
    /\ Return(t, "Recorded")
    /\ UNCHANGED clock

\* is_replayed(): one look at the map and one reading of the clock.
IsReplayed(t, k) ==
    /\ mutex = NoThread
    /\ call[t].op = "none"
    /\ call' = [call EXCEPT ![t].key = k]
    /\ answer' = [answer EXCEPT ![t] = IF IsReplayedNow(k) THEN "Replay" ELSE "Fresh"]
    /\ UNCHANGED <<clock, seen_requests, history, mutex>>

Clear ==
    /\ mutex = NoThread
    /\ seen_requests' = EmptyMap
    /\ history' = <<>>
    /\ UNCHANGED <<clock, mutex, call, answer>>

Tick ==
    /\ clock < MaxClock
    /\ clock' = clock + 1
    /\ UNCHANGED <<seen_requests, history, mutex, call, answer>>

\* system_clock is not steady: an adjustment may set it back.
StepBack ==
    /\ clock' \in 0..(clock - 1)
    /\ UNCHANGED <<seen_requests, history, mutex, call, answer>>

\* What a thread inside record_request does next.
RecordStep(t) ==
    \/ PruneExpired(t)
    \/ EndPrune(t)
    \/ AnswerReplay(t)
    \/ AnswerCapacityExceeded(t)
    \/ AnswerRecorded(t)

StoreNext ==
    \/ Tick
    \/ Clear
    \/ \E t \in Threads :
          \/ RecordStep(t)
          \/ \E k \in Keys : BeginRecord(t, k) \/ IsReplayed(t, k)

StoreSpec == StoreInit /\ [][StoreNext]_storeVars

\* The same store on a host whose clock may be set back.
SkewedNext == StoreNext \/ StepBack

SkewedSpec == StoreInit /\ [][SkewedNext]_storeVars

-----------------------------------------------------------------------------
\* The deque and the map describe the same guards: every item of history_ is
\* the map's entry for its key with the same timestamp, no key is listed
\* twice, and no entry is missing from the deque.  An entry missing there
\* could never expire; an item listed twice could drop a newer guard.  This is
\* why the test "the map entry is the one this item recorded" in
\* prune_expired() never fails.
HistoryMatchesMap ==
    /\ \A i \in DOMAIN history :
         /\ history[i].key \in DOMAIN seen_requests
         /\ seen_requests[history[i].key] = history[i].recorded_at
    /\ \A i, j \in DOMAIN history : history[i].key = history[j].key => i = j
    /\ \A k \in DOMAIN seen_requests : \E i \in DOMAIN history : history[i].key = k

\* Neither the map nor the deque ever outgrows max_entries_: an entry that is
\* refused, pruned or cleared leaves nothing behind in either of them.
WithinCapacity ==
    /\ Len(history) <= MaxEntries
    /\ Cardinality(DOMAIN seen_requests) <= MaxEntries

\* "history_ is chronological, so expired entries are always at the front"
\* (the comment on prune_expired): no expired entry stands behind a live one.
ExpiredAtFront ==
    \A i, j \in DOMAIN history :
        i < j /\ IsExpired(history[j].recorded_at) => IsExpired(history[i].recorded_at)

\* The refinement.  A call that is going to be refused is refused, for the
\* abstract store, when prune_expired() ends: that is the last moment at which
\* the guards are known to be live.  Its return, in a later second perhaps, is
\* a stutter.
GuardAnswer(t) ==
    IF call[t].op # "decide" THEN answer[t]
    ELSE IF call[t].key \in DOMAIN seen_requests THEN "Replay"
    ELSE IF Cardinality(DOMAIN seen_requests) >= MaxEntries THEN "CapacityExceeded"
    ELSE answer[t]

Guard == INSTANCE ReplayGuard WITH
            guarded <- seen_requests,
            asked   <- [t \in Threads |-> call[t].key],
            answer  <- [t \in Threads |-> GuardAnswer(t)]

\* The store keeps the promise of ReplayGuard: a guard is dropped only when it
\* has expired or by clear(), and a refusal is never for a stale entry.
GuardSpec == Guard!Spec
=============================================================================
