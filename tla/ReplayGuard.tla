----------------------------- MODULE ReplayGuard -----------------------------
(***************************************************************************)
(* What the middleware's idempotency store promises its callers, without   *)
(* its map, its deque, its mutex or the steps of a call.                   *)
(*                                                                         *)
(* A key that was accepted is guarded.  The guard goes away only when its  *)
(* time to live has elapsed or when the host clears the whole store; while *)
(* it is there the key is not accepted again.  A call is refused as a      *)
(* replay only for a live guard, and refused for want of space only when   *)
(* live guards fill the store.                                             *)
(*                                                                         *)
(* IdempotencyStore implements this specification (see the mapping there). *)
(***************************************************************************)
EXTENDS Integers, FiniteSets, Functions

CONSTANTS
    Threads,        \* the callers
    Keys,           \* agent_id ":" reqid
    NoKey,          \* the key of a thread that has called nothing yet
    MaxEntries,     \* the capacity
    TtlSeconds,     \* how long an accepted key stays guarded
    MaxClock        \* bound: the last second of a behaviour

VARIABLES
    clock,          \* the wall clock, in seconds
    guarded,        \* accepted key -> the second it was accepted
    asked,          \* thread -> the key of its last call
    answer          \* thread -> what its last call was told, or "pending"

vars == <<clock, guarded, asked, answer>>

Answers == {"none", "pending", "Recorded", "Replay", "CapacityExceeded", "Fresh"}

Live(k) == k \in DOMAIN guarded /\ clock - guarded[k] < TtlSeconds

Init ==
    /\ clock \in 0..MaxClock
    /\ guarded = [k \in {} |-> 0]
    /\ asked = [t \in Threads |-> NoKey]
    /\ answer = [t \in Threads |-> "none"]

Advance ==
    /\ clock' = clock + 1
    /\ UNCHANGED <<guarded, asked, answer>>

Invoke(t, k) ==
    /\ answer[t] # "pending"
    /\ asked' = [asked EXCEPT ![t] = k]
    /\ answer' = [answer EXCEPT ![t] = "pending"]
    /\ UNCHANGED <<clock, guarded>>

\* The key has no guard left and there is room for one.
Accept(t) ==
    /\ answer[t] = "pending"
    /\ asked[t] \notin DOMAIN guarded
    /\ Cardinality(DOMAIN guarded) < MaxEntries
    /\ guarded' = [k \in DOMAIN guarded \cup {asked[t]} |->
                     IF k = asked[t] THEN clock ELSE guarded[k]]
    /\ answer' = [answer EXCEPT ![t] = "Recorded"]
    /\ UNCHANGED <<clock, asked>>

\* Told "Replay": at this moment the guard of the key is live.
Refuse(t) ==
    /\ answer[t] = "pending"
    /\ Live(asked[t])
    /\ answer' = [answer EXCEPT ![t] = "Replay"]
    /\ UNCHANGED <<clock, guarded, asked>>

\* Told "CapacityExceeded": at this moment live guards fill the store.
Overflow(t) ==
    /\ answer[t] = "pending"
    /\ asked[t] \notin DOMAIN guarded
    /\ Cardinality({k \in DOMAIN guarded : Live(k)}) >= MaxEntries
    /\ answer' = [answer EXCEPT ![t] = "CapacityExceeded"]
    /\ UNCHANGED <<clock, guarded, asked>>

\* The question without the side effect.
Query(t, k) ==
    /\ answer[t] # "pending"
    /\ asked' = [asked EXCEPT ![t] = k]
    /\ answer' = [answer EXCEPT ![t] = IF Live(k) THEN "Replay" ELSE "Fresh"]
    /\ UNCHANGED <<clock, guarded>>

Expire(k) ==
    /\ k \in DOMAIN guarded /\ ~Live(k)
    /\ guarded' = Restrict(guarded, DOMAIN guarded \ {k})
    /\ UNCHANGED <<clock, asked, answer>>

Forget ==
    /\ guarded' = [k \in {} |-> 0]
    /\ UNCHANGED <<clock, asked, answer>>

Next ==
    \/ Advance
    \/ Forget
    \/ \E k \in Keys : Expire(k)
    \/ \E t \in Threads :
          \/ Accept(t)
          \/ Refuse(t)
          \/ Overflow(t)
          \/ \E k \in Keys : Invoke(t, k) \/ Query(t, k)

Spec == Init /\ [][Next]_vars
==============================================================================
