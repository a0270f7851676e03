-------------------------- MODULE MiddlewareProofs --------------------------
(***************************************************************************)
(* Theorems about Middleware, for every number of threads, every set of    *)
(* frames and every bound: evaluate() uses the store only through its      *)
(* operations, so what is proved of the store holds inside the middleware; *)
(* and on top of that no request is authorized twice in a time to live.    *)
(***************************************************************************)
EXTENDS Middleware, IdempotencyStoreProofs

\* Where evaluate() stands agrees with what it works on and with its call to the
\* store.
Labels == {"idle", "frame", "enforced", "lookup", "check", "proxy", "record", "recording"}

Works ==
    [request : Requests \cup {NoRequest}, accept_healed : BOOLEAN, check : Nat, scope : Nat]

WorkTypes ==
    /\ pc \in [Threads -> Labels]
    /\ work \in [Threads -> Works]
    /\ call \in [Threads -> [op : {"none", "prune", "decide"}, key : Keys \cup {NoKey}]]

InStep ==
    \A t \in Threads :
        /\ pc[t] # "idle" => work[t].request \in Requests
        /\ pc[t] = "recording" <=> call[t].op # "none"
        /\ pc[t] = "recording" => call[t].key = KeyOf(work[t].request)

\* A plan is rejected or authorized only when the evaluation ends.
PlanFields == {"authorized", "approved_actions", "approved", "error"}

PlanTypes ==
    /\ plan = [t \in Threads |-> plan[t]]
    /\ \A t \in Threads :
         /\ DOMAIN plan[t] = PlanFields
         /\ plan[t].authorized \in BOOLEAN
         /\ pc[t] # "idle" => plan[t].error = "" /\ plan[t].authorized = FALSE
         /\ plan[t].authorized => plan[t].error = ""

ConfigTypes ==
    /\ session_granted_scopes \in [Agents -> SUBSET Scopes]
    /\ {out_of_band_proxy_mode, enforce_idempotency, verify_chk} \subseteq BOOLEAN

LEMMA InitialTypes == MiddlewareInit => WorkTypes /\ InStep /\ PlanTypes /\ ConfigTypes
<1> SUFFICES ASSUME MiddlewareInit PROVE WorkTypes /\ InStep /\ PlanTypes /\ ConfigTypes
  OBVIOUS
<1>1. WorkTypes /\ InStep
  BY DEF MiddlewareInit, StoreInit, WorkTypes, InStep, Labels, Works
<1>2. PlanTypes
  <2>1. /\ DOMAIN EmptyPlan = PlanFields
        /\ EmptyPlan.authorized = FALSE /\ EmptyPlan.error = ""
    BY DEF EmptyPlan, PlanFields
  <2>2. plan = [t \in Threads |-> EmptyPlan]
    BY DEF MiddlewareInit
  <2>3. QED
    BY <2>1, <2>2 DEF PlanTypes
<1>3. ConfigTypes
  <2>1. PICK setup \in Setups : /\ session_granted_scopes = setup.grants
                               /\ out_of_band_proxy_mode = setup.proxy
                               /\ enforce_idempotency = setup.enforce
                               /\ verify_chk = setup.chk
    BY DEF MiddlewareInit
  <2>2. setup \in [grants : [Agents -> SUBSET Scopes], proxy : BOOLEAN,
                  enforce : BOOLEAN, chk : BOOLEAN]
    BY <2>1, MiddlewareAssumption
  <2>3. QED
    BY <2>1, <2>2 DEF ConfigTypes
<1>4. QED
  BY <1>1, <1>2, <1>3

\* Every step of the middleware is a step of one thread, of the host or of the clock.
LEMMA ConfigSteps == ConfigTypes /\ [Next]_vars => ConfigTypes'
<1> SUFFICES ASSUME ConfigTypes, [Next]_vars PROVE ConfigTypes'
  OBVIOUS
<1> USE DEF ConfigTypes
<1>1. CASE UNCHANGED config
  BY <1>1 DEF config
<1>2. ASSUME NEW agent \in Agents, NEW scope \in Scopes, grant_session_capability(agent, scope)
      PROVE  ConfigTypes'
  BY <1>2 DEF grant_session_capability
<1>3. ASSUME NEW agent \in Agents, revoke_session_capabilities(agent) PROVE ConfigTypes'
  BY <1>3 DEF revoke_session_capabilities
<1>4. ASSUME NEW enable \in BOOLEAN,
             \/ set_out_of_band_proxy(enable) \/ set_enforce_idempotency(enable)
             \/ set_verify_chk(enable)
      PROVE  ConfigTypes'
  BY <1>4 DEF set_out_of_band_proxy, set_enforce_idempotency, set_verify_chk
<1>5. ASSUME clear_idempotency_store PROVE ConfigTypes'
  BY <1>1, <1>5 DEF clear_idempotency_store
<1>6. ASSUME NEW t \in Threads, EvaluateStep(t) PROVE ConfigTypes'
  BY <1>1, <1>6 DEF EvaluateStep, CheckFrame, ReadEnforced, Lookup, DecideCheck, EnterProxy,
     AskProxy, Consume, CallRecord, Pruning, Authorize, RefuseRecord
<1>7. ASSUME NEW t \in Threads, NEW r, NEW accept, Begin(t, r, accept) PROVE ConfigTypes'
  BY <1>1, <1>7 DEF Begin
<1>8. QED
  BY <1>1, <1>2, <1>3, <1>4, <1>5, <1>6, <1>7 DEF Next, Host, vars

\* What a host operation leaves alone in every evaluation.
LEMMA HostSteps == Host => UNCHANGED <<pc, work, plan, begun, executed, started, call, answer, mutex, clock>>
BY DEF Host, grant_session_capability, revoke_session_capabilities, set_out_of_band_proxy,
       set_enforce_idempotency, set_verify_chk, clear_idempotency_store, Clear, HostOp, storeVars

\* The next check keeps the frame.
LEMMA NextCheck ==
    ASSUME work \in [Threads -> Works], NEW t \in Threads,
           work' = [work EXCEPT ![t].check = @ + 1, ![t].scope = 1]
    PROVE  /\ work' \in [Threads -> Works]
           /\ \A u \in Threads : /\ work'[u].request = work[u].request
                                 /\ work'[u].accept_healed = work[u].accept_healed
<1> DEFINE half == [work EXCEPT ![t].check = @ + 1]
<1>1. work[t].check + 1 \in Nat
  BY DEF Works
<1>2. half \in [Threads -> Works]
  BY <1>1 DEF Works
<1>3. \A u \in Threads : half[u].request = work[u].request /\ half[u].accept_healed = work[u].accept_healed
  BY DEF Works
<1>4. work' = [half EXCEPT ![t].scope = 1]
  OBVIOUS
<1> HIDE DEF half
<1>5. work' \in [Threads -> Works]
  <2>1. [half[t] EXCEPT !.scope = 1] \in Works
    BY <1>2 DEF Works
  <2>2. work' = [half EXCEPT ![t] = [half[t] EXCEPT !.scope = 1]]
    BY <1>4
  <2>3. QED
    BY <1>2, <2>1, <2>2
<1>6. \A u \in Threads : work'[u].request = half[u].request /\ work'[u].accept_healed = half[u].accept_healed
  BY <1>2, <1>4 DEF Works
<1>7. QED
  BY <1>3, <1>5, <1>6

\* A step of evaluate() moves its own thread and leaves the frame it works on.
LEMMA WorkSteps == WorkTypes /\ InStep /\ [Next]_vars => WorkTypes' /\ InStep'
<1> SUFFICES ASSUME WorkTypes, InStep, [Next]_vars PROVE WorkTypes' /\ InStep'
  OBVIOUS
<1> USE DEF WorkTypes, InStep, Labels
<1>1. CASE UNCHANGED <<pc, work, call>>
  BY <1>1
<1>2. ASSUME NEW t \in Threads, NEW r \in Requests, NEW accept \in BOOLEAN, Begin(t, r, accept)
      PROVE  WorkTypes' /\ InStep'
  BY <1>2 DEF Begin, GoTo, storeVars, Works
<1>3. ASSUME NEW t \in Threads, CheckFrame(t) \/ ReadEnforced(t)
      PROVE  WorkTypes' /\ InStep'
  BY <1>3 DEF CheckFrame, ReadEnforced, GoTo, Reject, storeVars
<1>4. ASSUME NEW t \in Threads, Lookup(t) PROVE WorkTypes' /\ InStep'
  <2>1. KeyOf(work[t].request) \in Keys
    BY <1>4, MiddlewareAssumption DEF Lookup
  <2>2. QED
    BY <1>4, <2>1 DEF Lookup, IsReplayed, GoTo, Reject
<1>5. ASSUME NEW t \in Threads, DecideCheck(t) PROVE WorkTypes' /\ InStep'
  <2>1. /\ pc[t] = "check" /\ call' = call
        /\ \E label \in {"idle", "check"} : pc' = [pc EXCEPT ![t] = label]
        /\ work' = work \/ work' = [work EXCEPT ![t].check = @ + 1, ![t].scope = 1]
    BY <1>5 DEF DecideCheck, GoTo, Reject, Approve, storeVars
  <2>2. CASE work' = work
    BY <2>1, <2>2
  <2>3. CASE work' = [work EXCEPT ![t].check = @ + 1, ![t].scope = 1]
    <3>1. /\ work' \in [Threads -> Works]
          /\ \A u \in Threads : work'[u].request = work[u].request
      BY <2>3, NextCheck
    <3>2. QED
      BY <2>1, <3>1
  <2>4. QED
    BY <2>1, <2>2, <2>3
<1>6. ASSUME NEW t \in Threads, EnterProxy(t) PROVE WorkTypes' /\ InStep'
  BY <1>6 DEF EnterProxy, GoTo, storeVars
<1>7. ASSUME NEW t \in Threads, AskProxy(t) PROVE WorkTypes' /\ InStep'
  <2>1. /\ pc[t] = "proxy" /\ call' = call
        /\ \E label \in {"idle", "check", "proxy"} : pc' = [pc EXCEPT ![t] = label]
        /\ \/ work' = work
           \/ work' = [work EXCEPT ![t].check = @ + 1, ![t].scope = 1]
           \/ work' = [work EXCEPT ![t].scope = @ + 1]
    BY <1>7 DEF AskProxy, GoTo, Reject, Approve, storeVars
  <2>2. CASE work' = work
    BY <2>1, <2>2
  <2>5. CASE work' = [work EXCEPT ![t].scope = @ + 1]
    <3>1. /\ work' \in [Threads -> Works]
          /\ \A u \in Threads : work'[u].request = work[u].request
      BY <2>5 DEF Works
    <3>2. QED
      BY <2>1, <3>1
  <2>3. CASE work' = [work EXCEPT ![t].check = @ + 1, ![t].scope = 1]
    <3>1. /\ work' \in [Threads -> Works]
          /\ \A u \in Threads : work'[u].request = work[u].request
      BY <2>3, NextCheck
    <3>2. QED
      BY <2>1, <3>1
  <2>4. QED
    BY <2>1, <2>2, <2>3, <2>5
<1>8. ASSUME NEW t \in Threads, Consume(t) PROVE WorkTypes' /\ InStep'
  BY <1>8 DEF Consume, GoTo, storeVars
<1>9. ASSUME NEW t \in Threads, CallRecord(t) PROVE WorkTypes' /\ InStep'
  <2>1. KeyOf(work[t].request) \in Keys
    BY <1>9, MiddlewareAssumption DEF CallRecord
  <2>2. QED
    BY <1>9, <2>1 DEF CallRecord, BeginRecord, GoTo
<1>10. ASSUME NEW t \in Threads, Pruning(t) PROVE WorkTypes' /\ InStep'
  BY <1>10 DEF Pruning, PruneExpired, EndPrune
<1>11. ASSUME NEW t \in Threads, Authorize(t) PROVE WorkTypes' /\ InStep'
  BY <1>11 DEF Authorize, AnswerRecorded, Return, GoTo
<1>12. ASSUME NEW t \in Threads, RefuseRecord(t) PROVE WorkTypes' /\ InStep'
  <2>1. /\ pc' = [pc EXCEPT ![t] = "idle"] /\ work' = work
        /\ call' = [call EXCEPT ![t].op = "none"]
    BY <1>12 DEF RefuseRecord, AnswerReplay, AnswerCapacityExceeded, Return, GoTo
  <2>2. QED
    BY <2>1
<1>13. Host => WorkTypes' /\ InStep'
  BY <1>1, HostSteps
<1>14. Tick /\ UNCHANGED <<config, pc, work, plan, memory>> => WorkTypes' /\ InStep'
  BY <1>1 DEF Tick
<1>15. UNCHANGED vars => WorkTypes' /\ InStep'
  BY <1>1 DEF vars, storeVars
<1>16. \A r : AcceptHealed(r) \subseteq BOOLEAN
  BY DEF AcceptHealed
<1>17. QED
  BY <1>2, <1>3, <1>4, <1>5, <1>6, <1>7, <1>8, <1>9, <1>10, <1>11, <1>12, <1>13, <1>14, <1>15,
     <1>16 DEF Next, EvaluateStep

-----------------------------------------------------------------------------
\* The middleware reaches the store only through its operations: every behaviour of
\* the middleware is, of the store, a behaviour of IdempotencyStore.
LEMMA StoreSteps == WorkTypes /\ InStep /\ [Next]_vars => [StoreNext]_storeVars
<1> SUFFICES ASSUME WorkTypes, InStep, Next PROVE StoreNext \/ UNCHANGED storeVars
  BY DEF vars
<1>1. ASSUME NEW t \in Threads, EvaluateStep(t) PROVE StoreNext \/ UNCHANGED storeVars
  <2>1. CASE Lookup(t) \/ CallRecord(t)
    <3>1. KeyOf(work[t].request) \in Keys
      BY <2>1, MiddlewareAssumption DEF Lookup, CallRecord, InStep
    <3>2. QED
      BY <2>1, <3>1 DEF Lookup, CallRecord, StoreNext
  <2>2. CASE Pruning(t) \/ Authorize(t) \/ RefuseRecord(t)
    BY <2>2 DEF Pruning, Authorize, RefuseRecord, RecordStep, StoreNext
  <2>3. CASE CheckFrame(t) \/ ReadEnforced(t) \/ DecideCheck(t) \/ EnterProxy(t)
               \/ AskProxy(t) \/ Consume(t)
    BY <2>3 DEF CheckFrame, ReadEnforced, DecideCheck, EnterProxy, AskProxy, Consume
  <2>4. QED
    BY <1>1, <2>1, <2>2, <2>3 DEF EvaluateStep
<1>2. ASSUME NEW t \in Threads, NEW r, NEW accept, Begin(t, r, accept)
      PROVE  UNCHANGED storeVars
  BY <1>2 DEF Begin
<1>3. Host => StoreNext \/ UNCHANGED storeVars
  BY DEF Host, grant_session_capability, revoke_session_capabilities, set_out_of_band_proxy,
         set_enforce_idempotency, set_verify_chk, clear_idempotency_store, StoreNext
<1>4. QED
  BY <1>1, <1>2, <1>3 DEF Next, StoreNext

THEOREM MiddlewareUsesStore == Spec => StoreSpec
<1>1. MiddlewareInit => StoreInit
  BY DEF MiddlewareInit
<1>2. QED
  BY <1>1, InitialTypes, WorkSteps, StoreSteps, PTL DEF Spec, StoreSpec

\* So a request that evaluate() hands to the store is guarded for its time to live
\* and is refused only for live guards.
THEOREM MiddlewareImplementsGuard == Spec => GuardSpec
BY MiddlewareUsesStore, StoreImplementsGuard, PTL
-----------------------------------------------------------------------------
\* An evaluation that goes on has neither been rejected nor authorized.
LEMMA PlanSteps == WorkTypes /\ InStep /\ PlanTypes /\ [Next]_vars => PlanTypes'
<1> SUFFICES ASSUME WorkTypes, InStep, PlanTypes, [Next]_vars PROVE PlanTypes'
  OBVIOUS
<1> USE DEF WorkTypes, PlanTypes, PlanFields, Labels
<1>1. CASE UNCHANGED <<pc, plan>>
  BY <1>1
<1>2. ASSUME NEW t \in Threads, NEW r, NEW accept, Begin(t, r, accept) PROVE PlanTypes'
  BY <1>2 DEF Begin, GoTo, EmptyPlan
<1>3. ASSUME NEW t \in Threads, NEW error, Reject(t, error), pc[t] # "idle" PROVE PlanTypes'
  BY <1>3 DEF Reject, GoTo
<1>4. ASSUME NEW t \in Threads, Approve(t), pc[t] # "idle" PROVE PlanTypes'
  BY <1>4 DEF Approve, GoTo
<1>5. ASSUME NEW t \in Threads, NEW label \in Labels, GoTo(t, label), plan' = plan,
             pc[t] # "idle"
      PROVE  PlanTypes'
  BY <1>5 DEF GoTo
<1>6. ASSUME NEW t \in Threads, pc[t] # "idle", GoTo(t, "idle"),
             plan' = [plan EXCEPT ![t].authorized = TRUE]
      PROVE  PlanTypes'
  BY <1>6 DEF GoTo
<1>7. ASSUME NEW t \in Threads, NEW error, pc[t] # "idle", GoTo(t, "idle"),
             plan' = [plan EXCEPT ![t].approved_actions = 0, ![t].error = error]
      PROVE  PlanTypes'
  BY <1>7 DEF GoTo
<1>8. ASSUME NEW t \in Threads, EvaluateStep(t) PROVE PlanTypes'
  <2> USE DEF Labels
  <2>1. CASE CheckFrame(t)
    BY <2>1, <1>3, <1>5 DEF CheckFrame
  <2>2. CASE ReadEnforced(t)
    BY <2>2, <1>5 DEF ReadEnforced
  <2>3. CASE Lookup(t)
    BY <2>3, <1>3, <1>5 DEF Lookup
  <2>4. CASE DecideCheck(t)
    BY <2>4, <1>3, <1>4 DEF DecideCheck
  <2>5. CASE EnterProxy(t)
    BY <2>5, <1>5 DEF EnterProxy
  <2>6. CASE AskProxy(t)
    BY <2>6, <1>1, <1>3, <1>4 DEF AskProxy
  <2>7. CASE Consume(t)
    BY <2>7, <1>5, <1>6 DEF Consume
  <2>8. CASE CallRecord(t)
    BY <2>8, <1>5 DEF CallRecord
  <2>9. CASE Pruning(t)
    BY <2>9, <1>1 DEF Pruning
  <2>10. call[t].op = "decide" => pc[t] # "idle"
    BY DEF InStep
  <2>11. CASE Authorize(t)
    BY <2>10, <2>11, <1>6 DEF Authorize, AnswerRecorded
  <2>12. CASE RefuseRecord(t)
    BY <2>10, <2>12, <1>7 DEF RefuseRecord, AnswerReplay, AnswerCapacityExceeded
  <2>13. QED
    BY <1>8, <2>1, <2>2, <2>3, <2>4, <2>5, <2>6, <2>7, <2>8, <2>9, <2>11, <2>12
       DEF EvaluateStep
<1>9. QED
  BY <1>1, <1>2, <1>8, HostSteps DEF Next, vars

\* Typing of all that evaluate() and the host keep, of the store inside as well; and
\* an authorized plan never carries an error.
THEOREM MiddlewareTyping == Spec => []MiddlewareTypeOK
<1>1. TypeOK /\ WorkTypes /\ InStep /\ PlanTypes /\ ConfigTypes => MiddlewareTypeOK
  BY DEF WorkTypes, Works, InStep, PlanTypes, ConfigTypes, Labels, MiddlewareTypeOK
<1>2. QED
  BY <1>1, InitialTypes, ConfigSteps, WorkSteps, PlanSteps, MiddlewareUsesStore, StoreTyping, PTL
     DEF Spec

-----------------------------------------------------------------------------
\* What the middleware remembers of its authorizations.
ExecutedTypes ==
    /\ epoch \in Nat
    /\ executed \in Seq([id : {Identity(r) : r \in Requests}, at : Int, epoch : Nat])
    /\ \A i \in DOMAIN executed : executed[i].epoch <= epoch /\ executed[i].at <= clock

\* The steps that touch a guard or the memory of an authorization.
Quiet == UNCHANGED <<seen_requests, executed, epoch>> /\ clock' \in {clock, clock + 1}

LEMMA GuardSteps ==
    ASSUME WorkTypes, InStep, [Next]_vars
    PROVE  \/ Quiet
           \/ \E t \in Threads : PruneExpired(t) /\ UNCHANGED <<executed, epoch>>
           \/ clear_idempotency_store
           \/ \E t \in Threads : Authorize(t)
<1> USE DEF Quiet
<1>1. ASSUME NEW t \in Threads, EvaluateStep(t)
      PROVE  Quiet \/ (PruneExpired(t) /\ UNCHANGED <<executed, epoch>>) \/ Authorize(t)
  <2>1. CASE CheckFrame(t) \/ ReadEnforced(t) \/ DecideCheck(t) \/ EnterProxy(t)
               \/ AskProxy(t) \/ Consume(t)
    BY <2>1 DEF CheckFrame, ReadEnforced, DecideCheck, EnterProxy, AskProxy, Consume, storeVars,
                memory
  <2>2. CASE Lookup(t) \/ CallRecord(t)
    BY <2>2 DEF Lookup, CallRecord, IsReplayed, BeginRecord, memory
  <2>3. CASE Pruning(t)
    BY <2>3 DEF Pruning, EndPrune, PruneExpired, memory
  <2>4. CASE RefuseRecord(t)
    BY <2>4 DEF RefuseRecord, AnswerReplay, AnswerCapacityExceeded, memory
  <2>5. QED
    BY <1>1, <2>1, <2>2, <2>3, <2>4 DEF EvaluateStep
<1>2. ASSUME NEW t \in Threads, NEW r, NEW accept, Begin(t, r, accept) PROVE Quiet
  BY <1>2 DEF Begin, storeVars
<1>3. Host => Quiet \/ clear_idempotency_store
  BY DEF Host, grant_session_capability, revoke_session_capabilities, set_out_of_band_proxy,
         set_enforce_idempotency, set_verify_chk, HostOp, storeVars
<1>4. Tick /\ UNCHANGED <<config, pc, work, plan, memory>> => Quiet
  BY DEF Tick, memory
<1>5. UNCHANGED vars => Quiet
  BY DEF vars, storeVars, memory
<1>6. QED
  BY <1>1, <1>2, <1>3, <1>4, <1>5 DEF Next

\* What authorize adds: the newest execution is that of the frame whose key the store
\* did not know and now does.
LEMMA Authorized ==
    ASSUME TypeOK, WorkTypes, InStep, ExecutedTypes, NEW t \in Threads, Authorize(t)
    PROVE  LET r    == work[t].request
               last == Len(executed) + 1
           IN  /\ r \in Requests /\ KeyOf(r) \in Keys /\ KeyOf(r) \notin DOMAIN seen_requests
               /\ seen_requests' = [k \in DOMAIN seen_requests \cup {KeyOf(r)} |->
                                      IF k = KeyOf(r) THEN clock ELSE seen_requests[k]]
               /\ DOMAIN executed = 1..Len(executed) /\ Len(executed) \in Nat
               /\ DOMAIN executed' = 1..last
               /\ \A i \in DOMAIN executed : executed'[i] = executed[i]
               /\ executed'[last] = [id |-> Identity(r), at |-> clock, epoch |-> epoch]
               /\ clock' = clock /\ epoch' = epoch
               /\ executed' \in Seq([id : {Identity(q) : q \in Requests}, at : Int, epoch : Nat])
<1> DEFINE r    == work[t].request
           item == [id |-> Identity(r), at |-> clock, epoch |-> epoch]
           Items == [id : {Identity(q) : q \in Requests}, at : Int, epoch : Nat]
<1>1. /\ call[t].op = "decide" /\ call[t].key \notin DOMAIN seen_requests
      /\ seen_requests' = Guarded(call[t].key)
      /\ executed' = Append(executed, item) /\ clock' = clock /\ epoch' = epoch
  BY DEF Authorize, AnswerRecorded
<1>2. r \in Requests /\ call[t].key = KeyOf(r) /\ KeyOf(r) \in Keys
  BY <1>1, MiddlewareAssumption DEF InStep, WorkTypes
<1>3. clock \in Int /\ epoch \in Nat /\ executed \in Seq(Items)
  BY HistoryItems DEF ExecutedTypes
<1>4. item \in Items
  BY <1>2, <1>3
<1> HIDE DEF item, Items
<1>5. /\ DOMAIN executed = 1..Len(executed) /\ Len(executed) \in Nat
      /\ DOMAIN executed' = 1..(Len(executed) + 1)
      /\ \A i \in DOMAIN executed : executed'[i] = executed[i]
      /\ executed'[Len(executed) + 1] = item
      /\ executed' \in Seq(Items)
  BY <1>1, <1>3, <1>4
<1>6. QED
  BY <1>1, <1>2, <1>5 DEF Guarded, item, Items

\* What is known of one execution.
LEMMA ExecutedItems ==
    ASSUME StoreInv, ExecutedTypes
    PROVE  /\ clock \in Int /\ epoch \in Nat
           /\ \A i \in DOMAIN executed :
                /\ executed[i].at \in Int /\ executed[i].epoch \in Nat
                /\ executed[i].epoch <= epoch /\ executed[i].at <= clock
<1> DEFINE Items == [id : {Identity(r) : r \in Requests}, at : Int, epoch : Nat]
<1>1. executed \in Seq(Items)
  BY DEF ExecutedTypes
<1>2. \A i \in DOMAIN executed : executed[i] \in Items
  <2> HIDE DEF Items
  <2>1. QED
    BY <1>1, ItemOfSeq
<1>3. clock \in Int
  BY HistoryItems DEF StoreInv
<1>4. QED
  BY <1>2, <1>3 DEF ExecutedTypes

LEMMA ExecutedTyping ==
    ASSUME StoreInv, WorkTypes, InStep, ExecutedTypes, [Next]_vars
    PROVE  ExecutedTypes'
<1>1. /\ clock \in Int /\ epoch \in Nat
      /\ \A i \in DOMAIN executed :
           /\ executed[i].at \in Int /\ executed[i].epoch \in Nat
           /\ executed[i].epoch <= epoch /\ executed[i].at <= clock
  BY ExecutedItems
<1>2. CASE Quiet
  <2>1. executed' = executed /\ epoch' = epoch /\ clock <= clock' /\ clock' \in Int
    BY <1>1, <1>2 DEF Quiet
  <2>2. QED
    BY <1>1, <2>1 DEF ExecutedTypes
<1>3. CASE \E t \in Threads : PruneExpired(t) /\ UNCHANGED <<executed, epoch>>
  BY <1>3 DEF PruneExpired, ExecutedTypes
<1>4. CASE clear_idempotency_store
  <2>1. executed' = executed /\ epoch' = epoch + 1 /\ clock' = clock
    BY <1>4 DEF clear_idempotency_store, HostOp, Clear
  <2>2. QED
    BY <1>1, <2>1 DEF ExecutedTypes
<1>5. ASSUME NEW t \in Threads, Authorize(t) PROVE ExecutedTypes'
  <2>1. PICK r, last : r = work[t].request /\ last = Len(executed) + 1
    OBVIOUS
  <2>2. /\ DOMAIN executed = 1..Len(executed) /\ Len(executed) \in Nat
        /\ DOMAIN executed' = 1..last
        /\ \A i \in DOMAIN executed : executed'[i] = executed[i]
        /\ executed'[last] = [id |-> Identity(r), at |-> clock, epoch |-> epoch]
        /\ clock' = clock /\ epoch' = epoch
        /\ executed' \in Seq([id : {Identity(q) : q \in Requests}, at : Int, epoch : Nat])
    BY <1>5, <2>1, Authorized DEF StoreInv
  <2>3. executed'[last].epoch = epoch /\ executed'[last].at = clock
    BY <2>2
  <2>4. ASSUME NEW i \in DOMAIN executed' PROVE executed'[i].epoch <= epoch /\ executed'[i].at <= clock
    <3>1. i \in DOMAIN executed \/ i = last
      BY <2>1, <2>2
    <3>2. QED
      BY <1>1, <2>2, <2>3, <3>1
  <2>5. QED
    BY <1>1, <2>2, <2>4 DEF ExecutedTypes
<1>6. QED
  BY <1>2, <1>3, <1>4, <1>5, GuardSteps

LEMMA GuardKept ==
    ASSUME StoreInv, WorkTypes, InStep, ExecutedTypes, ExecutedIsGuarded, [Next]_vars
    PROVE  ExecutedIsGuarded'
<1> SUFFICES ASSUME NEW i \in DOMAIN executed', executed'[i].epoch = epoch',
                    clock' - executed'[i].at < TtlSeconds
             PROVE  \E r \in Requests : /\ Identity(r) = executed'[i].id
                                        /\ KeyOf(r) \in DOMAIN seen_requests'
                                        /\ seen_requests'[KeyOf(r)] = executed'[i].at
  BY DEF ExecutedIsGuarded
<1> USE DEF ExecutedIsGuarded
<1>1. clock \in Int /\ TtlSeconds \in Int /\ \A j \in DOMAIN executed : executed[j].at \in Int
  BY ExecutedItems, StoreAssumption
<1>2. CASE Quiet
  BY <1>1, <1>2 DEF Quiet
<1>3. ASSUME NEW t \in Threads, PruneExpired(t), UNCHANGED <<executed, epoch>>
      PROVE  \E r \in Requests : /\ Identity(r) = executed'[i].id
                                 /\ KeyOf(r) \in DOMAIN seen_requests'
                                 /\ seen_requests'[KeyOf(r)] = executed'[i].at
  <2> DEFINE front == Head(history)
  <2>1. PICK r \in Requests : /\ Identity(r) = executed[i].id
                              /\ KeyOf(r) \in DOMAIN seen_requests
                              /\ seen_requests[KeyOf(r)] = executed[i].at
    BY <1>3 DEF PruneExpired
  <2>2. \/ seen_requests' = seen_requests
        \/ /\ seen_requests' = [k \in DOMAIN seen_requests \ {front.key} |-> seen_requests[k]]
           /\ seen_requests[front.key] = front.recorded_at
    BY <1>3 DEF PruneExpired, Restrict
  <2>3. clock - front.recorded_at >= TtlSeconds
    BY <1>3 DEF PruneExpired, IsExpired
  <2>4. front.recorded_at = executed[i].at => FALSE
    BY <1>1, <1>3, <2>3 DEF PruneExpired
  <2> HIDE DEF front
  <2>5. QED
    BY <1>3, <2>1, <2>2, <2>4
<1>4. CASE clear_idempotency_store
  BY <1>4 DEF clear_idempotency_store, HostOp, ExecutedTypes
<1>5. ASSUME NEW t \in Threads, Authorize(t)
      PROVE  \E r \in Requests : /\ Identity(r) = executed'[i].id
                                 /\ KeyOf(r) \in DOMAIN seen_requests'
                                 /\ seen_requests'[KeyOf(r)] = executed'[i].at
  <2> DEFINE q == work[t].request
  <2>1. /\ q \in Requests /\ KeyOf(q) \notin DOMAIN seen_requests
        /\ seen_requests' = [k \in DOMAIN seen_requests \cup {KeyOf(q)} |->
                               IF k = KeyOf(q) THEN clock ELSE seen_requests[k]]
        /\ DOMAIN executed = 1..Len(executed) /\ Len(executed) \in Nat
        /\ DOMAIN executed' = 1..(Len(executed) + 1)
        /\ \A j \in DOMAIN executed : executed'[j] = executed[j]
        /\ executed'[Len(executed) + 1] = [id |-> Identity(q), at |-> clock, epoch |-> epoch]
        /\ clock' = clock /\ epoch' = epoch
    BY <1>5, Authorized DEF StoreInv
  <2> HIDE DEF q
  <2>2. CASE i \in DOMAIN executed
    BY <2>1, <2>2
  <2>3. CASE i = Len(executed) + 1
    BY <2>1, <2>3
  <2>4. QED
    BY <2>1, <2>2, <2>3
<1>6. QED
  BY <1>2, <1>3, <1>4, <1>5, GuardSteps

LEMMA GuardEarned ==
    ASSUME StoreInv, WorkTypes, InStep, ExecutedTypes, GuardedWasExecuted, [Next]_vars
    PROVE  GuardedWasExecuted'
<1> USE DEF GuardedWasExecuted
<1>1. CASE Quiet
  BY <1>1 DEF Quiet
<1>2. ASSUME NEW t \in Threads, PruneExpired(t), UNCHANGED <<executed, epoch>>
      PROVE  GuardedWasExecuted'
  <2>1. /\ DOMAIN seen_requests' \subseteq DOMAIN seen_requests
        /\ \A k \in DOMAIN seen_requests' : seen_requests'[k] = seen_requests[k]
    BY <1>2 DEF PruneExpired, Restrict
  <2>2. QED
    BY <1>2, <2>1
<1>3. CASE clear_idempotency_store
  BY <1>3 DEF clear_idempotency_store, Clear, EmptyMap
<1>4. ASSUME NEW t \in Threads, Authorize(t) PROVE GuardedWasExecuted'
  <2> DEFINE q == work[t].request
             last == Len(executed) + 1
  <2>0. /\ q \in Requests /\ KeyOf(q) \notin DOMAIN seen_requests
        /\ seen_requests' = [k \in DOMAIN seen_requests \cup {KeyOf(q)} |->
                               IF k = KeyOf(q) THEN clock ELSE seen_requests[k]]
        /\ DOMAIN executed = 1..Len(executed) /\ Len(executed) \in Nat
        /\ DOMAIN executed' = 1..last
        /\ \A j \in DOMAIN executed : executed'[j] = executed[j]
        /\ executed'[last] = [id |-> Identity(q), at |-> clock, epoch |-> epoch]
    BY <1>4, Authorized DEF StoreInv
  <2>1. /\ q \in Requests
        /\ seen_requests' = [k \in DOMAIN seen_requests \cup {KeyOf(q)} |->
                               IF k = KeyOf(q) THEN clock ELSE seen_requests[k]]
        /\ DOMAIN executed = 1..Len(executed) /\ last \in 1..last
        /\ DOMAIN executed' = 1..last
        /\ \A j \in DOMAIN executed : j \in DOMAIN executed' /\ executed'[j] = executed[j]
        /\ executed'[last].id = Identity(q) /\ executed'[last].at = clock
    BY <2>0
  <2> HIDE DEF q, last
  <2>2. SUFFICES ASSUME NEW k \in DOMAIN seen_requests'
                 PROVE  \E i \in DOMAIN executed', r \in Requests :
                           /\ KeyOf(r) = k
                           /\ executed'[i].id = Identity(r)
                           /\ executed'[i].at = seen_requests'[k]
    OBVIOUS
  <2>3. CASE k = KeyOf(q)
    BY <2>1, <2>3
  <2>4. CASE k # KeyOf(q)
    BY <2>1, <2>4
  <2>5. QED
    BY <2>3, <2>4
<1>5. QED
  BY <1>1, <1>2, <1>3, <1>4, GuardSteps

LEMMA OncePerTtl ==
    ASSUME StoreInv, WorkTypes, InStep, ExecutedTypes, ExecutedIsGuarded, AtMostOncePerTtl,
           [Next]_vars
    PROVE  AtMostOncePerTtl'
<1> USE DEF AtMostOncePerTtl
<1>1. CASE UNCHANGED executed
  BY <1>1
<1>2. ASSUME NEW t \in Threads, Authorize(t) PROVE AtMostOncePerTtl'
  <2> DEFINE q == work[t].request
             last == Len(executed) + 1
  <2>0. /\ q \in Requests /\ KeyOf(q) \notin DOMAIN seen_requests
        /\ seen_requests' = [k \in DOMAIN seen_requests \cup {KeyOf(q)} |->
                               IF k = KeyOf(q) THEN clock ELSE seen_requests[k]]
        /\ DOMAIN executed = 1..Len(executed) /\ Len(executed) \in Nat
        /\ DOMAIN executed' = 1..last
        /\ \A j \in DOMAIN executed : executed'[j] = executed[j]
        /\ executed'[last] = [id |-> Identity(q), at |-> clock, epoch |-> epoch]
    BY <1>2, Authorized DEF StoreInv
  <2>1. /\ executed'[last].id = Identity(q) /\ executed'[last].at = clock
        /\ executed'[last].epoch = epoch
    BY <2>0
  <2>2. clock \in Int /\ TtlSeconds \in Int /\ \A j \in DOMAIN executed : executed[j].at \in Int
    BY ExecutedItems, StoreAssumption
  \* An execution of the same identity whose time is not over still has its guard, and
  \* its key is the one the store did not know.
  <2>3. ASSUME NEW i \in DOMAIN executed, executed[i].id = Identity(q), executed[i].epoch = epoch
        PROVE  clock - executed[i].at >= TtlSeconds
    <3>1. SUFFICES ASSUME clock - executed[i].at < TtlSeconds PROVE FALSE
      BY <2>2
    <3>2. PICK r \in Requests : Identity(r) = Identity(q) /\ KeyOf(r) \in DOMAIN seen_requests
      BY <2>3, <3>1 DEF ExecutedIsGuarded
    <3>3. KeyOf(r) = KeyOf(q)
      BY <3>2 DEF Identity, KeyOf
    <3>4. QED
      BY <2>0, <3>2, <3>3
  <2> HIDE DEF q
  <2>4. SUFFICES ASSUME NEW i \in DOMAIN executed', NEW j \in DOMAIN executed', i < j,
                        executed'[i].id = executed'[j].id, executed'[i].epoch = executed'[j].epoch
                 PROVE  executed'[j].at - executed'[i].at >= TtlSeconds
    OBVIOUS
  <2>5. CASE j = last
    BY <2>0, <2>1, <2>3, <2>4, <2>5
  <2>6. CASE j # last
    BY <2>0, <2>4, <2>6
  <2>7. QED
    BY <2>5, <2>6
<1>3. QED
  BY <1>1, <1>2, GuardSteps DEF Quiet, clear_idempotency_store, HostOp

\* The inductive invariant of the authorizations; that of the store carries it.
GuardInv == ExecutedTypes /\ ExecutedIsGuarded /\ GuardedWasExecuted /\ AtMostOncePerTtl

MiddlewareInv == StoreInv /\ WorkTypes /\ InStep /\ GuardInv

LEMMA MiddlewareInvariant == Spec => []MiddlewareInv
<1>1. MiddlewareInit => GuardInv
  BY DEF MiddlewareInit, StoreInit, EmptyMap, GuardInv, ExecutedTypes, ExecutedIsGuarded,
         GuardedWasExecuted, AtMostOncePerTtl
<1>2. StoreInv /\ WorkTypes /\ InStep /\ GuardInv /\ [Next]_vars => GuardInv'
  BY ExecutedTyping, GuardKept, GuardEarned, OncePerTtl DEF GuardInv
<1>3. Spec => [](StoreInv /\ WorkTypes /\ InStep)
  BY InitialTypes, WorkSteps, MiddlewareUsesStore, StoreInvariant, PTL DEF Spec
<1>4. QED
  BY <1>1, <1>2, <1>3, PTL DEF Spec, MiddlewareInv

\* Exactly-once execution, for every number of threads and every interleaving: under
\* enforcement, two evaluations of one (agent, reqid) are both authorized only
\* if ttl_seconds_ passed between them or the host cleared the store.
THEOREM MiddlewareAtMostOncePerTtl == Spec => []AtMostOncePerTtl
BY MiddlewareInvariant, PTL DEF MiddlewareInv, GuardInv

\* A saturated store fails closed: the guard of an authorized request stays for its
\* time to live, however many other requests arrive.
THEOREM MiddlewareExecutedIsGuarded == Spec => []ExecutedIsGuarded
BY MiddlewareInvariant, PTL DEF MiddlewareInv, GuardInv

\* A rejected request does not burn its reqid: every guard in the store is that of a
\* request that was authorized at that second.
THEOREM MiddlewareGuardedWasExecuted == Spec => []GuardedWasExecuted
BY MiddlewareInvariant, PTL DEF MiddlewareInv, GuardInv

-----------------------------------------------------------------------------
\* Why a refusal is justified.  A guard that a thread is going to be refused for was
\* live when its pruning ended, and no other thread can touch the map since.
JustifiedAt(t) ==
    \E i \in DOMAIN executed :
        /\ executed[i].id = Identity(work[t].request)
        /\ started[t] - executed[i].at < TtlSeconds

SinceBegin ==
    /\ started \in [Threads -> Int]
    /\ \A t \in Threads : started[t] <= clock

RefusalDue ==
    \A t \in Threads :
        call[t].op = "decide" /\ call[t].key \in DOMAIN seen_requests
            => started[t] - seen_requests[call[t].key] < TtlSeconds

LEMMA BeginSteps ==
    ASSUME StoreInv, SinceBegin, [Next]_vars
    PROVE  SinceBegin'
<1>1. clock \in Int
  BY HistoryItems DEF StoreInv
<1> USE DEF SinceBegin
<1>2. CASE started' = started /\ clock' \in {clock, clock + 1}
  BY <1>1, <1>2
<1>3. ASSUME NEW t \in Threads, NEW r, NEW accept, Begin(t, r, accept) PROVE SinceBegin'
  BY <1>1, <1>3 DEF Begin, storeVars
<1>4. ASSUME NEW t \in Threads, EvaluateStep(t) PROVE started' = started /\ clock' = clock
  BY <1>4 DEF EvaluateStep, CheckFrame, ReadEnforced, Lookup, DecideCheck, EnterProxy, AskProxy,
     Consume, CallRecord, Pruning, Authorize, RefuseRecord, IsReplayed, BeginRecord, PruneExpired,
     EndPrune, AnswerRecorded, AnswerReplay, AnswerCapacityExceeded, storeVars, memory
<1>5. Tick /\ UNCHANGED <<config, pc, work, plan, memory>> => started' = started /\ clock' = clock + 1
  BY DEF Tick, memory
<1>6. UNCHANGED vars => started' = started /\ clock' = clock
  BY DEF vars, storeVars, memory
<1>7. QED
  BY <1>2, <1>3, <1>4, <1>5, <1>6, HostSteps DEF Next

LEMMA RefusalSteps ==
    ASSUME StoreInv, WorkTypes, InStep, SinceBegin, RefusalDue, [Next]_vars
    PROVE  RefusalDue'
<1> SUFFICES ASSUME NEW u \in Threads, call'[u].op = "decide",
                    call'[u].key \in DOMAIN seen_requests'
             PROVE  started'[u] - seen_requests'[call'[u].key] < TtlSeconds
  BY DEF RefusalDue
<1>1. /\ \A t \in Threads : call[t].op # "none" <=> mutex = t
      /\ call \in [Threads -> [op : {"none", "prune", "decide"}, key : Keys \cup {NoKey}]]
  BY DEF StoreInv, CallsOK, WorkTypes
<1>2. call[u].op # "none" => started'[u] = started[u]
  <2>1. CASE UNCHANGED started
    BY <2>1
  <2>2. ASSUME NEW t \in Threads, NEW r, NEW accept, Begin(t, r, accept),
               call[u].op # "none"
        PROVE  started'[u] = started[u]
    <3>1. pc[t] = "idle" /\ call[t].op = "none" /\ t # u
      BY <2>2 DEF Begin, InStep
    <3>2. QED
      BY <2>2, <3>1 DEF Begin, SinceBegin
  <2>3. ASSUME NEW t \in Threads, EvaluateStep(t) PROVE UNCHANGED started
    BY <2>3 DEF EvaluateStep, CheckFrame, ReadEnforced, Lookup, DecideCheck, EnterProxy, AskProxy,
       Consume, CallRecord, Pruning, Authorize, RefuseRecord, memory
  <2>4. QED
    BY <2>1, <2>2, <2>3, HostSteps DEF Next, vars, memory
<1>3. CASE call'[u] = call[u] /\ seen_requests' = seen_requests
  BY <1>2, <1>3 DEF RefusalDue
<1>4. CASE EndPrune(u)
  <2>1. /\ call[u].op = "prune" /\ seen_requests' = seen_requests
        /\ call'[u].key \in DOMAIN seen_requests
    BY <1>4 DEF EndPrune
  <2>2. clock - seen_requests[call'[u].key] < TtlSeconds
    BY <1>4, <2>1, PrunedIsLive
  <2>3. started[u] <= clock /\ started[u] \in Int /\ clock \in Int
    BY HistoryItems DEF SinceBegin, StoreInv
  <2>4. seen_requests[call'[u].key] \in Int /\ TtlSeconds \in Int
    BY <2>1, StoreAssumption DEF StoreInv, TypeOK, Times
  <2>5. QED
    BY <1>2, <2>1, <2>2, <2>3, <2>4
\* Whoever else moves finds the mutex taken, or is not in the way of u.
<1>5. ASSUME NEW t \in Threads, RecordStep(t) PROVE t = u /\ call[u].op # "none"
  <2>1. call[t].op # "none" /\ call' = [call EXCEPT ![t] = call'[t]]
    BY <1>1, <1>5 DEF RecordStep, PruneExpired, EndPrune, AnswerReplay, AnswerCapacityExceeded,
                      AnswerRecorded, Return
  <2>2. t # u => call[u].op # "none"
    BY <1>1, <2>1
  <2>3. QED
    BY <1>1, <2>1, <2>2
<1>6. ASSUME NEW t \in Threads, RecordStep(t)
      PROVE  EndPrune(u)
  <2>1. RecordStep(u)
    BY <1>5, <1>6
  <2>2. QED
    BY <1>1, <2>1 DEF RecordStep, PruneExpired, AnswerReplay, AnswerCapacityExceeded,
                      AnswerRecorded, Return
<1>7. ASSUME NEW t \in Threads, NEW k \in Keys, BeginRecord(t, k) \/ IsReplayed(t, k)
      PROVE  FALSE
  BY <1>1, <1>7, StoreAssumption DEF BeginRecord, IsReplayed
<1>8. Clear => FALSE
  BY <1>1, StoreAssumption DEF Clear
<1>9. Tick \/ UNCHANGED storeVars => call'[u] = call[u] /\ seen_requests' = seen_requests
  BY DEF Tick, storeVars
<1>10. QED
  BY <1>3, <1>4, <1>6, <1>7, <1>8, <1>9, StoreSteps DEF StoreNext

\* No two requests share a key, that is, no ':' in an identifier blurs it.
KeysTellApart ==
    \A q, r \in Requests : KeyOf(q) = KeyOf(r) => Identity(q) = Identity(r)

\* A refusal is justified when it is made...
LEMMA LookupJustified ==
    ASSUME KeysTellApart, MiddlewareInv, SinceBegin, NEW t \in Threads, pc[t] # "idle",
           IsReplayedNow(KeyOf(work[t].request))
    PROVE  JustifiedAt(t)
<1> DEFINE k == KeyOf(work[t].request)
<1>1. PICK i \in DOMAIN executed, r \in Requests :
         KeyOf(r) = k /\ executed[i].id = Identity(r) /\ executed[i].at = seen_requests[k]
  BY DEF MiddlewareInv, GuardInv, GuardedWasExecuted, IsReplayedNow
<1>2. Identity(r) = Identity(work[t].request)
  BY <1>1 DEF KeysTellApart, MiddlewareInv, InStep
<1>3. clock - executed[i].at < TtlSeconds /\ clock \in Int /\ executed[i].at \in Int
  <2>1. clock \in Int /\ executed[i].at \in Int
    BY <1>1, ExecutedItems DEF MiddlewareInv, GuardInv
  <2>2. ~(clock - executed[i].at >= TtlSeconds)
    BY <1>1 DEF IsReplayedNow, IsExpired
  <2>3. QED
    BY <2>1, <2>2, StoreAssumption
<1>4. started[t] <= clock /\ started[t] \in Int
  BY DEF SinceBegin
<1>5. started[t] - executed[i].at < TtlSeconds
  BY <1>3, <1>4, StoreAssumption
<1>6. QED
  BY <1>1, <1>2, <1>5 DEF JustifiedAt

LEMMA AnswerJustified ==
    ASSUME KeysTellApart, MiddlewareInv, RefusalDue, NEW t \in Threads, AnswerReplay(t)
    PROVE  JustifiedAt(t)
<1> DEFINE k == call[t].key
<1>1. call[t].op = "decide" /\ k \in DOMAIN seen_requests
  BY DEF AnswerReplay
<1>2. k = KeyOf(work[t].request) /\ work[t].request \in Requests
  BY <1>1 DEF MiddlewareInv, InStep
<1>3. PICK i \in DOMAIN executed, r \in Requests :
         KeyOf(r) = k /\ executed[i].id = Identity(r) /\ executed[i].at = seen_requests[k]
  BY <1>1 DEF MiddlewareInv, GuardInv, GuardedWasExecuted
<1>4. Identity(r) = Identity(work[t].request)
  BY <1>2, <1>3 DEF KeysTellApart
<1>5. started[t] - executed[i].at < TtlSeconds
  BY <1>1, <1>3 DEF RefusalDue
<1>6. QED
  BY <1>3, <1>4, <1>5 DEF JustifiedAt

\* ... and stays so, since nothing is forgotten while the plan is kept.
LEMMA ExecutedGrows ==
    ASSUME MiddlewareInv, [Next]_vars
    PROVE  \A i \in DOMAIN executed : i \in DOMAIN executed' /\ executed'[i] = executed[i]
<1> USE DEF MiddlewareInv, GuardInv
<1>1. ASSUME NEW t \in Threads, Authorize(t)
      PROVE  \A i \in DOMAIN executed : i \in DOMAIN executed' /\ executed'[i] = executed[i]
  <2>1. /\ DOMAIN executed = 1..Len(executed) /\ Len(executed) \in Nat
        /\ DOMAIN executed' = 1..(Len(executed) + 1)
        /\ \A i \in DOMAIN executed : executed'[i] = executed[i]
    BY <1>1, Authorized DEF StoreInv
  <2>2. QED
    BY <2>1
<1>2. QED
  BY <1>1, GuardSteps DEF Quiet, clear_idempotency_store, HostOp

LEMMA RefusalKept ==
    ASSUME MiddlewareInv, [Next]_vars, NEW t \in Threads, JustifiedAt(t),
           work'[t].request = work[t].request, started'[t] = started[t]
    PROVE  JustifiedAt(t)'
BY ExecutedGrows DEF JustifiedAt

\* Only the lookup and the store's answer reject as a replay.
LEMMA ReplayErrors ==
    ASSUME WorkTypes, InStep, PlanTypes, SinceBegin, [Next]_vars, NEW u \in Threads,
           plan'[u].error = "replay_detected"
    PROVE  /\ work'[u].request = work[u].request /\ started'[u] = started[u]
           /\ \/ plan[u].error = "replay_detected"
              \/ pc[u] = "lookup" /\ IsReplayedNow(KeyOf(work[u].request))
              \/ AnswerReplay(u)
<1> DEFINE Same == /\ work'[u].request = work[u].request /\ started'[u] = started[u]
                   /\ plan'[u].error = plan[u].error
           Goal == /\ work'[u].request = work[u].request /\ started'[u] = started[u]
                   /\ \/ plan[u].error = "replay_detected"
                      \/ pc[u] = "lookup" /\ IsReplayedNow(KeyOf(work[u].request))
                      \/ AnswerReplay(u)
<1>1. Same => Goal
  OBVIOUS
<1>2. ASSUME NEW t \in Threads, NEW e, Reject(t, e), UNCHANGED <<work, started>>
      PROVE  Same \/ (t = u /\ e = "replay_detected")
  BY <1>2 DEF Reject, PlanTypes, PlanFields
<1>3. ASSUME NEW t \in Threads, Approve(t), UNCHANGED started PROVE Same
  <2>1. work'[u].request = work[u].request
    BY <1>3, NextCheck DEF Approve, WorkTypes
  <2>2. plan'[u].error = plan[u].error
    BY <1>3 DEF Approve, PlanTypes, PlanFields
  <2>3. QED
    BY <1>3, <2>1, <2>2
<1>4. ASSUME NEW t \in Threads, UNCHANGED <<work, started>>,
             plan' = [plan EXCEPT ![t].authorized = TRUE]
      PROVE  Same
  BY <1>4 DEF PlanTypes, PlanFields
<1>5. ASSUME NEW t \in Threads, NEW e, UNCHANGED <<work, started>>,
             plan' = [plan EXCEPT ![t].approved_actions = 0, ![t].error = e]
      PROVE  Same \/ (t = u /\ e = "replay_detected")
  BY <1>5 DEF PlanTypes, PlanFields
<1>6. UNCHANGED <<work, plan, started>> => Same
  OBVIOUS
<1>7. ASSUME NEW t \in Threads, NEW r, NEW accept, Begin(t, r, accept) PROVE Same
  <2>1. t # u
    <3>1. SUFFICES ASSUME t = u PROVE plan'[u].error = ""
      OBVIOUS
    <3>2. plan' = [plan EXCEPT ![u] = EmptyPlan]
      BY <1>7, <3>1 DEF Begin
    <3>3. QED
      BY <3>2 DEF PlanTypes, EmptyPlan
  <2>2. QED
    BY <1>7, <2>1 DEF Begin, WorkTypes, PlanTypes, SinceBegin
<1> HIDE DEF Same
<1>8. ASSUME NEW t \in Threads, EvaluateStep(t) PROVE Goal
  <2>1. UNCHANGED started
    BY <1>8 DEF EvaluateStep, CheckFrame, ReadEnforced, Lookup, DecideCheck, EnterProxy, AskProxy,
       Consume, CallRecord, Pruning, Authorize, RefuseRecord, memory
  <2>2. CASE CheckFrame(t)
    BY <1>1, <1>2, <1>6, <2>1, <2>2 DEF CheckFrame
  <2>3. CASE ReadEnforced(t) \/ EnterProxy(t) \/ CallRecord(t) \/ Pruning(t)
    BY <1>1, <1>6, <2>1, <2>3 DEF ReadEnforced, EnterProxy, CallRecord, Pruning
  <2>4. CASE Lookup(t)
    BY <1>1, <1>2, <1>6, <2>1, <2>4 DEF Lookup
  <2>5. CASE DecideCheck(t)
    BY <1>1, <1>2, <1>3, <2>1, <2>5 DEF DecideCheck
  <2>6. CASE AskProxy(t)
    <3>1. CASE Approve(t)
      BY <1>1, <1>3, <2>1, <3>1
    <3>2. CASE Reject(t, "no_grant") /\ UNCHANGED work
      BY <1>1, <1>2, <2>1, <3>2
    <3>3. CASE work' = [work EXCEPT ![t].scope = @ + 1] /\ UNCHANGED <<pc, plan>>
      <4>1. work'[u].request = work[u].request
        BY <3>3 DEF WorkTypes, Works
      <4>2. QED
        BY <2>1, <3>3, <4>1
    <3>4. QED
      BY <2>6, <3>1, <3>2, <3>3 DEF AskProxy
  <2>7. CASE Consume(t)
    BY <1>1, <1>4, <1>6, <2>1, <2>7 DEF Consume
  <2>8. CASE Authorize(t)
    BY <1>1, <1>4, <2>1, <2>8 DEF Authorize
  <2>9. CASE RefuseRecord(t)
    BY <1>1, <1>5, <2>1, <2>9 DEF RefuseRecord
  <2>10. QED
    BY <1>8, <2>2, <2>3, <2>4, <2>5, <2>6, <2>7, <2>8, <2>9 DEF EvaluateStep
<1>9. Host => Goal
  BY <1>1, <1>6, HostSteps
<1>10. Tick /\ UNCHANGED <<config, pc, work, plan, memory>> => Goal
  BY <1>1, <1>6 DEF memory
<1>11. UNCHANGED vars => Goal
  BY <1>1, <1>6 DEF vars, memory
<1>12. QED
  BY <1>1, <1>7, <1>8, <1>9, <1>10, <1>11 DEF Next

\* As long as no two requests share a key, an evaluation is rejected as a replay only
\* when the same agent's same reqid was authorized and its guard had not run out when
\* the evaluation began.  Where keys collide it is not so.
THEOREM MiddlewareReplayRefusals ==
    KeysTellApart => (Spec => []ReplayRefusalJustified)
<1> SUFFICES ASSUME KeysTellApart PROVE Spec => []ReplayRefusalJustified
  OBVIOUS
<1>1. MiddlewareInit => SinceBegin /\ RefusalDue /\ ReplayRefusalJustified
  <2> SUFFICES ASSUME MiddlewareInit
               PROVE  SinceBegin /\ RefusalDue /\ ReplayRefusalJustified
    OBVIOUS
  <2>1. SinceBegin /\ RefusalDue
    BY DEF MiddlewareInit, StoreInit, SinceBegin, RefusalDue
  <2>2. \A t \in Threads : plan[t].error = ""
    BY DEF MiddlewareInit, EmptyPlan
  <2>3. QED
    BY <2>1, <2>2 DEF ReplayRefusalJustified
<1>2. MiddlewareInv /\ PlanTypes /\ SinceBegin /\ RefusalDue /\ ReplayRefusalJustified /\ [Next]_vars
        => SinceBegin' /\ RefusalDue' /\ ReplayRefusalJustified'
  <2> SUFFICES ASSUME MiddlewareInv, PlanTypes, SinceBegin, RefusalDue, ReplayRefusalJustified,
                      [Next]_vars
               PROVE  SinceBegin' /\ RefusalDue' /\ ReplayRefusalJustified'
    OBVIOUS
  <2>1. SinceBegin' /\ RefusalDue'
    BY BeginSteps, RefusalSteps DEF MiddlewareInv
  <2>2. ASSUME NEW t \in Threads, plan'[t].error = "replay_detected" PROVE JustifiedAt(t)'
    <3>1. /\ work'[t].request = work[t].request /\ started'[t] = started[t]
          /\ \/ plan[t].error = "replay_detected"
             \/ pc[t] = "lookup" /\ IsReplayedNow(KeyOf(work[t].request))
             \/ AnswerReplay(t)
      BY <2>2, ReplayErrors DEF MiddlewareInv
    <3>2. JustifiedAt(t)
      <4>1. CASE plan[t].error = "replay_detected"
        BY <4>1 DEF ReplayRefusalJustified, JustifiedAt
      <4>2. CASE pc[t] = "lookup" /\ IsReplayedNow(KeyOf(work[t].request))
        BY <4>2, LookupJustified
      <4>3. CASE AnswerReplay(t)
        BY <4>3, AnswerJustified
      <4>4. QED
        BY <3>1, <4>1, <4>2, <4>3
    <3>3. QED
      BY <3>1, <3>2, RefusalKept
  <2>3. QED
    BY <2>1, <2>2 DEF ReplayRefusalJustified, JustifiedAt
<1>3. Spec => []PlanTypes
  BY InitialTypes, WorkSteps, PlanSteps, PTL DEF Spec
<1>4. QED
  BY <1>1, <1>2, <1>3, MiddlewareInvariant, PTL DEF Spec

-----------------------------------------------------------------------------
\* What a plan has approved is what the evaluation has looked at so far.
Follows(t) ==
    LET checks == Checks(work[t])
        next   == work[t].check
    IN  /\ pc[t] # "idle" =>
             /\ next \in 1..(Len(checks) + 1)
             /\ plan[t].approved = SubSeq(checks, 1, next - 1)
             /\ plan[t].approved_actions = next - 1
        /\ pc[t] \in {"proxy"} => next <= Len(checks)
        /\ pc[t] \in {"record", "recording"} => next = Len(checks) + 1
        /\ pc[t] \notin {"idle", "frame"} /\ work[t].request.healed_draft # <<>>
             => work[t].accept_healed
        /\ plan[t].authorized =>
             /\ plan[t].approved = checks
             /\ plan[t].approved_actions = Len(plan[t].approved)
             /\ work[t].request.healed_draft # <<>> => work[t].accept_healed

PlanFollows == \A t \in Threads : Follows(t)

\* The checks of a frame are a sequence, and depend on the frame and the flag alone.
LEMMA ChecksTyped ==
    ASSUME NEW w, w.request \in Requests
    PROVE  Checks(w) \in Seq(CheckTypes)
BY MiddlewareAssumption DEF Checks

LEMMA ChecksSame ==
    ASSUME NEW v, NEW w, v.request = w.request, v.accept_healed = w.accept_healed
    PROVE  Checks(v) = Checks(w)
BY DEF Checks

\* Slices of a sequence: none, one more, all.
LEMMA Slices ==
    ASSUME NEW S, NEW s \in Seq(S), NEW n \in 1..Len(s)
    PROVE  /\ SubSeq(s, 1, 0) = <<>>
           /\ Append(SubSeq(s, 1, n - 1), s[n]) = SubSeq(s, 1, n)
           /\ Len(SubSeq(s, 1, n)) = n
OBVIOUS

LEMMA WholeSlice ==
    ASSUME NEW S, NEW s \in Seq(S)
    PROVE  SubSeq(s, 1, Len(s)) = s /\ SubSeq(s, 1, 0) = <<>>
OBVIOUS

\* A step of evaluate() leaves the other threads alone.
Others(t) ==
    \A u \in Threads \ {t} :
        pc'[u] = pc[u] /\ work'[u] = work[u] /\ plan'[u] = plan[u]

LEMMA OneThread ==
    ASSUME WorkTypes, PlanTypes, NEW t \in Threads
    PROVE  /\ EvaluateStep(t) => Others(t)
           /\ \A r, accept : Begin(t, r, accept) => Others(t)
<1> USE DEF WorkTypes, PlanTypes, Others
<1>1. CASE CheckFrame(t) \/ ReadEnforced(t) \/ Lookup(t)
  BY <1>1 DEF CheckFrame, ReadEnforced, Lookup, GoTo, Reject
<1>2. CASE DecideCheck(t) \/ EnterProxy(t) \/ AskProxy(t)
  BY <1>2 DEF DecideCheck, EnterProxy, AskProxy, GoTo, Reject, Approve
<1>3. CASE Consume(t) \/ CallRecord(t) \/ Pruning(t) \/ Authorize(t) \/ RefuseRecord(t)
  BY <1>3 DEF Consume, CallRecord, Pruning, Authorize, RefuseRecord, GoTo
<1>4. \A r, accept : Begin(t, r, accept) => Others(t)
  BY DEF Begin, GoTo
<1>5. QED
  BY <1>1, <1>2, <1>3, <1>4 DEF EvaluateStep

\* The ways in which a step may end, each with what it leaves.
LEMMA FollowsSame ==
    ASSUME NEW u, Follows(u), plan'[u] = plan[u],
           work'[u].request = work[u].request, work'[u].accept_healed = work[u].accept_healed,
           work'[u].check = work[u].check,
           pc'[u] = pc[u] \/ pc'[u] = "idle"
    PROVE  Follows(u)'
<1>1. Checks(work'[u]) = Checks(work[u])
  BY ChecksSame
<1>2. QED
  BY <1>1 DEF Follows

LEMMA FollowsOn ==
    ASSUME WorkTypes, PlanTypes, NEW t \in Threads, Follows(t), UNCHANGED <<plan, work>>,
           pc[t] # "idle", pc'[t] \notin {"idle", "frame"},
           pc'[t] = "proxy" => work[t].check <= Len(Checks(work[t])),
           pc'[t] \in {"record", "recording"} => work[t].check = Len(Checks(work[t])) + 1,
           pc[t] = "frame" => (work[t].request.healed_draft # <<>> => work[t].accept_healed)
    PROVE  Follows(t)'
BY DEF Follows, PlanTypes

LEMMA FollowsReject ==
    ASSUME WorkTypes, PlanTypes, NEW t \in Threads, NEW e, Reject(t, e), pc[t] # "idle"
    PROVE  Follows(t)'
BY DEF Reject, GoTo, Follows, PlanTypes, PlanFields, WorkTypes

LEMMA FollowsApprove ==
    ASSUME WorkTypes, InStep, PlanTypes, NEW t \in Threads, Follows(t), Approve(t),
           pc[t] \in {"check", "proxy"}, work[t].check <= Len(Checks(work[t]))
    PROVE  Follows(t)'
<1> DEFINE checks == Checks(work[t])
           n      == work[t].check
<1>1. checks \in Seq(CheckTypes) /\ n \in 1..Len(checks)
  <2>1. checks \in Seq(CheckTypes)
    BY ChecksTyped DEF InStep
  <2>2. QED
    BY <2>1 DEF Follows
<1>2. /\ work'[t].request = work[t].request /\ work'[t].accept_healed = work[t].accept_healed
      /\ work'[t].check = n + 1
  <2>1. work' = [work EXCEPT ![t].check = @ + 1, ![t].scope = 1]
    BY DEF Approve
  <2>2. QED
    BY <2>1, NextCheck DEF WorkTypes, Works
<1>3. /\ plan'[t].approved = Append(plan[t].approved, checks[n])
      /\ plan'[t].approved_actions = plan[t].approved_actions + 1
      /\ plan'[t].authorized = FALSE
      /\ pc'[t] = "check"
  BY DEF Approve, GoTo, PlanTypes, PlanFields, WorkTypes, CurrentCheck
<1>4. Checks(work'[t]) = checks
  BY <1>2, ChecksSame
<1>5. plan[t].approved = SubSeq(checks, 1, n - 1) /\ plan[t].approved_actions = n - 1
  BY DEF Follows
<1>6. work[t].request.healed_draft # <<>> => work[t].accept_healed
  BY DEF Follows
<1> HIDE DEF checks, n
<1>7. plan'[t].approved = SubSeq(checks, 1, n)
  BY <1>1, <1>3, <1>5, Slices
<1>8. plan'[t].approved_actions = n /\ n + 1 \in 1..(Len(checks) + 1) /\ (n + 1) - 1 = n
  BY <1>1, <1>3, <1>5
<1>9. QED
  BY <1>2, <1>3, <1>4, <1>6, <1>7, <1>8 DEF Follows

LEMMA FollowsFinish ==
    ASSUME WorkTypes, InStep, PlanTypes, NEW t \in Threads, Follows(t),
           pc[t] \notin {"idle", "frame"}, work[t].check = Len(Checks(work[t])) + 1,
           GoTo(t, "idle"), UNCHANGED work, plan' = [plan EXCEPT ![t].authorized = TRUE]
    PROVE  Follows(t)'
<1> DEFINE checks == Checks(work[t])
<1>1. checks \in Seq(CheckTypes) /\ Len(checks) \in Nat
  BY ChecksTyped DEF InStep
<1>2. /\ pc'[t] = "idle" /\ work'[t] = work[t]
      /\ plan'[t].approved = plan[t].approved
      /\ plan'[t].approved_actions = plan[t].approved_actions
  BY DEF GoTo, WorkTypes, PlanTypes, PlanFields
<1>3. /\ plan[t].approved = SubSeq(checks, 1, Len(checks))
      /\ plan[t].approved_actions = Len(checks)
      /\ work[t].request.healed_draft # <<>> => work[t].accept_healed
  BY <1>1 DEF Follows
<1> HIDE DEF checks
<1>4. plan[t].approved = checks
  BY <1>1, <1>3, WholeSlice
<1>5. QED
  BY <1>2, <1>3, <1>4 DEF Follows, checks

LEMMA Empty ==
    /\ EmptyPlan.approved = <<>> /\ EmptyPlan.approved_actions = 0
    /\ EmptyPlan.authorized = FALSE /\ EmptyPlan.error = ""
<1>1. EmptyPlan.approved = <<>>
  BY DEF EmptyPlan
<1>2. EmptyPlan.approved_actions = 0
  BY DEF EmptyPlan
<1>3. EmptyPlan.authorized = FALSE /\ EmptyPlan.error = ""
  BY DEF EmptyPlan
<1>4. QED
  BY <1>1, <1>2, <1>3

LEMMA FollowsBegin ==
    ASSUME WorkTypes, PlanTypes, NEW t \in Threads, NEW r \in Requests, NEW accept \in BOOLEAN,
           Begin(t, r, accept)
    PROVE  Follows(t)'
<1>1. /\ plan'[t] = EmptyPlan /\ pc'[t] = "frame"
      /\ work'[t].request = r /\ work'[t].check = 1
  BY DEF Begin, GoTo, WorkTypes, PlanTypes
<1>2. Checks(work'[t]) \in Seq(CheckTypes)
  BY <1>1, ChecksTyped
<1>3. SubSeq(Checks(work'[t]), 1, 0) = <<>> /\ 1 \in 1..(Len(Checks(work'[t])) + 1)
  BY <1>2, WholeSlice
<1>4. /\ plan'[t].approved = <<>> /\ plan'[t].approved_actions = 0
      /\ plan'[t].authorized = FALSE
  BY <1>1, Empty
<1>5. QED
  BY <1>1, <1>3, <1>4 DEF Follows

LEMMA FollowsSteps ==
    ASSUME WorkTypes, InStep, PlanTypes, PlanFollows, [Next]_vars
    PROVE  PlanFollows'
<1> SUFFICES ASSUME NEW u \in Threads PROVE Follows(u)'
  BY DEF PlanFollows
<1>1. Follows(u)
  BY DEF PlanFollows
<1>2. UNCHANGED <<pc, work, plan>> => Follows(u)'
  BY <1>1, FollowsSame
<1>3. ASSUME NEW t \in Threads, t # u, Others(t) PROVE Follows(u)'
  BY <1>1, <1>3, FollowsSame DEF Others
<1>4. ASSUME EvaluateStep(u) PROVE Follows(u)'
  <2>1. CASE CheckFrame(u)
    <3>1. pc[u] = "frame"
      BY <2>1 DEF CheckFrame
    <3>2. CASE \E e : Reject(u, e)
      BY <3>1, <3>2, FollowsReject
    <3>3. CASE GoTo(u, "enforced") /\ UNCHANGED plan
               /\ (work[u].request.healed_draft = <<>> \/ work[u].accept_healed)
      <4>1. pc'[u] = "enforced" /\ work' = work
        BY <2>1, <3>3 DEF CheckFrame, GoTo, WorkTypes
      <4>2. QED
        BY <1>1, <3>1, <3>3, <4>1, FollowsOn
    <3>4. QED
      BY <2>1, <3>2, <3>3 DEF CheckFrame
  <2>2. CASE ReadEnforced(u)
    <3>1. pc[u] = "enforced" /\ pc'[u] \in {"lookup", "check"} /\ UNCHANGED <<plan, work>>
      BY <2>2 DEF ReadEnforced, GoTo, WorkTypes
    <3>2. QED
      BY <1>1, <3>1, FollowsOn
  <2>3. CASE Lookup(u)
    <3>1. pc[u] = "lookup" /\ work' = work
      BY <2>3 DEF Lookup
    <3>2. CASE Reject(u, "replay_detected")
      BY <3>1, <3>2, FollowsReject
    <3>3. CASE GoTo(u, "check") /\ UNCHANGED plan
      <4>1. pc'[u] = "check"
        BY <3>3 DEF GoTo, WorkTypes
      <4>2. QED
        BY <1>1, <3>1, <3>3, <4>1, FollowsOn
    <3>4. QED
      BY <2>3, <3>2, <3>3 DEF Lookup
  <2>4. CASE DecideCheck(u)
    <3>1. pc[u] = "check" /\ work[u].check <= Len(Checks(work[u]))
      BY <2>4 DEF DecideCheck
    <3>2. CASE \E e : Reject(u, e)
      BY <3>1, <3>2, FollowsReject
    <3>3. CASE Approve(u)
      BY <1>1, <3>1, <3>3, FollowsApprove
    <3>4. QED
      BY <2>4, <3>2, <3>3 DEF DecideCheck
  <2>5. CASE EnterProxy(u)
    <3>1. /\ pc[u] = "check" /\ work[u].check <= Len(Checks(work[u]))
          /\ pc'[u] = "proxy" /\ UNCHANGED <<plan, work>>
      BY <2>5 DEF EnterProxy, GoTo, WorkTypes
    <3>2. QED
      BY <1>1, <3>1, FollowsOn
  <2>6. CASE AskProxy(u)
    <3>1. pc[u] = "proxy" /\ work[u].check <= Len(Checks(work[u]))
      BY <1>1, <2>6 DEF AskProxy, Follows
    <3>2. CASE Reject(u, "no_grant")
      BY <3>1, <3>2, FollowsReject
    <3>3. CASE Approve(u)
      BY <1>1, <3>1, <3>3, FollowsApprove
    <3>4. CASE work' = [work EXCEPT ![u].scope = @ + 1] /\ UNCHANGED <<pc, plan>>
      <4>1. /\ work'[u].request = work[u].request /\ work'[u].check = work[u].check
            /\ work'[u].accept_healed = work[u].accept_healed
        BY <3>4 DEF WorkTypes, Works
      <4>2. QED
        BY <1>1, <3>4, <4>1, FollowsSame
    <3>5. QED
      BY <2>6, <3>2, <3>3, <3>4 DEF AskProxy
  <2>7. CASE Consume(u)
    <3>1. pc[u] = "check" /\ work[u].check > Len(Checks(work[u])) /\ work' = work
      BY <2>7 DEF Consume
    <3>2. work[u].check = Len(Checks(work[u])) + 1
      <4>1. Len(Checks(work[u])) \in Nat
        BY <3>1, ChecksTyped DEF InStep
      <4>2. QED
        BY <1>1, <3>1, <4>1 DEF Follows
    <3>3. CASE GoTo(u, "record") /\ UNCHANGED plan
      <4>1. pc'[u] = "record"
        BY <3>3 DEF GoTo, WorkTypes
      <4>2. QED
        BY <1>1, <3>1, <3>2, <3>3, <4>1, FollowsOn
    <3>4. CASE GoTo(u, "idle") /\ plan' = [plan EXCEPT ![u].authorized = TRUE]
      BY <1>1, <3>1, <3>2, <3>4, FollowsFinish
    <3>5. QED
      BY <2>7, <3>3, <3>4 DEF Consume
  <2>8. CASE CallRecord(u)
    <3>1. pc[u] = "record" /\ pc'[u] = "recording" /\ UNCHANGED <<plan, work>>
      BY <2>8 DEF CallRecord, GoTo, WorkTypes
    <3>2. work[u].check = Len(Checks(work[u])) + 1
      BY <1>1, <3>1 DEF Follows
    <3>3. QED
      BY <1>1, <3>1, <3>2, FollowsOn
  <2>9. CASE Pruning(u)
    BY <1>2, <2>9 DEF Pruning
  <2>10. CASE Authorize(u)
    <3>1. pc[u] = "recording"
      BY <2>10 DEF Authorize, AnswerRecorded, InStep
    <3>2. work[u].check = Len(Checks(work[u])) + 1
      BY <1>1, <3>1 DEF Follows
    <3>3. GoTo(u, "idle") /\ UNCHANGED work /\ plan' = [plan EXCEPT ![u].authorized = TRUE]
      BY <2>10 DEF Authorize
    <3>4. QED
      BY <1>1, <3>1, <3>2, <3>3, FollowsFinish
  <2>11. CASE RefuseRecord(u)
    <3>1. pc[u] = "recording"
      BY <2>11 DEF RefuseRecord, AnswerReplay, AnswerCapacityExceeded, InStep
    <3>2. pc'[u] = "idle" /\ plan'[u].authorized = FALSE
      BY <2>11, <3>1 DEF RefuseRecord, GoTo, WorkTypes, PlanTypes, PlanFields
    <3>3. QED
      BY <3>2 DEF Follows
  <2>12. QED
    BY <1>4, <2>1, <2>2, <2>3, <2>4, <2>5, <2>6, <2>7, <2>8, <2>9, <2>10, <2>11 DEF EvaluateStep
<1>5. ASSUME NEW t \in Threads, EvaluateStep(t) PROVE Follows(u)'
  BY <1>3, <1>4, <1>5, OneThread
<1>6. ASSUME NEW t \in Threads, NEW r \in Requests, NEW accept \in BOOLEAN, Begin(t, r, accept)
      PROVE  Follows(u)'
  BY <1>3, <1>6, OneThread, FollowsBegin
<1>7. \A r : AcceptHealed(r) \subseteq BOOLEAN
  BY DEF AcceptHealed
<1>8. Host \/ (Tick /\ UNCHANGED <<config, pc, work, plan, memory>>) \/ UNCHANGED vars
        => UNCHANGED <<pc, work, plan>>
  BY HostSteps DEF vars
<1>9. QED
  BY <1>2, <1>5, <1>6, <1>7, <1>8 DEF Next

\* An authorized plan approves every check of every statement it was to execute, in
\* order, and healed ones only if the caller accepted them; for frames of every
\* length.
THEOREM MiddlewareAuthorizedIsComplete == Spec => []AuthorizedIsComplete
<1>1. MiddlewareInit => PlanFollows
  BY Empty DEF MiddlewareInit, PlanFollows, Follows
<1>2. PlanFollows => AuthorizedIsComplete
  BY DEF PlanFollows, Follows, AuthorizedIsComplete
<1>3. QED
  BY <1>1, <1>2, FollowsSteps, InitialTypes, WorkSteps, PlanSteps, PTL DEF Spec

-----------------------------------------------------------------------------
\* What approvals and denials rest on: a check of the root that was passed, and a
\* grant or a token; while the scopes of a check are asked for one by one, an agent that
\* was covered throughout has a grant for one of those still to be asked.
Backed(c, scopes, since, agent) ==
    /\ ~c.escapes
    /\ \/ /\ c.cap = NoCap
          /\ \E granted \in scopes, j \in DOMAIN ProxyScopes(c) :
               Grants(granted, ProxyScopes(c)[j])
       \/ /\ c.cap # NoCap
          /\ c.cap.genuine /\ c.cap.exp >= since
          /\ TokenScope(c) = Scope("", "") \/ Grants(c.cap.scope, TokenScope(c))
          /\ AllowDelegation \/ c.cap.sub = agent

StillAhead(t) ==
    \E i \in work[t].scope..Len(ProxyScopes(CurrentCheck(t))),
       granted \in session_granted_scopes[agt(t)] :
        Grants(granted, ProxyScopes(CurrentCheck(t))[i])

Asking(t) ==
    /\ pc[t] \notin {"idle", "proxy"} => work[t].scope = 1
    /\ pc[t] = "proxy" =>
         /\ ~CurrentCheck(t).escapes /\ CurrentCheck(t).cap = NoCap
         /\ work[t].scope \in 1..Len(ProxyScopes(CurrentCheck(t)))
         /\ uncovered[t] = FALSE => StillAhead(t)
    /\ pc[t] # "idle" => session_granted_scopes[agt(t)] \subseteq held[t]

Founded(t) ==
    /\ \A i \in DOMAIN plan[t].approved :
         Backed(plan[t].approved[i], held[t], started[t], agt(t))
    /\ plan[t].error = "no_grant" => uncovered[t] = TRUE

MemoryTypes ==
    /\ held \in [Threads -> SUBSET Scopes]
    /\ uncovered \in [Threads -> BOOLEAN]

AnswersOK == MemoryTypes /\ \A t \in Threads : Asking(t) /\ Founded(t)

LEMMA ProxyScopesLength ==
    ASSUME NEW c
    PROVE  /\ Len(ProxyScopes(c)) \in {1, 3}
           /\ DOMAIN ProxyScopes(c) = 1..Len(ProxyScopes(c))
<1>1. \A x, y, z : /\ Len(<<x>>) = 1 /\ DOMAIN <<x>> = 1..1
                  /\ Len(<<x, y, z>>) = 3 /\ DOMAIN <<x, y, z>> = 1..3
  OBVIOUS
<1>2. \/ \E x : ProxyScopes(c) = <<x>>
      \/ \E x, y, z : ProxyScopes(c) = <<x, y, z>>
  BY DEF ProxyScopes
<1>3. QED
  BY <1>1, <1>2

LEMMA CoveredAhead ==
    ASSUME NEW t, work[t].scope = 1
    PROVE  Covered(session_granted_scopes, t) => StillAhead(t)
BY ProxyScopesLength DEF Covered, StillAhead

LEMMA CurrentSame ==
    ASSUME NEW t, work'[t].request = work[t].request, work'[t].check = work[t].check,
           work'[t].accept_healed = work[t].accept_healed
    PROVE  CurrentCheck(t)' = CurrentCheck(t) /\ agt(t)' = agt(t)
<1>1. Checks(work'[t]) = Checks(work[t])
  BY ChecksSame
<1>2. QED
  BY <1>1 DEF CurrentCheck, agt

\* Grants that are held are not forgotten, nor is the moment of the call.
LEMMA BackedByMore ==
    ASSUME NEW c, NEW few, NEW many, few \subseteq many, NEW since, NEW agent,
           Backed(c, few, since, agent)
    PROVE  Backed(c, many, since, agent)
BY DEF Backed

LEMMA FoundedKept ==
    ASSUME NEW t, Founded(t), plan'[t].approved = plan[t].approved, held[t] \subseteq held'[t],
           started'[t] = started[t], work'[t].request = work[t].request,
           plan'[t].error = "no_grant" => uncovered'[t] = TRUE
    PROVE  Founded(t)'
<1>1. agt(t)' = agt(t)
  BY DEF agt
<1>2. ASSUME NEW i \in DOMAIN plan[t].approved
      PROVE  Backed(plan[t].approved[i], held'[t], started[t], agt(t))
  <2>1. PICK c : c = plan[t].approved[i]
    OBVIOUS
  <2>2. Backed(c, held[t], started[t], agt(t))
    BY <2>1 DEF Founded
  <2>3. QED
    BY <2>1, <2>2, BackedByMore
<1>3. QED
  BY <1>1, <1>2 DEF Founded

LEMMA AskingKept ==
    ASSUME NEW t, Asking(t), pc'[t] = pc[t], work'[t] = work[t], held'[t] = held[t],
           uncovered'[t] = uncovered[t], session_granted_scopes' = session_granted_scopes
    PROVE  Asking(t)'
<1>1. CurrentCheck(t)' = CurrentCheck(t) /\ agt(t)' = agt(t)
  BY CurrentSame
<1>2. QED
  BY <1>1 DEF Asking, StillAhead

LEMMA AskingOn ==
    ASSUME NEW t, Asking(t), pc[t] \notin {"idle", "proxy"}, pc'[t] \notin {"idle", "proxy"},
           work'[t] = work[t], held'[t] = held[t],
           session_granted_scopes' = session_granted_scopes
    PROVE  Asking(t)'
BY DEF Asking, agt

LEMMA Below ==
    ASSUME NEW m \in Nat, NEW k \in 1..m
    PROVE  k \in 0..m /\ k - 1 \in 0..m /\ \A i \in 1..k : i # k => i \in 1..(k - 1)
OBVIOUS

LEMMA SliceItems ==
    ASSUME NEW S, NEW s \in Seq(S), NEW m \in 0..Len(s)
    PROVE  DOMAIN SubSeq(s, 1, m) = 1..m /\ \A i \in 1..m : SubSeq(s, 1, m)[i] = s[i]
OBVIOUS

\* Approval of the check that is looked at, for a reason that still holds.
LEMMA FoundedApprove ==
    ASSUME WorkTypes, InStep, PlanTypes, PlanFollows, NEW t \in Threads, Asking(t), Founded(t),
           Approve(t), pc[t] \in {"check", "proxy"}, work[t].check <= Len(Checks(work[t])),
           UNCHANGED <<held, started, uncovered, session_granted_scopes>>,
           Backed(CurrentCheck(t), held[t], started[t], agt(t))
    PROVE  Asking(t)' /\ Founded(t)'
<1> DEFINE checks == Checks(work[t])
           n      == work[t].check
<1>1. checks \in Seq(CheckTypes)
  BY ChecksTyped DEF InStep
<1>2. /\ n \in 1..Len(checks) /\ Len(checks) \in Nat
      /\ plan[t].approved = SubSeq(checks, 1, n - 1) /\ plan[t].error = ""
  <2>1. Follows(t)
    BY DEF PlanFollows
  <2>2. Len(checks) \in Nat
    BY <1>1
  <2>3. n \in 1..(Len(checks) + 1) /\ plan[t].approved = SubSeq(checks, 1, n - 1)
    BY <2>1 DEF Follows
  <2>4. plan[t].error = ""
    BY DEF PlanTypes
  <2>5. n \in 1..Len(checks)
    BY <2>2, <2>3
  <2>6. QED
    BY <2>2, <2>3, <2>4, <2>5
<1>3. work' = [work EXCEPT ![t].check = @ + 1, ![t].scope = 1]
  BY DEF Approve
<1>4. work'[t].request = work[t].request
  BY <1>3, NextCheck DEF WorkTypes
<1>5. work'[t].scope = 1
  BY <1>3 DEF WorkTypes, Works
<1>6. /\ plan'[t].approved = Append(plan[t].approved, checks[n])
      /\ plan'[t].error = plan[t].error
      /\ pc'[t] = "check"
  BY DEF Approve, GoTo, PlanTypes, PlanFields, WorkTypes, CurrentCheck
<1>7. agt(t)' = agt(t)
  BY <1>4 DEF agt
<1>8. Asking(t)'
  BY <1>5, <1>6, <1>7 DEF Asking
<1>9. Backed(checks[n], held[t], started[t], agt(t))
  BY DEF CurrentCheck
<1> HIDE DEF checks, n
<1>10. plan'[t].approved = SubSeq(checks, 1, n)
  BY <1>1, <1>2, <1>6, Slices
<1>11. /\ DOMAIN SubSeq(checks, 1, n) = 1..n /\ DOMAIN SubSeq(checks, 1, n - 1) = 1..(n - 1)
       /\ \A i \in 1..n : SubSeq(checks, 1, n)[i] = checks[i]
       /\ \A i \in 1..(n - 1) : SubSeq(checks, 1, n - 1)[i] = checks[i]
  <2>1. n \in 0..Len(checks) /\ n - 1 \in 0..Len(checks)
    BY <1>2, Below
  <2>2. QED
    BY <1>1, <2>1, SliceItems
<1>12. ASSUME NEW i \in DOMAIN SubSeq(checks, 1, n)
       PROVE  Backed(SubSeq(checks, 1, n)[i], held[t], started[t], agt(t))
  <2>1. PICK c : c = SubSeq(checks, 1, n)[i]
    OBVIOUS
  <2>2. c = checks[i] /\ i \in 1..n
    BY <1>11, <2>1
  <2>3. CASE i = n
    BY <1>9, <2>1, <2>2, <2>3
  <2>4. CASE i # n
    <3>1. i \in 1..(n - 1)
      BY <1>2, <2>2, <2>4, Below
    <3>2. i \in DOMAIN plan[t].approved /\ plan[t].approved[i] = c
      BY <1>2, <1>11, <2>2, <3>1
    <3>3. QED
      BY <2>1, <3>2 DEF Founded
  <2>5. QED
    BY <2>3, <2>4
<1>13. Founded(t)'
  BY <1>2, <1>6, <1>7, <1>10, <1>12 DEF Founded
<1>14. QED
  BY <1>8, <1>13

\* The two reasons of an approval.
LEMMA TokenBacks ==
    ASSUME StoreInv, SinceBegin, NEW t \in Threads, NEW c \in CheckTypes, ~c.escapes,
           c.cap # NoCap, validate_capability(c.cap, TokenScope(c), agt(t)), NEW scopes
    PROVE  Backed(c, scopes, started[t], agt(t))
<1>1. c.cap.exp \in Int
  BY DEF CheckTypes, Tokens
<1>2. clock \in Int
  BY HistoryItems DEF StoreInv
<1>3. started[t] \in Int /\ started[t] <= clock
  BY DEF SinceBegin
<1>4. c.cap.genuine /\ c.cap.exp >= clock
  BY DEF validate_capability, verify
<1>5. c.cap.exp >= started[t]
  BY <1>1, <1>2, <1>3, <1>4
<1>6. QED
  BY <1>4, <1>5 DEF validate_capability, verify, Backed

LEMMA GrantBacks ==
    ASSUME NEW t, NEW c, ~c.escapes, c.cap = NoCap, NEW since, NEW scopes,
           NEW i \in 1..Len(ProxyScopes(c)), session_granted_scopes[agt(t)] \subseteq scopes,
           ProxyAllows(agt(t), ProxyScopes(c)[i])
    PROVE  Backed(c, scopes, since, agt(t))
<1>1. i \in DOMAIN ProxyScopes(c)
  BY ProxyScopesLength
<1>2. QED
  BY <1>1 DEF ProxyAllows, Backed

LEMMA MemorySteps ==
    ASSUME MemoryTypes, ConfigTypes, [Next]_vars
    PROVE  MemoryTypes'
<1> USE DEF MemoryTypes
<1>1. CASE UNCHANGED <<held, uncovered>>
  BY <1>1
<1>2. ASSUME NEW t \in Threads, NEW r \in Requests, NEW accept, Begin(t, r, accept)
      PROVE  MemoryTypes'
  <2>1. session_granted_scopes[r.agt] \in SUBSET Scopes
    BY MiddlewareAssumption DEF ConfigTypes
  <2>2. QED
    BY <1>2, <2>1 DEF Begin
<1>3. ASSUME NEW t \in Threads, EvaluateStep(t) PROVE MemoryTypes'
  <2>1. CASE EnterProxy(t)
    <3>1. \E b \in BOOLEAN : uncovered' = [uncovered EXCEPT ![t] = b]
      BY <2>1 DEF EnterProxy
    <3>2. QED
      BY <2>1, <3>1 DEF EnterProxy
  <2>2. QED
    BY <1>1, <1>3, <2>1 DEF EvaluateStep, CheckFrame, ReadEnforced, Lookup, DecideCheck,
       AskProxy, Consume, CallRecord, Pruning, Authorize, RefuseRecord, memory
<1>4. NoteUncovered => uncovered' \in [Threads -> BOOLEAN]
  BY DEF NoteUncovered
<1>5. ASSUME NEW agent, NEW scope \in Scopes, grant_session_capability(agent, scope)
      PROVE  MemoryTypes'
  BY <1>4, <1>5 DEF grant_session_capability
<1>6. ASSUME NEW agent, revoke_session_capabilities(agent) PROVE MemoryTypes'
  BY <1>4, <1>6 DEF revoke_session_capabilities
<1>7. QED
  BY <1>1, <1>2, <1>3, <1>5, <1>6 DEF Next, Host, set_out_of_band_proxy, set_enforce_idempotency,
     set_verify_chk, clear_idempotency_store, vars, memory

\* A thread's own step, one case for each.
AnswerPremise ==
    /\ StoreInv /\ WorkTypes /\ InStep /\ PlanTypes /\ SinceBegin
    /\ PlanFollows /\ MemoryTypes

LEMMA FoundedReject ==
    ASSUME WorkTypes, PlanTypes, NEW t \in Threads, Asking(t), Founded(t), NEW e, Reject(t, e),
           e = "no_grant" => uncovered[t] = TRUE, UNCHANGED <<work, held, started, uncovered>>
    PROVE  Asking(t)' /\ Founded(t)'
<1>1. /\ pc'[t] = "idle" /\ plan'[t].approved = plan[t].approved
      /\ plan'[t].error = e
  BY DEF Reject, GoTo, WorkTypes, PlanTypes, PlanFields
<1>2. Asking(t)'
  BY <1>1 DEF Asking
<1>3. Founded(t)'
  BY <1>1, FoundedKept
<1>4. QED
  BY <1>2, <1>3

LEMMA FoundedDecide ==
    ASSUME AnswerPremise, NEW t \in Threads, Asking(t), Founded(t), DecideCheck(t)
    PROVE  Asking(t)' /\ Founded(t)'
<1> USE DEF AnswerPremise
<1>1. /\ pc[t] = "check" /\ work[t].check <= Len(Checks(work[t]))
      /\ UNCHANGED <<held, started, uncovered, session_granted_scopes>>
  BY DEF DecideCheck, config, memory
<1>2. CASE \E e \in {"outside_root", "token_refused", "no_capability"} :
              Reject(t, e) /\ UNCHANGED work
  BY <1>1, <1>2, FoundedReject
<1>3. CASE /\ Approve(t)
           /\ ~CurrentCheck(t).escapes /\ CurrentCheck(t).cap # NoCap
           /\ validate_capability(CurrentCheck(t).cap, TokenScope(CurrentCheck(t)), agt(t))
  <2>1. PICK c : c = CurrentCheck(t)
    OBVIOUS
  <2>2. c \in CheckTypes
    <3>1. Checks(work[t]) \in Seq(CheckTypes)
      BY <1>1, ChecksTyped DEF InStep
    <3>2. work[t].check \in 1..(Len(Checks(work[t])) + 1) /\ Len(Checks(work[t])) \in Nat
      BY <1>1, <3>1 DEF PlanFollows, Follows
    <3>3. work[t].check \in DOMAIN Checks(work[t])
      BY <1>1, <3>1, <3>2
    <3>4. QED
      BY <2>1, <3>1, <3>3, ItemOfSeq DEF CurrentCheck
  <2>3. Backed(c, held[t], started[t], agt(t))
    BY <1>3, <2>1, <2>2, TokenBacks
  <2>4. QED
    BY <1>1, <1>3, <2>1, <2>3, FoundedApprove
<1>4. QED
  BY <1>2, <1>3 DEF DecideCheck

LEMMA FoundedEnter ==
    ASSUME AnswerPremise, NEW t \in Threads, Asking(t), Founded(t), EnterProxy(t)
    PROVE  Asking(t)' /\ Founded(t)'
<1> USE DEF AnswerPremise
<1>1. /\ pc[t] = "check" /\ pc'[t] = "proxy" /\ UNCHANGED <<work, plan, held, started, session_granted_scopes>>
      /\ ~CurrentCheck(t).escapes /\ CurrentCheck(t).cap = NoCap
  BY DEF EnterProxy, GoTo, WorkTypes, config
<1>2. CurrentCheck(t)' = CurrentCheck(t) /\ agt(t)' = agt(t)
  BY <1>1, CurrentSame
<1>3. uncovered'[t] = FALSE => StillAhead(t)
  <2>1. uncovered'[t] = ~Covered(session_granted_scopes, t)
    BY DEF EnterProxy, MemoryTypes
  <2>2. work[t].scope = 1
    BY <1>1 DEF Asking
  <2>3. QED
    BY <2>1, <2>2, CoveredAhead
<1>4. StillAhead(t)' = StillAhead(t)
  BY <1>1, <1>2 DEF StillAhead
<1>5. work[t].scope \in 1..Len(ProxyScopes(CurrentCheck(t)))
  <2>1. Len(ProxyScopes(CurrentCheck(t))) \in {1, 3}
    BY ProxyScopesLength
  <2>2. work[t].scope = 1
    BY <1>1 DEF Asking
  <2>3. \A n \in {1, 3} : 1 \in 1..n
    OBVIOUS
  <2>4. QED
    BY <2>1, <2>2, <2>3
<1>6. Asking(t)'
  BY <1>1, <1>2, <1>3, <1>4, <1>5 DEF Asking
<1>7. plan[t].error = ""
  BY <1>1 DEF PlanTypes
<1>8. Founded(t)'
  BY <1>1, <1>7, FoundedKept
<1>9. QED
  BY <1>6, <1>8

LEMMA FoundedAsk ==
    ASSUME AnswerPremise, NEW t \in Threads, Asking(t), Founded(t), AskProxy(t)
    PROVE  Asking(t)' /\ Founded(t)'
<1> USE DEF AnswerPremise
<1> DEFINE c == CurrentCheck(t)
           i == work[t].scope
<1>1. /\ pc[t] = "proxy"
      /\ UNCHANGED <<held, started, uncovered, session_granted_scopes>>
  BY DEF AskProxy, config, memory
<1>2. /\ ~c.escapes /\ c.cap = NoCap /\ i \in 1..Len(ProxyScopes(c))
      /\ uncovered[t] = FALSE => StillAhead(t)
      /\ session_granted_scopes[agt(t)] \subseteq held[t]
  BY <1>1 DEF Asking
<1>3. Len(ProxyScopes(c)) \in {1, 3}
  BY ProxyScopesLength
<1>4. CASE ProxyAllows(agt(t), ProxyScopes(c)[i]) /\ Approve(t)
  <2>1. Backed(c, held[t], started[t], agt(t))
    BY <1>2, <1>4, GrantBacks
  <2>2. work[t].check <= Len(Checks(work[t]))
    BY <1>1 DEF PlanFollows, Follows
  <2>3. QED
    BY <1>1, <1>4, <2>1, <2>2, FoundedApprove
\* What is still ahead after a no.
<1>5. ASSUME ~ProxyAllows(agt(t), ProxyScopes(c)[i]), StillAhead(t)
      PROVE  \E j \in (i + 1)..Len(ProxyScopes(c)), granted \in session_granted_scopes[agt(t)] :
                Grants(granted, ProxyScopes(c)[j])
  <2>1. PICK j \in i..Len(ProxyScopes(c)), granted \in session_granted_scopes[agt(t)] :
           Grants(granted, ProxyScopes(c)[j])
    BY <1>5 DEF StillAhead
  <2>2. j # i
    BY <1>5, <2>1 DEF ProxyAllows
  <2>3. j \in (i + 1)..Len(ProxyScopes(c))
    BY <1>2, <1>3, <2>1, <2>2
  <2>4. QED
    BY <2>1, <2>3
<1>6. CASE /\ ~ProxyAllows(agt(t), ProxyScopes(c)[i]) /\ i < Len(ProxyScopes(c))
           /\ work' = [work EXCEPT ![t].scope = @ + 1] /\ UNCHANGED <<pc, plan>>
  <2>1. /\ work'[t].request = work[t].request /\ work'[t].check = work[t].check
        /\ work'[t].accept_healed = work[t].accept_healed
        /\ work'[t].scope = i + 1
    BY <1>6 DEF WorkTypes, Works
  <2>2. CurrentCheck(t)' = c /\ agt(t)' = agt(t)
    BY <2>1, CurrentSame
  <2>3. i + 1 \in 1..Len(ProxyScopes(c))
    BY <1>2, <1>3, <1>6
  <2>4. StillAhead(t) => StillAhead(t)'
    BY <1>1, <1>5, <1>6, <2>1, <2>2 DEF StillAhead
  <2>5. Asking(t)'
    BY <1>1, <1>2, <1>6, <2>1, <2>2, <2>3, <2>4 DEF Asking
  <2>6. plan[t].error = ""
    BY <1>1 DEF PlanTypes
  <2>7. Founded(t)'
    BY <1>1, <1>6, <2>1, <2>6, FoundedKept
  <2>8. QED
    BY <2>5, <2>7
<1>7. CASE /\ ~ProxyAllows(agt(t), ProxyScopes(c)[i]) /\ ~(i < Len(ProxyScopes(c)))
           /\ Reject(t, "no_grant") /\ UNCHANGED work
  <2>1. i = Len(ProxyScopes(c))
    BY <1>2, <1>3, <1>7
  <2>2. ~StillAhead(t)
    BY <1>3, <1>5, <1>7, <2>1
  <2>3. uncovered[t] = TRUE
    BY <1>2, <2>2 DEF MemoryTypes
  <2>4. QED
    BY <1>1, <1>7, <2>3, FoundedReject
<1>8. QED
  BY <1>4, <1>6, <1>7 DEF AskProxy

\* Any step of evaluate(), for the thread that takes it.
LEMMA AnswersOwn ==
    ASSUME AnswerPremise, NEW t \in Threads, Asking(t), Founded(t), EvaluateStep(t)
    PROVE  Asking(t)' /\ Founded(t)'
<1> USE DEF AnswerPremise
\* Every step but those about a check passes on what it finds.
<1>1. ASSUME UNCHANGED <<work, held, started, uncovered, session_granted_scopes>>,
             pc[t] \notin {"idle", "proxy"}, pc'[t] # "proxy",
             plan'[t].approved = plan[t].approved, plan'[t].error # "no_grant"
      PROVE  Asking(t)' /\ Founded(t)'
  <2>1. Founded(t)'
    BY <1>1, FoundedKept
  <2>2. CASE pc'[t] = "idle"
    BY <2>1, <2>2 DEF Asking
  <2>3. CASE pc'[t] # "idle"
    <3>1. Asking(t)'
      BY <1>1, <2>3, AskingOn
    <3>2. QED
      BY <2>1, <3>1
  <2>4. QED
    BY <2>2, <2>3
<1>2. ASSUME NEW e \in {"auth_rejected", "integrity", "replay_detected"}, Reject(t, e),
             UNCHANGED <<work, held, started, uncovered>>
      PROVE  Asking(t)' /\ Founded(t)'
  BY <1>2, FoundedReject
<1>3. ASSUME NEW label \in Labels \ {"idle", "proxy"}, GoTo(t, label), pc[t] \notin {"idle", "proxy"},
             UNCHANGED <<work, plan, held, started, uncovered, session_granted_scopes>>
      PROVE  Asking(t)' /\ Founded(t)'
  <2>1. pc'[t] # "proxy" /\ plan'[t].error # "no_grant"
    BY <1>3 DEF GoTo, WorkTypes, PlanTypes
  <2>2. QED
    BY <1>1, <1>3, <2>1
<1>4. ASSUME GoTo(t, "idle"), pc[t] \notin {"idle", "proxy"},
             UNCHANGED <<work, held, started, uncovered, session_granted_scopes>>,
             plan'[t].approved = plan[t].approved, plan'[t].error # "no_grant"
      PROVE  Asking(t)' /\ Founded(t)'
  BY <1>1, <1>4 DEF GoTo, WorkTypes
<1> USE DEF Labels, memory, config
<1>5. CASE CheckFrame(t)
  BY <1>2, <1>3, <1>5 DEF CheckFrame
<1>6. CASE ReadEnforced(t)
  BY <1>3, <1>6 DEF ReadEnforced
<1>7. CASE Lookup(t)
  BY <1>2, <1>3, <1>7 DEF Lookup
<1>8. CASE DecideCheck(t)
  BY <1>8, FoundedDecide
<1>9. CASE EnterProxy(t)
  BY <1>9, FoundedEnter
<1>10. CASE AskProxy(t)
  BY <1>10, FoundedAsk
<1>11. ASSUME pc[t] # "idle", plan' = [plan EXCEPT ![t].authorized = TRUE]
       PROVE  plan'[t].approved = plan[t].approved /\ plan'[t].error # "no_grant"
  BY <1>11 DEF PlanTypes, PlanFields
<1>12. CASE Consume(t)
  BY <1>3, <1>4, <1>11, <1>12 DEF Consume
<1>13. CASE CallRecord(t)
  BY <1>3, <1>13 DEF CallRecord
<1>14. call[t].op # "none" => pc[t] = "recording"
  BY DEF InStep
<1>15. CASE Pruning(t)
  <2>1. pc[t] = "recording" /\ plan[t].error = ""
    BY <1>14, <1>15 DEF Pruning, PruneExpired, EndPrune, PlanTypes
  <2>2. QED
    BY <1>1, <1>15, <2>1 DEF Pruning
<1>16. CASE Authorize(t)
  <2>1. pc[t] = "recording"
    BY <1>14, <1>16 DEF Authorize, AnswerRecorded
  <2>2. QED
    BY <1>4, <1>11, <1>16, <2>1 DEF Authorize
<1>17. CASE RefuseRecord(t)
  <2>1. pc[t] = "recording"
    BY <1>14, <1>17 DEF RefuseRecord, AnswerReplay, AnswerCapacityExceeded
  <2>2. ASSUME NEW e \in {"replay_detected", "at_capacity"},
               plan' = [plan EXCEPT ![t].approved_actions = 0, ![t].error = e]
        PROVE  plan'[t].approved = plan[t].approved /\ plan'[t].error # "no_grant"
    BY <2>2 DEF PlanTypes, PlanFields
  <2>3. QED
    BY <1>4, <1>17, <2>1, <2>2 DEF RefuseRecord
<1>18. QED
  BY <1>5, <1>6, <1>7, <1>8, <1>9, <1>10, <1>12, <1>13, <1>15, <1>16, <1>17 DEF EvaluateStep

LEMMA NothingIn == DOMAIN <<>> = {}
OBVIOUS

LEMMA AnswersBegin ==
    ASSUME AnswerPremise, ConfigTypes, NEW t \in Threads, NEW r \in Requests, NEW accept,
           Begin(t, r, accept)
    PROVE  Asking(t)' /\ Founded(t)'
<1> USE DEF AnswerPremise
<1>1. /\ plan'[t] = EmptyPlan /\ pc'[t] = "frame"
      /\ work'[t].request = r /\ work'[t].scope = 1
      /\ held'[t] = session_granted_scopes[r.agt]
      /\ session_granted_scopes' = session_granted_scopes
  BY DEF Begin, GoTo, WorkTypes, PlanTypes, MemoryTypes, config
<1>2. agt(t)' = r.agt
  BY <1>1 DEF agt
<1>3. Asking(t)'
  BY <1>1, <1>2 DEF Asking
<1>4. plan'[t].approved = <<>> /\ plan'[t].error = ""
  BY <1>1, Empty
<1>5. Founded(t)'
  <2>1. DOMAIN plan'[t].approved = {}
    BY <1>4, NothingIn
  <2>2. QED
    BY <1>4, <2>1 DEF Founded
<1>6. QED
  BY <1>3, <1>5

\* A step of one thread leaves the answers of the others.
LEMMA AnswersOthers ==
    ASSUME AnswerPremise, NEW t \in Threads, NEW u \in Threads, t # u, Asking(u), Founded(u),
           EvaluateStep(t) \/ \E r, accept : Begin(t, r, accept)
    PROVE  Asking(u)' /\ Founded(u)'
<1> USE DEF AnswerPremise
<1>1. pc'[u] = pc[u] /\ work'[u] = work[u] /\ plan'[u] = plan[u]
  BY OneThread DEF Others
<1>2. /\ held'[u] = held[u] /\ uncovered'[u] = uncovered[u] /\ started'[u] = started[u]
      /\ session_granted_scopes' = session_granted_scopes
  <2>1. ASSUME NEW r, NEW accept, Begin(t, r, accept)
        PROVE  /\ held'[u] = held[u] /\ uncovered'[u] = uncovered[u] /\ started'[u] = started[u]
               /\ session_granted_scopes' = session_granted_scopes
    BY <2>1 DEF Begin, MemoryTypes, SinceBegin, config
  <2>2. CASE EnterProxy(t)
    BY <2>2 DEF EnterProxy, MemoryTypes, config
  <2>3. CASE EvaluateStep(t) /\ ~EnterProxy(t)
    BY <2>3 DEF EvaluateStep, CheckFrame, ReadEnforced, Lookup, DecideCheck, AskProxy, Consume,
       CallRecord, Pruning, Authorize, RefuseRecord, memory, config
  <2>4. QED
    BY <2>1, <2>2, <2>3
<1>3. Asking(u)'
  BY <1>1, <1>2, AskingKept
<1>4. plan[u].error = "no_grant" => uncovered[u] = TRUE
  BY DEF Founded
<1>5. Founded(u)'
  BY <1>1, <1>2, <1>4, FoundedKept
<1>6. QED
  BY <1>3, <1>5

\* The host grants and revokes while threads ask.
LEMMA AnswersHost ==
    ASSUME AnswerPremise, ConfigTypes, NEW u \in Threads, Asking(u), Founded(u), Host
    PROVE  Asking(u)' /\ Founded(u)'
<1> USE DEF AnswerPremise
<1>1. UNCHANGED <<pc, work, plan, started>>
  BY HostSteps
<1>2. CurrentCheck(u)' = CurrentCheck(u) /\ agt(u)' = agt(u)
  BY <1>1, CurrentSame
<1>3. plan[u].error = "no_grant" => uncovered[u] = TRUE
  BY DEF Founded
<1>4. ASSUME UNCHANGED <<session_granted_scopes, held, uncovered>>
      PROVE  Asking(u)' /\ Founded(u)'
  <2>1. Asking(u)'
    BY <1>1, <1>4, AskingKept
  <2>2. Founded(u)'
    BY <1>1, <1>3, <1>4, FoundedKept
  <2>3. QED
    BY <2>1, <2>2
\* A thread that learns nothing was, and is, covered.
<1>5. ASSUME NoteUncovered
      PROVE  /\ uncovered[u] = TRUE => uncovered'[u] = TRUE
             /\ pc[u] = "proxy" /\ uncovered'[u] = FALSE
                  => uncovered[u] = FALSE /\ Covered(session_granted_scopes', u)
  BY <1>5 DEF NoteUncovered, MemoryTypes
<1>6. ASSUME NEW agent \in Agents, NEW scope \in Scopes, grant_session_capability(agent, scope)
      PROVE  Asking(u)' /\ Founded(u)'
  <2>1. /\ session_granted_scopes'[agt(u)] \subseteq session_granted_scopes[agt(u)] \cup {scope}
        /\ pc[u] # "idle" => agt(u) \in Agents
        /\ pc[u] # "idle" /\ agt(u) # agent
             => session_granted_scopes'[agt(u)] = session_granted_scopes[agt(u)]
    <3>1. pc[u] # "idle" => agt(u) \in Agents
      BY MiddlewareAssumption DEF InStep, agt
    <3>2. QED
      BY <1>6, <3>1 DEF grant_session_capability, ConfigTypes
  <2>2. session_granted_scopes[agt(u)] \subseteq session_granted_scopes'[agt(u)]
    BY <1>6 DEF grant_session_capability, ConfigTypes
  <2>3. held'[u] = IF pc[u] # "idle" /\ agt(u) = agent THEN held[u] \cup {scope} ELSE held[u]
    BY <1>6 DEF grant_session_capability
  <2>4. pc[u] # "idle" => session_granted_scopes'[agt(u)] \subseteq held'[u]
    BY <2>1, <2>3 DEF Asking
  <2>5. StillAhead(u) => StillAhead(u)'
    BY <1>1, <1>2, <2>2 DEF StillAhead
  <2>6. NoteUncovered
    BY <1>6 DEF grant_session_capability
  <2>7. Asking(u)'
    BY <1>1, <1>2, <1>5, <2>4, <2>5, <2>6 DEF Asking
  <2>8. held[u] \subseteq held'[u]
    BY <2>3
  <2>9. Founded(u)'
    BY <1>1, <1>3, <1>5, <2>6, <2>8, FoundedKept
  <2>10. QED
    BY <2>7, <2>9
<1>7. ASSUME NEW agent \in Agents, revoke_session_capabilities(agent)
      PROVE  Asking(u)' /\ Founded(u)'
  <2>1. NoteUncovered /\ held' = held
    BY <1>7 DEF revoke_session_capabilities
  <2>2. pc[u] # "idle" => agt(u) \in Agents
    BY MiddlewareAssumption DEF InStep, agt
  <2>3. Founded(u)'
    BY <1>1, <1>3, <1>5, <2>1, FoundedKept
  <2>4. CASE pc[u] # "idle" /\ agt(u) = agent
    <3>1. session_granted_scopes'[agt(u)] = {}
      BY <1>7, <2>4 DEF revoke_session_capabilities, ConfigTypes
    <3>2. ~Covered(session_granted_scopes', u)
      BY <3>1 DEF Covered
    <3>3. pc[u] = "proxy" => uncovered'[u] # FALSE
      BY <1>5, <2>1, <3>2
    <3>4. QED
      BY <1>1, <1>2, <2>1, <2>3, <3>1, <3>3 DEF Asking
  <2>5. CASE pc[u] # "idle" /\ agt(u) # agent
    <3>1. session_granted_scopes'[agt(u)] = session_granted_scopes[agt(u)]
      BY <1>7, <2>2, <2>5 DEF revoke_session_capabilities, ConfigTypes
    <3>2. StillAhead(u)' = StillAhead(u)
      BY <1>1, <1>2, <3>1 DEF StillAhead
    <3>3. QED
      BY <1>1, <1>2, <1>5, <2>1, <2>3, <3>1, <3>2 DEF Asking
  <2>6. CASE pc[u] = "idle"
    BY <1>1, <2>6, <2>3 DEF Asking
  <2>7. QED
    BY <2>4, <2>5, <2>6
<1>8. ASSUME NEW enable, \/ set_out_of_band_proxy(enable) \/ set_enforce_idempotency(enable)
                         \/ set_verify_chk(enable)
      PROVE  UNCHANGED <<session_granted_scopes, held, uncovered>>
  BY <1>8 DEF set_out_of_band_proxy, set_enforce_idempotency, set_verify_chk
<1>9. clear_idempotency_store => UNCHANGED <<session_granted_scopes, held, uncovered>>
  BY DEF clear_idempotency_store, config
<1>10. QED
  BY <1>4, <1>6, <1>7, <1>8, <1>9 DEF Host

LEMMA AnswersSteps ==
    ASSUME AnswerPremise, ConfigTypes, \A t \in Threads : Asking(t) /\ Founded(t), [Next]_vars
    PROVE  \A t \in Threads : Asking(t)' /\ Founded(t)'
<1> SUFFICES ASSUME NEW u \in Threads PROVE Asking(u)' /\ Founded(u)'
  OBVIOUS
<1>1. Asking(u) /\ Founded(u)
  OBVIOUS
<1>2. ASSUME NEW t \in Threads, EvaluateStep(t) PROVE Asking(u)' /\ Founded(u)'
  BY <1>1, <1>2, AnswersOwn, AnswersOthers
<1>3. ASSUME NEW t \in Threads, NEW r \in Requests, NEW accept, Begin(t, r, accept)
      PROVE  Asking(u)' /\ Founded(u)'
  BY <1>1, <1>3, AnswersBegin, AnswersOthers
<1>4. Host => Asking(u)' /\ Founded(u)'
  BY <1>1, AnswersHost
<1>5. ASSUME UNCHANGED <<config, pc, work, plan, memory>>
      PROVE  Asking(u)' /\ Founded(u)'
  <2>1. Asking(u)'
    BY <1>1, <1>5, AskingKept DEF config, memory
  <2>2. plan[u].error = "no_grant" => uncovered[u] = TRUE
    BY <1>1 DEF Founded
  <2>3. Founded(u)'
    BY <1>1, <1>5, <2>2, FoundedKept DEF memory
  <2>4. QED
    BY <2>1, <2>3
<1>6. QED
  BY <1>2, <1>3, <1>4, <1>5 DEF Next, vars

AnswersInv == MiddlewareInv /\ PlanTypes /\ ConfigTypes /\ SinceBegin /\ PlanFollows /\ AnswersOK

LEMMA AnswersInvariant == Spec => []AnswersInv
<1>1. MiddlewareInit => SinceBegin /\ PlanFollows /\ AnswersOK
  <2> SUFFICES ASSUME MiddlewareInit PROVE SinceBegin /\ PlanFollows /\ AnswersOK
    OBVIOUS
  <2>1. SinceBegin
    BY DEF MiddlewareInit, StoreInit, SinceBegin
  <2>2. PlanFollows
    BY Empty DEF MiddlewareInit, PlanFollows, Follows
  <2>3. MemoryTypes /\ \A t \in Threads : Asking(t)
    BY DEF MiddlewareInit, MemoryTypes, Asking
  <2>4. \A t \in Threads : plan[t].approved = <<>> /\ plan[t].error = ""
    BY Empty DEF MiddlewareInit
  <2>5. \A t \in Threads : DOMAIN plan[t].approved = {}
    BY <2>4, NothingIn
  <2>6. \A t \in Threads : Founded(t)
    BY <2>4, <2>5 DEF Founded
  <2>7. QED
    BY <2>1, <2>2, <2>3, <2>6 DEF AnswersOK
<1>2. AnswersInv /\ [Next]_vars => SinceBegin' /\ PlanFollows' /\ AnswersOK'
  <2> SUFFICES ASSUME AnswersInv, [Next]_vars PROVE SinceBegin' /\ PlanFollows' /\ AnswersOK'
    OBVIOUS
  <2> USE DEF AnswersInv, MiddlewareInv
  <2>1. SinceBegin'
    BY BeginSteps
  <2>2. PlanFollows'
    BY FollowsSteps
  <2>3. MemoryTypes'
    BY MemorySteps DEF AnswersOK
  <2>4. AnswerPremise
    BY DEF AnswerPremise, AnswersOK
  <2>5. \A t \in Threads : Asking(t)' /\ Founded(t)'
    BY <2>4, AnswersSteps DEF AnswersOK
  <2>6. QED
    BY <2>1, <2>2, <2>3, <2>5 DEF AnswersOK
<1>3. Spec => [](PlanTypes /\ ConfigTypes)
  BY InitialTypes, WorkSteps, PlanSteps, ConfigSteps, PTL DEF Spec
<1>4. QED
  BY <1>1, <1>2, <1>3, MiddlewareInvariant, PTL DEF Spec, AnswersInv

\* Default deny, under every interleaving of grants, revocations and evaluations:
\* whatever a plan approves stays inside the root and was covered, since that
\* evaluation began, by a grant to its own agent or by a token for it that had not run
\* out.
THEOREM MiddlewareApprovalsCovered == Spec => []ApprovalsCovered
<1>1. AnswersInv => ApprovalsCovered
  BY DEF AnswersInv, AnswersOK, Founded, Backed, ApprovalsCovered
<1>2. QED
  BY <1>1, AnswersInvariant, PTL

\* The three questions about one pointer each take session_mutex_ anew; still an agent
\* is denied only if no grant covered its check at some moment of that check.
THEOREM MiddlewareDenialJustified == Spec => []DenialJustified
<1>1. AnswersInv => DenialJustified
  BY DEF AnswersInv, AnswersOK, Founded, DenialJustified
<1>2. QED
  BY <1>1, AnswersInvariant, PTL
=============================================================================
