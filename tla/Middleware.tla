----------------------------- MODULE Middleware -----------------------------
(***************************************************************************)
(* class LLMTOPMiddleware of middleware.hpp: threads that evaluate() parsed *)
(* frames while the host grants and revokes session capabilities, switches *)
(* the modes and clears the idempotency store.                             *)
(*                                                                         *)
(* The three mode flags are atomics that evaluate() reads where it needs   *)
(* them, some of them several times; the session grants and the store have *)
(* a mutex each, taken for one question at a time.  So one evaluation is   *)
(* a sequence of steps, one for each look at something shared, and any     *)
(* host operation may come between two of them.                            *)
(***************************************************************************)
EXTENDS IdempotencyStore, SequencesExt

CONSTANTS
    Requests,        \* the parsed frames: see MiddlewareAssumption
    Agents,          \* the agent ids the host grants to
    Scopes,          \* the scopes the host grants: [verb, resource]
    ScopeMatches,    \* the pairs <<granted, requested>> scope_matches() accepts
    AllowDelegation, \* allow_delegation_
    NoRequest,       \* what a thread that evaluates nothing works on
    NoCap,           \* a check without an in-band token
    MaxEvaluations,  \* bound: evaluations begun in a behaviour
    MaxHostOps,      \* bound: operations of the host in a behaviour
    HostMay,         \* bound: which of its operations the host uses meanwhile
    Setups           \* how the host may have set the middleware up before

VARIABLES
    session_granted_scopes,  \* agent -> scopes
    out_of_band_proxy_mode, enforce_idempotency, verify_chk,
    pc,              \* thread -> where its evaluate() stands
    work,            \* thread -> [request, accept_healed, check, scope]
    plan,            \* thread -> the ExecutionPlan
    \* What the properties need to remember; no action reads it.
    begun, hostOps,  \* the two bounded counts
    executed,        \* <<[id, at, epoch], ...>>: enforced authorizations
    epoch,           \* how often the store was cleared
    held,            \* thread -> scopes its agent held at some time so far
    uncovered,       \* thread -> no grant covered its current check at some time
    started          \* thread -> the second its evaluation began

config  == <<session_granted_scopes, out_of_band_proxy_mode, enforce_idempotency, verify_chk>>
memory  == <<begun, hostOps, executed, epoch, held, uncovered, started>>
vars    == <<storeVars, config, pc, work, plan, memory>>

-----------------------------------------------------------------------------
\* A frame is [agt, reqid, chkOk, statements, healed_draft].  An identifier is
\* a sequence of characters, for the sake of its ':' alone.  A statement is
\* the sequence of its checks: the pointer fields, then the tool calls, each
\* [kind, resource, escapes, cap] with the resource already normalized.
KeyOf(r) == r.agt \o <<":">> \o r.reqid

Identity(r) == <<r.agt, r.reqid>>

Tokens == [genuine : BOOLEAN, sub : Seq(STRING), exp : Int,
           scope : [verb : STRING, resource : STRING]]

CheckTypes == [kind : {"pointer", "tool"}, resource : STRING, escapes : BOOLEAN,
               cap : {NoCap} \cup Tokens]

ASSUME MiddlewareAssumption ==
    /\ Keys = {KeyOf(r) : r \in Requests}
    /\ \A r \in Requests :
         /\ r.agt \in Agents
         /\ FlattenSeq(r.statements) \in Seq(CheckTypes)
         /\ FlattenSeq(r.statements \o r.healed_draft) \in Seq(CheckTypes)
    /\ NoCap \notin Tokens
    /\ ScopeMatches \subseteq Scopes \X [verb : STRING, resource : STRING]
    /\ AllowDelegation \in BOOLEAN
    /\ {MaxEvaluations, MaxHostOps} \subseteq Nat
    /\ Setups \subseteq [grants : [Agents -> SUBSET Scopes], proxy : BOOLEAN,
                        enforce : BOOLEAN, chk : BOOLEAN]

Checks(w) ==
    FlattenSeq(IF w.accept_healed THEN w.request.statements \o w.request.healed_draft
                                  ELSE w.request.statements)

\* What a check asks of a token, and what it asks of the session's grants,
\* in the order it asks.
Scope(verb, resource) == [verb |-> verb, resource |-> resource]

TokenScope(c) == IF c.kind = "pointer" THEN Scope("", c.resource)
                                       ELSE Scope("execute", c.resource)

ProxyScopes(c) ==
    IF c.kind = "pointer"
    THEN <<Scope("read", c.resource), Scope("write", c.resource), Scope("", c.resource)>>
    ELSE <<Scope("execute", c.resource)>>

Grants(granted, requested) == granted = requested \/ <<granted, requested>> \in ScopeMatches

MutantAnyAgent(agent, requested) ==
    \E other \in Agents : \E granted \in session_granted_scopes[other] :
        Grants(granted, requested)

\* validate_proxy_capability(), inside one hold of session_mutex_.
ProxyAllows(agent, requested) ==
    \E granted \in session_granted_scopes[agent] : Grants(granted, requested)

MutantIgnoresExpiry(cap, requested) ==
    /\ cap.genuine
    /\ requested = Scope("", "") \/ Grants(cap.scope, requested)

\* verify(): genuine is a token of three parts, signed under a registered algorithm,
\* by the issuer and for the audience expected.
verify(cap, requested) ==
    /\ cap.genuine
    /\ cap.exp >= clock
    /\ requested = Scope("", "") \/ Grants(cap.scope, requested)

validate_capability(cap, requested, agent) ==
    /\ verify(cap, requested)
    /\ AllowDelegation \/ cap.sub = agent

EmptyPlan == [authorized |-> FALSE, approved_actions |-> 0, approved |-> <<>>, error |-> ""]

MiddlewareInit ==
    /\ StoreInit /\ clock = 0
    /\ \E setup \in Setups :
         /\ session_granted_scopes = setup.grants
         /\ out_of_band_proxy_mode = setup.proxy
         /\ enforce_idempotency = setup.enforce
         /\ verify_chk = setup.chk
    /\ pc = [t \in Threads |-> "idle"]
    /\ work = [t \in Threads |-> [request |-> NoRequest, accept_healed |-> FALSE,
                                  check |-> 1, scope |-> 1]]
    /\ plan = [t \in Threads |-> EmptyPlan]
    /\ begun = 0 /\ hostOps = 0 /\ executed = <<>> /\ epoch = 0
    /\ held = [t \in Threads |-> {}]
    /\ uncovered = [t \in Threads |-> FALSE]
    /\ started = [t \in Threads |-> 0]

-----------------------------------------------------------------------------
\* Helpers of the steps of evaluate().
agt(t) == work[t].request.agt

CurrentCheck(t) == Checks(work[t])[work[t].check]

Covered(grants, t) ==
    \E i \in DOMAIN ProxyScopes(CurrentCheck(t)), granted \in grants[agt(t)] :
        Grants(granted, ProxyScopes(CurrentCheck(t))[i])

GoTo(t, label) == pc' = [pc EXCEPT ![t] = label]

MutantGoesOn(t, error) ==
    /\ GoTo(t, "check")
    /\ plan' = [plan EXCEPT ![t].error = error]

\* An early return: error_message is set, and what the plan has approved so
\* far stays in it.
Reject(t, error) ==
    /\ GoTo(t, "idle")
    /\ plan' = [plan EXCEPT ![t].error = error]

\* The current check is authorized; the next one follows.
Approve(t) ==
    /\ GoTo(t, "check")
    /\ plan' = [plan EXCEPT ![t].approved = Append(@, CurrentCheck(t)),
                           ![t].approved_actions = @ + 1]
    /\ work' = [work EXCEPT ![t].check = @ + 1, ![t].scope = 1]

\* evaluate() is called.
Begin(t, r, accept_healed) ==
    /\ pc[t] = "idle" /\ begun < MaxEvaluations
    /\ GoTo(t, "frame")
    /\ plan' = [plan EXCEPT ![t] = EmptyPlan]
    /\ work' = [work EXCEPT ![t] = [request |-> r, accept_healed |-> accept_healed,
                                   check |-> 1, scope |-> 1]]
    /\ begun' = begun + 1
    /\ held' = [held EXCEPT ![t] = session_granted_scopes[r.agt]]
    /\ started' = [started EXCEPT ![t] = clock]
    /\ UNCHANGED <<storeVars, config, hostOps, executed, epoch, uncovered>>

MutantAsksAgain(t) ==
    /\ pc[t] = "frame"
    /\ LET r == work[t].request
       IN  \/ /\ \/ r.agt = <<>> \/ r.reqid = <<>>
                 \/ r.healed_draft # <<>> /\ ~work[t].accept_healed
              /\ Reject(t, "auth_rejected")
           \/ /\ r.agt # <<>> /\ r.reqid # <<>>
              /\ r.healed_draft = <<>> \/ work[t].accept_healed
              /\ GoTo(t, IF verify_chk /\ ~r.chkOk THEN "frame" ELSE "enforced")
              /\ UNCHANGED plan
    /\ UNCHANGED <<storeVars, config, work, memory>>

\* 1, 1b: the header, the healed statements and the checksum.
CheckFrame(t) ==
    /\ pc[t] = "frame"
    /\ LET r == work[t].request
       IN  \/ /\ \/ r.agt = <<>> \/ r.reqid = <<>>
                 \/ r.healed_draft # <<>> /\ ~work[t].accept_healed
              /\ Reject(t, "auth_rejected")
           \/ /\ r.agt # <<>> /\ r.reqid # <<>>
              /\ r.healed_draft = <<>> \/ work[t].accept_healed
              /\ IF verify_chk /\ ~r.chkOk
                 THEN Reject(t, "integrity")
                 ELSE GoTo(t, "enforced") /\ UNCHANGED plan
    /\ UNCHANGED <<storeVars, config, work, memory>>

\* 1c: the first look at the enforcement flag...
ReadEnforced(t) ==
    /\ pc[t] = "enforced"
    /\ GoTo(t, IF enforce_idempotency THEN "lookup" ELSE "check")
    /\ UNCHANGED <<storeVars, config, work, plan, memory>>

\* ... and the question to the store, under its mutex.
Lookup(t) ==
    /\ pc[t] = "lookup"
    /\ IsReplayed(t, KeyOf(work[t].request))
    /\ IF IsReplayedNow(KeyOf(work[t].request))
       THEN Reject(t, "replay_detected")
       ELSE GoTo(t, "check") /\ UNCHANGED plan
    /\ UNCHANGED <<config, work, memory>>

\* 2, 3: one pointer field or tool call.  Its resource is outside every root,
\* or its token decides, or there is neither token nor proxy mode.
DecideCheck(t) ==
    /\ pc[t] = "check" /\ work[t].check <= Len(Checks(work[t]))
    /\ LET c == CurrentCheck(t)
       IN  \/ /\ c.escapes
              /\ Reject(t, "outside_root") /\ UNCHANGED work
           \/ /\ ~c.escapes /\ c.cap # NoCap
              /\ IF validate_capability(c.cap, TokenScope(c), agt(t))
                 THEN Approve(t)
                 ELSE Reject(t, "token_refused") /\ UNCHANGED work
           \/ /\ ~c.escapes /\ c.cap = NoCap /\ ~out_of_band_proxy_mode
              /\ Reject(t, "no_capability") /\ UNCHANGED work
    /\ UNCHANGED <<storeVars, config, memory>>

\* The check is put to the session's grants.
EnterProxy(t) ==
    /\ pc[t] = "check" /\ work[t].check <= Len(Checks(work[t]))
    /\ ~CurrentCheck(t).escapes /\ CurrentCheck(t).cap = NoCap
    /\ out_of_band_proxy_mode
    /\ GoTo(t, "proxy")
    /\ uncovered' = [uncovered EXCEPT ![t] = ~Covered(session_granted_scopes, t)]
    /\ UNCHANGED <<storeVars, config, work, plan, begun, hostOps, executed, epoch, held, started>>

\* One validate_proxy_capability(): yes, or the next scope to ask for, or no.
AskProxy(t) ==
    /\ pc[t] = "proxy"
    /\ LET scopes == ProxyScopes(CurrentCheck(t))
       IN  \/ /\ ProxyAllows(agt(t), scopes[work[t].scope])
              /\ Approve(t)
           \/ /\ ~ProxyAllows(agt(t), scopes[work[t].scope])
              /\ IF work[t].scope < Len(scopes)
                 THEN work' = [work EXCEPT ![t].scope = @ + 1] /\ UNCHANGED <<pc, plan>>
                 ELSE Reject(t, "no_grant") /\ UNCHANGED work
    /\ UNCHANGED <<storeVars, config, memory>>

MutantSkipsLast(t) ==
    /\ pc[t] = "check" /\ work[t].check >= Len(Checks(work[t]))
    /\ IF enforce_idempotency
       THEN GoTo(t, "record") /\ UNCHANGED plan
       ELSE GoTo(t, "idle") /\ plan' = [plan EXCEPT ![t].authorized = TRUE]
    /\ UNCHANGED <<storeVars, config, work, memory>>

\* Every check passed; the second look at the enforcement flag.
Consume(t) ==
    /\ pc[t] = "check" /\ work[t].check > Len(Checks(work[t]))
    /\ IF enforce_idempotency
       THEN GoTo(t, "record") /\ UNCHANGED plan
       ELSE GoTo(t, "idle") /\ plan' = [plan EXCEPT ![t].authorized = TRUE]
    /\ UNCHANGED <<storeVars, config, work, memory>>

\* record_request() begins, works and returns; the switch on its result ends
\* the evaluation.
CallRecord(t) ==
    /\ pc[t] = "record"
    /\ BeginRecord(t, KeyOf(work[t].request))
    /\ GoTo(t, "recording")
    /\ UNCHANGED <<config, work, plan, memory>>

Pruning(t) ==
    /\ PruneExpired(t) \/ EndPrune(t)
    /\ UNCHANGED <<config, pc, work, plan, memory>>

Authorize(t) ==
    /\ AnswerRecorded(t)
    /\ GoTo(t, "idle")
    /\ plan' = [plan EXCEPT ![t].authorized = TRUE]
    /\ executed' = Append(executed,
                         [id |-> Identity(work[t].request), at |-> clock, epoch |-> epoch])
    /\ UNCHANGED <<config, work, begun, hostOps, epoch, held, uncovered, started>>

RefuseRecord(t) ==
    /\ GoTo(t, "idle")
    /\ \/ AnswerReplay(t) /\ plan' = [plan EXCEPT ![t].approved_actions = 0,
                                                  ![t].error = "replay_detected"]
       \/ AnswerCapacityExceeded(t) /\ plan' = [plan EXCEPT ![t].approved_actions = 0,
                                                            ![t].error = "at_capacity"]
    /\ UNCHANGED <<config, work, memory>>

EvaluateStep(t) ==
    \/ CheckFrame(t) \/ ReadEnforced(t) \/ Lookup(t)
    \/ DecideCheck(t) \/ EnterProxy(t) \/ AskProxy(t)
    \/ Consume(t) \/ CallRecord(t) \/ Pruning(t) \/ Authorize(t) \/ RefuseRecord(t)

-----------------------------------------------------------------------------
\* The host.
HostOp(name) ==
    /\ name \in HostMay
    /\ hostOps < MaxHostOps
    /\ hostOps' = hostOps + 1
    /\ UNCHANGED <<pc, work, plan, begun, executed, started>>

\* A thread in proxy mode learns that no grant covers its check any more.
NoteUncovered ==
    uncovered' = [t \in Threads |->
        uncovered[t] \/ (pc[t] = "proxy" /\ ~Covered(session_granted_scopes', t))]

grant_session_capability(agent, scope) ==
    /\ HostOp("grant")
    /\ session_granted_scopes' = [session_granted_scopes EXCEPT ![agent] = @ \cup {scope}]
    /\ held' = [t \in Threads |->
         IF pc[t] # "idle" /\ agt(t) = agent THEN held[t] \cup {scope} ELSE held[t]]
    /\ NoteUncovered
    /\ UNCHANGED <<storeVars, out_of_band_proxy_mode, enforce_idempotency, verify_chk, epoch>>

MutantRevokesOne(agent) ==
    /\ HostOp("revoke")
    /\ \E scope \in session_granted_scopes[agent] :
         session_granted_scopes' = [session_granted_scopes EXCEPT ![agent] = @ \ {scope}]
    /\ NoteUncovered
    /\ UNCHANGED <<storeVars, out_of_band_proxy_mode, enforce_idempotency, verify_chk, epoch, held>>

revoke_session_capabilities(agent) ==
    /\ HostOp("revoke")
    /\ session_granted_scopes' = [session_granted_scopes EXCEPT ![agent] = {}]
    /\ NoteUncovered
    /\ UNCHANGED <<storeVars, out_of_band_proxy_mode, enforce_idempotency, verify_chk, epoch, held>>

set_out_of_band_proxy(enable) ==
    /\ HostOp("proxy")
    /\ out_of_band_proxy_mode' = enable
    /\ UNCHANGED <<storeVars, session_granted_scopes, enforce_idempotency, verify_chk,
                   epoch, held, uncovered>>

set_enforce_idempotency(enable) ==
    /\ HostOp("enforce")
    /\ enforce_idempotency' = enable
    /\ UNCHANGED <<storeVars, session_granted_scopes, out_of_band_proxy_mode, verify_chk,
                   epoch, held, uncovered>>

set_verify_chk(enable) ==
    /\ HostOp("chk")
    /\ verify_chk' = enable
    /\ UNCHANGED <<storeVars, session_granted_scopes, out_of_band_proxy_mode,
                   enforce_idempotency, epoch, held, uncovered>>

clear_idempotency_store ==
    /\ HostOp("clear")
    /\ Clear
    /\ epoch' = epoch + 1
    /\ UNCHANGED <<config, held, uncovered>>

Host ==
    \/ \E agent \in Agents, scope \in Scopes : grant_session_capability(agent, scope)
    \/ \E agent \in Agents : revoke_session_capabilities(agent)
    \/ \E enable \in BOOLEAN : \/ set_out_of_band_proxy(enable)
                               \/ set_enforce_idempotency(enable)
                               \/ set_verify_chk(enable)
    \/ clear_idempotency_store

\* The flag is looked at only for a frame with a draft of healed statements.
AcceptHealed(r) == IF r.healed_draft = <<>> THEN {FALSE} ELSE BOOLEAN

Next ==
    \/ \E t \in Threads :
          \/ EvaluateStep(t)
          \/ \E r \in Requests : \E accept_healed \in AcceptHealed(r) : Begin(t, r, accept_healed)
    \/ Host
    \/ Tick /\ UNCHANGED <<config, pc, work, plan, memory>>

Spec == MiddlewareInit /\ [][Next]_vars

\* A thread inside evaluate() keeps running: it waits for nobody but the
\* holder of a mutex, which is such a thread or a host operation of one step.
FairSpec == Spec /\ \A t \in Threads : WF_vars(EvaluateStep(t))

-----------------------------------------------------------------------------
\* Typing of what evaluate() and the host keep; and an authorized plan never
\* carries an error (the fuzzer's invariant 1).
MiddlewareTypeOK ==
    /\ TypeOK
    /\ session_granted_scopes \in [Agents -> SUBSET Scopes]
    /\ {out_of_band_proxy_mode, enforce_idempotency, verify_chk} \subseteq BOOLEAN
    /\ pc \in [Threads -> {"idle", "frame", "enforced", "lookup", "check", "proxy",
                           "record", "recording"}]
    /\ \A t \in Threads :
         /\ work[t].request \in Requests \cup {NoRequest}
         /\ pc[t] # "idle" => work[t].request \in Requests
         /\ pc[t] = "recording" <=> call[t].op # "none"
         /\ plan[t].authorized => plan[t].error = ""

\* Exactly-once execution: under enforcement, two evaluations of one
\* (agent, reqid) are both authorized only if ttl_seconds_ passed between them
\* or the host cleared the store, whatever the threads do between is_replayed()
\* and record_request().
AtMostOncePerTtl ==
    \A i, j \in DOMAIN executed :
        /\ i < j
        /\ executed[i].id = executed[j].id
        /\ executed[i].epoch = executed[j].epoch
        => executed[j].at - executed[i].at >= TtlSeconds

\* A saturated store fails closed: the guard of an authorized request stays for
\* ttl_seconds_, however many other requests arrive.
ExecutedIsGuarded ==
    \A i \in DOMAIN executed :
        executed[i].epoch = epoch /\ clock - executed[i].at < TtlSeconds
            => \E r \in Requests : /\ Identity(r) = executed[i].id
                                  /\ KeyOf(r) \in DOMAIN seen_requests
                                  /\ seen_requests[KeyOf(r)] = executed[i].at

\* A rejected request does not burn its reqid: every guard in the store is that
\* of a request that was authorized at that second.
GuardedWasExecuted ==
    \A k \in DOMAIN seen_requests :
        \E i \in DOMAIN executed, r \in Requests :
            /\ KeyOf(r) = k
            /\ executed[i].id = Identity(r)
            /\ executed[i].at = seen_requests[k]

\* "tracks executed (agent_id, reqid) tuples" (README.md): an evaluation is
\* rejected as a replay only when the same agent's same reqid was authorized
\* and its guard had not run out when the evaluation began.
ReplayRefusalJustified ==
    \A t \in Threads :
        plan[t].error = "replay_detected"
            => \E i \in DOMAIN executed :
                 /\ executed[i].id = Identity(work[t].request)
                 /\ started[t] - executed[i].at < TtlSeconds

\* Default deny, under concurrent grants and revocations: whatever a plan
\* approves stays inside the root and was covered, since that evaluation began,
\* by a grant to its own agent or by a token for it that had not run out; so a
\* capability revoked before the call authorizes nothing in it.
ApprovalsCovered ==
    \A t \in Threads : \A i \in DOMAIN plan[t].approved :
        LET c == plan[t].approved[i]
        IN  /\ ~c.escapes
            /\ \/ /\ c.cap = NoCap
                  /\ \E granted \in held[t], j \in DOMAIN ProxyScopes(c) :
                       Grants(granted, ProxyScopes(c)[j])
               \/ /\ c.cap # NoCap
                  /\ c.cap.genuine /\ c.cap.exp >= started[t]
                  /\ TokenScope(c) = Scope("", "") \/ Grants(c.cap.scope, TokenScope(c))
                  /\ AllowDelegation \/ c.cap.sub = agt(t)

\* The three questions about one pointer each take session_mutex_ anew.  Still
\* a denial is never an artefact of grants that moved between them: at some
\* moment of the check no grant of the agent covered it.  It rests on
\* revocation being total; dropping single scopes would break it.
DenialJustified ==
    \A t \in Threads : plan[t].error = "no_grant" => uncovered[t]

\* An authorized plan approves every check of every statement it was to
\* execute, in order, and healed ones only if the caller accepted them.
AuthorizedIsComplete ==
    \A t \in Threads : plan[t].authorized =>
        /\ plan[t].approved = Checks(work[t])
        /\ plan[t].approved_actions = Len(plan[t].approved)
        /\ work[t].request.healed_draft # <<>> => work[t].accept_healed

\* "A rejected plan approves nothing" (fuzzer.cpp, invariant 2), "carries no
\* approved entries at all" (test_middleware.cpp): what the early returns of
\* evaluate() leave in approved_pointers and approved_tools.
RejectedApprovesNothing ==
    \A t \in Threads : plan[t].error # "" => plan[t].approved = <<>>

\* No evaluation waits for ever on a mutex, on another evaluation or on itself.
EveryEvaluationReturns ==
    \A t \in Threads : pc[t] # "idle" ~> pc[t] = "idle"
=============================================================================
