---------------------------- MODULE MCMiddleware ----------------------------
(***************************************************************************)
(* Instances of Middleware for TLC.  Two threads evaluate frames of two    *)
(* agents that share a resource; the cfg files give the bounds.            *)
(***************************************************************************)
EXTENDS Middleware, TLC

CONSTANTS t1, t2

MCThreads == {t1, t2}

a == <<"a">>
b == <<"b">>

\* One scope of each form a pointer is asked for, and a wildcard that matches
\* the tool call.
MCScopes == {Scope("read", "x"), Scope("write", "x"), Scope("*", "x")}

MCScopeMatches ==
    {<<Scope("*", "x"), Scope(v, "x")>> : v \in {"read", "write", "execute"}}

Token(sub, exp) == [genuine |-> TRUE, sub |-> sub, exp |-> exp, scope |-> Scope("*", "x")]

Check(kind, cap) == [kind |-> kind, resource |-> "x", escapes |-> FALSE, cap |-> cap]

Frame(agent, reqid, statements, healed) ==
    [agt |-> agent, reqid |-> reqid, chkOk |-> TRUE,
     statements |-> statements, healed_draft |-> healed]

\* Frames with in-band tokens, for the replay runs: two of one id, the second
\* using a token twice that may run out before either use, and another agent's.
Twin1 == Frame(a, <<"1">>, <<<<Check("tool", Token(a, 9))>>>>, <<>>)
Twin2 == Frame(a, <<"1">>, <<<<Check("tool", Token(a, 1))>>, <<Check("tool", Token(a, 1))>>>>, <<>>)
Other == Frame(b, <<"1">>, <<<<>>>>, <<>>)
Nobody == Frame(<<>>, <<"1">>, <<<<>>>>, <<>>)

ReplayRequests == {Twin1, Twin2, Other, Nobody}

\* Frames for the session's grants: a pointer and a tool call without tokens, a
\* pointer in a healed part, and the ones that evaluate() refuses early.
Plain     == Frame(a, <<"1">>, <<<<Check("pointer", NoCap), Check("tool", NoCap)>>>>, <<>>)
Healed    == Frame(b, <<"2">>, <<<<>>>>, <<<<Check("pointer", NoCap)>>>>)
Anonymous == Frame(b, <<>>, <<<<>>>>, <<>>)
Mangled   == [Frame(b, <<"3">>, <<<<>>>>, <<>>) EXCEPT !.chkOk = FALSE]
Escaping  == Frame(a, <<"2">>, <<<<[Check("tool", NoCap) EXCEPT !.escapes = TRUE]>>>>, <<>>)
Stolen    == Frame(b, <<"4">>, <<<<Check("tool", Token(a, 9))>>>>, <<>>)

Narrow    == Frame(a, <<"6">>, <<<<Check("tool", [Token(a, 9) EXCEPT !.scope = Scope("read", "x")])>>>>, <<>>)

GrantRequests == {Plain, Healed, Anonymous, Mangled, Escaping, Stolen, Narrow}

\* Two agents and two reqids whose keys are one string, "a:b:1".
Collide1 == Frame(<<"a">>, <<"b", ":", "1">>, <<<<>>>>, <<>>)
Collide2 == Frame(<<"a", ":", "b">>, <<"1">>, <<<<>>>>, <<>>)

CollidingRequests == {Collide1, Collide2}

MCAgents == {r.agt : r \in Requests}

MCKeys == {KeyOf(r) : r \in Requests}

Setup(granted, proxy, enforce) ==
    [grants |-> [agent \in Agents |-> granted], proxy |-> proxy, enforce |-> enforce, chk |-> TRUE]

ReplaySetups == {Setup({}, FALSE, TRUE)}

\* An agent that holds nothing, one that may write x, one that holds everything
\* on x; the store is in use only with the first.
GrantSetups ==
    {Setup({}, TRUE, TRUE)}
      \cup {Setup({scope}, TRUE, FALSE) : scope \in {Scope("write", "x"), Scope("*", "x")}}

ReplayOps == {"enforce", "clear"}

GrantOps == {"grant", "revoke", "proxy", "chk"}

ThreadSymmetry == Permutations(Threads)
=============================================================================
