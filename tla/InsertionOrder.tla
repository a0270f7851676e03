--------------------------- MODULE InsertionOrder ---------------------------
(***************************************************************************)
(* A map that remembers the order in which its keys were inserted: what    *)
(* ordered_map promises the parser, the validator and the middleware.      *)
(***************************************************************************)
EXTENDS Integers, Sequences

CONSTANTS Keys, Values

VARIABLES
    order,       \* the keys, the oldest first
    value        \* key -> value

Init ==
    /\ order = <<>>
    /\ value = [k \in {} |-> 0]

\* A new key comes last; a known one stays where it is.
Put(k, v) ==
    /\ order' = IF k \in DOMAIN value THEN order ELSE Append(order, k)
    /\ value' = [j \in DOMAIN value \cup {k} |-> IF j = k THEN v ELSE value[j]]

\* The other keys keep their values and their order.
Remove(k) ==
    /\ k \in DOMAIN value
    /\ \E i \in DOMAIN order :
         /\ order[i] = k
         /\ order' = [j \in 1..(Len(order) - 1) |-> IF j < i THEN order[j] ELSE order[j + 1]]
    /\ value' = [j \in DOMAIN value \ {k} |-> value[j]]

RemoveAll ==
    /\ order' = <<>>
    /\ value' = [k \in {} |-> 0]

Next ==
    \/ \E k \in Keys : Remove(k) \/ \E v \in Values : Put(k, v)
    \/ RemoveAll

Spec == Init /\ [][Next]_<<order, value>>
=============================================================================
