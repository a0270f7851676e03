----------------------------- MODULE OrderedMap -----------------------------
(***************************************************************************)
(* class ordered_map of parser_v2.hpp: the keys of a statement or of a     *)
(* tool call with their values, in the order in which they first appeared. *)
(* data_ keeps the pairs; index_ keeps, for each key, its place in data_.  *)
(* Places count from 1 here and from 0 in the code.                        *)
(***************************************************************************)
EXTENDS Integers, Sequences, SequencesExt

CONSTANTS
    Keys, Values,
    EmptyString      \* the value operator[] gives a new key

ASSUME OrderedMapAssumption == EmptyString \in Values

VARIABLES
    data,            \* data_: <<[key, value], ...>>
    index            \* index_: key -> place in data_

vars == <<data, index>>

TypeOK ==
    /\ data \in Seq([key : Keys, value : Values])
    /\ index \in [DOMAIN index -> 1..Len(data)]

Init ==
    /\ data = <<>>
    /\ index = [k \in {} |-> 0]

Has(k) == k \in DOMAIN index

\* What at() and find() lead to, for a key the map has.
ValueAt(k) == data[index[k]].value

Add(k, v) ==
    /\ data' = Append(data, [key |-> k, value |-> v])
    /\ index' = [j \in DOMAIN index \cup {k} |-> IF j = k THEN Len(data) + 1 ELSE index[j]]

Overwrite(k, v) ==
    /\ data' = [data EXCEPT ![index[k]].value = v]
    /\ UNCHANGED index

MutantMovesToEnd(k, v) ==
    \/ /\ Has(k)
       /\ data' = Append(RemoveAt(data, index[k]), [key |-> k, value |-> v])
       /\ index' = [j \in DOMAIN index |->
                      IF j = k THEN Len(data)
                      ELSE IF index[j] > index[k] THEN index[j] - 1 ELSE index[j]]
    \/ ~Has(k) /\ Add(k, v)

\* insert_or_assign({k, v}); also m[k] = v, the way the parser stores a pair.
insert_or_assign(k, v) ==
    \/ Has(k) /\ Overwrite(k, v)
    \/ ~Has(k) /\ Add(k, v)

\* m[k] read without assigning: a new key gets the empty string.
subscript(k) ==
    \/ Has(k) /\ UNCHANGED vars
    \/ ~Has(k) /\ Add(k, EmptyString)

\* The pair goes, and every place behind it moves up by one.
erase(k) ==
    \/ ~Has(k) /\ UNCHANGED vars
    \/ /\ Has(k)
       /\ data' = RemoveAt(data, index[k])
       /\ index' = [j \in DOMAIN index \ {k} |->
                      IF index[j] > index[k] THEN index[j] - 1 ELSE index[j]]

clear ==
    /\ data' = <<>>
    /\ index' = [k \in {} |-> 0]

Next ==
    \/ \E k \in Keys : \/ subscript(k)
                       \/ erase(k)
                       \/ \E v \in Values : insert_or_assign(k, v)
    \/ clear

Spec == Init /\ [][Next]_vars

-----------------------------------------------------------------------------
\* index_ and data_ agree: every key of the index is at its place, and every
\* pair of data_ is the one the index knows for its key, so iteration and
\* lookup see the same map and no key appears twice.
IndexMatchesData ==
    /\ \A k \in DOMAIN index : index[k] \in DOMAIN data /\ data[index[k]].key = k
    /\ \A i \in DOMAIN data : data[i].key \in DOMAIN index /\ index[data[i].key] = i

Order == INSTANCE InsertionOrder WITH
            order <- [i \in DOMAIN data |-> data[i].key],
            value <- [k \in DOMAIN index |-> ValueAt(k)]

\* To its users ordered_map is a map that remembers the order in which its keys
\* first appeared: overwriting moves nothing, erasing keeps the order of the
\* others.
OrderSpec == Order!Spec

OwnKeyOnly ==
    \A k \in Keys :
        /\ \A v \in Values : insert_or_assign(k, v) => Order!Put(k, v)
        /\ (Has(k) /\ erase(k)) => Order!Remove(k)

\* Each operation does so to its own key: storing a value under k changes what k
\* leads to and nothing else, erasing k removes k and nothing else.
OperationsKeepToTheirKey == [][OwnKeyOnly]_vars
=============================================================================
