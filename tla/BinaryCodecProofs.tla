------------------------- MODULE BinaryCodecProofs -------------------------
(***************************************************************************)
(* Theorems about ordered_map, for any keys and values, and about the      *)
(* binary format, for any messages: what encode_header() and               *)
(* encode_statement() write, decode_header() and decode_statement() read   *)
(* back; of a buffer that was cut short they read what was put first, or   *)
(* refuse it; and on no bytes do they leave the buffer.                    *)
(*                                                                         *)
(* The facts about ordered_map, which come first, use no assumption but    *)
(* OrderedMapAssumption.                                                   *)
(***************************************************************************)
EXTENDS BinaryCodec, SequenceTheorems, Extremes

\* An item of a sequence over S is in S.
LEMMA ItemOfSeq ==
    ASSUME NEW S, NEW s \in Seq(S), NEW i \in DOMAIN s PROVE s[i] \in S
OBVIOUS

\* Erasing position i of a sequence moves what is behind it up by one.
LEMMA RemoveAtProperties ==
    ASSUME NEW S, NEW s \in Seq(S), NEW i \in 1..Len(s)
    PROVE  /\ RemoveAt(s, i) \in Seq(S)
           /\ Len(RemoveAt(s, i)) = Len(s) - 1
           /\ \A j \in 1..(Len(s) - 1) :
                RemoveAt(s, i)[j] = IF j < i THEN s[j] ELSE s[j + 1]
<1> DEFINE front == SubSeq(s, 1, i - 1)
           back  == SubSeq(s, i + 1, Len(s))
<1>1. Len(s) \in Nat /\ i \in Nat /\ 1 <= i /\ i <= Len(s)
  OBVIOUS
<1>2. front \in Seq(S) /\ Len(front) = i - 1 /\ \A j \in 1..(i - 1) : front[j] = s[j]
  BY <1>1
<1>3. back \in Seq(S) /\ Len(back) = Len(s) - i /\ \A j \in 1..(Len(s) - i) : back[j] = s[i + j]
  BY <1>1
<1>4. RemoveAt(s, i) = front \o back
  BY DEF RemoveAt
<1> HIDE DEF front, back
<1>5. RemoveAt(s, i) \in Seq(S) /\ Len(RemoveAt(s, i)) = Len(s) - 1
  BY <1>1, <1>2, <1>3, <1>4
<1>6. ASSUME NEW j \in 1..(Len(s) - 1)
      PROVE  RemoveAt(s, i)[j] = IF j < i THEN s[j] ELSE s[j + 1]
  <2>1. CASE j < i
    BY <1>1, <1>2, <1>3, <1>4, <2>1
  <2>2. CASE j >= i
    <3>1. RemoveAt(s, i)[j] = back[j - (i - 1)] /\ j - (i - 1) \in 1..(Len(s) - i)
      BY <1>1, <1>2, <1>3, <1>4, <2>2
    <3>2. QED
      BY <1>1, <1>3, <2>2, <3>1
  <2>3. QED
    BY <1>1, <2>1, <2>2
<1>7. QED
  BY <1>5, <1>6

\* The inductive invariant: IndexMatchesData needs no strengthening but types.
\* Of which sets the keys and the values are does not matter to it.
MapTyped(K, V) ==
    /\ data \in Seq([key : K, value : V])
    /\ index \in [DOMAIN index -> 1..Len(data)]

MapInv(K, V) == MapTyped(K, V) /\ IndexMatchesData

\* A new key is added behind all others.
LEMMA AddPreserves ==
    ASSUME NEW K, NEW V, MapInv(K, V), NEW k \in K, NEW v \in V, ~Has(k), Add(k, v)
    PROVE  MapInv(K, V)'
<1> DEFINE pair == [key |-> k, value |-> v]
<1>1. /\ Len(data) \in Nat /\ DOMAIN data = 1..Len(data)
      /\ data' = Append(data, pair) /\ data' \in Seq([key : K, value : V])
      /\ Len(data') = Len(data) + 1 /\ DOMAIN data' = 1..(Len(data) + 1)
      /\ \A i \in DOMAIN data : data'[i] = data[i]
      /\ data'[Len(data) + 1].key = k
  BY DEF MapInv, MapTyped, Add
<1>2. /\ index' = [j \in DOMAIN index \cup {k} |-> IF j = k THEN Len(data) + 1 ELSE index[j]]
      /\ k \notin DOMAIN index
      /\ \A j \in DOMAIN index : index[j] \in 1..Len(data)
  BY DEF MapInv, MapTyped, Add, Has
<1>3. MapTyped(K, V)'
  BY <1>1, <1>2 DEF MapTyped
<1>4. ASSUME NEW j \in DOMAIN index'
      PROVE  index'[j] \in DOMAIN data' /\ data'[index'[j]].key = j
  BY <1>1, <1>2 DEF MapInv, IndexMatchesData
<1>5. ASSUME NEW i \in DOMAIN data'
      PROVE  data'[i].key \in DOMAIN index' /\ index'[data'[i].key] = i
  <2>1. CASE i \in DOMAIN data
    BY <1>1, <1>2, <2>1 DEF MapInv, IndexMatchesData
  <2>2. CASE i = Len(data) + 1
    BY <1>1, <1>2, <2>2
  <2>3. QED
    BY <1>1, <2>1, <2>2
<1>6. QED
  BY <1>3, <1>4, <1>5 DEF MapInv, IndexMatchesData

\* Overwriting a value moves nothing.
LEMMA OverwritePreserves ==
    ASSUME NEW K, NEW V, MapInv(K, V), NEW k \in K, NEW v \in V, Has(k), Overwrite(k, v)
    PROVE  MapInv(K, V)'
<1>1. /\ index[k] \in DOMAIN data /\ DOMAIN data = 1..Len(data) /\ Len(data) \in Nat
      /\ data' = [data EXCEPT ![index[k]].value = v] /\ index' = index
  BY DEF MapInv, IndexMatchesData, MapTyped, Has, Overwrite
<1>2. /\ data' \in Seq([key : K, value : V]) /\ Len(data') = Len(data)
      /\ DOMAIN data' = DOMAIN data
      /\ \A i \in DOMAIN data : data'[i].key = data[i].key
  <2> DEFINE pair == [data[index[k]] EXCEPT !.value = v]
  <2>1. data' = [data EXCEPT ![index[k]] = pair]
    BY <1>1
  <2>2. data \in Seq([key : K, value : V])
    BY DEF MapInv, MapTyped
  <2>3. data[index[k]] \in [key : K, value : V]
    BY <1>1, <2>2, ItemOfSeq
  <2>4. pair \in [key : K, value : V] /\ pair.key = data[index[k]].key
    BY <2>3
  <2> HIDE DEF pair
  <2>5. data' \in Seq([key : K, value : V]) /\ Len(data') = Len(data)
    BY <1>1, <2>1, <2>2, <2>4
  <2>6. DOMAIN data' = DOMAIN data
    BY <2>1
  <2>7. ASSUME NEW i \in DOMAIN data PROVE data'[i].key = data[i].key
    BY <1>1, <2>1, <2>4
  <2>8. QED
    BY <2>5, <2>6, <2>7
<1>3. QED
  BY <1>1, <1>2 DEF MapInv, MapTyped, IndexMatchesData

\* erase() removes one pair and renumbers the rest.
LEMMA ErasePreserves ==
    ASSUME NEW K, NEW V, MapInv(K, V), NEW k \in K, Has(k), erase(k)
    PROVE  /\ MapInv(K, V)'
           /\ Len(data') = Len(data) - 1
           /\ \A i \in DOMAIN data' :
                data'[i] = IF i < index[k] THEN data[i] ELSE data[i + 1]
<1> DEFINE p == index[k]
<1>1. /\ Len(data) \in Nat /\ DOMAIN data = 1..Len(data) /\ p \in 1..Len(data)
      /\ data \in Seq([key : K, value : V]) /\ data[p].key = k
      /\ data' = RemoveAt(data, p)
      /\ index' = [j \in DOMAIN index \ {k} |-> IF index[j] > p THEN index[j] - 1 ELSE index[j]]
  BY DEF MapInv, IndexMatchesData, MapTyped, Has, erase
<1>2. /\ data' \in Seq([key : K, value : V])
      /\ Len(data') = Len(data) - 1
      /\ DOMAIN data' = 1..(Len(data) - 1)
      /\ \A i \in DOMAIN data' : data'[i] = IF i < p THEN data[i] ELSE data[i + 1]
  <2>1. /\ RemoveAt(data, p) \in Seq([key : K, value : V])
        /\ Len(RemoveAt(data, p)) = Len(data) - 1
        /\ \A j \in 1..(Len(data) - 1) :
             RemoveAt(data, p)[j] = IF j < p THEN data[j] ELSE data[j + 1]
    BY <1>1, RemoveAtProperties
  <2>2. QED
    BY <1>1, <2>1
<1> HIDE DEF p
<1>3. \A j \in DOMAIN index \ {k} : index[j] \in 1..Len(data) /\ index[j] # p /\
      data[index[j]].key = j
  BY <1>1 DEF MapInv, IndexMatchesData
<1>4. ASSUME NEW j \in DOMAIN index'
      PROVE  index'[j] \in DOMAIN data' /\ data'[index'[j]].key = j
  <2>1. CASE index[j] > p
    BY <1>1, <1>2, <1>3, <2>1
  <2>2. CASE index[j] < p
    BY <1>1, <1>2, <1>3, <2>2
  <2>3. QED
    BY <1>1, <1>3, <2>1, <2>2
<1>5. ASSUME NEW i \in DOMAIN data'
      PROVE  data'[i].key \in DOMAIN index' /\ index'[data'[i].key] = i
  <2>1. CASE i < p
    <3>1. i \in DOMAIN data /\ data'[i] = data[i]
      BY <1>1, <1>2, <2>1
    <3>2. data[i].key \in DOMAIN index /\ index[data[i].key] = i
      BY <3>1 DEF MapInv, IndexMatchesData
    <3>3. data[i].key # k
      BY <1>1, <2>1, <3>2 DEF p
    <3>4. QED
      BY <1>1, <1>2, <2>1, <3>1, <3>2, <3>3
  <2>2. CASE i >= p
    <3>1. i + 1 \in DOMAIN data /\ data'[i] = data[i + 1]
      BY <1>1, <1>2, <2>2
    <3>2. data[i + 1].key \in DOMAIN index /\ index[data[i + 1].key] = i + 1
      BY <3>1 DEF MapInv, IndexMatchesData
    <3>3. data[i + 1].key # k
      BY <1>1, <1>2, <2>2, <3>2 DEF p
    <3>4. QED
      BY <1>1, <1>2, <2>2, <3>1, <3>2, <3>3
  <2>3. QED
    BY <1>1, <1>2, <2>1, <2>2
<1>6. MapTyped(K, V)'
  BY <1>1, <1>2, <1>4 DEF MapTyped
<1>7. QED
  BY <1>2, <1>4, <1>5, <1>6 DEF MapInv, IndexMatchesData, p

\* The operations of the map keep it.
LEMMA OperationsPreserve == MapInv(Keys, Values) /\ [Next]_vars => MapInv(Keys, Values)'
<1> SUFFICES ASSUME MapInv(Keys, Values), [Next]_vars PROVE MapInv(Keys, Values)'
  OBVIOUS
<1>1. CASE UNCHANGED vars
  BY <1>1 DEF vars, MapInv, MapTyped, IndexMatchesData
<1>2. CASE clear
  BY <1>2 DEF clear, MapInv, MapTyped, IndexMatchesData
<1>3. ASSUME NEW k \in Keys, subscript(k) PROVE MapInv(Keys, Values)'
  BY <1>1, <1>3, AddPreserves, OrderedMapAssumption DEF subscript
<1>4. ASSUME NEW k \in Keys, NEW v \in Values, insert_or_assign(k, v) PROVE MapInv(Keys, Values)'
  BY <1>4, AddPreserves, OverwritePreserves DEF insert_or_assign
<1>5. ASSUME NEW k \in Keys, erase(k) PROVE MapInv(Keys, Values)'
  <2>1. CASE Has(k)
    BY <1>5, <2>1, ErasePreserves
  <2>2. CASE ~Has(k)
    BY <1>1, <1>5, <2>2 DEF erase
  <2>3. QED
    BY <2>1, <2>2
<1>6. QED
  BY <1>1, <1>2, <1>3, <1>4, <1>5 DEF Next

\* The index and the deque agree in every reachable state: MapInv(Keys, Values) is inductive.
LEMMA MapInvariant == Spec => []MapInv(Keys, Values)
<1>1. Init => MapInv(Keys, Values)
  BY DEF Init, MapInv, MapTyped, IndexMatchesData
<1>2. QED
  BY <1>1, OperationsPreserve, PTL DEF Spec

\* Lookup through the index and iteration over the deque agree in every
\* reachable state, after any sequence of insertions, overwrites and erasures.
THEOREM MapIndexMatchesData == Spec => []IndexMatchesData
BY MapInvariant, PTL DEF MapInv

-----------------------------------------------------------------------------
\* The mapped state: the keys of data_ in their order, and the value that each
\* key of index_ leads to.
OrderOf == [i \in DOMAIN data |-> data[i].key]
ValueOf == [k \in DOMAIN index |-> ValueAt(k)]

\* Inserting a new key puts it last.
LEMMA AddIsPut ==
    ASSUME MapInv(Keys, Values), MapInv(Keys, Values)', NEW k \in Keys, NEW v \in Values,
           ~Has(k), Add(k, v)
    PROVE  Order!Put(k, v)
<1>1. /\ Len(data) \in Nat /\ DOMAIN data = 1..Len(data)
      /\ data' = Append(data, [key |-> k, value |-> v])
      /\ Len(data') = Len(data) + 1 /\ DOMAIN data' = 1..(Len(data) + 1)
      /\ \A i \in DOMAIN data : data'[i] = data[i]
      /\ data'[Len(data) + 1] = [key |-> k, value |-> v]
  BY DEF MapInv, MapTyped, Add
<1>2. /\ index' = [j \in DOMAIN index \cup {k} |-> IF j = k THEN Len(data) + 1 ELSE index[j]]
      /\ k \notin DOMAIN index
      /\ \A j \in DOMAIN index : index[j] \in DOMAIN data
  BY DEF MapInv, IndexMatchesData, Add, Has
<1>3. OrderOf' = Append(OrderOf, k)
  <2>1. OrderOf \in Seq(Keys) /\ Len(OrderOf) = Len(data)
    <3>1. ASSUME NEW i \in DOMAIN data PROVE data[i].key \in Keys
      <4>1. data \in Seq([key : Keys, value : Values])
        BY DEF MapInv, MapTyped
      <4>2. data[i] \in [key : Keys, value : Values]
        BY <4>1, ItemOfSeq
      <4>3. QED
        BY <4>2
    <3>2. QED
      BY <1>1, <3>1 DEF OrderOf
  <2>2. DOMAIN OrderOf' = DOMAIN Append(OrderOf, k)
    BY <1>1, <2>1 DEF OrderOf
  <2>3. ASSUME NEW i \in DOMAIN OrderOf'
        PROVE  OrderOf'[i] = Append(OrderOf, k)[i]
    <3>1. CASE i \in DOMAIN data
      BY <1>1, <2>1, <3>1 DEF OrderOf
    <3>2. CASE i = Len(data) + 1
      BY <1>1, <2>1, <3>2 DEF OrderOf
    <3>3. QED
      BY <1>1, <3>1, <3>2 DEF OrderOf
  <2>4. OrderOf' \in Seq(Keys)
    <3>1. ASSUME NEW i \in DOMAIN data' PROVE data'[i].key \in Keys
      <4>1. data' \in Seq([key : Keys, value : Values])
        BY DEF MapInv, MapTyped
      <4>2. data'[i] \in [key : Keys, value : Values]
        BY <4>1, ItemOfSeq
      <4>3. QED
        BY <4>2
    <3>2. QED
      BY <1>1, <3>1 DEF OrderOf
  <2>5. QED
    BY <2>1, <2>2, <2>3, <2>4
<1>4. ValueOf' = [j \in DOMAIN ValueOf \cup {k} |-> IF j = k THEN v ELSE ValueOf[j]]
  BY <1>1, <1>2 DEF ValueOf, ValueAt
<1>5. k \notin DOMAIN ValueOf
  BY <1>2 DEF ValueOf
<1>6. QED
  BY <1>3, <1>4, <1>5 DEF Order!Put, OrderOf, ValueOf

\* Overwriting changes one value and no place.
LEMMA OverwriteIsPut ==
    ASSUME MapInv(Keys, Values), NEW k \in Keys, NEW v \in Values, Has(k), Overwrite(k, v)
    PROVE  Order!Put(k, v)
<1>1. /\ k \in DOMAIN index /\ index[k] \in DOMAIN data
      /\ data' = [data EXCEPT ![index[k]].value = v] /\ index' = index
      /\ \A i \in DOMAIN data : data[i] \in [key : Keys, value : Values]
      /\ \A j \in DOMAIN index : index[j] \in DOMAIN data /\ data[index[j]].key = j
  BY ItemOfSeq DEF MapInv, IndexMatchesData, MapTyped, Has, Overwrite
<1>2. /\ DOMAIN data' = DOMAIN data
      /\ \A i \in DOMAIN data : i # index[k] => data'[i] = data[i]
      /\ data'[index[k]].key = data[index[k]].key /\ data'[index[k]].value = v
  BY <1>1
<1>3. OrderOf' = OrderOf
  BY <1>1, <1>2 DEF OrderOf
<1>4. \A j \in DOMAIN index : j # k => index[j] # index[k]
  BY <1>1
<1>5. ValueOf' = [j \in DOMAIN ValueOf \cup {k} |-> IF j = k THEN v ELSE ValueOf[j]]
  BY <1>1, <1>2, <1>4 DEF ValueOf, ValueAt
<1>6. k \in DOMAIN ValueOf
  BY <1>1 DEF ValueOf
<1>7. QED
  BY <1>3, <1>5, <1>6 DEF Order!Put, OrderOf, ValueOf

\* Erasing a key keeps the order and the values of the others.
LEMMA EraseIsRemove ==
    ASSUME MapInv(Keys, Values), NEW k \in Keys, Has(k), erase(k)
    PROVE  Order!Remove(k)
<1> DEFINE p == index[k]
<1>1. /\ Len(data) \in Nat /\ DOMAIN data = 1..Len(data) /\ p \in 1..Len(data)
      /\ data[p].key = k /\ k \in DOMAIN index
      /\ index' = [j \in DOMAIN index \ {k} |-> IF index[j] > p THEN index[j] - 1 ELSE index[j]]
      /\ \A j \in DOMAIN index : index[j] \in 1..Len(data) /\ data[index[j]].key = j
  BY DEF MapInv, IndexMatchesData, MapTyped, Has, erase
<1>2. /\ Len(data') = Len(data) - 1
      /\ data' \in Seq([key : Keys, value : Values])
      /\ \A i \in DOMAIN data' : data'[i] = IF i < p THEN data[i] ELSE data[i + 1]
  BY ErasePreserves DEF MapInv, MapTyped
<1>3. DOMAIN data' = 1..(Len(data) - 1)
  BY <1>1, <1>2
<1> HIDE DEF p
<1>4. OrderOf' = [j \in 1..(Len(OrderOf) - 1) |-> IF j < p THEN OrderOf[j] ELSE OrderOf[j + 1]]
  <2>1. Len(OrderOf) = Len(data)
    BY <1>1 DEF OrderOf
  <2>2. \A j \in 1..(Len(data) - 1) : j \in DOMAIN data /\ j + 1 \in DOMAIN data
    BY <1>1
  <2>3. QED
    BY <1>1, <1>2, <1>3, <2>1, <2>2 DEF OrderOf
<1>5. ASSUME NEW j \in DOMAIN index, j # k
      PROVE  data'[index'[j]].value = data[index[j]].value
  <2>1. index[j] # p /\ index[j] \in 1..Len(data) /\ p \in 1..Len(data)
    BY <1>1, <1>5
  <2>2. CASE index[j] > p
    BY <1>1, <1>2, <1>3, <1>5, <2>1, <2>2
  <2>3. CASE index[j] < p
    BY <1>1, <1>2, <1>3, <1>5, <2>1, <2>3
  <2>4. QED
    BY <1>1, <2>1, <2>2, <2>3
<1>6. ValueOf' = [j \in DOMAIN ValueOf \ {k} |-> ValueOf[j]]
  BY <1>1, <1>5 DEF ValueOf, ValueAt
<1>7. k \in DOMAIN ValueOf /\ p \in DOMAIN OrderOf /\ OrderOf[p] = k
  BY <1>1 DEF ValueOf, OrderOf
<1>8. QED
  BY <1>4, <1>6, <1>7 DEF Order!Remove, OrderOf, ValueOf

\* ordered_map is a map that remembers insertion order: for every sequence of
\* operations the pairs and the index act together as InsertionOrder says.
THEOREM MapImplementsInsertionOrder == Spec => OrderSpec
<1>1. Init => Order!Init
  BY DEF Init, Order!Init
<1>2. MapInv(Keys, Values) /\ MapInv(Keys, Values)' /\ [Next]_vars
        => [Order!Next]_<<OrderOf, ValueOf>>
  <2> SUFFICES ASSUME MapInv(Keys, Values), MapInv(Keys, Values)', [Next]_vars
               PROVE  [Order!Next]_<<OrderOf, ValueOf>>
    OBVIOUS
  <2>1. CASE UNCHANGED vars
    BY <2>1 DEF vars, OrderOf, ValueOf, ValueAt
  <2>2. CASE clear
    <3>1. Order!RemoveAll
      BY <2>2 DEF clear, Order!RemoveAll
    <3>2. QED
      BY <3>1 DEF Order!Next
  <2>3. ASSUME NEW k \in Keys, subscript(k) PROVE [Order!Next]_<<OrderOf, ValueOf>>
    <3>1. CASE Has(k)
      BY <2>1, <2>3, <3>1 DEF subscript
    <3>2. CASE ~Has(k)
      <4>1. Order!Put(k, EmptyString)
        BY <2>3, <3>2, AddIsPut, OrderedMapAssumption DEF subscript
      <4>2. QED
        BY <4>1, OrderedMapAssumption DEF Order!Next
    <3>3. QED
      BY <3>1, <3>2
  <2>4. ASSUME NEW k \in Keys, NEW v \in Values, insert_or_assign(k, v)
        PROVE  [Order!Next]_<<OrderOf, ValueOf>>
    <3>1. Order!Put(k, v)
      BY <2>4, AddIsPut, OverwriteIsPut DEF insert_or_assign
    <3>2. QED
      BY <3>1 DEF Order!Next
  <2>5. ASSUME NEW k \in Keys, erase(k) PROVE [Order!Next]_<<OrderOf, ValueOf>>
    <3>1. CASE Has(k)
      <4>1. Order!Remove(k)
        BY <2>5, <3>1, EraseIsRemove
      <4>2. QED
        BY <4>1 DEF Order!Next
    <3>2. CASE ~Has(k)
      BY <2>1, <2>5, <3>2 DEF erase
    <3>3. QED
      BY <3>1, <3>2
  <2>6. QED
    BY <2>1, <2>2, <2>3, <2>4, <2>5 DEF Next
<1>3. QED
  BY <1>1, <1>2, MapInvariant, PTL DEF Spec, OrderSpec, Order!Spec, OrderOf, ValueOf

\* Storing a value under a key, or erasing a key, does so to that key alone.
THEOREM MapOperationsKeepToTheirKey == Spec => OperationsKeepToTheirKey
<1>1. MapInv(Keys, Values) /\ MapInv(Keys, Values)' => OwnKeyOnly
  BY AddIsPut, OverwriteIsPut, EraseIsRemove DEF insert_or_assign, OwnKeyOnly
<1>2. QED
  BY <1>1, MapInvariant, PTL DEF Spec, OperationsKeepToTheirKey

-----------------------------------------------------------------------------
(* Sequences of texts, one behind the other.                               *)

\* f[i] is the first i of ss put together.
Joins(f, ss) == \A i \in 1..Len(ss) : f[i] = IF i = 1 THEN ss[i] ELSE f[i - 1] \o ss[i]

LEMMA JoinsExist ==
    ASSUME NEW B, NEW ss \in Seq(Seq(B))
    PROVE  \E f \in [1..Len(ss) -> Seq(B)] : Joins(f, ss)
<1> DEFINE n == Len(ss)
           Upto(f, k) == \A i \in 1..k : f[i] = IF i = 1 THEN ss[i] ELSE f[i - 1] \o ss[i]
           S == {k \in 0..n : \E f \in [1..k -> Seq(B)] : Upto(f, k)}
<1>1. n \in Nat /\ \A i \in 1..n : ss[i] \in Seq(B)
  BY LenProperties, ElementOfSeq
<1> HIDE DEF n
<1>2. 0 \in S
  <2> DEFINE f == [i \in 1..0 |-> <<>>]
  <2>1. f \in [1..0 -> Seq(B)] /\ Upto(f, 0)
    OBVIOUS
  <2> HIDE DEF f
  <2>2. \E g \in [1..0 -> Seq(B)] : Upto(g, 0)
    BY <2>1
  <2>3. 0 \in 0..n
    BY <1>1
  <2>4. QED
    BY <2>2, <2>3
<1>3. ASSUME NEW k \in 1..n, k - 1 \in S PROVE k \in S
  <2>1. PICK f \in [1..(k - 1) -> Seq(B)] : Upto(f, k - 1)
    BY <1>3
  <2> DEFINE new == IF k = 1 THEN ss[k] ELSE f[k - 1] \o ss[k]
             g == [i \in 1..k |-> IF i = k THEN new ELSE f[i]]
  <2>2. new \in Seq(B)
    <3>1. k # 1 => k - 1 \in 1..(k - 1)
      BY <1>1
    <3>2. QED
      BY <1>1, <2>1, <3>1, ConcatProperties
  <2>3. g \in [1..k -> Seq(B)]
    <3>1. \A i \in 1..k : i # k => i \in 1..(k - 1)
      BY <1>1
    <3> HIDE DEF new
    <3>2. QED
      BY <2>1, <2>2, <3>1
  <2>4. ASSUME NEW i \in 1..k PROVE g[i] = IF i = 1 THEN ss[i] ELSE g[i - 1] \o ss[i]
    <3>1. i # 1 => i - 1 \in 1..(k - 1) /\ i - 1 # k /\ i - 1 \in 1..k
      BY <1>1
    <3>2. i # k => i \in 1..(k - 1)
      BY <1>1
    <3>3. i # 1 => g[i - 1] = f[i - 1]
      BY <3>1
    <3>4. CASE i = k
      BY <3>3, <3>4
    <3>5. CASE i # k
      BY <2>1, <3>2, <3>3, <3>5
    <3>6. QED
      BY <3>4, <3>5
  <2> HIDE DEF g
  <2>5. Upto(g, k)
    BY <2>4
  <2>6. \E h \in [1..k -> Seq(B)] : Upto(h, k)
    BY <2>3, <2>5
  <2>7. k \in 0..n
    BY <1>1
  <2>8. QED
    BY <2>6, <2>7
<1> HIDE DEF S
<1>4. n \in S
  <2>1. \A k \in 0..n : k \in S
    BY <1>1, <1>2, <1>3, UpTo
  <2>2. QED
    BY <1>1, <2>1
<1>5. QED
  BY <1>4 DEF S, n, Joins

\* FlattenSeq is the last of them.
LEMMA FlattenIs ==
    ASSUME NEW B, NEW ss \in Seq(Seq(B)), NEW f \in [1..Len(ss) -> Seq(B)], Joins(f, ss),
           ss # <<>>
    PROVE  FlattenSeq(ss) = f[Len(ss)]
<1> DEFINE n == Len(ss)
           Form(g) == g = [i \in 1..n |-> IF i = 1 THEN ss[i] ELSE g[i - 1] \o ss[i]]
<1>1. n \in Nat /\ n >= 1
  BY LenProperties, EmptySeq
<1>2. Form(f)
  <2>1. f = [i \in 1..n |-> f[i]]
    OBVIOUS
  <2>2. QED
    BY <2>1 DEF Joins
<1> DEFINE g == CHOOSE h : Form(h)
<1>3. Form(g)
  BY <1>2
<1>4. FlattenSeq(ss) = g[n]
  BY <1>1 DEF FlattenSeq
<1> HIDE DEF g
<1> DEFINE S == {k \in 0..n : \A i \in 1..k : g[i] = f[i]}
<1>5. 0 \in S
  BY <1>1
<1>6. ASSUME NEW k \in 1..n, k - 1 \in S PROVE k \in S
  <2>1. \A i \in 1..(k - 1) : g[i] = f[i]
    BY <1>6
  <2>2. g[k] = IF k = 1 THEN ss[k] ELSE g[k - 1] \o ss[k]
    BY <1>3
  <2>3. f[k] = IF k = 1 THEN ss[k] ELSE f[k - 1] \o ss[k]
    BY DEF Joins
  <2>4. k # 1 => k - 1 \in 1..(k - 1)
    BY <1>1
  <2>5. g[k] = f[k]
    BY <2>1, <2>2, <2>3, <2>4
  <2>6. \A i \in 1..k : i = k \/ i \in 1..(k - 1)
    BY <1>1
  <2>7. QED
    BY <1>1, <2>1, <2>5, <2>6
<1> HIDE DEF S
<1>7. n \in S
  <2>1. \A k \in 0..n : k \in S
    BY <1>1, <1>5, <1>6, UpTo
  <2>2. QED
    BY <1>1, <2>1
<1>8. n \in 1..n
  BY <1>1
<1>9. QED
  BY <1>4, <1>7, <1>8 DEF S

\* What FlattenSeq returns is a sequence, and one text more comes behind the others.
LEMMA FlattenMore ==
    ASSUME NEW B, NEW ss \in Seq(Seq(B))
    PROVE  /\ FlattenSeq(<<>>) = <<>>
           /\ FlattenSeq(ss) \in Seq(B)
           /\ \A s \in Seq(B) : FlattenSeq(Append(ss, s)) = FlattenSeq(ss) \o s
<1>1. FlattenSeq(<<>>) = <<>>
  BY DEF FlattenSeq
<1>2. PICK f \in [1..Len(ss) -> Seq(B)] : Joins(f, ss)
  BY JoinsExist
<1>3. Len(ss) \in Nat /\ (ss # <<>> => Len(ss) \in 1..Len(ss))
  BY LenProperties, EmptySeq
<1>4. ss # <<>> => FlattenSeq(ss) = f[Len(ss)]
  BY <1>2, FlattenIs
<1>5. FlattenSeq(ss) \in Seq(B)
  <2>1. CASE ss = <<>>
    BY <1>1, <2>1, EmptySeq
  <2>2. CASE ss # <<>>
    <3>1. f[Len(ss)] \in Seq(B)
      BY <1>2, <1>3, <2>2
    <3>2. QED
      BY <1>4, <2>2, <3>1
  <2>3. QED
    BY <2>1, <2>2
<1>6. ASSUME NEW s \in Seq(B) PROVE FlattenSeq(Append(ss, s)) = FlattenSeq(ss) \o s
  <2> DEFINE tt == Append(ss, s)
             n == Len(ss)
  <2>1. /\ tt \in Seq(Seq(B)) /\ tt # <<>> /\ Len(tt) = n + 1
        /\ \A i \in 1..n : tt[i] = ss[i]
        /\ tt[n + 1] = s
    BY AppendProperties
  <2>2. PICK g \in [1..Len(tt) -> Seq(B)] : Joins(g, tt)
    BY <2>1, JoinsExist
  <2>3. FlattenSeq(tt) = g[n + 1]
    BY <2>1, <2>2, FlattenIs
  <2> HIDE DEF tt
  <2>4. n \in Nat
    BY <1>3
  <2> HIDE DEF n
  <2>5. n + 1 \in 1..Len(tt) /\ (n # 0 => n + 1 # 1)
    BY <2>1, <2>4
  <2>6. /\ n = 0 => g[n + 1] = tt[n + 1]
        /\ n # 0 => g[n + 1] = g[n] \o tt[n + 1]
    <3>1. \A i \in 1..Len(tt) : /\ i = 1 => g[i] = tt[i]
                                /\ i # 1 => g[i] = g[i - 1] \o tt[i]
      BY <2>2 DEF Joins
    <3>2. PICK i \in 1..Len(tt) : i = n + 1
      BY <2>5
    <3>3. i \in Int /\ n \in Int /\ i - 1 = n /\ (n = 0 <=> i = 1)
      BY <2>4, <3>2
    <3>4. (i = 1 => g[i] = tt[i]) /\ (i # 1 => g[i] = g[i - 1] \o tt[i])
      BY <3>1, <3>2
    <3>5. i - 1 = n
      BY <3>3
    <3>6. g[i - 1] \o tt[i] = g[n] \o tt[i]
      BY <3>5
    <3>7. QED
      BY <3>2, <3>3, <3>4, <3>6
  <2>7. CASE ss = <<>>
    <3>1. n = 0
      BY <2>7, EmptySeq DEF n
    <3>2. g[n + 1] = s
      BY <2>1, <2>6, <3>1
    <3>3. FlattenSeq(ss) \o s = s
      BY <1>1, <2>7, ConcatEmptySeq
    <3>4. QED
      BY <2>3, <3>2, <3>3 DEF tt
  <2>8. CASE ss # <<>>
    <3> DEFINE h == [i \in 1..n |-> g[i]]
    <3>1. n # 0 /\ n \in 1..n
      BY <1>3, <2>8, EmptySeq DEF n
    <3>2. h \in [1..Len(ss) -> Seq(B)]
      BY <2>1, <2>2, <2>4 DEF n
    <3>3. ASSUME NEW i \in 1..Len(ss) PROVE h[i] = IF i = 1 THEN ss[i] ELSE h[i - 1] \o ss[i]
      <4>1. i \in 1..n /\ i \in 1..Len(tt) /\ (i # 1 => i - 1 \in 1..n)
        BY <2>1, <2>4 DEF n
      <4>2. g[i] = IF i = 1 THEN tt[i] ELSE g[i - 1] \o tt[i]
        BY <2>2, <4>1 DEF Joins
      <4>3. QED
        BY <2>1, <4>1, <4>2
    <3> HIDE DEF h
    <3>4. FlattenSeq(ss) = h[n]
      BY <2>8, <3>2, <3>3, FlattenIs DEF Joins, n
    <3>5. h[n] = g[n]
      BY <3>1 DEF h
    <3>6. QED
      BY <2>1, <2>3, <2>6, <3>1, <3>4, <3>5 DEF tt
  <2>9. QED
    BY <2>7, <2>8
<1>7. QED
  BY <1>1, <1>5, <1>6

\* What is left of ss behind its first k texts, put together.
Behind(ss, k) == FlattenSeq(SubSeq(ss, k + 1, Len(ss)))

LEMMA BehindMore ==
    ASSUME NEW B, NEW ss \in Seq(Seq(B)), NEW k \in 0..Len(ss)
    PROVE  /\ Behind(ss, k) \in Seq(B)
           /\ Behind(ss, Len(ss)) = <<>>
           /\ Behind(ss, 0) = FlattenSeq(ss)
           /\ k < Len(ss) => Behind(ss, k) = ss[k + 1] \o Behind(ss, k + 1)
<1> DEFINE n == Len(ss)
           Slice(a, b) == SubSeq(ss, a, b)
<1>1. n \in Nat /\ \A i \in 1..n : ss[i] \in Seq(B)
  BY LenProperties, ElementOfSeq
<1>2. ASSUME NEW a \in 1..(n + 1), NEW b \in 0..n PROVE Slice(a, b) \in Seq(Seq(B))
  <2>1. \A i \in a..b : i \in 1..n
    BY <1>1
  <2>2. a \in Int /\ b \in Int /\ \A i \in a..b : ss[i] \in Seq(B)
    BY <1>1, <2>1
  <2>3. QED
    BY <2>2, SubSeqProperties
<1>3. Behind(ss, k) \in Seq(B)
  <2>1. Slice(k + 1, n) \in Seq(Seq(B))
    BY <1>1, <1>2
  <2>2. QED
    BY <2>1, FlattenMore DEF Behind
<1>4. Behind(ss, n) = <<>>
  <2>1. Slice(n + 1, n) = <<>>
    BY <1>1, SubSeqEmpty
  <2>2. QED
    BY <2>1, FlattenMore DEF Behind
<1>5. Behind(ss, 0) = FlattenSeq(ss)
  <2>1. SubSeq(ss, 1, n) = ss /\ 0 + 1 = 1
    BY SubSeqFull
  <2>2. QED
    BY <2>1 DEF Behind
<1>6. ASSUME k < n PROVE Behind(ss, k) = ss[k + 1] \o Behind(ss, k + 1)
  <2> DEFINE j == k + 1
             S == {m \in 0..(n - j) :
                     FlattenSeq(Slice(j, j + m)) = ss[j] \o FlattenSeq(Slice(j + 1, j + m))}
  <2>1. j \in 1..n /\ j \in Int /\ n - j \in Nat /\ ss[j] \in Seq(B)
    BY <1>1, <1>6
  <2> HIDE DEF j, n
  <2>2. 0 \in S
    <3>1. Slice(j, j) = Slice(j, j - 1) \o <<ss[j]>>
      BY <2>1, SubSeqRecursiveSecond DEF n
    <3>2. Slice(j, j - 1) = <<>> /\ Slice(j + 1, j) = <<>>
      BY <2>1, SubSeqEmpty
    <3>3. <<ss[j]>> = Append(<<>>, ss[j]) /\ <<>> \in Seq(Seq(B))
      BY <2>1
    <3>4. Slice(j, j) = Append(<<>>, ss[j])
      <4>1. <<>> \o <<ss[j]>> = <<ss[j]>>
        BY <2>1, ConcatEmptySeq
      <4>2. QED
        BY <3>1, <3>2, <3>3, <4>1
    <3>5. FlattenSeq(Slice(j, j)) = <<>> \o ss[j]
      BY <2>1, <3>3, <3>4, FlattenMore
    <3>6. <<>> \o ss[j] = ss[j] /\ ss[j] \o <<>> = ss[j]
      BY <2>1, ConcatEmptySeq
    <3>7. j + 0 = j
      BY <2>1
    <3>8. FlattenSeq(<<>>) = <<>>
      BY <3>3, FlattenMore
    <3>9. FlattenSeq(Slice(j, j + 0)) = ss[j] \o FlattenSeq(Slice(j + 1, j + 0))
      BY <3>2, <3>5, <3>6, <3>7, <3>8
    <3>10. 0 \in 0..(n - j)
      BY <2>1
    <3>11. QED
      BY <3>9, <3>10
  <2>3. ASSUME NEW m \in 1..(n - j), m - 1 \in S PROVE m \in S
    <3> DEFINE b == j + m
               left == Slice(j + 1, b - 1)
    <3>1. b \in 1..n /\ b - 1 \in 0..n /\ b \in j..n /\ j + 1 \in 1..n /\ b \in (j + 1)..n /\
          j + (m - 1) = b - 1
      BY <1>1, <2>1 DEF n
    <3> HIDE DEF b
    <3>2. ss[b] \in Seq(B) /\ left \in Seq(Seq(B)) /\ Slice(j, b - 1) \in Seq(Seq(B))
      <4>1. j + 1 \in 1..(n + 1) /\ j \in 1..(n + 1)
        BY <1>1, <2>1 DEF n
      <4>2. QED
        BY <1>1, <1>2, <3>1, <4>1 DEF n
    <3>3. Slice(j, b) = Append(Slice(j, b - 1), ss[b])
      <4>1. Slice(j, b) = Slice(j, b - 1) \o <<ss[b]>>
        BY <2>1, <3>1, SubSeqRecursiveSecond DEF n
      <4>2. QED
        BY <3>2, <4>1, AppendIsConcat
    <3>4. Slice(j + 1, b) = Append(left, ss[b])
      <4>1. Slice(j + 1, b) = left \o <<ss[b]>>
        BY <2>1, <3>1, SubSeqRecursiveSecond DEF n
      <4>2. QED
        BY <3>2, <4>1, AppendIsConcat
    <3>5. FlattenSeq(Slice(j, b - 1)) = ss[j] \o FlattenSeq(left)
      BY <2>3, <3>1
    <3> HIDE DEF left
    <3>6. /\ FlattenSeq(Slice(j, b)) = FlattenSeq(Slice(j, b - 1)) \o ss[b]
          /\ FlattenSeq(Slice(j + 1, b)) = FlattenSeq(left) \o ss[b]
          /\ FlattenSeq(left) \in Seq(B)
      BY <3>2, <3>3, <3>4, FlattenMore
    <3>7. (ss[j] \o FlattenSeq(left)) \o ss[b] = ss[j] \o (FlattenSeq(left) \o ss[b])
      <4>1. ss[j] \in Seq(B) /\ FlattenSeq(left) \in Seq(B) /\ ss[b] \in Seq(B)
        BY <2>1, <3>2, <3>6
      <4>2. \A s, t, u \in Seq(B) : (s \o t) \o u = s \o (t \o u)
        BY ConcatAssociative
      <4>3. QED
        BY <4>1, <4>2
    <3>8. FlattenSeq(Slice(j, b)) = ss[j] \o FlattenSeq(Slice(j + 1, b))
      BY <3>5, <3>6, <3>7
    <3>9. m \in 0..(n - j)
      BY <2>1
    <3>10. QED
      BY <3>8, <3>9 DEF b
  <2> DEFINE L == n - j
  <2>4. L \in S
    <3> HIDE DEF S
    <3>1. \A m \in 0..(n - j) : m \in S
      BY <2>1, <2>2, <2>3, UpTo
    <3>2. QED
      BY <2>1, <3>1
  <2>5. j + L = n
    <3>1. n \in Int
      BY <1>1 DEF n
    <3>2. QED
      BY <2>1, <3>1
  <2> HIDE DEF L
  <2>6. QED
    BY <2>4, <2>5 DEF Behind, j, n
<1>7. QED
  BY <1>3, <1>4, <1>5, <1>6

-----------------------------------------------------------------------------
(* Lengths.                                                                *)

LEMMA BaseIs == Base \in {2, 4, 8, 16, 32, 64, 128} /\ Base \in Int /\ 2 <= Base /\ Base <= 128
BY CodecAssumption DEF Continued

\* A digit and what the shift leaves; marking a byte does not change its digit.
LEMMA DigitAndShift ==
    ASSUME NEW v \in Nat
    PROVE  /\ v % Base \in Nat /\ v % Base < Base /\ v \div Base \in Nat
           /\ v = (v % Base) + Base * (v \div Base)
           /\ v < Base => v \div Base = 0 /\ v % Base = v
           /\ v % Base < Continued
           /\ (v % Base) % Base = v % Base
           /\ ((v % Base) + Continued) % Base = v % Base
<1>1. CASE Base = 2
  BY <1>1 DEF Continued
<1>2. CASE Base = 4
  BY <1>2 DEF Continued
<1>3. CASE Base = 8
  BY <1>3 DEF Continued
<1>4. CASE Base = 16
  BY <1>4 DEF Continued
<1>5. CASE Base = 32
  BY <1>5 DEF Continued
<1>6. CASE Base = 64
  BY <1>6 DEF Continued
<1>7. CASE Base = 128
  BY <1>7 DEF Continued
<1>8. QED
  BY <1>1, <1>2, <1>3, <1>4, <1>5, <1>6, <1>7, BaseIs

\* The digits that can be read at most.
LEMMA FiveDigits ==
    ASSUME NEW v \in Nat, v <= MaxLength
    PROVE  /\ Shifted(v) \in [1..5 -> Nat] /\ Shifted(v)[1] = v /\ Shifted(v)[5] < Base
           /\ \A n \in 1..4 : Shifted(v)[n + 1] = Shifted(v)[n] \div Base
<1> DEFINE v2 == v \div Base
           v3 == v2 \div Base
           v4 == v3 \div Base
           v5 == v4 \div Base
<1>1. Shifted(v) = <<v, v2, v3, v4, v5>>
  BY DEF Shifted
<1>2. v2 \in Nat /\ v3 \in Nat /\ v4 \in Nat /\ v5 \in Nat
  <2>1. \A w \in Nat : w \div Base \in Nat
    BY DigitAndShift
  <2>2. QED
    BY <2>1
<1>3. v < Base * Base * Base * Base * Base
  BY CodecAssumption, BaseIs
<1>4. v5 < Base
  <2>1. CASE Base = 2
    BY <1>3, <2>1
  <2>2. CASE Base = 4
    BY <1>3, <2>2
  <2>3. CASE Base = 8
    BY <1>3, <2>3
  <2>4. CASE Base = 16
    BY <1>3, <2>4
  <2>5. CASE Base = 32
    BY <1>3, <2>5
  <2>6. CASE Base = 64
    BY <1>3, <2>6
  <2>7. CASE Base = 128
    BY <1>3, <2>7
  <2>8. QED
    BY <2>1, <2>2, <2>3, <2>4, <2>5, <2>6, <2>7, BaseIs
<1> HIDE DEF v2, v3, v4, v5
<1>5. Shifted(v)[2] = v2 /\ Shifted(v)[3] = v3 /\ Shifted(v)[4] = v4 /\ Shifted(v)[5] = v5
  BY <1>1
<1>6. Shifted(v) \in [1..5 -> Nat] /\ Shifted(v)[1] = v
  BY <1>1, <1>2
<1>7. ASSUME NEW n \in 1..4 PROVE Shifted(v)[n + 1] = Shifted(v)[n] \div Base
  <2>1. n = 1 \/ n = 2 \/ n = 3 \/ n = 4
    OBVIOUS
  <2>2. v2 = v \div Base /\ v3 = v2 \div Base /\ v4 = v3 \div Base /\ v5 = v4 \div Base
    BY DEF v2, v3, v4, v5
  <2>3. CASE n = 1
    <3>1. Shifted(v)[1] = v /\ Shifted(v)[2] = v2
      BY <1>5, <1>6
    <3>2. n + 1 = 2
      BY <2>3
    <3>3. QED
      BY <2>2, <2>3, <3>1, <3>2
  <2>4. CASE n = 2
    BY <1>5, <2>2, <2>4
  <2>5. CASE n = 3
    BY <1>5, <2>2, <2>5
  <2>6. CASE n = 4
    BY <1>5, <2>2, <2>6
  <2>7. QED
    BY <2>1, <2>3, <2>4, <2>5, <2>6
<1>8. QED
  BY <1>4, <1>5, <1>6, <1>7

\* The bytes of a length: marked digits, and one that is not.
LEMMA VarintForm ==
    ASSUME NEW v \in Nat, v <= MaxLength
    PROVE  \E size \in 1..5 :
             /\ encode_varint(v) \in Seq(Byte) /\ Len(encode_varint(v)) = size
             /\ \A n \in 1..size : /\ encode_varint(v)[n] % Base = Shifted(v)[n] % Base
                                   /\ encode_varint(v)[n] < Continued <=> n = size
             /\ Shifted(v)[size] < Base
<1> DEFINE left == Shifted(v)
           First(n) == left[n] < Base /\ \A m \in 1..(n - 1) : left[m] >= Base
           size == CHOOSE n \in 1..5 : First(n)
           e == [i \in 1..size |-> (left[i] % Base) + (IF i < size THEN Continued ELSE 0)]
<1>1. left \in [1..5 -> Nat] /\ left[5] < Base
  BY FiveDigits
<1> HIDE DEF left
<1>2. \E n \in 1..5 : First(n)
  <2> DEFINE S == {n \in 1..5 : left[n] < Base}
  <2>1. S \in SUBSET Nat /\ S # {}
    BY <1>1
  <2>2. Min(S) \in S /\ \A y \in S : Min(S) <= y
    BY <2>1, MinProperties
  <2>3. PICK n : n = Min(S)
    OBVIOUS
  <2>4. n \in 1..5 /\ left[n] < Base /\ \A m \in 1..5 : left[m] < Base => n <= m
    BY <2>2, <2>3
  <2>5. ASSUME NEW m \in 1..(n - 1) PROVE left[m] >= Base
    <3>1. m \in 1..5 /\ ~(n <= m)
      BY <2>4
    <3>2. left[m] \in Nat /\ ~(left[m] < Base)
      BY <1>1, <2>4, <3>1
    <3>3. QED
      BY <3>2, BaseIs
  <2>6. QED
    BY <2>4, <2>5
<1>3. size \in 1..5 /\ First(size)
  BY <1>2
<1>4. encode_varint(v) = e
  BY DEF encode_varint, left
<1> HIDE DEF size
<1>5. ASSUME NEW n \in 1..size
      PROVE  /\ e[n] \in Byte
             /\ e[n] % Base = left[n] % Base
             /\ e[n] < Continued <=> n = size
  <2>1. left[n] \in Nat
    BY <1>1, <1>3
  <2> DEFINE d == left[n] % Base
  <2>2. /\ d \in Nat /\ d < Continued
        /\ d % Base = d
        /\ (d + Continued) % Base = d
    BY <2>1, DigitAndShift
  <2>3. e[n] = d + (IF n < size THEN Continued ELSE 0)
    OBVIOUS
  <2> HIDE DEF d, e
  <2>4. CASE n < size
    <3>1. e[n] = d + Continued
      BY <2>3, <2>4
    <3>2. e[n] \in Byte /\ ~(e[n] < Continued)
      BY <2>2, <3>1 DEF Byte, Continued
    <3>3. QED
      BY <1>3, <2>2, <2>4, <3>1, <3>2 DEF d
  <2>5. CASE n = size
    <3>1. e[n] = d
      BY <1>3, <2>2, <2>3, <2>5
    <3>2. e[n] \in Byte
      BY <2>2, <3>1 DEF Byte, Continued
    <3>3. QED
      BY <2>2, <2>5, <3>1, <3>2 DEF d
  <2>6. QED
    BY <1>3, <2>4, <2>5
<1>6. e \in [1..size -> Byte] /\ size \in Nat
  <2>1. \A n \in 1..size : e[n] \in Byte
    BY <1>5
  <2>2. e = [n \in 1..size |-> e[n]]
    OBVIOUS
  <2> HIDE DEF e
  <2>3. QED
    BY <1>3, <2>1, <2>2
<1> HIDE DEF e
<1>7. e \in Seq(Byte) /\ Len(e) = size
  BY <1>6
<1>8. QED
  BY <1>3, <1>4, <1>5, <1>7 DEF left

\* b has the bytes e behind its first `at` ones.
HasAt(b, at, e) ==
    /\ at + Len(e) <= Len(b)
    /\ \A n \in 1..Len(e) : b[at + n] = e[n]

\* A length that was encoded is read back, and nothing behind it is.
LEMMA VarintDecodes ==
    ASSUME NEW b \in Text, NEW at \in 0..Len(b), NEW v \in Nat, v <= MaxLength,
           HasAt(b, at, encode_varint(v))
    PROVE  decode_varint(b, at) = [ok |-> TRUE, value |-> v, pos |-> at + Len(encode_varint(v))]
<1> DEFINE e == encode_varint(v)
           left == Shifted(v)
<1>1. PICK size \in 1..5 :
        /\ Len(e) = size
        /\ \A n \in 1..size : /\ e[n] % Base = left[n] % Base
                              /\ e[n] < Continued <=> n = size
        /\ left[size] < Base
  BY VarintForm
<1>2. Len(b) \in Nat /\ at \in Nat /\ at + size <= Len(b)
      /\ \A n \in 1..size : b[at + n] = e[n]
  BY <1>1 DEF HasAt, Text
<1>3. left \in [1..5 -> Nat] /\ left[1] = v /\ left[5] < Base
      /\ \A n \in 1..4 : left[n + 1] = left[n] \div Base
  BY FiveDigits
<1> HIDE DEF e, left
<1>4. VarintSize(b, at) = size
  <2> DEFINE ends == {n \in 1..5 : at + n <= Len(b) /\ b[at + n] < Continued}
  <2>1. ends \in SUBSET Nat /\ size \in ends
    BY <1>1, <1>2
  <2>2. \A n \in ends : n < size => b[at + n] = e[n] /\ n \in 1..size
    BY <1>1, <1>2
  <2>3. ASSUME NEW n \in ends PROVE ~(n < size)
    <3>1. SUFFICES ASSUME n < size PROVE FALSE
      OBVIOUS
    <3>2. b[at + n] < Continued /\ b[at + n] = e[n] /\ n \in 1..size
      BY <2>2, <3>1
    <3>3. e[n] < Continued /\ n # size
      BY <3>1, <3>2
    <3>4. QED
      BY <1>1, <3>2, <3>3
  <2>4. Min(ends) \in ends /\ \A n \in ends : Min(ends) <= n
    BY <2>1, MinProperties
  <2>5. Min(ends) = size
    BY <2>1, <2>3, <2>4
  <2>6. ends # {}
    BY <2>1
  <2> HIDE DEF ends
  <2>7. VarintSize(b, at) = Min(ends)
    BY <2>6 DEF VarintSize, ends
  <2>8. QED
    BY <2>5, <2>7
<1> DEFINE digit(n) == IF n <= size THEN b[at + n] % Base ELSE 0
<1>5. \A n \in 1..5 : left[n] \in Nat
  BY <1>3
<1>6. 0 \div Base = 0 /\ 0 % Base = 0
  BY DigitAndShift, BaseIs
<1>7. \A n \in 1..5 : n > size => left[n] = 0
  <2>1. left[size] \div Base = 0
    BY <1>5, <1>1, DigitAndShift
  <2>2. size < 5 => left[size + 1] = 0
    BY <1>1, <1>3, <2>1
  <2>3. \A n \in 1..4 : left[n] = 0 => left[n + 1] = 0
    BY <1>3, <1>6
  <2>4. /\ left[2] = 0 => left[3] = 0
        /\ left[3] = 0 => left[4] = 0
        /\ left[4] = 0 => left[5] = 0
    BY <2>3
  <2>5. size = 1 \/ size = 2 \/ size = 3 \/ size = 4 \/ size = 5
    BY <1>1
  <2>6. /\ size = 1 => left[2] = 0
        /\ size = 2 => left[3] = 0
        /\ size = 3 => left[4] = 0
        /\ size = 4 => left[5] = 0
    BY <2>2
  <2>7. QED
    BY <2>4, <2>5, <2>6
<1>8. ASSUME NEW n \in 1..5 PROVE digit(n) = left[n] % Base
  <2>1. CASE n <= size
    BY <1>1, <1>2, <2>1
  <2>2. CASE ~(n <= size)
    <3>1. left[n] = 0
      BY <1>1, <1>7, <2>2
    <3>2. QED
      BY <1>6, <2>2, <3>1
  <2>3. QED
    BY <2>1, <2>2
<1>9. VarintValue(b, at, size) =
        digit(1) + Base * (digit(2) + Base * (digit(3) + Base * (digit(4) + Base * digit(5))))
  BY DEF VarintValue
<1> HIDE DEF digit
<1>10. digit(5) = left[5]
  <2>1. left[5] % Base = left[5]
    <3>1. left[5] \in Nat /\ left[5] < Base
      BY <1>3
    <3>2. QED
      BY <3>1, DigitAndShift
  <2>2. QED
    BY <1>8, <2>1
<1>11. ASSUME NEW n \in 1..4 PROVE left[n] = digit(n) + Base * left[n + 1]
  <2>1. left[n] = (left[n] % Base) + Base * (left[n] \div Base)
    <3>1. left[n] \in Nat
      BY <1>5
    <3>2. QED
      BY <3>1, DigitAndShift
  <2>2. left[n + 1] = left[n] \div Base /\ digit(n) = left[n] % Base
    BY <1>3, <1>8
  <2>3. QED
    BY <2>1, <2>2
<1>12. /\ left[1] = digit(1) + Base * left[2] /\ left[2] = digit(2) + Base * left[3]
       /\ left[3] = digit(3) + Base * left[4] /\ left[4] = digit(4) + Base * left[5]
  <2>1. 1 + 1 = 2 /\ 2 + 1 = 3 /\ 3 + 1 = 4 /\ 4 + 1 = 5
    OBVIOUS
  <2>2. 1 \in 1..4 /\ 2 \in 1..4 /\ 3 \in 1..4 /\ 4 \in 1..4
    OBVIOUS
  <2>3. /\ left[1] = digit(1) + Base * left[1 + 1] /\ left[2] = digit(2) + Base * left[2 + 1]
        /\ left[3] = digit(3) + Base * left[3 + 1] /\ left[4] = digit(4) + Base * left[4 + 1]
    BY <1>11, <2>2
  <2>4. QED
    BY <2>1, <2>3
<1>13. VarintValue(b, at, size) = v
  BY <1>3, <1>9, <1>10, <1>12, Zenon
<1>14. ~(at >= Len(b) \/ size = 0 \/ v > MaxLength)
  BY <1>1, <1>2, CodecAssumption
<1>15. QED
  BY <1>1, <1>4, <1>13, <1>14 DEF decode_varint, e

-----------------------------------------------------------------------------
(* Texts and pairs.                                                        *)

\* A reader that has read `at` bytes of b has r ahead.
Ahead(b, at, r) == at \in 0..Len(b) /\ SubSeq(b, at + 1, Len(b)) = r

LEMMA Joined ==
    ASSUME NEW S, NEW s \in Seq(S), NEW t \in Seq(S)
    PROVE  /\ s \o t \in Seq(S) /\ Len(s \o t) = Len(s) + Len(t)
           /\ Len(s) \in Nat /\ Len(t) \in Nat
           /\ \A i \in 1..Len(s) : (s \o t)[i] = s[i]
           /\ \A i \in 1..Len(t) : (s \o t)[Len(s) + i] = t[i]
<1>1. /\ s \o t \in Seq(S)
      /\ Len(s \o t) = Len(s) + Len(t)
      /\ \A i \in 1..Len(s) + Len(t) : (s \o t)[i] = IF i <= Len(s) THEN s[i] ELSE t[i - Len(s)]
  BY ConcatProperties
<1>2. Len(s) \in Nat /\ Len(t) \in Nat
  BY LenProperties
<1>3. ASSUME NEW i \in 1..Len(t) PROVE (s \o t)[Len(s) + i] = t[i]
  <2> DEFINE k == Len(s) + i
  <2>1. k \in 1..Len(s) + Len(t) /\ ~(k <= Len(s)) /\ k - Len(s) = i
    BY <1>2
  <2> HIDE DEF k
  <2>2. (s \o t)[k] = t[k - Len(s)]
    BY <1>1, <2>1
  <2>3. QED
    BY <2>1, <2>2 DEF k
<1>4. QED
  BY <1>1, <1>2, <1>3

\* A reader that knows what is ahead finds it, and behind it the rest.
LEMMA ReadOn ==
    \A b \in Text : \A at : \A e, r \in Text :
        Ahead(b, at, e \o r) => HasAt(b, at, e) /\ Ahead(b, at + Len(e), r)
<1> SUFFICES ASSUME NEW b \in Text, NEW at, NEW e \in Text, NEW r \in Text, Ahead(b, at, e \o r)
             PROVE  HasAt(b, at, e) /\ Ahead(b, at + Len(e), r)
  OBVIOUS
<1> DEFINE a == SubSeq(b, at + 1, Len(b))
<1>0. at \in 0..Len(b) /\ a = e \o r
  BY DEF Ahead
<1> HIDE DEF a
<1>1. Len(b) \in Nat /\ at \in Nat /\ Len(e) \in Nat /\ Len(r) \in Nat
  BY <1>0, LenProperties DEF Text
<1>2. /\ a \in Seq(Byte) /\ Len(a) = Len(b) - at
      /\ \A i \in 1..(Len(b) - at) : a[i] = b[at + i]
  <2>1. \A i \in (at + 1)..Len(b) : b[i] \in Byte
    BY <1>1, ElementOfSeq DEF Text
  <2>2. /\ a \in Seq(Byte)
        /\ Len(a) = IF at + 1 <= Len(b) THEN Len(b) - (at + 1) + 1 ELSE 0
        /\ \A i \in 1..(Len(b) - (at + 1) + 1) : a[i] = b[at + 1 + i - 1]
    BY <1>1, <2>1, SubSeqProperties DEF a
  <2>3. Len(b) - (at + 1) + 1 = Len(b) - at
    BY <1>1
  <2>4. \A i \in 1..(Len(b) - at) : at + 1 + i - 1 = at + i
    BY <1>1
  <2>5. Len(a) = Len(b) - at
    <3>1. CASE at + 1 <= Len(b)
      BY <2>2, <2>3, <3>1
    <3>2. CASE ~(at + 1 <= Len(b))
      <4>1. Len(b) - at = 0
        BY <1>0, <1>1, <3>2
      <4>2. QED
        BY <2>2, <3>2, <4>1
    <3>3. QED
      BY <3>1, <3>2
  <2>6. \A i \in 1..(Len(b) - at) : a[i] = b[at + i]
    BY <2>2, <2>3, <2>4
  <2>7. QED
    BY <2>2, <2>5, <2>6
<1>3. /\ Len(b) - at = Len(e) + Len(r)
      /\ \A i \in 1..Len(e) : (e \o r)[i] = e[i]
      /\ \A i \in 1..Len(r) : (e \o r)[Len(e) + i] = r[i]
  BY <1>0, <1>2, Joined DEF Text
<1>4. HasAt(b, at, e)
  <2>1. \A i \in 1..Len(e) : i \in 1..(Len(b) - at)
    BY <1>1, <1>3
  <2>2. \A i \in 1..Len(e) : b[at + i] = e[i]
    BY <1>0, <1>2, <1>3, <2>1
  <2>3. at + Len(e) <= Len(b)
    BY <1>1, <1>3
  <2>4. QED
    BY <2>2, <2>3 DEF HasAt
<1> DEFINE p == at + Len(e)
           rest == SubSeq(b, p + 1, Len(b))
<1>5. p \in 0..Len(b) /\ p \in Nat /\ Len(b) - p = Len(r)
  BY <1>1, <1>3
<1>6. rest \in Seq(Byte) /\ Len(rest) = Len(r) /\ \A i \in 1..Len(r) : rest[i] = b[p + i]
  <2>1. \A i \in (p + 1)..Len(b) : b[i] \in Byte
    BY <1>1, <1>5, ElementOfSeq DEF Text
  <2> HIDE DEF p
  <2>2. /\ rest \in Seq(Byte)
        /\ Len(rest) = IF p + 1 <= Len(b) THEN Len(b) - (p + 1) + 1 ELSE 0
        /\ \A i \in 1..(Len(b) - (p + 1) + 1) : rest[i] = b[p + 1 + i - 1]
    BY <1>1, <1>5, <2>1, SubSeqProperties
  <2>3. Len(b) - (p + 1) + 1 = Len(r)
    BY <1>1, <1>5
  <2>4. \A i \in 1..Len(r) : p + 1 + i - 1 = p + i
    BY <1>1, <1>5
  <2> HIDE DEF rest
  <2>5. Len(rest) = Len(r)
    BY <1>1, <1>5, <2>2, <2>3
  <2>6. \A i \in 1..Len(r) : rest[i] = b[p + i]
    BY <2>2, <2>3, <2>4
  <2>7. QED
    BY <2>2, <2>5, <2>6
<1>7. ASSUME NEW i \in 1..Len(r) PROVE rest[i] = r[i]
  <2>1. Len(e) + i \in 1..(Len(b) - at) /\ p + i = at + (Len(e) + i)
    BY <1>1, <1>3
  <2>2. a[Len(e) + i] = b[at + (Len(e) + i)]
    BY <1>2, <2>1
  <2> HIDE DEF rest
  <2>3. QED
    BY <1>0, <1>3, <1>6, <2>1, <2>2
<1>8. rest = r
  <2> HIDE DEF rest
  <2>1. r \in Seq(Byte) /\ \A i \in 1..Len(rest) : rest[i] = r[i]
    BY <1>6, <1>7 DEF Text
  <2>2. QED
    BY <1>6, <2>1, SeqEqual
<1>9. QED
  BY <1>4, <1>5, <1>8 DEF Ahead

LEMMA LengthenedIsText ==
    ASSUME NEW t \in Sendable
    PROVE  /\ encode_varint(Len(t)) \in Text /\ t \in Text /\ Len(t) \in Nat /\ Len(t) <= MaxLength
           /\ Lengthened(t) \in Text
<1>1. t \in Text /\ Len(t) \in Nat /\ Len(t) <= MaxLength
  BY LenProperties DEF Sendable, Text
<1>2. encode_varint(Len(t)) \in Text
  BY <1>1, VarintForm DEF Text
<1>3. QED
  BY <1>1, <1>2, ConcatProperties DEF Lengthened, Text

LEMMA TwoTexts == \A s, t \in Text : s \o t \in Text
BY ConcatProperties DEF Text

LEMMA ThreeTexts == \A s, t, r \in Text : (s \o t) \o r = s \o (t \o r)
BY ConcatAssociative DEF Text

LEMMA OneByte ==
    ASSUME NEW op \in Byte PROVE <<op>> \in Text /\ Len(<<op>>) = 1 /\ <<op>>[1] = op
BY DEF Text

\* An opcode is seen, and the reader that skips it has the rest ahead.
LEMMA OpcodeSeen ==
    \A b \in Text : \A at : \A op \in Byte, r \in Text :
        Ahead(b, at, <<op>> \o r) =>
            /\ at \in 0..Len(b) /\ at < Len(b) /\ b[at + 1] = op
            /\ Ahead(b, at + 1, r)
<1> SUFFICES ASSUME NEW b \in Text, NEW at, NEW op \in Byte, NEW r \in Text,
                    Ahead(b, at, <<op>> \o r)
             PROVE  /\ at \in 0..Len(b) /\ at < Len(b) /\ b[at + 1] = op
                    /\ Ahead(b, at + 1, r)
  OBVIOUS
<1> DEFINE e == <<op>>
<1>1. e \in Text /\ Len(e) = 1 /\ e[1] = op /\ Ahead(b, at, e \o r)
  BY OneByte
<1> HIDE DEF e
<1>2. HasAt(b, at, e) /\ Ahead(b, at + Len(e), r)
  BY <1>1, ReadOn
<1>3. at \in 0..Len(b) /\ at + 1 \in 0..Len(b)
  BY <1>1, <1>2 DEF Ahead
<1>4. Len(b) \in Nat /\ 1 \in 1..1
  BY LenProperties DEF Text
<1>5. b[at + 1] = e[1]
  BY <1>1, <1>2, <1>4 DEF HasAt
<1>6. QED
  BY <1>1, <1>2, <1>3, <1>4, <1>5

\* An opcode is seen in front of its text.
LEMMA StringAhead ==
    ASSUME NEW b \in Text, NEW at, NEW op \in Byte, NEW t \in Sendable, NEW r \in Text,
           Ahead(b, at, encode_string(op, t) \o r)
    PROVE  at \in 0..Len(b) /\ at < Len(b) /\ b[at + 1] = op
<1> DEFINE o == <<op>>
<1>1. o \in Text /\ Lengthened(t) \in Text
  BY OneByte, LengthenedIsText
<1>2. encode_string(op, t) = o \o Lengthened(t)
  BY DEF encode_string
<1> HIDE DEF o
<1>3. (o \o Lengthened(t)) \o r = o \o (Lengthened(t) \o r) /\ Lengthened(t) \o r \in Text
  <2>1. Lengthened(t) \o r \in Text
    BY <1>1, TwoTexts
  <2>2. (o \o Lengthened(t)) \o r = o \o (Lengthened(t) \o r)
    BY <1>1, ThreeTexts
  <2>3. QED
    BY <2>1, <2>2
<1>4. Ahead(b, at, <<op>> \o (Lengthened(t) \o r))
  BY <1>2, <1>3 DEF o
<1>5. QED
  BY <1>3, <1>4, OpcodeSeen

\* A length that is read is a number, and the reader has not left the buffer.
LEMMA VarintRange ==
    ASSUME NEW b \in Text, NEW at \in 0..Len(b), decode_varint(b, at).ok
    PROVE  decode_varint(b, at).value \in Nat /\ decode_varint(b, at).pos \in 0..Len(b)
<1> DEFINE size == VarintSize(b, at)
           value == VarintValue(b, at, size)
           ends == {n \in 1..5 : at + n <= Len(b) /\ b[at + n] < Continued}
           digit(n) == IF n <= size THEN b[at + n] % Base ELSE 0
<1>1. Len(b) \in Nat /\ at \in Nat /\ \A i \in 1..Len(b) : b[i] \in Nat
  <2>1. Len(b) \in Nat
    BY LenProperties DEF Text
  <2>2. \A i \in 1..Len(b) : b[i] \in Byte
    BY ElementOfSeq DEF Text
  <2>3. \A x \in Byte : x \in Nat
    BY DEF Byte
  <2>4. \A i \in 1..Len(b) : b[i] \in Nat
    BY <2>2, <2>3, Zenon
  <2>5. at \in Nat
    BY <2>1
  <2>6. QED
    BY <2>1, <2>4, <2>5
<1>2. ~(at >= Len(b) \/ size = 0 \/ value > MaxLength)
      /\ decode_varint(b, at) = [ok |-> TRUE, value |-> value, pos |-> at + size]
  BY DEF decode_varint, Refused
<1>3. size \in 1..5 /\ at + size <= Len(b)
  <2>1. CASE ends # {}
    <3>1. ends \in SUBSET Nat
      OBVIOUS
    <3>2. Min(ends) \in ends
      BY <2>1, <3>1, MinProperties
    <3>3. size = Min(ends)
      BY <2>1 DEF VarintSize
    <3> HIDE DEF size
    <3>4. QED
      BY <3>2, <3>3
  <2>2. CASE ends = {}
    <3>1. size = IF Len(b) - at <= 5 THEN Len(b) - at ELSE 0
      BY <2>2 DEF VarintSize
    <3> HIDE DEF size, value, ends
    <3>2. QED
      BY <1>1, <1>2, <3>1
  <2>3. QED
    BY <2>1, <2>2
<1> HIDE DEF size
<1>4. ASSUME NEW n \in 1..5 PROVE digit(n) \in Nat
  <2>1. CASE n <= size
    <3>1. at + n \in 1..Len(b)
      BY <1>1, <1>3, <2>1
    <3>2. b[at + n] \in Nat
      BY <1>1, <3>1
    <3>3. b[at + n] % Base \in Nat
      BY <3>2, DigitAndShift
    <3>4. QED
      BY <2>1, <3>3
  <2>2. CASE ~(n <= size)
    BY <2>2
  <2>3. QED
    BY <2>1, <2>2
<1>5. value = digit(1) + Base * (digit(2) + Base * (digit(3) + Base * (digit(4) + Base * digit(5))))
  BY DEF VarintValue
<1> HIDE DEF digit, value
<1>6. \A d, w \in Nat : d + Base * w \in Nat
  BY BaseIs
<1>7. value \in Nat
  <2>1. digit(1) \in Nat /\ digit(2) \in Nat /\ digit(3) \in Nat /\ digit(4) \in Nat /\
        digit(5) \in Nat
    BY <1>4
  <2>2. digit(4) + Base * digit(5) \in Nat
    BY <1>6, <2>1
  <2>3. digit(3) + Base * (digit(4) + Base * digit(5)) \in Nat
    BY <1>6, <2>1, <2>2
  <2>4. digit(2) + Base * (digit(3) + Base * (digit(4) + Base * digit(5))) \in Nat
    BY <1>6, <2>1, <2>3
  <2>5. QED
    BY <1>5, <1>6, <2>1, <2>4
<1>8. at + size \in 0..Len(b)
  BY <1>1, <1>3
<1>9. QED
  BY <1>2, <1>7, <1>8

\* What was decoded is of S, and the reader has not left the buffer.
Within(result, b, S) == result.ok => result.value \in S /\ result.pos \in 0..Len(b)

LEMMA TextRange ==
    \A b \in Text : \A at \in 0..Len(b) : Within(DecodedText(b, at), b, Text)
<1> SUFFICES ASSUME NEW b \in Text, NEW at \in 0..Len(b), DecodedText(b, at).ok
             PROVE  DecodedText(b, at).value \in Text /\ DecodedText(b, at).pos \in 0..Len(b)
  BY DEF Within
<1> DEFINE length == decode_varint(b, at)
           end == length.pos + length.value
<1>1. length.ok /\ ~(end > Len(b))
  BY DEF DecodedText, Refused
<1>2. length.value \in Nat /\ length.pos \in 0..Len(b)
  BY <1>1, VarintRange
<1>3. DecodedText(b, at) = [ok |-> TRUE, value |-> SubSeq(b, length.pos + 1, end), pos |-> end]
  BY <1>1 DEF DecodedText
<1> HIDE DEF length
<1>4. Len(b) \in Nat /\ end \in 0..Len(b)
  BY <1>1, <1>2, LenProperties DEF Text
<1> HIDE DEF end
<1>5. SubSeq(b, length.pos + 1, end) \in Text
  <2>1. \A i \in (length.pos + 1)..end : b[i] \in Byte
    BY <1>2, <1>4, ElementOfSeq DEF Text
  <2>2. length.pos + 1 \in Int /\ end \in Int
    BY <1>2, <1>4
  <2>3. QED
    BY <2>1, <2>2, SubSeqProperties DEF Text
<1>6. QED
  BY <1>3, <1>4, <1>5

LEMMA StringRange ==
    \A b \in Text : \A at \in 0..(Len(b) - 1) : Within(decode_string(b, at), b, Text)
<1> TAKE b \in Text
<1> TAKE at \in 0..(Len(b) - 1)
<1>1. at + 1 \in 0..Len(b)
  BY LenProperties DEF Text
<1>2. QED
  BY <1>1, TextRange DEF decode_string

LEMMA PairRange ==
    \A b \in Text : \A at \in 0..(Len(b) - 1) :
        Within(decode_kvpair(b, at), b, [key : Text, value : Text])
<1> SUFFICES ASSUME NEW b \in Text, NEW at \in 0..(Len(b) - 1), decode_kvpair(b, at).ok
             PROVE  /\ decode_kvpair(b, at).value \in [key : Text, value : Text]
                    /\ decode_kvpair(b, at).pos \in 0..Len(b)
  BY DEF Within
<1> DEFINE key == DecodedText(b, at + 1)
           val == DecodedText(b, key.pos)
<1>1. at + 1 \in 0..Len(b)
  BY LenProperties DEF Text
<1>2. key.ok /\ val.ok
  BY DEF decode_kvpair, Refused
<1>3. decode_kvpair(b, at) =
        [ok |-> TRUE, value |-> [key |-> key.value, value |-> val.value], pos |-> val.pos]
  BY <1>2 DEF decode_kvpair
<1>4. key.value \in Text /\ key.pos \in 0..Len(b)
  BY <1>1, <1>2, TextRange DEF Within
<1> HIDE DEF key
<1>5. val.value \in Text /\ val.pos \in 0..Len(b)
  BY <1>2, <1>4, TextRange DEF Within
<1> HIDE DEF val
<1>6. QED
  BY <1>3, <1>4, <1>5

-----------------------------------------------------------------------------
(* What the encoder makes of what it is given.                             *)

Pair == [key : Sendable, value : Sendable]
Tool == [name : Sendable, method : {m \in Seq(Sendable) : Len(m) <= 1}, args : Seq(Pair)]
Field == [op : 1..OP_HR, value : Sendable]

\* No key comes twice.
OncePerKey(pairs) == \A i, j \in DOMAIN pairs : pairs[i].key = pairs[j].key => i = j

Statement ==
    {s \in [role : Sendable, kvpairs : Seq(Pair), tool_calls : Seq(Tool)] :
        /\ OncePerKey(s.kvpairs)
        /\ \A t \in DOMAIN s.tool_calls : OncePerKey(s.tool_calls[t].args)}

FieldBytes(header) == [i \in DOMAIN header |-> encode_string(header[i].op, header[i].value)]
PairBytes(pairs) == [i \in DOMAIN pairs |-> EncodedPair(pairs[i])]
ArgBytes(args) == [i \in DOMAIN args |-> encode_kvpair(OP_TOOL_ARG, args[i].key, args[i].value)]
ToolBytes(tools) == [i \in DOMAIN tools |-> EncodedTool(tools[i])]
StatementBytes(statements) ==
    [i \in DOMAIN statements |->
        encode_statement(statements[i].role, statements[i].kvpairs, statements[i].tool_calls)]

LEMMA OpcodesAreBytes ==
    /\ \A op \in 1..OP_HR : op \in Byte /\ op < OP_ROLE
    /\ OP_ROLE \in Byte /\ OP_TOOL_NAME \in Byte /\ OP_TOOL_ARG \in Byte /\ OP_TOOL_METHOD \in Byte
    /\ OP_KV \in Byte /\ OP_END_STATEMENT \in Byte
    /\ DOMAIN field_keys \subseteq Byte
BY DEF Byte, OP_HR, OP_ROLE, OP_TOOL_NAME, OP_TOOL_ARG, OP_TOOL_METHOD, OP_KV, OP_END_STATEMENT,
       field_keys

LEMMA StringIsText == \A op \in Byte, t \in Sendable : encode_string(op, t) \in Text
<1> TAKE op \in Byte, t \in Sendable
<1>1. <<op>> \in Text /\ Lengthened(t) \in Text
  BY OneByte, LengthenedIsText
<1>2. QED
  BY <1>1, TwoTexts DEF encode_string

LEMMA KvpairIsText == \A op \in Byte, k, v \in Sendable : encode_kvpair(op, k, v) \in Text
<1> TAKE op \in Byte, k, v \in Sendable
<1> DEFINE s == <<op>> \o Lengthened(k)
<1>1. <<op>> \in Text /\ Lengthened(k) \in Text /\ Lengthened(v) \in Text
  BY OneByte, LengthenedIsText
<1>2. s \in Text
  BY <1>1, TwoTexts
<1>3. encode_kvpair(op, k, v) = s \o Lengthened(v)
  BY DEF encode_kvpair
<1> HIDE DEF s
<1>4. QED
  BY <1>1, <1>2, <1>3, TwoTexts

LEMMA EmptyText == <<>> \in Text /\ \A t \in Text : t \o <<>> = t /\ <<>> \o t = t
BY ConcatEmptySeq DEF Text

\* A sequence made of one text for each item of another.
LEMMA TextForEach ==
    ASSUME NEW S, NEW s \in Seq(S), NEW f, f = [i \in DOMAIN s |-> f[i]],
           \A i \in DOMAIN s : f[i] \in Text
    PROVE  f \in Seq(Text) /\ Len(f) = Len(s) /\ FlattenSeq(f) \in Text
<1>1. Len(s) \in Nat /\ DOMAIN s = 1..Len(s)
  BY LenProperties
<1>2. f \in [1..Len(s) -> Text]
  BY <1>1
<1>3. f \in Seq(Text) /\ Len(f) = Len(s)
  BY <1>1, <1>2
<1>4. f \in Seq(Seq(Byte))
  BY <1>3 DEF Text
<1>5. QED
  BY <1>3, <1>4, FlattenMore DEF Text

LEMMA FieldBytesAreTexts ==
    ASSUME NEW header \in Seq(Field)
    PROVE  /\ FieldBytes(header) \in Seq(Text) /\ Len(FieldBytes(header)) = Len(header)
           /\ FlattenSeq(FieldBytes(header)) \in Text
<1> DEFINE f == FieldBytes(header)
<1>1. f = [i \in DOMAIN header |-> f[i]]
  BY DEF FieldBytes
<1>2. ASSUME NEW i \in DOMAIN header PROVE f[i] \in Text
  <2>1. header[i] \in Field
    BY ItemOfSeq
  <2>2. header[i].op \in Byte /\ header[i].value \in Sendable
    BY <2>1, OpcodesAreBytes DEF Field
  <2>3. f[i] = encode_string(header[i].op, header[i].value)
    BY DEF FieldBytes
  <2>4. QED
    BY <2>2, <2>3, StringIsText
<1> HIDE DEF f
<1>3. QED
  BY <1>1, <1>2, TextForEach DEF f

LEMMA EncodedPairIsText == \A pair \in Pair : EncodedPair(pair) \in Text
<1> TAKE pair \in Pair
<1>1. pair.key \in Sendable /\ pair.value \in Sendable
  BY DEF Pair
<1>2. CASE FieldOpcodes(pair.key) = {}
  BY <1>1, <1>2, KvpairIsText, OpcodesAreBytes DEF EncodedPair
<1>3. CASE FieldOpcodes(pair.key) # {}
  <2> DEFINE op == CHOOSE o \in FieldOpcodes(pair.key) : TRUE
  <2>1. op \in FieldOpcodes(pair.key)
    BY <1>3
  <2>2. op \in Byte
    BY <2>1, OpcodesAreBytes DEF FieldOpcodes
  <2>3. EncodedPair(pair) = encode_string(op, pair.value)
    BY <1>3 DEF EncodedPair
  <2> HIDE DEF op
  <2>4. QED
    BY <1>1, <2>2, <2>3, StringIsText
<1>4. QED
  BY <1>2, <1>3

LEMMA PairBytesAreTexts ==
    ASSUME NEW pairs \in Seq(Pair)
    PROVE  /\ PairBytes(pairs) \in Seq(Text) /\ Len(PairBytes(pairs)) = Len(pairs)
           /\ FlattenSeq(PairBytes(pairs)) \in Text
<1> DEFINE f == PairBytes(pairs)
<1>1. f = [i \in DOMAIN pairs |-> f[i]]
  BY DEF PairBytes
<1>2. ASSUME NEW i \in DOMAIN pairs PROVE f[i] \in Text
  BY ItemOfSeq, EncodedPairIsText DEF PairBytes
<1> HIDE DEF f
<1>3. QED
  BY <1>1, <1>2, TextForEach DEF f

LEMMA ArgBytesAreTexts ==
    ASSUME NEW args \in Seq(Pair)
    PROVE  /\ ArgBytes(args) \in Seq(Text) /\ Len(ArgBytes(args)) = Len(args)
           /\ FlattenSeq(ArgBytes(args)) \in Text
<1> DEFINE f == ArgBytes(args)
<1>1. f = [i \in DOMAIN args |-> f[i]]
  BY DEF ArgBytes
<1>2. ASSUME NEW i \in DOMAIN args PROVE f[i] \in Text
  <2>1. args[i] \in Pair
    BY ItemOfSeq
  <2>2. args[i].key \in Sendable /\ args[i].value \in Sendable
    BY <2>1 DEF Pair
  <2>3. f[i] = encode_kvpair(OP_TOOL_ARG, args[i].key, args[i].value)
    BY DEF ArgBytes
  <2>4. QED
    BY <2>2, <2>3, KvpairIsText, OpcodesAreBytes
<1> HIDE DEF f
<1>3. QED
  BY <1>1, <1>2, TextForEach DEF f

\* The bytes of a tool call behind its name: its method if it has one, its arguments.
MethodBytes(tool) ==
    IF tool.method = NoMethod THEN <<>> ELSE encode_string(OP_TOOL_METHOD, tool.method[1])

LEMMA MethodIs ==
    ASSUME NEW tool \in Tool
    PROVE  /\ tool.method = NoMethod \/ \E text \in Sendable : tool.method = <<text>>
           /\ MethodBytes(tool) \in Text
<1>1. tool.method \in Seq(Sendable) /\ Len(tool.method) <= 1
  BY DEF Tool
<1>2. CASE tool.method = NoMethod
  BY <1>2, EmptyText DEF MethodBytes
<1>3. CASE tool.method # NoMethod
  <2>1. Len(tool.method) = 1 /\ tool.method[1] \in Sendable
    <3>1. Len(tool.method) \in Nat /\ Len(tool.method) # 0
      BY <1>1, <1>3, EmptySeq, LenProperties DEF NoMethod
    <3>2. \A n \in Nat : n # 0 /\ n <= 1 => n = 1
      OBVIOUS
    <3>3. Len(tool.method) = 1
      BY <1>1, <3>1, <3>2, Zenon
    <3>4. 1 \in 1..Len(tool.method)
      BY <3>3
    <3>5. tool.method[1] \in Sendable
      BY <1>1, <3>4, ElementOfSeq
    <3>6. QED
      BY <3>3, <3>5
  <2>2. tool.method = <<tool.method[1]>>
    BY <1>1, <2>1
  <2>3. MethodBytes(tool) \in Text
    BY <1>3, <2>1, StringIsText, OpcodesAreBytes DEF MethodBytes
  <2>4. QED
    BY <2>1, <2>2, <2>3
<1>4. QED
  BY <1>2, <1>3

LEMMA EncodedToolIs ==
    ASSUME NEW tool \in Tool
    PROVE  /\ EncodedTool(tool) = encode_string(OP_TOOL_NAME, tool.name)
                                    \o (MethodBytes(tool) \o FlattenSeq(ArgBytes(tool.args)))
           /\ encode_string(OP_TOOL_NAME, tool.name) \in Text
           /\ MethodBytes(tool) \o FlattenSeq(ArgBytes(tool.args)) \in Text
           /\ EncodedTool(tool) \in Text
<1>1. tool.name \in Sendable /\ tool.args \in Seq(Pair)
  BY DEF Tool
<1> DEFINE n == encode_string(OP_TOOL_NAME, tool.name)
           m == MethodBytes(tool)
           a == FlattenSeq(ArgBytes(tool.args))
<1>2. n \in Text /\ m \in Text /\ a \in Text
  BY <1>1, StringIsText, OpcodesAreBytes, MethodIs, ArgBytesAreTexts
<1>3. EncodedTool(tool) = (n \o m) \o a
  BY DEF EncodedTool, MethodBytes, ArgBytes
<1> HIDE DEF n, m, a
<1>4. m \o a \in Text
  BY <1>2, TwoTexts
<1>5. (n \o m) \o a = n \o (m \o a)
  BY <1>2, ThreeTexts
<1>6. n \o (m \o a) \in Text
  BY <1>2, <1>4, TwoTexts
<1>7. QED
  BY <1>2, <1>3, <1>4, <1>5, <1>6 DEF n, m, a

LEMMA ToolBytesAreTexts ==
    ASSUME NEW tools \in Seq(Tool)
    PROVE  /\ ToolBytes(tools) \in Seq(Text) /\ Len(ToolBytes(tools)) = Len(tools)
           /\ FlattenSeq(ToolBytes(tools)) \in Text
<1> DEFINE f == ToolBytes(tools)
<1>1. f = [i \in DOMAIN tools |-> f[i]]
  BY DEF ToolBytes
<1>2. ASSUME NEW i \in DOMAIN tools PROVE f[i] \in Text
  BY ItemOfSeq, EncodedToolIs DEF ToolBytes
<1> HIDE DEF f
<1>3. QED
  BY <1>1, <1>2, TextForEach DEF f

\* The bytes of a statement: its role, its pairs, its tool calls and the end marker.
EndBytes == <<OP_END_STATEMENT>>

LEMMA EncodedStatementIs ==
    ASSUME NEW s \in Statement
    PROVE  /\ encode_statement(s.role, s.kvpairs, s.tool_calls) =
                encode_string(OP_ROLE, s.role)
                  \o (FlattenSeq(PairBytes(s.kvpairs))
                       \o (FlattenSeq(ToolBytes(s.tool_calls)) \o EndBytes))
           /\ encode_statement(s.role, s.kvpairs, s.tool_calls) \in Text
<1>1. s.role \in Sendable /\ s.kvpairs \in Seq(Pair) /\ s.tool_calls \in Seq(Tool)
  BY DEF Statement
<1> DEFINE n == encode_string(OP_ROLE, s.role)
           p == FlattenSeq(PairBytes(s.kvpairs))
           t == FlattenSeq(ToolBytes(s.tool_calls))
           x == EndBytes
<1>2. n \in Text /\ p \in Text /\ t \in Text /\ x \in Text
  BY <1>1, StringIsText, OpcodesAreBytes, PairBytesAreTexts, ToolBytesAreTexts, OneByte DEF EndBytes
<1>3. encode_statement(s.role, s.kvpairs, s.tool_calls) = ((n \o p) \o t) \o x
  BY DEF encode_statement, PairBytes, ToolBytes, EndBytes
<1> HIDE DEF n, p, t, x
<1>4. n \o p \in Text /\ t \o x \in Text
  BY <1>2, TwoTexts
<1>5. ((n \o p) \o t) \o x = (n \o p) \o (t \o x)
  <2> DEFINE q == n \o p
  <2>1. q \in Text
    BY <1>4
  <2> HIDE DEF q
  <2>2. (q \o t) \o x = q \o (t \o x)
    BY <1>2, <2>1, ThreeTexts
  <2>3. QED
    BY <2>2 DEF q
<1>6. (n \o p) \o (t \o x) = n \o (p \o (t \o x))
  BY <1>2, <1>4, ThreeTexts
<1>7. (n \o p) \o (t \o x) \in Text
  BY <1>4, TwoTexts
<1>8. QED
  BY <1>3, <1>5, <1>6, <1>7 DEF n, p, t, x

LEMMA StatementBytesAreTexts ==
    ASSUME NEW statements \in Seq(Statement)
    PROVE  /\ StatementBytes(statements) \in Seq(Text)
           /\ Len(StatementBytes(statements)) = Len(statements)
           /\ FlattenSeq(StatementBytes(statements)) \in Text
<1> DEFINE f == StatementBytes(statements)
<1>1. f = [i \in DOMAIN statements |-> f[i]]
  BY DEF StatementBytes
<1>2. ASSUME NEW i \in DOMAIN statements PROVE f[i] \in Text
  BY ItemOfSeq, EncodedStatementIs DEF StatementBytes
<1> HIDE DEF f
<1>3. QED
  BY <1>1, <1>2, TextForEach DEF f

-----------------------------------------------------------------------------
(* What the decoder keeps are texts, whatever bytes it is given.           *)

TextPair == [key : Text, value : Text]
TextTool == [name : Text, method : Seq(Text), args : Seq(TextPair)]
TextStatement == [role : Text, kvpairs : Seq(TextPair), tool_calls : Seq(TextTool)]

LEMMA CodecTypeIs ==
    CodecTypeOK <=>
        /\ phase \in {"build", "wire", "header", "statement", "done", "refused"}
        /\ buffer \in Text /\ pos \in 0..Len(buffer)
        /\ fields \in Seq([op : 1..OP_HR, value : Text])
        /\ data \in Seq(TextPair) /\ role \in Text /\ tool_calls \in Seq(TextTool)
        /\ received \in Seq(TextStatement)
BY DEF CodecTypeOK, IsPairs, IsTools, TextPair, TextTool, TextStatement

CodecTyped == CodecTypeOK /\ MapInv(Text, Text)

LEMMA AssignPreserves ==
    ASSUME NEW K, NEW V, MapInv(K, V), NEW k \in K, NEW v \in V, insert_or_assign(k, v)
    PROVE  MapInv(K, V)'
BY AddPreserves, OverwritePreserves DEF insert_or_assign

LEMMA EmptyMap ==
    ASSUME NEW K, NEW V
    PROVE  /\ Init => MapInv(K, V)
           /\ clear => MapInv(K, V)'
<1>1. Init => MapInv(K, V)
  BY DEF Init, MapInv, MapTyped, IndexMatchesData
<1>2. clear => MapInv(K, V)'
  BY DEF clear, MapInv, MapTyped, IndexMatchesData
<1>3. QED
  BY <1>1, <1>2

LEMMA AssignedIsPairs ==
    \A pairs \in Seq(TextPair), pair \in TextPair : Assigned(pairs, pair) \in Seq(TextPair)
<1> TAKE pairs \in Seq(TextPair), pair \in TextPair
<1>1. CASE \E i \in DOMAIN pairs : pairs[i].key = pair.key
  <2> DEFINE f == [i \in DOMAIN pairs |-> IF pairs[i].key = pair.key THEN pair ELSE pairs[i]]
  <2>1. Len(pairs) \in Nat /\ DOMAIN pairs = 1..Len(pairs)
    BY LenProperties
  <2>2. \A i \in DOMAIN pairs : pairs[i] \in TextPair
    BY ItemOfSeq
  <2>3. f \in [1..Len(pairs) -> TextPair]
    BY <2>1, <2>2
  <2>4. f \in Seq(TextPair)
    BY <2>1, <2>3
  <2>5. Assigned(pairs, pair) = f
    BY <1>1 DEF Assigned
  <2>6. QED
    BY <2>4, <2>5
<1>2. CASE ~ \E i \in DOMAIN pairs : pairs[i].key = pair.key
  BY <1>2, AppendProperties DEF Assigned
<1>3. QED
  BY <1>1, <1>2

LEMMA FieldKeysAreTexts == \A op \in DOMAIN field_keys : field_keys[op] \in Text
<1> TAKE op \in DOMAIN field_keys
<1>1. op \in (17..21) \cup (24..29)
  BY DEF field_keys
<1>2. \A a, b \in Byte : <<a, b>> \in Text
  BY DEF Text
<1>3. \A a, b, c \in Byte : <<a, b, c>> \in Text
  BY DEF Text
<1>4. {116, 103, 97, 99, 71, 76, 84, 68, 120, 101, 114, 113, 100, 112, 102, 110, 108, 115, 118}
      \subseteq Byte
  BY DEF Byte
<1>5. field_keys[op] \in
        { <<116, 103, 116>>, <<97, 99, 116>>, <<71, 76>>, <<84, 68>>, <<99, 116, 120>>,
          <<101, 114, 114>>, <<114, 101, 113>>, <<100, 101, 112>>, <<102, 110>>,
          <<99, 108, 115>>, <<118, 97, 114>> }
  BY <1>1 DEF field_keys
<1>6. QED
  BY <1>2, <1>3, <1>4, <1>5

\* The last tool call with another method, or other arguments.
LEMMA LastToolTyped ==
    ASSUME NEW calls \in Seq(TextTool), calls # <<>>
    PROVE  /\ \A text \in Text :
                [calls EXCEPT ![Len(calls)].method = <<text>>] \in Seq(TextTool)
           /\ \A pair \in TextPair :
                [calls EXCEPT ![Len(calls)].args = Assigned(@, pair)] \in Seq(TextTool)
<1> DEFINE n == Len(calls)
           With(x) == [calls EXCEPT ![n] = x]
<1>1. n \in 1..n /\ DOMAIN calls = 1..n
  BY EmptySeq, LenProperties
<1>2. calls[n] \in TextTool
  BY <1>1, ItemOfSeq
<1>3. \A x \in TextTool : With(x) \in Seq(TextTool)
  BY <1>1
<1>4. ASSUME NEW text \in Text
      PROVE  [calls EXCEPT ![n].method = <<text>>] \in Seq(TextTool)
  <2> DEFINE m == <<text>>
             x == [calls[n] EXCEPT !.method = m]
  <2>0. m \in Seq(Text)
    OBVIOUS
  <2> HIDE DEF m
  <2>1. x \in TextTool
    BY <1>2, <2>0 DEF TextTool
  <2>2. [calls EXCEPT ![n].method = <<text>>] = With(x)
    BY DEF m
  <2> HIDE DEF x, With
  <2>3. QED
    BY <1>3, <2>1, <2>2
<1>5. ASSUME NEW pair \in TextPair
      PROVE  [calls EXCEPT ![n].args = Assigned(@, pair)] \in Seq(TextTool)
  <2> DEFINE x == [calls[n] EXCEPT !.args = Assigned(@, pair)]
  <2>1. calls[n].args \in Seq(TextPair)
    BY <1>2, Zenon DEF TextTool
  <2>2. Assigned(calls[n].args, pair) \in Seq(TextPair)
    BY <2>1, AssignedIsPairs
  <2>3. x \in TextTool
    BY <1>2, <2>2 DEF TextTool
  <2>4. [calls EXCEPT ![n].args = Assigned(@, pair)] = With(x)
    OBVIOUS
  <2> HIDE DEF x, With
  <2>5. QED
    BY <1>3, <2>3, <2>4
<1>6. QED
  BY <1>4, <1>5

LEMMA FinishTyped ==
    ASSUME CodecTyped, NEW end \in 0..Len(buffer), FinishStatement(end)
    PROVE  CodecTyped'
<1> DEFINE s == [role |-> role, kvpairs |-> data, tool_calls |-> tool_calls]
<1>1. /\ buffer \in Text /\ fields \in Seq([op : 1..OP_HR, value : Text])
      /\ received \in Seq(TextStatement)
      /\ s \in TextStatement
  BY CodecTypeIs DEF CodecTyped, TextStatement
<1> HIDE DEF s
<1>2. received' = Append(received, s)
  BY DEF FinishStatement, s
<1>3. received' \in Seq(TextStatement)
  BY <1>1, <1>2, AppendProperties
<1>4. /\ role' = <<>> /\ tool_calls' = <<>> /\ clear /\ data' = <<>>
      /\ pos' = end /\ phase' \in {"statement", "done"} /\ buffer' = buffer /\ fields' = fields
  BY DEF FinishStatement, clear
<1>5. role' \in Text /\ tool_calls' \in Seq(TextTool) /\ data' \in Seq(TextPair)
  BY <1>4, EmptyText
<1>6. MapInv(Text, Text)'
  BY <1>4, EmptyMap
<1>7. CodecTypeOK'
  BY <1>1, <1>3, <1>4, <1>5 DEF CodecTypeOK, IsPairs, IsTools, TextPair, TextTool, TextStatement
<1>8. QED
  BY <1>6, <1>7 DEF CodecTyped

\* A round of decode_statement() that goes on.
LEMMA GoOnTyped ==
    ASSUME CodecTyped, NEW result, NEW S, GoOnBehind(result), Within(result, buffer, S),
           MapInv(Text, Text)', role' \in Text, tool_calls' \in Seq(TextTool)
    PROVE  CodecTyped'
<1>1. /\ result.pos \in 0..Len(buffer) /\ pos' = result.pos
      /\ UNCHANGED <<phase, buffer, fields, received>>
  BY DEF GoOnBehind, Within
<1>2. data' \in Seq(TextPair)
  BY DEF MapInv, MapTyped, TextPair
<1>3. /\ phase \in {"build", "wire", "header", "statement", "done", "refused"}
      /\ buffer \in Text /\ fields \in Seq([op : 1..OP_HR, value : Text])
      /\ received \in Seq(TextStatement)
  BY CodecTypeIs DEF CodecTyped
<1>4. CodecTypeOK'
  BY <1>1, <1>2, <1>3 DEF CodecTypeOK, IsPairs, IsTools, TextPair, TextTool, TextStatement
<1>5. QED
  BY <1>4 DEF CodecTyped

\* Every round of decode_statement() keeps the types.
LEMMA RoundTyped == ASSUME CodecTyped, DecodeStatement PROVE CodecTyped'
<1>1. /\ buffer \in Text /\ pos \in 0..Len(buffer) /\ Len(buffer) \in Nat
      /\ phase \in {"build", "wire", "header", "statement", "done", "refused"}
      /\ fields \in Seq([op : 1..OP_HR, value : Text])
      /\ data \in Seq(TextPair) /\ role \in Text /\ tool_calls \in Seq(TextTool)
      /\ received \in Seq(TextStatement)
      /\ MapInv(Text, Text)
  BY CodecTypeIs, LenProperties DEF CodecTyped, Text
<1>2. UNCHANGED vars => MapInv(Text, Text)'
  BY <1>1 DEF vars, MapInv, MapTyped, IndexMatchesData
<1>3. /\ UNCHANGED role => role' \in Text
      /\ UNCHANGED tool_calls => tool_calls' \in Seq(TextTool)
  BY <1>1
<1> DEFINE text == decode_string(buffer, pos)
           pair == decode_kvpair(buffer, pos)
<1>4. ASSUME NEW codes, AtOpcode(codes)
      PROVE  /\ Within(text, buffer, Text) /\ Within(pair, buffer, TextPair)
             /\ pos + 1 \in 0..Len(buffer)
  <2>1. pos \in 0..(Len(buffer) - 1)
    BY <1>1, <1>4 DEF AtOpcode
  <2>2. Within(text, buffer, Text)
    BY <1>1, <2>1, StringRange
  <2>3. Within(pair, buffer, TextPair)
    BY <1>1, <2>1, PairRange DEF TextPair
  <2>4. pos + 1 \in 0..Len(buffer)
    BY <1>1, <2>1
  <2>5. QED
    BY <2>2, <2>3, <2>4
<1> HIDE DEF text, pair
<1>5. CASE DecodeEnd
  <2>1. pos + 1 \in 0..Len(buffer) /\ FinishStatement(pos + 1)
    BY <1>4, <1>5 DEF DecodeEnd
  <2>2. QED
    BY <2>1, FinishTyped
<1>6. CASE RunOut
  BY <1>1, <1>6, FinishTyped DEF RunOut
<1>7. CASE RefuseStatement
  <2>1. Refuse
    BY <1>7 DEF RefuseStatement
  <2>2. phase' = "refused" /\ UNCHANGED <<vars, buffer, pos, fields, statement, received>>
    BY <2>1 DEF Refuse
  <2>3. UNCHANGED data
    BY <2>2 DEF vars
  <2>4. CodecTypeOK'
    BY <1>1, <2>2, <2>3
       DEF CodecTypeOK, IsPairs, IsTools, TextPair, TextTool, TextStatement, statement
  <2>5. QED
    BY <1>2, <2>2, <2>4 DEF CodecTyped
<1>8. CASE DecodeRole
  <2>1. Within(text, buffer, Text) /\ GoOnBehind(text) /\ role' = text.value
        /\ UNCHANGED <<vars, tool_calls>>
    BY <1>4, <1>8 DEF DecodeRole, text
  <2>2. role' \in Text
    BY <2>1 DEF Within, GoOnBehind
  <2>3. MapInv(Text, Text)' /\ tool_calls' \in Seq(TextTool)
    BY <1>2, <1>3, <2>1
  <2>4. QED
    BY <2>1, <2>2, <2>3, GoOnTyped
<1>9. CASE DecodePair
  <2>1. /\ Within(pair, buffer, TextPair) /\ GoOnBehind(pair)
        /\ insert_or_assign(pair.value.key, pair.value.value) /\ UNCHANGED statement
    BY <1>4, <1>9 DEF DecodePair, pair
  <2>2. pair.value.key \in Text /\ pair.value.value \in Text
    BY <2>1 DEF Within, GoOnBehind, TextPair
  <2>3. MapInv(Text, Text)'
    BY <1>1, <2>1, <2>2, AssignPreserves
  <2>4. role' \in Text /\ tool_calls' \in Seq(TextTool)
    BY <1>3, <2>1 DEF statement
  <2>5. QED
    BY <2>1, <2>3, <2>4, GoOnTyped
<1>10. CASE DecodeField
  <2>1. /\ Within(text, buffer, Text) /\ GoOnBehind(text)
        /\ op_byte \in DOMAIN field_keys
        /\ insert_or_assign(field_keys[op_byte], text.value) /\ UNCHANGED statement
    BY <1>4, <1>10 DEF DecodeField, AtOpcode, text
  <2>2. field_keys[op_byte] \in Text /\ text.value \in Text
    BY <2>1, FieldKeysAreTexts DEF Within, GoOnBehind
  <2>3. MapInv(Text, Text)'
    BY <1>1, <2>1, <2>2, AssignPreserves
  <2>4. role' \in Text /\ tool_calls' \in Seq(TextTool)
    BY <1>3, <2>1 DEF statement
  <2>5. QED
    BY <2>1, <2>3, <2>4, GoOnTyped
<1>11. CASE DecodeToolName
  <2> DEFINE tool == [name |-> text.value, method |-> NoMethod, args |-> <<>>]
  <2>1. /\ Within(text, buffer, Text) /\ GoOnBehind(text)
        /\ tool_calls' = Append(tool_calls, tool) /\ UNCHANGED <<vars, role>>
    BY <1>4, <1>11 DEF DecodeToolName, text
  <2>2. text.value \in Text
    BY <2>1 DEF Within, GoOnBehind
  <2>3. tool \in TextTool
    BY <2>2 DEF TextTool, NoMethod
  <2> HIDE DEF tool
  <2>4. tool_calls' \in Seq(TextTool)
    BY <1>1, <2>1, <2>3, AppendProperties
  <2>5. QED
    BY <1>2, <1>3, <2>1, <2>4, GoOnTyped
<1>12. CASE DecodeToolMethod
  <2>1. /\ Within(text, buffer, Text) /\ GoOnBehind(text) /\ tool_calls # <<>>
        /\ tool_calls' = [tool_calls EXCEPT ![Len(tool_calls)].method = <<text.value>>]
        /\ UNCHANGED <<vars, role>>
    BY <1>4, <1>12 DEF DecodeToolMethod, text
  <2>2. text.value \in Text
    BY <2>1 DEF Within, GoOnBehind
  <2>3. tool_calls' \in Seq(TextTool)
    BY <1>1, <2>1, <2>2, LastToolTyped
  <2>4. QED
    BY <1>2, <1>3, <2>1, <2>3, GoOnTyped
<1>13. CASE DecodeToolArg
  <2>1. /\ Within(pair, buffer, TextPair) /\ GoOnBehind(pair) /\ tool_calls # <<>>
        /\ tool_calls' = [tool_calls EXCEPT ![Len(tool_calls)].args = Assigned(@, pair.value)]
        /\ UNCHANGED <<vars, role>>
    BY <1>4, <1>13 DEF DecodeToolArg, pair
  <2>2. pair.value \in TextPair
    BY <2>1 DEF Within, GoOnBehind
  <2>3. tool_calls' \in Seq(TextTool)
    BY <1>1, <2>1, <2>2, LastToolTyped
  <2>4. QED
    BY <1>2, <1>3, <2>1, <2>3, GoOnTyped
<1>14. QED
  BY <1>5, <1>6, <1>7, <1>8, <1>9, <1>10, <1>11, <1>12, <1>13 DEF DecodeStatement

-----------------------------------------------------------------------------
(* Readers of a buffer that may have been cut short.                       *)

\* t is the first items of s.
Begun(t, s) == Len(t) <= Len(s) /\ \A i \in 1..Len(t) : t[i] = s[i]

\* What a reader of b has read of a buffer that begins with b and has v and r ahead:
\* v; or nothing, for it threw; or `lost`, with all of b used up.
ReadCut(result, b, w, v, lost, r) ==
    \/ result.ok /\ result.value = v /\ result.pos <= Len(b) /\ Ahead(w, result.pos, r)
    \/ b # w /\ ~result.ok
    \/ b # w /\ result.ok /\ result.value = lost /\ result.pos = Len(b)

LEMMA BytesAreInts == \A x \in Byte : x \in Int
BY DEF Byte

\* A text whose bytes are all there is read.
LEMMA TextAt ==
    ASSUME NEW b \in Text, NEW at \in 0..Len(b), NEW t \in Sendable,
           HasAt(b, at, encode_varint(Len(t))),
           HasAt(b, at + Len(encode_varint(Len(t))), t)
    PROVE  DecodedText(b, at) = [ok |-> TRUE, value |-> t,
                                 pos |-> at + Len(encode_varint(Len(t))) + Len(t)]
<1> DEFINE e == encode_varint(Len(t))
           p == at + Len(e)
           end == p + Len(t)
<1>1. e \in Text /\ t \in Text /\ Len(t) \in Nat /\ Len(t) <= MaxLength
  BY LengthenedIsText
<1>2. decode_varint(b, at) = [ok |-> TRUE, value |-> Len(t), pos |-> p]
  BY <1>1, VarintDecodes
<1>3. HasAt(b, p, t) /\ at \in 0..Len(b) /\ Len(e) \in Nat
  BY <1>1, LenProperties DEF Text
<1> HIDE DEF e
<1>4. Len(b) \in Nat /\ p \in Nat /\ end \in Nat /\ end <= Len(b) /\ end = p + Len(t)
  BY <1>1, <1>3, LenProperties DEF Text, HasAt
<1> HIDE DEF p
<1> HIDE DEF end
<1>5. SubSeq(b, p + 1, end) = t
  <2> DEFINE s == SubSeq(b, p + 1, end)
  <2>1. \A i \in (p + 1)..end : b[i] \in Byte
    BY <1>4, ElementOfSeq DEF Text
  <2>2. /\ s \in Seq(Byte)
        /\ Len(s) = IF p + 1 <= end THEN end - (p + 1) + 1 ELSE 0
        /\ \A i \in 1..(end - (p + 1) + 1) : s[i] = b[p + 1 + i - 1]
    BY <1>4, <2>1, SubSeqProperties
  <2> HIDE DEF s
  <2>3. Len(s) = Len(t) /\ end - (p + 1) + 1 = Len(t) /\ \A i \in 1..Len(t) : p + 1 + i - 1 = p + i
    <3>1. end - (p + 1) + 1 = Len(t) /\ \A i \in 1..Len(t) : p + 1 + i - 1 = p + i
      BY <1>1, <1>4
    <3>2. CASE p + 1 <= end
      BY <2>2, <3>1, <3>2
    <3>3. CASE ~(p + 1 <= end)
      <4>1. Len(t) = 0
        BY <1>1, <1>4, <3>3
      <4>2. QED
        BY <2>2, <3>1, <3>3, <4>1
    <3>4. QED
      BY <3>1, <3>2, <3>3
  <2>4. \A i \in 1..Len(s) : s[i] = t[i]
    BY <1>3, <2>2, <2>3 DEF HasAt
  <2>5. s = t
    BY <1>1, <2>2, <2>3, <2>4, SeqEqual DEF Text
  <2>6. QED
    BY <2>5 DEF s
<1>6. DecodedText(b, at) = [ok |-> TRUE, value |-> t, pos |-> end]
  <2> DEFINE length == decode_varint(b, at)
  <2>1. length.ok = TRUE /\ length.value = Len(t) /\ length.pos = p
    BY <1>2
  <2> HIDE DEF length
  <2>2. length.pos + length.value = end /\ ~(end > Len(b))
    BY <1>4, <2>1
  <2>3. DecodedText(b, at) =
          IF ~length.ok \/ length.pos + length.value > Len(b) THEN Refused(at)
          ELSE [ok |-> TRUE, value |-> SubSeq(b, length.pos + 1, length.pos + length.value),
                pos |-> length.pos + length.value]
    BY DEF DecodedText, length
  <2>4. QED
    BY <1>5, <2>1, <2>2, <2>3
<1>7. QED
  BY <1>6 DEF e, p, end

\* A length that was cut off, all of whose bytes that are left say that another one
\* follows, uses the buffer up; and with it goes a text that is empty, or none.
LEMMA CutLength ==
    ASSUME NEW b \in Text, NEW at \in 0..Len(b), Len(b) - at <= 5,
           \A i \in (at + 1)..Len(b) : b[i] >= Continued
    PROVE  DecodedText(b, at).ok =>
             DecodedText(b, at).value = <<>> /\ DecodedText(b, at).pos = Len(b)
<1> SUFFICES ASSUME DecodedText(b, at).ok
             PROVE  DecodedText(b, at).value = <<>> /\ DecodedText(b, at).pos = Len(b)
  OBVIOUS
<1> DEFINE size == VarintSize(b, at)
           value == VarintValue(b, at, size)
           length == decode_varint(b, at)
           end == length.pos + length.value
<1>1. length.ok /\ ~(end > Len(b))
  BY DEF DecodedText, Refused
<1>2. DecodedText(b, at) = [ok |-> TRUE, value |-> SubSeq(b, length.pos + 1, end), pos |-> end]
  BY <1>1 DEF DecodedText
<1>3. length.value \in Nat /\ length.pos \in 0..Len(b)
  BY <1>1, VarintRange
<1>4. ~(at >= Len(b)) /\ length.pos = at + size
  BY <1>1 DEF decode_varint, Refused
<1>5. Len(b) \in Nat /\ at \in Nat
  BY LenProperties DEF Text
<1>6. {n \in 1..5 : at + n <= Len(b) /\ b[at + n] < Continued} = {}
  <2> SUFFICES ASSUME NEW n \in 1..5, at + n <= Len(b), b[at + n] < Continued PROVE FALSE
    OBVIOUS
  <2>1. PICK i : i = at + n
    OBVIOUS
  <2>2. i \in (at + 1)..Len(b) /\ i \in 1..Len(b)
    BY <1>5, <2>1
  <2>3. b[i] \in Byte
    BY <2>2, ElementOfSeq DEF Text
  <2>4. b[i] >= Continued /\ b[i] < Continued
    BY <2>1, <2>2
  <2>5. b[i] \in Int
    BY <2>3, BytesAreInts, Zenon
  <2>6. QED
    BY <2>4, <2>5 DEF Continued
<1>7. size = Len(b) - at
  BY <1>6 DEF VarintSize
<1> HIDE DEF size, length
<1>8. length.pos = Len(b) /\ length.value = 0
  BY <1>1, <1>3, <1>4, <1>5, <1>7
<1>9. end = Len(b) /\ SubSeq(b, length.pos + 1, end) = <<>>
  <2>1. end = Len(b)
    BY <1>5, <1>8
  <2>2. SubSeq(b, Len(b) + 1, Len(b)) = <<>>
    <3>1. Len(b) + 1 \in Int /\ Len(b) \in Int /\ Len(b) < Len(b) + 1
      BY <1>5
    <3>2. QED
      BY <3>1, SubSeqEmpty DEF Text
  <2>3. QED
    BY <1>8, <2>1, <2>2
<1>10. QED
  BY <1>2, <1>9

LEMMA CutTextDecodes ==
    ASSUME NEW b \in Text, NEW w \in Text, Begun(b, w), NEW at \in 0..Len(b),
           NEW t \in Sendable, NEW r \in Text, Ahead(w, at, Lengthened(t) \o r)
    PROVE  ReadCut(DecodedText(b, at), b, w, t, <<>>, r)
<1> DEFINE e == encode_varint(Len(t))
           p == at + Len(e)
           end == p + Len(t)
<1>1. e \in Text /\ t \in Text /\ Len(t) \in Nat /\ Len(t) <= MaxLength
  BY LengthenedIsText
<1>2. PICK size \in 1..5 : Len(e) = size /\ \A n \in 1..size : e[n] < Continued <=> n = size
  BY <1>1, VarintForm
<1>3. Ahead(w, at, e \o (t \o r)) /\ t \o r \in Text
  <2>1. Lengthened(t) = e \o t
    BY DEF Lengthened
  <2> HIDE DEF e
  <2>2. t \o r \in Text
    BY <1>1, TwoTexts
  <2>3. (e \o t) \o r = e \o (t \o r)
    BY <1>1, ThreeTexts
  <2>4. QED
    BY <2>1, <2>2, <2>3
<1>4. HasAt(w, at, e) /\ Ahead(w, p, t \o r)
  <2> HIDE DEF e
  <2>1. QED
    BY <1>1, <1>3, ReadOn
<1>5. HasAt(w, p, t) /\ Ahead(w, end, r)
  <2> HIDE DEF p
  <2>1. QED
    BY <1>1, <1>4, ReadOn
<1>6. Len(b) \in Nat /\ Len(w) \in Nat /\ at \in Nat /\ p = at + size /\ Len(b) <= Len(w)
      /\ p \in Nat /\ end \in Nat
      /\ \A i \in 1..Len(b) : b[i] = w[i]
  <2>1. Len(b) \in Nat /\ Len(w) \in Nat
    BY LenProperties DEF Text
  <2> HIDE DEF e
  <2>2. QED
    BY <1>1, <1>2, <2>1 DEF Begun
<1>7. CASE end <= Len(b)
  <2>1. HasAt(b, at, e)
    <3> HIDE DEF e
    <3>1. \A n \in 1..Len(e) : w[at + n] = e[n] /\ at + n \in 1..Len(b)
      BY <1>1, <1>2, <1>4, <1>6, <1>7 DEF HasAt
    <3>2. at + Len(e) <= Len(b)
      BY <1>1, <1>2, <1>6, <1>7
    <3>3. QED
      BY <1>6, <3>1, <3>2 DEF HasAt
  <2>2. HasAt(b, p, t)
    <3> HIDE DEF p
    <3>1. \A n \in 1..Len(t) : w[p + n] = t[n] /\ p + n \in 1..Len(b)
      BY <1>1, <1>5, <1>6, <1>7 DEF HasAt
    <3>2. p + Len(t) <= Len(b)
      BY <1>7
    <3>3. QED
      BY <1>6, <3>1, <3>2 DEF HasAt
  <2>3. DecodedText(b, at) = [ok |-> TRUE, value |-> t, pos |-> end]
    BY <2>1, <2>2, TextAt
  <2> HIDE DEF end
  <2>4. QED
    BY <1>5, <1>7, <2>3 DEF ReadCut
<1>8. CASE ~(end <= Len(b)) /\ p <= Len(b)
  <2>1. HasAt(b, at, e)
    <3> HIDE DEF e
    <3>1. \A n \in 1..Len(e) : w[at + n] = e[n] /\ at + n \in 1..Len(b)
      BY <1>1, <1>2, <1>4, <1>6, <1>8 DEF HasAt
    <3>2. at + Len(e) <= Len(b)
      BY <1>8
    <3>3. QED
      BY <1>6, <3>1, <3>2 DEF HasAt
  <2>2. decode_varint(b, at) = [ok |-> TRUE, value |-> Len(t), pos |-> p]
    BY <1>1, <2>1, VarintDecodes
  <2>3. ~DecodedText(b, at).ok
    <3> DEFINE length == decode_varint(b, at)
    <3>1. length.pos + length.value = end
      BY <2>2
    <3>2. end > Len(b)
      BY <1>6, <1>8
    <3> HIDE DEF length, end
    <3>3. DecodedText(b, at) = Refused(at)
      BY <3>1, <3>2 DEF DecodedText, length
    <3>4. QED
      BY <3>3 DEF Refused
  <2>4. b # w
    BY <1>5, <1>8 DEF HasAt
  <2>5. QED
    BY <2>3, <2>4 DEF ReadCut
<1>9. CASE ~(p <= Len(b))
  <2>1. Len(b) - at <= 5 /\ Len(b) - at < size
    BY <1>2, <1>6, <1>9
  <2>2. ASSUME NEW i \in (at + 1)..Len(b) PROVE b[i] >= Continued
    <3> HIDE DEF e
    <3>1. PICK n \in 1..size : n = i - at /\ n # size
      BY <1>6, <2>1
    <3>2. w[at + n] = e[n] /\ at + n = i
      BY <1>2, <1>4, <1>6, <3>1 DEF HasAt
    <3>3. b[i] = e[n] /\ ~(e[n] < Continued)
      BY <1>2, <1>6, <3>1, <3>2
    <3>4. b[i] \in Int
      <4>1. i \in 1..Len(b)
        BY <1>6
      <4>2. b[i] \in Byte
        BY <4>1, ElementOfSeq DEF Text
      <4>3. QED
        BY <4>2, BytesAreInts, Zenon
    <3>5. e[n] \in Int
      BY <3>3, <3>4
    <3>6. QED
      BY <3>3, <3>4, <3>5 DEF Continued
  <2>3. DecodedText(b, at).ok =>
          DecodedText(b, at).value = <<>> /\ DecodedText(b, at).pos = Len(b)
    BY <2>1, <2>2, CutLength
  <2>4. b # w
    BY <1>4, <1>9 DEF HasAt
  <2>5. QED
    BY <2>3, <2>4 DEF ReadCut
<1>10. QED
  BY <1>7, <1>8, <1>9

\* The same for decode_string() and decode_kvpair(): a key that was cut off leaves no
\* byte for the value, which makes decode_kvpair() throw.
LEMMA CutStringDecodes ==
    ASSUME NEW b \in Text, NEW w \in Text, Begun(b, w), NEW at \in Nat, at < Len(b),
           NEW op \in Byte, NEW t \in Sendable, NEW r \in Text,
           Ahead(w, at, encode_string(op, t) \o r)
    PROVE  b[at + 1] = op /\ ReadCut(decode_string(b, at), b, w, t, <<>>, r)
<1> DEFINE o == <<op>>
<1>1. o \in Text /\ Lengthened(t) \in Text
  BY OneByte, LengthenedIsText
<1>2. encode_string(op, t) = o \o Lengthened(t)
  BY DEF encode_string
<1> HIDE DEF o
<1>3. (o \o Lengthened(t)) \o r = o \o (Lengthened(t) \o r) /\ Lengthened(t) \o r \in Text
  <2>1. Lengthened(t) \o r \in Text
    BY <1>1, TwoTexts
  <2>2. (o \o Lengthened(t)) \o r = o \o (Lengthened(t) \o r)
    BY <1>1, ThreeTexts
  <2>3. QED
    BY <2>1, <2>2
<1>4. Ahead(w, at, <<op>> \o (Lengthened(t) \o r))
  BY <1>2, <1>3 DEF o
<1>5. w[at + 1] = op /\ Ahead(w, at + 1, Lengthened(t) \o r)
  BY <1>3, <1>4, OpcodeSeen
<1>6. Len(b) \in Nat /\ at + 1 \in 0..Len(b) /\ at + 1 \in 1..Len(b)
  BY LenProperties DEF Text
<1>7. b[at + 1] = op
  BY <1>5, <1>6 DEF Begun
<1>8. ReadCut(DecodedText(b, at + 1), b, w, t, <<>>, r)
  BY <1>5, <1>6, CutTextDecodes
<1>9. QED
  BY <1>7, <1>8 DEF decode_string

LEMMA CutPairDecodes ==
    ASSUME NEW b \in Text, NEW w \in Text, Begun(b, w), NEW at \in Nat, at < Len(b),
           NEW op \in Byte, NEW k \in Sendable, NEW v \in Sendable, NEW r \in Text,
           Ahead(w, at, encode_kvpair(op, k, v) \o r)
    PROVE  /\ b[at + 1] = op
           /\ ReadCut(decode_kvpair(b, at), b, w, [key |-> k, value |-> v],
                      [key |-> k, value |-> <<>>], r)
<1> DEFINE lk == Lengthened(k)
           lv == Lengthened(v)
           o == <<op>>
<1>1. o \in Text /\ lk \in Text /\ lv \in Text
  BY OneByte, LengthenedIsText
<1>2. encode_kvpair(op, k, v) = (o \o lk) \o lv
  BY DEF encode_kvpair
<1> HIDE DEF lk, lv, o
<1>3. /\ lv \o r \in Text /\ lk \o (lv \o r) \in Text
      /\ ((o \o lk) \o lv) \o r = o \o (lk \o (lv \o r))
  <2>1. o \o lk \in Text
    BY <1>1, TwoTexts, ThreeTexts, Zenon
  <2>2. ((o \o lk) \o lv) \o r = (o \o lk) \o (lv \o r) /\ lv \o r \in Text
    BY <1>1, <2>1, TwoTexts, ThreeTexts, Zenon
  <2>3. (o \o lk) \o (lv \o r) = o \o (lk \o (lv \o r)) /\ lk \o (lv \o r) \in Text
    <3>1. lk \o (lv \o r) \in Text
      BY <1>1, <2>2, TwoTexts
    <3>2. (o \o lk) \o (lv \o r) = o \o (lk \o (lv \o r))
      <4>1. \A t \in Text : (o \o lk) \o t = o \o (lk \o t)
        BY <1>1, ThreeTexts, Zenon
      <4>2. QED
        BY <2>2, <4>1, Zenon
    <3>3. QED
      BY <3>1, <3>2
  <2>4. QED
    BY <2>2, <2>3
<1>4. Ahead(w, at, <<op>> \o (lk \o (lv \o r)))
  BY <1>2, <1>3 DEF o
<1>5. w[at + 1] = op /\ Ahead(w, at + 1, lk \o (lv \o r))
  BY <1>3, <1>4, OpcodeSeen
<1>6. Len(b) \in Nat /\ at + 1 \in 0..Len(b) /\ at + 1 \in 1..Len(b)
  BY LenProperties DEF Text
<1>7. b[at + 1] = op
  BY <1>5, <1>6 DEF Begun
<1> DEFINE key == DecodedText(b, at + 1)
           val == DecodedText(b, key.pos)
<1>8. ReadCut(key, b, w, k, <<>>, lv \o r)
  BY <1>3, <1>5, <1>6, CutTextDecodes DEF lk
<1>9. decode_kvpair(b, at) =
        IF ~key.ok \/ ~val.ok THEN Refused(at)
        ELSE [ok |-> TRUE, value |-> [key |-> key.value, value |-> val.value], pos |-> val.pos]
  BY DEF decode_kvpair
<1>10. (~key.ok \/ ~val.ok) => ~decode_kvpair(b, at).ok
  BY <1>9 DEF Refused
<1>11. key.ok => key.pos \in 0..Len(b)
  BY <1>6, TextRange DEF Within
<1> HIDE DEF key
<1>12. CASE key.ok /\ key.value = k /\ Ahead(w, key.pos, lv \o r)
  <2>1. ReadCut(val, b, w, v, <<>>, r)
    BY <1>11, <1>12, CutTextDecodes DEF lv
  <2> HIDE DEF val
  <2>2. CASE ~val.ok
    BY <1>7, <1>10, <2>1, <2>2 DEF ReadCut
  <2>3. CASE val.ok
    <3>1. decode_kvpair(b, at) =
            [ok |-> TRUE, value |-> [key |-> k, value |-> val.value], pos |-> val.pos]
      BY <1>9, <1>12, <2>3
    <3>2. PICK kv : kv = decode_kvpair(b, at)
      OBVIOUS
    <3>3. kv.ok /\ kv.value = [key |-> k, value |-> val.value] /\ kv.pos = val.pos
      BY <3>1, <3>2
    <3>4. CASE val.value = v /\ val.pos <= Len(b) /\ Ahead(w, val.pos, r)
      <4>1. kv.value = [key |-> k, value |-> v]
        BY <3>3, <3>4
      <4>2. QED
        BY <1>7, <3>2, <3>3, <3>4, <4>1 DEF ReadCut
    <3>5. CASE b # w /\ val.value = <<>> /\ val.pos = Len(b)
      <4>1. kv.value = [key |-> k, value |-> <<>>]
        BY <3>3, <3>5
      <4>2. QED
        BY <1>7, <3>2, <3>3, <3>5, <4>1 DEF ReadCut
    <3>6. QED
      BY <2>1, <2>3, <3>4, <3>5 DEF ReadCut
  <2>4. QED
    BY <2>2, <2>3
<1>13. CASE b # w /\ ~key.ok
  BY <1>7, <1>10, <1>13 DEF ReadCut
<1>14. CASE b # w /\ key.ok /\ key.pos = Len(b)
  <2>1. ~val.ok
    <3>1. ~decode_varint(b, Len(b)).ok
      BY <1>6 DEF decode_varint, Refused
    <3>2. ~DecodedText(b, Len(b)).ok
      BY <3>1 DEF DecodedText, Refused
    <3>3. QED
      BY <1>14, <3>2
  <2>2. QED
    BY <1>7, <1>10, <1>14, <2>1 DEF ReadCut
<1>15. QED
  BY <1>7, <1>8, <1>12, <1>13, <1>14 DEF ReadCut

-----------------------------------------------------------------------------
(* A round of decode_statement() in front of what the encoder wrote.       *)

\* If there are bytes left, the opcode says what happens.
LEMMA RoundByOpcode ==
    ASSUME DecodeStatement, pos < Len(buffer), pos \in Nat, Len(buffer) \in Nat
    PROVE  \/ RefuseStatement
           \/ op_byte = OP_END_STATEMENT /\ DecodeEnd
           \/ op_byte = OP_ROLE /\ DecodeRole
           \/ op_byte = OP_KV /\ DecodePair
           \/ op_byte \in DOMAIN field_keys /\ DecodeField
           \/ op_byte = OP_TOOL_NAME /\ DecodeToolName
           \/ op_byte = OP_TOOL_METHOD /\ DecodeToolMethod
           \/ op_byte = OP_TOOL_ARG /\ DecodeToolArg
<1>1. ~RunOut
  BY DEF RunOut
<1>2. QED
  BY <1>1 DEF DecodeStatement, DecodeEnd, DecodeRole, DecodePair, DecodeField, DecodeToolName,
              DecodeToolMethod, DecodeToolArg, AtOpcode

LEMMA OpcodesDiffer ==
    /\ DOMAIN field_keys = (17..21) \cup (24..29)
    /\ DOMAIN field_keys \cap {OP_END_STATEMENT, OP_ROLE, OP_KV, OP_TOOL_NAME, OP_TOOL_METHOD,
                               OP_TOOL_ARG} = {}
BY DEF field_keys, OP_END_STATEMENT, OP_ROLE, OP_KV, OP_TOOL_NAME, OP_TOOL_METHOD, OP_TOOL_ARG

\* The buffer that arrived is the first bytes of the one that was encoded, or all.
CutShort == sent.buffer \in Text /\ Begun(buffer, sent.buffer)

\* What a round has taken from the buffer: v, with r ahead in the whole buffer; or
\* `lost`, with nothing left in the one that arrived.
Took(value, v, lost, r) ==
    \/ value = v /\ Ahead(sent.buffer, pos', r)
    \/ value = lost /\ pos' = Len(buffer) /\ ~Intact

\* What a round does that has read `result` and goes on.
LEMMA ReadAndGoOn ==
    ASSUME NEW result, NEW v, NEW lost, NEW r, GoOnBehind(result),
           ReadCut(result, buffer, sent.buffer, v, lost, r)
    PROVE  /\ Took(result.value, v, lost, r)
           /\ UNCHANGED <<phase, buffer, fields, received, sent>>
BY DEF ReadCut, GoOnBehind, Took, Intact

\* What was encoded is thrown for only if it was cut off.
RefusedForTheCut == Refuse /\ ~Intact

LEMMA RoleRound ==
    ASSUME CodecTyped, CutShort, DecodeStatement, pos < Len(buffer),
           NEW t \in Sendable, NEW r \in Text,
           Ahead(sent.buffer, pos, encode_string(OP_ROLE, t) \o r)
    PROVE  \/ RefusedForTheCut
           \/ /\ Took(role', t, <<>>, r)
              /\ UNCHANGED <<phase, buffer, fields, received, sent, vars, tool_calls>>
<1> DEFINE text == decode_string(buffer, pos)
<1>1. buffer \in Text /\ sent.buffer \in Text /\ Begun(buffer, sent.buffer) /\ pos \in Nat
      /\ Len(buffer) \in Nat
  BY CodecTypeIs, LenProperties DEF CodecTyped, CutShort, Text
<1>2. op_byte = OP_ROLE /\ ReadCut(text, buffer, sent.buffer, t, <<>>, r)
  BY <1>1, CutStringDecodes, OpcodesAreBytes DEF op_byte
<1>3. CASE RefuseStatement
  <2>1. ~MayDecode /\ Refuse
    BY <1>3 DEF RefuseStatement
  <2>2. ~text.ok
    BY <1>2, <2>1, OpcodesDiffer
       DEF MayDecode, OP_END_STATEMENT, OP_ROLE, OP_KV, OP_TOOL_NAME, OP_TOOL_METHOD,
           OP_TOOL_ARG
  <2>3. QED
    BY <1>2, <2>1, <2>2 DEF ReadCut, RefusedForTheCut, Intact
<1>4. CASE ~RefuseStatement
  <2>1. DecodeRole
    BY <1>1, <1>2, <1>4, RoundByOpcode, OpcodesDiffer
       DEF OP_END_STATEMENT, OP_ROLE, OP_KV, OP_TOOL_NAME, OP_TOOL_METHOD, OP_TOOL_ARG
  <2>2. GoOnBehind(text) /\ role' = text.value /\ UNCHANGED <<vars, tool_calls>>
    BY <2>1 DEF DecodeRole
  <2> HIDE DEF text
  <2>3. QED
    BY <1>2, <2>2, ReadAndGoOn
<1>5. QED
  BY <1>3, <1>4

LEMMA EndRound ==
    ASSUME CodecTyped, CutShort, DecodeStatement, pos < Len(buffer), NEW r \in Text,
           Ahead(sent.buffer, pos, EndBytes \o r)
    PROVE  Ahead(sent.buffer, pos + 1, r) /\ FinishStatement(pos + 1)
<1>1. buffer \in Text /\ sent.buffer \in Text /\ Begun(buffer, sent.buffer) /\ pos \in Nat
      /\ Len(buffer) \in Nat
  BY CodecTypeIs, LenProperties DEF CodecTyped, CutShort, Text
<1>2. sent.buffer[pos + 1] = OP_END_STATEMENT /\ Ahead(sent.buffer, pos + 1, r)
  BY <1>1, OpcodeSeen, OpcodesAreBytes DEF EndBytes
<1>3. op_byte = OP_END_STATEMENT
  BY <1>1, <1>2 DEF Begun, op_byte
<1>4. ~RefuseStatement
  BY <1>3, OpcodesDiffer
     DEF RefuseStatement, MayDecode, OP_END_STATEMENT, OP_ROLE, OP_KV, OP_TOOL_NAME,
         OP_TOOL_METHOD, OP_TOOL_ARG
<1>5. DecodeEnd
  BY <1>1, <1>3, <1>4, RoundByOpcode, OpcodesDiffer
     DEF OP_END_STATEMENT, OP_ROLE, OP_KV, OP_TOOL_NAME, OP_TOOL_METHOD, OP_TOOL_ARG
<1>6. QED
  BY <1>2, <1>5 DEF DecodeEnd

\* A pair is stored, whether it has an opcode of its own or comes with its key.
LEMMA PairRound ==
    ASSUME CodecTyped, CutShort, DecodeStatement, pos < Len(buffer),
           NEW pair \in Pair, NEW r \in Text,
           Ahead(sent.buffer, pos, EncodedPair(pair) \o r)
    PROVE  \/ RefusedForTheCut
           \/ \E value \in Text :
                /\ insert_or_assign(pair.key, value) /\ Took(value, pair.value, <<>>, r)
                /\ UNCHANGED <<phase, buffer, fields, received, sent, statement>>
<1>1. buffer \in Text /\ sent.buffer \in Text /\ Begun(buffer, sent.buffer) /\ pos \in Nat
      /\ Len(buffer) \in Nat
  BY CodecTypeIs, LenProperties DEF CodecTyped, CutShort, Text
<1>2. /\ pair.key \in Sendable /\ pair.value \in Sendable
      /\ pair.value \in Text /\ <<>> \in Text
  BY EmptyText DEF Pair, Sendable
<1>3. CASE FieldOpcodes(pair.key) = {}
  <2> DEFINE result == decode_kvpair(buffer, pos)
             v == [key |-> pair.key, value |-> pair.value]
             lost == [key |-> pair.key, value |-> <<>>]
  <2>1. Ahead(sent.buffer, pos, encode_kvpair(OP_KV, pair.key, pair.value) \o r)
    BY <1>3 DEF EncodedPair
  <2>2. op_byte = OP_KV /\ ReadCut(result, buffer, sent.buffer, v, lost, r)
    BY <1>1, <1>2, <2>1, CutPairDecodes, OpcodesAreBytes DEF op_byte
  <2>3. CASE RefuseStatement
    <3>1. ~MayDecode /\ Refuse
      BY <2>3 DEF RefuseStatement
    <3>2. ~result.ok
      BY <2>2, <3>1, OpcodesDiffer
         DEF MayDecode, OP_END_STATEMENT, OP_ROLE, OP_KV, OP_TOOL_NAME, OP_TOOL_METHOD,
             OP_TOOL_ARG
    <3> HIDE DEF result
    <3>3. QED
      BY <2>2, <3>1, <3>2 DEF ReadCut, RefusedForTheCut, Intact
  <2>4. CASE ~RefuseStatement
    <3>1. DecodePair
      BY <1>1, <2>2, <2>4, RoundByOpcode, OpcodesDiffer
         DEF OP_END_STATEMENT, OP_ROLE, OP_KV, OP_TOOL_NAME, OP_TOOL_METHOD, OP_TOOL_ARG
    <3>2. /\ GoOnBehind(result) /\ insert_or_assign(result.value.key, result.value.value)
          /\ UNCHANGED statement
      BY <3>1 DEF DecodePair
    <3> HIDE DEF result
    <3>3. Took(result.value, v, lost, r) /\ UNCHANGED <<phase, buffer, fields, received, sent>>
      <4> HIDE DEF v, lost
      <4>1. QED
        BY <2>2, <3>2, ReadAndGoOn
    <3>4. result.value.key = pair.key /\ result.value.value \in Text
          /\ Took(result.value.value, pair.value, <<>>, r)
      BY <1>2, <3>3 DEF Took
    <3>5. QED
      BY <3>2, <3>3, <3>4
  <2>5. QED
    BY <2>3, <2>4
<1>4. CASE FieldOpcodes(pair.key) # {}
  <2> DEFINE op == CHOOSE o \in FieldOpcodes(pair.key) : TRUE
             result == decode_string(buffer, pos)
  <2>1. op \in DOMAIN field_keys /\ field_keys[op] = pair.key
    BY <1>4 DEF FieldOpcodes
  <2>2. EncodedPair(pair) = encode_string(op, pair.value)
    BY <1>4 DEF EncodedPair
  <2> HIDE DEF op
  <2>3. op_byte = op /\ ReadCut(result, buffer, sent.buffer, pair.value, <<>>, r)
    BY <1>1, <1>2, <2>1, <2>2, CutStringDecodes, OpcodesAreBytes DEF op_byte
  <2>4. op_byte \in DOMAIN field_keys
    BY <2>1, <2>3
  <2>5. op_byte \notin {OP_END_STATEMENT, OP_ROLE, OP_KV, OP_TOOL_NAME, OP_TOOL_METHOD,
                        OP_TOOL_ARG}
    BY <2>4, OpcodesDiffer
  <2>6. CASE RefuseStatement
    <3>1. ~MayDecode /\ Refuse
      BY <2>6 DEF RefuseStatement
    <3>2. ~result.ok
      BY <2>4, <2>5, <3>1 DEF MayDecode
    <3> HIDE DEF result
    <3>3. QED
      BY <2>3, <3>1, <3>2 DEF ReadCut, RefusedForTheCut, Intact
  <2>7. CASE ~RefuseStatement
    <3>1. DecodeField
      BY <1>1, <2>5, <2>7, RoundByOpcode
    <3>2. /\ GoOnBehind(result) /\ insert_or_assign(pair.key, result.value)
          /\ UNCHANGED statement
      BY <2>1, <2>3, <3>1 DEF DecodeField
    <3> HIDE DEF result
    <3>3. /\ Took(result.value, pair.value, <<>>, r)
          /\ UNCHANGED <<phase, buffer, fields, received, sent>>
      BY <2>3, <3>2, ReadAndGoOn
    <3>4. result.value \in Text
      BY <1>2, <3>3 DEF Took
    <3>5. QED
      BY <3>2, <3>3, <3>4
  <2>8. QED
    BY <2>6, <2>7
<1>5. QED
  BY <1>3, <1>4

LEMMA ToolNameRound ==
    ASSUME CodecTyped, CutShort, DecodeStatement, pos < Len(buffer),
           NEW t \in Sendable, NEW r \in Text,
           Ahead(sent.buffer, pos, encode_string(OP_TOOL_NAME, t) \o r)
    PROVE  \/ RefusedForTheCut
           \/ \E name \in Text :
                /\ tool_calls' =
                     Append(tool_calls, [name |-> name, method |-> NoMethod, args |-> <<>>])
                /\ Took(name, t, <<>>, r)
                /\ UNCHANGED <<phase, buffer, fields, received, sent, vars, role>>
<1> DEFINE text == decode_string(buffer, pos)
<1>1. buffer \in Text /\ sent.buffer \in Text /\ Begun(buffer, sent.buffer) /\ pos \in Nat
      /\ Len(buffer) \in Nat /\ t \in Text /\ <<>> \in Text
  BY CodecTypeIs, LenProperties, EmptyText DEF CodecTyped, CutShort, Text, Sendable
<1>2. op_byte = OP_TOOL_NAME /\ ReadCut(text, buffer, sent.buffer, t, <<>>, r)
  BY <1>1, CutStringDecodes, OpcodesAreBytes DEF op_byte
<1>3. CASE RefuseStatement
  <2>1. ~MayDecode /\ Refuse
    BY <1>3 DEF RefuseStatement
  <2>2. ~text.ok
    BY <1>2, <2>1, OpcodesDiffer
       DEF MayDecode, OP_END_STATEMENT, OP_ROLE, OP_KV, OP_TOOL_NAME, OP_TOOL_METHOD,
           OP_TOOL_ARG
  <2>3. QED
    BY <1>2, <2>1, <2>2 DEF ReadCut, RefusedForTheCut, Intact
<1>4. CASE ~RefuseStatement
  <2>1. DecodeToolName
    BY <1>1, <1>2, <1>4, RoundByOpcode, OpcodesDiffer
       DEF OP_END_STATEMENT, OP_ROLE, OP_KV, OP_TOOL_NAME, OP_TOOL_METHOD, OP_TOOL_ARG
  <2>2. /\ GoOnBehind(text) /\ UNCHANGED <<vars, role>>
        /\ tool_calls' =
             Append(tool_calls, [name |-> text.value, method |-> NoMethod, args |-> <<>>])
    BY <2>1 DEF DecodeToolName
  <2> HIDE DEF text
  <2>3. Took(text.value, t, <<>>, r) /\ UNCHANGED <<phase, buffer, fields, received, sent>>
    BY <1>2, <2>2, ReadAndGoOn
  <2>4. text.value \in Text
    BY <1>1, <2>3 DEF Took
  <2>5. QED
    BY <2>2, <2>3, <2>4
<1>5. QED
  BY <1>3, <1>4

LEMMA ToolMethodRound ==
    ASSUME CodecTyped, CutShort, DecodeStatement, pos < Len(buffer), tool_calls # <<>>,
           NEW t \in Sendable, NEW r \in Text,
           Ahead(sent.buffer, pos, encode_string(OP_TOOL_METHOD, t) \o r)
    PROVE  \/ RefusedForTheCut
           \/ \E name \in Text :
                /\ tool_calls' = [tool_calls EXCEPT ![Len(tool_calls)].method = <<name>>]
                /\ Took(name, t, <<>>, r)
                /\ UNCHANGED <<phase, buffer, fields, received, sent, vars, role>>
<1> DEFINE text == decode_string(buffer, pos)
<1>1. buffer \in Text /\ sent.buffer \in Text /\ Begun(buffer, sent.buffer) /\ pos \in Nat
      /\ Len(buffer) \in Nat /\ t \in Text /\ <<>> \in Text
  BY CodecTypeIs, LenProperties, EmptyText DEF CodecTyped, CutShort, Text, Sendable
<1>2. op_byte = OP_TOOL_METHOD /\ ReadCut(text, buffer, sent.buffer, t, <<>>, r)
  BY <1>1, CutStringDecodes, OpcodesAreBytes DEF op_byte
<1>3. CASE RefuseStatement
  <2>1. ~MayDecode /\ Refuse
    BY <1>3 DEF RefuseStatement
  <2>2. ~text.ok
    BY <1>2, <2>1, OpcodesDiffer
       DEF MayDecode, OP_END_STATEMENT, OP_ROLE, OP_KV, OP_TOOL_NAME, OP_TOOL_METHOD,
           OP_TOOL_ARG
  <2>3. QED
    BY <1>2, <2>1, <2>2 DEF ReadCut, RefusedForTheCut, Intact
<1>4. CASE ~RefuseStatement
  <2>1. DecodeToolMethod
    BY <1>1, <1>2, <1>4, RoundByOpcode, OpcodesDiffer
       DEF OP_END_STATEMENT, OP_ROLE, OP_KV, OP_TOOL_NAME, OP_TOOL_METHOD, OP_TOOL_ARG
  <2>2. /\ GoOnBehind(text) /\ UNCHANGED <<vars, role>>
        /\ tool_calls' = [tool_calls EXCEPT ![Len(tool_calls)].method = <<text.value>>]
    BY <2>1 DEF DecodeToolMethod
  <2> HIDE DEF text
  <2>3. Took(text.value, t, <<>>, r) /\ UNCHANGED <<phase, buffer, fields, received, sent>>
    BY <1>2, <2>2, ReadAndGoOn
  <2>4. text.value \in Text
    BY <1>1, <2>3 DEF Took
  <2>5. QED
    BY <2>2, <2>3, <2>4
<1>5. QED
  BY <1>3, <1>4

LEMMA ToolArgRound ==
    ASSUME CodecTyped, CutShort, DecodeStatement, pos < Len(buffer), tool_calls # <<>>,
           NEW pair \in Pair, NEW r \in Text,
           Ahead(sent.buffer, pos, encode_kvpair(OP_TOOL_ARG, pair.key, pair.value) \o r)
    PROVE  \/ RefusedForTheCut
           \/ \E arg \in TextPair :
                /\ tool_calls' = [tool_calls EXCEPT ![Len(tool_calls)].args = Assigned(@, arg)]
                /\ Took(arg, pair, [key |-> pair.key, value |-> <<>>], r)
                /\ UNCHANGED <<phase, buffer, fields, received, sent, vars, role>>
<1> DEFINE result == decode_kvpair(buffer, pos)
           lost == [key |-> pair.key, value |-> <<>>]
<1>1. buffer \in Text /\ sent.buffer \in Text /\ Begun(buffer, sent.buffer) /\ pos \in Nat
      /\ Len(buffer) \in Nat
  BY CodecTypeIs, LenProperties DEF CodecTyped, CutShort, Text
<1>2. /\ pair.key \in Sendable /\ pair.value \in Sendable
      /\ [key |-> pair.key, value |-> pair.value] = pair
      /\ pair \in TextPair /\ lost \in TextPair
  BY EmptyText DEF Pair, Sendable, TextPair
<1> HIDE DEF lost
<1>3. op_byte = OP_TOOL_ARG /\ ReadCut(result, buffer, sent.buffer, pair, lost, r)
  BY <1>1, <1>2, CutPairDecodes, OpcodesAreBytes DEF op_byte, lost
<1>4. CASE RefuseStatement
  <2>1. ~MayDecode /\ Refuse
    BY <1>4 DEF RefuseStatement
  <2>2. ~result.ok
    BY <1>3, <2>1, OpcodesDiffer
       DEF MayDecode, OP_END_STATEMENT, OP_ROLE, OP_KV, OP_TOOL_NAME, OP_TOOL_METHOD,
           OP_TOOL_ARG
  <2> HIDE DEF result
  <2>3. QED
    BY <1>3, <2>1, <2>2 DEF ReadCut, RefusedForTheCut, Intact
<1>5. CASE ~RefuseStatement
  <2>1. DecodeToolArg
    BY <1>1, <1>3, <1>5, RoundByOpcode, OpcodesDiffer
       DEF OP_END_STATEMENT, OP_ROLE, OP_KV, OP_TOOL_NAME, OP_TOOL_METHOD, OP_TOOL_ARG
  <2>2. /\ GoOnBehind(result) /\ UNCHANGED <<vars, role>>
        /\ tool_calls' = [tool_calls EXCEPT ![Len(tool_calls)].args = Assigned(@, result.value)]
    BY <2>1 DEF DecodeToolArg
  <2> HIDE DEF result
  <2>3. Took(result.value, pair, lost, r) /\ UNCHANGED <<phase, buffer, fields, received, sent>>
    BY <1>3, <2>2, ReadAndGoOn
  <2>4. result.value \in TextPair
    BY <1>2, <2>3 DEF Took
  <2>5. QED
    BY <2>2, <2>3, <2>4 DEF lost
<1>6. QED
  BY <1>4, <1>5

-----------------------------------------------------------------------------
(* Half-read messages.                                                     *)

\* What was sent is made of texts.
LEMMA SentIsText ==
    /\ \A pair \in Pair : pair \in TextPair
    /\ \A tool \in Tool : tool \in TextTool /\ tool.args \in Seq(TextPair)
    /\ \A s \in Statement : /\ s \in TextStatement /\ s.role \in Text
                            /\ s.kvpairs \in Seq(TextPair) /\ s.tool_calls \in Seq(TextTool)
<1>1. Sendable \subseteq Text
  BY DEF Sendable
<1>2. Pair \subseteq TextPair
  BY <1>1 DEF Pair, TextPair
<1>3. \A S, T : S \subseteq T => Seq(S) \subseteq Seq(T)
  OBVIOUS
<1>4. Seq(Pair) \subseteq Seq(TextPair) /\ Seq(Sendable) \subseteq Seq(Text)
  BY <1>1, <1>2, <1>3
<1>5. Tool \subseteq TextTool
  BY <1>1, <1>4 DEF Tool, TextTool
<1>6. Seq(Tool) \subseteq Seq(TextTool)
  BY <1>3, <1>5
<1>7. \A tool \in Tool : tool.args \in Seq(TextPair)
  BY <1>4 DEF Tool
<1>8. ASSUME NEW s \in Statement
      PROVE  /\ s \in TextStatement /\ s.role \in Text
             /\ s.kvpairs \in Seq(TextPair) /\ s.tool_calls \in Seq(TextTool)
  <2>1. s \in [role : Sendable, kvpairs : Seq(Pair), tool_calls : Seq(Tool)]
    BY DEF Statement
  <2>2. s.role \in Sendable /\ s.kvpairs \in Seq(Pair) /\ s.tool_calls \in Seq(Tool)
    BY <2>1
  <2>3. s.role \in Text /\ s.kvpairs \in Seq(TextPair) /\ s.tool_calls \in Seq(TextTool)
    BY <1>1, <1>4, <1>6, <2>2
  <2>4. s \in TextStatement
    BY <2>1, <2>3 DEF TextStatement
  <2>5. QED
    BY <2>3, <2>4
<1>9. QED
  BY <1>2, <1>5, <1>7, <1>8

LEMMA BegunMore ==
    ASSUME NEW S, NEW t \in Seq(S), NEW s \in Seq(S), Begun(t, s)
    PROVE  /\ Len(t) \in 0..Len(s)
           /\ Len(t) = Len(s) => t = s
           /\ Len(t) # Len(s) => /\ Len(t) < Len(s) /\ Len(t) + 1 \in 1..Len(s)
                                 /\ Begun(Append(t, s[Len(t) + 1]), s)
                                 /\ Len(Append(t, s[Len(t) + 1])) = Len(t) + 1
<1>1. Len(t) \in Nat /\ Len(s) \in Nat /\ Len(t) <= Len(s)
  BY LenProperties DEF Begun
<1>2. ASSUME Len(t) = Len(s) PROVE t = s
  <2>1. \A i \in 1..Len(t) : t[i] = s[i]
    BY DEF Begun
  <2>2. QED
    BY <1>2, <2>1, SeqEqual
<1>3. ASSUME Len(t) # Len(s)
      PROVE  /\ Len(t) < Len(s) /\ Len(t) + 1 \in 1..Len(s)
             /\ Begun(Append(t, s[Len(t) + 1]), s)
             /\ Len(Append(t, s[Len(t) + 1])) = Len(t) + 1
  <2> DEFINE n == Len(t)
             m == Len(s)
             u == Append(t, s[n + 1])
  <2>1. n < m /\ n + 1 \in 1..m /\ n \in Nat /\ m \in Nat
    BY <1>1, <1>3
  <2>2. s[n + 1] \in S
    BY <2>1, ElementOfSeq
  <2>3. Len(u) = n + 1 /\ (\A i \in 1..n : u[i] = t[i]) /\ u[n + 1] = s[n + 1]
    BY <2>2, AppendProperties
  <2>4. \A i \in 1..n : t[i] = s[i]
    BY DEF Begun
  <2> HIDE DEF n, m, u
  <2>5. \A i \in 1..(n + 1) : i = n + 1 \/ i \in 1..n
    BY <2>1
  <2>6. \A i \in 1..(n + 1) : u[i] = s[i]
    BY <2>3, <2>4, <2>5
  <2>7. Len(u) <= Len(s)
    BY <2>1, <2>3 DEF m
  <2>8. Begun(u, s)
    BY <2>3, <2>6, <2>7 DEF Begun
  <2>9. QED
    BY <2>1, <2>3, <2>8 DEF n, m, u
<1>4. QED
  BY <1>1, <1>2, <1>3

LEMMA NothingBegun ==
    ASSUME NEW S, NEW s \in Seq(S) PROVE Begun(<<>>, s)
BY LenProperties DEF Begun

\* What is left of a sequence of texts, with r behind it.
LEMMA LeftBefore ==
    ASSUME NEW ss \in Seq(Text), NEW k \in 0..Len(ss), NEW r \in Text
    PROVE  /\ Behind(ss, k) \o r \in Text
           /\ k = Len(ss) => Behind(ss, k) \o r = r
           /\ k < Len(ss) => /\ Behind(ss, k) \o r = ss[k + 1] \o (Behind(ss, k + 1) \o r)
                             /\ ss[k + 1] \in Text /\ Behind(ss, k + 1) \o r \in Text
<1>1. ss \in Seq(Seq(Byte)) /\ Len(ss) \in Nat
  BY LenProperties DEF Text
<1>2. \A j \in 0..Len(ss) : Behind(ss, j) \in Text
  BY <1>1, BehindMore DEF Text
<1>3. \A j \in 0..Len(ss) : Behind(ss, j) \o r \in Text
  BY <1>2, TwoTexts
<1>4. ASSUME k = Len(ss) PROVE Behind(ss, k) \o r = r
  <2>1. Behind(ss, k) = <<>>
    BY <1>1, <1>4, BehindMore
  <2>2. QED
    BY <2>1, EmptyText
<1>5. ASSUME k < Len(ss)
      PROVE  /\ Behind(ss, k) \o r = ss[k + 1] \o (Behind(ss, k + 1) \o r)
             /\ ss[k + 1] \in Text /\ Behind(ss, k + 1) \o r \in Text
  <2>1. k + 1 \in 0..Len(ss) /\ k + 1 \in 1..Len(ss)
    BY <1>1, <1>5
  <2>2. ss[k + 1] \in Text
    BY <2>1, ElementOfSeq
  <2>3. Behind(ss, k) = ss[k + 1] \o Behind(ss, k + 1)
    BY <1>1, <1>5, BehindMore
  <2>4. (ss[k + 1] \o Behind(ss, k + 1)) \o r = ss[k + 1] \o (Behind(ss, k + 1) \o r)
    BY <1>2, <2>1, <2>2, ThreeTexts
  <2>5. QED
    BY <1>3, <2>1, <2>2, <2>3, <2>4
<1>6. QED
  BY <1>3, <1>4, <1>5

\* What the decoder has ahead amid a statement with `rest` behind it: some of its tool
\* calls; some of its pairs and all its tool calls; some of the arguments of a tool
\* call, or its method and its arguments, and the tool calls behind it.
ToolsAhead(s, t, rest) == Behind(ToolBytes(s.tool_calls), t) \o (EndBytes \o rest)
PairsAhead(s, k, rest) == Behind(PairBytes(s.kvpairs), k) \o ToolsAhead(s, 0, rest)
ArgsAhead(s, t, k, rest) == Behind(ArgBytes(s.tool_calls[t].args), k) \o ToolsAhead(s, t, rest)
MethodAhead(s, t, rest) == MethodBytes(s.tool_calls[t]) \o ArgsAhead(s, t, 0, rest)
AllAhead(s, rest) == encode_string(OP_ROLE, s.role) \o PairsAhead(s, 0, rest)

\* ... which are texts, whose first is the next one that the decoder finds.
LEMMA ToolsAheadAre ==
    ASSUME NEW s \in Statement, NEW t \in 0..Len(s.tool_calls), NEW rest \in Text
    PROVE  /\ ToolsAhead(s, t, rest) \in Text /\ EndBytes \o rest \in Text
           /\ t = Len(s.tool_calls) => ToolsAhead(s, t, rest) = EndBytes \o rest
<1> DEFINE ss == ToolBytes(s.tool_calls)
           r == EndBytes \o rest
<1>1. s.tool_calls \in Seq(Tool)
  BY DEF Statement
<1>2. ss \in Seq(Text) /\ Len(ss) = Len(s.tool_calls)
  BY <1>1, ToolBytesAreTexts
<1>3. r \in Text
  BY OneByte, OpcodesAreBytes, TwoTexts DEF EndBytes
<1>4. ToolsAhead(s, t, rest) = Behind(ss, t) \o r
  BY DEF ToolsAhead
<1> HIDE DEF ss, r
<1>5. Behind(ss, t) \o r \in Text /\ (t = Len(ss) => Behind(ss, t) \o r = r)
  BY <1>2, <1>3, LeftBefore
<1>6. QED
  BY <1>2, <1>3, <1>4, <1>5 DEF r

LEMMA PairsAheadAre ==
    ASSUME NEW s \in Statement, NEW k \in 0..Len(s.kvpairs), NEW rest \in Text
    PROVE  /\ PairsAhead(s, k, rest) \in Text
           /\ k = Len(s.kvpairs) => PairsAhead(s, k, rest) = ToolsAhead(s, 0, rest)
           /\ k < Len(s.kvpairs) =>
                /\ PairsAhead(s, k, rest) =
                       EncodedPair(s.kvpairs[k + 1]) \o PairsAhead(s, k + 1, rest)
                /\ PairsAhead(s, k + 1, rest) \in Text
<1> DEFINE ss == PairBytes(s.kvpairs)
           r == ToolsAhead(s, 0, rest)
<1>1. /\ s.kvpairs \in Seq(Pair) /\ s.tool_calls \in Seq(Tool)
      /\ Len(s.kvpairs) \in Nat /\ Len(s.tool_calls) \in Nat
  BY LenProperties DEF Statement
<1>2. ss \in Seq(Text) /\ Len(ss) = Len(s.kvpairs)
  BY <1>1, PairBytesAreTexts
<1>3. r \in Text
  <2>1. 0 \in 0..Len(s.tool_calls)
    BY <1>1
  <2>2. QED
    BY <2>1, ToolsAheadAre
<1>4. \A j : PairsAhead(s, j, rest) = Behind(ss, j) \o r
  BY DEF PairsAhead
<1>5. \A i \in DOMAIN s.kvpairs : ss[i] = EncodedPair(s.kvpairs[i])
  BY DEF PairBytes
<1>6. k < Len(s.kvpairs) => k + 1 \in DOMAIN s.kvpairs
  BY <1>1, LenProperties
<1> HIDE DEF ss, r
<1>7. /\ Behind(ss, k) \o r \in Text
      /\ k = Len(ss) => Behind(ss, k) \o r = r
      /\ k < Len(ss) => /\ Behind(ss, k) \o r = ss[k + 1] \o (Behind(ss, k + 1) \o r)
                        /\ Behind(ss, k + 1) \o r \in Text
  <2>1. k \in 0..Len(ss)
    BY <1>2
  <2>2. QED
    BY <1>2, <1>3, <2>1, LeftBefore
<1>8. QED
  BY <1>2, <1>4, <1>5, <1>6, <1>7 DEF r

LEMMA ArgsAheadAre ==
    ASSUME NEW s \in Statement, NEW t \in 1..Len(s.tool_calls), NEW rest \in Text,
           NEW k \in 0..Len(s.tool_calls[t].args)
    PROVE  /\ ArgsAhead(s, t, k, rest) \in Text
           /\ k = Len(s.tool_calls[t].args) => ArgsAhead(s, t, k, rest) = ToolsAhead(s, t, rest)
           /\ k < Len(s.tool_calls[t].args) =>
                /\ ArgsAhead(s, t, k, rest) =
                     encode_kvpair(OP_TOOL_ARG, s.tool_calls[t].args[k + 1].key,
                                                s.tool_calls[t].args[k + 1].value)
                       \o ArgsAhead(s, t, k + 1, rest)
                /\ ArgsAhead(s, t, k + 1, rest) \in Text
<1> DEFINE args == s.tool_calls[t].args
           ss == ArgBytes(args)
           r == ToolsAhead(s, t, rest)
<1>1. s.tool_calls \in Seq(Tool) /\ Len(s.tool_calls) \in Nat
  BY LenProperties DEF Statement
<1>2. args \in Seq(Pair) /\ Len(args) \in Nat
  <2>1. s.tool_calls[t] \in Tool
    BY <1>1, ElementOfSeq
  <2>2. QED
    BY <2>1, LenProperties DEF Tool
<1>3. ss \in Seq(Text) /\ Len(ss) = Len(args)
  BY <1>2, ArgBytesAreTexts
<1>4. r \in Text
  <2>1. t \in 0..Len(s.tool_calls)
    BY <1>1
  <2>2. QED
    BY <2>1, ToolsAheadAre
<1>5. \A j : ArgsAhead(s, t, j, rest) = Behind(ss, j) \o r
  BY DEF ArgsAhead
<1>6. \A i \in DOMAIN args : ss[i] = encode_kvpair(OP_TOOL_ARG, args[i].key, args[i].value)
  BY DEF ArgBytes
<1> HIDE DEF ss
<1>7. k \in 0..Len(ss)
  BY <1>3
<1> HIDE DEF r, args
<1>8. k < Len(args) => k + 1 \in DOMAIN args
  BY <1>2, LenProperties DEF args
<1>9. /\ Behind(ss, k) \o r \in Text
      /\ k = Len(ss) => Behind(ss, k) \o r = r
      /\ k < Len(ss) => /\ Behind(ss, k) \o r = ss[k + 1] \o (Behind(ss, k + 1) \o r)
                        /\ Behind(ss, k + 1) \o r \in Text
  BY <1>3, <1>4, <1>7, LeftBefore
<1>10. /\ ArgsAhead(s, t, k, rest) \in Text
       /\ k = Len(args) => ArgsAhead(s, t, k, rest) = r
       /\ k < Len(args) => /\ ArgsAhead(s, t, k, rest) =
                                encode_kvpair(OP_TOOL_ARG, args[k + 1].key, args[k + 1].value)
                                  \o ArgsAhead(s, t, k + 1, rest)
                           /\ ArgsAhead(s, t, k + 1, rest) \in Text
  BY <1>3, <1>5, <1>6, <1>8, <1>9
<1>11. QED
  BY <1>10 DEF args, r

LEMMA MethodAheadIs ==
    ASSUME NEW s \in Statement, NEW t \in 1..Len(s.tool_calls), NEW rest \in Text
    PROVE  /\ MethodAhead(s, t, rest) \in Text /\ ArgsAhead(s, t, 0, rest) \in Text
           /\ s.tool_calls[t].method = NoMethod =>
                  MethodAhead(s, t, rest) = ArgsAhead(s, t, 0, rest)
           /\ \A text \in Sendable : s.tool_calls[t].method = <<text>> =>
                MethodAhead(s, t, rest) =
                    encode_string(OP_TOOL_METHOD, text) \o ArgsAhead(s, t, 0, rest)
<1> DEFINE tool == s.tool_calls[t]
           a == ArgsAhead(s, t, 0, rest)
<1>1. tool \in Tool
  <2>1. s.tool_calls \in Seq(Tool)
    BY DEF Statement
  <2>2. QED
    BY <2>1, ElementOfSeq
<1>2. a \in Text
  <2>1. tool.args \in Seq(Pair)
    BY <1>1 DEF Tool
  <2>2. 0 \in 0..Len(s.tool_calls[t].args)
    BY <2>1, LenProperties
  <2>3. QED
    BY <2>2, ArgsAheadAre
<1>3. MethodBytes(tool) \in Text
  BY <1>1, MethodIs
<1>4. MethodAhead(s, t, rest) = MethodBytes(tool) \o a
  BY DEF MethodAhead
<1> HIDE DEF a
<1>5. MethodBytes(tool) \o a \in Text
  BY <1>2, <1>3, TwoTexts
<1>6. ASSUME tool.method = NoMethod PROVE MethodBytes(tool) \o a = a
  BY <1>2, <1>6, EmptyText DEF MethodBytes
<1>7. ASSUME NEW text \in Sendable, tool.method = <<text>>
      PROVE  MethodBytes(tool) = encode_string(OP_TOOL_METHOD, text)
  BY <1>7 DEF MethodBytes, NoMethod
<1>8. QED
  BY <1>2, <1>4, <1>5, <1>6, <1>7 DEF a

LEMMA NextToolAhead ==
    ASSUME NEW s \in Statement, NEW rest \in Text,
           NEW t \in 0..Len(s.tool_calls), t < Len(s.tool_calls)
    PROVE  /\ ToolsAhead(s, t, rest) =
                encode_string(OP_TOOL_NAME, s.tool_calls[t + 1].name) \o MethodAhead(s, t + 1, rest)
           /\ MethodAhead(s, t + 1, rest) \in Text
<1> DEFINE calls == s.tool_calls
           tool == calls[t + 1]
           ss == ToolBytes(calls)
           r == EndBytes \o rest
           n == encode_string(OP_TOOL_NAME, tool.name)
           m == MethodBytes(tool)
           a == FlattenSeq(ArgBytes(tool.args))
           b == ToolsAhead(s, t + 1, rest)
<1>1. calls \in Seq(Tool) /\ Len(calls) \in Nat
  BY LenProperties DEF Statement
<1>2. t + 1 \in 1..Len(calls) /\ t + 1 \in 0..Len(calls) /\ t + 1 \in DOMAIN calls
  BY <1>1, LenProperties
<1>3. tool \in Tool
  BY <1>1, <1>2, ElementOfSeq
<1>4. /\ ss \in Seq(Text) /\ Len(ss) = Len(calls) /\ ss[t + 1] = EncodedTool(tool)
  BY <1>1, <1>2, ToolBytesAreTexts DEF ToolBytes
<1>5. /\ r \in Text /\ b \in Text
      /\ ToolsAhead(s, t, rest) = Behind(ss, t) \o r /\ b = Behind(ss, t + 1) \o r
  BY <1>2, ToolsAheadAre DEF ToolsAhead
<1>6. Behind(ss, t) \o r = ss[t + 1] \o (Behind(ss, t + 1) \o r)
  <2> HIDE DEF ss, r
  <2>1. t \in 0..Len(ss) /\ t < Len(ss)
    BY <1>1, <1>4
  <2>2. QED
    BY <1>4, <1>5, <2>1, LeftBefore
<1>7. EncodedTool(tool) = n \o (m \o a) /\ n \in Text /\ m \o a \in Text
  BY <1>3, EncodedToolIs
<1>8. m \in Text /\ a \in Text
  <2>1. tool.args \in Seq(Pair)
    BY <1>3 DEF Tool
  <2>2. QED
    BY <1>3, <2>1, MethodIs, ArgBytesAreTexts
<1>9. MethodAhead(s, t + 1, rest) = m \o (a \o b)
  <2>1. ArgBytes(tool.args) \in Seq(Seq(Byte))
    <3>1. tool.args \in Seq(Pair)
      BY <1>3 DEF Tool
    <3>2. ArgBytes(tool.args) \in Seq(Text)
      BY <3>1, ArgBytesAreTexts
    <3>3. QED
      BY <3>2 DEF Text
  <2>2. 0 \in 0..Len(ArgBytes(tool.args))
    BY <2>1, LenProperties
  <2>3. Behind(ArgBytes(tool.args), 0) = a
    BY <2>1, <2>2, BehindMore
  <2>4. QED
    BY <2>3 DEF MethodAhead, ArgsAhead
<1>10. MethodAhead(s, t + 1, rest) \in Text
  BY <1>2, MethodAheadIs
<1> HIDE DEF n, m, a, b, r, ss, tool, calls
<1>11. (n \o (m \o a)) \o b = n \o (m \o (a \o b))
  <2>1. (m \o a) \o b = m \o (a \o b)
    BY <1>5, <1>8, ThreeTexts
  <2>2. (n \o (m \o a)) \o b = n \o ((m \o a) \o b)
    BY <1>5, <1>7, ThreeTexts
  <2>3. QED
    BY <2>1, <2>2
<1>12. ToolsAhead(s, t, rest) = n \o MethodAhead(s, t + 1, rest)
  BY <1>4, <1>5, <1>6, <1>7, <1>9, <1>11
<1>13. QED
  BY <1>10, <1>12 DEF n, tool, calls

\* A whole statement with `rest` behind it.
LEMMA AllAheadIs ==
    ASSUME NEW s \in Statement, NEW rest \in Text
    PROVE  /\ encode_statement(s.role, s.kvpairs, s.tool_calls) \o rest = AllAhead(s, rest)
           /\ PairsAhead(s, 0, rest) \in Text /\ AllAhead(s, rest) \in Text
<1> DEFINE n == encode_string(OP_ROLE, s.role)
           p == FlattenSeq(PairBytes(s.kvpairs))
           t == FlattenSeq(ToolBytes(s.tool_calls))
           x == EndBytes
<1>1. s.role \in Sendable /\ s.kvpairs \in Seq(Pair) /\ s.tool_calls \in Seq(Tool)
  BY DEF Statement
<1>2. n \in Text /\ p \in Text /\ t \in Text /\ x \in Text
  BY <1>1, StringIsText, OpcodesAreBytes, PairBytesAreTexts, ToolBytesAreTexts, OneByte DEF EndBytes
<1>3. encode_statement(s.role, s.kvpairs, s.tool_calls) = n \o (p \o (t \o x))
  BY EncodedStatementIs
<1>4. Behind(PairBytes(s.kvpairs), 0) = p /\ Behind(ToolBytes(s.tool_calls), 0) = t
  <2>1. PairBytes(s.kvpairs) \in Seq(Seq(Byte)) /\ ToolBytes(s.tool_calls) \in Seq(Seq(Byte))
    BY <1>1, PairBytesAreTexts, ToolBytesAreTexts DEF Text
  <2>2. 0 \in 0..Len(PairBytes(s.kvpairs)) /\ 0 \in 0..Len(ToolBytes(s.tool_calls))
    BY <2>1, LenProperties
  <2>3. QED
    BY <2>1, <2>2, BehindMore
<1>5. AllAhead(s, rest) = n \o (p \o (t \o (x \o rest))) /\
      PairsAhead(s, 0, rest) = p \o (t \o (x \o rest))
  BY <1>4 DEF AllAhead, PairsAhead, ToolsAhead
<1> HIDE DEF n, p, t, x
<1>6. /\ t \o x \in Text /\ x \o rest \in Text /\ p \o (t \o x) \in Text
      /\ t \o (x \o rest) \in Text /\ p \o (t \o (x \o rest)) \in Text
      /\ n \o (p \o (t \o (x \o rest))) \in Text
  BY <1>2, TwoTexts, Zenon
<1>7. (t \o x) \o rest = t \o (x \o rest)
  BY <1>2, ThreeTexts
<1>8. \A u, q \in Text : (u \o q) \o rest = u \o (q \o rest)
  BY ThreeTexts
<1>9. /\ (p \o (t \o x)) \o rest = p \o ((t \o x) \o rest)
      /\ (n \o (p \o (t \o x))) \o rest = n \o ((p \o (t \o x)) \o rest)
  BY <1>2, <1>6, <1>8
<1>10. QED
  BY <1>3, <1>5, <1>6, <1>7, <1>9

-----------------------------------------------------------------------------
(* The decoder amid statement s, with `rest` behind it.  What lies ahead   *)
(* is said of the whole buffer; the one that arrived may end before.       *)

AtRole(s, rest) ==
    /\ role = <<>> /\ data = <<>> /\ tool_calls = <<>> /\ pos < Len(buffer)
    /\ Ahead(sent.buffer, pos, AllAhead(s, rest))

AtPair(s, rest) ==
    /\ role = s.role /\ Begun(data, s.kvpairs) /\ tool_calls = <<>>
    /\ Ahead(sent.buffer, pos, PairsAhead(s, Len(data), rest))

AtTool(s, rest) ==
    /\ role = s.role /\ data = s.kvpairs /\ Begun(tool_calls, s.tool_calls)
    /\ Ahead(sent.buffer, pos, ToolsAhead(s, Len(tool_calls), rest))

\* The last tool call read has its name, but may lack its method or arguments.
CallBegun(s, t) ==
    /\ role = s.role /\ data = s.kvpairs
    /\ t = Len(tool_calls) /\ t \in 1..Len(s.tool_calls)
    /\ \A i \in 1..(t - 1) : tool_calls[i] = s.tool_calls[i]
    /\ tool_calls[t].name = s.tool_calls[t].name

AtMethod(s, rest) ==
    \E t \in Nat :
        /\ CallBegun(s, t)
        /\ tool_calls[t].method = NoMethod /\ tool_calls[t].args = <<>>
        /\ Ahead(sent.buffer, pos, MethodAhead(s, t, rest))

AtArg(s, rest) ==
    \E t \in Nat :
        /\ CallBegun(s, t)
        /\ tool_calls[t].method = s.tool_calls[t].method
        /\ Begun(tool_calls[t].args, s.tool_calls[t].args)
        /\ Ahead(sent.buffer, pos, ArgsAhead(s, t, Len(tool_calls[t].args), rest))

Amid(s, rest) ==
    AtRole(s, rest) \/ AtPair(s, rest) \/ AtTool(s, rest) \/ AtMethod(s, rest) \/ AtArg(s, rest)

\* g is the first items of m, but the last of them may have lost its value.
Emptied(item) == [item EXCEPT !.value = <<>>]

ShortOf(g, m) ==
    /\ Len(g) <= Len(m)
    /\ \A i \in 1..Len(g) : g[i] = m[i] \/ (i = Len(g) /\ g[i] = Emptied(m[i]))

\* The same for a tool call and for the statement at hand.
ShortCall(have, want) ==
    \/ have.name \in {want.name, <<>>} /\ have.method = NoMethod /\ have.args = <<>>
    \/ /\ have.name = want.name /\ have.args = <<>>
       /\ have.method = <<<<>>>> /\ want.method # NoMethod
    \/ have.name = want.name /\ have.method = want.method /\ ShortOf(have.args, want.args)

ShortCalls(have, want) ==
    /\ Len(have) \in 1..Len(want)
    /\ \A i \in 1..(Len(have) - 1) : have[i] = want[i]
    /\ ShortCall(have[Len(have)], want[Len(have)])

ShortStatement(s) ==
    \/ role \in {s.role, <<>>} /\ data = <<>> /\ tool_calls = <<>>
    \/ role = s.role /\ ShortOf(data, s.kvpairs) /\ tool_calls = <<>>
    \/ role = s.role /\ data = s.kvpairs /\ ShortCalls(tool_calls, s.tool_calls)

\* The buffer that arrived is used up amid the statement.
CutAmid(s) == pos = Len(buffer) /\ ShortStatement(s) /\ ~Intact

\* A round leads on in the statement, or ends it when all of it was read; or the
\* buffer ends amid the statement.
RoundFollows(s, rest) ==
    \/ Amid(s, rest)' /\ UNCHANGED <<phase, buffer, fields, received, sent>>
    \/ CutAmid(s)' /\ UNCHANGED <<phase, buffer, fields, received, sent>>
    \/ RefusedForTheCut
    \/ /\ role = s.role /\ data = s.kvpairs /\ tool_calls = s.tool_calls
       /\ Ahead(sent.buffer, pos + 1, rest) /\ FinishStatement(pos + 1)

LEMMA BegunIsShort ==
    ASSUME NEW g, NEW m, Begun(g, m) PROVE ShortOf(g, m)
BY DEF Begun, ShortOf

\* With one item more whose value is lost.
LEMMA ShortByOne ==
    ASSUME NEW S, NEW g \in Seq(S), NEW m \in Seq(S), Begun(g, m), Len(g) # Len(m),
           NEW x \in S, x = Emptied(m[Len(g) + 1])
    PROVE  ShortOf(Append(g, x), m)
<1> DEFINE n == Len(g)
           u == Append(g, x)
<1>1. n \in Nat /\ Len(m) \in Nat /\ n <= Len(m) /\ \A i \in 1..n : g[i] = m[i]
  BY LenProperties DEF Begun
<1>2. Len(u) = n + 1 /\ (\A i \in 1..n : u[i] = g[i]) /\ u[n + 1] = x
  BY AppendProperties
<1> HIDE DEF n, u
<1>3. \A i \in 1..(n + 1) : i = n + 1 \/ i \in 1..n
  BY <1>1
<1>4. n + 1 <= Len(m)
  BY <1>1 DEF n
<1>5. \A i \in 1..(n + 1) : u[i] = m[i] \/ (i = n + 1 /\ u[i] = Emptied(m[i]))
  BY <1>1, <1>2, <1>3 DEF n
<1>6. ShortOf(u, m)
  BY <1>2, <1>4, <1>5 DEF ShortOf
<1>7. QED
  BY <1>6 DEF u

LEMMA FollowsRole ==
    ASSUME CodecTyped, CutShort, DecodeStatement, pos < Len(buffer),
           NEW s \in Statement, NEW rest \in Text, AtRole(s, rest)
    PROVE  RoundFollows(s, rest)
<1>1. s.role \in Sendable /\ s.kvpairs \in Seq(TextPair)
  BY SentIsText DEF Statement
<1>2. PairsAhead(s, 0, rest) \in Text
  BY AllAheadIs
<1>3. Ahead(sent.buffer, pos, encode_string(OP_ROLE, s.role) \o PairsAhead(s, 0, rest))
  BY DEF AtRole, AllAhead
<1>4. \/ RefusedForTheCut
      \/ /\ Took(role', s.role, <<>>, PairsAhead(s, 0, rest))
         /\ UNCHANGED <<phase, buffer, fields, received, sent, vars, tool_calls>>
  BY <1>1, <1>2, <1>3, RoleRound
<1>5. CASE /\ Took(role', s.role, <<>>, PairsAhead(s, 0, rest))
           /\ UNCHANGED <<phase, buffer, fields, received, sent, vars, tool_calls>>
  <2>1. data' = <<>> /\ tool_calls' = <<>>
    BY <1>5 DEF AtRole, vars
  <2>2. CASE role' = s.role /\ Ahead(sent.buffer, pos', PairsAhead(s, 0, rest))
    <3>1. Begun(data', s.kvpairs) /\ Len(data') = 0
      BY <1>1, <2>1, NothingBegun
    <3>2. AtPair(s, rest)'
      BY <1>5, <2>1, <2>2, <3>1 DEF AtPair
    <3>3. QED
      BY <1>5, <3>2 DEF RoundFollows, Amid
  <2>3. CASE role' = <<>> /\ pos' = Len(buffer) /\ ~Intact
    <3>1. CutAmid(s)'
      BY <1>5, <2>1, <2>3 DEF CutAmid, ShortStatement, Intact
    <3>2. QED
      BY <1>5, <3>1 DEF RoundFollows
  <2>4. QED
    BY <1>5, <2>2, <2>3 DEF Took
<1>6. QED
  BY <1>4, <1>5 DEF RoundFollows

LEMMA FollowsTool ==
    ASSUME CodecTyped, CutShort, DecodeStatement, pos < Len(buffer),
           NEW s \in Statement, NEW rest \in Text, AtTool(s, rest)
    PROVE  RoundFollows(s, rest)
<1> DEFINE t == Len(tool_calls)
<1>1. /\ s.tool_calls \in Seq(Tool) /\ s.tool_calls \in Seq(TextTool)
      /\ tool_calls \in Seq(TextTool)
      /\ Begun(tool_calls, s.tool_calls) /\ t \in Nat /\ Len(s.tool_calls) \in Nat
  BY SentIsText, CodecTypeIs, LenProperties DEF Statement, CodecTyped, AtTool
<1>2. t \in 0..Len(s.tool_calls) /\ (t = Len(s.tool_calls) => tool_calls = s.tool_calls)
  BY <1>1, BegunMore
<1>3. CASE t = Len(s.tool_calls)
  <2>1. Ahead(sent.buffer, pos, EndBytes \o rest)
    BY <1>2, <1>3, ToolsAheadAre DEF AtTool
  <2>2. Ahead(sent.buffer, pos + 1, rest) /\ FinishStatement(pos + 1)
    BY <2>1, EndRound
  <2>3. QED
    BY <1>2, <1>3, <2>2 DEF RoundFollows, AtTool
<1>4. CASE t # Len(s.tool_calls)
  <2> DEFINE name == s.tool_calls[t + 1].name
             next == MethodAhead(s, t + 1, rest)
  <2>1. t < Len(s.tool_calls) /\ t + 1 \in 1..Len(s.tool_calls)
    BY <1>1, <1>2, <1>4
  <2>2. name \in Sendable /\ name \in Text
    <3>1. s.tool_calls[t + 1] \in Tool
      BY <1>1, <2>1, ElementOfSeq
    <3>2. QED
      BY <3>1 DEF Tool, Sendable
  <2>3. Ahead(sent.buffer, pos, encode_string(OP_TOOL_NAME, name) \o next) /\ next \in Text
    <3>1. Ahead(sent.buffer, pos, ToolsAhead(s, t, rest))
      BY DEF AtTool
    <3>2. QED
      BY <1>2, <2>1, <3>1, NextToolAhead
  <2> HIDE DEF next
  <2>4. CASE RefusedForTheCut
    BY <2>4 DEF RoundFollows
  <2>5. ASSUME NEW got \in Text, Took(got, name, <<>>, next),
               tool_calls' = Append(tool_calls, [name |-> got, method |-> NoMethod, args |-> <<>>]),
               UNCHANGED <<phase, buffer, fields, received, sent, vars, role>>
        PROVE  RoundFollows(s, rest)
    <3>1. PICK call : call = [name |-> got, method |-> NoMethod, args |-> <<>>]
      OBVIOUS
    <3>2. call \in TextTool /\ call.name = got /\ call.method = NoMethod /\ call.args = <<>>
      BY <3>1 DEF TextTool, NoMethod
    <3>3. tool_calls' = Append(tool_calls, call)
      BY <2>5, <3>1
    <3>4. /\ Len(tool_calls') = t + 1 /\ tool_calls'[t + 1] = call
          /\ \A i \in 1..t : tool_calls'[i] = tool_calls[i]
      BY <1>1, <3>2, <3>3, AppendProperties
    <3>5. \A i \in 1..t : tool_calls[i] = s.tool_calls[i]
      BY <1>1 DEF Begun
    <3>6. role' = s.role /\ data' = s.kvpairs
      BY <2>5 DEF AtTool, vars
    <3>7. PICK u \in Nat : u = t + 1
      BY <1>1
    <3>8. u - 1 = t
      BY <1>1, <3>7
    <3> HIDE DEF t
    <3>9. CASE got = name /\ Ahead(sent.buffer, pos', next)
      <4>1. CallBegun(s, u)'
        BY <2>1, <3>2, <3>4, <3>5, <3>6, <3>7, <3>8, <3>9 DEF CallBegun
      <4>2. AtMethod(s, rest)'
        BY <2>5, <3>2, <3>4, <3>7, <3>9, <4>1 DEF AtMethod, next
      <4>3. QED
        BY <2>5, <4>2 DEF RoundFollows, Amid
    <3>10. CASE got = <<>> /\ pos' = Len(buffer) /\ ~Intact
      <4>1. ShortCall(call, s.tool_calls[t + 1])
        BY <3>2, <3>10 DEF ShortCall
      <4>2. ShortCalls(tool_calls', s.tool_calls)
        BY <2>1, <3>4, <3>5, <3>7, <3>8, <4>1 DEF ShortCalls
      <4>3. CutAmid(s)'
        BY <2>5, <3>6, <3>10, <4>2 DEF CutAmid, ShortStatement, Intact
      <4>4. QED
        BY <2>5, <4>3 DEF RoundFollows
    <3>11. QED
      BY <2>5, <3>9, <3>10 DEF Took
  <2> HIDE DEF name
  <2>6. \/ RefusedForTheCut
        \/ \E got \in Text :
             /\ tool_calls' = Append(tool_calls, [name |-> got, method |-> NoMethod, args |-> <<>>])
             /\ Took(got, name, <<>>, next)
             /\ UNCHANGED <<phase, buffer, fields, received, sent, vars, role>>
    BY <2>2, <2>3, ToolNameRound
  <2>7. QED
    BY <2>4, <2>5, <2>6
<1>5. QED
  BY <1>3, <1>4

LEMMA FollowsPair ==
    ASSUME CodecTyped, CutShort, DecodeStatement, pos < Len(buffer),
           NEW s \in Statement, NEW rest \in Text, AtPair(s, rest)
    PROVE  RoundFollows(s, rest)
<1> DEFINE k == Len(data)
<1>1. /\ s.kvpairs \in Seq(Pair) /\ s.kvpairs \in Seq(TextPair) /\ OncePerKey(s.kvpairs)
      /\ data \in Seq(TextPair) /\ Begun(data, s.kvpairs) /\ k \in Nat /\ Len(s.kvpairs) \in Nat
  BY SentIsText, CodecTypeIs, LenProperties DEF Statement, CodecTyped, AtPair
<1>2. k \in 0..Len(s.kvpairs) /\ (k = Len(s.kvpairs) => data = s.kvpairs)
  BY <1>1, BegunMore
<1>3. CASE k = Len(s.kvpairs)
  <2>1. Begun(tool_calls, s.tool_calls) /\ Len(tool_calls) = 0
    BY NothingBegun DEF AtPair, Statement
  <2>2. Ahead(sent.buffer, pos, ToolsAhead(s, 0, rest))
    BY <1>2, <1>3, PairsAheadAre DEF AtPair
  <2>3. AtTool(s, rest)
    BY <1>2, <1>3, <2>1, <2>2 DEF AtPair, AtTool
  <2>4. QED
    BY <2>3, FollowsTool
<1>4. CASE k # Len(s.kvpairs)
  <2> DEFINE pair == s.kvpairs[k + 1]
             next == PairsAhead(s, k + 1, rest)
  <2>1. k < Len(s.kvpairs) /\ k + 1 \in 1..Len(s.kvpairs)
    BY <1>1, <1>2, <1>4
  <2>2. pair \in Pair /\ pair \in TextPair /\ pair = [key |-> pair.key, value |-> pair.value]
    <3>1. pair \in Pair
      BY <1>1, <2>1, ElementOfSeq
    <3>2. QED
      BY <3>1, SentIsText DEF Pair
  <2>3. Ahead(sent.buffer, pos, EncodedPair(pair) \o next) /\ next \in Text
    <3>1. Ahead(sent.buffer, pos, PairsAhead(s, k, rest))
      BY DEF AtPair
    <3>2. QED
      BY <1>2, <2>1, <3>1, PairsAheadAre
  <2> HIDE DEF pair, next
  <2>4. \/ RefusedForTheCut
        \/ \E value \in Text :
             /\ insert_or_assign(pair.key, value) /\ Took(value, pair.value, <<>>, next)
             /\ UNCHANGED <<phase, buffer, fields, received, sent, statement>>
    BY <2>2, <2>3, PairRound
  <2>5. ~Has(pair.key)
    <3> SUFFICES ASSUME Has(pair.key) PROVE FALSE
      OBVIOUS
    <3>1. index[pair.key] \in DOMAIN data /\ data[index[pair.key]].key = pair.key
      BY DEF Has, CodecTyped, MapInv, IndexMatchesData
    <3>2. PICK i \in 1..k : data[i].key = pair.key
      BY <1>1, <3>1, LenProperties
    <3>3. s.kvpairs[i].key = pair.key
      BY <1>1, <3>2 DEF Begun
    <3>4. i \in DOMAIN s.kvpairs /\ k + 1 \in DOMAIN s.kvpairs /\ i # k + 1
      BY <1>1, <2>1, LenProperties
    <3>5. QED
      BY <1>1, <3>3, <3>4 DEF OncePerKey, pair
  <2>6. CASE RefusedForTheCut
    BY <2>6 DEF RoundFollows
  <2>7. ASSUME NEW value \in Text, insert_or_assign(pair.key, value),
               Took(value, pair.value, <<>>, next),
               UNCHANGED <<phase, buffer, fields, received, sent, statement>>
        PROVE  RoundFollows(s, rest)
    <3>1. PICK got : got = [key |-> pair.key, value |-> value]
      OBVIOUS
    <3>2. data' = Append(data, got)
      BY <2>5, <2>7, <3>1 DEF insert_or_assign, Add
    <3>3. role' = s.role /\ tool_calls' = <<>>
      BY <2>7 DEF AtPair, statement
    <3>4. CASE value = pair.value /\ Ahead(sent.buffer, pos', next)
      <4>1. got = pair
        BY <2>2, <3>1, <3>4
      <4>2. Begun(data', s.kvpairs) /\ Len(data') = k + 1
        BY <1>1, <1>4, <3>2, <4>1, BegunMore DEF pair
      <4>3. AtPair(s, rest)'
        BY <2>7, <3>3, <3>4, <4>2 DEF AtPair, next
      <4>4. QED
        BY <2>7, <4>3 DEF RoundFollows, Amid
    <3>5. CASE value = <<>> /\ pos' = Len(buffer) /\ ~Intact
      <4>1. got = Emptied(pair) /\ got \in TextPair
        BY <2>2, <2>7, <3>1, <3>5 DEF Emptied, TextPair
      <4>2. ShortOf(data', s.kvpairs)
        BY <1>1, <1>4, <3>2, <4>1, ShortByOne DEF pair
      <4>3. CutAmid(s)'
        BY <2>7, <3>3, <3>5, <4>2 DEF CutAmid, ShortStatement, Intact
      <4>4. QED
        BY <2>7, <4>3 DEF RoundFollows
    <3>6. QED
      BY <2>7, <3>4, <3>5 DEF Took
  <2>8. QED
    BY <2>4, <2>6, <2>7
<1>5. QED
  BY <1>3, <1>4

\* What a tool call begun is, and what it is if one part of it changes.
LEMMA CallBegunIs ==
    ASSUME CodecTyped, NEW s \in Statement, NEW t \in Nat, CallBegun(s, t)
    PROVE  /\ tool_calls # <<>> /\ t = Len(tool_calls) /\ t \in DOMAIN tool_calls
           /\ s.tool_calls[t] \in Tool /\ s.tool_calls[t] \in TextTool
           /\ s.tool_calls[t].args \in Seq(Pair) /\ s.tool_calls[t].args \in Seq(TextPair)
           /\ OncePerKey(s.tool_calls[t].args)
           /\ tool_calls[t] \in TextTool /\ tool_calls[t].args \in Seq(TextPair)
           /\ t \in 1..Len(s.tool_calls)
<1>1. tool_calls \in Seq(TextTool) /\ s.tool_calls \in Seq(Tool)
  BY CodecTypeIs DEF CodecTyped, Statement
<1>2. t = Len(tool_calls) /\ t \in 1..Len(s.tool_calls) /\ t >= 1
  BY DEF CallBegun
<1>3. t \in DOMAIN tool_calls /\ t \in DOMAIN s.tool_calls
  BY <1>1, <1>2, LenProperties
<1>4. tool_calls # <<>>
  BY <1>2
<1>5. s.tool_calls[t] \in Tool /\ tool_calls[t] \in TextTool
  BY <1>1, <1>3, ItemOfSeq
<1>6. OncePerKey(s.tool_calls[t].args)
  BY <1>3 DEF Statement
<1>7. /\ s.tool_calls[t] \in TextTool /\ s.tool_calls[t].args \in Seq(TextPair)
      /\ s.tool_calls[t].args \in Seq(Pair)
  BY <1>5, SentIsText DEF Tool
<1>8. tool_calls[t].args \in Seq(TextPair)
  BY <1>5 DEF TextTool
<1>9. QED
  BY <1>2, <1>3, <1>4, <1>5, <1>6, <1>7, <1>8

LEMMA CallChanges ==
    ASSUME CodecTyped, NEW s \in Statement, NEW t \in Nat, CallBegun(s, t),
           NEW call \in TextTool, call.name = tool_calls[t].name,
           tool_calls' = [tool_calls EXCEPT ![t] = call], UNCHANGED <<vars, role>>
    PROVE  /\ CallBegun(s, t)' /\ tool_calls'[t] = call
           /\ ShortCall(call, s.tool_calls[t]) => ShortStatement(s)'
<1>1. tool_calls \in Seq(TextTool) /\ t \in 1..Len(tool_calls)
  BY CallBegunIs, CodecTypeIs, LenProperties DEF CodecTyped
<1>2. /\ Len(tool_calls') = Len(tool_calls)
      /\ \A i \in 1..Len(tool_calls) : tool_calls'[i] = IF i = t THEN call ELSE tool_calls[i]
  BY <1>1, ExceptSeq
<1>3. tool_calls'[t] = call
  BY <1>1, <1>2
<1>4. t = Len(tool_calls) /\ t \in 1..Len(s.tool_calls)
      /\ tool_calls[t].name = s.tool_calls[t].name
      /\ \A i \in 1..(t - 1) : tool_calls[i] = s.tool_calls[i]
  BY DEF CallBegun
<1>5. ASSUME NEW i \in 1..(t - 1) PROVE tool_calls'[i] = s.tool_calls[i]
  <2>1. i \in 1..Len(tool_calls) /\ i # t
    BY <1>4
  <2>2. QED
    BY <1>2, <1>4, <2>1
<1>6. role' = s.role /\ data' = s.kvpairs
  BY DEF CallBegun, vars
<1>7. CallBegun(s, t)'
  BY <1>2, <1>3, <1>4, <1>5, <1>6 DEF CallBegun
<1>8. ASSUME ShortCall(call, s.tool_calls[t]) PROVE ShortStatement(s)'
  <2>1. ShortCalls(tool_calls', s.tool_calls)
    BY <1>2, <1>3, <1>4, <1>5, <1>8 DEF ShortCalls
  <2>2. QED
    BY <1>6, <2>1 DEF ShortStatement
<1>9. QED
  BY <1>3, <1>7, <1>8

LEMMA FollowsArg ==
    ASSUME CodecTyped, CutShort, DecodeStatement, pos < Len(buffer),
           NEW s \in Statement, NEW rest \in Text, AtArg(s, rest)
    PROVE  RoundFollows(s, rest)
<1>1. PICK t \in Nat :
        /\ CallBegun(s, t)
        /\ tool_calls[t].method = s.tool_calls[t].method
        /\ Begun(tool_calls[t].args, s.tool_calls[t].args)
        /\ Ahead(sent.buffer, pos, ArgsAhead(s, t, Len(tool_calls[t].args), rest))
  BY DEF AtArg
<1> DEFINE have == tool_calls[t]
           want == s.tool_calls[t]
           k == Len(have.args)
<1>2. /\ tool_calls # <<>> /\ t = Len(tool_calls) /\ t \in 1..Len(s.tool_calls)
      /\ have \in TextTool /\ have.args \in Seq(TextPair)
      /\ want \in TextTool /\ want.args \in Seq(Pair) /\ want.args \in Seq(TextPair)
      /\ OncePerKey(want.args)
  BY <1>1, CallBegunIs
<1>3. k \in Nat /\ Len(want.args) \in Nat
  BY <1>2, LenProperties
<1>4. /\ k \in 0..Len(want.args) /\ (k = Len(want.args) => have.args = want.args)
      /\ k # Len(want.args) => k < Len(want.args) /\ k + 1 \in 1..Len(want.args)
  BY <1>1, <1>2, BegunMore
<1>5. CASE k = Len(want.args)
  <2>1. have.name = want.name /\ have.method = want.method /\ have.args = want.args
    BY <1>1, <1>4, <1>5 DEF CallBegun
  <2>2. have = want
    <3>1. \A x, y \in TextTool : x.name = y.name /\ x.method = y.method /\ x.args = y.args => x = y
      BY DEF TextTool
    <3>2. QED
      BY <1>2, <2>1, <3>1, Zenon
  <2>3. \A i \in 1..(t - 1) : tool_calls[i] = s.tool_calls[i]
    BY <1>1 DEF CallBegun
  <2>4. \A i \in 1..t : i = t \/ i \in 1..(t - 1)
    OBVIOUS
  <2>5. \A i \in 1..t : tool_calls[i] = s.tool_calls[i]
    BY <2>2, <2>3, <2>4
  <2>6. Begun(tool_calls, s.tool_calls)
    BY <1>2, <2>5 DEF Begun
  <2>7. Ahead(sent.buffer, pos, ToolsAhead(s, t, rest))
    BY <1>1, <1>2, <1>4, <1>5, ArgsAheadAre
  <2>8. AtTool(s, rest)
    BY <1>1, <1>2, <2>6, <2>7 DEF AtTool, CallBegun
  <2>9. QED
    BY <2>8, FollowsTool
<1>6. CASE k # Len(want.args)
  <2> DEFINE pair == want.args[k + 1]
             next == ArgsAhead(s, t, k + 1, rest)
             lost == [key |-> pair.key, value |-> <<>>]
  <2>1. k < Len(want.args) /\ k + 1 \in 1..Len(want.args)
    BY <1>4, <1>6
  <2>2. pair \in Pair /\ pair \in TextPair
    <3>1. pair \in Pair
      BY <1>2, <2>1, ElementOfSeq
    <3>2. QED
      BY <3>1, SentIsText
  <2>3. /\ Ahead(sent.buffer, pos, encode_kvpair(OP_TOOL_ARG, pair.key, pair.value) \o next)
        /\ next \in Text
    <3>1. Ahead(sent.buffer, pos, ArgsAhead(s, t, k, rest))
      BY <1>1
    <3>2. QED
      BY <1>2, <1>4, <2>1, <3>1, ArgsAheadAre
  <2>4. ASSUME NEW arg \in TextPair, arg.key = pair.key
        PROVE  Assigned(have.args, arg) = Append(have.args, arg)
    <3>1. ASSUME NEW i \in DOMAIN have.args, have.args[i].key = arg.key PROVE FALSE
      <4>1. i \in 1..k
        BY <1>2, LenProperties
      <4>2. have.args[i] = want.args[i]
        BY <1>1, <4>1 DEF Begun
      <4>3. i \in DOMAIN want.args /\ k + 1 \in DOMAIN want.args /\ i # k + 1
        BY <1>2, <1>3, <2>1, <4>1, LenProperties
      <4>4. QED
        BY <1>2, <2>4, <3>1, <4>2, <4>3 DEF OncePerKey
    <3>2. QED
      BY <3>1 DEF Assigned
  <2>5. Begun(Append(have.args, pair), want.args) /\ Len(Append(have.args, pair)) = k + 1
    BY <1>1, <1>2, <1>6, BegunMore
  <2> HIDE DEF next
  <2>6. \/ RefusedForTheCut
        \/ \E arg \in TextPair :
             /\ tool_calls' = [tool_calls EXCEPT ![Len(tool_calls)].args = Assigned(@, arg)]
             /\ Took(arg, pair, lost, next)
             /\ UNCHANGED <<phase, buffer, fields, received, sent, vars, role>>
    <3> HIDE DEF pair
    <3>1. QED
      BY <1>2, <2>2, <2>3, ToolArgRound
  <2>7. CASE RefusedForTheCut
    BY <2>7 DEF RoundFollows
  <2>8. ASSUME NEW arg \in TextPair, Took(arg, pair, lost, next),
               tool_calls' = [tool_calls EXCEPT ![Len(tool_calls)].args = Assigned(@, arg)],
               UNCHANGED <<phase, buffer, fields, received, sent, vars, role>>
        PROVE  RoundFollows(s, rest)
    <3>1. arg.key = pair.key
      <4> HIDE DEF pair
      <4>1. QED
        BY <2>8 DEF Took
    <3> HIDE DEF pair
    <3>2. /\ Assigned(have.args, arg) = Append(have.args, arg)
          /\ Append(have.args, arg) \in Seq(TextPair)
      BY <1>2, <2>4, <3>1, AppendProperties
    <3>3. PICK call : call = [have EXCEPT !.args = Append(@, arg)]
      OBVIOUS
    <3>4. /\ call \in TextTool /\ call.name = have.name /\ call.method = have.method
          /\ call.args = Append(have.args, arg)
      BY <1>2, <3>2, <3>3 DEF TextTool
    <3>5. tool_calls' = [tool_calls EXCEPT ![t] = call]
      BY <1>2, <2>8, <3>2, <3>3, <3>4
    <3>6. UNCHANGED <<vars, role>>
      BY <2>8
    <3>7. /\ CallBegun(s, t)' /\ tool_calls'[t] = call
          /\ ShortCall(call, want) => ShortStatement(s)'
      BY <1>1, <3>4, <3>5, <3>6, CallChanges
    <3>8. CASE arg = pair /\ Ahead(sent.buffer, pos', next)
      <4>1. Begun(Append(have.args, arg), want.args) /\ Len(Append(have.args, arg)) = k + 1
        BY <2>5, <3>8
      <4>2. AtArg(s, rest)'
        BY <1>1, <2>8, <3>4, <3>7, <3>8, <4>1 DEF AtArg, next
      <4>3. QED
        BY <2>8, <4>2 DEF RoundFollows, Amid
    <3>9. CASE arg = lost /\ pos' = Len(buffer) /\ ~Intact
      <4>1. arg = Emptied(pair)
        BY <2>2, <3>9 DEF Emptied, TextPair
      <4>2. ShortOf(Append(have.args, arg), want.args)
        BY <1>1, <1>2, <1>6, <4>1, ShortByOne DEF pair
      <4>3. call.name = want.name /\ call.method = want.method
        BY <1>1, <3>4 DEF CallBegun
      <4>4. ShortCall(call, want)
        BY <3>4, <4>2, <4>3 DEF ShortCall
      <4>5. CutAmid(s)'
        BY <2>8, <3>7, <3>9, <4>4 DEF CutAmid, Intact
      <4>6. QED
        BY <2>8, <4>5 DEF RoundFollows
    <3>10. QED
      BY <2>8, <3>8, <3>9 DEF Took
  <2> HIDE DEF pair, lost
  <2>9. QED
    BY <2>6, <2>7, <2>8
<1>7. QED
  BY <1>5, <1>6

LEMMA FollowsMethod ==
    ASSUME CodecTyped, CutShort, DecodeStatement, pos < Len(buffer),
           NEW s \in Statement, NEW rest \in Text, AtMethod(s, rest)
    PROVE  RoundFollows(s, rest)
<1>1. PICK t \in Nat :
        /\ CallBegun(s, t)
        /\ tool_calls[t].method = NoMethod /\ tool_calls[t].args = <<>>
        /\ Ahead(sent.buffer, pos, MethodAhead(s, t, rest))
  BY DEF AtMethod
<1> DEFINE have == tool_calls[t]
           want == s.tool_calls[t]
<1>2. /\ tool_calls # <<>> /\ t = Len(tool_calls) /\ t \in 1..Len(s.tool_calls)
      /\ have \in TextTool /\ want \in Tool /\ want.args \in Seq(TextPair)
  BY <1>1, CallBegunIs
<1>3. Begun(<<>>, want.args) /\ Len(<<>>) = 0
  BY <1>2, NothingBegun
<1>4. want.method = NoMethod \/ \E text \in Sendable : want.method = <<text>>
  BY <1>2, MethodIs
<1>5. CASE want.method = NoMethod
  <2>1. Ahead(sent.buffer, pos, ArgsAhead(s, t, 0, rest))
    BY <1>1, <1>2, <1>5, MethodAheadIs
  <2>2. AtArg(s, rest)
    BY <1>1, <1>3, <1>5, <2>1 DEF AtArg
  <2>3. QED
    BY <2>2, FollowsArg
<1>6. ASSUME NEW text \in Sendable, want.method = <<text>> PROVE RoundFollows(s, rest)
  <2> DEFINE next == ArgsAhead(s, t, 0, rest)
  <2>1. /\ Ahead(sent.buffer, pos, encode_string(OP_TOOL_METHOD, text) \o next)
        /\ next \in Text
    BY <1>1, <1>2, <1>6, MethodAheadIs
  <2> HIDE DEF next
  <2>2. \/ RefusedForTheCut
        \/ \E got \in Text :
             /\ tool_calls' = [tool_calls EXCEPT ![Len(tool_calls)].method = <<got>>]
             /\ Took(got, text, <<>>, next)
             /\ UNCHANGED <<phase, buffer, fields, received, sent, vars, role>>
    BY <1>2, <2>1, ToolMethodRound
  <2>3. CASE RefusedForTheCut
    BY <2>3 DEF RoundFollows
  <2>4. ASSUME NEW got \in Text, Took(got, text, <<>>, next),
               tool_calls' = [tool_calls EXCEPT ![Len(tool_calls)].method = <<got>>],
               UNCHANGED <<phase, buffer, fields, received, sent, vars, role>>
        PROVE  RoundFollows(s, rest)
    <3>1. PICK m : m = <<got>>
      OBVIOUS
    <3>2. m \in Seq(Text)
      BY <3>1
    <3>3. PICK call : call = [have EXCEPT !.method = m]
      OBVIOUS
    <3>4. /\ call \in TextTool /\ call.name = have.name /\ call.method = m
          /\ call.args = have.args
      BY <1>2, <3>2, <3>3 DEF TextTool
    <3>5. tool_calls' = [tool_calls EXCEPT ![t] = call]
      BY <1>2, <2>4, <3>1, <3>3
    <3>6. UNCHANGED <<vars, role>>
      BY <2>4
    <3>7. /\ CallBegun(s, t)' /\ tool_calls'[t] = call
          /\ ShortCall(call, want) => ShortStatement(s)'
      BY <1>1, <3>4, <3>5, <3>6, CallChanges
    <3>8. CASE got = text /\ Ahead(sent.buffer, pos', next)
      <4>1. call.method = want.method
        BY <1>6, <3>1, <3>4, <3>8
      <4>2. AtArg(s, rest)'
        BY <1>1, <1>3, <2>4, <3>4, <3>7, <3>8, <4>1 DEF AtArg, next
      <4>3. QED
        BY <2>4, <4>2 DEF RoundFollows, Amid
    <3>9. CASE got = <<>> /\ pos' = Len(buffer) /\ ~Intact
      <4>1. call.method = <<<<>>>> /\ call.args = <<>> /\ call.name = want.name
        BY <1>1, <3>1, <3>4, <3>9 DEF CallBegun
      <4>2. want.method # NoMethod
        BY <1>6 DEF NoMethod
      <4>3. ShortCall(call, want)
        BY <4>1, <4>2 DEF ShortCall
      <4>4. CutAmid(s)'
        BY <2>4, <3>7, <3>9, <4>3 DEF CutAmid, Intact
      <4>5. QED
        BY <2>4, <4>4 DEF RoundFollows
    <3>10. QED
      BY <2>4, <3>8, <3>9 DEF Took
  <2>5. QED
    BY <2>2, <2>3, <2>4
<1>7. QED
  BY <1>4, <1>5, <1>6

LEMMA RoundsFollow ==
    ASSUME CodecTyped, CutShort, DecodeStatement, pos < Len(buffer),
           NEW s \in Statement, NEW rest \in Text, Amid(s, rest)
    PROVE  RoundFollows(s, rest)
BY FollowsRole, FollowsPair, FollowsTool, FollowsMethod, FollowsArg DEF Amid

\* Where the whole buffer has not ended, there is the end marker at least.
LEMMA AmidIsLeft ==
    ASSUME CodecTyped, CutShort, NEW s \in Statement, NEW rest \in Text, Amid(s, rest)
    PROVE  pos < Len(sent.buffer)
<1>1. sent.buffer \in Text /\ Len(sent.buffer) \in Nat
  BY LenProperties DEF CutShort, Text
<1>2. /\ s.kvpairs \in Seq(Pair) /\ s.tool_calls \in Seq(Tool)
      /\ data \in Seq(TextPair) /\ tool_calls \in Seq(TextTool)
  BY CodecTypeIs DEF Statement, CodecTyped
<1>3. ASSUME NEW r \in Text, Len(r) # 0, Ahead(sent.buffer, pos, r) PROVE pos < Len(sent.buffer)
  <2>1. pos \in 0..Len(sent.buffer) /\ SubSeq(sent.buffer, pos + 1, Len(sent.buffer)) = r
    BY <1>3 DEF Ahead
  <2>2. pos = Len(sent.buffer) => r = <<>>
    <3>1. SubSeq(sent.buffer, Len(sent.buffer) + 1, Len(sent.buffer)) = <<>>
      BY <1>1, SubSeqEmpty
    <3>2. QED
      BY <2>1, <3>1
  <2>3. r # <<>>
    BY <1>3
  <2>4. QED
    BY <1>1, <2>1, <2>2, <2>3
<1>4. ASSUME NEW f \in Text, NEW g \in Text, Len(g) # 0 PROVE f \o g \in Text /\ Len(f \o g) # 0
  BY <1>4, Joined DEF Text
<1>5. EndBytes \in Text /\ EndBytes \o rest \in Text /\ Len(EndBytes \o rest) # 0
  <2>1. EndBytes \in Text /\ Len(EndBytes) = 1
    BY OneByte, OpcodesAreBytes DEF EndBytes
  <2>2. QED
    BY <2>1, Joined DEF Text
<1>6. ASSUME NEW t \in 0..Len(s.tool_calls)
      PROVE  ToolsAhead(s, t, rest) \in Text /\ Len(ToolsAhead(s, t, rest)) # 0
  <2>1. ToolBytes(s.tool_calls) \in Seq(Text) /\ Len(ToolBytes(s.tool_calls)) = Len(s.tool_calls)
    BY <1>2, ToolBytesAreTexts
  <2>2. Behind(ToolBytes(s.tool_calls), t) \in Text
    BY <2>1, BehindMore DEF Text
  <2>3. QED
    BY <1>4, <1>5, <2>2 DEF ToolsAhead
<1>7. ASSUME NEW k \in 0..Len(s.kvpairs)
      PROVE  PairsAhead(s, k, rest) \in Text /\ Len(PairsAhead(s, k, rest)) # 0
  <2>1. PairBytes(s.kvpairs) \in Seq(Text) /\ Len(PairBytes(s.kvpairs)) = Len(s.kvpairs)
    BY <1>2, PairBytesAreTexts
  <2>2. Behind(PairBytes(s.kvpairs), k) \in Text
    BY <2>1, BehindMore DEF Text
  <2>3. 0 \in 0..Len(s.tool_calls)
    BY <1>2, LenProperties
  <2>4. QED
    BY <1>4, <1>6, <2>2, <2>3 DEF PairsAhead
<1>8. ASSUME NEW t \in 1..Len(s.tool_calls), NEW k \in 0..Len(s.tool_calls[t].args)
      PROVE  ArgsAhead(s, t, k, rest) \in Text /\ Len(ArgsAhead(s, t, k, rest)) # 0
  <2> DEFINE aa == ArgBytes(s.tool_calls[t].args)
  <2>1. s.tool_calls[t].args \in Seq(Pair)
    <3>1. s.tool_calls[t] \in Tool
      BY <1>2, ElementOfSeq
    <3>2. QED
      BY <3>1 DEF Tool
  <2>2. aa \in Seq(Text) /\ Len(aa) = Len(s.tool_calls[t].args)
    BY <2>1, ArgBytesAreTexts
  <2>3. Behind(aa, k) \in Text
    <3> HIDE DEF aa
    <3>1. QED
      BY <2>2, BehindMore DEF Text
  <2>4. t \in 0..Len(s.tool_calls)
    OBVIOUS
  <2>5. QED
    BY <1>4, <1>6, <2>3, <2>4 DEF ArgsAhead
<1>9. CASE AtRole(s, rest)
  <2>1. s.role \in Sendable /\ 0 \in 0..Len(s.kvpairs)
    BY <1>2, LenProperties DEF Statement
  <2>2. encode_string(OP_ROLE, s.role) \in Text
    BY <2>1, StringIsText, OpcodesAreBytes
  <2>3. AllAhead(s, rest) \in Text /\ Len(AllAhead(s, rest)) # 0
    BY <1>4, <1>7, <2>1, <2>2 DEF AllAhead
  <2>4. QED
    BY <1>3, <1>9, <2>3 DEF AtRole
<1>10. CASE AtPair(s, rest)
  <2>1. Len(data) \in 0..Len(s.kvpairs)
    BY <1>2, <1>10, LenProperties DEF AtPair, Begun
  <2>2. QED
    BY <1>3, <1>7, <1>10, <2>1 DEF AtPair
<1>11. CASE AtTool(s, rest)
  <2>1. Len(tool_calls) \in 0..Len(s.tool_calls)
    BY <1>2, <1>11, LenProperties DEF AtTool, Begun
  <2>2. QED
    BY <1>3, <1>6, <1>11, <2>1 DEF AtTool
<1>12. CASE AtMethod(s, rest)
  <2>1. PICK t \in Nat : CallBegun(s, t) /\ Ahead(sent.buffer, pos, MethodAhead(s, t, rest))
    BY <1>12 DEF AtMethod
  <2>2. t \in 1..Len(s.tool_calls) /\ s.tool_calls[t] \in Tool
        /\ s.tool_calls[t].args \in Seq(Pair)
    BY <2>1, CallBegunIs
  <2>3. 0 \in 0..Len(s.tool_calls[t].args)
    BY <2>2, LenProperties
  <2>4. MethodBytes(s.tool_calls[t]) \in Text
    BY <2>2, MethodIs
  <2>5. MethodAhead(s, t, rest) \in Text /\ Len(MethodAhead(s, t, rest)) # 0
    BY <1>4, <1>8, <2>2, <2>3, <2>4 DEF MethodAhead
  <2>6. QED
    BY <1>3, <2>1, <2>5
<1>13. CASE AtArg(s, rest)
  <2>1. PICK t \in Nat :
          /\ CallBegun(s, t) /\ Begun(tool_calls[t].args, s.tool_calls[t].args)
          /\ Ahead(sent.buffer, pos, ArgsAhead(s, t, Len(tool_calls[t].args), rest))
    BY <1>13 DEF AtArg
  <2>2. t \in 1..Len(s.tool_calls) /\ tool_calls[t].args \in Seq(TextPair)
        /\ s.tool_calls[t].args \in Seq(Pair)
    BY <2>1, CallBegunIs
  <2>3. Len(tool_calls[t].args) \in 0..Len(s.tool_calls[t].args)
    BY <2>1, <2>2, LenProperties DEF Begun
  <2>4. QED
    BY <1>3, <1>8, <2>1, <2>2, <2>3
<1>14. QED
  BY <1>9, <1>10, <1>11, <1>12, <1>13 DEF Amid

\* A statement that is half read when the buffer ends is a short one.
LEMMA AmidIsShort ==
    ASSUME CodecTyped, NEW s \in Statement, NEW rest \in Text, Amid(s, rest), ~(pos < Len(buffer))
    PROVE  ShortStatement(s)
<1>1. /\ data \in Seq(TextPair) /\ tool_calls \in Seq(TextTool)
      /\ s.kvpairs \in Seq(TextPair) /\ s.tool_calls \in Seq(TextTool)
  BY CodecTypeIs, SentIsText DEF CodecTyped
<1>2. ASSUME NEW S, NEW x \in Seq(S) PROVE ShortOf(x, x)
  BY LenProperties DEF ShortOf
<1>3. ASSUME NEW x \in TextTool PROVE ShortCall(x, x)
  <2>1. x.args \in Seq(TextPair)
    BY DEF TextTool
  <2>2. QED
    BY <1>2, <2>1 DEF ShortCall
<1>4. ~AtRole(s, rest)
  BY DEF AtRole
<1>5. CASE AtPair(s, rest)
  BY <1>5, BegunIsShort DEF AtPair, ShortStatement
<1>6. CASE AtTool(s, rest)
  <2>1. role = s.role /\ data = s.kvpairs /\ Begun(tool_calls, s.tool_calls)
    BY <1>6 DEF AtTool
  <2>2. CASE tool_calls = <<>>
    BY <1>1, <1>2, <2>1, <2>2 DEF ShortStatement
  <2>3. CASE tool_calls # <<>>
    <3> DEFINE n == Len(tool_calls)
    <3>1. n \in 1..Len(s.tool_calls) /\ n \in 1..n
      <4>1. n \in Nat /\ n # 0 /\ Len(s.tool_calls) \in Nat
        BY <1>1, <2>3, LenProperties, EmptySeq
      <4>2. QED
        BY <2>1, <4>1 DEF Begun
    <3>2. \A i \in 1..n : tool_calls[i] = s.tool_calls[i]
      BY <2>1 DEF Begun
    <3>3. tool_calls[n] \in TextTool
      BY <1>1, <3>1, ElementOfSeq
    <3>4. ShortCall(tool_calls[n], s.tool_calls[n])
      BY <1>3, <3>1, <3>2, <3>3
    <3>5. \A i \in 1..(n - 1) : i \in 1..n
      BY <3>1
    <3>6. ShortCalls(tool_calls, s.tool_calls)
      BY <3>1, <3>2, <3>4, <3>5 DEF ShortCalls
    <3>7. QED
      BY <2>1, <3>6 DEF ShortStatement
  <2>4. QED
    BY <2>2, <2>3
<1>7. ASSUME NEW t \in Nat, CallBegun(s, t), ShortCall(tool_calls[t], s.tool_calls[t])
      PROVE  ShortStatement(s)
  <2>1. ShortCalls(tool_calls, s.tool_calls)
    BY <1>7 DEF CallBegun, ShortCalls
  <2>2. QED
    BY <1>7, <2>1 DEF CallBegun, ShortStatement
<1>8. CASE AtMethod(s, rest)
  <2>1. PICK t \in Nat : /\ CallBegun(s, t)
                         /\ tool_calls[t].method = NoMethod /\ tool_calls[t].args = <<>>
    BY <1>8 DEF AtMethod
  <2>2. QED
    BY <1>7, <2>1 DEF CallBegun, ShortCall
<1>9. CASE AtArg(s, rest)
  <2>1. PICK t \in Nat : /\ CallBegun(s, t)
                         /\ tool_calls[t].method = s.tool_calls[t].method
                         /\ Begun(tool_calls[t].args, s.tool_calls[t].args)
    BY <1>9 DEF AtArg
  <2>2. ShortOf(tool_calls[t].args, s.tool_calls[t].args)
    BY <2>1, BegunIsShort
  <2>3. QED
    BY <1>7, <2>1, <2>2 DEF CallBegun, ShortCall
<1>10. QED
  BY <1>4, <1>5, <1>6, <1>8, <1>9 DEF Amid

-----------------------------------------------------------------------------
(* What a short message says, one text after another.                      *)

LEMMA ShortBasics ==
    ASSUME NEW S, NEW m \in Seq(S) PROVE ShortOf(m, m) /\ ShortOf(<<>>, m)
BY LenProperties DEF ShortOf

\* A short sequence stays one behind the same items, and in front of any.
LEMMA ShortBehind ==
    ASSUME NEW S, NEW p \in Seq(S), NEW g \in Seq(S), NEW m \in Seq(S), ShortOf(g, m)
    PROVE  ShortOf(p \o g, p \o m)
<1> DEFINE f == p \o g
           w == p \o m
           n == Len(p)
<1>1. /\ Len(f) = n + Len(g) /\ Len(w) = n + Len(m)
      /\ n \in Nat /\ Len(g) \in Nat /\ Len(m) \in Nat
      /\ \A i \in 1..n : f[i] = p[i] /\ w[i] = p[i]
      /\ \A i \in 1..Len(g) : f[n + i] = g[i]
      /\ \A i \in 1..Len(m) : w[n + i] = m[i]
  BY Joined
<1>2. /\ Len(g) <= Len(m)
      /\ \A i \in 1..Len(g) : g[i] = m[i] \/ (i = Len(g) /\ g[i] = Emptied(m[i]))
  BY DEF ShortOf
<1> HIDE DEF f, w, n
<1>3. Len(f) <= Len(w)
  BY <1>1, <1>2
<1>4. ASSUME NEW i \in 1..Len(f) PROVE f[i] = w[i] \/ (i = Len(f) /\ f[i] = Emptied(w[i]))
  <2>1. CASE i \in 1..n
    BY <1>1, <2>1
  <2>2. CASE i \notin 1..n
    <3>1. PICK j \in 1..Len(g) : i = n + j
      <4>1. i - n \in 1..Len(g) /\ i = n + (i - n)
        BY <1>1, <2>2
      <4>2. QED
        BY <4>1
    <3>2. j \in 1..Len(m)
      BY <1>1, <1>2
    <3>3. f[i] = g[j] /\ w[i] = m[j]
      BY <1>1, <3>1, <3>2
    <3>4. j = Len(g) => i = Len(f)
      BY <1>1, <3>1
    <3>5. QED
      BY <1>2, <3>3, <3>4
  <2>3. QED
    BY <2>1, <2>2
<1>5. ShortOf(f, w)
  BY <1>3, <1>4 DEF ShortOf
<1>6. QED
  BY <1>5 DEF f, w

LEMMA ShortBefore ==
    ASSUME NEW S, NEW g \in Seq(S), NEW m \in Seq(S), NEW q \in Seq(S), ShortOf(g, m)
    PROVE  ShortOf(g, m \o q)
<1> DEFINE w == m \o q
<1>1. /\ Len(w) = Len(m) + Len(q) /\ Len(m) \in Nat /\ Len(q) \in Nat /\ Len(g) \in Nat
      /\ \A i \in 1..Len(m) : w[i] = m[i]
  BY Joined
<1>2. /\ Len(g) <= Len(m)
      /\ \A i \in 1..Len(g) : g[i] = m[i] \/ (i = Len(g) /\ g[i] = Emptied(m[i]))
  BY DEF ShortOf
<1> HIDE DEF w
<1>3. Len(g) <= Len(w) /\ \A i \in 1..Len(g) : w[i] = m[i]
  BY <1>1, <1>2
<1>4. ShortOf(g, w)
  BY <1>2, <1>3 DEF ShortOf
<1>5. QED
  BY <1>4 DEF w

\* What is put together is the first k texts and what is left behind them.
LEMMA FlattenSplit ==
    ASSUME NEW B, NEW ss \in Seq(Seq(B)), NEW k \in 0..Len(ss)
    PROVE  FlattenSeq(ss) = FlattenSeq(SubSeq(ss, 1, k)) \o Behind(ss, k)
<1> DEFINE n == Len(ss)
           First(j) == SubSeq(ss, 1, j)
           S == {j \in 0..n : FlattenSeq(ss) = FlattenSeq(First(j)) \o Behind(ss, j)}
<1>1. n \in Nat /\ \A i \in 1..n : ss[i] \in Seq(B)
  BY LenProperties, ElementOfSeq
<1>2. ASSUME NEW j \in 0..n PROVE First(j) \in Seq(Seq(B)) /\ FlattenSeq(First(j)) \in Seq(B)
  <2>1. \A i \in 1..j : ss[i] \in Seq(B)
    BY <1>1
  <2>2. 1 \in Int /\ j \in Int
    BY <1>1
  <2>3. First(j) \in Seq(Seq(B))
    BY <2>1, <2>2, SubSeqProperties
  <2>4. QED
    BY <2>3, FlattenMore
<1>3. 0 \in S
  <2>1. First(0) = <<>>
    BY SubSeqEmpty
  <2>2. FlattenSeq(First(0)) = <<>>
    BY <2>1, FlattenMore
  <2>3. 0 \in 0..n
    BY <1>1
  <2>4. Behind(ss, 0) = FlattenSeq(ss) /\ Behind(ss, 0) \in Seq(B)
    BY <2>3, BehindMore
  <2>5. <<>> \o Behind(ss, 0) = Behind(ss, 0)
    BY <2>4, ConcatEmptySeq
  <2>6. QED
    BY <2>2, <2>3, <2>4, <2>5
<1>4. ASSUME NEW j \in 1..n, j - 1 \in S PROVE j \in S
  <2>1. j - 1 \in 0..n /\ j \in 0..n /\ j - 1 < n /\ (j - 1) + 1 = j
    BY <1>1
  <2>2. FlattenSeq(ss) = FlattenSeq(First(j - 1)) \o Behind(ss, j - 1)
    BY <1>4
  <2>3. Behind(ss, j - 1) = ss[j] \o Behind(ss, j)
    <3>1. PICK h : h = j - 1
      OBVIOUS
    <3>2. h \in 0..Len(ss) /\ h < Len(ss) /\ h + 1 = j
      BY <2>1, <3>1
    <3>3. Behind(ss, h) = ss[h + 1] \o Behind(ss, h + 1)
      BY <3>2, BehindMore
    <3>4. QED
      BY <3>1, <3>2, <3>3
  <2>4. First(j) = Append(First(j - 1), ss[j]) /\ ss[j] \in Seq(B)
    <3>1. 1 \in 1..Len(ss) /\ j \in 1..Len(ss)
      BY <1>1
    <3>2. SubSeq(ss, 1, j) = SubSeq(ss, 1, j - 1) \o <<ss[j]>>
      BY <3>1, SubSeqRecursiveSecond
    <3>3. First(j - 1) \in Seq(Seq(B)) /\ ss[j] \in Seq(B)
      BY <1>1, <1>2, <2>1
    <3>4. QED
      BY <3>2, <3>3, AppendIsConcat
  <2>5. First(j - 1) \in Seq(Seq(B)) /\ FlattenSeq(First(j - 1)) \in Seq(B)
    BY <1>2, <2>1
  <2>6. FlattenSeq(First(j)) = FlattenSeq(First(j - 1)) \o ss[j]
    BY <2>4, <2>5, FlattenMore
  <2>7. Behind(ss, j) \in Seq(B)
    BY <2>1, BehindMore
  <2>8. \A x, y, z \in Seq(B) : (x \o y) \o z = x \o (y \o z)
    BY ConcatAssociative
  <2>9. (FlattenSeq(First(j - 1)) \o ss[j]) \o Behind(ss, j)
          = FlattenSeq(First(j - 1)) \o (ss[j] \o Behind(ss, j))
    BY <2>4, <2>5, <2>7, <2>8
  <2> HIDE DEF First
  <2>10. QED
    BY <2>1, <2>2, <2>3, <2>6, <2>9
<1> HIDE DEF S
<1>5. k \in S
  <2> HIDE DEF n
  <2>1. \A j \in 0..n : j \in S
    BY <1>1, <1>3, <1>4, UpTo
  <2>2. QED
    BY <2>1 DEF n
<1>6. QED
  BY <1>5 DEF S

\* Put together, sequences the last of which is short make a short one.
LEMMA FlattenShort ==
    ASSUME NEW B, NEW ss \in Seq(Seq(B)), NEW tt \in Seq(Seq(B)), Len(tt) \in 1..Len(ss),
           \A i \in 1..(Len(tt) - 1) : tt[i] = ss[i],
           ShortOf(tt[Len(tt)], ss[Len(tt)])
    PROVE  ShortOf(FlattenSeq(tt), FlattenSeq(ss))
<1> DEFINE n == Len(tt)
           front == SubSeq(ss, 1, n - 1)
<1>1. n \in 1..Len(ss) /\ n \in Nat /\ Len(ss) \in Nat /\ n - 1 \in 0..Len(ss)
      /\ n - 1 \in 0..n /\ n \in 0..n /\ n \in 0..Len(ss) /\ n \in 1..n
  BY LenProperties
<1>2. tt[n] \in Seq(B) /\ ss[n] \in Seq(B)
  BY <1>1, ElementOfSeq
<1>3. SubSeq(tt, 1, n - 1) = front /\ front \in Seq(Seq(B))
  <2>1. \A i \in 1..(n - 1) : tt[i] \in Seq(B) /\ ss[i] \in Seq(B)
    <3>1. \A i \in 1..(n - 1) : i \in 1..n /\ i \in 1..Len(ss)
      BY <1>1
    <3>2. QED
      BY <3>1, ElementOfSeq
  <2>2. 1 \in Int /\ n - 1 \in Int
    BY <1>1
  <2>3. /\ front \in Seq(Seq(B)) /\ Len(front) = IF 1 <= n - 1 THEN (n - 1) - 1 + 1 ELSE 0
        /\ \A i \in 1..((n - 1) - 1 + 1) : front[i] = ss[1 + i - 1]
    BY <2>1, <2>2, SubSeqProperties
  <2> DEFINE ft == SubSeq(tt, 1, n - 1)
  <2>4. /\ ft \in Seq(Seq(B)) /\ Len(ft) = IF 1 <= n - 1 THEN (n - 1) - 1 + 1 ELSE 0
        /\ \A i \in 1..((n - 1) - 1 + 1) : ft[i] = tt[1 + i - 1]
    BY <2>1, <2>2, SubSeqProperties
  <2> HIDE DEF ft, front, n
  <2>5. (n - 1) - 1 + 1 = n - 1 /\ \A i \in 1..(n - 1) : 1 + i - 1 = i
    BY <1>1
  <2>6. Len(ft) = n - 1 /\ Len(front) = n - 1
    BY <1>1, <2>3, <2>4
  <2>7. \A i \in 1..(n - 1) : front[i] = ss[i] /\ ft[i] = tt[i]
    BY <2>3, <2>4, <2>5
  <2>8. \A i \in 1..Len(ft) : ft[i] = front[i]
    BY <2>6, <2>7 DEF n
  <2>9. ft = front
    BY <2>3, <2>4, <2>6, <2>8, SeqEqual
  <2>10. QED
    BY <2>3, <2>9 DEF ft
<1> HIDE DEF front
<1>4. FlattenSeq(front) \in Seq(B)
  BY <1>3, FlattenMore
<1>5. FlattenSeq(tt) = FlattenSeq(front) \o tt[n]
  <2>1. PICK h : h = n - 1
    OBVIOUS
  <2>2. h \in 0..Len(tt) /\ h < Len(tt) /\ h + 1 = n
    BY <1>1, <2>1
  <2>3. FlattenSeq(tt) = FlattenSeq(front) \o Behind(tt, h)
    BY <1>3, <2>1, <2>2, FlattenSplit
  <2>4. Behind(tt, h) = tt[h + 1] \o Behind(tt, h + 1)
    BY <2>2, BehindMore
  <2>5. Behind(tt, Len(tt)) = <<>>
    BY <2>2, BehindMore
  <2>6. tt[n] \o <<>> = tt[n]
    BY <1>2, ConcatEmptySeq
  <2>7. QED
    BY <2>2, <2>3, <2>4, <2>5, <2>6
<1>6. /\ FlattenSeq(ss) = FlattenSeq(front) \o (ss[n] \o Behind(ss, n))
      /\ Behind(ss, n) \in Seq(B)
  <2>1. PICK h : h = n - 1
    OBVIOUS
  <2>2. h \in 0..Len(ss) /\ h < Len(ss) /\ h + 1 = n
    BY <1>1, <2>1
  <2>3. FlattenSeq(ss) = FlattenSeq(front) \o Behind(ss, h)
    BY <2>1, <2>2, FlattenSplit DEF front
  <2>4. Behind(ss, h) = ss[h + 1] \o Behind(ss, h + 1)
    BY <2>2, BehindMore
  <2>5. Behind(ss, n) \in Seq(B)
    BY <1>1, BehindMore
  <2>6. QED
    BY <2>2, <2>3, <2>4, <2>5
<1>7. ShortOf(tt[n], ss[n] \o Behind(ss, n)) /\ ss[n] \o Behind(ss, n) \in Seq(B)
  <2>1. ss[n] \o Behind(ss, n) \in Seq(B)
    BY <1>2, <1>6, Joined
  <2> HIDE DEF n
  <2>2. ShortOf(tt[n], ss[n])
    BY DEF n
  <2>3. QED
    BY <1>2, <1>6, <2>1, <2>2, ShortBefore
<1> HIDE DEF n
<1>8. QED
  BY <1>2, <1>4, <1>5, <1>6, <1>7, ShortBehind

\* An item of a message; its key is a key, the opcode of a field, or nothing.
AnItem == [what : {"header", "role", "pair", "tool", "method", "arg"}, key : Text, value : Text]
TextField == [op : 1..OP_HR, value : Text]

MethodItems(method) == [i \in DOMAIN method |-> Item("method", <<>>, method[i])]
HeaderItems(header) == [i \in DOMAIN header |-> Item("header", <<header[i].op>>, header[i].value)]
CallItems(tools) == [i \in DOMAIN tools |-> ToolItems(tools[i])]
ItemsOfEach(statements) == [i \in DOMAIN statements |-> StatementItems(statements[i])]

\* A sequence made of one thing for each of n.
LEMMA OneForEach ==
    ASSUME NEW T, NEW n \in Nat, NEW f \in [1..n -> T] PROVE f \in Seq(T) /\ Len(f) = n
OBVIOUS

\* Short sequences of what has a value make short sequences of items.
LEMMA PairItemsAre ==
    ASSUME NEW what \in {"pair", "arg"}, NEW pairs \in Seq(TextPair)
    PROVE  /\ PairItems(what, pairs) \in Seq(AnItem)
           /\ Len(PairItems(what, pairs)) = Len(pairs)
           /\ \A i \in 1..Len(pairs) :
                 PairItems(what, pairs)[i] = Item(what, pairs[i].key, pairs[i].value)
<1> DEFINE f == PairItems(what, pairs)
<1>1. f = [i \in DOMAIN pairs |-> f[i]]
  BY DEF PairItems
<1>2. ASSUME NEW i \in 1..Len(pairs)
      PROVE  f[i] = Item(what, pairs[i].key, pairs[i].value) /\ f[i] \in AnItem
  <2>1. i \in DOMAIN pairs /\ pairs[i] \in TextPair
    BY LenProperties, ElementOfSeq
  <2>2. f[i] = Item(what, pairs[i].key, pairs[i].value)
    BY <2>1 DEF PairItems
  <2>3. QED
    BY <2>1, <2>2 DEF Item, AnItem, TextPair
<1> HIDE DEF f
<1>3. f \in Seq(AnItem) /\ Len(f) = Len(pairs)
  <2>1. DOMAIN pairs = 1..Len(pairs) /\ Len(pairs) \in Nat
    BY LenProperties
  <2>2. f \in [1..Len(pairs) -> AnItem]
    BY <1>1, <1>2, <2>1
  <2>3. QED
    BY <2>1, <2>2, OneForEach
<1>4. QED
  BY <1>2, <1>3 DEF f

LEMMA PairItemsShort ==
    ASSUME NEW what \in {"pair", "arg"}, NEW g \in Seq(TextPair), NEW m \in Seq(TextPair),
           ShortOf(g, m)
    PROVE  ShortOf(PairItems(what, g), PairItems(what, m))
<1> DEFINE f == PairItems(what, g)
           w == PairItems(what, m)
<1>1. /\ Len(f) = Len(g) /\ Len(w) = Len(m)
      /\ \A i \in 1..Len(g) : f[i] = Item(what, g[i].key, g[i].value)
      /\ \A i \in 1..Len(m) : w[i] = Item(what, m[i].key, m[i].value)
  BY PairItemsAre
<1>2. /\ Len(g) <= Len(m) /\ Len(g) \in Nat /\ Len(m) \in Nat
      /\ \A i \in 1..Len(g) : g[i] = m[i] \/ (i = Len(g) /\ g[i] = Emptied(m[i]))
  BY LenProperties DEF ShortOf
<1> HIDE DEF f, w
<1>3. ASSUME NEW i \in 1..Len(g) PROVE f[i] = w[i] \/ (i = Len(f) /\ f[i] = Emptied(w[i]))
  <2>1. i \in 1..Len(m) /\ m[i] \in TextPair
    BY <1>2, ElementOfSeq
  <2>2. f[i] = Item(what, g[i].key, g[i].value) /\ w[i] = Item(what, m[i].key, m[i].value)
    BY <1>1, <2>1
  <2>3. CASE g[i] = Emptied(m[i]) /\ i = Len(g)
    <3>1. g[i].key = m[i].key /\ g[i].value = <<>>
      BY <2>1, <2>3 DEF Emptied, TextPair
    <3>2. QED
      BY <1>1, <2>2, <2>3, <3>1 DEF Item, Emptied
  <2>4. QED
    BY <1>2, <2>2, <2>3
<1>4. ShortOf(f, w)
  BY <1>1, <1>2, <1>3 DEF ShortOf
<1>5. QED
  BY <1>4 DEF f, w

LEMMA HeaderItemsAre ==
    ASSUME NEW header \in Seq(TextField)
    PROVE  /\ HeaderItems(header) \in Seq(AnItem)
           /\ Len(HeaderItems(header)) = Len(header)
           /\ \A i \in 1..Len(header) :
                 HeaderItems(header)[i] = Item("header", <<header[i].op>>, header[i].value)
<1> DEFINE f == HeaderItems(header)
<1>1. f = [i \in DOMAIN header |-> f[i]]
  BY DEF HeaderItems
<1>2. ASSUME NEW i \in 1..Len(header)
      PROVE  f[i] = Item("header", <<header[i].op>>, header[i].value) /\ f[i] \in AnItem
  <2>1. i \in DOMAIN header /\ header[i] \in TextField
    BY LenProperties, ElementOfSeq
  <2>2. f[i] = Item("header", <<header[i].op>>, header[i].value)
    BY <2>1 DEF HeaderItems
  <2>3. header[i].op \in Byte /\ header[i].value \in Text
    BY <2>1 DEF TextField, OP_HR, Byte
  <2>4. PICK key : key = <<header[i].op>>
    OBVIOUS
  <2>5. key \in Text
    BY <2>3, <2>4, OneByte
  <2>6. QED
    BY <2>2, <2>3, <2>4, <2>5 DEF Item, AnItem
<1> HIDE DEF f
<1>3. f \in Seq(AnItem) /\ Len(f) = Len(header)
  <2>1. DOMAIN header = 1..Len(header) /\ Len(header) \in Nat
    BY LenProperties
  <2>2. f \in [1..Len(header) -> AnItem]
    BY <1>1, <1>2, <2>1
  <2>3. QED
    BY <2>1, <2>2, OneForEach
<1>4. QED
  BY <1>2, <1>3 DEF f

LEMMA HeaderItemsShort ==
    ASSUME NEW g \in Seq(TextField), NEW m \in Seq(TextField), ShortOf(g, m)
    PROVE  ShortOf(HeaderItems(g), HeaderItems(m))
<1> DEFINE f == HeaderItems(g)
           w == HeaderItems(m)
<1>1. /\ Len(f) = Len(g) /\ Len(w) = Len(m)
      /\ \A i \in 1..Len(g) : f[i] = Item("header", <<g[i].op>>, g[i].value)
      /\ \A i \in 1..Len(m) : w[i] = Item("header", <<m[i].op>>, m[i].value)
  BY HeaderItemsAre
<1>2. /\ Len(g) <= Len(m) /\ Len(g) \in Nat /\ Len(m) \in Nat
      /\ \A i \in 1..Len(g) : g[i] = m[i] \/ (i = Len(g) /\ g[i] = Emptied(m[i]))
  BY LenProperties DEF ShortOf
<1> HIDE DEF f, w
<1>3. ASSUME NEW i \in 1..Len(g) PROVE f[i] = w[i] \/ (i = Len(f) /\ f[i] = Emptied(w[i]))
  <2>1. i \in 1..Len(m) /\ m[i] \in TextField
    BY <1>2, ElementOfSeq
  <2>2. f[i] = Item("header", <<g[i].op>>, g[i].value)
        /\ w[i] = Item("header", <<m[i].op>>, m[i].value)
    BY <1>1, <2>1
  <2>3. CASE g[i] = Emptied(m[i]) /\ i = Len(g)
    <3>1. g[i].op = m[i].op /\ g[i].value = <<>>
      BY <2>1, <2>3 DEF Emptied, TextField
    <3>2. QED
      BY <1>1, <2>2, <2>3, <3>1 DEF Item, Emptied
  <2>4. QED
    BY <1>2, <2>2, <2>3
<1>4. ShortOf(f, w)
  BY <1>1, <1>2, <1>3 DEF ShortOf
<1>5. QED
  BY <1>4 DEF f, w

\* One item, whole or without its value, in front of others.
LEMMA FirstItem ==
    ASSUME NEW x \in AnItem, NEW y \in AnItem, x = y \/ x = Emptied(y), NEW q \in Seq(AnItem)
    PROVE  /\ <<x>> \in Seq(AnItem) /\ <<y>> \in Seq(AnItem)
           /\ ShortOf(<<x>>, <<y>> \o q)
<1> DEFINE f == <<x>>
           w == <<y>>
<1>1. f \in Seq(AnItem) /\ w \in Seq(AnItem)
  OBVIOUS
<1>2. Len(f) = 1 /\ Len(w) = 1 /\ f[1] = x /\ w[1] = y
  OBVIOUS
<1> HIDE DEF f, w
<1>3. ShortOf(f, w)
  BY <1>2 DEF ShortOf
<1>4. ShortOf(f, w \o q)
  BY <1>1, <1>3, ShortBefore
<1>5. QED
  BY <1>1, <1>4 DEF f, w

\* The items of a tool call, and of one that was cut off.
LEMMA ToolItemsAre ==
    ASSUME NEW tool \in TextTool
    PROVE  /\ Item("tool", <<>>, tool.name) \in AnItem
           /\ <<Item("tool", <<>>, tool.name)>> \in Seq(AnItem)
           /\ MethodItems(tool.method) \in Seq(AnItem)
           /\ Len(MethodItems(tool.method)) = Len(tool.method)
           /\ \A i \in 1..Len(tool.method) :
                MethodItems(tool.method)[i] = Item("method", <<>>, tool.method[i])
           /\ PairItems("arg", tool.args) \in Seq(AnItem)
           /\ ToolItems(tool) = (<<Item("tool", <<>>, tool.name)>> \o MethodItems(tool.method))
                                  \o PairItems("arg", tool.args)
           /\ ToolItems(tool) \in Seq(AnItem)
<1> DEFINE one == Item("tool", <<>>, tool.name)
           two == MethodItems(tool.method)
           three == PairItems("arg", tool.args)
<1>1. tool.name \in Text /\ tool.method \in Seq(Text) /\ tool.args \in Seq(TextPair)
  BY DEF TextTool
<1>2. <<>> \in Text
  BY EmptyText
<1>3. one \in AnItem
  BY <1>1, <1>2 DEF Item, AnItem
<1>4. two = [i \in DOMAIN tool.method |-> two[i]]
  BY DEF MethodItems
<1>5. ASSUME NEW i \in 1..Len(tool.method)
      PROVE  two[i] = Item("method", <<>>, tool.method[i]) /\ two[i] \in AnItem
  <2>1. i \in DOMAIN tool.method /\ tool.method[i] \in Text
    BY <1>1, LenProperties, ElementOfSeq
  <2>2. two[i] = Item("method", <<>>, tool.method[i])
    BY <2>1 DEF MethodItems
  <2>3. QED
    BY <1>2, <2>1, <2>2 DEF Item, AnItem
<1>6. three \in Seq(AnItem)
  BY <1>1, PairItemsAre
<1>7. ToolItems(tool) = (<<one>> \o two) \o three
  BY DEF ToolItems, MethodItems
<1> HIDE DEF one, two, three
<1>8. two \in Seq(AnItem) /\ Len(two) = Len(tool.method)
  <2>1. DOMAIN tool.method = 1..Len(tool.method) /\ Len(tool.method) \in Nat
    BY <1>1, LenProperties
  <2>2. two \in [1..Len(tool.method) -> AnItem]
    BY <1>4, <1>5, <2>1
  <2>3. QED
    BY <2>1, <2>2, OneForEach
<1>9. <<one>> \in Seq(AnItem)
  BY <1>3
<1>10. <<one>> \o two \in Seq(AnItem)
  BY <1>8, <1>9, Joined
<1>11. (<<one>> \o two) \o three \in Seq(AnItem)
  BY <1>6, <1>10, Joined
<1>12. QED
  BY <1>3, <1>5, <1>6, <1>7, <1>8, <1>9, <1>11 DEF one, two, three

LEMMA ToolItemsShort ==
    ASSUME NEW have \in TextTool, NEW want \in TextTool, ShortCall(have, want)
    PROVE  ShortOf(ToolItems(have), ToolItems(want))
<1> DEFINE x == Item("tool", <<>>, have.name)
           y == Item("tool", <<>>, want.name)
           mx == MethodItems(have.method)
           my == MethodItems(want.method)
           ax == PairItems("arg", have.args)
           ay == PairItems("arg", want.args)
<1>1. /\ x \in AnItem /\ <<x>> \in Seq(AnItem) /\ mx \in Seq(AnItem) /\ ax \in Seq(AnItem)
      /\ ToolItems(have) = (<<x>> \o mx) \o ax
      /\ Len(mx) = Len(have.method)
      /\ \A i \in 1..Len(have.method) : mx[i] = Item("method", <<>>, have.method[i])
  BY ToolItemsAre
<1>2. /\ y \in AnItem /\ <<y>> \in Seq(AnItem) /\ my \in Seq(AnItem) /\ ay \in Seq(AnItem)
      /\ ToolItems(want) = (<<y>> \o my) \o ay
      /\ Len(my) = Len(want.method)
      /\ \A i \in 1..Len(want.method) : my[i] = Item("method", <<>>, want.method[i])
  BY ToolItemsAre
<1>3. have.args \in Seq(TextPair) /\ want.args \in Seq(TextPair) /\ want.method \in Seq(Text)
  BY DEF TextTool
<1>4. have.args = <<>> => ax = <<>>
  BY <1>1, <1>3, PairItemsAre, EmptySeq
<1>5. \A p \in Seq(AnItem) : p \o <<>> = p
  BY ConcatEmptySeq
<1>6. have.name = want.name => x = y
  OBVIOUS
<1>7. have.name \in {want.name, <<>>} => x = y \/ x = Emptied(y)
  BY DEF Item, Emptied
<1>8. (<<y>> \o my) \o ay = <<y>> \o (my \o ay) /\ my \o ay \in Seq(AnItem)
      /\ <<y>> \o my \in Seq(AnItem)
  BY <1>2, Joined, ConcatAssociative
<1> HIDE DEF x, y, mx, my, ax, ay
<1>9. CASE have.name \in {want.name, <<>>} /\ have.method = NoMethod /\ have.args = <<>>
  <2>1. mx = <<>>
    BY <1>1, <1>9, EmptySeq DEF NoMethod
  <2>2. ToolItems(have) = <<x>>
    BY <1>1, <1>4, <1>5, <1>9, <2>1
  <2>3. ShortOf(<<x>>, <<y>> \o (my \o ay))
    BY <1>1, <1>2, <1>7, <1>8, <1>9, FirstItem
  <2>4. QED
    BY <1>2, <1>8, <2>2, <2>3
<1>10. CASE /\ have.name = want.name /\ have.args = <<>>
            /\ have.method = <<<<>>>> /\ want.method # NoMethod
  <2>1. Len(have.method) = 1 /\ have.method[1] = <<>>
    BY <1>10
  <2>2. Len(mx) = 1 /\ mx[1] = Item("method", <<>>, <<>>)
    BY <1>1, <2>1
  <2>3. Len(my) \in Nat /\ Len(my) >= 1 /\ my[1] = Item("method", <<>>, want.method[1])
    <3>1. Len(want.method) \in Nat /\ Len(want.method) # 0
      BY <1>3, <1>10, LenProperties, EmptySeq DEF NoMethod
    <3>2. QED
      BY <1>2, <3>1
  <2>4. mx[1] = Emptied(my[1])
    BY <2>2, <2>3 DEF Item, Emptied
  <2>5. ShortOf(mx, my)
    BY <2>2, <2>3, <2>4 DEF ShortOf
  <2>6. ShortOf(mx, my \o ay)
    BY <1>1, <1>2, <2>5, ShortBefore
  <2>7. ShortOf(<<y>> \o mx, <<y>> \o (my \o ay))
    BY <1>1, <1>2, <1>8, <2>6, ShortBehind
  <2>8. ToolItems(have) = <<y>> \o mx
    <3>1. <<x>> \o mx \in Seq(AnItem)
      BY <1>1, Joined
    <3>2. QED
      BY <1>1, <1>4, <1>5, <1>6, <1>10, <3>1
  <2>9. QED
    BY <1>2, <1>8, <2>7, <2>8
<1>11. CASE have.name = want.name /\ have.method = want.method /\ ShortOf(have.args, want.args)
  <2>1. mx = my /\ x = y
    BY <1>6, <1>11 DEF mx, my
  <2>2. ShortOf(ax, ay)
    BY <1>3, <1>11, PairItemsShort DEF ax, ay
  <2>3. PICK p : p = <<y>> \o my
    OBVIOUS
  <2>4. ShortOf(p \o ax, p \o ay)
    BY <1>1, <1>2, <1>8, <2>2, <2>3, ShortBehind
  <2>5. QED
    BY <1>1, <1>2, <2>1, <2>3, <2>4
<1>12. QED
  BY <1>9, <1>10, <1>11 DEF ShortCall

\* The items of a statement.
LEMMA CallItemsAre ==
    ASSUME NEW tools \in Seq(TextTool)
    PROVE  /\ CallItems(tools) \in Seq(Seq(AnItem)) /\ Len(CallItems(tools)) = Len(tools)
           /\ \A i \in 1..Len(tools) : CallItems(tools)[i] = ToolItems(tools[i])
           /\ FlattenSeq(CallItems(tools)) \in Seq(AnItem)
<1> DEFINE f == CallItems(tools)
<1>1. f = [i \in DOMAIN tools |-> f[i]]
  BY DEF CallItems
<1>2. DOMAIN tools = 1..Len(tools) /\ Len(tools) \in Nat
  BY LenProperties
<1>3. ASSUME NEW i \in 1..Len(tools) PROVE f[i] = ToolItems(tools[i]) /\ f[i] \in Seq(AnItem)
  BY <1>2, ElementOfSeq, ToolItemsAre DEF CallItems
<1> HIDE DEF f
<1>4. f \in [1..Len(tools) -> Seq(AnItem)]
  BY <1>1, <1>2, <1>3
<1>5. f \in Seq(Seq(AnItem)) /\ Len(f) = Len(tools)
  BY <1>2, <1>4, OneForEach
<1>6. QED
  BY <1>3, <1>5, FlattenMore DEF f

LEMMA StatementItemsAre ==
    ASSUME NEW s \in TextStatement
    PROVE  /\ Item("role", <<>>, s.role) \in AnItem
           /\ <<Item("role", <<>>, s.role)>> \in Seq(AnItem)
           /\ PairItems("pair", s.kvpairs) \in Seq(AnItem)
           /\ CallItems(s.tool_calls) \in Seq(Seq(AnItem))
           /\ FlattenSeq(CallItems(s.tool_calls)) \in Seq(AnItem)
           /\ StatementItems(s) =
                (<<Item("role", <<>>, s.role)>> \o PairItems("pair", s.kvpairs))
                  \o FlattenSeq(CallItems(s.tool_calls))
           /\ StatementItems(s) \in Seq(AnItem)
<1> DEFINE one == Item("role", <<>>, s.role)
           two == PairItems("pair", s.kvpairs)
           three == FlattenSeq(CallItems(s.tool_calls))
<1>1. s.role \in Text /\ s.kvpairs \in Seq(TextPair) /\ s.tool_calls \in Seq(TextTool)
  BY DEF TextStatement
<1>2. one \in AnItem
  BY <1>1, EmptyText DEF Item, AnItem
<1>3. two \in Seq(AnItem)
  BY <1>1, PairItemsAre
<1>4. CallItems(s.tool_calls) \in Seq(Seq(AnItem)) /\ three \in Seq(AnItem)
  BY <1>1, CallItemsAre
<1>5. StatementItems(s) = (<<one>> \o two) \o three
  BY DEF StatementItems, CallItems
<1> HIDE DEF one, two, three
<1>6. <<one>> \in Seq(AnItem)
  BY <1>2
<1>7. <<one>> \o two \in Seq(AnItem)
  BY <1>3, <1>6, Joined
<1>8. (<<one>> \o two) \o three \in Seq(AnItem)
  BY <1>4, <1>7, Joined
<1>9. QED
  BY <1>2, <1>3, <1>4, <1>5, <1>6, <1>8 DEF one, two, three

\* A statement that was cut off says what the whole one says first.
LEMMA StatementItemsShort ==
    ASSUME CodecTyped, NEW s \in TextStatement, ShortStatement(s),
           NEW t, t = [role |-> role, kvpairs |-> data, tool_calls |-> tool_calls]
    PROVE  t \in TextStatement /\ ShortOf(StatementItems(t), StatementItems(s))
<1>1. /\ t \in TextStatement
      /\ role = t.role /\ data = t.kvpairs /\ tool_calls = t.tool_calls
  BY CodecTypeIs DEF CodecTyped, TextStatement
<1> DEFINE x == Item("role", <<>>, t.role)
           y == Item("role", <<>>, s.role)
           px == PairItems("pair", t.kvpairs)
           py == PairItems("pair", s.kvpairs)
           cx == CallItems(t.tool_calls)
           cy == CallItems(s.tool_calls)
<1>2. /\ x \in AnItem /\ <<x>> \in Seq(AnItem) /\ px \in Seq(AnItem) /\ cx \in Seq(Seq(AnItem))
      /\ FlattenSeq(cx) \in Seq(AnItem)
      /\ StatementItems(t) = (<<x>> \o px) \o FlattenSeq(cx)
  BY <1>1, StatementItemsAre
<1>3. /\ y \in AnItem /\ <<y>> \in Seq(AnItem) /\ py \in Seq(AnItem) /\ cy \in Seq(Seq(AnItem))
      /\ FlattenSeq(cy) \in Seq(AnItem)
      /\ StatementItems(s) = (<<y>> \o py) \o FlattenSeq(cy)
  BY StatementItemsAre
<1>4. /\ t.kvpairs \in Seq(TextPair) /\ s.kvpairs \in Seq(TextPair)
      /\ t.tool_calls \in Seq(TextTool) /\ s.tool_calls \in Seq(TextTool)
  BY <1>1 DEF TextStatement
<1>5. t.kvpairs = <<>> => px = <<>>
  <2>1. Len(px) = Len(t.kvpairs)
    BY <1>4, PairItemsAre
  <2> HIDE DEF px
  <2>2. QED
    BY <1>2, <2>1, EmptySeq
<1>6. t.tool_calls = <<>> => FlattenSeq(cx) = <<>>
  BY <1>2, <1>4, CallItemsAre, FlattenMore, EmptySeq
<1>7. \A p \in Seq(AnItem) : p \o <<>> = p
  BY ConcatEmptySeq
<1>8. t.role = s.role => x = y
  OBVIOUS
<1>9. t.role \in {s.role, <<>>} => x = y \/ x = Emptied(y)
  BY DEF Item, Emptied
<1>10. t.kvpairs = s.kvpairs => px = py
  OBVIOUS
<1> DEFINE fx == FlattenSeq(cx)
           fy == FlattenSeq(cy)
<1>11. /\ (<<y>> \o py) \o fy = <<y>> \o (py \o fy) /\ py \o fy \in Seq(AnItem)
       /\ <<y>> \o py \in Seq(AnItem)
  <2> HIDE DEF fy, y, py
  <2>1. QED
    BY <1>3, Joined, ConcatAssociative DEF fy
<1> HIDE DEF x, y, px, py, cx, cy
<1>12. CASE role \in {s.role, <<>>} /\ data = <<>> /\ tool_calls = <<>>
  <2>1. StatementItems(t) = <<x>>
    BY <1>1, <1>2, <1>5, <1>6, <1>7, <1>12
  <2>2. ShortOf(<<x>>, <<y>> \o (py \o fy))
    BY <1>1, <1>2, <1>3, <1>9, <1>11, <1>12, FirstItem
  <2>3. QED
    BY <1>1, <1>3, <1>11, <2>1, <2>2
<1>13. CASE role = s.role /\ ShortOf(data, s.kvpairs) /\ tool_calls = <<>>
  <2>1. ShortOf(px, py)
    BY <1>1, <1>4, <1>13, PairItemsShort DEF px, py
  <2>2. ShortOf(px, py \o fy)
    BY <1>2, <1>3, <2>1, ShortBefore
  <2>3. ShortOf(<<y>> \o px, <<y>> \o (py \o fy))
    BY <1>2, <1>3, <1>11, <2>2, ShortBehind
  <2>4. StatementItems(t) = <<y>> \o px
    <3>1. <<x>> \o px \in Seq(AnItem)
      BY <1>2, Joined
    <3>2. QED
      BY <1>1, <1>2, <1>6, <1>7, <1>8, <1>13, <3>1
  <2>5. QED
    BY <1>1, <1>3, <1>11, <2>3, <2>4
<1>14. CASE role = s.role /\ data = s.kvpairs /\ ShortCalls(tool_calls, s.tool_calls)
  <2> DEFINE n == Len(t.tool_calls)
  <2>1. /\ n \in 1..Len(s.tool_calls)
        /\ \A i \in 1..(n - 1) : t.tool_calls[i] = s.tool_calls[i]
        /\ ShortCall(t.tool_calls[n], s.tool_calls[n])
    BY <1>1, <1>14 DEF ShortCalls
  <2>2. /\ Len(cx) = n /\ Len(cy) = Len(s.tool_calls)
        /\ \A i \in 1..n : cx[i] = ToolItems(t.tool_calls[i])
        /\ \A i \in 1..Len(s.tool_calls) : cy[i] = ToolItems(s.tool_calls[i])
    BY <1>4, CallItemsAre DEF cx, cy
  <2>3. n \in 1..n /\ n \in Nat /\ Len(s.tool_calls) \in Nat
    BY <1>4, <2>1, LenProperties
  <2>4. t.tool_calls[n] \in TextTool /\ s.tool_calls[n] \in TextTool
    BY <1>4, <2>1, <2>3, ElementOfSeq
  <2> HIDE DEF n
  <2>5. ShortOf(cx[n], cy[n])
    BY <2>1, <2>2, <2>3, <2>4, ToolItemsShort
  <2>6. \A i \in 1..(n - 1) : i \in 1..n /\ i \in 1..Len(s.tool_calls)
    BY <2>1, <2>3
  <2>7. \A i \in 1..(n - 1) : cx[i] = cy[i]
    BY <2>1, <2>2, <2>6
  <2>8. ShortOf(FlattenSeq(cx), FlattenSeq(cy))
    BY <1>2, <1>3, <2>1, <2>2, <2>5, <2>7, FlattenShort
  <2>9. PICK p : p = <<y>> \o py
    OBVIOUS
  <2>10. ShortOf(p \o fx, p \o fy)
    BY <1>2, <1>3, <1>11, <2>8, <2>9, ShortBehind
  <2>11. StatementItems(t) = p \o fx /\ StatementItems(s) = p \o fy
    BY <1>1, <1>2, <1>3, <1>8, <1>10, <1>14, <2>9
  <2>12. QED
    BY <1>1, <2>10, <2>11
<1>15. QED
  BY <1>12, <1>13, <1>14 DEF ShortStatement

\* And the items of a message.
LEMMA ItemsOfEachAre ==
    ASSUME NEW sts \in Seq(TextStatement)
    PROVE  /\ ItemsOfEach(sts) \in Seq(Seq(AnItem)) /\ Len(ItemsOfEach(sts)) = Len(sts)
           /\ \A i \in 1..Len(sts) : ItemsOfEach(sts)[i] = StatementItems(sts[i])
           /\ FlattenSeq(ItemsOfEach(sts)) \in Seq(AnItem)
<1> DEFINE f == ItemsOfEach(sts)
<1>1. f = [i \in DOMAIN sts |-> f[i]]
  BY DEF ItemsOfEach
<1>2. DOMAIN sts = 1..Len(sts) /\ Len(sts) \in Nat
  BY LenProperties
<1>3. ASSUME NEW i \in 1..Len(sts) PROVE f[i] = StatementItems(sts[i]) /\ f[i] \in Seq(AnItem)
  BY <1>2, ElementOfSeq, StatementItemsAre DEF ItemsOfEach
<1> HIDE DEF f
<1>4. f \in [1..Len(sts) -> Seq(AnItem)]
  BY <1>1, <1>2, <1>3
<1>5. f \in Seq(Seq(AnItem)) /\ Len(f) = Len(sts)
  BY <1>2, <1>4, OneForEach
<1>6. QED
  BY <1>3, <1>5, FlattenMore DEF f

LEMMA ItemsAre ==
    ASSUME NEW header \in Seq(TextField), NEW sts \in Seq(TextStatement)
    PROVE  /\ Items(header, sts) = HeaderItems(header) \o FlattenSeq(ItemsOfEach(sts))
           /\ Items(header, sts) \in Seq(AnItem)
<1>1. Items(header, sts) = HeaderItems(header) \o FlattenSeq(ItemsOfEach(sts))
  BY DEF Items, HeaderItems, ItemsOfEach
<1>2. HeaderItems(header) \in Seq(AnItem) /\ FlattenSeq(ItemsOfEach(sts)) \in Seq(AnItem)
  BY HeaderItemsAre, ItemsOfEachAre
<1>3. QED
  BY <1>1, <1>2, Joined

\* A header alone that was cut off.
LEMMA ShortHeader ==
    ASSUME NEW g \in Seq(TextField), NEW header \in Seq(TextField),
           NEW sts \in Seq(TextStatement), ShortOf(g, header)
    PROVE  ShortOf(Items(g, <<>>), Items(header, sts))
<1> DEFINE f == HeaderItems(g)
           w == HeaderItems(header)
           q == FlattenSeq(ItemsOfEach(sts))
<1>1. f \in Seq(AnItem) /\ w \in Seq(AnItem) /\ q \in Seq(AnItem)
  BY HeaderItemsAre, ItemsOfEachAre
<1>2. Items(g, <<>>) = f \o FlattenSeq(ItemsOfEach(<<>>)) /\ Items(header, sts) = w \o q
  BY ItemsAre, EmptySeq
<1>3. FlattenSeq(ItemsOfEach(<<>>)) = <<>>
  <2>1. <<>> \in Seq(TextStatement) /\ Len(<<>>) = 0
    BY EmptySeq
  <2>2. ItemsOfEach(<<>>) = <<>>
    BY <2>1, ItemsOfEachAre, EmptySeq
  <2>3. QED
    BY <2>2, FlattenMore, EmptySeq
<1>4. ShortOf(f, w)
  BY HeaderItemsShort
<1> HIDE DEF f, w, q
<1>5. ShortOf(f, w \o q) /\ f \o <<>> = f
  BY <1>1, <1>4, ShortBefore, ConcatEmptySeq
<1>6. QED
  BY <1>2, <1>3, <1>5

\* Statements the last of which was cut off.
LEMMA ShortMessage ==
    ASSUME NEW header \in Seq(TextField), NEW sts \in Seq(TextStatement),
           NEW r \in Seq(TextStatement), Len(r) \in 1..Len(sts),
           \A i \in 1..(Len(r) - 1) : r[i] = sts[i],
           ShortOf(StatementItems(r[Len(r)]), StatementItems(sts[Len(r)]))
    PROVE  ShortOf(Items(header, r), Items(header, sts))
<1> DEFINE n == Len(r)
           h == HeaderItems(header)
           cx == ItemsOfEach(r)
           cy == ItemsOfEach(sts)
<1>1. /\ h \in Seq(AnItem) /\ cx \in Seq(Seq(AnItem)) /\ cy \in Seq(Seq(AnItem))
      /\ FlattenSeq(cx) \in Seq(AnItem) /\ FlattenSeq(cy) \in Seq(AnItem)
      /\ Len(cx) = n /\ Len(cy) = Len(sts)
      /\ \A i \in 1..n : cx[i] = StatementItems(r[i])
      /\ \A i \in 1..Len(sts) : cy[i] = StatementItems(sts[i])
  BY HeaderItemsAre, ItemsOfEachAre
<1>2. Items(header, r) = h \o FlattenSeq(cx) /\ Items(header, sts) = h \o FlattenSeq(cy)
  BY ItemsAre
<1>3. n \in 1..n /\ n \in 1..Len(sts) /\ Len(sts) \in Nat
  BY LenProperties
<1>4. /\ \A i \in 1..(n - 1) : r[i] = sts[i]
      /\ ShortOf(StatementItems(r[n]), StatementItems(sts[n]))
  OBVIOUS
<1> HIDE DEF n, h, cx, cy
<1>5. ShortOf(cx[n], cy[n])
  BY <1>1, <1>3, <1>4
<1>6. \A i \in 1..(n - 1) : i \in 1..n /\ i \in 1..Len(sts)
  BY <1>3
<1>7. \A i \in 1..(n - 1) : cx[i] = cy[i]
  BY <1>1, <1>4, <1>6
<1>8. ShortOf(FlattenSeq(cx), FlattenSeq(cy))
  BY <1>1, <1>3, <1>5, <1>7, FlattenShort
<1>9. ShortOf(h \o FlattenSeq(cx), h \o FlattenSeq(cy))
  BY <1>1, <1>8, ShortBehind
<1>10. QED
  BY <1>2, <1>9

\* Statements that came whole, without some at the end.
LEMMA BegunMessage ==
    ASSUME NEW header \in Seq(TextField), NEW sts \in Seq(TextStatement),
           NEW r \in Seq(TextStatement), Begun(r, sts)
    PROVE  ShortOf(Items(header, r), Items(header, sts))
<1>1. Len(r) \in Nat /\ Len(sts) \in Nat /\ Len(r) <= Len(sts)
      /\ \A i \in 1..Len(r) : r[i] = sts[i]
  BY LenProperties DEF Begun
<1>2. CASE Len(r) = 0
  <2>1. r = <<>>
    BY <1>2, EmptySeq
  <2>2. ShortOf(header, header)
    BY ShortBasics
  <2>3. QED
    BY <2>1, <2>2, ShortHeader
<1>3. CASE Len(r) # 0
  <2>1. Len(r) \in 1..Len(sts) /\ Len(r) \in 1..Len(r)
        /\ \A i \in 1..(Len(r) - 1) : i \in 1..Len(r)
    BY <1>1, <1>3
  <2>2. r[Len(r)] = sts[Len(r)] /\ r[Len(r)] \in TextStatement
    BY <1>1, <2>1, ElementOfSeq
  <2>3. StatementItems(r[Len(r)]) \in Seq(AnItem)
    BY <2>2, StatementItemsAre
  <2>4. ShortOf(StatementItems(r[Len(r)]), StatementItems(sts[Len(r)]))
    BY <2>2, <2>3, ShortBasics
  <2>5. QED
    BY <1>1, <2>1, <2>4, ShortMessage
<1>4. QED
  BY <1>2, <1>3

-----------------------------------------------------------------------------
(* The inductive invariant of the codec.                                   *)

HeaderBytes == Magic \o <<1>>

\* What was sent, and the buffer that was made of it.
EncodedOK ==
    /\ sent \in [fields : Seq(Field), statements : Seq(Statement), buffer : Text]
    /\ sent.buffer = HeaderBytes \o (FlattenSeq(FieldBytes(sent.fields))
                                      \o FlattenSeq(StatementBytes(sent.statements)))

\* Nothing is decoded before the buffer has arrived.
BuildOK ==
    /\ phase \in {"build", "wire"} =>
         pos = 0 /\ fields = <<>> /\ received = <<>> /\ role = <<>> /\ tool_calls = <<>>
    /\ phase = "build" => buffer = sent.buffer /\ MapInv(Keys, Values)
    /\ phase = "wire" => data = <<>>

\* Some fields of the header are read; or the buffer has ended amid one.
InHeader ==
    /\ Begun(fields, sent.fields)
    /\ received = <<>> /\ role = <<>> /\ data = <<>> /\ tool_calls = <<>>
    /\ Ahead(sent.buffer, pos, Behind(FieldBytes(sent.fields), Len(fields))
                                 \o Behind(StatementBytes(sent.statements), 0))

HeaderCutOff ==
    /\ pos = Len(buffer) /\ ShortOf(fields, sent.fields) /\ ~Intact
    /\ received = <<>> /\ role = <<>> /\ data = <<>> /\ tool_calls = <<>>

\* Some statements are read, and s is next.
AtStatement(s, rest) ==
    /\ fields = sent.fields
    /\ Begun(received, sent.statements) /\ Len(received) # Len(sent.statements)
    /\ s = sent.statements[Len(received) + 1]
    /\ rest = Behind(StatementBytes(sent.statements), Len(received) + 1)

\* A part of it is read; or the buffer has ended amid it.
InStatement == \E s \in Statement, rest \in Text : AtStatement(s, rest) /\ Amid(s, rest)

StatementCutOff == \E s \in Statement, rest \in Text : AtStatement(s, rest) /\ CutAmid(s)

DecodedAll == fields = sent.fields /\ received = sent.statements

ReadsWhatWasSent ==
    CutShort => /\ phase = "header" => InHeader \/ HeaderCutOff
                /\ phase = "statement" => InStatement \/ StatementCutOff
                /\ phase = "done" => ShortOf(Got, Meant) /\ (Intact => DecodedAll)
                /\ phase = "refused" => ~Intact

CodecInv == CodecTyped /\ EncodedOK /\ BuildOK /\ ReadsWhatWasSent

\* Where a statement may begin, one does or the buffer ends.
LEMMA StatementOrEnd ==
    ASSUME NEW b \in Text, NEW at, NEW sts \in Seq(Statement), NEW n \in 0..Len(sts),
           Ahead(b, at, Behind(StatementBytes(sts), n))
    PROVE  /\ n = Len(sts) => at = Len(b)
           /\ n # Len(sts) =>
                /\ at < Len(b) /\ b[at + 1] = OP_ROLE
                /\ sts[n + 1] \in Statement /\ Behind(StatementBytes(sts), n + 1) \in Text
                /\ Ahead(b, at, AllAhead(sts[n + 1], Behind(StatementBytes(sts), n + 1)))
<1> DEFINE ss == StatementBytes(sts)
<1>1. ss \in Seq(Seq(Byte)) /\ Len(ss) = Len(sts) /\ Len(sts) \in Nat
  BY StatementBytesAreTexts, LenProperties DEF Text
<1>2. at \in 0..Len(b) /\ Len(b) \in Nat
  BY LenProperties DEF Ahead, Text
<1>3. ASSUME n = Len(sts) PROVE at = Len(b)
  <2>1. SubSeq(b, at + 1, Len(b)) = <<>>
    <3>1. Behind(ss, Len(ss)) = <<>>
      BY <1>1, BehindMore
    <3>2. QED
      BY <1>1, <1>3, <3>1 DEF Ahead
  <2>2. Len(SubSeq(b, at + 1, Len(b))) = Len(b) - at
    <3>1. \A i \in (at + 1)..Len(b) : b[i] \in Byte
      BY <1>2, ElementOfSeq DEF Text
    <3>2. at + 1 \in Int /\ Len(b) \in Int
      BY <1>2
    <3>3. Len(SubSeq(b, at + 1, Len(b))) =
            IF at + 1 <= Len(b) THEN Len(b) - (at + 1) + 1 ELSE 0
      BY <3>1, <3>2, SubSeqProperties
    <3>4. QED
      BY <1>2, <3>3
  <2>3. Len(b) - at = 0
    BY <2>1, <2>2
  <2>4. QED
    BY <1>2, <2>3
<1>4. ASSUME n # Len(sts)
      PROVE  /\ at < Len(b) /\ b[at + 1] = OP_ROLE
             /\ sts[n + 1] \in Statement /\ Behind(ss, n + 1) \in Text
             /\ Ahead(b, at, AllAhead(sts[n + 1], Behind(ss, n + 1)))
  <2> DEFINE s == sts[n + 1]
             rest == Behind(ss, n + 1)
  <2>1. n < Len(sts) /\ n + 1 \in 1..Len(sts) /\ n + 1 \in 0..Len(ss) /\ n \in 0..Len(ss)
    BY <1>1, <1>4
  <2>2. s \in Statement
    BY <2>1, ElementOfSeq
  <2>3. rest \in Text
    BY <1>1, <2>1, BehindMore DEF Text
  <2>4. Behind(ss, n) = ss[n + 1] \o rest
    BY <1>1, <2>1, BehindMore
  <2>5. ss[n + 1] = encode_statement(s.role, s.kvpairs, s.tool_calls)
    BY <2>1, LenProperties DEF StatementBytes
  <2> HIDE DEF ss, s, rest
  <2>6. Behind(ss, n) = AllAhead(s, rest)
    BY <2>2, <2>3, <2>4, <2>5, AllAheadIs
  <2>7. Ahead(b, at, AllAhead(s, rest))
    BY <2>6 DEF ss
  <2>8. at < Len(b) /\ b[at + 1] = OP_ROLE
    <3>1. s.role \in Sendable /\ PairsAhead(s, 0, rest) \in Text
      BY <2>2, <2>3, AllAheadIs DEF Statement
    <3>2. Ahead(b, at, encode_string(OP_ROLE, s.role) \o PairsAhead(s, 0, rest))
      BY <2>7 DEF AllAhead
    <3>3. QED
      BY <3>1, <3>2, StringAhead, OpcodesAreBytes
  <2>9. QED
    BY <2>2, <2>3, <2>7, <2>8 DEF s, rest
<1>5. QED
  BY <1>3, <1>4

\* Decoding does not change what is decoded.
LEMMA StillEncoded ==
    ASSUME EncodedOK, UNCHANGED <<buffer, sent>>
    PROVE  EncodedOK' /\ (Intact' <=> Intact) /\ (CutShort' <=> CutShort)
BY DEF EncodedOK, Intact, CutShort, Begun

LEMMA CodecInvGives ==
    ASSUME CodecInv
    PROVE  /\ buffer \in Text /\ pos \in 0..Len(buffer) /\ Len(buffer) \in Nat
           /\ fields \in Seq(TextField) /\ received \in Seq(TextStatement)
           /\ data \in Seq(TextPair) /\ role \in Text /\ tool_calls \in Seq(TextTool)
           /\ phase \in {"build", "wire", "header", "statement", "done", "refused"}
           /\ MapInv(Text, Text)
           /\ sent.fields \in Seq(Field) /\ sent.statements \in Seq(Statement)
           /\ sent.statements \in Seq(TextStatement) /\ sent.buffer \in Text
           /\ sent.fields \in Seq(TextField)
           /\ CodecTyped /\ EncodedOK /\ BuildOK /\ ReadsWhatWasSent
<1>1. /\ buffer \in Text /\ pos \in 0..Len(buffer) /\ Len(buffer) \in Nat
      /\ fields \in Seq(TextField) /\ received \in Seq(TextStatement)
      /\ data \in Seq(TextPair) /\ role \in Text /\ tool_calls \in Seq(TextTool)
      /\ phase \in {"build", "wire", "header", "statement", "done", "refused"}
      /\ MapInv(Text, Text)
  BY CodecTypeIs, LenProperties DEF CodecInv, CodecTyped, Text, TextField
<1>2. EncodedOK /\ BuildOK /\ ReadsWhatWasSent
  BY DEF CodecInv
<1>3. sent.fields \in Seq(Field) /\ sent.statements \in Seq(Statement) /\ sent.buffer \in Text
  BY <1>2 DEF EncodedOK
<1>4. Field \subseteq TextField
  BY DEF Field, Sendable, TextField
<1>5. sent.fields \in Seq(TextField)
  BY <1>3, <1>4, SeqMonotonic
<1>6. sent.statements \in Seq(TextStatement)
  <2>1. Statement \subseteq TextStatement
    BY SentIsText
  <2>2. QED
    BY <1>3, <2>1, SeqMonotonic
<1>7. CodecTyped
  BY DEF CodecInv
<1>8. QED
  BY <1>1, <1>2, <1>3, <1>5, <1>6, <1>7

\* The parts of the state that a step leaves alone keep their types.
LEMMA MapUntouched == MapInv(Text, Text) /\ UNCHANGED vars => MapInv(Text, Text)' /\ UNCHANGED data
BY DEF vars, MapInv, MapTyped, IndexMatchesData

\* A buffer that arrived whole is the cut of no byte, and one that lacks some is not
\* whole.
LEMMA IntactIs ==
    ASSUME CodecInv
    PROVE  /\ Intact => CutShort
           /\ CutShort => /\ Len(buffer) \in Nat /\ Len(sent.buffer) \in Nat
                          /\ Len(buffer) <= Len(sent.buffer)
                          /\ \A i \in 1..Len(buffer) : buffer[i] = sent.buffer[i]
                          /\ Len(buffer) # Len(sent.buffer) => ~Intact
<1>1. Len(buffer) \in Nat /\ Len(sent.buffer) \in Nat /\ sent.buffer \in Text
  BY CodecInvGives, LenProperties DEF Text
<1>2. Intact => CutShort
  BY <1>1 DEF Intact, CutShort, Begun
<1>3. QED
  BY <1>1, <1>2 DEF Intact, CutShort, Begun

\* The round that ends the statement: the next begins, or the buffer is used up.
LEMMA NextStatementBegins ==
    ASSUME CodecInv, CutShort, NEW s \in Statement, NEW rest \in Text, AtStatement(s, rest),
           role = s.role, data = s.kvpairs, tool_calls = s.tool_calls,
           Ahead(sent.buffer, pos + 1, rest), FinishStatement(pos + 1)
    PROVE  /\ phase' = "statement" => InStatement'
           /\ phase' = "done" => ShortOf(Got, Meant)' /\ (Intact' => DecodedAll')
           /\ phase' \in {"statement", "done"}
<1> DEFINE n == Len(received)
           m == n + 1
           sts == sent.statements
<1>1. /\ buffer \in Text /\ sent.buffer \in Text /\ pos \in Nat
      /\ sts \in Seq(Statement) /\ sts \in Seq(TextStatement) /\ received \in Seq(TextStatement)
      /\ sent.fields \in Seq(TextField)
      /\ Len(buffer) \in Nat /\ Len(sent.buffer) \in Nat /\ Len(buffer) <= Len(sent.buffer)
  BY CodecInvGives, IntactIs
<1>2. s = [role |-> s.role, kvpairs |-> s.kvpairs, tool_calls |-> s.tool_calls]
  BY DEF Statement
<1>3. /\ received' = Append(received, s) /\ pos' = pos + 1 /\ sent' = sent /\ buffer' = buffer
      /\ phase' = IF pos + 1 < Len(buffer) THEN "statement" ELSE "done"
      /\ role' = <<>> /\ tool_calls' = <<>> /\ data' = <<>> /\ fields' = sent.fields
  BY <1>2 DEF FinishStatement, clear, AtStatement
<1>4. fields = sent.fields /\ Begun(received, sts) /\ n # Len(sts) /\ s = sts[m]
      /\ rest = Behind(StatementBytes(sts), m)
  BY DEF AtStatement
<1>5. s \in TextStatement
  BY SentIsText
<1>6. /\ Begun(received', sts) /\ Len(received') = m /\ m \in 0..Len(sts)
      /\ received' \in Seq(TextStatement) /\ (m = Len(sts) => received' = sts)
  <2>1. received' \in Seq(TextStatement)
    BY <1>1, <1>3, <1>5, AppendProperties
  <2>2. m \in 1..Len(sts) /\ Begun(Append(received, s), sts) /\ Len(Append(received, s)) = m
    BY <1>1, <1>4, BegunMore
  <2>3. m \in 0..Len(sts)
    BY <2>2
  <2> HIDE DEF m, sts
  <2>4. m = Len(sts) => received' = sts
    BY <1>1, <1>3, <2>1, <2>2, BegunMore
  <2>5. QED
    BY <1>3, <2>1, <2>2, <2>3, <2>4
<1> HIDE DEF m
<1>7. ShortOf(Got, Meant)'
  <2>1. ShortOf(Items(sent.fields, received'), Items(sent.fields, sts))
    BY <1>1, <1>6, BegunMessage
  <2>2. QED
    BY <1>3, <2>1 DEF Got, Meant
<1>8. CASE m = Len(sts)
  <2>1. pos + 1 = Len(sent.buffer)
    BY <1>1, <1>4, <1>6, <1>8, StatementOrEnd
  <2>2. phase' = "done"
    BY <1>1, <1>3, <2>1
  <2>3. DecodedAll'
    BY <1>3, <1>6, <1>8 DEF DecodedAll
  <2>4. QED
    BY <1>7, <2>2, <2>3
<1>9. CASE m # Len(sts)
  <2>1. PICK u, r : u = sts[m + 1] /\ r = Behind(StatementBytes(sts), m + 1)
    OBVIOUS
  <2>2. /\ pos + 1 < Len(sent.buffer) /\ u \in Statement /\ r \in Text
        /\ Ahead(sent.buffer, pos + 1, AllAhead(u, r))
    BY <1>1, <1>4, <1>6, <1>9, <2>1, StatementOrEnd
  <2>3. CASE pos + 1 < Len(buffer)
    <3>1. phase' = "statement"
      BY <1>3, <2>3
    <3>2. AtRole(u, r)'
      BY <1>3, <2>2, <2>3 DEF AtRole
    <3>3. AtStatement(u, r)'
      BY <1>3, <1>6, <1>9, <2>1 DEF AtStatement
    <3>4. InStatement'
      BY <2>2, <3>2, <3>3 DEF InStatement, Amid
    <3>5. QED
      BY <3>1, <3>4
  <2>4. CASE ~(pos + 1 < Len(buffer))
    <3>1. phase' = "done"
      BY <1>3, <2>4
    <3>2. ~Intact'
      BY <1>1, <1>3, <2>2, <2>4 DEF Intact
    <3>3. QED
      BY <1>7, <3>1, <3>2
  <2>5. QED
    BY <2>3, <2>4
<1>10. QED
  BY <1>8, <1>9

\* The buffer has ended amid the statement, which is returned as it is.
LEMMA LastStatementIsShort ==
    ASSUME CodecInv, NEW s \in Statement, NEW rest \in Text, AtStatement(s, rest),
           ShortStatement(s), RunOut
    PROVE  phase' = "done" /\ ShortOf(Got, Meant)'
<1> DEFINE n == Len(received)
           sts == sent.statements
<1>1. /\ pos \in 0..Len(buffer) /\ Len(buffer) \in Nat /\ CodecTyped
      /\ sts \in Seq(TextStatement) /\ received \in Seq(TextStatement)
      /\ sent.fields \in Seq(TextField)
  BY CodecInvGives
<1>2. PICK t : t = [role |-> role, kvpairs |-> data, tool_calls |-> tool_calls]
  OBVIOUS
<1>3. received' = Append(received, t) /\ phase' = "done" /\ sent' = sent /\ fields' = sent.fields
  BY <1>1, <1>2 DEF RunOut, FinishStatement, AtStatement
<1>4. Begun(received, sts) /\ n # Len(sts) /\ s = sts[n + 1]
  BY DEF AtStatement
<1>5. s \in TextStatement
  BY SentIsText
<1>6. t \in TextStatement /\ ShortOf(StatementItems(t), StatementItems(s))
  BY <1>1, <1>2, <1>5, StatementItemsShort
<1>7. PICK r : r = Append(received, t)
  OBVIOUS
<1>8. /\ r \in Seq(TextStatement) /\ Len(r) = n + 1 /\ r[n + 1] = t
      /\ \A i \in 1..n : r[i] = received[i]
  BY <1>1, <1>6, <1>7, AppendProperties
<1>9. n \in Nat /\ Len(sts) \in Nat /\ n + 1 \in 1..Len(sts) /\ (n + 1) - 1 = n
      /\ \A i \in 1..n : received[i] = sts[i]
  BY <1>1, <1>4, LenProperties DEF Begun
<1> HIDE DEF n, sts
<1>10. ShortOf(Items(sent.fields, r), Items(sent.fields, sts))
  <2>1. \A i \in 1..(Len(r) - 1) : r[i] = sts[i]
    BY <1>8, <1>9
  <2>2. ShortOf(StatementItems(r[Len(r)]), StatementItems(sts[Len(r)]))
    BY <1>4, <1>6, <1>8
  <2>3. QED
    BY <1>1, <1>8, <1>9, <2>1, <2>2, ShortMessage
<1>11. QED
  BY <1>3, <1>7, <1>10 DEF Got, Meant, sts

LEMMA RoundKeepsInv == ASSUME CodecInv, phase = "statement", DecodeStatement PROVE CodecInv'
<1>1. CodecTyped'
  BY RoundTyped DEF CodecInv
<1>2. /\ pos \in 0..Len(buffer) /\ Len(buffer) \in Nat /\ CodecTyped /\ ReadsWhatWasSent
      /\ EncodedOK /\ role \in Text /\ data \in Seq(TextPair) /\ tool_calls \in Seq(TextTool)
  BY CodecInvGives
<1>3. UNCHANGED <<buffer, sent, fields>> /\ phase' \in {"statement", "done", "refused"}
  BY DEF DecodeStatement, DecodeEnd, RunOut, RefuseStatement, Refuse, FinishStatement, GoOnBehind,
         DecodeRole, DecodePair, DecodeField, DecodeToolName, DecodeToolMethod, DecodeToolArg
<1>4. EncodedOK' /\ (Intact' <=> Intact) /\ (CutShort' <=> CutShort)
  BY <1>2, <1>3, StillEncoded
<1>5. BuildOK'
  BY <1>3 DEF BuildOK
<1>6. ASSUME CutShort, pos < Len(buffer) PROVE ReadsWhatWasSent'
  <2>1. PICK s \in Statement, rest \in Text : AtStatement(s, rest) /\ Amid(s, rest)
    BY <1>2, <1>6 DEF ReadsWhatWasSent, InStatement, StatementCutOff, CutAmid
  <2>2. RoundFollows(s, rest)
    BY <1>2, <1>6, <2>1, RoundsFollow
  <2>3. UNCHANGED <<fields, received, sent>> => AtStatement(s, rest)'
    BY <2>1 DEF AtStatement
  <2>4. CASE Amid(s, rest)' /\ UNCHANGED <<phase, buffer, fields, received, sent>>
    <3>1. InStatement'
      BY <2>3, <2>4 DEF InStatement
    <3>2. QED
      BY <2>4, <3>1 DEF ReadsWhatWasSent
  <2>5. CASE CutAmid(s)' /\ UNCHANGED <<phase, buffer, fields, received, sent>>
    <3>1. StatementCutOff'
      BY <2>3, <2>5 DEF StatementCutOff
    <3>2. QED
      BY <2>5, <3>1 DEF ReadsWhatWasSent
  <2>6. CASE RefusedForTheCut
    BY <1>4, <2>6 DEF RefusedForTheCut, Refuse, ReadsWhatWasSent
  <2>7. CASE /\ role = s.role /\ data = s.kvpairs /\ tool_calls = s.tool_calls
             /\ Ahead(sent.buffer, pos + 1, rest) /\ FinishStatement(pos + 1)
    <3>1. /\ phase' = "statement" => InStatement'
          /\ phase' = "done" => ShortOf(Got, Meant)' /\ (Intact' => DecodedAll')
          /\ phase' \in {"statement", "done"}
      BY <1>6, <2>1, <2>7, NextStatementBegins
    <3>2. QED
      BY <3>1 DEF ReadsWhatWasSent
  <2>8. QED
    BY <2>2, <2>4, <2>5, <2>6, <2>7 DEF RoundFollows
<1>7. ASSUME CutShort, ~(pos < Len(buffer)) PROVE ReadsWhatWasSent'
  <2>1. RunOut
    BY <1>7 DEF DecodeStatement, DecodeEnd, RefuseStatement, DecodeRole, DecodePair, DecodeField,
                DecodeToolName, DecodeToolMethod, DecodeToolArg, AtOpcode
  <2>2. PICK s \in Statement, rest \in Text :
          AtStatement(s, rest) /\ (Amid(s, rest) \/ CutAmid(s))
    BY <1>2, <1>7 DEF ReadsWhatWasSent, InStatement, StatementCutOff
  <2>3. ShortStatement(s) /\ ~Intact
    <3>1. CASE Amid(s, rest)
      <4>1. ShortStatement(s)
        BY <1>2, <1>7, <3>1, AmidIsShort
      <4>2. pos < Len(sent.buffer)
        BY <1>2, <1>7, <3>1, AmidIsLeft
      <4>3. ~Intact
        BY <1>7, <4>2 DEF Intact
      <4>4. QED
        BY <4>1, <4>3
    <3>2. CASE CutAmid(s)
      BY <3>2 DEF CutAmid
    <3>3. QED
      BY <2>2, <3>1, <3>2
  <2>4. phase' = "done" /\ ShortOf(Got, Meant)'
    BY <2>1, <2>2, <2>3, LastStatementIsShort
  <2>5. QED
    BY <1>4, <2>3, <2>4 DEF ReadsWhatWasSent
<1>8. ASSUME ~CutShort PROVE ReadsWhatWasSent'
  BY <1>4, <1>8 DEF ReadsWhatWasSent
<1>9. QED
  BY <1>1, <1>4, <1>5, <1>6, <1>7, <1>8 DEF CodecInv

\* In the header the next field is ahead, or the first statement or the end.
LEMMA HeaderAhead ==
    ASSUME CodecInv, InHeader
    PROVE  /\ Len(fields) = Len(sent.fields) =>
                /\ fields = sent.fields
                /\ Ahead(sent.buffer, pos, Behind(StatementBytes(sent.statements), 0))
           /\ Len(fields) # Len(sent.fields) =>
                \E field \in Field, r \in Text :
                   /\ field = sent.fields[Len(fields) + 1]
                   /\ r = Behind(FieldBytes(sent.fields), Len(fields) + 1)
                            \o Behind(StatementBytes(sent.statements), 0)
                   /\ Ahead(sent.buffer, pos, encode_string(field.op, field.value) \o r)
                   /\ Begun(Append(fields, field), sent.fields)
                   /\ Len(Append(fields, field)) = Len(fields) + 1
<1> DEFINE ff == FieldBytes(sent.fields)
           b == Behind(StatementBytes(sent.statements), 0)
           k == Len(fields)
<1>1. /\ sent.fields \in Seq(Field) /\ Len(sent.fields) \in Nat /\ k \in Nat
      /\ sent.fields \in Seq(TextField)
      /\ fields \in Seq(TextField)
      /\ Begun(fields, sent.fields)
  BY CodecInvGives, LenProperties DEF InHeader
<1>2. ff \in Seq(Text) /\ Len(ff) = Len(sent.fields)
  BY <1>1, FieldBytesAreTexts
<1>3. b \in Text
  <2>1. sent.statements \in Seq(Statement)
    BY CodecInvGives
  <2>2. StatementBytes(sent.statements) \in Seq(Seq(Byte))
    BY <2>1, StatementBytesAreTexts DEF Text
  <2>3. 0 \in 0..Len(StatementBytes(sent.statements))
    BY <2>2, LenProperties
  <2>4. QED
    BY <2>2, <2>3, BehindMore DEF Text
<1>4. Ahead(sent.buffer, pos, Behind(ff, k) \o b)
  BY DEF InHeader
<1>5. k \in 0..Len(sent.fields) /\ (k = Len(sent.fields) => fields = sent.fields)
  BY <1>1, BegunMore
<1>6. \A i \in DOMAIN sent.fields : ff[i] = encode_string(sent.fields[i].op, sent.fields[i].value)
  BY DEF FieldBytes
<1> HIDE DEF ff, b
<1>7. k \in 0..Len(ff)
  BY <1>2, <1>5
<1>8. /\ k = Len(ff) => Behind(ff, k) \o b = b
      /\ k < Len(ff) => /\ Behind(ff, k) \o b = ff[k + 1] \o (Behind(ff, k + 1) \o b)
                        /\ Behind(ff, k + 1) \o b \in Text
  BY <1>2, <1>3, <1>7, LeftBefore
<1>9. CASE k = Len(sent.fields)
  <2>1. Ahead(sent.buffer, pos, b)
    BY <1>2, <1>4, <1>8, <1>9
  <2>2. QED
    BY <1>5, <1>9, <2>1 DEF b
<1>10. CASE k # Len(sent.fields)
  <2>1. k < Len(sent.fields) /\ k + 1 \in 1..Len(sent.fields) /\ k < Len(ff)
    BY <1>1, <1>2, <1>5, <1>10
  <2>2. PICK field : field = sent.fields[k + 1]
    OBVIOUS
  <2>3. field \in Field
    BY <1>1, <2>1, <2>2, ElementOfSeq
  <2>4. PICK r : r = Behind(ff, k + 1) \o b
    OBVIOUS
  <2>5. r \in Text
    BY <1>8, <2>1, <2>4
  <2>6. ff[k + 1] = encode_string(field.op, field.value)
    BY <1>1, <1>6, <2>1, <2>2, LenProperties
  <2>7. Ahead(sent.buffer, pos, encode_string(field.op, field.value) \o r)
    BY <1>4, <1>8, <2>1, <2>4, <2>6
  <2>8. Begun(Append(fields, field), sent.fields) /\ Len(Append(fields, field)) = k + 1
    BY <1>1, <1>10, <2>2, BegunMore
  <2>9. QED
    BY <1>10, <2>2, <2>3, <2>4, <2>5, <2>7, <2>8 DEF ff, b
<1>11. QED
  BY <1>9, <1>10

\* A header field is decoded only where one was encoded.
LEMMA FieldRead ==
    ASSUME CodecInv, CutShort, phase = "header", pos < Len(buffer)
    PROVE  /\ InHeader
           /\ op_byte < OP_ROLE =>
                \E f \in Field, r \in Text :
                   /\ f = sent.fields[Len(fields) + 1]
                   /\ r = Behind(FieldBytes(sent.fields), Len(fields) + 1)
                            \o Behind(StatementBytes(sent.statements), 0)
                   /\ Begun(Append(fields, f), sent.fields)
                   /\ Len(Append(fields, f)) = Len(fields) + 1
                   /\ Len(fields) # Len(sent.fields) /\ op_byte = f.op
                   /\ ReadCut(decode_string(buffer, pos), buffer, sent.buffer, f.value, <<>>, r)
           /\ ~(op_byte < OP_ROLE) => Len(fields) = Len(sent.fields)
<1>1. /\ buffer \in Text /\ sent.buffer \in Text /\ pos \in Nat
      /\ Begun(buffer, sent.buffer) /\ sent.statements \in Seq(Statement)
      /\ Len(buffer) \in Nat /\ Len(sent.buffer) \in Nat /\ Len(buffer) <= Len(sent.buffer)
      /\ \A i \in 1..Len(buffer) : buffer[i] = sent.buffer[i]
  BY CodecInvGives, IntactIs DEF CutShort
<1>2. InHeader
  <2>1. ~HeaderCutOff
    BY <1>1 DEF HeaderCutOff
  <2>2. QED
    BY <2>1, CodecInvGives DEF ReadsWhatWasSent
<1>3. CASE Len(fields) = Len(sent.fields)
  <2>1. Ahead(sent.buffer, pos, Behind(StatementBytes(sent.statements), 0))
    BY <1>2, <1>3, HeaderAhead
  <2>2. 0 \in 0..Len(sent.statements)
    BY <1>1, LenProperties
  <2>3. pos = Len(sent.buffer) \/ sent.buffer[pos + 1] = OP_ROLE
    BY <1>1, <2>1, <2>2, StatementOrEnd
  <2>4. sent.buffer[pos + 1] = OP_ROLE
    BY <1>1, <2>3
  <2>5. op_byte = OP_ROLE
    <3>1. pos + 1 \in 1..Len(buffer)
      BY <1>1
    <3>2. QED
      BY <1>1, <2>4, <3>1 DEF op_byte
  <2>6. ~(op_byte < OP_ROLE)
    BY <2>5 DEF OP_ROLE
  <2>7. QED
    BY <1>2, <1>3, <2>6
<1>4. CASE Len(fields) # Len(sent.fields)
  <2>1. PICK f \in Field, r \in Text :
          /\ f = sent.fields[Len(fields) + 1]
          /\ r = Behind(FieldBytes(sent.fields), Len(fields) + 1)
                   \o Behind(StatementBytes(sent.statements), 0)
          /\ Ahead(sent.buffer, pos, encode_string(f.op, f.value) \o r)
          /\ Begun(Append(fields, f), sent.fields)
          /\ Len(Append(fields, f)) = Len(fields) + 1
    BY <1>2, <1>4, HeaderAhead
  <2>2. f.op \in Byte /\ f.value \in Sendable /\ f.op < OP_ROLE
    BY OpcodesAreBytes DEF Field
  <2>3. /\ buffer[pos + 1] = f.op
        /\ ReadCut(decode_string(buffer, pos), buffer, sent.buffer, f.value, <<>>, r)
    BY <1>1, <2>1, <2>2, CutStringDecodes
  <2>4. op_byte = f.op
    BY <2>3 DEF op_byte
  <2>5. QED
    BY <1>2, <1>4, <2>1, <2>2, <2>3, <2>4
<1>5. QED
  BY <1>3, <1>4

LEMMA HeaderFieldKeepsInv == ASSUME CodecInv, DecodeHeaderField PROVE CodecInv'
<1> DEFINE text == decode_string(buffer, pos)
           field == [op |-> op_byte, value |-> text.value]
<1>1. /\ phase = "header" /\ AtHeaderField /\ UNCHANGED <<vars, buffer, statement, received, sent>>
      /\ \/ (op_byte \notin 1..OP_HR \/ ~text.ok) /\ Refuse
         \/ /\ op_byte \in 1..OP_HR /\ text.ok
            /\ fields' = Append(fields, field) /\ pos' = text.pos /\ phase' = phase
  BY DEF DecodeHeaderField, Refuse
<1>2. UNCHANGED <<role, tool_calls, data, buffer, received, sent>> /\ MapInv(Text, Text)'
  BY <1>1, CodecInvGives, MapUntouched DEF statement
<1>3. EncodedOK' /\ (Intact' <=> Intact) /\ (CutShort' <=> CutShort)
  BY <1>2, CodecInvGives, StillEncoded
<1>4. pos < Len(buffer) /\ op_byte < OP_ROLE /\ pos \in Nat /\ Len(buffer) \in Nat
  BY <1>1, CodecInvGives DEF AtHeaderField
<1>5. CASE (op_byte \notin 1..OP_HR \/ ~text.ok) /\ Refuse
  <2>1. phase' = "refused" /\ UNCHANGED <<pos, fields>>
    BY <1>5 DEF Refuse
  <2>2. CodecTyped'
    BY <1>2, <2>1, CodecInvGives
       DEF CodecTyped, CodecTypeOK, IsPairs, IsTools, TextPair, TextTool, TextStatement, TextField
  <2>3. ASSUME CutShort PROVE ~Intact
    <3>1. PICK f \in Field, r \in Text :
            op_byte = f.op /\ ReadCut(text, buffer, sent.buffer, f.value, <<>>, r)
      BY <1>1, <1>4, <2>3, FieldRead
    <3>2. op_byte \in 1..OP_HR
      BY <3>1 DEF Field
    <3> HIDE DEF text
    <3>3. QED
      BY <1>5, <3>1, <3>2 DEF ReadCut, Intact
  <2>4. BuildOK' /\ ReadsWhatWasSent'
    BY <1>3, <2>1, <2>3 DEF BuildOK, ReadsWhatWasSent
  <2>5. QED
    BY <1>3, <2>2, <2>4 DEF CodecInv
<1>6. CASE /\ op_byte \in 1..OP_HR /\ text.ok
           /\ fields' = Append(fields, field) /\ pos' = text.pos /\ phase' = phase
  <2>1. text.value \in Text /\ text.pos \in 0..Len(buffer)
    <3>1. buffer \in Text /\ pos \in 0..(Len(buffer) - 1)
      BY <1>4, CodecInvGives
    <3>2. QED
      BY <1>6, <3>1, StringRange DEF Within
  <2>2. field \in TextField
    BY <1>6, <2>1 DEF TextField
  <2>3. fields' \in Seq(TextField)
    <3> HIDE DEF field
    <3>1. QED
      BY <1>6, <2>2, CodecInvGives, AppendProperties
  <2>4. CodecTyped'
    BY <1>1, <1>2, <1>6, <2>1, <2>3, CodecInvGives
       DEF CodecTyped, CodecTypeOK, IsPairs, IsTools, TextPair, TextTool, TextStatement, TextField
  <2>5. phase' = "header"
    BY <1>1, <1>6
  <2>6. ASSUME CutShort PROVE (InHeader \/ HeaderCutOff)'
    <3>1. InHeader
      BY <1>1, <1>4, <2>6, FieldRead
    <3>2. PICK f \in Field, r \in Text :
            /\ f = sent.fields[Len(fields) + 1]
            /\ r = Behind(FieldBytes(sent.fields), Len(fields) + 1)
                     \o Behind(StatementBytes(sent.statements), 0)
            /\ Begun(Append(fields, f), sent.fields)
            /\ Len(Append(fields, f)) = Len(fields) + 1
            /\ Len(fields) # Len(sent.fields) /\ op_byte = f.op
            /\ ReadCut(text, buffer, sent.buffer, f.value, <<>>, r)
      BY <1>1, <1>4, <2>6, FieldRead
    <3>3. received' = <<>> /\ role' = <<>> /\ data' = <<>> /\ tool_calls' = <<>>
      BY <1>2, <3>1 DEF InHeader
    <3>4. f = [op |-> f.op, value |-> f.value]
      BY DEF Field
    <3>5. CASE text.value = f.value /\ Ahead(sent.buffer, text.pos, r)
      <4>1. field = f
        BY <3>2, <3>4, <3>5
      <4> HIDE DEF text, field
      <4>2. fields' = Append(fields, f) /\ Ahead(sent.buffer, pos', r)
        BY <1>6, <3>5, <4>1
      <4>3. QED
        BY <1>2, <3>2, <3>3, <4>2 DEF InHeader
    <3>6. CASE buffer # sent.buffer /\ text.value = <<>> /\ text.pos = Len(buffer)
      <4>1. field = Emptied(f)
        BY <3>2, <3>4, <3>6 DEF Emptied
      <4> HIDE DEF text, field
      <4>2. ShortOf(Append(fields, field), sent.fields)
        <5>1. fields \in Seq(TextField) /\ sent.fields \in Seq(TextField)
          BY CodecInvGives
        <5>2. Begun(fields, sent.fields)
          BY <3>1 DEF InHeader
        <5>3. QED
          BY <2>2, <3>2, <4>1, <5>1, <5>2, ShortByOne
      <4>3. pos' = Len(buffer')
        BY <1>2, <1>6, <3>6
      <4>4. QED
        BY <1>2, <1>6, <3>3, <3>6, <4>2, <4>3 DEF HeaderCutOff, Intact
    <3> HIDE DEF text
    <3>7. QED
      BY <1>6, <3>2, <3>5, <3>6 DEF ReadCut
  <2>7. BuildOK' /\ ReadsWhatWasSent'
    BY <1>3, <2>5, <2>6 DEF BuildOK, ReadsWhatWasSent
  <2>8. QED
    BY <1>3, <2>4, <2>7 DEF CodecInv
<1>7. QED
  BY <1>1, <1>5, <1>6

LEMMA EndHeaderKeepsInv == ASSUME CodecInv, EndHeader PROVE CodecInv'
<1>1. /\ phase = "header" /\ ~AtHeaderField
      /\ phase' = IF pos < Len(buffer) THEN "statement" ELSE "done"
      /\ UNCHANGED <<vars, buffer, pos, fields, statement, received, sent>>
  BY DEF EndHeader
<1>2. /\ UNCHANGED <<role, tool_calls, data, buffer, pos, fields, received, sent>>
      /\ MapInv(Text, Text)'
  BY <1>1, CodecInvGives, MapUntouched DEF statement
<1>3. EncodedOK' /\ (Intact' <=> Intact) /\ (CutShort' <=> CutShort)
  BY <1>2, CodecInvGives, StillEncoded
<1>4. CodecTyped'
  BY <1>1, <1>2, CodecInvGives
     DEF CodecTyped, CodecTypeOK, IsPairs, IsTools, TextPair, TextTool, TextStatement, TextField
<1>5. BuildOK' /\ phase' \in {"statement", "done"}
  BY <1>1 DEF BuildOK
<1> DEFINE sts == sent.statements
<1>6. /\ sent.buffer \in Text /\ sts \in Seq(Statement) /\ 0 \in 0..Len(sts)
      /\ pos \in 0..Len(buffer) /\ Len(buffer) \in Nat /\ Len(sent.buffer) \in Nat
      /\ fields \in Seq(TextField) /\ sent.fields \in Seq(TextField) /\ sts \in Seq(TextStatement)
  BY CodecInvGives, LenProperties DEF Text
<1>7. ASSUME CutShort, pos < Len(buffer) PROVE phase' = "statement" /\ InStatement'
  <2>1. InHeader /\ Len(fields) = Len(sent.fields)
    BY <1>1, <1>7, FieldRead DEF AtHeaderField
  <2>2. fields = sent.fields /\ Ahead(sent.buffer, pos, Behind(StatementBytes(sts), 0))
    BY <2>1, HeaderAhead
  <2>3. received = <<>> /\ Len(received) = 0 /\ role = <<>> /\ data = <<>> /\ tool_calls = <<>>
    BY <2>1 DEF InHeader
  <2>4. pos < Len(sent.buffer)
    BY <1>6, <1>7, IntactIs
  <2>5. Len(sts) # 0
    <3>1. ASSUME NEW n, n = 0, n = Len(sts) PROVE FALSE
      <4>1. n \in 0..Len(sts) /\ Ahead(sent.buffer, pos, Behind(StatementBytes(sts), n))
        BY <1>6, <2>2, <3>1
      <4>2. pos = Len(sent.buffer)
        BY <1>6, <3>1, <4>1, StatementOrEnd
      <4>3. QED
        BY <1>6, <2>4, <4>2
    <3>2. QED
      BY <3>1
  <2>6. /\ sts[0 + 1] \in Statement /\ Behind(StatementBytes(sts), 0 + 1) \in Text
        /\ Ahead(sent.buffer, pos, AllAhead(sts[0 + 1], Behind(StatementBytes(sts), 0 + 1)))
    BY <1>6, <2>2, <2>5, StatementOrEnd
  <2>7. PICK s \in Statement, rest \in Text :
          s = sts[0 + 1] /\ rest = Behind(StatementBytes(sts), 0 + 1)
    BY <2>6
  <2>8. AtRole(s, rest)'
    BY <1>2, <1>7, <2>3, <2>6, <2>7 DEF AtRole
  <2>9. Begun(<<>>, sts)
    BY <1>6, NothingBegun
  <2>10. AtStatement(s, rest)'
    BY <1>2, <2>2, <2>3, <2>5, <2>7, <2>9 DEF AtStatement
  <2>11. QED
    BY <1>1, <1>7, <2>8, <2>10 DEF InStatement, Amid
<1>8. ASSUME CutShort, ~(pos < Len(buffer))
      PROVE  phase' = "done" /\ ShortOf(Got, Meant)' /\ (Intact' => DecodedAll')
  <2>1. InHeader \/ HeaderCutOff
    BY <1>1, <1>8, CodecInvGives DEF ReadsWhatWasSent
  <2>2. received = <<>> /\ Len(received) = 0 /\ ShortOf(fields, sent.fields)
    BY <2>1, BegunIsShort DEF InHeader, HeaderCutOff
  <2>3. ShortOf(Got, Meant)'
    <3>1. ShortOf(Items(fields, <<>>), Items(sent.fields, sts))
      BY <1>6, <2>2, ShortHeader
    <3>2. QED
      BY <1>2, <2>2, <3>1 DEF Got, Meant
  <2>4. ASSUME Intact PROVE DecodedAll
    <3>1. InHeader /\ pos = Len(sent.buffer)
      BY <1>6, <1>8, <2>1, <2>4 DEF HeaderCutOff, Intact
    <3>2. Len(fields) = Len(sent.fields)
      <4> SUFFICES ASSUME Len(fields) # Len(sent.fields) PROVE FALSE
        OBVIOUS
      <4>1. PICK f \in Field, r \in Text :
              Ahead(sent.buffer, pos, encode_string(f.op, f.value) \o r)
        BY <3>1, HeaderAhead
      <4>2. f.op \in Byte /\ f.value \in Sendable
        BY OpcodesAreBytes DEF Field
      <4>3. pos < Len(sent.buffer)
        BY <1>6, <4>1, <4>2, StringAhead
      <4>4. QED
        BY <1>6, <3>1, <4>3
    <3>3. fields = sent.fields /\ Ahead(sent.buffer, pos, Behind(StatementBytes(sts), 0))
      BY <3>1, <3>2, HeaderAhead
    <3>4. Len(sts) = 0
      <4>1. Len(sts) # 0 => pos < Len(sent.buffer)
        BY <1>6, <3>3, StatementOrEnd
      <4>2. QED
        BY <1>6, <3>1, <4>1
    <3>5. sts = <<>>
      BY <1>6, <3>4, EmptySeq
    <3>6. QED
      BY <2>2, <3>3, <3>5 DEF DecodedAll
  <2>5. Intact' => DecodedAll'
    BY <1>2, <1>3, <2>4 DEF DecodedAll
  <2>6. QED
    BY <1>1, <1>8, <2>3, <2>5
<1>9. ReadsWhatWasSent'
  BY <1>3, <1>7, <1>8 DEF ReadsWhatWasSent
<1>10. QED
  BY <1>3, <1>4, <1>5, <1>9 DEF CodecInv

LEMMA HeaderBytesAre ==
    /\ Magic \in Text /\ Len(Magic) = 4
    /\ HeaderBytes \in Text /\ Len(HeaderBytes) = 5
    /\ \A n \in 1..4 : HeaderBytes[n] = Magic[n]
<1> DEFINE one == <<1>>
<1>1. Magic \in Text /\ Len(Magic) = 4
  <2>1. \A a, b, c \in Byte : <<a, a, b, c>> \in Seq(Byte)
    OBVIOUS
  <2>2. 76 \in Byte /\ 77 \in Byte /\ 84 \in Byte
    BY DEF Byte
  <2>3. Magic \in Text
    BY <2>1, <2>2 DEF Text, Magic
  <2>4. QED
    BY <2>3 DEF Magic
<1>2. one \in Text /\ Len(one) = 1
  BY OneByte DEF Byte
<1>3. HeaderBytes = Magic \o one
  BY DEF HeaderBytes
<1> HIDE DEF one
<1>4. Magic \in Seq(Byte) /\ one \in Seq(Byte)
  BY <1>1, <1>2 DEF Text
<1>5. /\ Magic \o one \in Seq(Byte) /\ Len(Magic \o one) = Len(Magic) + Len(one)
      /\ \A i \in 1..Len(Magic) : (Magic \o one)[i] = Magic[i]
  BY <1>4, Joined
<1>6. QED
  BY <1>1, <1>2, <1>3, <1>5 DEF Text

LEMMA MagicKeepsInv == ASSUME CodecInv, DecodeMagic PROVE CodecInv'
<1>1. /\ phase = "wire" /\ UNCHANGED <<vars, buffer, fields, statement, received, sent>>
      /\ \/ ~HasMagic /\ phase' = "refused" /\ pos' = pos
         \/ HasMagic /\ phase' = "header" /\ pos' = 5
  BY DEF DecodeMagic, Refuse
<1>2. /\ UNCHANGED <<role, tool_calls, data, buffer, fields, received, sent>>
      /\ MapInv(Text, Text)'
  BY <1>1, CodecInvGives, MapUntouched DEF statement
<1>3. EncodedOK' /\ (Intact' <=> Intact) /\ (CutShort' <=> CutShort)
  BY <1>2, CodecInvGives, StillEncoded
<1>4. pos' \in 0..Len(buffer)
  BY <1>1, CodecInvGives DEF HasMagic
<1>5. CodecTyped'
  BY <1>1, <1>2, <1>4, CodecInvGives
     DEF CodecTyped, CodecTypeOK, IsPairs, IsTools, TextPair, TextTool, TextStatement
<1>6. BuildOK' /\ phase' \in {"header", "refused"}
  BY <1>1 DEF BuildOK
<1>7. (Intact => HasMagic) /\ (phase' = "header" => InHeader')
  <2> DEFINE ff == FieldBytes(sent.fields)
             ss == StatementBytes(sent.statements)
             r == Behind(ff, 0) \o Behind(ss, 0)
             whole == sent.buffer
  <2>1. sent.fields \in Seq(Field) /\ sent.statements \in Seq(Statement)
    BY CodecInvGives
  <2>2. ff \in Seq(Seq(Byte)) /\ ss \in Seq(Seq(Byte))
    BY <2>1, FieldBytesAreTexts, StatementBytesAreTexts DEF Text
  <2>3. 0 \in 0..Len(ff) /\ 0 \in 0..Len(ss)
    BY <2>2, LenProperties
  <2>4. /\ Behind(ff, 0) = FlattenSeq(ff) /\ Behind(ss, 0) = FlattenSeq(ss)
        /\ Behind(ff, 0) \in Text /\ Behind(ss, 0) \in Text
    BY <2>2, <2>3, BehindMore DEF Text
  <2>5. whole = HeaderBytes \o r
    BY <2>4, CodecInvGives DEF EncodedOK
  <2>6. r \in Text
    BY <2>4, TwoTexts
  <2> HIDE DEF r, whole
  <2>7. whole \in Text /\ Len(whole) \in Nat
    BY CodecInvGives, LenProperties DEF whole, Text
  <2>8. Ahead(whole, 0, HeaderBytes \o r)
    <3>1. SubSeq(whole, 1, Len(whole)) = whole
      BY <2>7, SubSeqFull DEF Text
    <3>2. 0 \in 0..Len(whole) /\ 0 + 1 = 1
      BY <2>7
    <3>3. QED
      BY <2>5, <3>1, <3>2 DEF Ahead
  <2>9. HasAt(whole, 0, HeaderBytes) /\ Ahead(whole, 0 + Len(HeaderBytes), r)
    BY <2>6, <2>7, <2>8, HeaderBytesAre, ReadOn
  <2>10. Len(whole) >= 5 /\ \A n \in 1..5 : whole[n] = HeaderBytes[n]
    BY <2>7, <2>9, HeaderBytesAre DEF HasAt
  <2>11. SubSeq(whole, 1, 4) = Magic
    <3>1. \A n \in 1..4 : whole[n] = Magic[n] /\ whole[n] \in Byte
      <4>1. \A n \in 1..4 : whole[n] = Magic[n]
        BY <2>10, HeaderBytesAre
      <4>2. \A n \in 1..4 : Magic[n] \in Byte
        BY HeaderBytesAre, ElementOfSeq DEF Text
      <4>3. QED
        BY <4>1, <4>2
    <3>2. SubSeq(whole, 1, 4) \in Seq(Byte) /\ Len(SubSeq(whole, 1, 4)) = 4
          /\ \A n \in 1..4 : SubSeq(whole, 1, 4)[n] = whole[n]
      BY <2>7, <2>10 DEF Text
    <3>3. \A n \in 1..4 : SubSeq(whole, 1, 4)[n] = Magic[n]
      BY <3>1, <3>2
    <3>4. Magic \in Seq(Byte)
      BY HeaderBytesAre DEF Text
    <3>5. QED
      BY <3>2, <3>3, <3>4, HeaderBytesAre, SeqEqual
  <2>12. Intact => HasMagic
    BY <2>10, <2>11 DEF HasMagic, Intact, whole
  <2>13. phase' = "header" => pos' = 5
    BY <1>1
  <2>14. Ahead(whole, 5, r)
    BY <2>9, HeaderBytesAre
  <2>15. /\ fields' = <<>> /\ received' = <<>> /\ role' = <<>> /\ data' = <<>>
         /\ tool_calls' = <<>> /\ sent' = sent
    BY <1>1, <1>2, CodecInvGives DEF BuildOK
  <2>16. Begun(<<>>, sent.fields) /\ Len(<<>>) = 0
    BY <2>1, NothingBegun
  <2>17. phase' = "header" => InHeader'
    BY <2>13, <2>14, <2>15, <2>16 DEF InHeader, r, whole
  <2>18. QED
    BY <2>12, <2>17
<1>8. ReadsWhatWasSent'
  BY <1>1, <1>3, <1>6, <1>7 DEF ReadsWhatWasSent
<1>9. QED
  BY <1>3, <1>5, <1>6, <1>8 DEF CodecInv

LEMMA DeliverKeepsInv == ASSUME CodecInv, Deliver PROVE CodecInv'
<1>1. /\ phase = "build" /\ data = <<>> /\ phase' = "wire"
      /\ \/ \E n \in 0..Len(buffer) : buffer' = SubSeq(buffer, 1, n)
         \/ buffer' \in Garbage
      /\ UNCHANGED <<vars, pos, fields, statement, received, sent>>
  BY DEF Deliver
<1>2. /\ UNCHANGED <<role, tool_calls, data, pos, fields, received, sent>>
      /\ MapInv(Text, Text)'
  BY <1>1, CodecInvGives, MapUntouched DEF statement
<1>3. buffer' \in Text
  <2>1. ASSUME NEW n \in 0..Len(buffer) PROVE SubSeq(buffer, 1, n) \in Text
    <3>1. buffer \in Seq(Byte) /\ Len(buffer) \in Nat
      BY CodecInvGives DEF Text
    <3>2. \A i \in 1..n : buffer[i] \in Byte
      BY <3>1, ElementOfSeq
    <3>3. 1 \in Int /\ n \in Int
      BY <3>1
    <3>4. QED
      BY <3>2, <3>3, SubSeqProperties DEF Text
  <2>2. Garbage \subseteq Text
    BY CodecAssumption
  <2>3. QED
    BY <1>1, <2>1, <2>2
<1>4. pos' \in 0..Len(buffer')
  <2>1. pos' = 0
    BY <1>1, <1>2, CodecInvGives DEF BuildOK
  <2>2. QED
    BY <1>3, <2>1, LenProperties DEF Text
<1>5. CodecTyped'
  BY <1>1, <1>2, <1>3, <1>4, CodecInvGives
     DEF CodecTyped, CodecTypeOK, IsPairs, IsTools, TextPair, TextTool, TextStatement
<1>6. EncodedOK'
  BY <1>2, CodecInvGives DEF EncodedOK
<1>7. BuildOK' /\ ReadsWhatWasSent'
  BY <1>1, <1>2, CodecInvGives DEF BuildOK, ReadsWhatWasSent
<1>8. QED
  BY <1>5, <1>6, <1>7 DEF CodecInv

LEMMA BuildKeepsInv == ASSUME CodecInv, BuildStatement PROVE CodecInv'
<1>1. /\ phase = "build" /\ Next
      /\ UNCHANGED <<phase, buffer, pos, fields, statement, received, sent>>
  BY DEF BuildStatement
<1>2. MapInv(Keys, Values)'
  BY <1>1, CodecInvGives, OperationsPreserve DEF BuildOK
<1>3. MapInv(Text, Text)'
  <2>1. Keys \subseteq Text /\ Values \subseteq Text
    BY CodecAssumption DEF Sendable
  <2>2. [key : Keys, value : Values] \subseteq [key : Text, value : Text]
    BY <2>1
  <2>3. data' \in Seq([key : Text, value : Text])
    BY <1>2, <2>2, SeqMonotonic DEF MapInv, MapTyped
  <2>4. QED
    BY <1>2, <2>3 DEF MapInv, MapTyped
<1>4. data' \in Seq(TextPair) /\ UNCHANGED <<role, tool_calls>>
  BY <1>1, <1>3 DEF MapInv, MapTyped, TextPair, statement
<1>5. CodecTyped'
  BY <1>1, <1>3, <1>4, CodecInvGives
     DEF CodecTyped, CodecTypeOK, IsPairs, IsTools, TextPair, TextTool, TextStatement
<1>6. EncodedOK'
  BY <1>1, CodecInvGives, StillEncoded
<1>7. BuildOK' /\ ReadsWhatWasSent'
  BY <1>1, <1>2, <1>4, CodecInvGives DEF BuildOK, ReadsWhatWasSent
<1>8. QED
  BY <1>5, <1>6, <1>7 DEF CodecInv

\* The pairs of the map, which has every key once, and the calls that are sent make
\* a statement.
LEMMA IsStatement ==
    ASSUME MapInv(Keys, Values), NEW name \in Roles, NEW tools \in ToolLists
    PROVE  [role |-> name, kvpairs |-> data, tool_calls |-> tools] \in Statement
<1>1. name \in Sendable /\ tools \in Seq(Tool)
  BY CodecAssumption DEF Tool, Pair
<1>2. \A t \in DOMAIN tools : OncePerKey(tools[t].args)
  BY CodecAssumption DEF OncePerKey
<1>3. data \in Seq(Pair)
  <2>1. [key : Keys, value : Values] \subseteq Pair
    BY CodecAssumption DEF Pair
  <2>2. QED
    BY <2>1, SeqMonotonic DEF MapInv, MapTyped
<1>4. OncePerKey(data)
  BY DEF MapInv, IndexMatchesData, OncePerKey
<1>5. QED
  BY <1>1, <1>2, <1>3, <1>4 DEF Statement

LEMMA EncodeKeepsInv ==
    ASSUME CodecInv, NEW name \in Roles, NEW tools \in ToolLists, EncodeStatement(name, tools)
    PROVE  CodecInv'
<1>1. PICK s : s = [role |-> name, kvpairs |-> data, tool_calls |-> tools]
  OBVIOUS
<1>2. PICK bytes : bytes = encode_statement(name, data, tools)
  OBVIOUS
<1>3. /\ phase = "build" /\ buffer' = buffer \o bytes
      /\ sent' = [sent EXCEPT !.buffer = buffer', !.statements = Append(@, s)]
      /\ clear /\ UNCHANGED <<phase, pos, fields, statement, received>>
  BY <1>1, <1>2 DEF EncodeStatement
<1>4. MapInv(Keys, Values) /\ buffer = sent.buffer
  BY <1>3, CodecInvGives DEF BuildOK
<1>5. s \in Statement
  BY <1>1, <1>4, IsStatement
<1>6. bytes \in Text /\ bytes = encode_statement(s.role, s.kvpairs, s.tool_calls)
  BY <1>1, <1>2, <1>5, EncodedStatementIs
<1>7. buffer' \in Text /\ pos' \in 0..Len(buffer')
  <2>1. buffer' \in Text
    BY <1>3, <1>6, CodecInvGives, TwoTexts
  <2>2. pos' = 0
    BY <1>3, CodecInvGives DEF BuildOK
  <2>3. QED
    BY <2>1, <2>2, LenProperties DEF Text
<1>8. data' = <<>> /\ MapInv(Keys, Values)' /\ MapInv(Text, Text)' /\ UNCHANGED <<role, tool_calls>>
  BY <1>3, EmptyMap DEF clear, statement
<1>9. CodecTyped'
  BY <1>3, <1>7, <1>8, CodecInvGives, EmptySeq
     DEF CodecTyped, CodecTypeOK, IsPairs, IsTools, TextPair, TextTool, TextStatement
<1>10. EncodedOK'
  <2> DEFINE sts == sent.statements
             ss == StatementBytes(sts)
             f == FlattenSeq(FieldBytes(sent.fields))
             g == FlattenSeq(ss)
  <2>1. /\ sent \in [fields : Seq(Field), statements : Seq(Statement), buffer : Text]
        /\ sent.buffer = HeaderBytes \o (f \o g)
        /\ sent.fields \in Seq(Field) /\ sts \in Seq(Statement)
    BY CodecInvGives DEF EncodedOK
  <2>2. Append(sts, s) \in Seq(Statement)
    BY <1>5, <2>1, AppendProperties
  <2>3. /\ sent'.fields = sent.fields /\ sent'.statements = Append(sts, s) /\ sent'.buffer = buffer'
        /\ sent' \in [fields : Seq(Field), statements : Seq(Statement), buffer : Text]
    BY <1>3, <1>7, <2>1, <2>2
  <2>4. ss \in Seq(Text) /\ Len(ss) = Len(sts) /\ g \in Text /\ f \in Text
    BY <2>1, StatementBytesAreTexts, FieldBytesAreTexts
  <2>5. StatementBytes(Append(sts, s)) = Append(ss, bytes)
    <3> DEFINE more == Append(sts, s)
               a == StatementBytes(more)
               b == Append(ss, bytes)
               n == Len(sts)
    <3>1. /\ n \in Nat /\ Len(more) = n + 1 /\ more[n + 1] = s
          /\ \A i \in 1..n : more[i] = sts[i]
      BY <1>5, <2>1, AppendProperties, LenProperties
    <3>2. a \in Seq(Text) /\ Len(a) = n + 1
      BY <2>2, <3>1, StatementBytesAreTexts
    <3>3. /\ b \in Seq(Text) /\ Len(b) = n + 1 /\ b[n + 1] = bytes
          /\ \A i \in 1..n : b[i] = ss[i]
      BY <1>6, <2>4, AppendProperties
    <3>4. \A i \in 1..(n + 1) :
             a[i] = encode_statement(more[i].role, more[i].kvpairs, more[i].tool_calls)
      <4>1. DOMAIN more = 1..(n + 1)
        BY <2>2, <3>1, LenProperties
      <4> HIDE DEF more
      <4>2. QED
        BY <4>1 DEF StatementBytes
    <3>5. \A i \in 1..n :
             ss[i] = encode_statement(sts[i].role, sts[i].kvpairs, sts[i].tool_calls)
      <4>1. DOMAIN sts = 1..n
        BY <2>1, LenProperties
      <4> HIDE DEF sts
      <4>2. QED
        BY <4>1 DEF StatementBytes
    <3> HIDE DEF more, a, b, n, ss, sts
    <3>6. ASSUME NEW i \in 1..(n + 1) PROVE a[i] = b[i]
      <4>1. CASE i = n + 1
        BY <1>6, <3>1, <3>3, <3>4, <4>1
      <4>2. CASE i # n + 1
        <5>1. i \in 1..n
          BY <3>1, <4>2
        <5>2. QED
          BY <3>1, <3>3, <3>4, <3>5, <5>1
      <4>3. QED
        BY <4>1, <4>2
    <3>7. a = b
      BY <3>2, <3>3, <3>6, SeqEqual
    <3>8. QED
      BY <3>7 DEF a, b, more
  <2>6. FlattenSeq(Append(ss, bytes)) = g \o bytes
    <3> HIDE DEF ss
    <3>1. ss \in Seq(Seq(Byte)) /\ bytes \in Seq(Byte)
      BY <1>6, <2>4 DEF Text
    <3>2. QED
      BY <3>1, FlattenMore
  <2> HIDE DEF f, g, ss, sts
  <2>7. (HeaderBytes \o (f \o g)) \o bytes = HeaderBytes \o (f \o (g \o bytes))
    <3>1. f \o g \in Text
      BY <2>4, TwoTexts
    <3>2. \A u, q \in Text : (u \o q) \o bytes = u \o (q \o bytes)
      BY <1>6, ThreeTexts
    <3>3. QED
      BY <2>4, <3>1, <3>2, HeaderBytesAre
  <2>8. buffer' = HeaderBytes \o (f \o (g \o bytes))
    BY <1>3, <1>4, <2>1, <2>7
  <2>9. sent'.buffer = HeaderBytes \o (FlattenSeq(FieldBytes(sent'.fields))
                                      \o FlattenSeq(StatementBytes(sent'.statements)))
    BY <2>3, <2>5, <2>6, <2>8 DEF f
  <2>10. QED
    BY <2>3, <2>9 DEF EncodedOK
<1>11. sent'.buffer = buffer'
  BY <1>3, CodecInvGives DEF EncodedOK
<1>12. BuildOK' /\ ReadsWhatWasSent'
  BY <1>3, <1>8, <1>11, CodecInvGives DEF BuildOK, ReadsWhatWasSent
<1>13. QED
  BY <1>9, <1>10, <1>12 DEF CodecInv

\* The fields of a header that is sent have texts behind their opcodes.
LEMMA HeaderFieldsAre == \A h \in Headers : HeaderFields(h) \in Seq(Field)
<1> TAKE h \in Headers
<1> DEFINE six == [op \in 1..6 |-> [op |-> op, value |-> h.texts[op]]]
           seven == IF h.fallback = <<>> THEN <<>>
                    ELSE <<[op |-> OP_FALLBACK, value |-> h.fallback]>>
           digit == <<48 + h.hr>>
           eight == IF h.hr = 0 THEN <<>> ELSE <<[op |-> OP_HR, value |-> digit]>>
<1>1. h.texts \in [1..6 -> Sendable] /\ h.fallback \in Sendable /\ h.hr \in 0..9
  <2>1. h \in [texts : [1..6 -> Sendable], fallback : Sendable, hr : 0..9]
    BY CodecAssumption
  <2>2. QED
    BY <2>1
<1>2. digit \in Sendable
  <2>1. 48 + h.hr \in Byte
    BY <1>1 DEF Byte
  <2>2. digit \in Text /\ Len(digit) = 1
    BY <2>1, OneByte
  <2>3. 1 <= MaxLength
    BY CodecAssumption
  <2>4. QED
    BY <2>2, <2>3 DEF Sendable
<1> HIDE DEF digit
<1>3. six \in Seq(Field)
  <2>1. \A op \in 1..6 : six[op] \in Field
    BY <1>1 DEF Field, OP_HR
  <2>2. six \in [1..6 -> Field]
    BY <2>1
  <2>3. QED
    BY <2>2
<1>4. \A x \in Field : <<x>> \in Seq(Field)
  OBVIOUS
<1>5. seven \in Seq(Field)
  <2>1. [op |-> OP_FALLBACK, value |-> h.fallback] \in Field
    BY <1>1 DEF Field, OP_HR, OP_FALLBACK
  <2>2. QED
    BY <1>4, <2>1, EmptySeq
<1>6. eight \in Seq(Field)
  <2>1. [op |-> OP_HR, value |-> digit] \in Field
    BY <1>2 DEF Field, OP_HR
  <2>2. QED
    BY <1>4, <2>1, EmptySeq
<1>7. HeaderFields(h) = (six \o seven) \o eight
  BY DEF HeaderFields, digit
<1> HIDE DEF six, seven, eight
<1>8. six \o seven \in Seq(Field)
  BY <1>3, <1>5, ConcatProperties
<1>9. (six \o seven) \o eight \in Seq(Field)
  BY <1>6, <1>8, ConcatProperties
<1>10. QED
  BY <1>7, <1>9

LEMMA CodecInitInv == CodecInit => CodecInv
<1> SUFFICES ASSUME CodecInit PROVE CodecInv
  OBVIOUS
<1>1. PICK h \in Headers :
        /\ buffer = encode_header(h)
        /\ sent = [fields |-> HeaderFields(h), statements |-> <<>>, buffer |-> encode_header(h)]
  BY DEF CodecInit
<1>2. /\ Init /\ phase = "build" /\ pos = 0 /\ fields = <<>> /\ received = <<>>
      /\ role = <<>> /\ tool_calls = <<>> /\ data = <<>>
  BY DEF CodecInit, Init
<1> DEFINE f == FlattenSeq(FieldBytes(HeaderFields(h)))
<1>3. HeaderFields(h) \in Seq(Field)
  BY HeaderFieldsAre
<1>4. f \in Text
  BY <1>3, FieldBytesAreTexts
<1>5. encode_header(h) = HeaderBytes \o f
  BY DEF encode_header, HeaderBytes, FieldBytes
<1> HIDE DEF f
<1>6. encode_header(h) \in Text
  BY <1>4, <1>5, HeaderBytesAre, TwoTexts
<1>7. FlattenSeq(StatementBytes(<<>>)) = <<>>
  <2>1. StatementBytes(<<>>) = <<>>
    <3>1. <<>> \in Seq(Statement) /\ Len(<<>>) = 0
      BY EmptySeq
    <3>2. StatementBytes(<<>>) \in Seq(Text) /\ Len(StatementBytes(<<>>)) = 0
      BY <3>1, StatementBytesAreTexts
    <3>3. QED
      BY <3>2, EmptySeq
  <2>2. QED
    BY <2>1, FlattenMore, EmptySeq
<1>8. f \o <<>> = f
  BY <1>4, EmptyText
<1>9. /\ sent.fields = HeaderFields(h) /\ sent.statements = <<>> /\ sent.buffer = encode_header(h)
      /\ sent \in [fields : Seq(Field), statements : Seq(Statement), buffer : Text]
  BY <1>1, <1>3, <1>6
<1>10. EncodedOK
  BY <1>5, <1>7, <1>8, <1>9 DEF EncodedOK, f
<1>11. CodecTyped
  <2>1. buffer \in Text /\ pos \in 0..Len(buffer)
    BY <1>1, <1>2, <1>6, LenProperties DEF Text
  <2>2. MapInv(Text, Text)
    BY <1>2, EmptyMap
  <2>3. QED
    BY <1>2, <2>1, <2>2, EmptyText, EmptySeq
       DEF CodecTyped, CodecTypeOK, IsPairs, IsTools, TextPair, TextTool, TextStatement
<1>12. BuildOK /\ ReadsWhatWasSent
  BY <1>1, <1>2, <1>9, EmptyMap DEF BuildOK, ReadsWhatWasSent
<1>13. QED
  BY <1>10, <1>11, <1>12 DEF CodecInv

LEMMA CodecStepInv == CodecInv /\ [CodecNext]_codecVars => CodecInv'
<1> SUFFICES ASSUME CodecInv, [CodecNext]_codecVars PROVE CodecInv'
  OBVIOUS
<1>1. CASE UNCHANGED codecVars
  <2>1. UNCHANGED <<data, index, phase, buffer, pos, fields, role, tool_calls, received, sent>>
    BY <1>1 DEF codecVars, vars, statement
  <2>2. CodecTyped' /\ MapInv(Keys, Values)' = MapInv(Keys, Values)
    BY <2>1 DEF CodecInv, CodecTyped, CodecTypeOK, MapInv, MapTyped, IndexMatchesData, IsPairs,
                IsTools
  <2>3. EncodedOK' /\ (Intact' <=> Intact) /\ (CutShort' <=> CutShort)
    BY <2>1, StillEncoded DEF CodecInv
  <2>4. BuildOK'
    BY <2>1, <2>2 DEF CodecInv, BuildOK
  <2>5. ReadsWhatWasSent'
    <3>1. /\ InHeader => InHeader'
          /\ HeaderCutOff => HeaderCutOff'
          /\ DecodedAll => DecodedAll'
          /\ ShortOf(Got, Meant) => ShortOf(Got, Meant)'
      BY <2>1, <2>3 DEF InHeader, HeaderCutOff, DecodedAll, Got, Meant
    <3>2. ASSUME NEW s, NEW rest, AtStatement(s, rest) PROVE AtStatement(s, rest)'
      BY <2>1, <3>2 DEF AtStatement
    <3>3. ASSUME NEW s, NEW rest, Amid(s, rest) PROVE Amid(s, rest)'
      BY <2>1, <3>3 DEF Amid, AtRole, AtPair, AtTool, AtMethod, AtArg, CallBegun
    <3>4. ASSUME NEW s, CutAmid(s) PROVE CutAmid(s)'
      BY <2>1, <2>3, <3>4 DEF CutAmid, ShortStatement
    <3>5. (InStatement => InStatement') /\ (StatementCutOff => StatementCutOff')
      <4>1. InStatement => InStatement'
        BY <3>2, <3>3 DEF InStatement
      <4>2. StatementCutOff => StatementCutOff'
        BY <3>2, <3>4 DEF StatementCutOff
      <4>3. QED
        BY <4>1, <4>2
    <3>6. QED
      BY <2>1, <2>3, <3>1, <3>5 DEF CodecInv, ReadsWhatWasSent
  <2>6. QED
    BY <2>2, <2>3, <2>4, <2>5 DEF CodecInv
<1>2. CASE BuildStatement
  BY <1>2, BuildKeepsInv
<1>3. ASSUME NEW name \in Roles, NEW tools \in ToolLists, EncodeStatement(name, tools)
      PROVE  CodecInv'
  BY <1>3, EncodeKeepsInv
<1>4. CASE Deliver
  BY <1>4, DeliverKeepsInv
<1>5. CASE DecodeMagic
  BY <1>5, MagicKeepsInv
<1>6. CASE DecodeHeaderField
  BY <1>6, HeaderFieldKeepsInv
<1>7. CASE EndHeader
  BY <1>7, EndHeaderKeepsInv
<1>8. CASE DecodeStatement
  <2>1. phase = "statement"
    BY <1>8 DEF DecodeStatement, DecodeEnd, RunOut, RefuseStatement, DecodeRole, DecodePair,
                DecodeField, DecodeToolName, DecodeToolMethod, DecodeToolArg, AtOpcode
  <2>2. QED
    BY <1>8, <2>1, RoundKeepsInv
<1>9. QED
  BY <1>1, <1>2, <1>3, <1>4, <1>5, <1>6, <1>7, <1>8 DEF CodecNext

LEMMA CodecInvariant == CodecSpec => []CodecInv
BY CodecInitInv, CodecStepInv, PTL DEF CodecSpec

\* Whatever bytes arrive, decode_header() and decode_statement() stay inside the
\* buffer and make texts of it.
THEOREM CodecTypeCorrect == CodecSpec => []CodecTypeOK
<1>1. CodecInv => CodecTypeOK
  BY DEF CodecInv, CodecTyped
<1>2. QED
  BY <1>1, CodecInvariant, PTL

\* What BinaryEncoder wrote is decoded to what was encoded, whatever was encoded: any
\* header, any pairs, tool calls, methods and arguments, of any number and length.
THEOREM EncodedIsDecoded == CodecSpec => []RoundTrip
<1>1. CodecInv => RoundTrip
  BY IntactIs DEF CodecInv, ReadsWhatWasSent, RoundTrip, DecodedAll
<1>2. QED
  BY <1>1, CodecInvariant, PTL

\* The first n items of two sequences are the same if each of them is.
LEMMA FirstOnes ==
    ASSUME NEW S, NEW g \in Seq(S), NEW m \in Seq(S)
    PROVE  /\ \A n \in 0..Len(g) :
                 /\ n \in 0..Len(m) /\ (\A i \in 1..n : g[i] = m[i])
                      => SubSeq(g, 1, n) = SubSeq(m, 1, n)
                 /\ Len(SubSeq(g, 1, n)) = n
                 /\ SubSeq(SubSeq(g, 1, n), 1, n) = SubSeq(g, 1, n)
           /\ Len(g) <= Len(m) /\ SubSeq(g, 1, Len(g)) = SubSeq(m, 1, Len(g))
                => \A i \in 1..Len(g) : g[i] = m[i]
<1>1. Len(g) \in Nat /\ Len(m) \in Nat
  BY LenProperties
<1>2. ASSUME NEW x \in Seq(S), NEW n \in 0..Len(x)
      PROVE  /\ SubSeq(x, 1, n) \in Seq(S) /\ Len(SubSeq(x, 1, n)) = n
             /\ \A i \in 1..n : SubSeq(x, 1, n)[i] = x[i]
  <2> DEFINE f == SubSeq(x, 1, n)
  <2>1. Len(x) \in Nat /\ n \in Nat
    BY LenProperties
  <2>2. \A i \in 1..n : x[i] \in S
    BY <2>1, ElementOfSeq
  <2>3. 1 \in Int /\ n \in Int
    BY <2>1
  <2>4. /\ f \in Seq(S) /\ Len(f) = IF 1 <= n THEN n - 1 + 1 ELSE 0
        /\ \A i \in 1..(n - 1 + 1) : f[i] = x[1 + i - 1]
    BY <2>2, <2>3, SubSeqProperties
  <2> HIDE DEF f
  <2>5. n - 1 + 1 = n /\ \A i \in 1..n : 1 + i - 1 = i
    BY <2>1
  <2>6. Len(f) = n /\ \A i \in 1..n : f[i] = x[i]
    BY <2>1, <2>4, <2>5
  <2>7. QED
    BY <2>4, <2>6 DEF f
<1>3. ASSUME NEW n \in 0..Len(g)
      PROVE  /\ n \in 0..Len(m) /\ (\A i \in 1..n : g[i] = m[i])
                  => SubSeq(g, 1, n) = SubSeq(m, 1, n)
             /\ Len(SubSeq(g, 1, n)) = n
             /\ SubSeq(SubSeq(g, 1, n), 1, n) = SubSeq(g, 1, n)
  <2>1. /\ SubSeq(g, 1, n) \in Seq(S) /\ Len(SubSeq(g, 1, n)) = n
        /\ \A i \in 1..n : SubSeq(g, 1, n)[i] = g[i]
    BY <1>2
  <2>2. ASSUME n \in 0..Len(m), \A i \in 1..n : g[i] = m[i]
        PROVE  SubSeq(g, 1, n) = SubSeq(m, 1, n)
    <3>1. /\ SubSeq(m, 1, n) \in Seq(S) /\ Len(SubSeq(m, 1, n)) = n
          /\ \A i \in 1..n : SubSeq(m, 1, n)[i] = m[i]
      BY <1>2, <2>2
    <3>2. QED
      BY <2>1, <2>2, <3>1, SeqEqual
  <2>3. SubSeq(SubSeq(g, 1, n), 1, n) = SubSeq(g, 1, n)
    <3>1. PICK f : f = SubSeq(g, 1, n)
      OBVIOUS
    <3>2. SubSeq(f, 1, Len(f)) = f
      BY <2>1, <3>1, SubSeqFull
    <3>3. QED
      BY <2>1, <3>1, <3>2
  <2>4. QED
    BY <2>1, <2>2, <2>3
<1>4. ASSUME Len(g) <= Len(m), SubSeq(g, 1, Len(g)) = SubSeq(m, 1, Len(g)), NEW i \in 1..Len(g)
      PROVE  g[i] = m[i]
  <2>1. Len(g) \in 0..Len(g) /\ Len(g) \in 0..Len(m)
    BY <1>1, <1>4
  <2>2. SubSeq(g, 1, Len(g))[i] = g[i] /\ SubSeq(m, 1, Len(g))[i] = m[i]
    BY <1>2, <2>1
  <2>3. QED
    BY <1>4, <2>2
<1>5. QED
  BY <1>3, <1>4

\* A buffer that was cut short on its way, wherever it was cut, is refused or decodes
\* to what the encoder put first, but for the value of the last text.
THEOREM CutsLoseTheEnd == CodecSpec => []CutsLoseOnlyTheEnd
<1>1. ASSUME CodecInv, phase = "done", IsPrefix(buffer, sent.buffer), Got # <<>>
      PROVE  /\ IsPrefix(Front(Got), Meant)
             /\ Last(Got) \in {Meant[Len(Got)], [Meant[Len(Got)] EXCEPT !.value = <<>>]}
  <2> DEFINE g == Got
             m == Meant
             n == Len(g)
  <2>1. buffer \in Text /\ sent.buffer \in Text
    BY <1>1, CodecInvGives
  <2>2. Begun(buffer, sent.buffer)
    <3>1. /\ Len(buffer) <= Len(sent.buffer)
          /\ SubSeq(buffer, 1, Len(buffer)) = SubSeq(sent.buffer, 1, Len(buffer))
      BY <1>1 DEF IsPrefix
    <3>2. QED
      BY <2>1, <3>1, FirstOnes DEF Text, Begun
  <2>3. ShortOf(g, m)
    BY <1>1, <2>1, <2>2, CodecInvGives DEF CutShort, ReadsWhatWasSent
  <2>4. g \in Seq(AnItem) /\ m \in Seq(AnItem)
    BY <1>1, CodecInvGives, ItemsAre DEF Got, Meant
  <2>5. g # <<>>
    BY <1>1
  <2> HIDE DEF g, m
  <2>6. n \in Nat /\ Len(m) \in Nat /\ n # 0 /\ n <= Len(m)
    BY <2>3, <2>4, <2>5, LenProperties, EmptySeq DEF ShortOf
  <2> HIDE DEF n
  <2>7. \A i \in 1..n : g[i] = m[i] \/ (i = n /\ g[i] = Emptied(m[i]))
    BY <2>3 DEF ShortOf, n
  <2>8. Front(g) = SubSeq(g, 1, n - 1) /\ Last(g) = g[n]
    BY DEF Front, Last, n
  <2>9. IsPrefix(Front(g), m)
    <3> DEFINE f == SubSeq(g, 1, n - 1)
    <3>1. /\ n - 1 \in 0..Len(g) /\ n - 1 \in 0..Len(m) /\ n - 1 <= Len(m)
          /\ \A i \in 1..(n - 1) : g[i] = m[i]
      <4>1. n = Len(g)
        BY DEF n
      <4>2. \A i \in 1..(n - 1) : i \in 1..n /\ i # n
        BY <2>6
      <4>3. QED
        BY <2>6, <2>7, <4>1, <4>2
    <3>2. f = SubSeq(m, 1, n - 1) /\ Len(f) = n - 1 /\ SubSeq(f, 1, n - 1) = f
      BY <2>4, <3>1, FirstOnes
    <3> HIDE DEF f
    <3>3. IsPrefix(f, m)
      BY <3>1, <3>2 DEF IsPrefix
    <3>4. QED
      BY <2>8, <3>3 DEF f
  <2>10. n \in 1..n
    BY <2>6
  <2>11. Last(g) \in {m[n], Emptied(m[n])}
    BY <2>7, <2>8, <2>10
  <2>12. QED
    BY <2>9, <2>11 DEF g, m, n, Emptied
<1>2. CodecInv => CutsLoseOnlyTheEnd
  BY <1>1 DEF CutsLoseOnlyTheEnd
<1>3. QED
  BY <1>2, CodecInvariant, PTL
=============================================================================
