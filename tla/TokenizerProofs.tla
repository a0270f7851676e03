-------------------------- MODULE TokenizerProofs --------------------------
(***************************************************************************)
(* Theorems about Tokenizer, for any text and any table of ranks: the      *)
(* heap-driven merge over the linked list does what rescanning does, and   *)
(* the split takes what the pattern takes, and the tokens decode to the    *)
(* text.                                                                   *)
(***************************************************************************)
EXTENDS Tokenizer, Extremes

\* Run(i, C) counts the bytes of C from i on and stops inside the text.
LEMMA RunProperties ==
    ASSUME NEW B, text \in Seq(B), NEW i \in 1..(Len(text) + 1), NEW C
    PROVE  /\ Run(i, C) \in 0..(Len(text) + 1 - i)
           /\ i <= Len(text) /\ text[i] \in C => Run(i, C) >= 1
<1> DEFINE stops == {k \in i..Len(text) : text[k] \notin C}
<1>1. Len(text) \in Nat
  OBVIOUS
<1>2. CASE stops = {}
  BY <1>1, <1>2 DEF Run
<1>3. CASE stops # {}
  <2>1. stops \in SUBSET Nat
    BY <1>1
  <2>2. PICK m : m = Min(stops)
    OBVIOUS
  <2>3. m \in stops
    BY <1>3, <2>1, <2>2, MinProperties
  <2>4. Run(i, C) = m - i
    BY <1>3, <2>2 DEF Run
  <2>5. m \in i..Len(text) /\ text[m] \notin C
    BY <2>3
  <2>6. QED
    BY <1>1, <2>4, <2>5
<1>4. QED
  BY <1>2, <1>3

\* An alternative takes no byte beyond the end.
PretokenFits(i, n) == n \in 0..(Len(text) + 1 - i)

LEMMA AlternativesFit ==
    ASSUME NEW B, text \in Seq(B), NEW i \in 1..Len(text)
    PROVE  /\ PretokenFits(i, Contraction(i)) /\ PretokenFits(i, Word(i))
           /\ PretokenFits(i, Number(i)) /\ PretokenFits(i, Punctuation(i))
           /\ PretokenFits(i, Whitespace(i))
<1> DEFINE Fits(n) == n \in 0..(Len(text) + 1 - i)
<1>0. Len(text) \in Nat /\ i \in Nat
  OBVIOUS
<1>1. Fits(Contraction(i))
  BY <1>0 DEF Contraction
<1>2. Fits(Word(i))
  <2> DEFINE opt == IF text[i] \in Newlines \cup Letters \cup Digits THEN 0 ELSE 1
  <2>1. opt \in 0..1 /\ i + opt \in 1..(Len(text) + 1)
    BY <1>0
  <2>2. Run(i + opt, Letters) \in 0..(Len(text) + 1 - (i + opt))
    <3> HIDE DEF opt
    <3>1. QED
      BY <2>1, RunProperties
  <2>3. QED
    BY <1>0, <2>1, <2>2 DEF Word
<1>3. Fits(Number(i))
  BY <1>0, RunProperties DEF Number
<1>4. Fits(Punctuation(i))
  <2> DEFINE opt == IF text[i] = Space THEN 1 ELSE 0
             p == Run(i + opt, Symbols)
  <2>1. opt \in 0..1 /\ i + opt \in 1..(Len(text) + 1)
    BY <1>0
  <2>2. p \in 0..(Len(text) + 1 - (i + opt))
    <3> HIDE DEF opt
    <3>1. QED
      BY <2>1, RunProperties
  <2>3. i + opt + p \in 1..(Len(text) + 1)
    BY <1>0, <2>1, <2>2
  <2>4. Run(i + opt + p, Newlines) \in 0..(Len(text) + 1 - (i + opt + p))
    <3> HIDE DEF opt, p
    <3>1. QED
      BY <2>3, RunProperties
  <2>5. Punctuation(i) = IF p >= 1 THEN opt + p + Run(i + opt + p, Newlines) ELSE 0
    BY DEF Punctuation
  <2>6. QED
    <3> HIDE DEF opt, p
    <3>1. QED
      BY <1>0, <2>1, <2>2, <2>4, <2>5
<1>5. Fits(Whitespace(i))
  <2> DEFINE run == Run(i, Spaces)
             newlines == {k \in i..(i + run - 1) : text[k] \in Newlines}
  <2>1. run \in 0..(Len(text) + 1 - i)
    BY RunProperties
  <2>2. Whitespace(i) = IF newlines = {} THEN run ELSE Max(newlines) - i + 1
    BY DEF Whitespace
  <2>3. newlines # {} => Max(newlines) \in i..Len(text)
    <3> HIDE DEF run
    <3>1. newlines \in SUBSET (0..Len(text))
      BY <1>0, <2>1
    <3>2. newlines # {} => Max(newlines) \in newlines
      <4> HIDE DEF newlines
      <4>1. QED
        BY <1>0, <3>1, MaxProperties
    <3>3. QED
      BY <1>0, <2>1, <3>2
  <2>4. QED
    <3> HIDE DEF run, newlines
    <3>1. QED
      BY <1>0, <2>1, <2>2, <2>3
<1>6. QED
  BY <1>1, <1>2, <1>3, <1>4, <1>5 DEF PretokenFits

\* next_pretoken() takes at least one byte and none beyond the end.
LEMMA PretokenLength ==
    ASSUME NEW B, text \in Seq(B), NEW i \in 1..Len(text)
    PROVE  next_pretoken(i) \in 1..(Len(text) + 1 - i)
<1>1. Len(text) \in Nat /\ i \in Nat
  OBVIOUS
<1>2. /\ PretokenFits(i, Contraction(i)) /\ PretokenFits(i, Word(i))
      /\ PretokenFits(i, Number(i)) /\ PretokenFits(i, Punctuation(i))
      /\ PretokenFits(i, Whitespace(i))
  BY AlternativesFit
<1>3. QED
  BY <1>1, <1>2 DEF PretokenFits, next_pretoken
-----------------------------------------------------------------------------
LEMMA SubSeqProperties ==
    ASSUME NEW S, NEW s \in Seq(S), NEW a \in 1..(Len(s) + 1), NEW b \in (a - 1)..Len(s)
    PROVE  /\ SubSeq(s, a, b) \in Seq(S)
           /\ Len(SubSeq(s, a, b)) = b - a + 1
<1>1. Len(s) \in Nat
  OBVIOUS
<1>2. SubSeq(s, a, b) = [k \in 1..(b - a + 1) |-> s[a + k - 1]]
  BY <1>1
<1>3. \A k \in 1..(b - a + 1) : s[a + k - 1] \in S
  BY <1>1
<1>4. b - a + 1 \in Nat
  BY <1>1
<1>5. QED
  BY <1>2, <1>3, <1>4

\* What the heap is made of.
LEMMA EntryProperties ==
    ASSUME ranks \in [DOMAIN ranks -> Int], NEW list, NEW i \in Nat
    PROVE  /\ Pushed(list, i) \in SUBSET [rank : Int, index : Nat]
           /\ \A e \in Pushed(list, i) : e.index = i /\ Queued(list, i)
           /\ Queued(list, i) => Entry(list, i) \in Pushed(list, i)
<1>1. Queued(list, i) => Entry(list, i) \in [rank : Int, index : Nat]
  <2>1. SUFFICES ASSUME Queued(list, i)
                 PROVE  Entry(list, i) \in [rank : Int, index : Nat]
    OBVIOUS
  <2>2. ranks[Candidate(list, i)] \in Int
    BY <2>1 DEF Queued
  <2>3. QED
    BY <2>2 DEF Entry
<1>2. Entry(list, i).index = i
  BY DEF Entry
<1>3. QED
  BY <1>1, <1>2 DEF Pushed

-----------------------------------------------------------------------------
\* Once the text is known to be ASCII it stays so; a pre-token is never empty.
SplitInv ==
    /\ phase \notin {"check", "rejected"} => text \in Seq(Bytes)
    /\ phase = "piece" => piece # <<>>

TokenizerInv == TypeOK /\ SplitInv /\ MergeInv

LEMMA NodeFields ==
    ASSUME TypeOK, NEW i \in DOMAIN nodes
    PROVE  /\ nodes[i] \in Node
           /\ nodes[i].start \in Nat /\ nodes[i].len \in Nat
           /\ nodes[i].prev \in Nat /\ nodes[i].next \in Nat
           /\ nodes[i].active \in BOOLEAN
           /\ i \in 1..Len(nodes) /\ DOMAIN nodes = 1..Len(nodes) /\ Len(nodes) \in Nat
<1>1. nodes \in Seq(Node)
  BY DEF TypeOK
<1>2. DOMAIN nodes = 1..Len(nodes) /\ Len(nodes) \in Nat
  BY <1>1
<1>3. nodes[i] \in Node
  BY <1>1, <1>2
<1>4. QED
  BY <1>2, <1>3 DEF Node

\* What a merge of node i with its successor changes in the list.
LEMMA JoinedProperties ==
    ASSUME TypeOK, NodesTilePiece, phase = "merge",
           NEW i \in DOMAIN nodes, HasPair(nodes, i)
    PROVE  LET j == nodes[i].next
               new == Joined(i)
           IN  /\ j \in (i + 1)..Len(nodes) /\ nodes[j].active /\ nodes[j].prev = i
               /\ new \in Seq(Node) /\ DOMAIN new = DOMAIN nodes /\ Len(new) = Len(nodes)
               /\ new[i].start = nodes[i].start /\ new[i].len = nodes[i].len + nodes[j].len
               /\ new[i].next = nodes[j].next /\ new[i].prev = nodes[i].prev /\ new[i].active
               /\ ~new[j].active
               /\ \A k \in DOMAIN nodes \ {i, j} :
                     /\ new[k].start = nodes[k].start /\ new[k].len = nodes[k].len
                     /\ new[k].next = nodes[k].next /\ new[k].active = nodes[k].active
                     /\ new[k].prev = IF k = nodes[j].next THEN i ELSE nodes[k].prev
<1> DEFINE j == nodes[i].next
           new == Joined(i)
<1>1. nodes[i].active /\ j # None /\ nodes[j].active
  BY DEF HasPair
<1>2. /\ j \in (i + 1)..Len(nodes) /\ nodes[j].prev = i
      /\ nodes[i].prev # None => nodes[i].prev \in 1..(i - 1)
  BY <1>1 DEF NodesTilePiece
<1>3. DOMAIN nodes = 1..Len(nodes) /\ Len(nodes) \in Nat /\ i \in 1..Len(nodes)
  BY NodeFields
<1>4. j \in DOMAIN nodes /\ i # j
  BY <1>2, <1>3
<1>5. nodes[i] \in Node /\ nodes[j] \in Node
  BY <1>4, NodeFields
<1>6. DOMAIN new = DOMAIN nodes
  BY DEF Joined
<1>7. new[i] = [nodes[i] EXCEPT !.len = @ + nodes[j].len, !.next = nodes[j].next]
  BY DEF Joined
<1>8. new[j] = [nodes[j] EXCEPT !.active = FALSE]
  BY <1>4 DEF Joined
<1>9. \A k \in DOMAIN nodes \ {i, j} :
         new[k] = IF k = nodes[j].next THEN [nodes[k] EXCEPT !.prev = i] ELSE nodes[k]
  BY DEF Joined
<1>10. /\ new[i] \in Node /\ new[i].start = nodes[i].start
       /\ new[i].len = nodes[i].len + nodes[j].len
       /\ new[i].next = nodes[j].next /\ new[i].prev = nodes[i].prev /\ new[i].active
  <2> HIDE DEF new, j
  <2>1. nodes[i].len + nodes[j].len \in Nat /\ nodes[j].next \in Nat
    BY <1>5 DEF Node
  <2>2. /\ new[i].start = nodes[i].start /\ new[i].len = nodes[i].len + nodes[j].len
        /\ new[i].next = nodes[j].next /\ new[i].prev = nodes[i].prev
        /\ new[i].active = nodes[i].active
    BY <1>5, <1>7 DEF Node
  <2>3. new[i] \in Node
    BY <1>5, <1>7, <2>1 DEF Node
  <2>4. QED
    BY <1>1, <2>2, <2>3
<1>11. new[j] \in Node /\ ~new[j].active
  BY <1>5, <1>8 DEF Node
<1>12. ASSUME NEW k \in DOMAIN nodes \ {i, j}
       PROVE  /\ new[k] \in Node
              /\ new[k].start = nodes[k].start /\ new[k].len = nodes[k].len
              /\ new[k].next = nodes[k].next /\ new[k].active = nodes[k].active
              /\ new[k].prev = IF k = nodes[j].next THEN i ELSE nodes[k].prev
  <2>1. nodes[k] \in Node
    BY NodeFields
  <2>2. i \in Nat
    BY <1>3
  <2>3. new[k] = IF k = nodes[j].next THEN [nodes[k] EXCEPT !.prev = i] ELSE nodes[k]
    BY <1>9
  <2>4. QED
    <3> HIDE DEF new, j
    <3>1. QED
      BY <2>1, <2>2, <2>3 DEF Node
<1>13. \A k \in DOMAIN nodes : new[k] \in Node
  <2> HIDE DEF new, j
  <2>1. QED
    BY <1>10, <1>11, <1>12
<1>14. new = [k \in 1..Len(nodes) |-> new[k]]
  BY <1>3 DEF Joined
<1>15. new \in Seq(Node) /\ Len(new) = Len(nodes)
  <2> HIDE DEF new, j
  <2>1. QED
    BY <1>3, <1>13, <1>14
<1>16. QED
  <2> HIDE DEF new
  <2>1. QED
    BY <1>1, <1>2, <1>6, <1>10, <1>11, <1>12, <1>15 DEF new
-----------------------------------------------------------------------------
\* The invariant, action by action.

LEMMA InitKeepsInv == Init => TokenizerInv
<1>1. SUFFICES ASSUME Init PROVE TokenizerInv
  OBVIOUS
<1>2. PICK input \in Inputs : text = input.text /\ ranks = input.ranks
  BY <1>1 DEF Init
<1>3. text \in Seq(Bytes \cup NonAscii) /\ ranks \in [DOMAIN ranks -> Int]
  BY <1>2, TokenizerAssumption
<1>4. TypeOK
  BY <1>1, <1>3 DEF Init, TypeOK, None
<1>5. QED
  BY <1>1, <1>4 DEF Init, TokenizerInv, SplitInv, MergeInv, NodesTilePiece, HeapCoversPairs

LEMMA TakeKeepsInv ==
    ASSUME TokenizerInv, TakePretoken
    PROVE  TokenizerInv'
<1> DEFINE n == next_pretoken(at)
<1>1. text \in Seq(Bytes) /\ at \in 1..Len(text) /\ Len(text) \in Nat
  BY DEF TokenizerInv, TypeOK, SplitInv, TakePretoken
<1>2. n \in 1..(Len(text) + 1 - at)
  BY <1>1, PretokenLength
<1>3. piece' \in Seq(Bytes) /\ Len(piece') = n
  <2> HIDE DEF n
  <2>1. piece' = SubSeq(text, at, at + n - 1)
    BY DEF TakePretoken, n
  <2>2. PICK b : b = at + n - 1
    OBVIOUS
  <2>3. at \in 1..(Len(text) + 1) /\ b \in (at - 1)..Len(text)
    BY <1>1, <1>2, <2>2
  <2>4. SubSeq(text, at, b) \in Seq(Bytes) /\ Len(SubSeq(text, at, b)) = b - at + 1
    BY <1>1, <2>3, SubSeqProperties
  <2>5. QED
    BY <1>1, <1>2, <2>1, <2>2, <2>4
<1>4. at' \in Nat \ {0}
  BY <1>1, <1>2 DEF TakePretoken
<1>5. TypeOK'
  BY <1>3, <1>4 DEF TokenizerInv, TypeOK, TakePretoken
<1>6. SplitInv'
  BY <1>1, <1>2, <1>3 DEF SplitInv, TakePretoken
<1>7. QED
  BY <1>5, <1>6 DEF TokenizerInv, MergeInv, NodesTilePiece, HeapCoversPairs, TakePretoken

LEMMA ByteKeepsInv ==
    ASSUME TokenizerInv, EncodeByte
    PROVE  TokenizerInv'
<1>1. piece \in DOMAIN ranks => ranks[piece] \in Int
  BY DEF TokenizerInv, TypeOK
<1>2. out' \in Seq(Int)
  <2>1. out \in Seq(Int)
    BY DEF TokenizerInv, TypeOK
  <2>2. CASE piece \in DOMAIN ranks
    <3>1. out' = Append(out, ranks[piece])
      BY <2>2 DEF EncodeByte
    <3>2. QED
      BY <1>1, <2>1, <2>2, <3>1
  <2>3. CASE piece \notin DOMAIN ranks
    BY <2>1, <2>3 DEF EncodeByte
  <2>4. QED
    BY <2>2, <2>3
<1>3. TypeOK'
  BY <1>2 DEF TokenizerInv, TypeOK, EncodeByte
<1>4. SplitInv'
  BY DEF TokenizerInv, SplitInv, EncodeByte
<1>5. QED
  BY <1>3, <1>4 DEF TokenizerInv, MergeInv, NodesTilePiece, HeapCoversPairs, EncodeByte

LEMMA SinglesProperties ==
    ASSUME Len(piece) \in Nat
    PROVE  /\ Singles \in Seq(Node) /\ Len(Singles) = Len(piece)
           /\ DOMAIN Singles = 1..Len(piece)
           /\ \A i \in 1..Len(piece) :
                 /\ Singles[i].start = i /\ Singles[i].len = 1 /\ Singles[i].prev = i - 1
                 /\ Singles[i].next = IF i < Len(piece) THEN i + 1 ELSE 0
                 /\ Singles[i].active
<1>1. ASSUME NEW i \in 1..Len(piece)
      PROVE  /\ Singles[i] \in Node
             /\ Singles[i].start = i /\ Singles[i].len = 1 /\ Singles[i].prev = i - 1
             /\ Singles[i].next = IF i < Len(piece) THEN i + 1 ELSE 0
             /\ Singles[i].active
  <2> DEFINE nx == IF i < Len(piece) THEN i + 1 ELSE 0
  <2>1. Singles[i] = [start |-> i, len |-> 1, prev |-> i - 1, next |-> nx, active |-> TRUE]
    BY DEF Singles, None
  <2>2. i \in Nat /\ i - 1 \in Nat /\ nx \in Nat /\ 1 \in Nat
    OBVIOUS
  <2>3. Singles[i] \in Node
    <3> HIDE DEF nx
    <3>1. [start |-> i, len |-> 1, prev |-> i - 1, next |-> nx, active |-> TRUE] \in Node
      BY <2>2 DEF Node
    <3>2. QED
      BY <2>1, <3>1
  <2>4. QED
    BY <2>1, <2>3
<1>2. DOMAIN Singles = 1..Len(piece) /\ Singles = [i \in 1..Len(piece) |-> Singles[i]]
  BY DEF Singles
<1>3. QED
  <2> HIDE DEF Singles
  <2>1. QED
    BY <1>1, <1>2

LEMMA BuildKeepsInv ==
    ASSUME TokenizerInv, BuildNodes
    PROVE  TokenizerInv'
<1>1. Len(piece) \in Nat /\ Len(piece) > 1 /\ piece # <<>>
  BY DEF TokenizerInv, TypeOK, BuildNodes
<1>2. nodes' = Singles /\ nodes' \in Seq(Node) /\ Len(nodes') = Len(piece)
      /\ DOMAIN nodes' = 1..Len(piece)
  BY <1>1, SinglesProperties DEF BuildNodes
<1>3. \A i \in 1..Len(piece) :
         /\ nodes'[i].start = i /\ nodes'[i].len = 1 /\ nodes'[i].prev = i - 1
         /\ nodes'[i].next = IF i < Len(piece) THEN i + 1 ELSE 0
         /\ nodes'[i].active
  BY <1>1, <1>2, SinglesProperties
<1>4. /\ heap' \in SUBSET [rank : Int, index : Nat]
      /\ \A e \in heap' : e.index \in 1..(Len(piece) - 1)
      /\ \A i \in 1..(Len(piece) - 1) : Queued(Singles, i) => Entry(Singles, i) \in heap'
  <2>1. heap' = UNION {Pushed(Singles, i) : i \in 1..(Len(piece) - 1)}
    BY DEF BuildNodes
  <2>2. ranks \in [DOMAIN ranks -> Int]
    BY DEF TokenizerInv, TypeOK
  <2>3. \A i \in 1..(Len(piece) - 1) : i \in Nat
    BY <1>1
  <2>4. \A i \in 1..(Len(piece) - 1) :
           /\ Pushed(Singles, i) \in SUBSET [rank : Int, index : Nat]
           /\ \A e \in Pushed(Singles, i) : e.index = i
           /\ Queued(Singles, i) => Entry(Singles, i) \in Pushed(Singles, i)
    BY <2>2, <2>3, EntryProperties
  <2>5. QED
    BY <2>1, <2>4
<1>5. TypeOK'
  BY <1>1, <1>2, <1>4 DEF TokenizerInv, TypeOK, BuildNodes
<1>6. SplitInv'
  BY DEF TokenizerInv, SplitInv, BuildNodes
<1>7. UNCHANGED <<piece, ranks>> /\ phase' = "merge" /\ curr' = 1
  BY DEF BuildNodes
<1>8. NodesTilePiece'
  <2>1. \A i \in 1..Len(piece) :
           /\ nodes'[i].start = i
           /\ nodes'[i].prev # None => /\ nodes'[i].prev \in 1..(i - 1)
                                      /\ nodes'[nodes'[i].prev].active
                                      /\ nodes'[nodes'[i].prev].next = i
           /\ \/ /\ nodes'[i].next \in (i + 1)..Len(nodes')
                 /\ nodes'[nodes'[i].next].active
                 /\ nodes'[nodes'[i].next].prev = i
                 /\ i + nodes'[i].len = nodes'[i].next
                 /\ \A k \in (i + 1)..(nodes'[i].next - 1) : ~nodes'[k].active
              \/ /\ nodes'[i].next = None
                 /\ i + nodes'[i].len = Len(nodes') + 1
                 /\ \A k \in (i + 1)..Len(nodes') : ~nodes'[k].active
    <3> TAKE i \in 1..Len(piece)
    <3>1. nodes'[i].start = i
      BY <1>3
    <3>2. nodes'[i].prev # None => /\ nodes'[i].prev \in 1..(i - 1)
                                  /\ nodes'[nodes'[i].prev].active
                                  /\ nodes'[nodes'[i].prev].next = i
      BY <1>1, <1>3 DEF None
    <3>3. CASE i < Len(piece)
      BY <1>1, <1>2, <1>3, <3>1, <3>2, <3>3
    <3>4. CASE i = Len(piece)
      BY <1>1, <1>2, <1>3, <3>1, <3>2, <3>4 DEF None
    <3>5. QED
      BY <1>1, <3>3, <3>4
  <2>2. QED
    BY <1>1, <1>2, <1>3, <1>7, <2>1 DEF NodesTilePiece
<1>9. HeapCoversPairs'
  <2>1. ASSUME NEW i \in DOMAIN nodes', Queued(nodes, i)'
        PROVE  Entry(nodes, i)' \in heap'
    <3>1. Queued(Singles, i) /\ Entry(nodes, i)' = Entry(Singles, i)
      BY <1>2, <1>7, <2>1 DEF Queued, HasPair, Candidate, Entry
    <3>2. nodes'[i].next # None
      BY <2>1 DEF Queued, HasPair
    <3>3. i \in 1..(Len(piece) - 1)
      BY <1>1, <1>2, <1>3, <3>2 DEF None
    <3>4. QED
      BY <1>4, <3>1, <3>3
  <2>2. \A e \in heap' : e.index \in DOMAIN nodes'
    BY <1>1, <1>2, <1>4
  <2>3. curr' \in DOMAIN nodes' /\ nodes'[curr'].active /\ curr' = 1
    BY <1>1, <1>2, <1>3, <1>7
  <2>4. QED
    BY <2>1, <2>2, <2>3 DEF HeapCoversPairs
<1>10. QED
  BY <1>5, <1>6, <1>8, <1>9 DEF TokenizerInv, MergeInv

\* What a merge leaves of the pairs: a pair that neither begins nor ends with
\* the merged node is what it was.
LEMMA OtherPairs ==
    ASSUME TypeOK, NodesTilePiece, phase = "merge",
           NEW i \in DOMAIN nodes, HasPair(nodes, i),
           NEW k \in DOMAIN nodes, HasPair(Joined(i), k),
           k # i, Joined(i)[k].next # i
    PROVE  HasPair(nodes, k) /\ Candidate(Joined(i), k) = Candidate(nodes, k)
<1> DEFINE j == nodes[i].next
           new == Joined(i)
<1>1. /\ j \in (i + 1)..Len(nodes) /\ nodes[j].active /\ nodes[j].prev = i
      /\ ~new[j].active
      /\ \A m \in DOMAIN nodes \ {i, j} :
            /\ new[m].start = nodes[m].start /\ new[m].len = nodes[m].len
            /\ new[m].next = nodes[m].next /\ new[m].active = nodes[m].active
  BY JoinedProperties
<1>2. new[k].active /\ new[k].next # None /\ new[new[k].next].active
  BY DEF HasPair
<1> HIDE DEF new, j
<1>3. k \in DOMAIN nodes \ {i, j}
  BY <1>1, <1>2
<1>4. nodes[k].active /\ new[k].next = nodes[k].next
  BY <1>1, <1>2, <1>3
<1>5. /\ nodes[k].next \in (k + 1)..Len(nodes) /\ nodes[nodes[k].next].active
      /\ nodes[k].next \in DOMAIN nodes
  BY <1>2, <1>4, NodeFields DEF NodesTilePiece
<1>6. nodes[k].next \in DOMAIN nodes \ {i, j}
  BY <1>1, <1>2, <1>4, <1>5 DEF new
<1>7. new[nodes[k].next].len = nodes[nodes[k].next].len
  BY <1>1, <1>6
<1>8. Candidate(new, k) = Candidate(nodes, k)
  BY <1>1, <1>3, <1>4, <1>7 DEF Candidate
<1>9. HasPair(nodes, k)
  BY <1>2, <1>4, <1>5, NodeFields DEF HasPair, None
<1>10. QED
  BY <1>8, <1>9 DEF new

LEMMA MergeKeepsTiles ==
    ASSUME TypeOK, NodesTilePiece, phase = "merge", phase' = "merge",
           NEW i \in DOMAIN nodes, HasPair(nodes, i), nodes' = Joined(i), piece' = piece
    PROVE  NodesTilePiece'
<1> DEFINE j == nodes[i].next
           l == nodes[j].next
<1>1. /\ j \in (i + 1)..Len(nodes) /\ nodes[j].active /\ nodes[j].prev = i
      /\ DOMAIN nodes' = DOMAIN nodes /\ Len(nodes') = Len(nodes)
      /\ nodes'[i].start = nodes[i].start /\ nodes'[i].len = nodes[i].len + nodes[j].len
      /\ nodes'[i].next = l /\ nodes'[i].prev = nodes[i].prev /\ nodes'[i].active
      /\ ~nodes'[j].active
      /\ \A k \in DOMAIN nodes \ {i, j} :
            /\ nodes'[k].start = nodes[k].start /\ nodes'[k].len = nodes[k].len
            /\ nodes'[k].next = nodes[k].next /\ nodes'[k].active = nodes[k].active
            /\ nodes'[k].prev = IF k = l THEN i ELSE nodes[k].prev
  BY JoinedProperties
<1>2. DOMAIN nodes = 1..Len(nodes) /\ Len(nodes) \in Nat /\ i \in 1..Len(nodes)
  BY NodeFields
<1>3. nodes[i].active /\ j \in DOMAIN nodes /\ i # j /\ j # None
  BY <1>1, <1>2 DEF HasPair
<1>4. \A k \in DOMAIN nodes : /\ nodes[k].len \in Nat
                              /\ nodes[k].next \in Nat /\ nodes[k].prev \in Nat
  BY NodeFields
<1>5. \A k \in DOMAIN nodes : nodes[k].active =>
        /\ nodes[k].start = k
        /\ nodes[k].prev # None => /\ nodes[k].prev \in 1..(k - 1)
                                   /\ nodes[nodes[k].prev].active
                                   /\ nodes[nodes[k].prev].next = k
        /\ \/ /\ nodes[k].next \in (k + 1)..Len(nodes)
              /\ nodes[nodes[k].next].active
              /\ nodes[nodes[k].next].prev = k
              /\ k + nodes[k].len = nodes[k].next
              /\ \A m \in (k + 1)..(nodes[k].next - 1) : ~nodes[m].active
           \/ /\ nodes[k].next = None
              /\ k + nodes[k].len = Len(nodes) + 1
              /\ \A m \in (k + 1)..Len(nodes) : ~nodes[m].active
  BY DEF NodesTilePiece
<1>6. Len(nodes) = Len(piece) /\ piece # <<>> /\ nodes[1].active
  BY DEF NodesTilePiece
<1> HIDE DEF j, l
<1>7. nodes[i].next = j /\ nodes[j].next = l
  BY DEF j, l
<1>8. i + nodes[i].len = j /\ \A m \in (i + 1)..(j - 1) : ~nodes[m].active
  BY <1>2, <1>3, <1>5, <1>7
<1>9. \A m \in DOMAIN nodes : nodes'[m].active => nodes[m].active
  BY <1>1, <1>3
<1>10. ASSUME NEW k \in DOMAIN nodes, nodes'[k].active
       PROVE  /\ nodes'[k].start = k
              /\ nodes'[k].prev # None => /\ nodes'[k].prev \in 1..(k - 1)
                                          /\ nodes'[nodes'[k].prev].active
                                          /\ nodes'[nodes'[k].prev].next = k
              /\ \/ /\ nodes'[k].next \in (k + 1)..Len(nodes)
                    /\ nodes'[nodes'[k].next].active
                    /\ nodes'[nodes'[k].next].prev = k
                    /\ k + nodes'[k].len = nodes'[k].next
                    /\ \A m \in (k + 1)..(nodes'[k].next - 1) : ~nodes'[m].active
                 \/ /\ nodes'[k].next = None
                    /\ k + nodes'[k].len = Len(nodes) + 1
                    /\ \A m \in (k + 1)..Len(nodes) : ~nodes'[m].active
  <2>1. nodes[k].active /\ k # j /\ k \in 1..Len(nodes)
    BY <1>1, <1>2, <1>9, <1>10
  <2>2. nodes'[k].start = k
    BY <1>1, <1>5, <2>1
  <2>3. nodes'[k].prev # None => /\ nodes'[k].prev \in 1..(k - 1)
                                 /\ nodes'[nodes'[k].prev].active
                                 /\ nodes'[nodes'[k].prev].next = k
    <3>1. CASE k = l
      <4>1. l \in (j + 1)..Len(nodes) /\ l \notin {i, j}
        BY <1>1, <1>2, <1>3, <1>5, <1>7, <2>1, <3>1 DEF None
      <4>2. nodes'[k].prev = i
        BY <1>1, <1>2, <3>1, <4>1
      <4>3. QED
        BY <1>1, <1>2, <3>1, <4>1, <4>2
    <3>2. CASE k # l
      <4>1. nodes'[k].prev = nodes[k].prev
        BY <1>1, <2>1, <3>2
      <4>2. SUFFICES ASSUME nodes[k].prev # None
                     PROVE  /\ nodes[k].prev \in 1..(k - 1)
                            /\ nodes'[nodes[k].prev].active
                            /\ nodes'[nodes[k].prev].next = k
        BY <4>1
      <4>3. /\ nodes[k].prev \in 1..(k - 1) /\ nodes[k].prev \in DOMAIN nodes
            /\ nodes[nodes[k].prev].active /\ nodes[nodes[k].prev].next = k
        BY <1>2, <1>5, <2>1, <4>2
      <4>4. nodes[k].prev \notin {i, j}
        BY <1>7, <2>1, <3>2, <4>3
      <4>5. QED
        BY <1>1, <4>3, <4>4
    <3>3. QED
      BY <3>1, <3>2
  <2>4. CASE k = i
    <3>1. nodes'[k].next = l /\ nodes'[k].len = nodes[i].len + nodes[j].len
      BY <1>1, <2>4
    <3>2. CASE l = None
      <4>1. j + nodes[j].len = Len(nodes) + 1 /\ \A m \in (j + 1)..Len(nodes) : ~nodes[m].active
        BY <1>1, <1>2, <1>3, <1>5, <1>7, <3>2 DEF None
      <4>2. k + nodes'[k].len = Len(nodes) + 1
        BY <1>2, <1>3, <1>4, <1>8, <2>4, <3>1, <4>1
      <4>3. \A m \in (k + 1)..Len(nodes) : ~nodes'[m].active
        BY <1>1, <1>2, <1>3, <1>8, <1>9, <2>4, <4>1
      <4>4. QED
        BY <2>2, <2>3, <3>1, <3>2, <4>2, <4>3
    <3>3. CASE l # None
      <4>1. /\ l \in (j + 1)..Len(nodes) /\ nodes[l].active
            /\ j + nodes[j].len = l /\ \A m \in (j + 1)..(l - 1) : ~nodes[m].active
        BY <1>1, <1>2, <1>3, <1>5, <1>7, <3>3
      <4>2. l \in DOMAIN nodes \ {i, j} /\ l \in (k + 1)..Len(nodes)
        BY <1>1, <1>2, <2>4, <4>1
      <4>3. nodes'[l].active /\ nodes'[l].prev = k
        BY <1>1, <2>4, <4>1, <4>2
      <4>4. k + nodes'[k].len = l
        BY <1>2, <1>3, <1>4, <1>8, <2>4, <3>1, <4>1
      <4>5. \A m \in (k + 1)..(l - 1) : ~nodes'[m].active
        BY <1>1, <1>2, <1>3, <1>8, <1>9, <2>4, <4>1
      <4>6. QED
        BY <2>2, <2>3, <3>1, <4>2, <4>3, <4>4, <4>5
    <3>4. QED
      BY <3>2, <3>3
  <2>5. CASE k # i
    <3>1. nodes'[k].next = nodes[k].next /\ nodes'[k].len = nodes[k].len
      BY <1>1, <2>1, <2>5
    <3>2. CASE nodes[k].next = None
      <4>1. k + nodes[k].len = Len(nodes) + 1 /\ \A m \in (k + 1)..Len(nodes) : ~nodes[m].active
        BY <1>2, <1>5, <2>1, <3>2 DEF None
      <4>2. \A m \in (k + 1)..Len(nodes) : ~nodes'[m].active
        BY <1>2, <1>9, <2>1, <4>1
      <4>3. QED
        BY <2>2, <2>3, <3>1, <3>2, <4>1, <4>2
    <3>3. CASE nodes[k].next # None
      <4> DEFINE n == nodes[k].next
      <4>1. /\ n \in (k + 1)..Len(nodes) /\ nodes[n].active /\ nodes[n].prev = k
            /\ k + nodes[k].len = n /\ \A m \in (k + 1)..(n - 1) : ~nodes[m].active
        BY <1>2, <1>5, <2>1, <3>3
      <4> HIDE DEF n
      <4>2. n # j /\ n \in DOMAIN nodes
        BY <1>1, <1>2, <2>1, <2>5, <4>1
      <4>3. n # l
        <5>1. l # None => nodes[l].prev = j
          BY <1>1, <1>2, <1>3, <1>5, <1>7
        <5>2. QED
          BY <1>2, <2>1, <4>1, <5>1 DEF None
      <4>4. nodes'[n].active /\ nodes'[n].prev = k
        BY <1>1, <4>1, <4>2, <4>3
      <4>5. \A m \in (k + 1)..(n - 1) : ~nodes'[m].active
        BY <1>2, <1>9, <2>1, <4>1
      <4>6. nodes'[k].next = n /\ k + nodes'[k].len = n
        BY <3>1, <4>1 DEF n
      <4>7. QED
        BY <2>2, <2>3, <4>1, <4>4, <4>5, <4>6
    <3>4. QED
      BY <3>2, <3>3
  <2>6. QED
    BY <2>4, <2>5
<1>11. 1 \in DOMAIN nodes /\ nodes'[1].active
  BY <1>1, <1>2, <1>3, <1>6
<1>12. QED
  BY <1>1, <1>6, <1>10, <1>11 DEF NodesTilePiece

LEMMA MergeKeepsInv ==
    ASSUME TokenizerInv, NEW e \in heap, MergePair(e)
    PROVE  TokenizerInv'
<1> DEFINE i == e.index
           new == Joined(i)
<1>1. TypeOK /\ NodesTilePiece /\ HeapCoversPairs /\ phase = "merge" /\ phase' = "merge"
  BY DEF TokenizerInv, MergeInv, MergePair
<1>2. i \in DOMAIN nodes /\ Queued(nodes, i) /\ HasPair(nodes, i) /\ i \in Nat
  BY <1>1, NodeFields DEF HeapCoversPairs, MergePair, IsCurrent, Queued
<1>3. /\ nodes' = new /\ UNCHANGED <<text, ranks, phase, at, piece, curr, out>>
      /\ heap' = (heap \ {e}) \cup Pushed(new, new[i].prev) \cup Pushed(new, i)
  BY DEF MergePair
<1>4. /\ new \in Seq(Node) /\ DOMAIN new = DOMAIN nodes
      /\ new[i].active /\ new[i].prev = nodes[i].prev
      /\ nodes[i].next \in (i + 1)..Len(nodes)
      /\ \A k \in DOMAIN nodes \ {i, nodes[i].next} : new[k].active = nodes[k].active
  BY <1>1, <1>2, JoinedProperties
<1>5. NodesTilePiece'
  <2> HIDE DEF i
  <2>1. QED
    BY <1>1, <1>2, <1>3, MergeKeepsTiles
<1> HIDE DEF new, i
<1>6. new[i].prev \in Nat
  BY <1>1, <1>2, <1>4, NodeFields
<1>7. ranks \in [DOMAIN ranks -> Int]
  BY <1>1 DEF TypeOK
<1>8. heap' \in SUBSET [rank : Int, index : Nat]
  <2>1. Pushed(new, new[i].prev) \in SUBSET [rank : Int, index : Nat]
    BY <1>6, <1>7, EntryProperties
  <2>2. Pushed(new, i) \in SUBSET [rank : Int, index : Nat]
    BY <1>2, <1>7, EntryProperties
  <2>3. QED
    BY <1>1, <1>3, <2>1, <2>2 DEF TypeOK
<1>9. TypeOK'
  BY <1>1, <1>3, <1>4, <1>8 DEF TypeOK
<1>10. SplitInv'
  BY <1>3 DEF TokenizerInv, SplitInv
<1>11. ASSUME NEW k \in DOMAIN nodes', Queued(nodes, k)'
       PROVE  Entry(nodes, k)' \in heap'
  <2>1. Queued(new, k) /\ Entry(nodes, k)' = Entry(new, k) /\ k \in DOMAIN nodes /\ k \in Nat
    BY <1>1, <1>3, <1>4, <1>11, NodeFields DEF Queued, HasPair, Candidate, Entry
  <2>2. CASE k = i
    BY <1>2, <1>3, <1>7, <2>1, <2>2, EntryProperties
  <2>3. CASE k # i /\ new[k].next = i
    <3>1. new[k].active /\ k # None
      BY <2>1 DEF Queued, HasPair
    <3>2. new[new[k].next].prev = k
      BY <1>1, <1>2, <1>3, <1>4, <1>5, <2>1, <2>3, <3>1 DEF NodesTilePiece, None
    <3>3. new[i].prev = k
      BY <2>3, <3>2
    <3>4. QED
      BY <1>3, <1>7, <2>1, <3>3, EntryProperties
  <2>4. CASE k # i /\ new[k].next # i
    <3>1. HasPair(new, k)
      BY <2>1 DEF Queued
    <3>2. HasPair(nodes, k) /\ Candidate(new, k) = Candidate(nodes, k)
      BY <1>1, <1>2, <2>1, <2>4, <3>1, OtherPairs DEF new
    <3>3. Queued(nodes, k) /\ Entry(new, k) = Entry(nodes, k)
      BY <2>1, <3>2 DEF Queued, Entry
    <3>4. Entry(nodes, k) \in heap
      BY <1>1, <2>1, <3>3 DEF HeapCoversPairs
    <3>5. Entry(nodes, k) # e
      BY <2>4 DEF Entry, i
    <3>6. QED
      BY <1>3, <2>1, <3>3, <3>4, <3>5
  <2>5. QED
    BY <2>2, <2>3, <2>4
<1>12. ASSUME NEW f \in heap'
       PROVE  f.index \in DOMAIN nodes'
  <2>1. CASE f \in heap
    BY <1>1, <1>3, <1>4, <2>1 DEF HeapCoversPairs
  <2>2. CASE f \in Pushed(new, i)
    BY <1>2, <1>3, <1>4, <1>7, <2>2, EntryProperties
  <2>3. CASE f \in Pushed(new, new[i].prev)
    <3>1. f.index = new[i].prev /\ Queued(new, new[i].prev)
      BY <1>6, <1>7, <2>3, EntryProperties
    <3>2. new[i].prev # None
      BY <3>1 DEF Queued, HasPair
    <3>3. new[i].prev \in 1..(i - 1)
      BY <1>2, <1>3, <1>4, <1>1, <1>5, <3>2 DEF NodesTilePiece
    <3>4. QED
      BY <1>1, <1>2, <1>3, <1>4, <3>1, <3>3, NodeFields
  <2>4. QED
    BY <1>3, <2>1, <2>2, <2>3
<1>13. curr' = 1 /\ curr' \in DOMAIN nodes' /\ nodes'[curr'].active
  <2>1. curr = 1
    BY <1>1 DEF HeapCoversPairs
  <2>2. 1 \in DOMAIN nodes' /\ nodes'[1].active
    BY <1>1, <1>5, <1>2, <1>3, <1>4, NodeFields DEF NodesTilePiece
  <2>3. QED
    BY <1>3, <2>1, <2>2
<1>14. HeapCoversPairs'
  BY <1>11, <1>12, <1>13 DEF HeapCoversPairs
<1>15. QED
  BY <1>5, <1>9, <1>10, <1>14 DEF TokenizerInv, MergeInv

LEMMA DropKeepsInv ==
    ASSUME TokenizerInv, NEW e \in heap, DropStale(e)
    PROVE  TokenizerInv'
<1>1. /\ heap' = heap \ {e} /\ phase = "merge" /\ ~IsCurrent(e)
      /\ UNCHANGED <<text, ranks, phase, at, piece, nodes, curr, out>>
  BY DEF DropStale
<1>2. TypeOK'
  BY <1>1 DEF TokenizerInv, TypeOK
<1>3. SplitInv' /\ NodesTilePiece'
  BY <1>1 DEF TokenizerInv, SplitInv, MergeInv, NodesTilePiece
<1>4. HeapCoversPairs
  BY DEF TokenizerInv, MergeInv
<1>5. ASSUME NEW k \in DOMAIN nodes', Queued(nodes, k)'
      PROVE  Entry(nodes, k)' \in heap'
  <2>1. Queued(nodes, k) /\ Entry(nodes, k)' = Entry(nodes, k)
    BY <1>1, <1>5 DEF Queued, HasPair, Candidate, Entry
  <2>2. Entry(nodes, k) \in heap
    BY <1>1, <1>4, <2>1 DEF HeapCoversPairs
  <2>3. Entry(nodes, k) # e
    <3>1. SUFFICES ASSUME Entry(nodes, k) = e PROVE FALSE
      OBVIOUS
    <3>2. e.index = k
      BY <3>1 DEF Entry
    <3>3. IsCurrent(e)
      BY <2>1, <3>1, <3>2 DEF IsCurrent
    <3>4. QED
      BY <1>1, <3>3
  <2>4. QED
    BY <1>1, <2>1, <2>2, <2>3
<1>6. HeapCoversPairs'
  BY <1>1, <1>4, <1>5 DEF HeapCoversPairs
<1>7. QED
  BY <1>2, <1>3, <1>6 DEF TokenizerInv, MergeInv

LEMMA PutKeepsInv ==
    ASSUME TokenizerInv, PutOut
    PROVE  TokenizerInv'
<1>1. /\ TypeOK /\ NodesTilePiece /\ HeapCoversPairs /\ phase = "merge" /\ heap = {}
      /\ UNCHANGED <<text, ranks, at, piece, nodes, heap>>
  BY DEF TokenizerInv, MergeInv, PutOut
<1>2. curr \in DOMAIN nodes /\ nodes[curr].active
  BY <1>1 DEF HeapCoversPairs
<1>3. nodes[curr].next \in Nat
  BY <1>1, <1>2, NodeFields
<1>4. \/ /\ out' = Append(out, ranks[TokenOf(curr)]) /\ TokenOf(curr) \in DOMAIN ranks
         /\ curr' = nodes[curr].next
         /\ phase' = IF nodes[curr].next = None THEN "split" ELSE "merge"
      \/ phase' = "threw" /\ UNCHANGED <<out, curr>>
  BY <1>2 DEF PutOut
<1>5. TypeOK'
  <2>1. CASE phase' = "threw" /\ UNCHANGED <<out, curr>>
    BY <1>1, <2>1 DEF TypeOK
  <2>2. CASE /\ out' = Append(out, ranks[TokenOf(curr)]) /\ TokenOf(curr) \in DOMAIN ranks
             /\ curr' = nodes[curr].next
             /\ phase' = IF nodes[curr].next = None THEN "split" ELSE "merge"
    <3>1. ranks[TokenOf(curr)] \in Int /\ out \in Seq(Int)
      BY <1>1, <2>2 DEF TypeOK
    <3>2. out' \in Seq(Int)
      BY <2>2, <3>1
    <3>3. QED
      BY <1>1, <1>3, <2>2, <3>2 DEF TypeOK
  <2>3. QED
    BY <1>4, <2>1, <2>2
<1>6. SplitInv'
  BY <1>1, <1>4 DEF TokenizerInv, SplitInv
<1>7. NodesTilePiece'
  BY <1>1, <1>4 DEF NodesTilePiece
<1>8. HeapCoversPairs'
  <2>1. SUFFICES ASSUME phase' = "merge" PROVE HeapCoversPairs'
    BY DEF HeapCoversPairs
  <2>2. curr' = nodes[curr].next /\ nodes[curr].next # None
    BY <1>4, <2>1
  <2>3. curr' \in DOMAIN nodes /\ nodes[curr'].active
    BY <1>1, <1>2, <2>2, NodeFields DEF NodesTilePiece
  <2>4. \A k \in DOMAIN nodes : ~Queued(nodes, k)
    BY <1>1 DEF HeapCoversPairs
  <2>5. \A k \in DOMAIN nodes : Queued(nodes, k)' <=> Queued(nodes, k)
    BY <1>1 DEF Queued, HasPair, Candidate
  <2>6. QED
    BY <1>1, <2>3, <2>4, <2>5 DEF HeapCoversPairs
<1>9. QED
  BY <1>5, <1>6, <1>7, <1>8 DEF TokenizerInv, MergeInv

LEMMA NextKeepsInv == TokenizerInv /\ [Next]_vars => TokenizerInv'
<1>1. SUFFICES ASSUME TokenizerInv, [Next]_vars PROVE TokenizerInv'
  OBVIOUS
<1>2. CASE RequireAscii
  <2>1. TypeOK'
    BY <1>1, <1>2 DEF TokenizerInv, TypeOK, RequireAscii
  <2>2. SplitInv'
    <3>1. CASE \A k \in DOMAIN text : text[k] \in Bytes
      <4>1. text \in Seq(Bytes \cup NonAscii)
        BY <1>1 DEF TokenizerInv, TypeOK
      <4>2. text = [k \in 1..Len(text) |-> text[k]] /\ Len(text) \in Nat
        BY <4>1
      <4>3. text \in Seq(Bytes)
        BY <3>1, <4>1, <4>2
      <4>4. QED
        BY <1>2, <3>1, <4>3 DEF SplitInv, RequireAscii
    <3>2. CASE ~(\A k \in DOMAIN text : text[k] \in Bytes)
      BY <1>2, <3>2 DEF SplitInv, RequireAscii
    <3>3. QED
      BY <3>1, <3>2
  <2>3. QED
    BY <1>2, <2>1, <2>2 DEF TokenizerInv, MergeInv, NodesTilePiece, HeapCoversPairs, RequireAscii
<1>3. CASE TakePretoken
  BY <1>1, <1>3, TakeKeepsInv
<1>4. CASE Finish
  BY <1>1, <1>4 DEF TokenizerInv, TypeOK, SplitInv, MergeInv, NodesTilePiece, HeapCoversPairs,
                    Finish
<1>5. CASE EncodeByte
  BY <1>1, <1>5, ByteKeepsInv
<1>6. CASE BuildNodes
  BY <1>1, <1>6, BuildKeepsInv
<1>7. CASE \E e \in heap : MergePair(e) \/ DropStale(e)
  BY <1>1, <1>7, MergeKeepsInv, DropKeepsInv
<1>8. CASE PutOut
  BY <1>1, <1>8, PutKeepsInv
<1>9. CASE UNCHANGED vars
  <2>1. TypeOK' /\ SplitInv' /\ NodesTilePiece'
    BY <1>1, <1>9 DEF TokenizerInv, TypeOK, SplitInv, MergeInv, NodesTilePiece, vars
  <2>2. HeapCoversPairs'
    BY <1>1, <1>9 DEF TokenizerInv, MergeInv, HeapCoversPairs, Queued, HasPair, Candidate, Entry,
                      vars
  <2>3. QED
    BY <2>1, <2>2 DEF TokenizerInv, MergeInv
<1>10. QED
  BY <1>1, <1>2, <1>3, <1>4, <1>5, <1>6, <1>7, <1>8, <1>9 DEF Next

\* The variables of encode() and bpe() keep their types, positions inside the
\* text included, whatever the text and the table.
THEOREM TokenizerTyping == Spec => []TypeOK
<1>1. TokenizerInv => TypeOK
  BY DEF TokenizerInv
<1>2. QED
  BY InitKeepsInv, NextKeepsInv, <1>1, PTL DEF Spec

\* Whatever was merged, the list tiles the piece and the heap knows every pair
\* that can still be merged.
THEOREM ListAndHeapAgree == Spec => []MergeInv
<1>1. TokenizerInv => MergeInv
  BY DEF TokenizerInv
<1>2. QED
  BY InitKeepsInv, NextKeepsInv, <1>1, PTL DEF Spec

-----------------------------------------------------------------------------
\* The refinement: the active nodes not put out yet are the parts.

LEMMA PartsAreNodes ==
    ASSUME TypeOK, NodesTilePiece, HeapCoversPairs, phase = "merge",
           NEW s \in Pending
    PROVE  /\ s \in DOMAIN nodes /\ nodes[s].active /\ s \in Nat
           /\ Reference!End(s) = s + nodes[s].len
           /\ nodes[s].next # None => /\ nodes[s].next \in Pending
                                      /\ Reference!End(s) = nodes[s].next
           /\ nodes[s].next = None => Reference!End(s) \notin Pending
<1>1. Pending = {i \in DOMAIN nodes : nodes[i].active /\ i >= curr}
  BY DEF Pending
<1>2. /\ s \in DOMAIN nodes /\ nodes[s].active /\ s >= curr /\ s \in 1..Len(nodes)
      /\ DOMAIN nodes = 1..Len(nodes) /\ Len(nodes) \in Nat
      /\ nodes[s].len \in Nat /\ nodes[s].next \in Nat
  BY <1>1, NodeFields
<1>3. curr \in Nat /\ Len(piece) = Len(nodes)
  BY DEF TypeOK, NodesTilePiece
<1> DEFINE later == {t \in Pending : t > s}
           n == nodes[s].next
<1>4. Reference!End(s) = IF \E t \in Pending : t > s THEN Min(later) ELSE Len(piece) + 1
  BY DEF Reference!End, Reference!Min, Min
<1>5. CASE n = None
  <2>1. s + nodes[s].len = Len(nodes) + 1 /\ \A k \in (s + 1)..Len(nodes) : ~nodes[k].active
    BY <1>2, <1>5 DEF NodesTilePiece, None
  <2>2. ~ \E t \in Pending : t > s
    BY <1>1, <1>2, <2>1
  <2>3. Len(nodes) + 1 \notin Pending
    BY <1>1, <1>2
  <2>4. QED
    BY <1>2, <1>3, <1>4, <1>5, <2>1, <2>2, <2>3
<1>6. CASE n # None
  <2>1. /\ n \in (s + 1)..Len(nodes) /\ nodes[n].active /\ s + nodes[s].len = n
        /\ \A k \in (s + 1)..(n - 1) : ~nodes[k].active
    BY <1>2, <1>6 DEF NodesTilePiece
  <2> HIDE DEF n
  <2>2. n \in Pending /\ n > s
    BY <1>1, <1>2, <1>3, <2>1
  <2>3. \A t \in later : n <= t
    BY <1>1, <1>2, <2>1
  <2>4. later \in SUBSET Nat /\ later # {} /\ n \in later
    BY <1>1, <1>2, <2>2
  <2> HIDE DEF later
  <2>5. PICK m : m = Min(later)
    OBVIOUS
  <2>6. m \in later /\ \A y \in later : m <= y
    BY <2>4, <2>5, MinProperties
  <2>7. m = n
    BY <2>3, <2>4, <2>6
  <2>8. QED
    BY <1>2, <1>4, <1>6, <2>1, <2>2, <2>5, <2>7 DEF n
<1>7. QED
  BY <1>2, <1>5, <1>6

LEMMA MergeableIsQueued ==
    ASSUME TypeOK, NodesTilePiece, HeapCoversPairs, phase = "merge",
           NEW s \in Pending
    PROVE  /\ Reference!Mergeable(s) <=> Queued(nodes, s)
           /\ Queued(nodes, s) => Reference!Joined(s) = Candidate(nodes, s)
<1> DEFINE n == nodes[s].next
<1>1. s \in DOMAIN nodes /\ nodes[s].active /\ s \in Nat /\ s # None
  BY PartsAreNodes, NodeFields DEF None
<1>2. nodes[s].start = s
  BY <1>1 DEF NodesTilePiece
<1>3. CASE n = None
  <2>1. Reference!End(s) \notin Pending
    BY <1>3, PartsAreNodes
  <2>2. QED
    BY <1>3, <2>1 DEF Reference!Mergeable, Queued, HasPair
<1>4. CASE n # None
  <2>1. n \in Pending /\ Reference!End(s) = n /\ n = s + nodes[s].len
    BY <1>4, PartsAreNodes
  <2>2. /\ Reference!End(n) = n + nodes[n].len /\ nodes[n].active
        /\ nodes[n].len \in Nat /\ nodes[s].len \in Nat
    BY <1>1, <2>1, PartsAreNodes, NodeFields
  <2>3. Candidate(nodes, s) = SubSeq(piece, s, s + nodes[s].len + nodes[n].len - 1)
    BY <1>2 DEF Candidate
  <2>4. Reference!Joined(s) = Candidate(nodes, s)
    <3>1. Reference!Joined(s) = SubSeq(piece, s, Reference!End(Reference!End(s)) - 1)
      BY DEF Reference!Joined
    <3>2. Reference!End(Reference!End(s)) - 1 = s + nodes[s].len + nodes[n].len - 1
      <4> HIDE DEF n
      <4>1. QED
        BY <1>1, <2>1, <2>2
    <3>3. QED
      BY <2>3, <3>1, <3>2
  <2>5. QED
    BY <1>1, <1>4, <2>1, <2>2, <2>4 DEF Reference!Mergeable, Queued, HasPair
<1>5. QED
  BY <1>3, <1>4

LEMMA InitIsReferenceInit == Init => Reference!Init
BY DEF Init, Reference!Init, Pending

LEMMA TakeIsNewPiece ==
    ASSUME TokenizerInv, TokenizerInv', TakePretoken
    PROVE  Reference!NewPiece
<1>1. Pending = {} /\ Pending' = DOMAIN piece'
  BY DEF TakePretoken, Pending
<1>2. piece' \in Seq(Bytes)
  BY DEF TokenizerInv, TypeOK
<1>3. QED
  BY <1>1, <1>2 DEF TakePretoken, Reference!NewPiece

LEMMA ByteIsPutOut ==
    ASSUME TokenizerInv, EncodeByte
    PROVE  Reference!PutOut \/ Reference!Fail
<1>1. /\ phase = "piece" /\ Len(piece) = 1 /\ piece \in Seq(Bytes)
      /\ UNCHANGED <<ranks, piece>>
  BY DEF TokenizerInv, TypeOK, EncodeByte
<1>2. Pending = {1}
  BY <1>1 DEF Pending
<1>3. Pending' = {}
  BY DEF EncodeByte, Pending
<1>4. Reference!End(1) = 2
  BY <1>1, <1>2 DEF Reference!End
<1>5. Reference!Part(1) = piece
  <2>1. Reference!Part(1) = SubSeq(piece, 1, 1)
    BY <1>4 DEF Reference!Part
  <2>2. QED
    BY <1>1, <2>1
<1>6. \A t \in Pending : ~Reference!Mergeable(t)
  BY <1>2, <1>4 DEF Reference!Mergeable
<1>7. Reference!IsFirst(1)
  BY <1>2 DEF Reference!IsFirst
<1>8. CASE piece \in DOMAIN ranks
  <2>1. out' = Append(out, ranks[piece]) /\ phase' = "split"
    BY <1>8 DEF EncodeByte
  <2>2. QED
    BY <1>1, <1>2, <1>3, <1>5, <1>6, <1>7, <1>8, <2>1 DEF Reference!PutOut
<1>9. CASE piece \notin DOMAIN ranks
  <2>1. UNCHANGED out /\ phase' = "threw"
    BY <1>9 DEF EncodeByte
  <2>2. QED
    BY <1>1, <1>2, <1>3, <1>5, <1>6, <1>7, <1>9, <2>1 DEF Reference!Fail
<1>10. QED
  BY <1>8, <1>9

LEMMA BuildIsStutter ==
    ASSUME TokenizerInv, BuildNodes
    PROVE  UNCHANGED Reference!vars
<1>1. Len(piece) \in Nat /\ piece \in Seq(Bytes)
  BY DEF TokenizerInv, TypeOK
<1>2. Pending = 1..Len(piece)
  BY <1>1 DEF BuildNodes, Pending
<1>3. nodes' = Singles /\ curr' = 1 /\ phase' = "merge"
  BY DEF BuildNodes
<1>4. Pending' = {i \in DOMAIN nodes' : nodes'[i].active /\ i >= curr'}
  BY <1>3 DEF Pending
<1>5. Pending' = 1..Len(piece)
  BY <1>1, <1>3, <1>4, SinglesProperties
<1>6. QED
  BY <1>2, <1>5 DEF BuildNodes, Reference!vars

LEMMA MergeIsMergeBest ==
    ASSUME TokenizerInv, NEW e \in heap, MergePair(e)
    PROVE  Reference!MergeBest
<1> DEFINE i == e.index
           j == nodes[i].next
<1>1. TypeOK /\ NodesTilePiece /\ HeapCoversPairs /\ phase = "merge" /\ phase' = "merge"
  BY DEF TokenizerInv, MergeInv, MergePair
<1>2. /\ i \in DOMAIN nodes /\ Queued(nodes, i) /\ HasPair(nodes, i)
      /\ Entry(nodes, i).rank = e.rank /\ IsTop(e)
  BY <1>1 DEF HeapCoversPairs, MergePair, IsCurrent, Queued
<1>3. /\ nodes' = Joined(i) /\ DOMAIN nodes' = DOMAIN nodes
      /\ nodes'[i].active /\ ~nodes'[j].active /\ j # None
      /\ \A k \in DOMAIN nodes \ {i, j} : nodes'[k].active = nodes[k].active
  BY <1>1, <1>2, JoinedProperties DEF MergePair, HasPair
<1>4. curr = 1 /\ curr' = 1
  BY <1>1 DEF HeapCoversPairs, MergePair
<1> HIDE DEF i, j
<1>5. Pending = {k \in DOMAIN nodes : nodes[k].active}
  BY <1>1, <1>4, NodeFields DEF Pending
<1>6. Pending' = {k \in DOMAIN nodes : nodes'[k].active}
  BY <1>1, <1>2, <1>3, <1>4, NodeFields DEF Pending
<1>7. nodes[i].active /\ i \in Pending
  BY <1>2, <1>5 DEF Queued, HasPair
<1>8. Pending' = Pending \ {j}
  BY <1>3, <1>5, <1>6, <1>7
<1>9. Reference!End(i) = j
  BY <1>1, <1>3, <1>7, PartsAreNodes DEF j
<1>10. Reference!Mergeable(i) /\ ranks[Reference!Joined(i)] = e.rank
  BY <1>1, <1>2, <1>7, MergeableIsQueued DEF Entry
<1>11. ASSUME NEW t \in Pending, Reference!Mergeable(t)
       PROVE  Reference!Precedes(i, t)
  <2>1. Queued(nodes, t) /\ t \in DOMAIN nodes /\ Reference!Joined(t) = Candidate(nodes, t)
    BY <1>1, <1>5, <1>11, MergeableIsQueued
  <2>2. Entry(nodes, t) \in heap
    BY <1>1, <2>1 DEF HeapCoversPairs
  <2>3. Entry(nodes, t).rank = ranks[Reference!Joined(t)] /\ Entry(nodes, t).index = t
    BY <2>1 DEF Entry
  <2>4. QED
    BY <1>2, <1>10, <2>2, <2>3 DEF IsTop, Reference!Precedes, i
<1>12. UNCHANGED <<ranks, piece, out>> /\ (phase = "threw")' = (phase = "threw")
  BY <1>1 DEF MergePair
<1>13. QED
  BY <1>7, <1>8, <1>9, <1>10, <1>11, <1>12 DEF Reference!MergeBest

LEMMA PutOutIsPutOut ==
    ASSUME TokenizerInv, PutOut
    PROVE  Reference!PutOut \/ Reference!Fail
<1>1. /\ TypeOK /\ NodesTilePiece /\ HeapCoversPairs /\ phase = "merge" /\ heap = {}
      /\ UNCHANGED <<ranks, piece, nodes>>
  BY DEF TokenizerInv, MergeInv, PutOut
<1>2. curr \in DOMAIN nodes /\ nodes[curr].active /\ curr \in Nat
  BY <1>1, NodeFields DEF HeapCoversPairs
<1>3. Pending = {i \in DOMAIN nodes : nodes[i].active /\ i >= curr}
  BY <1>1 DEF Pending
<1>4. curr \in Pending /\ Reference!IsFirst(curr)
  BY <1>2, <1>3 DEF Reference!IsFirst
<1>5. \A t \in Pending : ~Reference!Mergeable(t)
  BY <1>1, <1>3, MergeableIsQueued DEF HeapCoversPairs
<1>6. Reference!Part(curr) = TokenOf(curr)
  <2>1. nodes[curr].start = curr
    BY <1>1, <1>2 DEF NodesTilePiece
  <2>2. Reference!End(curr) = curr + nodes[curr].len
    BY <1>1, <1>4, PartsAreNodes
  <2>3. Reference!Part(curr) = SubSeq(piece, curr, Reference!End(curr) - 1)
    BY DEF Reference!Part
  <2>4. TokenOf(curr) = SubSeq(piece, curr, curr + nodes[curr].len - 1)
    BY <2>1 DEF TokenOf
  <2>5. Reference!End(curr) - 1 = curr + nodes[curr].len - 1
    <3>1. curr \in Nat /\ nodes[curr].len \in Nat
      BY <1>1, <1>2, NodeFields
    <3>2. QED
      BY <2>2, <3>1
  <2>6. QED
    BY <2>3, <2>4, <2>5, Zenon
<1>7. CASE TokenOf(curr) \in DOMAIN ranks
  <2>1. /\ out' = Append(out, ranks[TokenOf(curr)])
        /\ curr' = nodes[curr].next
        /\ phase' = IF nodes[curr].next = None THEN "split" ELSE "merge"
    BY <1>2, <1>7 DEF PutOut
  <2>2. Pending' = Pending \ {curr}
    <3>1. CASE nodes[curr].next = None
      <4>1. Pending' = {}
        BY <2>1, <3>1 DEF Pending
      <4>2. \A k \in (curr + 1)..Len(nodes) : ~nodes[k].active
        BY <1>1, <1>2, <3>1 DEF NodesTilePiece, None
      <4>3. QED
        BY <1>1, <1>2, <1>3, <4>1, <4>2, NodeFields
    <3>2. CASE nodes[curr].next # None
      <4>1. /\ nodes[curr].next \in (curr + 1)..Len(nodes)
            /\ \A k \in (curr + 1)..(nodes[curr].next - 1) : ~nodes[k].active
        BY <1>1, <1>2, <3>2 DEF NodesTilePiece
      <4>2. Pending' = {i \in DOMAIN nodes : nodes[i].active /\ i >= nodes[curr].next}
        BY <1>1, <2>1, <3>2 DEF Pending
      <4>3. DOMAIN nodes = 1..Len(nodes) /\ Len(nodes) \in Nat
        BY <1>1, <1>2, NodeFields
      <4>4. QED
        BY <1>2, <1>3, <4>1, <4>2, <4>3
    <3>3. QED
      BY <3>1, <3>2
  <2>3. (phase = "threw")' = (phase = "threw")
    BY <1>1, <2>1
  <2>4. QED
    BY <1>1, <1>4, <1>5, <1>6, <1>7, <2>1, <2>2, <2>3 DEF Reference!PutOut
<1>8. CASE TokenOf(curr) \notin DOMAIN ranks
  <2>1. phase' = "threw" /\ UNCHANGED out
    BY <1>2, <1>8 DEF PutOut
  <2>2. Pending' = {}
    BY <2>1 DEF Pending
  <2>3. QED
    BY <1>1, <1>4, <1>5, <1>6, <1>8, <2>1, <2>2 DEF Reference!Fail
<1>9. QED
  BY <1>7, <1>8

LEMMA NextIsReferenceNext ==
    TokenizerInv /\ TokenizerInv' /\ [Next]_vars => [Reference!Next]_(Reference!vars)
<1>1. SUFFICES ASSUME TokenizerInv, TokenizerInv', [Next]_vars
               PROVE  Reference!Next \/ UNCHANGED Reference!vars
  BY DEF Reference!vars
<1>2. CASE RequireAscii
  BY <1>2 DEF RequireAscii, Pending, Reference!vars
<1>3. CASE TakePretoken
  BY <1>1, <1>3, TakeIsNewPiece DEF Reference!Next
<1>4. CASE Finish
  BY <1>4 DEF Finish, Pending, Reference!vars
<1>5. CASE EncodeByte
  BY <1>1, <1>5, ByteIsPutOut DEF Reference!Next
<1>6. CASE BuildNodes
  BY <1>1, <1>6, BuildIsStutter
<1>7. ASSUME NEW e \in heap, MergePair(e)
      PROVE  Reference!Next
  BY <1>1, <1>7, MergeIsMergeBest DEF Reference!Next
<1>8. ASSUME NEW e \in heap, DropStale(e)
      PROVE  UNCHANGED Reference!vars
  BY <1>8 DEF DropStale, Pending, Reference!vars
<1>9. CASE PutOut
  BY <1>1, <1>9, PutOutIsPutOut DEF Reference!Next
<1>10. CASE UNCHANGED vars
  BY <1>10 DEF vars, Pending, Reference!vars
<1>11. QED
  BY <1>1, <1>2, <1>3, <1>4, <1>5, <1>6, <1>7, <1>8, <1>9, <1>10 DEF Next

\* For every text and every table of ranks, the heap and the list give the merges
\* and the tokens that rescanning for the least pair gives.
THEOREM HeapMergeImplementsRescan == Spec => MergesLikeReference
<1>1. Init => TokenizerInv
  BY InitKeepsInv
<1>2. TokenizerInv /\ [Next]_vars => TokenizerInv'
  BY NextKeepsInv
<1>3. QED
  BY <1>1, <1>2, InitIsReferenceInit, NextIsReferenceNext, PTL
     DEF Spec, MergesLikeReference, Reference!Spec
-----------------------------------------------------------------------------
\* The split: each operator takes what its alternative of the pattern takes.

LEMMA ClassesDiffer ==
    /\ Apostrophe \in Symbols /\ Space \in Blanks /\ Apostrophe # Space
    /\ Letters \cap Digits = {} /\ Letters \cap Symbols = {}
    /\ Letters \cap Blanks = {} /\ Letters \cap Newlines = {}
    /\ Digits \cap Symbols = {} /\ Digits \cap Blanks = {} /\ Digits \cap Newlines = {}
    /\ Symbols \cap Blanks = {} /\ Symbols \cap Newlines = {}
    /\ Blanks \cap Newlines = {}
<1> DEFINE classes == <<Letters, Digits, Symbols, Blanks, Newlines>>
<1>1. DOMAIN classes = 1..5
  OBVIOUS
<1>2. /\ Apostrophe \in Symbols /\ Space \in Blanks
      /\ \A m, n \in DOMAIN classes : m # n => classes[m] \cap classes[n] = {}
  BY TokenizerAssumption
<1>3. /\ classes[1] = Letters /\ classes[2] = Digits /\ classes[3] = Symbols
      /\ classes[4] = Blanks /\ classes[5] = Newlines
  OBVIOUS
<1> HIDE DEF classes
<1>4. \A m, n \in 1..5 : m # n => classes[m] \cap classes[n] = {}
  BY <1>1, <1>2
<1>5. Apostrophe # Space
  BY DEF Apostrophe, Space
<1>6. QED
  BY <1>2, <1>3, <1>4, <1>5

\* Run(i, C) is the longest stretch of C at i.
LEMMA RunIsLongest ==
    ASSUME NEW B, text \in Seq(B), NEW i \in 1..(Len(text) + 1), NEW C
    PROVE  /\ Run(i, C) \in 0..(Len(text) + 1 - i)
           /\ \A k \in i..(i + Run(i, C) - 1) : text[k] \in C
           /\ i + Run(i, C) <= Len(text) => text[i + Run(i, C)] \notin C
           /\ \A n \in 0..(Len(text) + 1 - i) : AllIn(i, n, C) <=> n <= Run(i, C)
<1> DEFINE stops == {k \in i..Len(text) : text[k] \notin C}
           r == Run(i, C)
<1>1. Len(text) \in Nat
  OBVIOUS
<1>2. /\ r \in 0..(Len(text) + 1 - i)
      /\ \A k \in i..(i + r - 1) : text[k] \in C
      /\ i + r <= Len(text) => text[i + r] \notin C
  <2>1. CASE stops = {}
    <3>1. r = Len(text) + 1 - i
      BY <2>1 DEF Run
    <3> HIDE DEF r
    <3>2. QED
      BY <1>1, <2>1, <3>1
  <2>2. CASE stops # {}
    <3>1. stops \in SUBSET Nat
      BY <1>1
    <3>2. PICK m : m = Min(stops)
      OBVIOUS
    <3>3. r = m - i
      BY <2>2, <3>2 DEF Run
    <3>4. m \in stops /\ \A y \in stops : m <= y
      <4> HIDE DEF stops
      <4>1. QED
        BY <2>2, <3>1, <3>2, MinProperties
    <3> HIDE DEF r
    <3>5. m \in i..Len(text) /\ text[m] \notin C /\ i + r = m
      BY <1>1, <3>3, <3>4
    <3>6. \A k \in i..(m - 1) : text[k] \in C
      <4>1. TAKE k \in i..(m - 1)
      <4>2. k \in i..Len(text) /\ ~(m <= k)
        BY <1>1, <3>5
      <4>3. QED
        BY <3>4, <4>2
    <3>7. QED
      BY <1>1, <3>3, <3>5, <3>6
  <2>3. QED
    BY <2>1, <2>2
<1> HIDE DEF r
<1>3. ASSUME NEW n \in 0..(Len(text) + 1 - i)
      PROVE  AllIn(i, n, C) <=> n <= r
  <2>1. CASE n <= r
    BY <1>1, <1>2, <2>1 DEF AllIn
  <2>2. CASE ~(n <= r)
    <3>1. i + r <= Len(text) /\ i + r \in i..(i + n - 1)
      BY <1>1, <1>2, <2>2
    <3>2. QED
      BY <1>2, <2>2, <3>1 DEF AllIn
  <2>3. QED
    BY <2>1, <2>2
<1>4. QED
  BY <1>2, <1>3 DEF r

\* An alternative of the pattern takes n bytes, or does not match and n is 0.
Takes(S, n) == IF n = 0 THEN S = {} ELSE S # {} /\ Max(S) = n

LEMMA TakesIs ==
    ASSUME NEW S \in SUBSET (Nat \ {0}), NEW n \in Nat,
           \A y \in S : y <= n, n # 0 => n \in S
    PROVE  Takes(S, n)
<1>1. CASE n = 0
  BY <1>1 DEF Takes
<1>2. CASE n # 0
  <2>1. Max(S) = n
    BY <1>2, MaxIs
  <2>2. QED
    BY <1>2, <2>1 DEF Takes
<1>3. QED
  BY <1>1, <1>2

LEMMA ContractionTakes ==
    ASSUME text \in Seq(Bytes), NEW i \in 1..Len(text)
    PROVE  Takes(Alternatives(i)[1], Contraction(i))
<1> DEFINE lengths == 1..(Len(text) + 1 - i)
           S == {n \in lengths \cap {2} : text[i] = Apostrophe /\ text[i + 1] \in ShortEndings}
                  \cup {n \in lengths \cap {3} : /\ text[i] = Apostrophe
                                                 /\ <<text[i + 1], text[i + 2]>> \in LongEndings}
           n == Contraction(i)
<1>1. Alternatives(i)[1] = S
  BY DEF Alternatives
<1>2. Len(text) \in Nat
  OBVIOUS
<1>3. S \in SUBSET (Nat \ {0})
  BY <1>2
<1>4. <<text[i + 1], text[i + 2]>> \in LongEndings => text[i + 1] \notin ShortEndings
  BY DEF LongEndings, ShortEndings
<1>5. /\ n \in Nat
      /\ \A y \in S : y <= n
      /\ n # 0 => n \in S
  BY <1>2, <1>4 DEF Contraction
<1> HIDE DEF S, n
<1>6. Takes(S, n)
  BY <1>3, <1>5, TakesIs
<1>7. QED
  BY <1>1, <1>6 DEF n

LEMMA WordTakes ==
    ASSUME text \in Seq(Bytes), NEW i \in 1..Len(text)
    PROVE  Takes(Alternatives(i)[2], Word(i))
<1> DEFINE lengths == 1..(Len(text) + 1 - i)
           name == Letters \cup Digits
           S == {n \in lengths : \/ AllIn(i, n, Letters)
                                 \/ /\ n > 1 /\ text[i] \notin name \cup Newlines
                                    /\ AllIn(i + 1, n - 1, Letters)}
<1>1. Alternatives(i)[2] = S
  BY DEF Alternatives
<1>2. Len(text) \in Nat /\ i \in 1..(Len(text) + 1) /\ i + 1 \in 1..(Len(text) + 1)
  OBVIOUS
<1>3. S \in SUBSET (Nat \ {0})
  BY <1>2
<1>4. CASE text[i] \in Newlines \cup Letters \cup Digits
  <2> DEFINE m == Run(i, Letters)
  <2>1. /\ m \in 0..(Len(text) + 1 - i)
        /\ \A n \in 0..(Len(text) + 1 - i) : AllIn(i, n, Letters) <=> n <= m
    BY <1>2, RunIsLongest
  <2>2. Word(i) = m
    <3>1. i + 0 = i
      BY <1>2
    <3>2. Word(i) = IF m >= 1 THEN 0 + m ELSE 0
      BY <1>4, <3>1 DEF Word
    <3> HIDE DEF m
    <3>3. QED
      BY <1>2, <2>1, <3>2
  <2> HIDE DEF m
  <2>3. S = {n \in lengths : n <= m}
    BY <1>2, <1>4, <2>1
  <2>4. m \in Nat /\ (\A y \in S : y <= m) /\ (m # 0 => m \in S)
    <3> HIDE DEF S
    <3>1. QED
      BY <1>2, <2>1, <2>3
  <2> HIDE DEF S
  <2>5. Takes(S, m)
    BY <1>3, <2>4, TakesIs
  <2>6. QED
    BY <1>1, <2>2, <2>5
<1>5. CASE text[i] \notin Newlines \cup Letters \cup Digits
  <2> DEFINE m == Run(i + 1, Letters)
             w == IF m >= 1 THEN 1 + m ELSE 0
  <2>1. /\ m \in 0..(Len(text) - i)
        /\ \A n \in 0..(Len(text) - i) : AllIn(i + 1, n, Letters) <=> n <= m
    <3>1. Len(text) + 1 - (i + 1) = Len(text) - i
      BY <1>2
    <3>2. QED
      BY <1>2, <3>1, RunIsLongest
  <2>2. Word(i) = w
    BY <1>5 DEF Word
  <2> HIDE DEF m
  <2>3. \A n \in lengths : ~AllIn(i, n, Letters)
    BY <1>2, <1>5 DEF AllIn
  <2>4. S = {n \in lengths : n > 1 /\ n - 1 <= m}
    <3>1. \A n \in lengths : n > 1 => n - 1 \in 0..(Len(text) - i)
      BY <1>2
    <3>2. QED
      BY <1>5, <2>1, <2>3, <3>1
  <2>5. w \in Nat /\ (\A y \in S : y <= w) /\ (w # 0 => w \in S)
    <3> HIDE DEF S
    <3>1. QED
      BY <1>2, <2>1, <2>4
  <2> HIDE DEF S, w
  <2>6. Takes(S, w)
    BY <1>3, <2>5, TakesIs
  <2>7. QED
    BY <1>1, <2>2, <2>6
<1>6. QED
  BY <1>4, <1>5

LEMMA NumberTakes ==
    ASSUME text \in Seq(Bytes), NEW i \in 1..Len(text)
    PROVE  Takes(Alternatives(i)[3], Number(i))
<1> DEFINE lengths == 1..(Len(text) + 1 - i)
           S == {n \in lengths \cap 1..3 : AllIn(i, n, Digits)}
           m == Run(i, Digits)
           w == IF m < 3 THEN m ELSE 3
<1>1. Alternatives(i)[3] = S /\ Number(i) = w
  BY DEF Alternatives, Number
<1>2. Len(text) \in Nat /\ i \in 1..(Len(text) + 1)
  OBVIOUS
<1>3. S \in SUBSET (Nat \ {0})
  BY <1>2
<1>4. /\ m \in 0..(Len(text) + 1 - i)
      /\ \A n \in 0..(Len(text) + 1 - i) : AllIn(i, n, Digits) <=> n <= m
  BY <1>2, RunIsLongest
<1> HIDE DEF m
<1>5. S = {n \in lengths \cap 1..3 : n <= m}
  BY <1>2, <1>4
<1>6. w \in Nat /\ (\A y \in S : y <= w) /\ (w # 0 => w \in S)
  <2> HIDE DEF S
  <2>1. QED
    BY <1>2, <1>4, <1>5
<1> HIDE DEF S, w
<1>7. Takes(S, w)
  BY <1>3, <1>6, TakesIs
<1>8. QED
  BY <1>1, <1>7

LEMMA PunctuationTakes ==
    ASSUME text \in Seq(Bytes), NEW i \in 1..Len(text)
    PROVE  Takes(Alternatives(i)[4], Punctuation(i))
<1> DEFINE lengths == 1..(Len(text) + 1 - i)
           Fits(n, o, q) == /\ o = 1 => text[i] = Space
                            /\ o + q < n
                            /\ AllIn(i + o, n - o - q, Symbols)
                            /\ AllIn(i + n - q, q, Newlines)
           S == {n \in lengths : \E o \in 0..1, q \in 0..(n - 1) : Fits(n, o, q)}
           opt == IF text[i] = Space THEN 1 ELSE 0
           p == Run(i + opt, Symbols)
           t == Run(i + opt + p, Newlines)
           w == IF p >= 1 THEN opt + p + t ELSE 0
<1>1. Alternatives(i)[4] = S
  BY Zenon DEF Alternatives
<1>2. Punctuation(i) = w
  BY DEF Punctuation
<1>3. /\ Len(text) \in Nat /\ opt \in 0..1 /\ i + opt \in 1..(Len(text) + 1)
      /\ opt = 1 => text[i] = Space
      /\ opt = 0 => text[i] # Space
  OBVIOUS
<1>4. S \in SUBSET (Nat \ {0})
  BY <1>3
<1> HIDE DEF opt
<1>5. /\ p \in 0..(Len(text) + 1 - (i + opt))
      /\ \A n \in 0..(Len(text) + 1 - (i + opt)) : AllIn(i + opt, n, Symbols) <=> n <= p
      /\ i + opt + p <= Len(text) => text[i + opt + p] \notin Symbols
  BY <1>3, RunIsLongest
<1> HIDE DEF p
<1>6. i + opt + p \in 1..(Len(text) + 1)
  BY <1>3, <1>5
<1>7. /\ t \in 0..(Len(text) + 1 - (i + opt + p))
      /\ \A n \in 0..(Len(text) + 1 - (i + opt + p)) :
            AllIn(i + opt + p, n, Newlines) <=> n <= t
  BY <1>6, RunIsLongest
<1> HIDE DEF t
\* A blank is not a symbol, so the pattern has no choice but to take it.
<1>8. ASSUME NEW n \in lengths, NEW o \in 0..1, NEW q \in 0..(n - 1), Fits(n, o, q)
      PROVE  o = opt
  <2>1. CASE o = 1
    BY <1>3, <1>8, <2>1
  <2>2. CASE o = 0
    <3>1. i \in i..(i + (n - q) - 1) /\ i + o = i /\ n - o - q = n - q
      BY <1>3, <2>2
    <3>2. AllIn(i, n - q, Symbols)
      BY <1>8, <3>1
    <3>3. text[i] \in Symbols
      BY <3>1, <3>2 DEF AllIn
    <3>4. QED
      BY <1>3, <2>2, <3>3, ClassesDiffer
  <2>3. QED
    BY <2>1, <2>2
\* It takes newlines only after the last symbol.
<1>9. ASSUME NEW n \in lengths, NEW q \in 0..(n - 1), Fits(n, opt, q)
      PROVE  p >= 1 /\ n <= opt + p + t
  <2>1. n - opt - q \in 0..(Len(text) + 1 - (i + opt)) /\ opt + q < n
    BY <1>3, <1>9
  <2>2. n - opt - q <= p
    BY <1>5, <1>9, <2>1
  <2>3. CASE q = 0
    BY <1>3, <1>5, <1>7, <2>1, <2>2, <2>3
  <2>4. CASE q # 0
    <3>1. i + n - q \in (i + n - q)..(i + n - q + q - 1)
      BY <1>3, <2>4
    <3>2. text[i + n - q] \in Newlines
      BY <1>9, <3>1 DEF AllIn
    <3>3. n - opt - q + 1 \in 0..(Len(text) + 1 - (i + opt))
      BY <1>3, <2>1, <2>4
    <3>4. ~AllIn(i + opt, n - opt - q + 1, Symbols)
      <4>1. i + n - q \in (i + opt)..(i + opt + (n - opt - q + 1) - 1)
        BY <1>3, <2>1
      <4>2. QED
        BY <3>2, <4>1, ClassesDiffer DEF AllIn
    <3>5. n - opt - q = p
      BY <1>3, <1>5, <2>1, <2>2, <3>3, <3>4
    <3>6. i + n - q = i + opt + p /\ q \in 0..(Len(text) + 1 - (i + opt + p))
      BY <1>3, <1>5, <3>5
    <3>7. q <= t
      BY <1>7, <1>9, <3>6
    <3>8. QED
      BY <1>3, <1>5, <1>7, <2>1, <3>5, <3>7
  <2>5. QED
    BY <2>3, <2>4
<1>10. ASSUME p >= 1
       PROVE  opt + p + t \in S
  <2> DEFINE n == opt + p + t
  <2>1. /\ n \in lengths /\ t \in 0..(n - 1) /\ opt + t < n
        /\ n - opt - t = p /\ i + n - t = i + opt + p
    BY <1>3, <1>5, <1>7, <1>10
  <2>2. AllIn(i + opt, p, Symbols) /\ AllIn(i + opt + p, t, Newlines)
    BY <1>3, <1>5, <1>7
  <2> HIDE DEF n
  <2>3. Fits(n, opt, t)
    BY <1>3, <2>1, <2>2
  <2>4. QED
    BY <1>3, <2>1, <2>3 DEF n
<1>11. \A n \in S : p >= 1 /\ n <= opt + p + t
  <2> HIDE DEF Fits
  <2>1. QED
    BY <1>8, <1>9
<1> HIDE DEF S
<1>12. w \in Nat /\ (\A y \in S : y <= w) /\ (w # 0 => w \in S)
  BY <1>3, <1>5, <1>7, <1>10, <1>11
<1> HIDE DEF w
<1>13. Takes(S, w)
  BY <1>4, <1>12, TakesIs
<1>14. QED
  BY <1>1, <1>2, <1>13

LEMMA NoRun ==
    ASSUME text \in Seq(Bytes), NEW i \in 1..Len(text), NEW C
    PROVE  Run(i, C) = 0 <=> text[i] \notin C
<1>1. Len(text) \in Nat /\ i \in 1..(Len(text) + 1)
  OBVIOUS
<1> DEFINE r == Run(i, C)
<1>2. /\ r \in 0..(Len(text) + 1 - i)
      /\ \A k \in i..(i + r - 1) : text[k] \in C
      /\ i + r <= Len(text) => text[i + r] \notin C
  BY <1>1, RunIsLongest
<1> HIDE DEF r
<1>3. r = 0 => i + r = i
  BY <1>1
<1>4. r # 0 => i \in i..(i + r - 1)
  BY <1>1, <1>2
<1>5. QED
  BY <1>1, <1>2, <1>3, <1>4 DEF r

\* An indent is left to the white space.
LEMMA IndentIsWhitespace ==
    ASSUME text \in Seq(Bytes), NEW i \in 1..Len(text), IsIndent(i)
    PROVE  Contraction(i) = 0 /\ Word(i) = 0 /\ Number(i) = 0 /\ Punctuation(i) = 0
<1>1. Len(text) \in Nat /\ i \in 1..(Len(text) + 1)
  OBVIOUS
<1>2. text[i] \in Blanks /\ i + 1 \in 1..Len(text) /\ text[i + 1] \in Blanks
  <2> DEFINE r == Run(i, Blanks)
  <2>1. /\ r \in 0..(Len(text) + 1 - i)
        /\ \A k \in i..(i + r - 1) : text[k] \in Blanks
    BY <1>1, RunIsLongest
  <2>2. r >= 2
    BY DEF IsIndent
  <2> HIDE DEF r
  <2>3. i \in i..(i + r - 1) /\ i + 1 \in i..(i + r - 1) /\ i + 1 \in 1..Len(text)
    BY <1>1, <2>1, <2>2
  <2>4. QED
    BY <2>1, <2>3
<1>3. Contraction(i) = 0
  BY <1>2, ClassesDiffer DEF Contraction
<1>4. Word(i) = 0
  <2>1. text[i] \notin Newlines \cup Letters \cup Digits /\ text[i + 1] \notin Letters
    BY <1>2, ClassesDiffer
  <2>2. Run(i + 1, Letters) = 0
    BY <1>2, <2>1, NoRun
  <2>3. QED
    BY <2>1, <2>2 DEF Word
<1>5. Number(i) = 0
  <2>1. Run(i, Digits) = 0
    BY <1>2, ClassesDiffer, NoRun
  <2>2. QED
    BY <2>1 DEF Number
<1>6. Punctuation(i) = 0
  <2>1. Run(i + 1, Symbols) = 0 /\ Run(i, Symbols) = 0 /\ i + 0 = i
    BY <1>1, <1>2, ClassesDiffer, NoRun
  <2>2. QED
    BY <2>1 DEF Punctuation
<1>7. QED
  BY <1>3, <1>4, <1>5, <1>6

\* White space is the last choice, and takes one blank more than the pattern
\* exactly where it begins an indent.
LEMMA WhitespaceTakes ==
    ASSUME text \in Seq(Bytes), NEW i \in 1..Len(text)
    PROVE  LET A == Alternatives(i)
               w == Whitespace(i)
               more == IF IsIndent(i) THEN 1 ELSE 0
           IN  /\ text[i] \notin Spaces => w = 0
               /\ text[i] \in Spaces =>
                    /\ w - more \in Nat \ {0}
                    /\ \/ Takes(A[5], w - more)
                       \/ Takes(A[5], 0) /\ Takes(A[6], w - more)
                       \/ Takes(A[5], 0) /\ Takes(A[6], 0) /\ Takes(A[7], w - more)
<1> DEFINE lengths == 1..(Len(text) + 1 - i)
           run == Run(i, Spaces)
           newlines == {k \in i..(i + run - 1) : text[k] \in Newlines}
           S5 == {n \in lengths : AllIn(i, n, Spaces) /\ text[i + n - 1] \in Newlines}
           S6 == {n \in lengths : AllIn(i, n, Spaces)
                                    /\ (i + n > Len(text) \/ text[i + n] \in Spaces)}
           S7 == {n \in lengths : AllIn(i, n, Spaces)}
           w == Whitespace(i)
           more == IF IsIndent(i) THEN 1 ELSE 0
<1>1. Alternatives(i)[5] = S5 /\ Alternatives(i)[6] = S6 /\ Alternatives(i)[7] = S7
  BY DEF Alternatives
<1>2. Len(text) \in Nat /\ i \in 1..(Len(text) + 1)
  OBVIOUS
<1>3. w = IF newlines = {} THEN run ELSE Max(newlines) - i + 1
  BY DEF Whitespace
<1>4. run = 0 <=> text[i] \notin Spaces
  BY NoRun
<1>5. /\ run \in 0..(Len(text) + 1 - i)
      /\ \A k \in i..(i + run - 1) : text[k] \in Spaces
      /\ i + run <= Len(text) => text[i + run] \notin Spaces
      /\ \A n \in 0..(Len(text) + 1 - i) : AllIn(i, n, Spaces) <=> n <= run
  BY <1>2, RunIsLongest
<1> HIDE DEF run
<1>6. CASE text[i] \notin Spaces
  <2>1. newlines = {}
    BY <1>2, <1>4, <1>6
  <2>2. QED
    BY <1>3, <1>4, <1>6, <2>1
<1>7. CASE text[i] \in Spaces
  <2>0. run >= 1 /\ run \in lengths
    BY <1>2, <1>4, <1>5, <1>7
  <2>1. /\ S5 = {n \in lengths : n <= run /\ text[i + n - 1] \in Newlines}
        /\ S6 = {n \in lengths : n <= run /\ (i + n > Len(text) \/ text[i + n] \in Spaces)}
        /\ S7 = {n \in lengths : n <= run}
    BY <1>2, <1>5
  <2>2. S5 \in SUBSET (Nat \ {0}) /\ S6 \in SUBSET (Nat \ {0}) /\ S7 \in SUBSET (Nat \ {0})
    BY <1>2
  <2> DEFINE blanks == Run(i, Blanks)
  <2>3. /\ blanks \in 0..(Len(text) + 1 - i)
        /\ \A k \in i..(i + blanks - 1) : text[k] \in Blanks
        /\ i + blanks <= Len(text) => text[i + blanks] \notin Blanks
        /\ \A n \in 0..(Len(text) + 1 - i) : AllIn(i, n, Blanks) <=> n <= blanks
    BY <1>2, RunIsLongest
  <2>4. IsIndent(i) <=> /\ blanks >= 2 /\ i + blanks <= Len(text)
                        /\ text[i + blanks] \notin Spaces
    BY DEF IsIndent
  <2> HIDE DEF blanks
  <2>5. CASE newlines # {}
    <3> DEFINE m == Max(newlines)
    <3>1. newlines \in SUBSET (0..Len(text))
      BY <1>2, <1>5
    <3>2. m \in newlines /\ \A y \in newlines : y <= m
      <4> HIDE DEF newlines
      <4>1. QED
        BY <1>2, <2>5, <3>1, MaxProperties
    <3>3. w = m - i + 1
      BY <1>3, <2>5
    <3> HIDE DEF m
    <3>4. m \in i..(i + run - 1) /\ text[m] \in Newlines
      BY <3>2
    <3>5. ~IsIndent(i)
      <4>1. SUFFICES ASSUME IsIndent(i) PROVE FALSE
        OBVIOUS
      <4>2. m \notin i..(i + blanks - 1)
        BY <2>3, <3>4, ClassesDiffer
      <4>3. i + blanks \in i..(i + run - 1)
        BY <1>2, <1>5, <2>3, <3>4, <4>2
      <4>4. QED
        BY <1>5, <2>4, <4>1, <4>3
    <3>6. w \in S5 /\ w # 0 /\ w \in Nat
      <4>1. w \in lengths /\ w <= run /\ i + w - 1 = m /\ w # 0 /\ w \in Nat
        BY <1>2, <1>5, <3>3, <3>4
      <4> HIDE DEF w
      <4>2. QED
        BY <2>1, <3>4, <4>1
    <3>7. \A y \in S5 : y <= w
      <4>1. TAKE y \in S5
      <4>2. y \in lengths /\ y <= run /\ text[i + y - 1] \in Newlines
        BY <2>1
      <4>3. i + y - 1 \in i..(i + run - 1)
        BY <1>2, <1>5, <4>2
      <4>4. i + y - 1 <= m
        BY <3>2, <4>2, <4>3
      <4>5. QED
        BY <1>2, <3>3, <3>4, <4>2, <4>4, <1>5
    <3> HIDE DEF w, S5
    <3>8. Takes(S5, w)
      BY <2>2, <3>6, <3>7, TakesIs
    <3>9. w - more = w
      BY <3>5, <3>6
    <3>10. QED
      BY <1>1, <1>7, <3>6, <3>8, <3>9 DEF w
  <2>6. CASE newlines = {}
    <3>1. w = run
      BY <1>3, <2>6
    <3>2. \A k \in i..(i + run - 1) : text[k] \in Blanks
      BY <1>5, <2>6 DEF Spaces
    <3>3. S5 = {}
      <4>1. \A n \in lengths : n <= run => i + n - 1 \in i..(i + run - 1)
        BY <1>2, <1>5
      <4>2. \A n \in lengths : n <= run => text[i + n - 1] \notin Newlines
        BY <2>6, <4>1
      <4>3. QED
        BY <2>1, <4>2
    <3>4. Takes(S5, 0)
      BY <3>3 DEF Takes
    <3>5. blanks = run
      <4>1. AllIn(i, run, Blanks)
        BY <3>2 DEF AllIn
      <4>2. run <= blanks
        BY <1>5, <2>3, <4>1
      <4>3. AllIn(i, blanks, Spaces)
        BY <2>3 DEF AllIn, Spaces
      <4>4. blanks <= run
        BY <1>5, <2>3, <4>3
      <4>5. QED
        BY <1>5, <2>3, <4>2, <4>4
    <3>6. CASE i + run > Len(text)
      <4>1. ~IsIndent(i)
        BY <1>2, <1>5, <2>4, <3>5, <3>6
      <4>2. run \in S6 /\ \A y \in S6 : y <= run
        BY <2>0, <2>1, <3>6
      <4> HIDE DEF S6
      <4>3. Takes(S6, run)
        BY <1>5, <2>2, <4>2, TakesIs
      <4>4. w - more = run /\ run \in Nat \ {0}
        BY <1>5, <2>0, <3>1, <4>1
      <4> HIDE DEF w, more
      <4>5. Takes(S6, w - more)
        BY <4>3, <4>4
      <4>6. QED
        BY <1>1, <1>7, <3>4, <4>4, <4>5 DEF w, more
    <3>7. CASE ~(i + run > Len(text))
      <4>1. text[i + run] \notin Spaces
        BY <1>2, <1>5, <3>7
      <4>2. IsIndent(i) <=> run >= 2
        BY <1>2, <1>5, <2>4, <3>5, <3>7, <4>1
      <4>3. CASE run >= 2
        <5>1. i + (run - 1) \in i..(i + run - 1) /\ run - 1 \in lengths
          BY <1>2, <1>5, <4>3
        <5>2. run - 1 \in S6
          BY <1>5, <2>1, <5>1
        <5>3. \A y \in S6 : y <= run - 1
          <6>1. TAKE y \in S6
          <6>2. y \in lengths /\ y <= run /\ (i + y > Len(text) \/ text[i + y] \in Spaces)
            BY <2>1
          <6>3. y # run
            BY <3>7, <4>1, <6>2
          <6>4. QED
            BY <1>2, <1>5, <6>2, <6>3
        <5> HIDE DEF S6
        <5>4. run - 1 \in Nat \ {0}
          BY <1>5, <4>3
        <5>5. Takes(S6, run - 1)
          BY <2>2, <5>2, <5>3, <5>4, TakesIs
        <5>6. w - more = run - 1
          BY <3>1, <4>2, <4>3
        <5> HIDE DEF w, more
        <5>7. Takes(S6, w - more) /\ w - more \in Nat \ {0}
          BY <5>4, <5>5, <5>6
        <5>8. QED
          BY <1>1, <1>7, <3>4, <5>7 DEF w, more
      <4>4. CASE ~(run >= 2)
        <5>1. run = 1
          BY <1>5, <2>0, <4>4
        <5>2. S6 = {}
          BY <1>2, <2>1, <3>7, <4>1, <5>1
        <5>3. Takes(S6, 0)
          BY <5>2 DEF Takes
        <5>4. run \in S7 /\ \A y \in S7 : y <= run
          BY <1>2, <1>5, <2>0, <2>1
        <5> HIDE DEF S6, S7
        <5>5. Takes(S7, run)
          BY <1>5, <2>2, <5>4, TakesIs
        <5>6. w - more = run /\ run \in Nat \ {0}
          BY <3>1, <4>2, <4>4, <5>1
        <5> HIDE DEF w, more
        <5>7. Takes(S7, w - more) /\ w - more \in Nat \ {0}
          BY <5>5, <5>6
        <5>8. QED
          BY <1>1, <1>7, <3>4, <5>3, <5>7 DEF w, more
      <4>5. QED
        BY <4>3, <4>4
    <3>8. QED
      BY <3>6, <3>7
  <2>7. QED
    BY <2>5, <2>6
<1>8. QED
  BY <1>6, <1>7

\* The pattern takes what its first matching alternative takes.
LEMMA PatternLengthIs ==
    ASSUME NEW i, NEW k \in 1..7, NEW n, n # 0, Takes(Alternatives(i)[k], n),
           \A j \in 1..(k - 1) : Takes(Alternatives(i)[j], 0)
    PROVE  PatternLength(i) = n
<1> DEFINE A == Alternatives(i)
           I == {j \in 1..Len(A) : A[j] # {}}
<1>1. Len(A) = 7
  BY DEF Alternatives
<1>2. PatternLength(i) = Max(A[IF I # {} THEN Min(I) ELSE 0])
  BY Zenon DEF PatternLength, SelectInSeq
<1> HIDE DEF A
<1>3. A[k] # {} /\ Max(A[k]) = n /\ \A j \in 1..(k - 1) : A[j] = {}
  BY DEF A, Takes
<1>4. k \in I /\ I \in SUBSET Nat
  BY <1>1, <1>3
<1>5. \A j \in I : k <= j
  BY <1>1, <1>3
<1> HIDE DEF I
<1>6. PICK m : m = Min(I)
  OBVIOUS
<1>7. m \in I /\ \A j \in I : m <= j
  BY <1>4, <1>6, MinProperties
<1>8. m = k
  BY <1>4, <1>5, <1>7
<1>9. QED
  BY <1>2, <1>3, <1>4, <1>6, <1>8

LEMMA LengthsAreNumbers ==
    ASSUME text \in Seq(Bytes), NEW i \in 1..Len(text)
    PROVE  /\ Contraction(i) \in Nat /\ Word(i) \in Nat /\ Number(i) \in Nat
           /\ Punctuation(i) \in Nat /\ Whitespace(i) \in Nat
<1>1. Len(text) \in Nat /\ i \in Nat
  OBVIOUS
<1>2. PretokenFits(i, Contraction(i)) /\ PretokenFits(i, Word(i)) /\ PretokenFits(i, Number(i))
  BY AlternativesFit
<1>3. PretokenFits(i, Punctuation(i)) /\ PretokenFits(i, Whitespace(i))
  BY AlternativesFit
<1>4. QED
  BY <1>1, <1>2, <1>3 DEF PretokenFits

\* An ASCII byte begins some alternative.
LEMMA SomethingMatches ==
    ASSUME text \in Seq(Bytes), NEW i \in 1..Len(text)
    PROVE  text[i] \in Spaces \/ Word(i) # 0 \/ Number(i) # 0 \/ Punctuation(i) # 0
<1>1. Len(text) \in Nat /\ i \in 1..(Len(text) + 1) /\ text[i] \in Bytes /\ i + 0 = i
  OBVIOUS
<1>2. CASE text[i] \in Letters
  <2>1. Run(i, Letters) \in 0..(Len(text) + 1 - i) /\ Run(i, Letters) # 0
    BY <1>1, <1>2, RunProperties, NoRun
  <2>2. Word(i) = IF Run(i, Letters) >= 1 THEN 0 + Run(i, Letters) ELSE 0
    BY <1>1, <1>2 DEF Word
  <2>3. QED
    BY <1>1, <2>1, <2>2
<1>3. CASE text[i] \in Digits
  <2>1. Run(i, Digits) \in 0..(Len(text) + 1 - i) /\ Run(i, Digits) # 0
    BY <1>1, <1>3, RunProperties, NoRun
  <2>2. QED
    BY <1>1, <2>1 DEF Number
<1>4. CASE text[i] \in Symbols
  <2>1. Run(i, Symbols) \in 0..(Len(text) + 1 - i) /\ Run(i, Symbols) # 0 /\ text[i] # Space
    BY <1>1, <1>4, RunProperties, NoRun, ClassesDiffer
  <2> DEFINE t == Run(i + Run(i, Symbols), Newlines)
  <2>2. i + Run(i, Symbols) \in 1..(Len(text) + 1)
    BY <1>1, <2>1
  <2>3. t \in 0..(Len(text) + 1 - (i + Run(i, Symbols)))
    BY <2>2, RunProperties
  <2>4. Punctuation(i) = IF Run(i, Symbols) >= 1 THEN 0 + Run(i, Symbols) + t ELSE 0
    BY <1>1, <2>1 DEF Punctuation
  <2>5. QED
    <3> HIDE DEF t
    <3>1. QED
      BY <1>1, <2>1, <2>3, <2>4
<1>5. QED
  BY <1>1, <1>2, <1>3, <1>4 DEF Bytes

\* At any place in an ASCII text.
LEMMA SplitsLikePattern ==
    ASSUME text \in Seq(Bytes), NEW i \in 1..Len(text)
    PROVE  next_pretoken(i) = PatternLength(i) + (IF IsIndent(i) THEN 1 ELSE 0)
<1> DEFINE more == IF IsIndent(i) THEN 1 ELSE 0
           A == Alternatives(i)
<1>1. /\ Takes(A[1], Contraction(i)) /\ Takes(A[2], Word(i))
      /\ Takes(A[3], Number(i)) /\ Takes(A[4], Punctuation(i))
  BY ContractionTakes, WordTakes, NumberTakes, PunctuationTakes
<1>2. /\ Contraction(i) \in Nat /\ Word(i) \in Nat /\ Number(i) \in Nat
      /\ Punctuation(i) \in Nat /\ Whitespace(i) \in Nat
  BY LengthsAreNumbers
<1>3. IsIndent(i) => /\ Contraction(i) = 0 /\ Word(i) = 0 /\ Number(i) = 0
                     /\ Punctuation(i) = 0
  BY IndentIsWhitespace
<1>4. /\ text[i] \notin Spaces => Whitespace(i) = 0
      /\ text[i] \in Spaces =>
           /\ Whitespace(i) - more \in Nat \ {0}
           /\ \/ Takes(A[5], Whitespace(i) - more)
              \/ Takes(A[5], 0) /\ Takes(A[6], Whitespace(i) - more)
              \/ Takes(A[5], 0) /\ Takes(A[6], 0) /\ Takes(A[7], Whitespace(i) - more)
  BY WhitespaceTakes
<1>5. text[i] \in Spaces \/ Word(i) # 0 \/ Number(i) # 0 \/ Punctuation(i) # 0
  BY SomethingMatches
<1>6. \A n : \A k \in 1..7 : n # 0 /\ Takes(A[k], n) /\ (\A j \in 1..(k - 1) : Takes(A[j], 0))
             => PatternLength(i) = n
  BY PatternLengthIs
<1>7. more \in {0, 1} /\ (~IsIndent(i) => more = 0)
  OBVIOUS
<1> HIDE DEF A
<1>8. CASE Contraction(i) # 0
  <2>1. PatternLength(i) = Contraction(i)
    BY <1>1, <1>6, <1>8
  <2>2. next_pretoken(i) = Contraction(i) /\ ~IsIndent(i)
    BY <1>2, <1>3, <1>8 DEF next_pretoken
  <2>3. QED
    BY <1>2, <2>1, <2>2
<1>9. CASE Contraction(i) = 0 /\ Word(i) # 0
  <2>1. PatternLength(i) = Word(i)
    <3>1. \A j \in 1..(2 - 1) : Takes(A[j], 0)
      BY <1>1, <1>9
    <3>2. QED
      BY <1>1, <1>6, <1>9, <3>1
  <2>2. next_pretoken(i) = Word(i) /\ ~IsIndent(i)
    BY <1>2, <1>3, <1>9 DEF next_pretoken
  <2>3. QED
    BY <1>2, <2>1, <2>2
<1>10. CASE Contraction(i) = 0 /\ Word(i) = 0 /\ Number(i) # 0
  <2>1. PatternLength(i) = Number(i)
    <3>1. \A j \in 1..(3 - 1) : Takes(A[j], 0)
      BY <1>1, <1>10
    <3>2. QED
      BY <1>1, <1>6, <1>10, <3>1
  <2>2. next_pretoken(i) = Number(i) /\ ~IsIndent(i)
    BY <1>2, <1>3, <1>10 DEF next_pretoken
  <2>3. QED
    BY <1>2, <2>1, <2>2
<1>11. CASE Contraction(i) = 0 /\ Word(i) = 0 /\ Number(i) = 0 /\ Punctuation(i) # 0
  <2>1. PatternLength(i) = Punctuation(i)
    <3>1. \A j \in 1..(4 - 1) : Takes(A[j], 0)
      BY <1>1, <1>11
    <3>2. QED
      BY <1>1, <1>6, <1>11, <3>1
  <2>2. next_pretoken(i) = Punctuation(i) /\ ~IsIndent(i)
    BY <1>2, <1>3, <1>11 DEF next_pretoken
  <2>3. QED
    BY <1>2, <2>1, <2>2
<1>12. CASE Contraction(i) = 0 /\ Word(i) = 0 /\ Number(i) = 0 /\ Punctuation(i) = 0
  <2> DEFINE n == Whitespace(i) - more
  <2>1. /\ n \in Nat \ {0}
        /\ \/ Takes(A[5], n)
           \/ Takes(A[5], 0) /\ Takes(A[6], n)
           \/ Takes(A[5], 0) /\ Takes(A[6], 0) /\ Takes(A[7], n)
    BY <1>4, <1>5, <1>12
  <2>2. Whitespace(i) = n + more /\ Whitespace(i) > 0
    <3> HIDE DEF more
    <3>1. QED
      BY <1>2, <1>7, <2>1
  <2>3. next_pretoken(i) = Whitespace(i)
    BY <1>12, <2>2 DEF next_pretoken
  <2> HIDE DEF n, more
  <2>4. PatternLength(i) = n
    <3>1. \A j \in 1..4 : Takes(A[j], 0)
      BY <1>1, <1>12
    <3>2. CASE Takes(A[5], n)
      <4>1. \A j \in 1..(5 - 1) : Takes(A[j], 0)
        BY <3>1
      <4>2. QED
        BY <1>6, <2>1, <3>2, <4>1
    <3>3. CASE Takes(A[5], 0) /\ Takes(A[6], n)
      <4>1. \A j \in 1..(6 - 1) : Takes(A[j], 0)
        BY <3>1, <3>3
      <4>2. QED
        BY <1>6, <2>1, <3>3, <4>1
    <3>4. CASE Takes(A[5], 0) /\ Takes(A[6], 0) /\ Takes(A[7], n)
      <4>1. \A j \in 1..(7 - 1) : Takes(A[j], 0)
        BY <3>1, <3>4
      <4>2. QED
        BY <1>6, <2>1, <3>4, <4>1
    <3>5. QED
      BY <2>1, <3>2, <3>3, <3>4
  <2>5. QED
    BY <2>2, <2>3, <2>4 DEF more
<1>13. QED
  BY <1>8, <1>9, <1>10, <1>11, <1>12

\* For every text, each pre-token is what the pattern quoted in the source takes,
\* but for the indents.
THEOREM SplitIsPatternUpToIndents == Spec => []SplitFollowsPatternUpToIndents
<1>1. TokenizerInv => SplitFollowsPatternUpToIndents
  <2>1. SUFFICES ASSUME TokenizerInv, phase = "split", at <= Len(text)
                 PROVE  next_pretoken(at) = PatternLength(at) + (IF IsIndent(at) THEN 1 ELSE 0)
    BY DEF SplitFollowsPatternUpToIndents
  <2>2. text \in Seq(Bytes) /\ at \in 1..Len(text)
    BY <2>1 DEF TokenizerInv, TypeOK, SplitInv
  <2>3. QED
    BY <2>2, SplitsLikePattern
<1>2. QED
  BY InitKeepsInv, NextKeepsInv, <1>1, PTL DEF Spec

-----------------------------------------------------------------------------
\* The text: sequences first.

\* Sequences with the same elements are the same.
LEMMA SameSequence ==
    ASSUME NEW S, NEW s \in Seq(S), NEW t \in Seq(S), Len(s) = Len(t),
           \A k \in 1..Len(s) : s[k] = t[k]
    PROVE  s = t
<1>1. s = [k \in 1..Len(s) |-> s[k]] /\ t = [k \in 1..Len(s) |-> t[k]]
  OBVIOUS
<1>2. QED
  BY <1>1

\* Two parts that touch join to one.
LEMMA SubSeqsJoin ==
    ASSUME NEW S, NEW s \in Seq(S), NEW a \in 1..(Len(s) + 1), NEW b \in (a - 1)..Len(s),
           NEW c \in b..Len(s)
    PROVE  /\ SubSeq(s, a, b) \in Seq(S) /\ SubSeq(s, b + 1, c) \in Seq(S)
           /\ SubSeq(s, a, b) \o SubSeq(s, b + 1, c) = SubSeq(s, a, c)
<1>1. Len(s) \in Nat /\ b + 1 \in 1..(Len(s) + 1) /\ c \in (b + 1 - 1)..Len(s)
      /\ c \in (a - 1)..Len(s)
  OBVIOUS
<1> DEFINE u == SubSeq(s, a, b)
           v == SubSeq(s, b + 1, c)
           w == SubSeq(s, a, c)
<1>2. /\ u \in Seq(S) /\ Len(u) = b - a + 1
      /\ v \in Seq(S) /\ Len(v) = c - (b + 1) + 1
      /\ w \in Seq(S) /\ Len(w) = c - a + 1
  BY <1>1, SubSeqProperties
<1>3. /\ \A k \in 1..(b - a + 1) : u[k] = s[a + k - 1]
      /\ \A k \in 1..(c - b) : v[k] = s[b + 1 + k - 1]
      /\ \A k \in 1..(c - a + 1) : w[k] = s[a + k - 1]
  BY <1>1
<1> HIDE DEF u, v, w
<1>4. Len(u \o v) = Len(w) /\ u \o v \in Seq(S)
  BY <1>1, <1>2
<1>5. ASSUME NEW k \in 1..Len(w) PROVE (u \o v)[k] = w[k]
  <2>1. CASE k <= b - a + 1
    <3>1. (u \o v)[k] = u[k]
      BY <1>1, <1>2, <2>1
    <3>2. k \in 1..(b - a + 1) /\ k \in 1..(c - a + 1)
      BY <1>1, <1>2, <2>1
    <3>3. u[k] = s[a + k - 1] /\ w[k] = s[a + k - 1]
      BY <1>3, <3>2
    <3>4. QED
      BY <3>1, <3>3
  <2>2. CASE ~(k <= b - a + 1)
    <3>1. (u \o v)[k] = v[k - Len(u)]
      <4>1. k \in (Len(u) + 1)..(Len(u) + Len(v))
        BY <1>1, <1>2, <2>2
      <4>2. QED
        BY <1>2, <4>1
    <3>2. k - Len(u) \in 1..(c - b) /\ b + 1 + (k - Len(u)) - 1 = a + k - 1
      BY <1>1, <1>2, <2>2
    <3>3. QED
      BY <1>2, <1>3, <3>1, <3>2
  <2>3. QED
    BY <2>1, <2>2
<1>6. u \o v = w
  <2>1. \A k \in 1..Len(u \o v) : (u \o v)[k] = w[k]
    BY <1>4, <1>5
  <2>2. QED
    BY <1>2, <1>4, <2>1, SameSequence
<1>7. QED
  BY <1>2, <1>6 DEF u, v, w

LEMMA ConcatIsAssociative ==
    ASSUME NEW S, NEW s \in Seq(S), NEW t \in Seq(S), NEW u \in Seq(S)
    PROVE  (s \o t) \o u = s \o (t \o u)
<1> DEFINE l == (s \o t) \o u
           r == s \o (t \o u)
<1>1. Len(s) \in Nat /\ Len(t) \in Nat /\ Len(u) \in Nat
  OBVIOUS
<1>2. l \in Seq(S) /\ r \in Seq(S) /\ Len(l) = Len(s) + Len(t) + Len(u) /\ Len(r) = Len(l)
  BY <1>1
<1>3. \A k \in 1..Len(l) : l[k] = r[k]
  BY <1>1
<1> HIDE DEF l, r
<1>4. l = r
  BY <1>2, <1>3, SameSequence
<1>5. QED
  BY <1>4 DEF l, r

\* Concat() joins one word after the other.
LEMMA ConcatSteps ==
    ASSUME NEW A, NEW words \in Seq(Seq(A))
    PROVE  \E r \in [0..Len(words) -> Seq(A)] :
              /\ r[0] = <<>>
              /\ \A k \in 1..Len(words) : r[k] = r[k - 1] \o words[k]
              /\ Concat(words) = r[Len(words)]
<1> DEFINE n == Len(words)
           T == Seq(A)
           Folds(f) == f = [s \in SUBSET DOMAIN words |->
                              IF s = {} THEN <<>> ELSE f[s \ {Max(s)}] \o words[Max(s)]]
           iter == CHOOSE f : Folds(f)
           g == [p \in (1..n) \X T |-> p[2] \o words[p[1]]]
<1>1. n \in Nat /\ DOMAIN words = 1..n /\ \A k \in 1..n : words[k] \in T
  OBVIOUS
<1>2. Concat(words) = iter[DOMAIN words]
  BY Zenon DEF Concat, FoldLeft, MapThenFoldSet
<1>3. \E f : Folds(f)
  <2>1. g \in [(1..n) \X T -> T] /\ <<>> \in T
    BY <1>1
  <2>2. \A k \in 1..n, x \in T : g[<<k, x>>] = x \o words[k]
    OBVIOUS
  <2> HIDE DEF g, n, T
  <2>3. PICK f \in [SUBSET (1..n) -> T] : IsFold(f, n, <<>>, g)
    BY <1>1, <2>1, FoldExists
  <2>4. ASSUME NEW s \in SUBSET (1..n)
        PROVE  f[s] = IF s = {} THEN <<>> ELSE f[s \ {Max(s)}] \o words[Max(s)]
    <3>1. CASE s = {}
      BY <2>3, <3>1 DEF IsFold
    <3>2. CASE s # {}
      <4>1. s \in SUBSET (0..n)
        BY <1>1
      <4>2. Max(s) \in s
        BY <1>1, <3>2, <4>1, MaxProperties
      <4>3. f[s \ {Max(s)}] \in T /\ Max(s) \in 1..n
        BY <4>2
      <4>4. f[s] = g[<<Max(s), f[s \ {Max(s)}]>>]
        BY <2>3, <3>2 DEF IsFold
      <4>5. QED
        BY <2>2, <3>2, <4>3, <4>4
    <3>3. QED
      BY <3>1, <3>2
  <2>5. f = [s \in SUBSET (1..n) |-> f[s]]
    OBVIOUS
  <2>6. Folds(f)
    BY <1>1, <2>4, <2>5
  <2>7. QED
    BY <2>6
<1>4. Folds(iter)
  <2> HIDE DEF Folds
  <2>1. QED
    BY <1>3
<1>5. \A s \in SUBSET (1..n) :
         iter[s] = IF s = {} THEN <<>> ELSE iter[s \ {Max(s)}] \o words[Max(s)]
  <2> HIDE DEF iter
  <2>1. QED
    BY <1>1, <1>4
<1> HIDE DEF iter, T, n, g
<1> DEFINE r == [k \in 0..n |-> iter[1..k]]
<1>6. r[0] = <<>> /\ r[n] = Concat(words)
  <2>1. 1..0 = {} /\ {} \in SUBSET (1..n) /\ 0 \in 0..n /\ n \in 0..n
    BY <1>1
  <2>2. iter[{}] = <<>>
    BY <1>5, <2>1
  <2>3. r[0] = iter[{}] /\ r[n] = iter[1..n]
    BY <2>1
  <2>4. QED
    BY <1>1, <1>2, <2>2, <2>3
<1>7. \A k \in 1..n : r[k] = r[k - 1] \o words[k]
  <2> TAKE k \in 1..n
  <2>1. 1..k \in SUBSET (1..n) /\ 1..k # {} /\ Max(1..k) = k /\ (1..k) \ {k} = 1..(k - 1)
    BY <1>1, FoldSteps
  <2>2. iter[1..k] = iter[1..(k - 1)] \o words[k]
    BY <1>5, <2>1
  <2>3. QED
    BY <1>1, <2>2
<1> HIDE DEF r
<1>8. \A k \in 0..n : k \in {j \in 0..n : r[j] \in T}
  <2> DEFINE S == {k \in 0..n : r[k] \in T}
  <2>1. 0 \in S
    <3>1. r[0] \in T /\ 0 \in 0..n
      BY <1>1, <1>6 DEF T
    <3>2. QED
      BY <3>1
  <2>2. ASSUME NEW k \in 1..n, k - 1 \in S PROVE k \in S
    <3>1. r[k - 1] \in Seq(A) /\ words[k] \in Seq(A) /\ k \in 0..n
      BY <1>1, <2>2 DEF T
    <3>2. r[k] = r[k - 1] \o words[k]
      BY <1>7
    <3>3. r[k] \in Seq(A)
      BY <3>1, <3>2
    <3>4. QED
      BY <3>1, <3>3 DEF T
  <2> HIDE DEF S
  <2>3. \A k \in 0..n : k \in S
    BY <1>1, <2>1, <2>2, UpTo
  <2>4. QED
    BY <2>3 DEF S
<1>9. r \in [0..n -> T]
  BY <1>8 DEF r
<1>10. QED
  BY <1>6, <1>7, <1>9 DEF T, n

\* One word more adds its bytes at the end.
LEMMA ConcatAppend ==
    ASSUME NEW A, NEW words \in Seq(Seq(A)), NEW w \in Seq(A)
    PROVE  /\ Concat(words) \in Seq(A)
           /\ Concat(Append(words, w)) = Concat(words) \o w
<1> DEFINE n == Len(words)
           more == Append(words, w)
<1>1. /\ n \in Nat /\ more \in Seq(Seq(A)) /\ Len(more) = n + 1 /\ more[n + 1] = w
      /\ \A k \in 1..n : more[k] = words[k]
  OBVIOUS
<1>2. PICK r \in [0..Len(words) -> Seq(A)] :
              /\ r[0] = <<>>
              /\ \A k \in 1..Len(words) : r[k] = r[k - 1] \o words[k]
              /\ Concat(words) = r[Len(words)]
  BY ConcatSteps
<1> HIDE DEF more
<1>3. PICK q \in [0..Len(more) -> Seq(A)] :
              /\ q[0] = <<>>
              /\ \A k \in 1..Len(more) : q[k] = q[k - 1] \o more[k]
              /\ Concat(more) = q[Len(more)]
  BY <1>1, ConcatSteps
<1> HIDE DEF n
<1>4. \A k \in 0..n : k \in {j \in 0..n : q[j] = r[j]}
  <2> DEFINE S == {k \in 0..n : q[k] = r[k]}
  <2>1. 0 \in S
    BY <1>1, <1>2, <1>3
  <2>2. \A k \in 1..n : k - 1 \in S => k \in S
    <3>1. TAKE k \in 1..n
    <3>2. k \in 1..Len(words) /\ k \in 1..Len(more) /\ k \in 0..n /\ more[k] = words[k]
      BY <1>1 DEF n
    <3>3. q[k] = q[k - 1] \o more[k] /\ r[k] = r[k - 1] \o words[k]
      BY <1>2, <1>3, <3>2, Zenon
    <3>4. k - 1 \in S => q[k - 1] = r[k - 1]
      OBVIOUS
    <3>5. QED
      BY <3>2, <3>3, <3>4, Zenon
  <2> HIDE DEF S
  <2>3. \A k \in 0..n : k \in S
    BY <1>1, <2>1, <2>2, UpTo
  <2>4. QED
    BY <2>3 DEF S
<1> DEFINE m == n + 1
<1>5. n \in 0..n /\ m \in 1..Len(more) /\ m - 1 = n /\ Len(more) = m /\ more[m] = w
  BY <1>1
<1> HIDE DEF m
<1>6. q[m] = r[n] \o w
  <2>1. q[n] = r[n]
    BY <1>4, <1>5
  <2>2. q[m] = q[m - 1] \o more[m]
    BY <1>3, <1>5, Zenon
  <2>3. QED
    BY <1>5, <2>1, <2>2, Zenon
<1>7. Concat(words) = r[n] /\ Concat(more) = q[m] /\ r[n] \in Seq(A)
  <2>1. Concat(words) = r[n] /\ Concat(more) = q[m]
    BY <1>2, <1>3, <1>5, Zenon DEF n
  <2>2. n \in 0..Len(words)
    BY <1>1 DEF n
  <2>3. r[n] \in Seq(A)
    BY <1>2, <2>2
  <2>4. QED
    BY <2>1, <2>3
<1>8. QED
  BY <1>6, <1>7, Zenon DEF more

\* decode() with the tableas an argument.
Decoded(table, ids) ==
    Concat([k \in DOMAIN ids |-> CHOOSE w \in DOMAIN table : table[w] = ids[k]])

\* Each id is the rank of one word, and of one only.
Decodable(table, ids) ==
    /\ \A v, w \in DOMAIN table : table[v] = table[w] => v = w
    /\ \A k \in DOMAIN ids : \E w \in DOMAIN table : w \in Seq(Bytes) /\ table[w] = ids[k]

LEMMA DecodedAppend ==
    ASSUME NEW table, table \in [DOMAIN table -> Int], NEW ids \in Seq(Int), Decodable(table, ids),
           NEW w \in DOMAIN table, w \in Seq(Bytes)
    PROVE  /\ Decodable(table, Append(ids, table[w]))
           /\ Decoded(table, ids) \in Seq(Bytes)
           /\ Decoded(table, Append(ids, table[w])) = Decoded(table, ids) \o w
<1> DEFINE word(id) == CHOOSE v \in DOMAIN table : table[v] = id
           words == [k \in DOMAIN ids |-> word(ids[k])]
           more == Append(ids, table[w])
<1>1. /\ DOMAIN ids = 1..Len(ids) /\ Len(ids) \in Nat /\ DOMAIN more = 1..(Len(ids) + 1)
      /\ \A k \in 1..Len(ids) : more[k] = ids[k]
      /\ more[Len(ids) + 1] = table[w]
  OBVIOUS
<1>2. \A v \in DOMAIN table : word(table[v]) = v
  BY DEF Decodable
<1> HIDE DEF word
<1>3. words \in Seq(Seq(Bytes))
  <2>1. \A k \in DOMAIN ids : word(ids[k]) \in Seq(Bytes)
    BY <1>2 DEF Decodable
  <2>2. QED
    BY <1>1, <2>1
<1>4. word(table[w]) = w
  BY <1>2
<1>5. [k \in DOMAIN more |-> word(more[k])] = Append(words, w)
  <2>1. Append(words, w) = [k \in 1..(Len(ids) + 1) |->
                              IF k = Len(ids) + 1 THEN w ELSE words[k]]
    <3>1. Len(words) = Len(ids)
      BY <1>1
    <3> HIDE DEF words
    <3>2. Len(Append(words, w)) = Len(ids) + 1 /\ Append(words, w) \in Seq(Seq(Bytes))
      BY <1>1, <1>3, <3>1
    <3>3. \A k \in 1..(Len(ids) + 1) :
             Append(words, w)[k] = IF k = Len(ids) + 1 THEN w ELSE words[k]
      BY <1>1, <1>3, <3>1
    <3>4. Append(words, w) = [k \in 1..(Len(ids) + 1) |-> Append(words, w)[k]]
      <4>1. PICK v : v = Append(words, w)
        OBVIOUS
      <4>2. v = [k \in 1..(Len(ids) + 1) |-> v[k]]
        <5>1. v \in Seq(Seq(Bytes)) /\ Len(v) = Len(ids) + 1
          BY <3>2, <4>1
        <5>2. QED
          BY <5>1
      <4>3. QED
        BY <4>1, <4>2
    <3>5. QED
      BY <3>3, <3>4
  <2>2. \A k \in 1..(Len(ids) + 1) :
           word(more[k]) = IF k = Len(ids) + 1 THEN w ELSE words[k]
    <3>1. TAKE k \in 1..(Len(ids) + 1)
    <3>2. CASE k = Len(ids) + 1
      BY <1>1, <1>4, <3>2
    <3>3. CASE k # Len(ids) + 1
      <4>1. k \in 1..Len(ids)
        BY <1>1, <3>3
      <4> HIDE DEF more
      <4>2. QED
        BY <1>1, <3>3, <4>1
    <3>4. QED
      BY <3>2, <3>3
  <2> HIDE DEF more, words
  <2>3. QED
    BY <1>1, <2>1, <2>2
<1>6. Decoded(table, ids) = Concat(words)
  BY DEF Decoded, word
<1>7. Decoded(table, more) = Concat(Append(words, w))
  BY <1>5 DEF Decoded, word
<1>8. Decodable(table, more)
  <2> HIDE DEF more
  <2>1. \A k \in DOMAIN more : k = Len(ids) + 1 \/ k \in DOMAIN ids
    BY <1>1
  <2>2. QED
    BY <1>1, <2>1 DEF Decodable
<1> HIDE DEF words, more
<1>9. Concat(words) \in Seq(Bytes) /\ Concat(Append(words, w)) = Concat(words) \o w
  BY <1>3, ConcatAppend
<1>10. QED
  BY <1>6, <1>7, <1>8, <1>9 DEF more

\* The part of the pre-token that is still to come.
Left == IF phase = "piece" THEN piece
        ELSE IF phase = "merge" THEN SubSeq(piece, curr, Len(piece))
        ELSE <<>>

DecodeInv == Decodable(ranks, out) /\ DecodesToText

LEMMA DecodesToTextIs ==
    /\ DecodesToText <=> (phase \notin {"threw", "rejected"} =>
                            Decoded(ranks, out) \o Left = SubSeq(text, 1, at - 1))
    /\ DecodesToText' <=> (phase' \notin {"threw", "rejected"} =>
                            Decoded(ranks', out') \o Left' = SubSeq(text', 1, at' - 1))
  BY Zenon DEF DecodesToText, Decoded, decode, Left

\* No ids decode to no text.
LEMMA DecodedNothing ==
    ASSUME NEW table
    PROVE  Decoded(table, <<>>) = <<>>
<1> DEFINE none == [k \in DOMAIN <<>> |-> CHOOSE w \in DOMAIN table : table[w] = <<>>[k]]
<1>1. none \in Seq(Seq(Bytes)) /\ Len(none) = 0
  OBVIOUS
<1>2. Decoded(table, <<>>) = Concat(none)
  BY Zenon DEF Decoded
<1> HIDE DEF none
<1>3. PICK r \in [0..Len(none) -> Seq(Bytes)] : r[0] = <<>> /\ Concat(none) = r[Len(none)]
  BY <1>1, ConcatSteps
<1>4. QED
  BY <1>1, <1>2, <1>3

LEMMA InitDecodes ==
    ASSUME Init
    PROVE  DecodeInv
<1>1. PICK input \in Inputs : text = input.text /\ ranks = input.ranks
  BY DEF Init
<1>2. text \in Seq(Bytes \cup NonAscii) /\ \A v, w \in DOMAIN ranks : ranks[v] = ranks[w] => v = w
  BY <1>1, TokenizerAssumption, RanksAreDistinct DEF IsInjective
<1>3. out = <<>> /\ at = 1 /\ phase = "check"
  BY DEF Init
<1>4. Decodable(ranks, out)
  BY <1>2, <1>3 DEF Decodable
<1>5. Left = <<>> /\ SubSeq(text, 1, at - 1) = <<>>
  BY <1>2, <1>3 DEF Left
<1>6. Decoded(ranks, out) = <<>>
  BY <1>3, DecodedNothing
<1>7. <<>> \o <<>> = <<>>
  OBVIOUS
<1>8. DecodesToText
  BY <1>5, <1>6, <1>7, DecodesToTextIs, Zenon
<1>9. QED
  BY <1>4, <1>8 DEF DecodeInv

\* What decoding gives is a text.
LEMMA DecodedIsText ==
    ASSUME TokenizerInv, DecodeInv
    PROVE  Decoded(ranks, out) \in Seq(Bytes)
<1>1. CASE out = <<>>
  <2>1. Decoded(ranks, out) = <<>>
    BY <1>1, DecodedNothing, Zenon
  <2>2. QED
    BY <2>1
<1>2. CASE out # <<>>
  <2>1. out \in Seq(Int) /\ ranks \in [DOMAIN ranks -> Int]
    BY DEF TokenizerInv, TypeOK
  <2>2. 1 \in DOMAIN out
    BY <1>2, <2>1
  <2>3. PICK w \in DOMAIN ranks : w \in Seq(Bytes)
    BY <2>2 DEF DecodeInv, Decodable
  <2>4. QED
    BY <2>1, <2>3, DecodedAppend DEF DecodeInv
<1>3. QED
  BY <1>1, <1>2

LEMMA TakeDecodes ==
    ASSUME TokenizerInv, DecodeInv, TakePretoken
    PROVE  DecodeInv'
<1> DEFINE n == next_pretoken(at)
<1>1. text \in Seq(Bytes) /\ at \in 1..Len(text) /\ Len(text) \in Nat /\ phase = "split"
  BY DEF TokenizerInv, TypeOK, SplitInv, TakePretoken
<1>2. n \in 1..(Len(text) + 1 - at)
  BY <1>1, PretokenLength
<1>3. /\ piece' = SubSeq(text, at, at + n - 1) /\ at' = at + n /\ phase' = "piece"
      /\ UNCHANGED <<text, ranks, out>>
  BY DEF TakePretoken
<1> HIDE DEF n
<1> DEFINE a == at - 1
           b == at + n - 1
<1>4. a \in (1 - 1)..Len(text) /\ b \in a..Len(text) /\ a + 1 = at /\ at' - 1 = b
  BY <1>1, <1>2, <1>3
<1>5. 1 \in 1..(Len(text) + 1)
  BY <1>1
<1> HIDE DEF a, b
<1>6. SubSeq(text, 1, a) \o SubSeq(text, a + 1, b) = SubSeq(text, 1, b)
  BY <1>1, <1>4, <1>5, SubSeqsJoin
<1>7. Left' = SubSeq(text, a + 1, b)
  BY <1>3, <1>4 DEF Left, b
<1>8. Decoded(ranks, out) = SubSeq(text, 1, a)
  <2>1. Decoded(ranks, out) \o Left = SubSeq(text, 1, a)
    BY <1>1, DecodesToTextIs DEF DecodeInv, a
  <2>2. Left = <<>>
    BY <1>1 DEF Left
  <2>3. Decoded(ranks, out) \in Seq(Bytes)
    BY DecodedIsText
  <2>4. QED
    BY <2>1, <2>2, <2>3
<1>9. DecodesToText'
  BY <1>3, <1>4, <1>6, <1>7, <1>8, DecodesToTextIs
<1>10. QED
  BY <1>3, <1>9 DEF DecodeInv, Decodable

LEMMA ByteDecodes ==
    ASSUME TokenizerInv, DecodeInv, EncodeByte
    PROVE  DecodeInv'
<1>1. /\ ranks \in [DOMAIN ranks -> Int] /\ out \in Seq(Int) /\ piece \in Seq(Bytes)
      /\ phase = "piece" /\ UNCHANGED <<text, ranks, at, piece>>
  BY DEF TokenizerInv, TypeOK, EncodeByte
<1>2. CASE piece \in DOMAIN ranks
  <2>1. out' = Append(out, ranks[piece]) /\ phase' = "split"
    BY <1>2 DEF EncodeByte
  <2>2. /\ Decodable(ranks, out') /\ Decoded(ranks, out) \in Seq(Bytes)
        /\ Decoded(ranks, out') = Decoded(ranks, out) \o piece
    BY <1>1, <1>2, <2>1, DecodedAppend DEF DecodeInv
  <2>3. Left = piece /\ Left' = <<>>
    BY <1>1, <2>1 DEF Left
  <2>4. Decoded(ranks, out') \o <<>> = Decoded(ranks, out')
    BY <1>1, <2>2
  <2>5. Decoded(ranks, out) \o piece = SubSeq(text, 1, at - 1)
    BY <1>1, <2>3, DecodesToTextIs DEF DecodeInv
  <2>6. DecodesToText'
    BY <1>1, <2>2, <2>3, <2>4, <2>5, DecodesToTextIs
  <2>7. QED
    BY <1>1, <2>2, <2>6 DEF DecodeInv, Decodable
<1>3. CASE piece \notin DOMAIN ranks
  <2>1. phase' = "threw" /\ out' = out
    BY <1>3 DEF EncodeByte
  <2>2. DecodesToText'
    BY <2>1, DecodesToTextIs
  <2>3. QED
    BY <1>1, <2>1, <2>2 DEF DecodeInv, Decodable
<1>4. QED
  BY <1>2, <1>3

LEMMA PutOutDecodes ==
    ASSUME TokenizerInv, DecodeInv, PutOut
    PROVE  DecodeInv'
<1>1. /\ TypeOK /\ NodesTilePiece /\ HeapCoversPairs /\ phase = "merge" /\ heap = {}
      /\ UNCHANGED <<text, ranks, at, piece, nodes>>
      /\ ranks \in [DOMAIN ranks -> Int] /\ out \in Seq(Int) /\ piece \in Seq(Bytes)
      /\ Len(piece) \in Nat
  BY DEF TokenizerInv, MergeInv, PutOut, TypeOK
<1>2. /\ curr \in DOMAIN nodes /\ nodes[curr].active /\ curr \in 1..Len(piece)
      /\ nodes[curr].len \in Nat
  BY <1>1, NodeFields DEF HeapCoversPairs, NodesTilePiece
<1>3. CASE TokenOf(curr) \in DOMAIN ranks
  <2> DEFINE token == TokenOf(curr)
             b == curr + nodes[curr].len - 1
  <2>1. /\ out' = Append(out, ranks[token])
        /\ curr' = nodes[curr].next
        /\ phase' = IF nodes[curr].next = None THEN "split" ELSE "merge"
    BY <1>2, <1>3 DEF PutOut
  <2>2. /\ b \in (curr - 1)..Len(piece) /\ curr \in 1..(Len(piece) + 1) /\ Len(piece) \in b..Len(piece)
        /\ nodes[curr].next = None => b = Len(piece)
        /\ nodes[curr].next # None => nodes[curr].next = b + 1
    <3>1. /\ Len(nodes) = Len(piece)
          /\ \/ /\ nodes[curr].next \in (curr + 1)..Len(nodes)
                /\ curr + nodes[curr].len = nodes[curr].next
             \/ /\ nodes[curr].next = None
                /\ curr + nodes[curr].len = Len(nodes) + 1
      BY <1>1, <1>2 DEF NodesTilePiece
    <3>2. /\ Len(piece) \in Nat /\ curr \in Int /\ 1 <= curr /\ curr <= Len(piece)
          /\ nodes[curr].len \in Nat
      BY <1>1, <1>2
    <3>3. CASE /\ nodes[curr].next \in (curr + 1)..Len(nodes)
               /\ curr + nodes[curr].len = nodes[curr].next
      <4>1. /\ nodes[curr].next \in Int /\ nodes[curr].next <= Len(piece)
            /\ curr + 1 <= nodes[curr].next
        BY <3>1, <3>2, <3>3
      <4>2. nodes[curr].next # None
        BY <3>2, <4>1 DEF None
      <4>3. QED
        BY <3>2, <3>3, <4>1, <4>2
    <3>4. CASE /\ nodes[curr].next = None
               /\ curr + nodes[curr].len = Len(nodes) + 1
      <4>1. curr + nodes[curr].len = Len(piece) + 1
        BY <3>1, <3>4
      <4>2. QED
        BY <3>2, <3>4, <4>1
    <3>5. QED
      BY <3>1, <3>3, <3>4
  <2>3. token = SubSeq(piece, curr, b)
    BY <1>1, <1>2 DEF TokenOf, NodesTilePiece
  <2> HIDE DEF token, b
  <2> DEFINE rest == SubSeq(piece, b + 1, Len(piece))
  <2>4. /\ token \in Seq(Bytes) /\ rest \in Seq(Bytes)
        /\ token \o rest = SubSeq(piece, curr, Len(piece))
    BY <1>1, <2>2, <2>3, SubSeqsJoin
  <2>5. Left = token \o rest
    BY <1>1, <2>4 DEF Left
  <2>6. Left' = rest
    <3>1. CASE nodes[curr].next = None
      <4>1. rest = <<>>
        BY <1>1, <2>2, <3>1
      <4>2. QED
        BY <2>1, <3>1, <4>1 DEF Left
    <3>2. CASE nodes[curr].next # None
      BY <1>1, <2>1, <2>2, <3>2 DEF Left
    <3>3. QED
      BY <3>1, <3>2
  <2>7. token \in DOMAIN ranks
    BY <1>3 DEF token
  <2>8. /\ Decodable(ranks, out') /\ Decoded(ranks, out) \in Seq(Bytes)
        /\ Decoded(ranks, out') = Decoded(ranks, out) \o token
    BY <1>1, <2>1, <2>4, <2>7, DecodedAppend DEF DecodeInv
  <2> HIDE DEF rest
  <2>9. (Decoded(ranks, out) \o token) \o rest = Decoded(ranks, out) \o (token \o rest)
    <3> DEFINE d == Decoded(ranks, out)
    <3>1. d \in Seq(Bytes) /\ token \in Seq(Bytes) /\ rest \in Seq(Bytes)
      BY <2>4, <2>8
    <3> HIDE DEF d
    <3>2. (d \o token) \o rest = d \o (token \o rest)
      BY <3>1, ConcatIsAssociative
    <3>3. QED
      BY <3>2 DEF d
  <2>10. Decoded(ranks, out) \o Left = SubSeq(text, 1, at - 1)
    BY <1>1, DecodesToTextIs DEF DecodeInv
  <2>11. DecodesToText'
    BY <1>1, <2>5, <2>6, <2>8, <2>9, <2>10, DecodesToTextIs
  <2>12. QED
    BY <1>1, <2>8, <2>11 DEF DecodeInv, Decodable
<1>4. CASE TokenOf(curr) \notin DOMAIN ranks
  <2>1. phase' = "threw" /\ out' = out
    BY <1>2, <1>4 DEF PutOut
  <2>2. DecodesToText'
    BY <2>1, DecodesToTextIs
  <2>3. QED
    BY <1>1, <2>1, <2>2 DEF DecodeInv, Decodable
<1>5. QED
  BY <1>3, <1>4

\* A step that puts nothing out and leaves the text as it was read.
LEMMA QuietDecodes ==
    ASSUME DecodeInv, UNCHANGED <<text, ranks, at, out>>,
           phase' \notin {"threw", "rejected"} => phase \notin {"threw", "rejected"} /\ Left' = Left
    PROVE  DecodeInv'
<1>1. DecodesToText'
  BY DecodesToTextIs DEF DecodeInv
<1>2. QED
  BY <1>1 DEF DecodeInv, Decodable

LEMMA NextDecodes ==
    TokenizerInv /\ DecodeInv /\ [Next]_vars => DecodeInv'
<1>1. SUFFICES ASSUME TokenizerInv, DecodeInv, [Next]_vars PROVE DecodeInv'
  OBVIOUS
<1>2. CASE RequireAscii
  BY <1>1, <1>2, QuietDecodes DEF RequireAscii, Left
<1>3. CASE TakePretoken
  BY <1>1, <1>3, TakeDecodes
<1>4. CASE Finish
  BY <1>1, <1>4, QuietDecodes DEF Finish, Left
<1>5. CASE EncodeByte
  BY <1>1, <1>5, ByteDecodes
<1>6. CASE BuildNodes
  <2>1. piece \in Seq(Bytes) /\ phase = "piece" /\ phase' = "merge" /\ curr' = 1
        /\ UNCHANGED <<text, ranks, at, piece, out>>
    BY <1>1, <1>6 DEF BuildNodes, TokenizerInv, TypeOK
  <2>2. SubSeq(piece, 1, Len(piece)) = piece
    BY <2>1
  <2>3. Left' = Left
    BY <2>1, <2>2 DEF Left
  <2>4. QED
    BY <1>1, <2>1, <2>3, QuietDecodes
<1>7. ASSUME NEW e \in heap, MergePair(e) \/ DropStale(e)
      PROVE  DecodeInv'
  <2>1. phase' = phase /\ phase = "merge" /\ UNCHANGED <<text, ranks, at, piece, curr, out>>
    BY <1>7 DEF MergePair, DropStale
  <2>2. QED
    BY <1>1, <2>1, QuietDecodes DEF Left
<1>8. CASE PutOut
  BY <1>1, <1>8, PutOutDecodes
<1>9. CASE UNCHANGED vars
  BY <1>1, <1>9, QuietDecodes DEF vars, Left
<1>10. QED
  BY <1>1, <1>2, <1>3, <1>4, <1>5, <1>6, <1>7, <1>8, <1>9 DEF Next

\* For every text and every table of distinct ranks, what has been put out decodes
\* to what has been read: no byte is dropped, doubled or moved.
THEOREM OutputDecodes == Spec => []DecodesToText
<1>1. Init => TokenizerInv /\ DecodeInv
  BY InitKeepsInv, InitDecodes
<1>2. TokenizerInv /\ DecodeInv /\ [Next]_vars => TokenizerInv' /\ DecodeInv'
  BY NextKeepsInv, NextDecodes
<1>3. DecodeInv => DecodesToText
  BY DEF DecodeInv
<1>4. QED
  BY <1>1, <1>2, <1>3, PTL DEF Spec
=============================================================================
