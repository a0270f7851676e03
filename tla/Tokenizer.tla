----------------------------- MODULE Tokenizer -----------------------------
(***************************************************************************)
(* Cl100kTokenizer (tokenizer.hpp): encode() cuts a text into pre-tokens   *)
(* and merges the bytes of each with a heap of candidate pairs over a      *)
(* linked list of nodes.                                                   *)
(*                                                                         *)
(* A byte is one of a few that stand for their class; letters stand for    *)
(* both cases.  Positions count from 1, so that 0 can be kNone.            *)
(***************************************************************************)
EXTENDS Integers, Sequences, FiniteSetsExt, SequencesExt

CONSTANTS
    Letters, Digits, Symbols,
    Blanks, Newlines,      \* the two kinds of white space
    NonAscii,
    Inputs                 \* [text, ranks]: what is encoded, and the table loaded

None == 0                  \* kNone
Space == " "
Apostrophe == "'"
ShortEndings == {"s", "t", "m", "d"}
LongEndings == {<<"r", "e">>, <<"v", "e">>, <<"l", "l">>}

Spaces == Blanks \cup Newlines
Bytes == Letters \cup Digits \cup Symbols \cup Spaces

ASSUME TokenizerAssumption ==
    /\ Apostrophe \in Symbols /\ Space \in Blanks
    /\ LET classes == <<Letters, Digits, Symbols, Blanks, Newlines>>
       IN  \A m, n \in DOMAIN classes : m # n => classes[m] \cap classes[n] = {}
    /\ \A input \in Inputs : /\ input.text \in Seq(Bytes \cup NonAscii)
                             /\ input.ranks \in [DOMAIN input.ranks -> Int]

\* As in the table shipped in data/, whose inverse decode() reads.
ASSUME RanksAreDistinct ==
    \A input \in Inputs : IsInjective(input.ranks)

VARIABLES
    text, ranks,       \* the argument of encode(), and ranks_
    phase,             \* what encode() does next
    at,                \* i of encode(): where the next pre-token begins
    piece,             \* the pre-token
    nodes, heap,       \* the scratch buffers of bpe(); equal entries of the heap
                       \* act as one, since the second finds the pair changed
    curr,              \* the node bpe() puts out next
    out                \* out: the token ids

vars == <<text, ranks, phase, at, piece, nodes, heap, curr, out>>

Node == [start : Nat, len : Nat, prev : Nat, next : Nat, active : BOOLEAN]

TypeOK ==
    /\ text \in Seq(Bytes \cup NonAscii)
    /\ ranks \in [DOMAIN ranks -> Int]
    /\ phase \in {"check", "split", "piece", "merge", "done", "rejected", "threw"}
    /\ at \in Nat \ {0}
    /\ piece \in Seq(Bytes)
    /\ nodes \in Seq(Node)
    /\ heap \in SUBSET [rank : Int, index : Nat]
    /\ curr \in Nat
    /\ out \in Seq(Int)

Init ==
    /\ \E input \in Inputs : text = input.text /\ ranks = input.ranks
    /\ phase = "check"
    /\ at = 1
    /\ piece = <<>> /\ nodes = <<>> /\ heap = {}
    /\ curr = None
    /\ out = <<>>

-----------------------------------------------------------------------------
\* Pre-tokens.  Each operator gives the length its alternative of the pattern
\* takes at position i, or 0.

\* How many bytes from position i on are in C.
Run(i, C) ==
    LET stops == {k \in i..Len(text) : text[k] \notin C}
    IN  (IF stops = {} THEN Len(text) + 1 ELSE Min(stops)) - i

Contraction(i) ==
    IF text[i] # Apostrophe \/ i = Len(text) THEN 0
    ELSE IF text[i + 1] \in ShortEndings THEN 2
    ELSE IF i + 2 <= Len(text) /\ <<text[i + 1], text[i + 2]>> \in LongEndings THEN 3
    ELSE 0

\* Operators named Mutant... are variants of the definition that follows them
\* with a bug in it; they show which property notices that bug.
MutantWord(i) ==
    LET m == Run(i + 1, Letters)
    IN  IF m >= 1 THEN 1 + m ELSE 0

Word(i) ==
    LET opt == IF text[i] \in Newlines \cup Letters \cup Digits THEN 0 ELSE 1
        m   == Run(i + opt, Letters)
    IN  IF m >= 1 THEN opt + m ELSE 0

Number(i) ==
    IF Run(i, Digits) < 3 THEN Run(i, Digits) ELSE 3

Punctuation(i) ==
    LET opt == IF text[i] = Space THEN 1 ELSE 0
        p   == Run(i + opt, Symbols)
    IN  IF p >= 1 THEN opt + p + Run(i + opt + p, Newlines) ELSE 0

\* A run with a newline in it ends at its last newline.
Whitespace(i) ==
    LET run      == Run(i, Spaces)
        newlines == {k \in i..(i + run - 1) : text[k] \in Newlines}
    IN  IF newlines = {} THEN run ELSE Max(newlines) - i + 1

next_pretoken(i) ==
    IF Contraction(i) > 0 THEN Contraction(i)
    ELSE IF Word(i) > 0 THEN Word(i)
    ELSE IF Number(i) > 0 THEN Number(i)
    ELSE IF Punctuation(i) > 0 THEN Punctuation(i)
    ELSE IF Whitespace(i) > 0 THEN Whitespace(i)
    ELSE 1

MutantAnyByte ==
    /\ phase = "check"
    /\ phase' = "split"
    /\ UNCHANGED <<text, ranks, at, piece, nodes, heap, curr, out>>

RequireAscii ==
    /\ phase = "check"
    /\ phase' = IF \A k \in DOMAIN text : text[k] \in Bytes THEN "split" ELSE "rejected"
    /\ UNCHANGED <<text, ranks, at, piece, nodes, heap, curr, out>>

MutantTakeOverlaps ==
    /\ phase = "split" /\ at <= Len(text)
    /\ piece' = SubSeq(text, at, at + next_pretoken(at) - 1)
    /\ at' = at + (IF next_pretoken(at) = 3 THEN 2 ELSE next_pretoken(at))
    /\ phase' = "piece"
    /\ UNCHANGED <<text, ranks, nodes, heap, curr, out>>

TakePretoken ==
    /\ phase = "split" /\ at <= Len(text)
    /\ piece' = SubSeq(text, at, at + next_pretoken(at) - 1)
    /\ at' = at + next_pretoken(at)
    /\ phase' = "piece"
    /\ UNCHANGED <<text, ranks, nodes, heap, curr, out>>

Finish ==
    /\ phase = "split" /\ at > Len(text)
    /\ phase' = "done"
    /\ UNCHANGED <<text, ranks, at, piece, nodes, heap, curr, out>>

-----------------------------------------------------------------------------
\* bpe().

EncodeByte ==
    /\ phase = "piece" /\ Len(piece) = 1
    /\ \/ piece \in DOMAIN ranks /\ out' = Append(out, ranks[piece]) /\ phase' = "split"
       \/ piece \notin DOMAIN ranks /\ phase' = "threw" /\ UNCHANGED out
    /\ UNCHANGED <<text, ranks, at, piece, nodes, heap, curr>>

HasPair(list, i) ==
    /\ i # None /\ list[i].active
    /\ list[i].next # None /\ list[list[i].next].active

\* The bytes of node i and its successor, whose ranges touch.
Candidate(list, i) ==
    SubSeq(piece, list[i].start, list[i].start + list[i].len + list[list[i].next].len - 1)

Queued(list, i) == HasPair(list, i) /\ Candidate(list, i) \in DOMAIN ranks

Entry(list, i) == [rank |-> ranks[Candidate(list, i)], index |-> i]

\* What push_pair(i) adds to the heap.
Pushed(list, i) == IF Queued(list, i) THEN {Entry(list, i)} ELSE {}

Singles == [i \in 1..Len(piece) |->
              [start |-> i, len |-> 1, prev |-> i - 1,
               next |-> IF i < Len(piece) THEN i + 1 ELSE None, active |-> TRUE]]

BuildNodes ==
    /\ phase = "piece" /\ Len(piece) > 1
    /\ nodes' = Singles
    /\ heap' = UNION {Pushed(Singles, i) : i \in 1..(Len(piece) - 1)}
    /\ curr' = 1
    /\ phase' = "merge"
    /\ UNCHANGED <<text, ranks, at, piece, out>>

\* The top of the heap: least rank, leftmost of equals.
IsTop(e) == \A f \in heap : e.rank < f.rank \/ (e.rank = f.rank /\ e.index <= f.index)

MutantTrustsHeap(e) == HasPair(nodes, e.index) /\ Candidate(nodes, e.index) \in DOMAIN ranks

\* The pair the entry was queued for is still there.
IsCurrent(e) == Queued(nodes, e.index) /\ Entry(nodes, e.index).rank = e.rank

Joined(i) ==
    LET j == nodes[i].next
    IN  [k \in DOMAIN nodes |->
           IF k = i THEN [nodes[i] EXCEPT !.len = @ + nodes[j].len, !.next = nodes[j].next]
           ELSE IF k = j THEN [nodes[j] EXCEPT !.active = FALSE]
           ELSE IF k = nodes[j].next THEN [nodes[k] EXCEPT !.prev = i]
           ELSE nodes[k]]

MutantMergeLeavesPrev(e) ==
    /\ phase = "merge" /\ e \in heap /\ IsTop(e) /\ IsCurrent(e)
    /\ nodes' = Joined(e.index)
    /\ heap' = (heap \ {e}) \cup Pushed(Joined(e.index), e.index)
    /\ UNCHANGED <<text, ranks, phase, at, piece, curr, out>>

MergePair(e) ==
    /\ phase = "merge" /\ e \in heap /\ IsTop(e) /\ IsCurrent(e)
    /\ nodes' = Joined(e.index)
    /\ heap' = (heap \ {e}) \cup Pushed(Joined(e.index), Joined(e.index)[e.index].prev)
                            \cup Pushed(Joined(e.index), e.index)
    /\ UNCHANGED <<text, ranks, phase, at, piece, curr, out>>

\* A later merge has changed or removed the pair.
DropStale(e) ==
    /\ phase = "merge" /\ e \in heap /\ IsTop(e) /\ ~IsCurrent(e)
    /\ heap' = heap \ {e}
    /\ UNCHANGED <<text, ranks, phase, at, piece, nodes, curr, out>>

TokenOf(i) == SubSeq(piece, nodes[i].start, nodes[i].start + nodes[i].len - 1)

\* One round of the loop that walks the list.
PutOut ==
    /\ phase = "merge" /\ heap = {}
    /\ \/ /\ nodes[curr].active => TokenOf(curr) \in DOMAIN ranks
          /\ out' = IF nodes[curr].active THEN Append(out, ranks[TokenOf(curr)]) ELSE out
          /\ curr' = nodes[curr].next
          /\ phase' = IF nodes[curr].next = None THEN "split" ELSE "merge"
       \/ /\ nodes[curr].active /\ TokenOf(curr) \notin DOMAIN ranks
          /\ phase' = "threw"
          /\ UNCHANGED <<out, curr>>
    /\ UNCHANGED <<text, ranks, at, piece, nodes, heap>>

Next ==
    \/ RequireAscii
    \/ TakePretoken
    \/ Finish
    \/ EncodeByte
    \/ BuildNodes
    \/ \E e \in heap : MergePair(e) \/ DropStale(e)
    \/ PutOut

Spec == Init /\ [][Next]_vars

-----------------------------------------------------------------------------
\* While bpe() merges, the active nodes are a doubly linked list in the order of
\* the bytes and their ranges lie end to end over the whole piece, so a merge
\* needs no copy of bytes ("the key invariant" of Node); an inactive node is no
\* one's neighbour.
NodesTilePiece ==
    phase = "merge" =>
      /\ Len(nodes) = Len(piece) /\ piece # <<>> /\ nodes[1].active
      /\ \A i \in DOMAIN nodes : nodes[i].active =>
           /\ nodes[i].start = i
           /\ nodes[i].prev # None => /\ nodes[i].prev \in 1..(i - 1)
                                      /\ nodes[nodes[i].prev].active
                                      /\ nodes[nodes[i].prev].next = i
           /\ \/ /\ nodes[i].next \in (i + 1)..Len(nodes)
                 /\ nodes[nodes[i].next].active
                 /\ nodes[nodes[i].next].prev = i
                 /\ i + nodes[i].len = nodes[i].next
                 /\ \A k \in (i + 1)..(nodes[i].next - 1) : ~nodes[k].active
              \/ /\ nodes[i].next = None
                 /\ i + nodes[i].len = Len(nodes) + 1
                 /\ \A k \in (i + 1)..Len(nodes) : ~nodes[k].active

\* However many merges changed the list since the heap was filled, every pair
\* that can be merged now has its entry in the heap under its present rank, and
\* output starts only when the heap has run out.
HeapCoversPairs ==
    phase = "merge" =>
      /\ \A i \in DOMAIN nodes : Queued(nodes, i) => Entry(nodes, i) \in heap
      /\ \A e \in heap : e.index \in DOMAIN nodes
      /\ curr \in DOMAIN nodes /\ nodes[curr].active
      /\ curr # 1 => heap = {}

\* The list, the heap and the cursor of bpe() stay consistent.
MergeInv == NodesTilePiece /\ HeapCoversPairs

Pending ==
    IF phase = "piece" THEN DOMAIN piece
    ELSE IF phase = "merge" THEN {i \in DOMAIN nodes : nodes[i].active /\ i >= curr}
    ELSE {}

Reference == INSTANCE PairMerge WITH starts <- Pending, failed <- (phase = "threw")

\* The heap-driven merge gives what rescanning for the least pair gives, merge by
\* merge and token by token (test 10 of test_tokenizer.cpp, on any input).
MergesLikeReference == Reference!Spec

-----------------------------------------------------------------------------
Concat(words) == FoldLeft(LAMBDA w, v : w \o v, <<>>, words)

\* decode(), by the inverse of ranks_.
decode(ids) == Concat([k \in DOMAIN ids |-> CHOOSE w \in DOMAIN ranks : ranks[w] = ids[k]])

\* At any moment what has been put out decodes to the text read so far, up to the
\* part of the pre-token that is still to come: no byte is dropped, doubled or
\* moved between pre-tokens, merges and output (test 11).
DecodesToText ==
    LET left == IF phase = "piece" THEN piece
                ELSE IF phase = "merge" THEN SubSeq(piece, curr, Len(piece))
                ELSE <<>>
    IN  phase \notin {"threw", "rejected"} => decode(out) \o left = SubSeq(text, 1, at - 1)

\* The alternatives of the cl100k_base pattern, as the lengths they match at i.
AllIn(i, n, C) == \A k \in i..(i + n - 1) : text[k] \in C

Alternatives(i) ==
    LET lengths == 1..(Len(text) + 1 - i)
        name    == Letters \cup Digits
    IN  << {n \in lengths \cap {2} : text[i] = Apostrophe /\ text[i + 1] \in ShortEndings}
             \cup {n \in lengths \cap {3} : /\ text[i] = Apostrophe
                                            /\ <<text[i + 1], text[i + 2]>> \in LongEndings},
           {n \in lengths : \/ AllIn(i, n, Letters)
                            \/ /\ n > 1 /\ text[i] \notin name \cup Newlines
                               /\ AllIn(i + 1, n - 1, Letters)},
           {n \in lengths \cap 1..3 : AllIn(i, n, Digits)},
           {n \in lengths : \E o \in 0..1, q \in 0..(n - 1) :
                              /\ o = 1 => text[i] = Space
                              /\ o + q < n
                              /\ AllIn(i + o, n - o - q, Symbols)
                              /\ AllIn(i + n - q, q, Newlines)},
           {n \in lengths : AllIn(i, n, Spaces) /\ text[i + n - 1] \in Newlines},
           {n \in lengths : AllIn(i, n, Spaces) /\ (i + n > Len(text) \/ text[i + n] \in Spaces)},
           {n \in lengths : AllIn(i, n, Spaces)} >>

\* The first alternative that matches takes as much as it can.
PatternLength(i) ==
    LET lengths == Alternatives(i) IN
    Max(lengths[SelectInSeq(lengths, LAMBDA ns : ns # {})])

\* Two or more blanks in front of a word.
IsIndent(i) ==
    /\ Run(i, Blanks) >= 2
    /\ i + Run(i, Blanks) <= Len(text)
    /\ text[i + Run(i, Blanks)] \notin Spaces

\* Every pre-token is the one the pattern quoted above next_pretoken() takes.
SplitFollowsPattern ==
    phase = "split" /\ at <= Len(text) => next_pretoken(at) = PatternLength(at)

\* It is, except that next_pretoken() takes all of several blanks in front of a
\* word, where \s+(?!\S) leaves the last one to the word.
SplitFollowsPatternUpToIndents ==
    phase = "split" /\ at <= Len(text) =>
        next_pretoken(at) = PatternLength(at) + (IF IsIndent(at) THEN 1 ELSE 0)
=============================================================================
