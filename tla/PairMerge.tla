----------------------------- MODULE PairMerge -----------------------------
(***************************************************************************)
(* Byte-pair encoding as its reference does it, reference_bpe() of         *)
(* test_tokenizer.cpp: rescan all parts of a piece, join the adjacent two  *)
(* whose bytes have the least rank, the leftmost of equals, until none can *)
(* be joined; then put out the rank of each part.  A part is named by the  *)
(* position it starts at and reaches to the next start.                    *)
(***************************************************************************)
EXTENDS Integers, Sequences, FiniteSetsExt

CONSTANT Bytes

VARIABLES
    ranks,     \* sequences of bytes -> rank
    piece,     \* the bytes being encoded
    starts,    \* where the parts begin that are not put out yet
    out,       \* the ranks put out, of this piece and those before
    failed     \* a part had no rank

vars == <<ranks, piece, starts, out, failed>>

End(s) == IF \E t \in starts : t > s THEN Min({t \in starts : t > s}) ELSE Len(piece) + 1

Part(s) == SubSeq(piece, s, End(s) - 1)
Joined(s) == SubSeq(piece, s, End(End(s)) - 1)

Mergeable(s) == s \in starts /\ End(s) \in starts /\ Joined(s) \in DOMAIN ranks

Precedes(s, t) ==
    \/ ranks[Joined(s)] < ranks[Joined(t)]
    \/ ranks[Joined(s)] = ranks[Joined(t)] /\ s <= t

Init ==
    /\ piece = <<>>
    /\ starts = {}
    /\ out = <<>>
    /\ failed = FALSE

NewPiece ==
    /\ starts = {} /\ ~failed
    /\ piece' \in Seq(Bytes)
    /\ starts' = DOMAIN piece'
    /\ UNCHANGED <<ranks, out, failed>>

MergeBest ==
    /\ \E s \in starts :
          /\ Mergeable(s)
          /\ \A t \in starts : Mergeable(t) => Precedes(s, t)
          /\ starts' = starts \ {End(s)}
    /\ UNCHANGED <<ranks, piece, out, failed>>

IsFirst(s) == s \in starts /\ \A t \in starts : s <= t

PutOut ==
    /\ \A t \in starts : ~Mergeable(t)
    /\ \E s \in starts :
          /\ IsFirst(s)
          /\ Part(s) \in DOMAIN ranks
          /\ out' = Append(out, ranks[Part(s)])
          /\ starts' = starts \ {s}
    /\ UNCHANGED <<ranks, piece, failed>>

Fail ==
    /\ \A t \in starts : ~Mergeable(t)
    /\ \E s \in starts : IsFirst(s) /\ Part(s) \notin DOMAIN ranks
    /\ failed' = TRUE
    /\ starts' = {}
    /\ UNCHANGED <<ranks, piece, out>>

Next == NewPiece \/ MergeBest \/ PutOut \/ Fail

Spec == Init /\ [][Next]_vars
=============================================================================
