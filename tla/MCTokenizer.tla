---------------------------- MODULE MCTokenizer ----------------------------
(***************************************************************************)
(* Instances of Tokenizer for TLC: all short texts with one table, and     *)
(* texts of two letters with all small tables of merges.                   *)
(***************************************************************************)
EXTENDS Tokenizer

CONSTANTS MaxText, MaxMergeText, MaxMerges

Texts(alphabet, n) == UNION {[1..m -> alphabet] : m \in 0..n}

ByteOrder == << <<"s">>, <<"l">>, <<"1">>, <<":">>, <<"'">>, <<" ">>, <<"tab">>, <<"newline">> >>

\* The bytes and then the words, ranked in the order given.
Table(bytes, words) ==
    LET all == SelectSeq(ByteOrder, LAMBDA w : w[1] \in bytes) \o words
    IN  [w \in {all[k] : k \in DOMAIN all} |-> CHOOSE k \in DOMAIN all : all[k] = w]

Pair == {"s", "l"}

Orders == {s \in UNION {[1..m -> Texts(Pair, 3) \ Texts(Pair, 1)] : m \in 0..MaxMerges} :
             \A j, k \in DOMAIN s : s[j] = s[k] => j = k}

AnyText == [text : Texts(Bytes \cup NonAscii, MaxText),
            ranks : {Table(Bytes, << <<" ", "s">>, <<":", "newline">>, <<"s", "s">> >>)}]

AnyTable == [text : [1..MaxMergeText -> Pair],
             ranks : {Table(Pair, order) : order \in Orders}
                       \cup {Table({"s"}, order) : order \in [1..1 -> [1..2 -> Pair]]}]

MCInputs == AnyText \cup AnyTable
=============================================================================
