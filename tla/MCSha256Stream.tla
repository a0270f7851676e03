--------------------------- MODULE MCSha256Stream ---------------------------
(***************************************************************************)
(* An instance of Sha256Stream for TLC: blocks of four bytes, the last two *)
(* of them the length.  Inputs of up to three blocks, one whose bytes are  *)
(* told apart by their place and one that looks like padding.              *)
(***************************************************************************)
EXTENDS Sha256Stream

CONSTANT MaxInput

Bytes(n, Value(_)) == [i \in 1..n |-> Plain(Value(i))]

Numbered(n) == Bytes(n, LAMBDA i : i)
Padding(n)  == Bytes(n, LAMBDA i : IF i = 1 THEN 128 ELSE 0)

MCInputs == {Numbered(MaxInput), Padding(MaxInput)}

MCJunk == {Plain(255), Plain(128)}

MCKeysAndMessages ==
    {Numbered(n) : n \in {0, 1} \cup (Block - 1)..(Block + 1) \cup {2 * Block + 1}}
      \X {Padding(n) : n \in 0..(2 * Block + 1)}
=============================================================================
