--------------------------- MODULE MCBinaryCodec ---------------------------
(***************************************************************************)
(* An instance of BinaryCodec for TLC.  A byte of a length counts to two,  *)
(* so the length 2 already takes two bytes, the first of them with nothing *)
(* but the mark, as 128 does in the code; 20 takes the five bytes that are *)
(* the most a length may have, and 21 to 31 are too much for it.           *)
(***************************************************************************)
EXTENDS BinaryCodec

tgt == <<116, 103, 116>>
act == <<97, 99, 116>>
x == <<120>>

MCKeys == {tgt, act, <<>>, <<122, 122>>}

MCValues == {<<>>, x, <<120, 120>>}

MCEmpty == <<>>

MCHeaders ==
    { [texts |-> [op \in 1..6 |-> <<>>], fallback |-> <<>>, hr |-> 0],
      [texts |-> <<<<>>, x, <<120, 120>>, x, <<>>, <<>>>>, fallback |-> x, hr |-> 1] }

MCRoles == {<<69, 88>>}

MCToolLists ==
    { <<>>,
      << [name |-> x, method |-> <<>>, args |-> <<>>],
         [name |-> <<120, 120>>, method |-> <<<<>>>>,
          args |-> <<[key |-> <<122, 122>>, value |-> <<120, 120>>], [key |-> x, value |-> <<>>]>>] >> }

Prefix == Magic \o <<1>>
Mark == Continued

\* A length of six bytes, one out of range, one of five bytes that is in range and
\* longer than the buffer; an unknown header field and statement field; a method
\* and an argument without a tool; one key twice.
MCGarbage ==
    { Prefix \o <<1, Mark, Mark, Mark, Mark, Mark, 0>>,
      Prefix \o <<17, Mark + 1, Mark + 1, Mark + 1, Mark + 1, 1>>,
      Prefix \o <<16, Mark, Mark, Mark + 1, Mark, 1>>,
      Prefix \o <<9, 0>>, Prefix \o <<30, 0>>,
      Prefix \o <<34, 0>>, Prefix \o <<33, 0, 0>>,
      Prefix \o <<17, 1, 120, 17, 0, 126, 126>>,
      <<76, 76, 77, 83, 1>> }
=============================================================================
