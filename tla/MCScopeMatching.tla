--------------------------- MODULE MCScopeMatching ---------------------------
(* Pieces for the paths of grants and requests. *)
EXTENDS ScopeMatching

a == <<"a">>
r == <<"r">>              \* spelled like a verb

MCGrantPieces == {Empty, DotDot, Star, DoubleStar, a, r, <<"a", "*">>}

MCRequestPieces == {Empty, Dot, DotDot, Star, a, r, <<"a", "b">>, <<"C", ":">>}
=============================================================================
