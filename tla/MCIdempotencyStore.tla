------------------------ MODULE MCIdempotencyStore ------------------------
(* Model values for the idempotency store; the bounds are in the cfg files. *)
EXTENDS IdempotencyStore, TLC

CONSTANTS t1, t2, k1, k2, k3

MCThreads == {t1, t2}

MCKeys == {k1, k2, k3}
===========================================================================
