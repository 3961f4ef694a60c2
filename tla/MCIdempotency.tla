--------------------------- MODULE MCIdempotency ---------------------------
(* Idempotency for TLC: callers, keys and requests are interchangeable.    *)
EXTENDS Idempotency, TLC

Symmetry == Permutations(Callers) \cup Permutations(Keys) \cup Permutations(Requests)
=============================================================================
