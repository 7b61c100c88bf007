--------------------------- MODULE MCTokenManager ---------------------------
(* The calls are interchangeable; only for runs without liveness.          *)
EXTENDS TokenManager, TLC

Symmetry == Permutations(Call)
=============================================================================
