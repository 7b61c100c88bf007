----------------------------- MODULE MCLiveSync -----------------------------
(* Two workers: a full sync runs messenger, then reviews.                   *)
EXTENDS LiveSync, TLC

CONSTANTS messenger, reviews

MCOrder == <<messenger, reviews>>

Symmetry == Permutations(Caller)
=============================================================================
