----------------------------- MODULE MCDirectSync -----------------------------
(* Small instances of DirectSync. *)
EXTENDS DirectSync, TLC

CONSTANTS s1, s2

Symmetric == Permutations(Sources)
=============================================================================
