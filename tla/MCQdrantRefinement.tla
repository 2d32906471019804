------------------------- MODULE MCQdrantRefinement -------------------------
(* One run at a time: the instances that keep the contract of SourceStore. *)
EXTENDS QdrantRefinement, MCQdrantProductions

CONSTANTS w1, s1, s2
=============================================================================
