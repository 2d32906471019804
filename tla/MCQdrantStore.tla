---------------------------- MODULE MCQdrantStore ----------------------------
(* QdrantStore without assumptions on the writers: a run that is cancelled  *)
(* twice, and two runs at a time.                                           *)
EXTENDS QdrantStore, MCQdrantProductions

CONSTANTS w1, w2, s1, s2
=============================================================================
