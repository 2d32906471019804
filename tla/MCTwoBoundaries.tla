--------------------------- MODULE MCTwoBoundaries ---------------------------
(* A small instance of TwoBoundaries. *)
EXTENDS TwoBoundaries

CONSTANT s1
=============================================================================
