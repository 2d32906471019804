------------------------- MODULE MCQdrantProductions -------------------------
(* What the producers return in the small instances of QdrantStore. *)

CONSTANTS a, b, x, y     \* hash pairs and point bodies

Chunks(ids, body) == [i \in ids |-> body]

(* A deterministic chunker: one list per version, no id in common. *)
PlainProductions ==
  { [tok |-> a, chunk |-> Chunks({1, 2}, x)],
    [tok |-> b, chunk |-> Chunks({3, 4}, x)] }

(* Fewer ids, for two sources: version a as two lists, b as one point or    *)
(* none.                                                                    *)
FewProductions ==
  { [tok |-> a, chunk |-> Chunks({1, 2}, x)],
    [tok |-> a, chunk |-> Chunks({2, 3}, y)],
    [tok |-> b, chunk |-> Chunks({3}, x)],
    [tok |-> b, chunk |-> Chunks({}, x)] }
=============================================================================
