----------------------------- MODULE SequenceOps -----------------------------
(***************************************************************************)
(* The list comprehension [x for x in s if ...] and the sum of a list, as   *)
(* recursive functions, which the proofs can expand (SequenceLemmas).       *)
(***************************************************************************)
EXTENDS Naturals, Sequences

(* The members of s that are in S, in their order. *)
Among(s, S) ==
  LET kept[n \in 0 .. Len(s)] ==
        IF n = 0 THEN <<>> ELSE IF s[n] \in S THEN Append(kept[n - 1], s[n]) ELSE kept[n - 1]
  IN  kept[Len(s)]

(* sum(counts) *)
SumOf(counts) ==
  LET sum[n \in 0 .. Len(counts)] == IF n = 0 THEN 0 ELSE sum[n - 1] + counts[n]
  IN  sum[Len(counts)]
=============================================================================
