---------------------------- MODULE SequenceLemmas ----------------------------
(***************************************************************************)
(* What the proofs about sequences need: induction over the length, from    *)
(* the least member of a set of naturals; that a recursive function is the  *)
(* one its equation defines; and facts on what the operators of Sequences   *)
(* and SequencesExt return.                                                 *)
(***************************************************************************)
EXTENDS Naturals, Sequences, SequencesExt, SequenceOps, WellFoundedInduction, TLAPS

(* A set of naturals has a least member: induction over sequences. *)
LEMMA LeastNat ==
  ASSUME NEW T, T \subseteq Nat, T # {}
  PROVE  \E n \in T : \A m \in T : n <= m
<1>1. IsWellFoundedOn(OpToRel(<, Nat), Nat)
  BY NatLessThanWellFounded
<1>2. PICK n \in T : \A m \in T : ~(<<m, n>> \in OpToRel(<, Nat))
  BY <1>1, WFMin
<1>3. ASSUME NEW m \in T PROVE n <= m
  <2>1. <<m, n>> \in OpToRel(<, Nat) <=> m < n
    BY <1>2 DEF OpToRel
  <2>2. ~(m < n)
    BY <1>2, <2>1, Zenon
  <2>3. m \in Nat /\ n \in Nat
    BY <1>2
  <2> QED
    BY <2>2, <2>3
<1> QED
  BY <1>2, <1>3

(* Induction up to L. *)
LEMMA UpTo ==
  ASSUME NEW L \in Nat, NEW P, 0 \in P, \A n \in 1 .. L : n - 1 \in P => n \in P
  PROVE  \A n \in 0 .. L : n \in P
<1> DEFINE Bad == {n \in 0 .. L : n \notin P}
<1>1. Bad = {}
  <2> SUFFICES ASSUME Bad # {} PROVE FALSE
    OBVIOUS
  <2>1. PICK n \in Bad : \A m \in Bad : n <= m
    <3>1. Bad \subseteq Nat
      OBVIOUS
    <3> HIDE DEF Bad
    <3> QED
      BY <3>1, LeastNat
  <2>2. n \in 1 .. L /\ n \notin P
    BY <2>1
  <2>3. n - 1 \in 0 .. L /\ ~(n <= n - 1)
    BY <2>2
  <2>4. n - 1 \in P
    BY <2>1, <2>3
  <2> QED
    BY <2>2, <2>4
<1> QED
  BY <1>1

(* A recursion that stays in X is defined up to L. *)
StaysIn(T, X, L) == T \in [X \X (1 .. L) -> X]

LEMMA Iterated ==
  ASSUME NEW X, NEW base \in X, NEW L \in Nat, NEW T, StaysIn(T, X, L)
  PROVE  \E f \in [0 .. L -> X] : f[0] = base /\ \A n \in 1 .. L : f[n] = T[<<f[n - 1], n>>]
<1> DEFINE Solves(f, m) == f[0] = base /\ \A n \in 1 .. m : f[n] = T[<<f[n - 1], n>>]
    P == {m \in 0 .. L : \E f \in [0 .. m -> X] : Solves(f, m)}
<1>1. 0 \in P
  <2>1. [n \in 0 .. 0 |-> base] \in [0 .. 0 -> X] /\ Solves([n \in 0 .. 0 |-> base], 0)
    OBVIOUS
  <2> HIDE DEF Solves
  <2> QED
    BY <2>1
<1>2. ASSUME NEW m \in 1 .. L, m - 1 \in P PROVE m \in P
  <2>1. PICK f \in [0 .. m - 1 -> X] : Solves(f, m - 1)
    BY <1>2
  <2> DEFINE g == [n \in 0 .. m |-> IF n = m THEN T[<<f[m - 1], m>>] ELSE f[n]]
  <2>2. f[m - 1] \in X /\ m \in Nat
    OBVIOUS
  <2>3. T[<<f[m - 1], m>>] \in X
    BY <2>2 DEF StaysIn
  <2>4. g \in [0 .. m -> X]
    BY <2>2, <2>3
  <2>5. Solves(g, m)
    <3>1. g[0] = base
      BY <2>1, <2>2
    <3>2. ASSUME NEW n \in 1 .. m PROVE g[n] = T[<<g[n - 1], n>>]
      <4>1. n - 1 \in 0 .. m - 1 /\ n - 1 # m
        BY <2>2
      <4>2. g[n - 1] = f[n - 1]
        BY <4>1
      <4>3. CASE n = m
        <5>1. g[m] = T[<<f[m - 1], m>>]
          BY <2>2
        <5> QED
          BY <4>2, <4>3, <5>1, Zenon
      <4>4. CASE n # m
        <5>1. n \in 1 .. m - 1
          BY <4>4
        <5>2. f[n] = T[<<f[n - 1], n>>]
          BY <2>1, <5>1
        <5>3. g[n] = f[n]
          BY <4>4
        <5> HIDE DEF g
        <5> QED
          BY <4>2, <5>2, <5>3
      <4> QED
        BY <4>3, <4>4
    <3> HIDE DEF g
    <3> QED
      BY <3>1, <3>2
  <2> HIDE DEF g, Solves
  <2> QED
    BY <2>4, <2>5
<1>3. \A m \in 0 .. L : m \in P
  <2> HIDE DEF P
  <2> QED
    BY <1>1, <1>2, UpTo
<1>4. L \in P
  <2>1. L \in 0 .. L
    OBVIOUS
  <2> QED
    BY <1>3, <2>1
<1> QED
  BY <1>4

-----------------------------------------------------------------------------
(* Parts of sequences *)

LEMMA Concatenated ==
  ASSUME NEW S, NEW a \in Seq(S), NEW b \in Seq(S)
  PROVE  /\ a \o b \in Seq(S)
         /\ Len(a) \in Nat /\ Len(a \o b) = Len(a) + Len(b)
         /\ \A k \in 1 .. Len(a) : (a \o b)[k] = a[k]
         /\ \A k \in 1 .. Len(a \o b) : k \notin 1 .. Len(a) =>
              k - Len(a) \in 1 .. Len(b) /\ (a \o b)[k] = b[k - Len(a)]
  OBVIOUS

LEMMA AppendFacts ==
  ASSUME NEW S, NEW ss \in Seq(S), NEW s \in S
  PROVE  /\ Append(ss, s) \in Seq(S) /\ Len(Append(ss, s)) = Len(ss) + 1
         /\ Len(ss) \in Nat /\ DOMAIN ss = 1 .. Len(ss) /\ DOMAIN Append(ss, s) = 1 .. Len(ss) + 1
         /\ Append(ss, s)[Len(ss) + 1] = s
         /\ \A n \in 1 .. Len(ss) : Append(ss, s)[n] = ss[n] /\ ss[n] \in S
  OBVIOUS

LEMMA SeqsAgree ==
  ASSUME NEW S, NEW ss \in Seq(S), NEW tt \in Seq(S), NEW L, Len(ss) = L, Len(tt) = L,
         \A n \in 1 .. L : ss[n] = tt[n]
  PROVE  ss = tt
  OBVIOUS

LEMMA Prefix ==
  ASSUME NEW S, NEW ss \in Seq(S), NEW m \in 0 .. Len(ss)
  PROVE  /\ SubSeq(ss, 1, m) \in Seq(S) /\ Len(SubSeq(ss, 1, m)) = m
         /\ \A n \in 1 .. m : SubSeq(ss, 1, m)[n] = ss[n]
  OBVIOUS

LEMMA FrontLast ==
  ASSUME NEW S, NEW ss \in Seq(S), ss # <<>>
  PROVE  Front(ss) \in Seq(S) /\ Last(ss) \in S /\ ss = Append(Front(ss), Last(ss))
<1> DEFINE L == Len(ss)
    fr == SubSeq(ss, 1, L - 1)
<1>1. L \in Nat /\ L >= 1 /\ ss \in [1 .. L -> S]
  OBVIOUS
<1>2. /\ fr \in Seq(S) /\ Len(fr) = L - 1 /\ \A n \in 1 .. L - 1 : fr[n] = ss[n]
  <2>1. L - 1 \in 0 .. Len(ss)
    BY <1>1
  <2> QED
    BY <2>1, Prefix
<1>3. ss[L] \in S
  BY <1>1
<1>4. Front(ss) = fr /\ Last(ss) = ss[L]
  BY Zenon DEF Front, Last
<1> HIDE DEF fr
<1> DEFINE as == Append(fr, ss[L])
<1>5. /\ as \in Seq(S) /\ Len(as) = L /\ as[L] = ss[L] /\ \A n \in 1 .. L - 1 : as[n] = fr[n]
  <2>1. /\ as \in Seq(S) /\ Len(as) = Len(fr) + 1 /\ as[Len(fr) + 1] = ss[L]
        /\ \A n \in 1 .. Len(fr) : as[n] = fr[n]
    BY <1>2, <1>3, AppendFacts
  <2>2. Len(fr) + 1 = L
    BY <1>1, <1>2
  <2> HIDE DEF as, L
  <2> QED
    BY <1>1, <1>2, <2>1, <2>2
<1> HIDE DEF as, L
<1>6. ss = as
  <2>1. \A n \in 1 .. L : n \in 1 .. L - 1 \/ n = L
    BY <1>1
  <2>2. \A n \in 1 .. L : ss[n] = as[n]
    BY <1>2, <1>5, <2>1
  <2>3. Len(ss) = L
    BY DEF L
  <2> QED
    BY <1>5, <2>2, <2>3, SeqsAgree
<1> QED
  BY <1>2, <1>3, <1>4, <1>6 DEF as

LEMMA Cuts ==
  ASSUME NEW a \in Seq(Nat), NEW k \in 0 .. Len(a)
  PROVE  /\ SubSeq(a, 1, k) \in Seq(Nat) /\ Len(SubSeq(a, 1, k)) = k
         /\ SubSeq(a, k + 1, Len(a)) \in Seq(Nat) /\ Len(SubSeq(a, k + 1, Len(a))) = Len(a) - k
         /\ SubSeq(a, 1, k) \o SubSeq(a, k + 1, Len(a)) = a
<1>1. SubSeq(a, 1, k) \in Seq(Nat) /\ Len(SubSeq(a, 1, k)) = k /\ \A i \in 1 .. k : SubSeq(a, 1, k)[i] = a[i]
  BY Prefix
<1> DEFINE b == SubSeq(a, 1, k)
    c == SubSeq(a, k + 1, Len(a))
<1>2. /\ c \in Seq(Nat) /\ Len(c) = Len(a) - k /\ \A i \in 1 .. (Len(a) - k) : c[i] = a[k + i]
  OBVIOUS
<1>3. /\ b \o c \in Seq(Nat) /\ Len(b) \in Nat /\ Len(b \o c) = Len(b) + Len(c)
      /\ \A i \in 1 .. Len(b) : (b \o c)[i] = b[i]
      /\ \A i \in 1 .. Len(b \o c) : i \notin 1 .. Len(b) =>
           i - Len(b) \in 1 .. Len(c) /\ (b \o c)[i] = c[i - Len(b)]
  <2> HIDE DEF b, c
  <2>1. b \in Seq(Nat) /\ c \in Seq(Nat)
    BY <1>1, <1>2, Zenon DEF b
  <2> QED
    BY <2>1, Concatenated
<1>4. Len(b) = k /\ \A i \in 1 .. k : b[i] = a[i]
  BY <1>1
<1> HIDE DEF b, c
<1>5. Len(a) \in Nat /\ k \in Nat /\ k <= Len(a)
  OBVIOUS
<1>6. ASSUME NEW i \in 1 .. Len(a) PROVE (b \o c)[i] = a[i]
  <2>1. CASE i \in 1 .. k
    BY <1>3, <1>4, <2>1
  <2>2. CASE i \notin 1 .. k
    <3>1. i \in 1 .. Len(b \o c)
      BY <1>2, <1>3, <1>4, <1>5
    <3>2. i - k \in 1 .. Len(c) /\ (b \o c)[i] = c[i - k]
      BY <1>3, <1>4, <2>2, <3>1
    <3>3. c[i - k] = a[k + (i - k)]
      BY <1>2, <3>2
    <3>4. k + (i - k) = i
      BY <1>5
    <3> QED
      BY <3>2, <3>3, <3>4, Zenon
  <2> QED
    BY <2>1, <2>2
<1>7. b \o c = a
  <2>1. Len(b \o c) = Len(a)
    BY <1>2, <1>3, <1>4, <1>5
  <2> QED
    BY <1>3, <1>6, <2>1, SeqsAgree
<1> QED
  BY <1>1, <1>2, <1>7 DEF b, c

-----------------------------------------------------------------------------
(* Sequences one after the other *)

(* FlattenSeq is the last of the partial ones. *)
FlattensBy(ss, f) ==
  /\ f[0] = <<>> /\ f[Len(ss)] = FlattenSeq(ss)
  /\ \A n \in 1 .. Len(ss) : f[n] = f[n - 1] \o ss[n]

LEMMA Flattened ==
  ASSUME NEW S, NEW ss \in Seq(Seq(S))
  PROVE  \E f \in [0 .. Len(ss) -> Seq(S)] : FlattensBy(ss, f)
<1> DEFINE L == Len(ss)
    T == [w \in Seq(S) \X (1 .. L) |-> w[1] \o ss[w[2]]]
    Def(g) == g = [i \in 1 .. L |-> IF i = 1 THEN ss[i] ELSE g[i - 1] \o ss[i]]
    flatten == CHOOSE g : Def(g)
<1>1. L \in Nat
  OBVIOUS
<1>2. T \in [Seq(S) \X (1 .. L) -> Seq(S)]
  <2>1. ASSUME NEW w \in Seq(S) \X (1 .. L) PROVE w[1] \o ss[w[2]] \in Seq(S)
    <3>1. w[1] \in Seq(S) /\ ss[w[2]] \in Seq(S)
      OBVIOUS
    <3> QED
      BY <3>1, Concatenated
  <2> QED
    BY <2>1
<1>3. <<>> \in Seq(S)
  OBVIOUS
<1>4. PICK f \in [0 .. L -> Seq(S)] : f[0] = <<>> /\ \A n \in 1 .. L : f[n] = T[<<f[n - 1], n>>]
  <2> DEFINE X == Seq(S)
  <2>1. StaysIn(T, X, L) /\ <<>> \in X
    BY <1>2, <1>3 DEF StaysIn
  <2>2. \E f \in [0 .. L -> X] : f[0] = <<>> /\ \A n \in 1 .. L : f[n] = T[<<f[n - 1], n>>]
    <3> HIDE DEF T, L, X
    <3> QED
      BY <1>1, <2>1, Iterated
  <2> QED
    BY <2>2
<1>5. \A n \in 1 .. L : f[n] = f[n - 1] \o ss[n]
  <2> SUFFICES ASSUME NEW n \in 1 .. L PROVE f[n] = f[n - 1] \o ss[n]
    OBVIOUS
  <2>1. f[n - 1] \in Seq(S)
    OBVIOUS
  <2> QED
    BY <1>4, <2>1
<1> HIDE DEF T
<1>6. CASE L = 0
  <2>1. ss = <<>> /\ FlattenSeq(ss) = <<>>
    BY <1>6 DEF FlattenSeq
  <2> QED
    BY <1>4, <1>5, <1>6, <2>1 DEF FlattensBy
<1>7. CASE L # 0
  <2> DEFINE g == [i \in 1 .. L |-> f[i]]
  <2>1. \A i \in 1 .. L : g[i] = IF i = 1 THEN ss[i] ELSE g[i - 1] \o ss[i]
    <3> SUFFICES ASSUME NEW i \in 1 .. L PROVE g[i] = IF i = 1 THEN ss[i] ELSE g[i - 1] \o ss[i]
      OBVIOUS
    <3>1. ss[i] \in Seq(S) /\ f[i] = f[i - 1] \o ss[i] /\ i \in Nat
      <4>1. ss[i] \in Seq(S) /\ i \in Nat
        OBVIOUS
      <4> HIDE DEF L
      <4> QED
        BY <1>5, <4>1
    <3>2. CASE i = 1
      <4>1. i - 1 = 0
        BY <3>2
      <4>2. f[i] = <<>> \o ss[i]
        BY <1>4, <3>1, <4>1, Zenon
      <4> QED
        BY <3>1, <3>2, <4>2
    <3>3. CASE i # 1
      <4>1. i - 1 \in 1 .. L
        BY <1>1, <3>3
      <4> QED
        BY <3>1, <3>3, <4>1
    <3> QED
      BY <3>2, <3>3
  <2>2. Def(g)
    <3>1. g = [i \in 1 .. L |-> g[i]]
      OBVIOUS
    <3> HIDE DEF g
    <3> QED
      BY <2>1, <3>1
  <2>3. Def(flatten)
    <3> HIDE DEF Def, g
    <3> QED
      BY <2>2
  <2>4. FlattenSeq(ss) = flatten[L]
    BY <1>7, Zenon DEF FlattenSeq
  <2> HIDE DEF flatten
  <2>5. \A i \in 1 .. L : flatten[i] = IF i = 1 THEN ss[i] ELSE flatten[i - 1] \o ss[i]
    BY <2>3
  <2> DEFINE h == [n \in 0 .. L |-> IF n = 0 THEN <<>> ELSE flatten[n]]
  <2>6. h[0] = <<>> /\ \A i \in 1 .. L : h[i] = flatten[i] /\ h[i] = h[i - 1] \o ss[i]
    <3>1. h[0] = <<>>
      OBVIOUS
    <3>2. ASSUME NEW i \in 1 .. L PROVE h[i] = flatten[i] /\ h[i] = h[i - 1] \o ss[i]
      <4>1. h[i] = flatten[i]
        OBVIOUS
      <4>2. ss[i] \in Seq(S)
        OBVIOUS
      <4>3. CASE i = 1
        <5>1. h[i] = ss[i] /\ h[i - 1] = <<>>
          <6>1. i - 1 = 0 /\ h[0] = <<>>
            BY <3>1, <4>3
          <6> HIDE DEF h
          <6> QED
            BY <2>5, <4>1, <4>3, <6>1, Zenon
        <5>2. h[i - 1] \o ss[i] = ss[i]
          <6>1. <<>> \o ss[i] = ss[i]
            BY <4>2
          <6> QED
            BY <5>1, <6>1, Zenon
        <5> QED
          BY <4>1, <5>1, <5>2, Zenon
      <4>4. CASE i # 1
        <5>1. i - 1 \in 1 .. L
          BY <1>1, <4>4
        <5>2. h[i - 1] = flatten[i - 1]
          BY <5>1
        <5> QED
          BY <2>5, <4>1, <4>4, <5>2
      <4> QED
        BY <4>3, <4>4
    <3> QED
      BY <3>1, <3>2
  <2> HIDE DEF h
  <2>7. \A n \in 0 .. L : h[n] = f[n]
    <3> DEFINE P == {n \in 0 .. L : h[n] = f[n]}
    <3>1. 0 \in P
      BY <1>1, <1>4, <2>6
    <3>2. \A n \in 1 .. L : n - 1 \in P => n \in P
      <4> SUFFICES ASSUME NEW n \in 1 .. L, n - 1 \in P PROVE n \in P
        OBVIOUS
      <4>1. h[n - 1] = f[n - 1]
        OBVIOUS
      <4>2. h[n] = h[n - 1] \o ss[n] /\ f[n] = f[n - 1] \o ss[n]
        BY <1>5, <2>6, Zenon
      <4>3. n \in 0 .. L
        BY <1>1
      <4> QED
        BY <4>1, <4>2, <4>3
    <3>3. \A n \in 0 .. L : n \in P
      <4> HIDE DEF P
      <4> QED
        BY <1>1, <3>1, <3>2, UpTo
    <3> QED
      BY <3>3
  <2>8. f[L] = FlattenSeq(ss)
    <3>1. L \in 1 .. L /\ L \in 0 .. L
      BY <1>1, <1>7
    <3>2. h[L] = flatten[L] /\ h[L] = f[L]
      <4> HIDE DEF L
      <4> QED
        BY <2>6, <2>7, <3>1
    <3> HIDE DEF L
    <3> QED
      BY <2>4, <3>2
  <2> QED
    BY <1>4, <1>5, <2>8 DEF FlattensBy
<1> QED
  BY <1>6, <1>7

(* One more at the end. *)
LEMMA FlattenAppend ==
  ASSUME NEW S, NEW ss \in Seq(Seq(S)), NEW s \in Seq(S)
  PROVE  FlattenSeq(Append(ss, s)) = FlattenSeq(ss) \o s
<1> DEFINE L == Len(ss)
    tt == Append(ss, s)
<1>1. /\ tt \in Seq(Seq(S)) /\ Len(tt) = L + 1 /\ tt[L + 1] = s /\ L \in Nat
      /\ \A n \in 1 .. L : tt[n] = ss[n]
  OBVIOUS
<1>2. PICK f \in [0 .. Len(ss) -> Seq(S)] : FlattensBy(ss, f)
  BY Flattened
<1> HIDE DEF tt
<1>3. PICK g \in [0 .. Len(tt) -> Seq(S)] : FlattensBy(tt, g)
  BY <1>1, Flattened
<1>4. /\ f[0] = <<>> /\ f[L] = FlattenSeq(ss) /\ \A n \in 1 .. L : f[n] = f[n - 1] \o ss[n]
      /\ g[0] = <<>> /\ g[L + 1] = FlattenSeq(tt)
      /\ \A n \in 1 .. L + 1 : g[n] = g[n - 1] \o tt[n]
  BY <1>1, <1>2, <1>3, Zenon DEF FlattensBy
<1> HIDE DEF L
<1> DEFINE P == {n \in 0 .. L : f[n] = g[n]}
<1>5. 0 \in P
  BY <1>1, <1>4
<1>6. ASSUME NEW n \in 1 .. L, n - 1 \in P PROVE n \in P
  <2>1. f[n - 1] = g[n - 1]
    BY <1>6
  <2>2. n \in 1 .. L + 1 /\ n \in 0 .. L
    BY <1>1
  <2>3. f[n] = g[n]
    BY <1>1, <1>4, <2>1, <2>2, Zenon
  <2> QED
    BY <2>2, <2>3
<1>7. \A n \in 0 .. L : n \in P
  <2> HIDE DEF P
  <2> QED
    BY <1>1, <1>5, <1>6, UpTo
<1>8. f[L] = g[L]
  <2>1. L \in 0 .. L
    BY <1>1
  <2>2. L \in P
    BY <1>7, <2>1, Zenon
  <2> QED
    BY <2>2
<1>9. ASSUME NEW n \in 1 .. L + 1, n = L + 1 PROVE g[n] = g[L] \o s
  <2>1. g[n] = g[n - 1] \o tt[n]
    BY <1>4, Zenon
  <2>2. n - 1 = L
    BY <1>1, <1>9
  <2> QED
    BY <1>1, <1>9, <2>1, <2>2, Zenon
<1>10. g[L + 1] = g[L] \o s
  <2>1. L + 1 \in 1 .. L + 1
    BY <1>1
  <2> QED
    BY <1>9, <2>1, Zenon
<1> QED
  BY <1>4, <1>8, <1>10, Zenon DEF tt

LEMMA FlattenIn ==
  ASSUME NEW S, NEW ss \in Seq(Seq(S))
  PROVE  FlattenSeq(ss) \in Seq(S)
<1>1. PICK f \in [0 .. Len(ss) -> Seq(S)] : FlattensBy(ss, f)
  BY Flattened
<1>2. Len(ss) \in 0 .. Len(ss)
  OBVIOUS
<1>3. f[Len(ss)] \in Seq(S)
  BY <1>1, <1>2
<1> QED
  BY <1>1, <1>3, Zenon DEF FlattensBy

LEMMA FlattenNone == FlattenSeq(<<>>) = <<>>
<1>1. <<>> \in Seq(Seq(Nat)) /\ Len(<<>>) = 0
  OBVIOUS
<1> QED
  BY <1>1 DEF FlattenSeq

-----------------------------------------------------------------------------
(* Ascending sequences *)

(* Ascending, and of the members of another. *)
Rising(a) == \A i, j \in 1 .. Len(a) : i < j => a[i] < a[j]

PartOf(a, b) == Rising(a) /\ \A i \in 1 .. Len(a) : \E k \in 1 .. Len(b) : a[i] = b[k]

LEMMA RisingParts ==
  ASSUME NEW a \in Seq(Nat), NEW b \in Seq(Nat), Rising(a \o b)
  PROVE  /\ Rising(a) /\ Rising(b)
         /\ \A i \in 1 .. Len(a), j \in 1 .. Len(b) : a[i] < b[j]
<1> DEFINE ab == a \o b
<1>1. /\ Len(a) \in Nat /\ Len(b) \in Nat /\ Len(ab) = Len(a) + Len(b)
      /\ \A i \in 1 .. Len(a) : ab[i] = a[i]
      /\ \A j \in 1 .. Len(b) : ab[Len(a) + j] = b[j]
  OBVIOUS
<1> HIDE DEF ab
<1>2. Rising(ab)
  BY DEF ab
<1>3. ASSUME NEW i \in 1 .. Len(a), NEW j \in 1 .. Len(a), i < j PROVE a[i] < a[j]
  <2>1. i \in 1 .. Len(ab) /\ j \in 1 .. Len(ab)
    BY <1>1
  <2>2. ab[i] < ab[j]
    BY <1>2, <1>3, <2>1 DEF Rising
  <2> QED
    BY <1>1, <2>2
<1>4. ASSUME NEW i \in 1 .. Len(b), NEW j \in 1 .. Len(b), i < j PROVE b[i] < b[j]
  <2>1. Len(a) + i \in 1 .. Len(ab) /\ Len(a) + j \in 1 .. Len(ab) /\ Len(a) + i < Len(a) + j
    BY <1>1, <1>4
  <2>2. ab[Len(a) + i] < ab[Len(a) + j]
    BY <1>2, <2>1 DEF Rising
  <2> QED
    BY <1>1, <2>2
<1>5. ASSUME NEW i \in 1 .. Len(a), NEW j \in 1 .. Len(b) PROVE a[i] < b[j]
  <2>1. i \in 1 .. Len(ab) /\ Len(a) + j \in 1 .. Len(ab) /\ i < Len(a) + j
    BY <1>1
  <2>2. ab[i] < ab[Len(a) + j]
    BY <1>2, <2>1 DEF Rising
  <2> QED
    BY <1>1, <2>2
<1> QED
  BY <1>3, <1>4, <1>5 DEF Rising

LEMMA RisingJoin ==
  ASSUME NEW a \in Seq(Nat), NEW b \in Seq(Nat), Rising(a), Rising(b),
         \A i \in 1 .. Len(a), j \in 1 .. Len(b) : a[i] < b[j]
  PROVE  Rising(a \o b)
<1> DEFINE ab == a \o b
<1>1. /\ Len(a) \in Nat /\ Len(b) \in Nat /\ Len(ab) = Len(a) + Len(b)
      /\ \A i \in 1 .. Len(a) : ab[i] = a[i]
      /\ \A j \in 1 .. Len(ab) : j \notin 1 .. Len(a) => j - Len(a) \in 1 .. Len(b) /\ ab[j] = b[j - Len(a)]
  BY Concatenated
<1> HIDE DEF ab
<1>2. ASSUME NEW i \in 1 .. Len(ab), NEW j \in 1 .. Len(ab), i < j PROVE ab[i] < ab[j]
  <2>1. CASE j \in 1 .. Len(a)
    <3>1. i \in 1 .. Len(a)
      BY <1>1, <1>2, <2>1
    <3> QED
      BY <1>1, <1>2, <2>1, <3>1 DEF Rising
  <2>2. CASE j \notin 1 .. Len(a)
    <3>1. j - Len(a) \in 1 .. Len(b) /\ ab[j] = b[j - Len(a)]
      BY <1>1, <2>2
    <3>2. CASE i \in 1 .. Len(a)
      BY <1>1, <3>1, <3>2
    <3>3. CASE i \notin 1 .. Len(a)
      <4>1. i - Len(a) \in 1 .. Len(b) /\ ab[i] = b[i - Len(a)]
        BY <1>1, <3>3
      <4>2. i - Len(a) < j - Len(a)
        BY <1>1, <1>2
      <4> QED
        BY <3>1, <4>1, <4>2 DEF Rising
    <3> QED
      BY <3>2, <3>3
  <2> QED
    BY <2>1, <2>2
<1> QED
  BY <1>2 DEF Rising, ab

(* Parts of two pieces make a part of both. *)
LEMMA PartsJoin ==
  ASSUME NEW a \in Seq(Nat), NEW b \in Seq(Nat), Rising(a \o b),
         NEW x \in Seq(Nat), NEW y \in Seq(Nat), PartOf(x, a), PartOf(y, b)
  PROVE  PartOf(x \o y, a \o b)
<1>1. \A i \in 1 .. Len(a), j \in 1 .. Len(b) : a[i] < b[j]
  BY RisingParts
<1>2. ASSUME NEW i \in 1 .. Len(x), NEW j \in 1 .. Len(y) PROVE x[i] < y[j]
  <2>1. PICK k \in 1 .. Len(a) : x[i] = a[k]
    BY DEF PartOf
  <2>2. PICK m \in 1 .. Len(b) : y[j] = b[m]
    BY DEF PartOf
  <2> QED
    BY <1>1, <2>1, <2>2
<1>3. Rising(x \o y)
  BY <1>2, RisingJoin DEF PartOf
<1> DEFINE xy == x \o y
    ab == a \o b
<1>4. /\ Len(x) \in Nat /\ Len(y) \in Nat /\ Len(xy) = Len(x) + Len(y)
      /\ \A i \in 1 .. Len(x) : xy[i] = x[i]
      /\ \A j \in 1 .. Len(xy) : j \notin 1 .. Len(x) => j - Len(x) \in 1 .. Len(y) /\ xy[j] = y[j - Len(x)]
  BY Concatenated
<1>5. /\ Len(a) \in Nat /\ Len(b) \in Nat /\ Len(ab) = Len(a) + Len(b)
      /\ \A i \in 1 .. Len(a) : ab[i] = a[i]
      /\ \A j \in 1 .. Len(b) : ab[Len(a) + j] = b[j]
  OBVIOUS
<1> HIDE DEF xy, ab
<1>6. ASSUME NEW i \in 1 .. Len(xy) PROVE \E k \in 1 .. Len(ab) : xy[i] = ab[k]
  <2>1. CASE i \in 1 .. Len(x)
    <3>1. PICK k \in 1 .. Len(a) : x[i] = a[k]
      BY <2>1 DEF PartOf
    <3>2. k \in 1 .. Len(ab)
      BY <1>5
    <3> QED
      BY <1>4, <1>5, <2>1, <3>1, <3>2
  <2>2. CASE i \notin 1 .. Len(x)
    <3>1. i - Len(x) \in 1 .. Len(y) /\ xy[i] = y[i - Len(x)]
      BY <1>4, <2>2
    <3>2. PICK k \in 1 .. Len(b) : y[i - Len(x)] = b[k]
      BY <3>1 DEF PartOf
    <3>3. Len(a) + k \in 1 .. Len(ab) /\ ab[Len(a) + k] = b[k]
      BY <1>5
    <3> QED
      BY <3>1, <3>2, <3>3
  <2> QED
    BY <2>1, <2>2
<1> QED
  BY <1>3, <1>6 DEF PartOf, xy, ab

LEMMA PartsOfParts ==
  ASSUME NEW a, NEW b, NEW c, PartOf(a, b), PartOf(b, c)
  PROVE  PartOf(a, c)
<1>1. ASSUME NEW i \in 1 .. Len(a) PROVE \E k \in 1 .. Len(c) : a[i] = c[k]
  <2>1. PICK j \in 1 .. Len(b) : a[i] = b[j]
    BY DEF PartOf
  <2>2. PICK k \in 1 .. Len(c) : b[j] = c[k]
    BY DEF PartOf
  <2> QED
    BY <2>1, <2>2
<1> QED
  BY <1>1 DEF PartOf

(* Parts of consecutive pieces, one after the other, are a part of the whole. *)
LEMMA FlattenParts ==
  ASSUME NEW xs \in Seq(Seq(Nat)), NEW ys \in Seq(Seq(Nat)), Len(xs) = Len(ys),
         Rising(FlattenSeq(ys)), \A n \in 1 .. Len(xs) : PartOf(xs[n], ys[n])
  PROVE  PartOf(FlattenSeq(xs), FlattenSeq(ys))
<1> DEFINE L == Len(xs)
<1>1. L \in Nat /\ L = Len(ys)
  OBVIOUS
<1>2. PICK f \in [0 .. Len(xs) -> Seq(Nat)] : FlattensBy(xs, f)
  BY Flattened
<1>3. PICK g \in [0 .. Len(ys) -> Seq(Nat)] : FlattensBy(ys, g)
  BY Flattened
<1>4. /\ f[0] = <<>> /\ f[L] = FlattenSeq(xs) /\ \A n \in 1 .. L : f[n] = f[n - 1] \o xs[n]
      /\ g[0] = <<>> /\ g[L] = FlattenSeq(ys) /\ \A n \in 1 .. L : g[n] = g[n - 1] \o ys[n]
  BY <1>1, <1>2, <1>3, Zenon DEF FlattensBy
<1>5. \A n \in 0 .. L : f[n] \in Seq(Nat) /\ g[n] \in Seq(Nat)
  BY <1>1, <1>2, <1>3
<1>6. \A n \in 1 .. L : xs[n] \in Seq(Nat) /\ ys[n] \in Seq(Nat) /\ PartOf(xs[n], ys[n])
  OBVIOUS
<1> HIDE DEF L
<1> DEFINE P == {n \in 0 .. L : Rising(g[n]) => PartOf(f[n], g[n])}
<1>7. 0 \in P
  <2>1. PartOf(<<>>, <<>>)
    BY DEF PartOf, Rising
  <2>2. 0 \in 0 .. L
    BY <1>1
  <2> QED
    BY <1>4, <2>1, <2>2, Zenon
<1>8. ASSUME NEW n \in 1 .. L, n - 1 \in P PROVE n \in P
  <2>1. n \in 0 .. L /\ n - 1 \in 0 .. L
    BY <1>1
  <2>2. f[n] = f[n - 1] \o xs[n] /\ g[n] = g[n - 1] \o ys[n]
    BY <1>4, Zenon
  <2>3. /\ f[n - 1] \in Seq(Nat) /\ g[n - 1] \in Seq(Nat) /\ xs[n] \in Seq(Nat) /\ ys[n] \in Seq(Nat)
        /\ PartOf(xs[n], ys[n])
    BY <1>5, <1>6, <2>1, Zenon
  <2>4. ASSUME Rising(g[n]) PROVE PartOf(f[n], g[n])
    <3>1. Rising(g[n - 1] \o ys[n])
      BY <2>2, <2>4, Zenon
    <3>2. Rising(g[n - 1])
      BY <2>3, <3>1, RisingParts
    <3>3. PartOf(f[n - 1], g[n - 1])
      BY <1>8, <3>2
    <3>4. PartOf(f[n - 1] \o xs[n], g[n - 1] \o ys[n])
      BY <2>3, <3>1, <3>3, PartsJoin
    <3> QED
      BY <2>2, <3>4, Zenon
  <2> QED
    BY <2>1, <2>4
<1>9. \A n \in 0 .. L : n \in P
  <2> HIDE DEF P
  <2> QED
    BY <1>1, <1>7, <1>8, UpTo
<1>10. L \in P
  <2>1. L \in 0 .. L
    BY <1>1
  <2> QED
    BY <1>9, <2>1, Zenon
<1> QED
  BY <1>4, <1>10

LEMMA RisingMembers ==
  ASSUME NEW ys \in Seq(Seq(Nat)), Rising(FlattenSeq(ys))
  PROVE  \A n \in 1 .. Len(ys) : Rising(ys[n])
<1> DEFINE L == Len(ys)
<1>1. L \in Nat /\ \A n \in 1 .. L : ys[n] \in Seq(Nat)
  OBVIOUS
<1>2. PICK g \in [0 .. Len(ys) -> Seq(Nat)] : FlattensBy(ys, g)
  BY Flattened
<1>3. g[0] = <<>> /\ g[L] = FlattenSeq(ys) /\ \A n \in 1 .. L : g[n] = g[n - 1] \o ys[n]
  BY <1>2, Zenon DEF FlattensBy
<1>4. \A n \in 0 .. L : g[n] \in Seq(Nat)
  BY <1>1, <1>2
<1> HIDE DEF L
<1> DEFINE P == {n \in 0 .. L : Rising(g[n]) => \A m \in 1 .. n : Rising(ys[m])}
<1>5. 0 \in P
  BY <1>1
<1>6. ASSUME NEW n \in 1 .. L, n - 1 \in P PROVE n \in P
  <2>1. n \in 0 .. L /\ n - 1 \in 0 .. L
    BY <1>1
  <2>3. g[n] = g[n - 1] \o ys[n]
    BY <1>3, Zenon
  <2>2. ASSUME Rising(g[n]), NEW m \in 1 .. n PROVE Rising(ys[m])
    <3>1. Rising(g[n - 1] \o ys[n])
      BY <2>3, <2>2, Zenon
    <3>2. Rising(g[n - 1]) /\ Rising(ys[n])
      BY <1>1, <1>4, <2>1, <3>1, RisingParts
    <3>3. m \in 1 .. (n - 1) \/ m = n
      BY <1>1
    <3> QED
      BY <1>6, <3>2, <3>3
  <2> QED
    BY <2>1, <2>2
<1>7. \A n \in 0 .. L : n \in P
  <2> HIDE DEF P
  <2> QED
    BY <1>1, <1>5, <1>6, UpTo
<1>8. L \in P
  <2>1. L \in 0 .. L
    BY <1>1
  <2> QED
    BY <1>7, <2>1, Zenon
<1>9. \A m \in 1 .. L : Rising(ys[m])
  BY <1>3, <1>8
<1> QED
  BY <1>9 DEF L

(* Joining and appending commute. *)
LEMMA AppendAfter ==
  ASSUME NEW S, NEW a \in Seq(S), NEW b \in Seq(S), NEW s \in S
  PROVE  a \o Append(b, s) = Append(a \o b, s) /\ a \o b \in Seq(S)
OBVIOUS

(* A prefix has the first elements of what it is a prefix of. *)
LEMMA PrefixMeans ==
  ASSUME NEW S, NEW p \in Seq(S), NEW q \in Seq(S)
  PROVE  IsPrefix(p, q) <=> Len(p) <= Len(q) /\ \A i \in 1 .. Len(p) : p[i] = q[i]
<1>1. Len(p) \in Nat /\ Len(q) \in Nat
  OBVIOUS
<1>2. ASSUME Len(p) <= Len(q)
      PROVE  SubSeq(p, 1, Len(p)) = SubSeq(q, 1, Len(p)) <=> \A i \in 1 .. Len(p) : p[i] = q[i]
  <2> DEFINE L == Len(p)
      a == SubSeq(p, 1, L)
      b == SubSeq(q, 1, L)
  <2>1. a \in Seq(S) /\ Len(a) = L /\ \A i \in 1 .. L : a[i] = p[i]
    BY <1>1, Prefix
  <2>2. b \in Seq(S) /\ Len(b) = L /\ \A i \in 1 .. L : b[i] = q[i]
    BY <1>1, <1>2, Prefix
  <2> HIDE DEF a, b, L
  <2>3. ASSUME \A i \in 1 .. L : p[i] = q[i] PROVE a = b
    <3>1. \A i \in 1 .. L : a[i] = b[i]
      BY <2>1, <2>2, <2>3
    <3> QED
      BY <2>1, <2>2, <3>1, SeqsAgree
  <2>4. a = b => \A i \in 1 .. L : p[i] = q[i]
    BY <2>1, <2>2
  <2>5. a = b <=> \A i \in 1 .. L : p[i] = q[i]
    BY <2>3, <2>4
  <2> QED
    BY <2>5 DEF a, b, L
<1> QED
  BY <1>2, Zenon DEF IsPrefix

(* Bounded sets of numbers have a least and a greatest one. *)
LEMMA Extremes ==
  ASSUME NEW L \in Nat, NEW S, S \subseteq 0 .. L, S # {}
  PROVE  /\ Min(S) \in S /\ \A y \in S : Min(S) <= y
         /\ Max(S) \in S /\ \A y \in S : Max(S) >= y
<1>2. PICK x \in S : \A y \in S : x <= y
  <2>1. S \subseteq Nat
    OBVIOUS
  <2> QED
    BY <2>1, LeastNat
<1>3. PICK z \in S : \A y \in S : z >= y
  <2> DEFINE T == {L - y : y \in S}
  <2>1. T \subseteq Nat /\ T # {}
    OBVIOUS
  <2>2. PICK n \in T : \A m \in T : n <= m
    <3> HIDE DEF T
    <3> QED
      BY <2>1, LeastNat
  <2>3. PICK z \in S : n = L - z
    BY <2>2
  <2>4. ASSUME NEW y \in S PROVE z >= y
    <3>1. n <= L - y
      BY <2>2
    <3> QED
      BY <2>3, <3>1
  <2> QED
    BY <2>4
<1>4. Min(S) \in S /\ \A y \in S : Min(S) <= y
  BY <1>2, Zenon DEF Min
<1>5. Max(S) \in S /\ \A y \in S : Max(S) >= y
  BY <1>3, Zenon DEF Max
<1> QED
  BY <1>4, <1>5

(* Induction over sequences: what holds of the empty one and is kept by     *)
(* appending holds of all.                                                  *)
LEMMA EverySequence ==
  ASSUME NEW M, NEW P, <<>> \in P,
         \A s \in Seq(M), x \in M : s \in P => Append(s, x) \in P
  PROVE  \A s \in Seq(M) : s \in P
<1> SUFFICES ASSUME NEW b \in Seq(M) PROVE b \in P
  OBVIOUS
<1> DEFINE L == Len(b)
    front(n) == SubSeq(b, 1, n)
    Q == {n \in 0 .. L : front(n) \in P}
<1>1. L \in Nat /\ \A n \in 1 .. L : b[n] \in M
  OBVIOUS
<1>2. 0 \in Q
  <2>1. front(0) = <<>> /\ 0 \in 0 .. L
    BY <1>1
  <2> QED
    BY <2>1
<1>3. ASSUME NEW n \in 1 .. L, n - 1 \in Q PROVE n \in Q
  <2> DEFINE w == front(n - 1)
      v == front(n)
      x == Append(w, b[n])
  <2>1. n - 1 \in 0 .. L /\ n \in 0 .. L /\ b[n] \in M
    BY <1>1
  <2>2. w \in Seq(M) /\ Len(w) = n - 1 /\ \A k \in 1 .. n - 1 : w[k] = b[k]
    BY <2>1, Prefix
  <2>3. v \in Seq(M) /\ Len(v) = n /\ \A k \in 1 .. n : v[k] = b[k]
    BY <2>1, Prefix
  <2>4. w \in P
    BY <1>3
  <2> HIDE DEF front, w, v
  <2>5. /\ x \in Seq(M) /\ Len(x) = Len(w) + 1 /\ x[Len(w) + 1] = b[n]
        /\ \A k \in 1 .. Len(w) : x[k] = w[k]
    BY <2>1, <2>2, AppendFacts
  <2> HIDE DEF x
  <2>6. Len(x) = n /\ \A k \in 1 .. n : v[k] = x[k]
    <3>1. x[n] = b[n] /\ Len(x) = n
      BY <2>1, <2>2, <2>5
    <3>2. ASSUME NEW k \in 1 .. n PROVE v[k] = x[k]
      <4>1. CASE k = n
        BY <2>3, <3>1, <4>1
      <4>2. CASE k # n
        <5>1. k \in 1 .. n - 1 /\ k \in 1 .. Len(w)
          BY <2>1, <2>2, <4>2
        <5> QED
          BY <2>2, <2>3, <2>5, <5>1
      <4> QED
        BY <4>1, <4>2
    <3> QED
      BY <3>1, <3>2
  <2>7. v = x
    BY <2>3, <2>5, <2>6, SeqsAgree
  <2>8. x \in P
    BY <2>1, <2>2, <2>4 DEF x
  <2> QED
    BY <2>1, <2>7, <2>8 DEF v
<1>4. \A n \in 0 .. L : n \in Q
  <2> HIDE DEF Q, L
  <2> QED
    BY <1>1, <1>2, <1>3, UpTo
<1>5. L \in 0 .. L /\ front(L) = b
  OBVIOUS
<1> HIDE DEF front
<1> QED
  BY <1>4, <1>5

-----------------------------------------------------------------------------
(* Among: its equations, and what it does to joined sequences. *)

AmongBy(t, S, f) ==
  /\ f[0] = <<>> /\ f[Len(t)] = Among(t, S)
  /\ \A n \in 1 .. Len(t) : f[n] = IF t[n] \in S THEN Append(f[n - 1], t[n]) ELSE f[n - 1]

LEMMA AmongKept ==
  ASSUME NEW M, NEW S, NEW t \in Seq(M)
  PROVE  \E f \in [0 .. Len(t) -> Seq(M)] : AmongBy(t, S, f)
<1> DEFINE L == Len(t)
    X == Seq(M)
    T == [w \in X \X (1 .. L) |-> IF t[w[2]] \in S THEN Append(w[1], t[w[2]]) ELSE w[1]]
    Then(g, n) == IF n = 0 THEN <<>> ELSE IF t[n] \in S THEN Append(g[n - 1], t[n]) ELSE g[n - 1]
    Solves(g) == g = [n \in 0 .. L |-> Then(g, n)]
    none == <<>>
<1>1. L \in Nat /\ none \in X /\ \A n \in 1 .. L : t[n] \in M
  OBVIOUS
<1>2. StaysIn(T, X, L)
  <2>1. ASSUME NEW w \in X \X (1 .. L)
        PROVE  (IF t[w[2]] \in S THEN Append(w[1], t[w[2]]) ELSE w[1]) \in X
    <3>1. w[1] \in Seq(M) /\ t[w[2]] \in M
      BY <1>1
    <3> QED
      BY <3>1, AppendFacts
  <2> HIDE DEF X, L
  <2> QED
    BY <2>1 DEF StaysIn
<1>3. PICK f \in [0 .. L -> X] : f[0] = none /\ \A n \in 1 .. L : f[n] = T[<<f[n - 1], n>>]
  <2> HIDE DEF X, L, T, none
  <2> QED
    BY <1>1, <1>2, Iterated
<1>4. ASSUME NEW n \in 1 .. L
      PROVE  f[n] = IF t[n] \in S THEN Append(f[n - 1], t[n]) ELSE f[n - 1]
  <2>1. f[n - 1] \in X
    <3> HIDE DEF X
    <3> QED
      BY <1>1
  <2>2. T[<<f[n - 1], n>>] = IF t[n] \in S THEN Append(f[n - 1], t[n]) ELSE f[n - 1]
    <3> HIDE DEF X, L
    <3> QED
      BY <2>1
  <2> QED
    BY <1>3, <2>2, Zenon
<1>5. Solves(f)
  <2>1. f = [n \in 0 .. L |-> f[n]]
    OBVIOUS
  <2>2. ASSUME NEW n \in 0 .. L PROVE f[n] = Then(f, n)
    <3>1. CASE n = 0
      BY <1>3, <3>1
    <3>2. CASE n # 0
      <4>1. n \in 1 .. L
        BY <1>1, <3>2
      <4> QED
        BY <1>4, <3>2, <4>1, Zenon
    <3> QED
      BY <3>1, <3>2
  <2> HIDE DEF Then, L
  <2> QED
    BY <2>1, <2>2
<1> DEFINE g == CHOOSE g : Solves(g)
<1>6. Solves(g)
  <2> HIDE DEF Solves
  <2> QED
    BY <1>5
<1>7. Among(t, S) = g[L]
  BY Zenon DEF Among
<1> HIDE DEF g
<1>8. \A n \in 0 .. L : g[n] = Then(g, n)
  <2> HIDE DEF Then
  <2> QED
    BY <1>6
<1>9. g[0] = <<>>
  BY <1>1, <1>8
<1>10. \A n \in 1 .. L : g[n] = IF t[n] \in S THEN Append(g[n - 1], t[n]) ELSE g[n - 1]
  BY <1>1, <1>8
<1> DEFINE P == {n \in 0 .. L : g[n] \in X}
<1>11. 0 \in P
  <2>1. 0 \in 0 .. L /\ g[0] \in X
    <3> HIDE DEF X, L
    <3> QED
      BY <1>1, <1>9
  <2> QED
    BY <2>1
<1>12. ASSUME NEW n \in 1 .. L, n - 1 \in P PROVE n \in P
  <2>1. g[n - 1] \in Seq(M) /\ t[n] \in M /\ n \in 0 .. L
    BY <1>1, <1>12
  <2>2. Append(g[n - 1], t[n]) \in Seq(M)
    BY <2>1, AppendFacts
  <2> QED
    BY <1>10, <2>1, <2>2
<1>13. \A n \in 0 .. L : n \in P
  <2> HIDE DEF P
  <2> QED
    BY <1>1, <1>11, <1>12, UpTo
<1>14. g \in [0 .. L -> X]
  <2>1. g = [n \in 0 .. L |-> Then(g, n)]
    BY <1>6
  <2> HIDE DEF Then, X, L
  <2> QED
    BY <1>13, <2>1
<1> QED
  <2>1. AmongBy(t, S, g)
    BY <1>7, <1>9, <1>10, Zenon DEF AmongBy
  <2> QED
    BY <1>14, <2>1

LEMMA AmongIn ==
  ASSUME NEW M, NEW S, NEW t \in Seq(M)
  PROVE  Among(t, S) \in Seq(M)
<1>1. PICK f \in [0 .. Len(t) -> Seq(M)] : AmongBy(t, S, f)
  BY AmongKept
<1>2. Len(t) \in 0 .. Len(t)
  OBVIOUS
<1> QED
  BY <1>1, <1>2 DEF AmongBy

LEMMA AmongNothing == ASSUME NEW S PROVE Among(<<>>, S) = <<>>
<1> DEFINE t == <<>>
<1>1. t \in Seq({}) /\ Len(t) = 0
  OBVIOUS
<1> HIDE DEF t
<1>2. Among(t, S) = <<>>
  <2>1. PICK f \in [0 .. Len(t) -> Seq({})] : AmongBy(t, S, f)
    BY <1>1, AmongKept
  <2> QED
    BY <1>1, <2>1, Zenon DEF AmongBy
<1> QED
  BY <1>2 DEF t

LEMMA AmongAppended ==
  ASSUME NEW M, NEW S, NEW t \in Seq(M), NEW ch \in M
  PROVE  Among(Append(t, ch), S) = IF ch \in S THEN Append(Among(t, S), ch) ELSE Among(t, S)
<1> DEFINE L == Len(t)
    u == Append(t, ch)
<1>1. /\ u \in Seq(M) /\ Len(u) = L + 1 /\ u[L + 1] = ch /\ L \in Nat
      /\ \A n \in 1 .. L : u[n] = t[n]
  OBVIOUS
<1>2. PICK f \in [0 .. Len(t) -> Seq(M)] : AmongBy(t, S, f)
  BY AmongKept
<1> HIDE DEF u
<1>3. PICK g \in [0 .. Len(u) -> Seq(M)] : AmongBy(u, S, g)
  BY <1>1, AmongKept
<1>4. /\ f[0] = <<>> /\ f[L] = Among(t, S)
      /\ \A n \in 1 .. L : f[n] = IF t[n] \in S THEN Append(f[n - 1], t[n]) ELSE f[n - 1]
      /\ g[0] = <<>> /\ g[L + 1] = Among(u, S)
      /\ \A n \in 1 .. L + 1 : g[n] = IF u[n] \in S THEN Append(g[n - 1], u[n]) ELSE g[n - 1]
  BY <1>1, <1>2, <1>3, Zenon DEF AmongBy
<1> HIDE DEF L
<1> DEFINE P == {n \in 0 .. L : f[n] = g[n]}
<1>5. 0 \in P
  BY <1>1, <1>4
<1>6. ASSUME NEW n \in 1 .. L, n - 1 \in P PROVE n \in P
  <2>1. f[n - 1] = g[n - 1]
    BY <1>6
  <2>2. n \in 1 .. L + 1 /\ n \in 0 .. L
    BY <1>1
  <2>3. f[n] = g[n]
    BY <1>1, <1>4, <2>1, <2>2, Zenon
  <2> QED
    BY <2>2, <2>3
<1>7. \A n \in 0 .. L : n \in P
  <2> HIDE DEF P
  <2> QED
    BY <1>1, <1>5, <1>6, UpTo
<1>8. f[L] = g[L]
  <2>1. L \in 0 .. L
    BY <1>1
  <2>2. L \in P
    BY <1>7, <2>1, Zenon
  <2> QED
    BY <2>2
<1>9. ASSUME NEW n \in 1 .. L + 1, n = L + 1
      PROVE  g[n] = IF ch \in S THEN Append(g[L], ch) ELSE g[L]
  <2>1. g[n] = IF u[n] \in S THEN Append(g[n - 1], u[n]) ELSE g[n - 1]
    BY <1>4, Zenon
  <2>2. n - 1 = L
    BY <1>1, <1>9
  <2> QED
    BY <1>1, <1>9, <2>1, <2>2, Zenon
<1>10. g[L + 1] = IF ch \in S THEN Append(g[L], ch) ELSE g[L]
  <2>1. L + 1 \in 1 .. L + 1
    BY <1>1
  <2> QED
    BY <1>9, <2>1, Zenon
<1> QED
  BY <1>4, <1>8, <1>10, Zenon DEF u

LEMMA AmongJoined ==
  ASSUME NEW M, NEW S, NEW a \in Seq(M), NEW b \in Seq(M)
  PROVE  Among(a \o b, S) = Among(a, S) \o Among(b, S)
<1> DEFINE P == {t \in Seq(M) : Among(a \o t, S) = Among(a, S) \o Among(t, S)}
<1>1. Among(a, S) \in Seq(M)
  BY AmongIn
<1>2. <<>> \in P
  <2>1. a \o <<>> = a /\ Among(a, S) \o <<>> = Among(a, S)
    BY <1>1
  <2>2. Among(<<>>, S) = <<>> /\ <<>> \in Seq(M)
    BY AmongNothing
  <2>3. Among(a \o <<>>, S) = Among(a, S) \o Among(<<>>, S)
    BY <2>1, <2>2, Zenon
  <2> QED
    BY <2>2, <2>3
<1>3. ASSUME NEW w \in Seq(M), NEW c \in M, w \in P PROVE Append(w, c) \in P
  <2> DEFINE v == a \o w
      x == Among(a, S)
      y == Among(w, S)
  <2>1. a \o Append(w, c) = Append(v, c) /\ v \in Seq(M) /\ Append(w, c) \in Seq(M)
    BY AppendAfter, AppendFacts
  <2>2. Among(v, S) = x \o y
    BY <1>3
  <2>3. Among(Append(w, c), S) = IF c \in S THEN Append(y, c) ELSE y
    BY AmongAppended
  <2>4. x \in Seq(M) /\ y \in Seq(M)
    BY <1>1, AmongIn
  <2> HIDE DEF v, x, y
  <2>5. Among(Append(v, c), S) = IF c \in S THEN Append(Among(v, S), c) ELSE Among(v, S)
    BY <2>1, AmongAppended
  <2>6. x \o Append(y, c) = Append(x \o y, c)
    BY <2>4, AppendAfter
  <2>7. Among(a \o Append(w, c), S) = x \o Among(Append(w, c), S)
    BY <2>1, <2>2, <2>3, <2>5, <2>6
  <2> QED
    BY <2>1, <2>7 DEF x
<1>4. \A t \in Seq(M) : t \in P
  <2> HIDE DEF P
  <2> QED
    BY <1>2, <1>3, EverySequence
<1> QED
  BY <1>4

LEMMA NoneAmong ==
  ASSUME NEW M, NEW S, NEW t \in Seq(M), \A n \in 1 .. Len(t) : t[n] \notin S
  PROVE  Among(t, S) = <<>>
<1> DEFINE L == Len(t)
<1>1. L \in Nat
  OBVIOUS
<1>2. PICK f \in [0 .. Len(t) -> Seq(M)] : AmongBy(t, S, f)
  BY AmongKept
<1>3. /\ f[0] = <<>> /\ f[L] = Among(t, S)
      /\ \A n \in 1 .. L : f[n] = IF t[n] \in S THEN Append(f[n - 1], t[n]) ELSE f[n - 1]
  BY <1>2, Zenon DEF AmongBy
<1> DEFINE P == {n \in 0 .. L : f[n] = <<>>}
<1>4. 0 \in P
  BY <1>1, <1>3
<1>5. ASSUME NEW n \in 1 .. L, n - 1 \in P PROVE n \in P
  <2>1. f[n - 1] = <<>> /\ n \in 0 .. L /\ t[n] \notin S
    BY <1>1, <1>5
  <2> QED
    BY <1>3, <2>1
<1>6. \A n \in 0 .. L : n \in P
  <2> HIDE DEF P, L
  <2> QED
    BY <1>1, <1>4, <1>5, UpTo
<1>7. L \in 0 .. L
  BY <1>1
<1>8. f[L] = <<>>
  BY <1>6, <1>7
<1> QED
  BY <1>3, <1>8

(* A sequence whose members are all wanted is kept. *)
LEMMA AllAmong ==
  ASSUME NEW M, NEW S, NEW t \in Seq(M), \A n \in 1 .. Len(t) : t[n] \in S
  PROVE  Among(t, S) = t
<1> DEFINE P == {s \in Seq(M) : (\A n \in 1 .. Len(s) : s[n] \in S) => Among(s, S) = s}
<1>1. <<>> \in P
  BY AmongNothing
<1>2. ASSUME NEW s \in Seq(M), NEW x \in M, s \in P PROVE Append(s, x) \in P
  <2> DEFINE u == Append(s, x)
  <2>1. /\ u \in Seq(M) /\ Len(u) = Len(s) + 1 /\ Len(s) \in Nat
        /\ u[Len(s) + 1] = x /\ \A n \in 1 .. Len(s) : u[n] = s[n]
    BY AppendFacts
  <2>2. Among(u, S) = IF x \in S THEN Append(Among(s, S), x) ELSE Among(s, S)
    BY AmongAppended
  <2>3. (\A n \in 1 .. Len(s) : s[n] \in S) => Among(s, S) = s
    BY <1>2
  <2> HIDE DEF u
  <2>4. ASSUME \A n \in 1 .. Len(u) : u[n] \in S PROVE Among(u, S) = u
    <3>1. x \in S /\ \A n \in 1 .. Len(s) : s[n] \in S
      <4>1. Len(s) + 1 \in 1 .. Len(u) /\ \A n \in 1 .. Len(s) : n \in 1 .. Len(u)
        BY <2>1
      <4> QED
        BY <2>1, <2>4, <4>1, Zenon
    <3> QED
      BY <2>2, <2>3, <3>1, Zenon DEF u
  <2> QED
    BY <2>1, <2>4 DEF u
<1>3. \A s \in Seq(M) : s \in P
  <2> HIDE DEF P
  <2> QED
    BY <1>1, <1>2, EverySequence
<1> QED
  BY <1>3

(* What is kept are the wanted members. *)
LEMMA AmongMembers ==
  ASSUME NEW M, NEW S, NEW t \in Seq(M)
  PROVE  ToSet(Among(t, S)) = ToSet(t) \cap S
<1> DEFINE P == {s \in Seq(M) : ToSet(Among(s, S)) = ToSet(s) \cap S}
<1>1. <<>> \in P
  <2>1. ToSet(<<>>) = {}
    BY DEF ToSet
  <2> QED
    BY <2>1, AmongNothing
<1>2. ASSUME NEW s \in Seq(M), NEW x \in M, s \in P PROVE Append(s, x) \in P
  <2>1. \A v \in Seq(M) : Append(v, x) \in Seq(M) /\ ToSet(Append(v, x)) = ToSet(v) \cup {x}
    <3> TAKE v \in Seq(M)
    <3>1. /\ Append(v, x) \in Seq(M) /\ Len(v) \in Nat
          /\ DOMAIN v = 1 .. Len(v) /\ DOMAIN Append(v, x) = 1 .. Len(v) + 1
          /\ Append(v, x)[Len(v) + 1] = x
          /\ \A n \in 1 .. Len(v) : Append(v, x)[n] = v[n]
      BY AppendFacts
    <3> DEFINE u == Append(v, x)
    <3> HIDE DEF u
    <3>2. ToSet(u) = ToSet(v) \cup {x}
      <4>1. /\ Len(v) \in Nat /\ DOMAIN v = 1 .. Len(v) /\ DOMAIN u = 1 .. Len(v) + 1
            /\ u[Len(v) + 1] = x /\ \A n \in 1 .. Len(v) : u[n] = v[n]
        BY <3>1 DEF u
      <4> QED
        BY <4>1 DEF ToSet
    <3> QED
      BY <3>1, <3>2 DEF u
  <2>2. Among(Append(s, x), S) = IF x \in S THEN Append(Among(s, S), x) ELSE Among(s, S)
    BY AmongAppended
  <2>3. Among(s, S) \in Seq(M)
    BY AmongIn
  <2>4. ToSet(Among(s, S)) = ToSet(s) \cap S
    BY <1>2
  <2>5. ToSet(Append(s, x)) = ToSet(s) \cup {x} /\ Append(s, x) \in Seq(M)
    BY <2>1
  <2>6. ToSet(Append(Among(s, S), x)) = ToSet(Among(s, S)) \cup {x}
    BY <2>1, <2>3
  <2> QED
    BY <2>2, <2>4, <2>5, <2>6
<1>3. \A s \in Seq(M) : s \in P
  <2> HIDE DEF P
  <2> QED
    BY <1>1, <1>2, EverySequence
<1> QED
  BY <1>3

(* Selecting before or after a map. *)
Mapped(g, s) == [n \in DOMAIN s |-> g[s[n]]]

LEMMA MappedIn ==
  ASSUME NEW M, NEW N, NEW g, {g[x] : x \in M} = N, NEW s \in Seq(M)
  PROVE  Mapped(g, s) \in Seq(N)
BY DEF Mapped

LEMMA MappedLen ==
  ASSUME NEW M, NEW g, NEW s \in Seq(M)
  PROVE  Len(Mapped(g, s)) = Len(s) /\ \A n \in 1 .. Len(s) : Mapped(g, s)[n] = g[s[n]]
BY DEF Mapped

LEMMA MappedAppend ==
  ASSUME NEW M, NEW g, NEW s \in Seq(M), NEW x \in M
  PROVE  Mapped(g, Append(s, x)) = Append(Mapped(g, s), g[x])
<1> DEFINE u == Append(s, x)
    a == Mapped(g, s)
    b == Mapped(g, u)
    c == Append(a, g[x])
    L == Len(s)
    N == {g[y] : y \in M}
<1>0. g[x] \in N /\ {g[y] : y \in M} = N
  OBVIOUS
<1> HIDE DEF N
<1>1. u \in Seq(M) /\ Len(u) = L + 1 /\ L \in Nat /\ u[L + 1] = x /\ \A n \in 1 .. L : u[n] = s[n]
  BY AppendFacts
<1>2. a \in Seq(N) /\ Len(a) = L /\ \A n \in 1 .. L : a[n] = g[s[n]]
  <2>1. Mapped(g, s) \in Seq(N)
    BY <1>0, MappedIn, Zenon
  <2> QED
    BY <2>1, MappedLen
<1> HIDE DEF u
<1>3. b \in Seq(N) /\ Len(b) = L + 1 /\ \A n \in 1 .. L + 1 : b[n] = g[u[n]]
  <2>1. b \in Seq(N)
    BY <1>0, <1>1, MappedIn, Zenon
  <2>2. Len(b) = L + 1 /\ \A n \in 1 .. L + 1 : b[n] = g[u[n]]
    BY <1>1, MappedLen
  <2> QED
    BY <2>1, <2>2
<1> HIDE DEF a, b
<1>4. g[x] \in N
  BY <1>0
<1>5. /\ c \in Seq(N) /\ Len(c) = Len(a) + 1 /\ c[Len(a) + 1] = g[x]
      /\ \A n \in 1 .. Len(a) : c[n] = a[n]
  BY <1>2, <1>4, AppendFacts
<1> HIDE DEF c, L
<1>6. ASSUME NEW n \in 1 .. L + 1 PROVE b[n] = c[n]
  <2>1. CASE n = L + 1
    BY <1>1, <1>2, <1>3, <1>5, <2>1
  <2>2. CASE n # L + 1
    <3>1. n \in 1 .. L
      BY <1>1, <2>2
    <3> QED
      BY <1>1, <1>2, <1>3, <1>5, <3>1
  <2> QED
    BY <2>1, <2>2
<1>7. b = c
  BY <1>2, <1>3, <1>5, <1>6, SeqsAgree
<1> QED
  BY <1>7 DEF b, c, a, u

LEMMA AmongMapped ==
  ASSUME NEW M, NEW g, NEW S, NEW T, \A x \in M : g[x] \in T <=> x \in S, NEW t \in Seq(M)
  PROVE  Among(Mapped(g, t), T) = Mapped(g, Among(t, S))
<1> DEFINE P == {s \in Seq(M) : Among(Mapped(g, s), T) = Mapped(g, Among(s, S))}
    N == {g[x] : x \in M}
<1>0. {g[x] : x \in M} = N /\ \A x \in M : g[x] \in N
  OBVIOUS
<1> HIDE DEF N
<1>1. <<>> \in P
  <2>1. Mapped(g, <<>>) = <<>>
    BY DEF Mapped
  <2> QED
    BY <2>1, AmongNothing
<1>2. ASSUME NEW s \in Seq(M), NEW x \in M, s \in P PROVE Append(s, x) \in P
  <2> DEFINE m == Mapped(g, s)
      k == Among(s, S)
  <2>1. m \in Seq(N) /\ k \in Seq(M) /\ g[x] \in N
    BY <1>0, MappedIn, AmongIn
  <2>2. Among(m, T) = Mapped(g, k)
    BY <1>2
  <2>3. Mapped(g, Append(s, x)) = Append(m, g[x])
    BY MappedAppend
  <2>4. Among(Append(s, x), S) = IF x \in S THEN Append(k, x) ELSE k
    BY AmongAppended
  <2> HIDE DEF m, k
  <2>5. Among(Append(m, g[x]), T) = IF g[x] \in T THEN Append(Among(m, T), g[x]) ELSE Among(m, T)
    <3> DEFINE y == g[x]
    <3>1. m \in Seq(N) /\ y \in N
      BY <2>1
    <3> HIDE DEF y
    <3>2. Among(Append(m, y), T) = IF y \in T THEN Append(Among(m, T), y) ELSE Among(m, T)
      BY <3>1, AmongAppended
    <3> QED
      BY <3>2 DEF y
  <2>6. Mapped(g, Append(k, x)) = Append(Mapped(g, k), g[x])
    BY <2>1, MappedAppend
  <2>7. Among(Mapped(g, Append(s, x)), T) = Mapped(g, Among(Append(s, x), S))
    <3>1. CASE x \in S
      <4>1. g[x] \in T
        BY <3>1
      <4> QED
        BY <2>2, <2>3, <2>4, <2>5, <2>6, <3>1, <4>1
    <3>2. CASE x \notin S
      <4>1. g[x] \notin T
        BY <3>2
      <4> QED
        BY <2>2, <2>3, <2>4, <2>5, <3>2, <4>1
    <3> QED
      BY <3>1, <3>2
  <2>8. Append(s, x) \in Seq(M)
    BY AppendFacts
  <2> QED
    BY <2>7, <2>8
<1>3. \A s \in Seq(M) : s \in P
  <2> HIDE DEF P
  <2> QED
    BY <1>1, <1>2, EverySequence
<1> QED
  BY <1>3

LEMMA JoinedLeft ==
  ASSUME NEW S, NEW a \in Seq(S), NEW b \in Seq(S), NEW k \in 1 .. Len(a)
  PROVE  k \in 1 .. Len(a \o b) /\ (a \o b)[k] = a[k]
OBVIOUS

LEMMA JoinedMembers ==
  ASSUME NEW S, NEW a \in Seq(S), NEW b \in Seq(S)
  PROVE  ToSet(a \o b) = ToSet(a) \cup ToSet(b)
<1> DEFINE c == a \o b
<1>1. /\ Len(a) \in Nat /\ Len(b) \in Nat /\ DOMAIN a = 1 .. Len(a) /\ DOMAIN b = 1 .. Len(b)
      /\ DOMAIN c = 1 .. Len(c)
  OBVIOUS
<1>2. /\ Len(c) = Len(a) + Len(b)
      /\ \A k \in 1 .. Len(a) : c[k] = a[k]
      /\ \A k \in 1 .. Len(c) : k \notin 1 .. Len(a) => k - Len(a) \in 1 .. Len(b) /\ c[k] = b[k - Len(a)]
  BY Concatenated
<1> HIDE DEF c
<1>3. ASSUME NEW x \in ToSet(c) PROVE x \in ToSet(a) \cup ToSet(b)
  <2>1. PICK k \in 1 .. Len(c) : x = c[k]
    BY <1>1 DEF ToSet
  <2>2. CASE k \in 1 .. Len(a)
    BY <1>1, <1>2, <2>1, <2>2 DEF ToSet
  <2>3. CASE k \notin 1 .. Len(a)
    BY <1>1, <1>2, <2>1, <2>3 DEF ToSet
  <2> QED
    BY <2>2, <2>3
<1>4. ASSUME NEW x \in ToSet(a) PROVE x \in ToSet(c)
  <2>1. PICK k \in 1 .. Len(a) : x = a[k]
    BY <1>1 DEF ToSet
  <2>2. k \in 1 .. Len(c) /\ x = c[k]
    BY <1>1, <1>2, <2>1
  <2> QED
    BY <1>1, <2>2 DEF ToSet
<1>5. ASSUME NEW x \in ToSet(b) PROVE x \in ToSet(c)
  <2>1. PICK k \in 1 .. Len(b) : x = b[k]
    BY <1>1 DEF ToSet
  <2> DEFINE m == Len(a) + k
  <2>2. m \in 1 .. Len(c) /\ m \notin 1 .. Len(a) /\ m - Len(a) = k
    BY <1>1, <1>2
  <2> HIDE DEF m
  <2>3. x = c[m]
    BY <1>2, <2>1, <2>2
  <2> QED
    BY <1>1, <2>2, <2>3 DEF ToSet
<1> QED
  BY <1>3, <1>4, <1>5 DEF c

LEMMA MappedJoined ==
  ASSUME NEW M, NEW g, NEW a \in Seq(M), NEW b \in Seq(M)
  PROVE  Mapped(g, a \o b) = Mapped(g, a) \o Mapped(g, b)
<1> DEFINE N == {g[x] : x \in M}
    ab == a \o b
    x == Mapped(g, a)
    y == Mapped(g, b)
    z == Mapped(g, ab)
    xy == x \o y
    L == Len(a)
    K == Len(b)
<1>0. {g[v] : v \in M} = N
  OBVIOUS
<1>1. /\ ab \in Seq(M) /\ L \in Nat /\ K \in Nat /\ Len(ab) = L + K
      /\ \A k \in 1 .. L : ab[k] = a[k]
      /\ \A k \in 1 .. L + K : k \notin 1 .. L => k - L \in 1 .. K /\ ab[k] = b[k - L]
  <2>1. Len(b) \in Nat
    OBVIOUS
  <2> QED
    BY <2>1, Concatenated
<1> HIDE DEF N, ab, L, K
<1>2. /\ Len(x) = L /\ \A n \in 1 .. L : x[n] = g[a[n]]
      /\ Len(y) = K /\ \A n \in 1 .. K : y[n] = g[b[n]]
      /\ Len(z) = L + K /\ \A n \in 1 .. L + K : z[n] = g[ab[n]]
  <2>1. Len(x) = L /\ \A n \in 1 .. L : x[n] = g[a[n]]
    BY MappedLen DEF L
  <2>2. Len(y) = K /\ \A n \in 1 .. K : y[n] = g[b[n]]
    BY MappedLen DEF K
  <2>3. Len(z) = Len(ab) /\ \A n \in 1 .. Len(ab) : z[n] = g[ab[n]]
    BY <1>1, MappedLen
  <2> HIDE DEF x, y, z
  <2> QED
    BY <1>1, <2>1, <2>2, <2>3
<1>3. x \in Seq(N) /\ y \in Seq(N) /\ z \in Seq(N)
  BY <1>0, <1>1, MappedIn, Zenon
<1> HIDE DEF x, y, z
<1>4. /\ xy \in Seq(N) /\ Len(xy) = L + K
      /\ \A k \in 1 .. L : xy[k] = x[k]
      /\ \A k \in 1 .. L + K : k \notin 1 .. L => xy[k] = y[k - L]
  <2>1. /\ xy \in Seq(N) /\ Len(xy) = Len(x) + Len(y)
        /\ \A k \in 1 .. Len(x) : xy[k] = x[k]
        /\ \A k \in 1 .. Len(xy) : k \notin 1 .. Len(x) => xy[k] = y[k - Len(x)]
    BY <1>3, Concatenated
  <2> HIDE DEF xy
  <2> QED
    BY <1>2, <2>1
<1> HIDE DEF xy
<1>5. ASSUME NEW k \in 1 .. L + K PROVE z[k] = xy[k]
  <2>1. CASE k \in 1 .. L
    <3>1. xy[k] = g[a[k]] /\ ab[k] = a[k]
      BY <1>1, <1>2, <1>4, <2>1
    <3> QED
      BY <1>2, <3>1
  <2>2. CASE k \notin 1 .. L
    <3> DEFINE o == k - L
    <3>1. o \in 1 .. K /\ ab[k] = b[o] /\ xy[k] = y[o]
      BY <1>1, <1>4, <2>2
    <3> HIDE DEF o
    <3> QED
      BY <1>2, <3>1
  <2> QED
    BY <2>1, <2>2
<1>6. z = xy
  BY <1>2, <1>3, <1>4, <1>5, SeqsAgree
<1> QED
  BY <1>6 DEF x, y, z, xy, ab

LEMMA AppendPair ==
  ASSUME NEW X, NEW a \in X, NEW b \in X
  PROVE  <<a, b>> = Append(<<a>>, b)
<1> DEFINE x == <<a>>
    y == <<a, b>>
    z == Append(x, b)
<1>1. x \in Seq(X) /\ Len(x) = 1 /\ x[1] = a
  OBVIOUS
<1>2. y \in Seq(X) /\ Len(y) = 2 /\ y[1] = a /\ y[2] = b
  OBVIOUS
<1> HIDE DEF x, y
<1>3. z \in Seq(X) /\ Len(z) = Len(x) + 1 /\ z[Len(x) + 1] = b /\ \A n \in 1 .. Len(x) : z[n] = x[n]
  <2>1. x \in Seq(X)
    BY <1>1
  <2> QED
    BY <2>1, AppendFacts
<1> HIDE DEF z
<1>4. \A n \in 1 .. 2 : y[n] = z[n]
  BY <1>1, <1>2, <1>3
<1>5. y = z
  BY <1>1, <1>2, <1>3, <1>4, SeqsAgree
<1> QED
  BY <1>5 DEF x, y, z

LEMMA FlattenPair ==
  ASSUME NEW S, NEW a \in Seq(S), NEW b \in Seq(S)
  PROVE  FlattenSeq(<<a, b>>) = a \o b
<1> DEFINE X == Seq(S)
    none == <<>>
    one == Append(none, a)
<1>1. none \in Seq(X) /\ a \in X /\ b \in X
  OBVIOUS
<1>2. one \in Seq(X) /\ Append(one, b) = <<a, b>>
  <2> HIDE DEF X
  <2>1. one \in Seq(X)
    BY <1>1, AppendFacts
  <2>2. one = <<a>>
    OBVIOUS
  <2>3. Append(<<a>>, b) = <<a, b>>
    BY <1>1, AppendPair
  <2> QED
    BY <2>1, <2>2, <2>3
<1> HIDE DEF one
<1>3. FlattenSeq(<<a, b>>) = FlattenSeq(one) \o b
  BY <1>2, FlattenAppend
<1>4. FlattenSeq(one) = FlattenSeq(none) \o a
  BY <1>1, FlattenAppend DEF one
<1>5. FlattenSeq(none) = none
  BY FlattenNone
<1>6. none \o a = a
  OBVIOUS
<1> QED
  BY <1>3, <1>4, <1>5, <1>6

LEMMA AppendJoined ==
  ASSUME NEW S, NEW a \in Seq(S), NEW b \in Seq(S), NEW x \in S
  PROVE  a \o Append(b, x) = Append(a \o b, x)
<1> DEFINE bx == Append(b, x)
    ab == a \o b
    u == a \o bx
    v == Append(ab, x)
<1>1. /\ bx \in Seq(S) /\ Len(bx) = Len(b) + 1 /\ bx[Len(b) + 1] = x
      /\ Len(b) \in Nat /\ \A n \in 1 .. Len(b) : bx[n] = b[n]
  BY AppendFacts
<1>2. /\ ab \in Seq(S) /\ Len(a) \in Nat /\ Len(ab) = Len(a) + Len(b)
      /\ \A k \in 1 .. Len(a) : ab[k] = a[k]
      /\ \A k \in 1 .. Len(ab) : k \notin 1 .. Len(a) =>
           k - Len(a) \in 1 .. Len(b) /\ ab[k] = b[k - Len(a)]
  BY Concatenated
<1> HIDE DEF bx, ab
<1>3. /\ u \in Seq(S) /\ Len(u) = Len(a) + Len(bx)
      /\ \A k \in 1 .. Len(a) : u[k] = a[k]
      /\ \A k \in 1 .. Len(u) : k \notin 1 .. Len(a) =>
           k - Len(a) \in 1 .. Len(bx) /\ u[k] = bx[k - Len(a)]
  <2>1. bx \in Seq(S)
    BY <1>1
  <2> QED
    BY <2>1, Concatenated
<1>4. /\ v \in Seq(S) /\ Len(v) = Len(ab) + 1 /\ v[Len(ab) + 1] = x
      /\ \A n \in 1 .. Len(ab) : v[n] = ab[n]
  <2>1. ab \in Seq(S)
    BY <1>2
  <2> QED
    BY <2>1, AppendFacts
<1> HIDE DEF u, v
<1> DEFINE L == Len(a)
    K == Len(b)
<1>5. L \in Nat /\ K \in Nat /\ Len(u) = L + K + 1 /\ Len(v) = L + K + 1
  BY <1>1, <1>2, <1>3, <1>4
<1>6. ASSUME NEW k \in 1 .. L + K + 1 PROVE u[k] = v[k]
  <2>1. CASE k \in 1 .. L
    <3>1. k \in 1 .. Len(ab)
      BY <1>2, <1>5, <2>1
    <3> QED
      BY <1>2, <1>3, <1>4, <2>1, <3>1
  <2>2. CASE k \notin 1 .. L /\ k # L + K + 1
    <3>1. k \in 1 .. Len(ab) /\ k \in 1 .. Len(u)
      BY <1>2, <1>5, <2>2
    <3>2. k - L \in 1 .. K /\ v[k] = b[k - L] /\ u[k] = bx[k - L]
      BY <1>2, <1>3, <1>4, <2>2, <3>1
    <3> HIDE DEF K, L
    <3> QED
      BY <1>1, <3>2 DEF K
  <2>3. CASE k = L + K + 1
    <3>1. k \in 1 .. Len(u) /\ k \notin 1 .. L /\ k - L = K + 1
      BY <1>5, <2>3
    <3>2. u[k] = bx[K + 1]
      BY <1>3, <3>1
    <3>3. v[k] = x
      BY <1>2, <1>4, <2>3
    <3> QED
      BY <1>1, <3>2, <3>3
  <2> QED
    BY <2>1, <2>2, <2>3
<1> HIDE DEF L, K
<1>7. u = v
  BY <1>3, <1>4, <1>5, <1>6, SeqsAgree
<1> QED
  BY <1>7 DEF u, v, bx, ab

LEMMA JoinedIn ==
  ASSUME NEW S, NEW a \in Seq(S), NEW b \in Seq(S) PROVE a \o b \in Seq(S)
OBVIOUS

LEMMA JoinedNothing ==
  ASSUME NEW S, NEW a \in Seq(S) PROVE a \o <<>> = a /\ <<>> \o a = a
OBVIOUS

LEMMA JoinedTwice ==
  ASSUME NEW S, NEW a \in Seq(S), NEW b \in Seq(S), NEW c \in Seq(S)
  PROVE  a \o (b \o c) = (a \o b) \o c
<1> DEFINE P == {t \in Seq(S) : a \o (b \o t) = (a \o b) \o t}
<1>0. a \o b \in Seq(S)
  BY JoinedIn
<1>1. <<>> \in P
  BY <1>0, JoinedNothing
<1>2. ASSUME NEW t \in Seq(S), NEW x \in S, t \in P PROVE Append(t, x) \in P
  <2>1. b \o t \in Seq(S) /\ Append(t, x) \in Seq(S)
    BY JoinedIn
  <2>2. b \o Append(t, x) = Append(b \o t, x)
    BY AppendJoined
  <2>3. a \o Append(b \o t, x) = Append(a \o (b \o t), x)
    BY <2>1, AppendJoined
  <2>4. (a \o b) \o Append(t, x) = Append((a \o b) \o t, x)
    BY <1>0, AppendJoined
  <2>5. a \o (b \o t) = (a \o b) \o t
    BY <1>2
  <2> QED
    BY <2>1, <2>2, <2>3, <2>4, <2>5
<1>3. \A t \in Seq(S) : t \in P
  <2> HIDE DEF P
  <2> QED
    BY <1>1, <1>2, EverySequence
<1> QED
  BY <1>3

(* Flattening what is joined. *)
LEMMA FlattenJoined ==
  ASSUME NEW S, NEW a \in Seq(Seq(S)), NEW b \in Seq(Seq(S))
  PROVE  FlattenSeq(a \o b) = FlattenSeq(a) \o FlattenSeq(b)
<1> DEFINE M == Seq(S)
    P == {t \in Seq(M) : FlattenSeq(a \o t) = FlattenSeq(a) \o FlattenSeq(t)}
    fa == FlattenSeq(a)
<1>0. fa \in Seq(S)
  BY FlattenIn
<1>1. <<>> \in P
  <2>1. a \o <<>> = a /\ fa \o <<>> = fa /\ <<>> \in Seq(M)
    BY <1>0, JoinedNothing
  <2> QED
    BY <2>1, FlattenNone
<1>2. ASSUME NEW t \in Seq(M), NEW x \in M, t \in P PROVE Append(t, x) \in P
  <2>0. t \in Seq(Seq(S)) /\ x \in Seq(S) /\ Append(t, x) \in Seq(M)
    BY AppendFacts
  <2>1. a \o t \in Seq(Seq(S)) /\ FlattenSeq(t) \in Seq(S)
    <3>1. FlattenSeq(t) \in Seq(S)
      BY <2>0, FlattenIn
    <3> HIDE DEF M
    <3> QED
      BY <2>0, <3>1, JoinedIn
  <2>2. a \o Append(t, x) = Append(a \o t, x)
    <3>1. a \in Seq(M)
      OBVIOUS
    <3> HIDE DEF M
    <3> QED
      BY <3>1, AppendJoined
  <2>3. FlattenSeq(Append(a \o t, x)) = FlattenSeq(a \o t) \o x
    BY <2>0, <2>1, FlattenAppend
  <2>4. FlattenSeq(Append(t, x)) = FlattenSeq(t) \o x
    BY <2>0, FlattenAppend
  <2>5. fa \o (FlattenSeq(t) \o x) = (fa \o FlattenSeq(t)) \o x
    BY <1>0, <2>0, <2>1, JoinedTwice
  <2>6. FlattenSeq(a \o t) = fa \o FlattenSeq(t)
    BY <1>2
  <2> HIDE DEF fa
  <2>7. FlattenSeq(a \o Append(t, x)) = fa \o FlattenSeq(Append(t, x))
    BY <2>2, <2>3, <2>4, <2>5, <2>6
  <2> QED
    BY <2>0, <2>7 DEF fa
<1>3. \A t \in Seq(M) : t \in P
  <2> HIDE DEF P, M
  <2> QED
    BY <1>1, <1>2, EverySequence
<1> QED
  BY <1>3

LEMMA FlattenOne == ASSUME NEW S, NEW a \in Seq(S) PROVE FlattenSeq(<<a>>) = a
<1> DEFINE none == <<>>
<1>1. none \in Seq(Seq(S)) /\ Append(none, a) = <<a>> /\ none \o a = a
  OBVIOUS
<1>2. FlattenSeq(none) = none
  BY FlattenNone
<1>3. FlattenSeq(Append(none, a)) = FlattenSeq(none) \o a
  BY <1>1, FlattenAppend
<1> QED
  BY <1>1, <1>2, <1>3

LEMMA FlattenTriple ==
  ASSUME NEW S, NEW a \in Seq(S), NEW b \in Seq(S), NEW c \in Seq(S),
         NEW t \in Seq(Seq(S)), Len(t) = 3, t[1] = a, t[2] = b, t[3] = c
  PROVE  FlattenSeq(t) = (a \o b) \o c
<1> DEFINE X == Seq(S)
    two == <<a, b>>
    then == Append(two, c)
<1>1. two \in Seq(X) /\ Len(two) = 2 /\ two[1] = a /\ two[2] = b /\ c \in X
  OBVIOUS
<1>2. FlattenSeq(two) = a \o b
  BY FlattenPair
<1>3. FlattenSeq(then) = FlattenSeq(two) \o c
  <2> HIDE DEF two
  <2>1. two \in Seq(Seq(S))
    BY <1>1
  <2> QED
    BY <2>1, FlattenAppend
<1>4. then = t
  <2> t \in Seq(X)
    OBVIOUS
  <2> HIDE DEF two, X
  <2>1. /\ then \in Seq(X) /\ Len(then) = Len(two) + 1 /\ then[Len(two) + 1] = c
        /\ \A n \in 1 .. Len(two) : then[n] = two[n]
    <3>1. two \in Seq(X) /\ c \in X
      BY <1>1
    <3> QED
      BY <3>1, AppendFacts
  <2> HIDE DEF then
  <2>2. \A n \in 1 .. 3 : then[n] = t[n]
    BY <1>1, <2>1
  <2>3. then \in Seq(X) /\ t \in Seq(X) /\ Len(then) = 3 /\ Len(t) = 3
    BY <1>1, <2>1
  <2> QED
    BY <2>2, <2>3, SeqsAgree
<1> QED
  BY <1>2, <1>3, <1>4

(* A map to sequences goes through flattening. *)
ToSequences(g, M, S) == \A x \in M : g[x] \in Seq(S)

LEMMA FlattenMapped ==
  ASSUME NEW M, NEW S, NEW g, ToSequences(g, M, S),
         NEW h, \A s \in Seq(M) : h[s] = FlattenSeq(Mapped(g, s)), NEW ss \in Seq(Seq(M))
  PROVE  /\ \A s \in Seq(M) : Mapped(g, s) \in Seq(Seq(S)) /\ h[s] \in Seq(S)
         /\ FlattenSeq(Mapped(g, FlattenSeq(ss))) = FlattenSeq(Mapped(h, ss))
<1> DEFINE N == Seq(M)
    P == {tt \in Seq(N) : FlattenSeq(Mapped(g, FlattenSeq(tt))) = FlattenSeq(Mapped(h, tt))}
<1>1. ASSUME NEW s \in Seq(M) PROVE Mapped(g, s) \in Seq(Seq(S))
  BY DEF Mapped, ToSequences
<1>2. ASSUME NEW s \in Seq(M) PROVE h[s] = FlattenSeq(Mapped(g, s)) /\ h[s] \in Seq(S)
  BY <1>1, FlattenIn
<1>3. <<>> \in P
  <2>1. Mapped(g, <<>>) = <<>> /\ Mapped(h, <<>>) = <<>> /\ <<>> \in Seq(N)
    BY DEF Mapped
  <2> QED
    BY <2>1, FlattenNone
<1>4. ASSUME NEW tt \in Seq(N), NEW s \in N, tt \in P PROVE Append(tt, s) \in P
  <2> DEFINE f == FlattenSeq(tt)
  <2>1. f \in Seq(M) /\ s \in Seq(M) /\ Append(tt, s) \in Seq(N)
    BY FlattenIn
  <2>2. FlattenSeq(Append(tt, s)) = f \o s
    BY FlattenAppend
  <2>3. Mapped(h, Append(tt, s)) = Append(Mapped(h, tt), h[s])
    <3> HIDE DEF N
    <3> QED
      BY MappedAppend
  <2>4. Mapped(h, tt) \in Seq(Seq(S))
    <3>1. \A x \in N : h[x] \in Seq(S)
      BY <1>2
    <3> DEFINE T == Seq(S)
    <3> HIDE DEF N, T
    <3>2. \A x \in N : h[x] \in T
      BY <3>1 DEF T
    <3>3. Mapped(h, tt) \in Seq(T)
      <4> DEFINE V == {h[x] : x \in N}
      <4>1. V \subseteq T
        BY <3>2
      <4>2. V = {h[x] : x \in N}
        OBVIOUS
      <4> HIDE DEF V
      <4>3. Mapped(h, tt) \in Seq(V)
        BY <4>2, MappedIn, Zenon
      <4> QED
        BY <4>1, <4>3
    <3> QED
      BY <3>3 DEF T
  <2> HIDE DEF f
  <2>5. Mapped(g, f \o s) = Mapped(g, f) \o Mapped(g, s)
    BY <2>1, MappedJoined
  <2>6. FlattenSeq(Mapped(g, f) \o Mapped(g, s)) = FlattenSeq(Mapped(g, f)) \o FlattenSeq(Mapped(g, s))
    BY <1>1, <2>1, FlattenJoined
  <2>7. FlattenSeq(Append(Mapped(h, tt), h[s])) = FlattenSeq(Mapped(h, tt)) \o h[s]
    BY <1>2, <2>1, <2>4, FlattenAppend
  <2>8. FlattenSeq(Mapped(g, f)) = FlattenSeq(Mapped(h, tt))
    BY <1>4 DEF f
  <2>9. h[s] = FlattenSeq(Mapped(g, s))
    BY <1>2, <2>1
  <2>10. FlattenSeq(Mapped(g, FlattenSeq(Append(tt, s)))) = FlattenSeq(Mapped(h, Append(tt, s)))
    BY <2>2, <2>3, <2>5, <2>6, <2>7, <2>8, <2>9
  <2> QED
    BY <2>1, <2>10
<1>5. \A tt \in Seq(N) : tt \in P
  <2> HIDE DEF P, N
  <2> QED
    BY <1>3, <1>4, EverySequence
<1> QED
  BY <1>1, <1>2, <1>5

(* The members of a flattened sequence are those of its parts. *)
LEMMA FlattenMembers ==
  ASSUME NEW S, NEW ss \in Seq(Seq(S))
  PROVE  \A x : x \in ToSet(FlattenSeq(ss)) <=> \E n \in 1 .. Len(ss) : x \in ToSet(ss[n])
<1> DEFINE M == Seq(S)
    Holds(tt) == \A x : x \in ToSet(FlattenSeq(tt)) <=> \E n \in 1 .. Len(tt) : x \in ToSet(tt[n])
    P == {tt \in Seq(M) : Holds(tt)}
<1>1. <<>> \in P
  <2>1. ToSet(<<>>) = {} /\ Len(<<>>) = 0 /\ <<>> \in Seq(M)
    BY DEF ToSet
  <2>2. Holds(<<>>)
    BY <2>1, FlattenNone
  <2> HIDE DEF Holds
  <2> QED
    BY <2>1, <2>2
<1>2. ASSUME NEW tt \in Seq(M), NEW s \in M, tt \in P PROVE Append(tt, s) \in P
  <2> DEFINE u == Append(tt, s)
      f == FlattenSeq(tt)
  <2>1. f \in Seq(S) /\ s \in Seq(S)
    BY FlattenIn
  <2>2. FlattenSeq(u) = f \o s
    BY FlattenAppend
  <2>3. ToSet(f \o s) = ToSet(f) \cup ToSet(s)
    BY <2>1, JoinedMembers
  <2>4. Holds(tt)
    BY <1>2
  <2>5. /\ u \in Seq(M) /\ Len(u) = Len(tt) + 1 /\ Len(tt) \in Nat /\ u[Len(tt) + 1] = s
        /\ \A n \in 1 .. Len(tt) : u[n] = tt[n]
    <3> HIDE DEF M
    <3> QED
      BY AppendFacts
  <2> HIDE DEF u
  <2>6. ASSUME NEW x PROVE x \in ToSet(FlattenSeq(u)) <=> \E n \in 1 .. Len(u) : x \in ToSet(u[n])
    <3>1. x \in ToSet(FlattenSeq(u)) <=> x \in ToSet(f) \/ x \in ToSet(s)
      BY <2>2, <2>3
    <3>2. x \in ToSet(f) <=> \E n \in 1 .. Len(tt) : x \in ToSet(tt[n])
      BY <2>4
    <3>3. ASSUME NEW n \in 1 .. Len(u), x \in ToSet(u[n]) PROVE x \in ToSet(f) \/ x \in ToSet(s)
      <4>1. CASE n = Len(tt) + 1
        BY <2>5, <3>3, <4>1
      <4>2. CASE n # Len(tt) + 1
        <5>1. n \in 1 .. Len(tt)
          BY <2>5, <4>2
        <5> QED
          BY <2>5, <3>2, <3>3, <5>1
      <4> QED
        BY <4>1, <4>2
    <3>4. ASSUME x \in ToSet(s) PROVE \E n \in 1 .. Len(u) : x \in ToSet(u[n])
      <4>1. Len(tt) + 1 \in 1 .. Len(u)
        BY <2>5
      <4> QED
        BY <2>5, <3>4, <4>1
    <3>5. ASSUME NEW n \in 1 .. Len(tt), x \in ToSet(tt[n]) PROVE \E m \in 1 .. Len(u) : x \in ToSet(u[m])
      <4>1. n \in 1 .. Len(u)
        BY <2>5
      <4> QED
        BY <2>5, <3>5, <4>1
    <3> QED
      BY <3>1, <3>2, <3>3, <3>4, <3>5
  <2>7. Holds(u)
    BY <2>6
  <2> HIDE DEF Holds
  <2> QED
    BY <2>5, <2>7 DEF u
<1>3. \A tt \in Seq(M) : tt \in P
  <2> HIDE DEF P, M
  <2> QED
    BY <1>1, <1>2, EverySequence
<1> QED
  BY <1>3

(* Only one of the sequences put together has members in a set. *)
LEMMA AmongSingle ==
  ASSUME NEW M, NEW S, NEW ss \in Seq(Seq(M)), NEW at \in 1 .. Len(ss),
         \A n \in 1 .. Len(ss) : n # at => Among(ss[n], S) = <<>>
  PROVE  Among(FlattenSeq(ss), S) = Among(ss[at], S)
<1> DEFINE L == Len(ss)
    one == Among(ss[at], S)
<1>1. L \in Nat /\ at \in Nat /\ at >= 1 /\ at <= L /\ \A n \in 1 .. L : ss[n] \in Seq(M)
  OBVIOUS
<1>2. PICK f \in [0 .. Len(ss) -> Seq(M)] : FlattensBy(ss, f)
  BY Flattened
<1>3. /\ f[0] = <<>> /\ f[L] = FlattenSeq(ss)
      /\ \A n \in 1 .. L : f[n] = f[n - 1] \o ss[n]
  BY <1>2, Zenon DEF FlattensBy
<1>4. one \in Seq(M)
  BY <1>1, AmongIn
<1>5. f \in [0 .. L -> Seq(M)] /\ \A n \in 1 .. L : n # at => Among(ss[n], S) = <<>>
  BY <1>2
<1> HIDE DEF L
<1> DEFINE P == {n \in 0 .. L : Among(f[n], S) = IF n < at THEN <<>> ELSE one}
<1>6. 0 \in P
  BY <1>1, <1>3, AmongNothing
<1>7. ASSUME NEW n \in 1 .. L, n - 1 \in P PROVE n \in P
  <2>1. n - 1 \in 0 .. L /\ n \in 0 .. L /\ n \in Nat
    BY <1>1
  <2>2. f[n - 1] \in Seq(M) /\ ss[n] \in Seq(M)
    BY <1>1, <1>5, <2>1
  <2>3. Among(f[n - 1] \o ss[n], S) = Among(f[n - 1], S) \o Among(ss[n], S)
    BY <2>2, AmongJoined, Zenon
  <2>4. Among(f[n], S) = Among(f[n - 1], S) \o Among(ss[n], S)
    BY <1>3, <2>3
  <2>5. Among(f[n - 1], S) = IF n - 1 < at THEN <<>> ELSE one
    BY <1>7
  <2>6. <<>> \o one = one /\ one \o <<>> = one /\ <<>> \o <<>> = <<>>
    BY <1>4
  <2>7. CASE n < at
    <3>1. Among(ss[n], S) = <<>> /\ n - 1 < at
      BY <1>1, <1>5, <2>1, <2>7
    <3> HIDE DEF one
    <3> QED
      BY <2>1, <2>4, <2>5, <2>6, <2>7, <3>1
  <2>8. CASE n = at
    <3>1. Among(ss[n], S) = one /\ n - 1 < at /\ ~(n < at)
      BY <1>1, <2>1, <2>8
    <3> HIDE DEF one
    <3> QED
      BY <2>1, <2>4, <2>5, <2>6, <2>8, <3>1
  <2>9. CASE at < n
    <3>1. Among(ss[n], S) = <<>> /\ ~(n - 1 < at) /\ ~(n < at)
      BY <1>1, <1>5, <2>1, <2>9
    <3> HIDE DEF one
    <3> QED
      BY <2>1, <2>4, <2>5, <2>6, <2>9, <3>1
  <2> QED
    BY <1>1, <2>1, <2>7, <2>8, <2>9
<1>8. \A n \in 0 .. L : n \in P
  <2> HIDE DEF P
  <2> QED
    BY <1>1, <1>6, <1>7, UpTo
<1>9. L \in 0 .. L /\ ~(L < at)
  BY <1>1
<1>10. Among(f[L], S) = one
  BY <1>8, <1>9
<1> QED
  BY <1>3, <1>10

(* Of some elements some comes first, in any total order. *)
Orders(R, U) ==
  /\ \A n, k \in U : <<n, k>> \in R \/ <<k, n>> \in R
  /\ \A n, k, j \in U : <<n, k>> \in R /\ <<k, j>> \in R => <<n, j>> \in R

LEMMA FirstInOrder ==
  ASSUME NEW L \in Nat, NEW R, NEW U, U \subseteq 1 .. L, U # {}, Orders(R, U)
  PROVE  \E n \in U : \A k \in U : <<n, k>> \in R
<1>1. /\ \A n, k \in U : <<n, k>> \in R \/ <<k, n>> \in R
      /\ \A n, k, j \in U : <<n, k>> \in R /\ <<k, j>> \in R => <<n, j>> \in R
  BY Zenon DEF Orders
<1> DEFINE Upto(m) == {k \in U : k <= m}
    Has(m) == Upto(m) = {} \/ \E n \in Upto(m) : \A k \in Upto(m) : <<n, k>> \in R
    Bad == {m \in 0 .. L : ~Has(m)}
<1>2. ASSUME NEW m \in 1 .. L, Has(m - 1) PROVE Has(m)
  <2> SUFFICES Has(m)
    OBVIOUS
  <2>1. \A k \in Upto(m) : k \in Upto(m - 1) \/ (k = m /\ m \in U)
    <3> SUFFICES ASSUME NEW k \in U, k <= m PROVE k <= m - 1 \/ k = m
      OBVIOUS
    <3>1. k \in Nat /\ m \in Nat
      OBVIOUS
    <3> QED
      BY <3>1
  <2>2. Upto(m - 1) \subseteq Upto(m)
    <3> SUFFICES ASSUME NEW k \in U, k <= m - 1 PROVE k <= m
      OBVIOUS
    <3>1. k \in Nat /\ m \in Nat
      OBVIOUS
    <3> QED
      BY <3>1
  <2>3. m \in U => m \in Upto(m)
    OBVIOUS
  <2>4. Upto(m) \subseteq U
    OBVIOUS
  <2> HIDE DEF Upto
  <2>6. CASE m \notin U
    BY <1>2, <2>1, <2>2, <2>6
  <2>7. CASE Upto(m - 1) = {}
    <3>1. m \notin U => Upto(m) = {}
      BY <2>1, <2>7
    <3>2. m \in U => \A k \in Upto(m) : <<m, k>> \in R
      BY <1>1, <2>1, <2>7
    <3> QED
      BY <2>3, <3>1, <3>2
  <2>8. CASE m \in U /\ Upto(m - 1) # {}
    <3>1. PICK n \in Upto(m - 1) : \A k \in Upto(m - 1) : <<n, k>> \in R
      BY <1>2, <2>8
    <3>2. n \in U /\ n \in Upto(m)
      BY <2>2, <2>4, <3>1
    <3>3. CASE <<n, m>> \in R
      BY <2>1, <3>1, <3>2, <3>3
    <3>4. CASE <<m, n>> \in R
      <4>1. ASSUME NEW k \in Upto(m - 1) PROVE <<m, k>> \in R
        BY <1>1, <2>2, <2>4, <2>8, <3>1, <3>2, <3>4
      <4>2. <<m, m>> \in R
        BY <1>1, <2>8
      <4>3. \A k \in Upto(m) : <<m, k>> \in R
        BY <2>1, <4>1, <4>2
      <4> QED
        BY <2>3, <2>8, <4>3
    <3> QED
      BY <1>1, <2>8, <3>2, <3>3, <3>4
  <2> QED
    BY <2>6, <2>7, <2>8
<1>3. Bad = {}
  <2> SUFFICES ASSUME Bad # {} PROVE FALSE
    OBVIOUS
  <2>1. Bad \subseteq Nat
    OBVIOUS
  <2>2. PICK m \in Bad : \A k \in Bad : m <= k
    <3> HIDE DEF Bad
    <3> QED
      BY <2>1, LeastNat
  <2>3. m \in 0 .. L /\ ~Has(m)
    BY <2>2
  <2>4. m # 0
    <3>1. Upto(0) = {}
      <4> SUFFICES ASSUME NEW k \in U, k <= 0 PROVE FALSE
        OBVIOUS
      <4> QED
        OBVIOUS
    <3>2. Has(0)
      BY <3>1
    <3> HIDE DEF Has
    <3> QED
      BY <2>3, <3>2
  <2>5. m \in 1 .. L /\ m - 1 \in 0 .. L /\ ~(m <= m - 1)
    BY <2>3, <2>4
  <2> HIDE DEF Has
  <2>6. Has(m - 1)
    BY <2>2, <2>5
  <2> QED
    BY <1>2, <2>3, <2>5, <2>6
<1>4. Has(L)
  <2>1. L \in 0 .. L
    OBVIOUS
  <2> HIDE DEF Has
  <2> QED
    BY <1>3, <2>1
<1>5. Upto(L) = U
  <2> SUFFICES ASSUME NEW k \in U PROVE k <= L
    OBVIOUS
  <2> QED
    OBVIOUS
<1> HIDE DEF Upto
<1> QED
  BY <1>4, <1>5

(* Each two members in the relation, the earlier first. *)
Pairwise(s, R) == \A i, j \in 1 .. Len(s) : i < j => <<s[i], s[j]>> \in R

(* Each member of the one, and of the other. *)
AllBefore(a, b, R) == \A i \in 1 .. Len(a), j \in 1 .. Len(b) : <<a[i], b[j]>> \in R

(* Joined sequences. *)
LEMMA PairwiseJoined ==
  ASSUME NEW S, NEW a \in Seq(S), NEW b \in Seq(S), NEW R,
         Pairwise(a, R), Pairwise(b, R), AllBefore(a, b, R)
  PROVE  Pairwise(a \o b, R)
<1> DEFINE ab == a \o b
<1>1. /\ Len(ab) = Len(a) + Len(b) /\ Len(a) \in Nat /\ Len(b) \in Nat
      /\ \A k \in 1 .. Len(a) : ab[k] = a[k]
      /\ \A k \in 1 .. Len(ab) : k \notin 1 .. Len(a) => k - Len(a) \in 1 .. Len(b) /\ ab[k] = b[k - Len(a)]
  BY Concatenated
<1> HIDE DEF ab
<1> SUFFICES ASSUME NEW i \in 1 .. Len(ab), NEW j \in 1 .. Len(ab), i < j PROVE <<ab[i], ab[j]>> \in R
  BY DEF Pairwise, ab
<1>2. CASE j \in 1 .. Len(a)
  <2>1. i \in 1 .. Len(a)
    BY <1>1, <1>2
  <2> QED
    BY <1>1, <1>2, <2>1 DEF Pairwise
<1>3. CASE j \notin 1 .. Len(a) /\ i \in 1 .. Len(a)
  BY <1>1, <1>3 DEF AllBefore
<1>4. CASE i \notin 1 .. Len(a)
  <2>1. j \notin 1 .. Len(a)
    BY <1>1, <1>4
  <2>2. i - Len(a) < j - Len(a)
    BY <1>1
  <2> QED
    BY <1>1, <1>4, <2>1, <2>2 DEF Pairwise
<1> QED
  BY <1>2, <1>3, <1>4

(* Flattened sequences. *)
LEMMA FlattenPairwise ==
  ASSUME NEW S, NEW R, NEW ss \in Seq(Seq(S)), \A n \in 1 .. Len(ss) : Pairwise(ss[n], R),
         \A m, n \in 1 .. Len(ss) : m < n => AllBefore(ss[m], ss[n], R)
  PROVE  Pairwise(FlattenSeq(ss), R)
<1> DEFINE L == Len(ss)
<1>1. PICK f \in [0 .. L -> Seq(S)] : FlattensBy(ss, f)
  BY Flattened
<1>2. L \in Nat /\ \A n \in 1 .. L : ss[n] \in Seq(S)
  OBVIOUS
<1>3. f[0] = <<>> /\ f[L] = FlattenSeq(ss) /\ \A n \in 1 .. L : f[n] = f[n - 1] \o ss[n]
  BY <1>1 DEF FlattensBy
<1> HIDE DEF L
<1> DEFINE Fine(n) == Pairwise(f[n], R) /\ \A k \in 1 .. L : n < k => AllBefore(f[n], ss[k], R)
    P == {n \in 0 .. L : Fine(n)}
<1>4. 0 \in P
  <2>1. Len(f[0]) = 0
    BY <1>3
  <2> QED
    BY <1>2, <2>1 DEF Pairwise, AllBefore
<1>5. ASSUME NEW n \in 1 .. L, n - 1 \in P PROVE n \in P
  <2>1. n - 1 \in 0 .. L /\ n \in 0 .. L /\ n - 1 < n
    BY <1>2
  <2> DEFINE u == f[n - 1]
  <2>2. u \in Seq(S) /\ ss[n] \in Seq(S) /\ f[n] = u \o ss[n]
    BY <1>2, <1>3, <2>1
  <2>3. Pairwise(u, R) /\ \A k \in 1 .. L : n - 1 < k => AllBefore(u, ss[k], R)
    BY <1>5
  <2> HIDE DEF u
  <2>4. Pairwise(f[n], R)
    <3>1. Pairwise(ss[n], R) /\ AllBefore(u, ss[n], R)
      BY <2>1, <2>3 DEF L
    <3> QED
      BY <2>2, <2>3, <3>1, PairwiseJoined
  <2>5. ASSUME NEW k \in 1 .. L, n < k PROVE AllBefore(f[n], ss[k], R)
    <3>1. AllBefore(u, ss[k], R) /\ AllBefore(ss[n], ss[k], R)
      <4>1. n - 1 < k
        BY <1>2, <2>5
      <4> QED
        BY <2>3, <2>5, <4>1 DEF L
    <3>2. ASSUME NEW i \in 1 .. Len(f[n]), NEW j \in 1 .. Len(ss[k]) PROVE <<f[n][i], ss[k][j]>> \in R
      <4>1. /\ \A q \in 1 .. Len(u) : f[n][q] = u[q]
            /\ \A q \in 1 .. Len(f[n]) : q \notin 1 .. Len(u) => q - Len(u) \in 1 .. Len(ss[n]) /\ f[n][q] = ss[n][q - Len(u)]
        BY <2>2, Concatenated
      <4> QED
        BY <3>1, <4>1 DEF AllBefore
    <3> QED
      BY <3>2 DEF AllBefore
  <2> QED
    BY <2>1, <2>4, <2>5
<1> HIDE DEF P
<1>6. L \in Nat /\ \A n \in 1 .. L : n - 1 \in P => n \in P
  BY <1>2, <1>5
<1>7. \A n \in 0 .. L : n \in P
  BY <1>4, <1>6, UpTo
<1>8. L \in P
  BY <1>6, <1>7
<1> QED
  BY <1>3, <1>8 DEF P

(* What is kept of a sequence. *)
LEMMA AmongPairwise ==
  ASSUME NEW M, NEW R, NEW S, NEW t \in Seq(M), Pairwise(t, R)
  PROVE  Pairwise(Among(t, S), R)
<1> DEFINE P == {s \in Seq(M) : Pairwise(s, R) => Pairwise(Among(s, S), R)}
<1>1. <<>> \in P
  <2>1. Among(<<>>, S) = <<>>
    BY AmongNothing
  <2> QED
    BY <2>1 DEF Pairwise
<1>2. ASSUME NEW s \in Seq(M), NEW x \in M, s \in P PROVE Append(s, x) \in P
  <2> DEFINE u == Append(s, x)
      kept == Among(s, S)
  <2>1. u \in Seq(M) /\ Len(u) = Len(s) + 1 /\ Len(s) \in Nat /\ u[Len(s) + 1] = x
        /\ \A n \in 1 .. Len(s) : u[n] = s[n]
    BY AppendFacts
  <2>2. Among(u, S) = IF x \in S THEN Append(kept, x) ELSE kept
    BY AmongAppended
  <2>3. kept \in Seq(M) /\ ToSet(kept) = ToSet(s) \cap S
    BY AmongIn, AmongMembers
  <2> HIDE DEF u, kept
  <2> SUFFICES ASSUME Pairwise(u, R) PROVE Pairwise(Among(u, S), R)
    BY <2>1 DEF u
  <2>4. Pairwise(s, R) /\ \A n \in 1 .. Len(s) : <<s[n], x>> \in R
    BY <2>1 DEF Pairwise
  <2>5. Pairwise(kept, R)
    BY <1>2, <2>4 DEF kept
  <2>6. ASSUME NEW k \in 1 .. Len(kept) PROVE <<kept[k], x>> \in R
    <3>1. kept[k] \in ToSet(s)
      <4>1. kept[k] \in ToSet(kept)
        BY <2>3 DEF ToSet
      <4> QED
        BY <2>3, <4>1
    <3>2. PICK n \in 1 .. Len(s) : kept[k] = s[n]
      BY <3>1 DEF ToSet
    <3> QED
      BY <2>4, <3>2
  <2>7. Pairwise(Append(kept, x), R)
    <3> DEFINE v == Append(kept, x)
    <3>1. Len(v) = Len(kept) + 1 /\ Len(kept) \in Nat /\ v[Len(kept) + 1] = x /\ \A n \in 1 .. Len(kept) : v[n] = kept[n]
      BY <2>3, AppendFacts
    <3> HIDE DEF v
    <3> SUFFICES ASSUME NEW i \in 1 .. Len(v), NEW j \in 1 .. Len(v), i < j PROVE <<v[i], v[j]>> \in R
      BY DEF Pairwise, v
    <3>2. i \in 1 .. Len(kept) /\ v[i] = kept[i]
      BY <3>1
    <3>3. CASE j = Len(kept) + 1
      BY <2>6, <3>1, <3>2, <3>3
    <3>4. CASE j # Len(kept) + 1
      <4>1. j \in 1 .. Len(kept) /\ v[j] = kept[j]
        BY <3>1, <3>4
      <4> QED
        BY <2>5, <3>2, <4>1 DEF Pairwise
    <3> QED
      BY <3>3, <3>4
  <2> QED
    BY <2>2, <2>5, <2>7
<1> HIDE DEF P
<1>3. t \in P
  BY <1>1, <1>2, EverySequence
<1> QED
  BY <1>3 DEF P

(* Sequences that look alike piece by piece look alike. *)
LEMMA FlattenAlike ==
  ASSUME NEW M, NEW g, NEW ss \in Seq(Seq(M)), NEW tt \in Seq(Seq(M)), Len(ss) = Len(tt),
         \A n \in 1 .. Len(ss) : Mapped(g, ss[n]) = Mapped(g, tt[n])
  PROVE  Mapped(g, FlattenSeq(ss)) = Mapped(g, FlattenSeq(tt))
<1>0. \A s, t \in Seq(M) : Mapped(g, s \o t) = Mapped(g, s) \o Mapped(g, t)
  BY MappedJoined
<1> DEFINE L == Len(ss)
<1>1. PICK f \in [0 .. L -> Seq(M)] : FlattensBy(ss, f)
  BY Flattened
<1>2. PICK h \in [0 .. L -> Seq(M)] : FlattensBy(tt, h)
  BY Flattened
<1>3. L \in Nat /\ \A n \in 1 .. L : ss[n] \in Seq(M) /\ tt[n] \in Seq(M)
  OBVIOUS
<1>4. /\ f[0] = <<>> /\ f[L] = FlattenSeq(ss) /\ \A n \in 1 .. L : f[n] = f[n - 1] \o ss[n]
      /\ h[0] = <<>> /\ h[L] = FlattenSeq(tt) /\ \A n \in 1 .. L : h[n] = h[n - 1] \o tt[n]
  BY <1>1, <1>2 DEF FlattensBy
<1>5. \A n \in 1 .. L : Mapped(g, ss[n]) = Mapped(g, tt[n])
  OBVIOUS
<1> HIDE DEF L
<1> DEFINE P == {n \in 0 .. L : Mapped(g, f[n]) = Mapped(g, h[n])}
<1>6. 0 \in P
  BY <1>3, <1>4
<1>7. ASSUME NEW n \in 1 .. L, n - 1 \in P PROVE n \in P
  <2>1. n - 1 \in 0 .. L /\ n \in 0 .. L
    BY <1>3
  <2>2. f[n - 1] \in Seq(M) /\ h[n - 1] \in Seq(M) /\ ss[n] \in Seq(M) /\ tt[n] \in Seq(M)
    BY <1>3, <2>1
  <2> DEFINE u == f[n - 1]
      v == h[n - 1]
      s == ss[n]
      t == tt[n]
  <2>3. u \in Seq(M) /\ v \in Seq(M) /\ s \in Seq(M) /\ t \in Seq(M)
    BY <2>2
  <2>4. f[n] = u \o s /\ h[n] = v \o t /\ Mapped(g, s) = Mapped(g, t) /\ Mapped(g, u) = Mapped(g, v)
    BY <1>4, <1>5, <1>7
  <2> HIDE DEF u, v, s, t
  <2>5. Mapped(g, u \o s) = Mapped(g, u) \o Mapped(g, s)
    BY <1>0, <2>3, Zenon
  <2>6. Mapped(g, v \o t) = Mapped(g, v) \o Mapped(g, t)
    BY <1>0, <2>3, Zenon
  <2> QED
    BY <2>1, <2>4, <2>5, <2>6
<1> HIDE DEF P
<1>8. L \in Nat /\ \A n \in 1 .. L : n - 1 \in P => n \in P
  BY <1>3, <1>7
<1>9. \A n \in 0 .. L : n \in P
  BY <1>6, <1>8, UpTo
<1>10. L \in P
  BY <1>8, <1>9
<1> QED
  BY <1>4, <1>10 DEF P

(* Sequences map alike when their members do. *)
LEMMA MappedSame ==
  ASSUME NEW M, NEW g, NEW s \in Seq(M), NEW t \in Seq(M)
  PROVE  Mapped(g, s) = Mapped(g, t) <=> Len(s) = Len(t) /\ \A n \in 1 .. Len(s) : g[s[n]] = g[t[n]]
<1>1. /\ Len(Mapped(g, s)) = Len(s) /\ \A n \in 1 .. Len(s) : Mapped(g, s)[n] = g[s[n]]
      /\ Len(Mapped(g, t)) = Len(t) /\ \A n \in 1 .. Len(t) : Mapped(g, t)[n] = g[t[n]]
  BY MappedLen
<1>2. DOMAIN s = 1 .. Len(s) /\ DOMAIN t = 1 .. Len(t)
  OBVIOUS
<1>3. ASSUME Mapped(g, s) = Mapped(g, t)
      PROVE  Len(s) = Len(t) /\ \A n \in 1 .. Len(s) : g[s[n]] = g[t[n]]
  BY <1>1, <1>3
<1>4. ASSUME Len(s) = Len(t), \A n \in 1 .. Len(s) : g[s[n]] = g[t[n]]
      PROVE  Mapped(g, s) = Mapped(g, t)
  BY <1>2, <1>4 DEF Mapped
<1> QED
  BY <1>3, <1>4

(* Pairwise in a joined sequence, each part is, and one before the other. *)
LEMMA JoinedPairwise ==
  ASSUME NEW S, NEW a \in Seq(S), NEW b \in Seq(S), NEW R, Pairwise(a \o b, R)
  PROVE  Pairwise(a, R) /\ Pairwise(b, R) /\ AllBefore(a, b, R)
<1> DEFINE ab == a \o b
<1>1. /\ Len(ab) = Len(a) + Len(b) /\ Len(a) \in Nat /\ Len(b) \in Nat
      /\ (\A k \in 1 .. Len(a) : ab[k] = a[k]) /\ Pairwise(ab, R)
      /\ \A k \in 1 .. Len(b) : ab[Len(a) + k] = b[k]
  BY DEF Pairwise
<1> HIDE DEF ab
<1>2. Pairwise(a, R)
  BY <1>1 DEF Pairwise
<1>3. Pairwise(b, R)
  <2> SUFFICES ASSUME NEW i \in 1 .. Len(b), NEW j \in 1 .. Len(b), i < j PROVE <<b[i], b[j]>> \in R
    BY DEF Pairwise
  <2>1. Len(a) + i \in 1 .. Len(ab) /\ Len(a) + j \in 1 .. Len(ab) /\ Len(a) + i < Len(a) + j
    BY <1>1
  <2>2. <<ab[Len(a) + i], ab[Len(a) + j]>> \in R
    BY <1>1, <2>1 DEF Pairwise
  <2> QED
    BY <1>1, <2>2
<1>4. AllBefore(a, b, R)
  <2> SUFFICES ASSUME NEW i \in 1 .. Len(a), NEW j \in 1 .. Len(b) PROVE <<a[i], b[j]>> \in R
    BY DEF AllBefore
  <2>1. i \in 1 .. Len(ab) /\ Len(a) + j \in 1 .. Len(ab) /\ i < Len(a) + j
    BY <1>1
  <2>2. <<ab[i], ab[Len(a) + j]>> \in R
    BY <1>1, <2>1 DEF Pairwise
  <2> QED
    BY <1>1, <2>2
<1> QED
  BY <1>2, <1>3, <1>4

(* Pairwise in a flattened sequence, each part is, and each before the later.*)
LEMMA PartsPairwise ==
  ASSUME NEW S, NEW R, NEW tt \in Seq(Seq(S)), Pairwise(FlattenSeq(tt), R)
  PROVE  /\ \A n \in 1 .. Len(tt) : Pairwise(tt[n], R)
         /\ \A m, n \in 1 .. Len(tt) : m < n => AllBefore(tt[m], tt[n], R)
<1> DEFINE Fine(ss) == /\ \A n \in 1 .. Len(ss) : Pairwise(ss[n], R)
                       /\ \A m, n \in 1 .. Len(ss) : m < n => AllBefore(ss[m], ss[n], R)
    P == {ss \in Seq(Seq(S)) : Pairwise(FlattenSeq(ss), R) => Fine(ss)}
<1>1. <<>> \in P
  OBVIOUS
<1>2. ASSUME NEW ss \in Seq(Seq(S)), NEW s \in Seq(S), ss \in P PROVE Append(ss, s) \in P
  <2> DEFINE u == Append(ss, s)
        flat == FlattenSeq(ss)
  <2>1. /\ u \in Seq(Seq(S)) /\ Len(u) = Len(ss) + 1 /\ Len(ss) \in Nat /\ u[Len(ss) + 1] = s
        /\ \A n \in 1 .. Len(ss) : u[n] = ss[n] /\ ss[n] \in Seq(S)
    BY AppendFacts
  <2>2. FlattenSeq(u) = flat \o s /\ flat \in Seq(S)
    BY FlattenAppend, FlattenIn
  <2>3. \A x : x \in ToSet(flat) <=> \E n \in 1 .. Len(ss) : x \in ToSet(ss[n])
    BY FlattenMembers
  <2> HIDE DEF u, flat
  <2> SUFFICES ASSUME Pairwise(flat \o s, R) PROVE Fine(u)
    BY <2>1, <2>2 DEF u
  <2>4. Pairwise(flat, R) /\ Pairwise(s, R) /\ AllBefore(flat, s, R)
    BY <2>2, JoinedPairwise
  <2>5. Fine(ss)
    BY <1>2, <2>4 DEF flat
  <2>6. ASSUME NEW m \in 1 .. Len(ss) PROVE AllBefore(ss[m], s, R)
    <3> SUFFICES ASSUME NEW i \in 1 .. Len(ss[m]), NEW j \in 1 .. Len(s) PROVE <<ss[m][i], s[j]>> \in R
      BY DEF AllBefore
    <3>1. ss[m][i] \in ToSet(ss[m])
      BY <2>1 DEF ToSet
    <3>2. ss[m][i] \in ToSet(flat)
      BY <2>3, <3>1
    <3> DEFINE x == ss[m][i]
    <3>3. PICK k \in 1 .. Len(flat) : x = flat[k]
      <4>1. x \in ToSet(flat) /\ DOMAIN flat = 1 .. Len(flat)
        BY <2>2, <3>2
      <4> HIDE DEF x
      <4> QED
        BY <4>1 DEF ToSet
    <3> QED
      BY <2>4, <3>3 DEF AllBefore
  <2>7. ASSUME NEW n \in 1 .. Len(u) PROVE Pairwise(u[n], R)
    <3>1. n = Len(ss) + 1 \/ n \in 1 .. Len(ss)
      BY <2>1
    <3>2. CASE n = Len(ss) + 1
      BY <2>1, <2>4, <3>2
    <3>3. CASE n \in 1 .. Len(ss)
      <4>1. u[n] = ss[n]
        BY <2>1, <3>3
      <4> QED
        BY <2>5, <3>3, <4>1
    <3> QED
      BY <3>1, <3>2, <3>3
  <2>8. ASSUME NEW m \in 1 .. Len(u), NEW n \in 1 .. Len(u), m < n PROVE AllBefore(u[m], u[n], R)
    <3>1. m \in 1 .. Len(ss) /\ u[m] = ss[m]
      BY <2>1, <2>8
    <3>2. CASE n = Len(ss) + 1
      BY <2>1, <2>6, <3>1, <3>2
    <3>3. CASE n # Len(ss) + 1
      <4>1. n \in 1 .. Len(ss)
        BY <2>1, <3>3
      <4>2. u[n] = ss[n]
        BY <2>1, <4>1
      <4> QED
        BY <2>5, <2>8, <3>1, <4>1, <4>2
    <3> QED
      BY <3>2, <3>3
  <2> QED
    BY <2>7, <2>8
<1> HIDE DEF P
<1>3. \A ss \in Seq(Seq(S)) : ss \in P
  <2> DEFINE M == Seq(S)
  <2>1. <<>> \in P /\ \A ss \in Seq(M), s \in M : ss \in P => Append(ss, s) \in P
    BY <1>1, <1>2
  <2> HIDE DEF M
  <2>2. \A ss \in Seq(M) : ss \in P
    BY <2>1, EverySequence
  <2> QED
    BY <2>2 DEF M
<1> QED
  BY <1>3 DEF P

(* Nothing is before nothing. *)
LEMMA NothingBefore ==
  ASSUME NEW s, NEW R PROVE AllBefore(<<>>, s, R) /\ AllBefore(s, <<>>, R) /\ ToSet(<<>>) = {}
  BY DEF AllBefore, ToSet

(* What is in the earlier of two sequences is before what is in the later. *)
LEMMA WithinBefore ==
  ASSUME NEW M, NEW R, NEW p \in Seq(M), NEW q \in Seq(M), NEW g \in Seq(M), NEW h \in Seq(M),
         AllBefore(g, h, R), ToSet(p) \subseteq ToSet(g), ToSet(q) \subseteq ToSet(h)
  PROVE  AllBefore(p, q, R)
<1> SUFFICES ASSUME NEW i \in 1 .. Len(p), NEW j \in 1 .. Len(q) PROVE <<p[i], q[j]>> \in R
  BY DEF AllBefore
<1>1. DOMAIN p = 1 .. Len(p) /\ DOMAIN q = 1 .. Len(q) /\ DOMAIN g = 1 .. Len(g) /\ DOMAIN h = 1 .. Len(h)
  OBVIOUS
<1>2. p[i] \in ToSet(p) /\ q[j] \in ToSet(q)
  BY <1>1 DEF ToSet
<1>3. p[i] \in ToSet(g) /\ q[j] \in ToSet(h)
  BY <1>2
<1>4. (\E m \in 1 .. Len(g) : g[m] = p[i]) /\ (\E n \in 1 .. Len(h) : h[n] = q[j])
  BY <1>1, <1>3 DEF ToSet
<1> QED
  BY <1>4 DEF AllBefore

(* The numbers of some members, rising. *)
LEMMA NumbersAmong ==
  ASSUME NEW L \in Nat, NEW S
  PROVE  LET ns == Among([j \in 1 .. L |-> j], S)
         IN  /\ ns \in Seq(1 .. L) /\ \A k \in 1 .. Len(ns) : ns[k] \in S
             /\ \A i, j \in 1 .. Len(ns) : i < j => ns[i] < ns[j]
<1> DEFINE all == [j \in 1 .. L |-> j]
           ns == Among(all, S)
           R == {p \in Nat \X Nat : p[1] < p[2]}
<1>1. all \in Seq(1 .. L) /\ Len(all) = L /\ \A j \in 1 .. L : all[j] = j
  OBVIOUS
<1>2. Pairwise(all, R)
  <2> SUFFICES ASSUME NEW i \in 1 .. L, NEW j \in 1 .. L, i < j PROVE <<all[i], all[j]>> \in R
    BY <1>1 DEF Pairwise
  <2> QED
    BY <1>1
<1> HIDE DEF all, R
<1>3. ns \in Seq(1 .. L) /\ ToSet(ns) = ToSet(all) \cap S /\ Pairwise(ns, R)
  BY <1>1, <1>2, AmongIn, AmongMembers, AmongPairwise
<1> HIDE DEF ns
<1>4. \A k \in 1 .. Len(ns) : ns[k] \in S
  <2>1. DOMAIN ns = 1 .. Len(ns)
    BY <1>3
  <2>2. \A k \in 1 .. Len(ns) : ns[k] \in ToSet(ns)
    BY <2>1 DEF ToSet
  <2> QED
    BY <2>2, <1>3
<1>5. \A i, j \in 1 .. Len(ns) : i < j => ns[i] < ns[j]
  BY <1>3 DEF Pairwise, R
<1> QED
  BY <1>3, <1>4, <1>5 DEF ns, all

(* A range of a sequence. *)
LEMMA RangeIs ==
  ASSUME NEW S, NEW s \in Seq(S), NEW i \in Nat, NEW j \in Nat, 1 <= i, i <= j, j <= Len(s) + 1
  PROVE  /\ SubSeq(s, i, j - 1) \in Seq(S) /\ Len(SubSeq(s, i, j - 1)) = j - i
         /\ \A k \in 1 .. (j - i) : /\ SubSeq(s, i, j - 1)[k] = s[(i - 1) + k]
                                    /\ (i - 1) + k \in 1 .. Len(s) /\ (i - 1) + k < j /\ i <= (i - 1) + k
<1>1. Len(s) \in Nat /\ s \in [1 .. Len(s) -> S]
  OBVIOUS
<1> DEFINE w == SubSeq(s, i, j - 1)
<1>2. w = [k \in 1 .. (1 + (j - 1)) - i |-> s[(i + k) - 1]]
  OBVIOUS
<1>3. (1 + (j - 1)) - i = j - i /\ j - i \in Nat
  OBVIOUS
<1>4. \A k \in 1 .. (j - i) : /\ (i + k) - 1 = (i - 1) + k /\ (i - 1) + k \in 1 .. Len(s)
                              /\ (i - 1) + k < j /\ i <= (i - 1) + k
  BY <1>1
<1>5. w = [k \in 1 .. (j - i) |-> s[(i + k) - 1]]
  BY <1>2, <1>3
<1> HIDE DEF w
<1>6. \A k \in 1 .. (j - i) : w[k] = s[(i - 1) + k] /\ w[k] \in S
  BY <1>1, <1>4, <1>5
<1>7. DOMAIN w = 1 .. (j - i)
  BY <1>5
<1>8. w = [k \in 1 .. (j - i) |-> w[k]]
  BY <1>5, <1>7
<1> DEFINE L == j - i
<1>9. w \in [1 .. L -> S] /\ L \in Nat /\ DOMAIN w = 1 .. L
  BY <1>3, <1>6, <1>8
<1> HIDE DEF L
<1>10. w \in Seq(S) /\ Len(w) = L
  BY <1>9
<1> QED
  BY <1>4, <1>6, <1>10 DEF w, L

(* A function on 1 .. L is a sequence. *)
LEMMA SequenceIs ==
  ASSUME NEW S, NEW L \in Nat, NEW s, s = [n \in 1 .. L |-> s[n]], \A n \in 1 .. L : s[n] \in S
  PROVE  s \in Seq(S) /\ Len(s) = L
<1>1. s \in [1 .. L -> S]
  OBVIOUS
<1> QED
  BY <1>1

(* Sets that agree on a sequence keep the same of it. *)
LEMMA AmongAgree ==
  ASSUME NEW M, NEW s \in Seq(M), NEW S, NEW T, \A n \in 1 .. Len(s) : s[n] \in S <=> s[n] \in T
  PROVE  Among(s, S) = Among(s, T)
<1> DEFINE N == ToSet(s)
           g == [x \in N |-> x]
<1>1. DOMAIN s = 1 .. Len(s) /\ Len(s) \in Nat /\ s = [n \in 1 .. Len(s) |-> s[n]]
  OBVIOUS
<1>2. (\A n \in 1 .. Len(s) : s[n] \in N) /\ \A x \in N : x \in S <=> x \in T
  BY <1>1 DEF ToSet
<1> HIDE DEF N
<1>3. s \in Seq(N)
  BY <1>1, <1>2, SequenceIs
<1>4. \A x \in N : g[x] \in T <=> x \in S
  BY <1>2
<1>5. \A x \in N : g[x] = x
  OBVIOUS
<1> HIDE DEF g
<1>6. \A t \in Seq(N) : Mapped(g, t) = t
  <2> SUFFICES ASSUME NEW t \in Seq(N) PROVE Mapped(g, t) = t
    OBVIOUS
  <2>1. \A n \in DOMAIN t : t[n] \in N
    OBVIOUS
  <2>2. t = [n \in DOMAIN t |-> t[n]]
    OBVIOUS
  <2> QED
    BY <2>1, <2>2, <1>5 DEF Mapped
<1>7. Among(Mapped(g, s), T) = Mapped(g, Among(s, S))
  BY <1>3, <1>4, AmongMapped
<1>8. Among(s, S) \in Seq(N)
  BY <1>3, AmongIn
<1> QED
  BY <1>3, <1>6, <1>7, <1>8

(* A whole range. *)
LEMMA WholeRange ==
  ASSUME NEW S, NEW s \in Seq(S), NEW L, L = Len(s)
  PROVE  SubSeq(s, 1, (L + 1) - 1) = s
<1>1. Len(s) \in Nat /\ (L + 1) - 1 = Len(s)
  OBVIOUS
<1>2. Len(s) \in 0 .. Len(s)
  BY <1>1
<1>3. /\ SubSeq(s, 1, Len(s)) \in Seq(S) /\ Len(SubSeq(s, 1, Len(s))) = Len(s)
      /\ \A n \in 1 .. Len(s) : SubSeq(s, 1, Len(s))[n] = s[n]
  BY <1>2, Prefix
<1>4. SubSeq(s, 1, Len(s)) = s
  BY <1>3, SeqsAgree
<1> QED
  BY <1>1, <1>4
=============================================================================
