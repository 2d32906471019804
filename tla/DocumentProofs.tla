---------------------------- MODULE DocumentProofs ----------------------------
(***************************************************************************)
(* What TLAPS proves about modules of the document pipeline.                 *)
(*                                                                           *)
(* ChunkIds: whatever documents are chunked, by whichever chunker, the ids,  *)
(* tokens and embeddings of the chunks are what the store takes them for.    *)
(*                                                                           *)
(* MineruParsing: whatever blocks the pages have, the elements come in       *)
(* order, none is blank, and what is dropped is reported or was foreseen.    *)
(*                                                                           *)
(* ParserRegistry: whatever is registered, unregistered and loaded, a file   *)
(* is read by the best parser that can run, its document says so, and an     *)
(* unregistration undoes the registration.                                   *)
(*                                                                           *)
(* DocumentContent: whatever documents are built, the hash tells contents    *)
(* apart, a rendering shows everything once, and joining loses nothing.      *)
(*                                                                           *)
(* ElementMerge: whatever two parses are merged under which options, no      *)
(* reference breaks, A's order stands, nothing is in twice, a second parse   *)
(* that came out the same changes nothing, and both html merges agree.       *)
(***************************************************************************)
EXTENDS ChunkIds, MineruParsing, ParserRegistry, DocumentContent, ElementMerge,
        SequenceLemmas, FiniteSetTheorems, TLAPS

-----------------------------------------------------------------------------
(* Embeddings *)

EmbeddingSet == ({"text"} \X Nat) \union ({"summary"} \X Nat \X Nat)

(* What is kept of an answer is a sequence of its summaries. *)
LEMMA NotBlankSeq ==
  ASSUME NEW a \in Seq(Nat)
  PROVE  NotBlank(a)[Len(a)] \in Seq(Nat)
<1> DEFINE Then(f, n) ==
      IF n = 0 THEN <<>> ELSE IF a[n] = 0 THEN f[n - 1] ELSE Append(f[n - 1], a[n])
    Solves(f, m) == f = [n \in 0 .. m |-> Then(f, n)]
    Bad == {m \in 0 .. Len(a) : ~ \E f : Solves(f, m)}
<1>1. NotBlank(a) = CHOOSE f : Solves(f, Len(a))
  BY Zenon DEF NotBlank
<1>2. \A f, g : \A n \in Nat : n = 0 \/ f[n - 1] = g[n - 1] => Then(f, n) = Then(g, n)
  OBVIOUS
<1>3. Bad = {}
  <2> SUFFICES ASSUME Bad # {} PROVE FALSE
    OBVIOUS
  <2>1. PICK m \in Bad : \A k \in Bad : m <= k
    <3>1. Bad \subseteq Nat
      OBVIOUS
    <3> HIDE DEF Bad
    <3> QED
      BY <3>1, LeastNat
  <2>2. m \in 0 .. Len(a) /\ ~ \E f : Solves(f, m)
    BY <2>1
  <2>3. CASE m = 0
    <3> DEFINE g == [n \in 0 .. 0 |-> <<>>]
    <3>1. g = [n \in 0 .. 0 |-> Then(g, n)]
      OBVIOUS
    <3> HIDE DEF Then
    <3> QED
      BY <2>2, <2>3, <3>1
  <2>4. CASE m # 0
    <3>1. PICK f : Solves(f, m - 1)
      <4>1. m - 1 \in 0 .. Len(a) /\ ~(m <= m - 1)
        BY <2>2, <2>4
      <4> HIDE DEF Solves
      <4> QED
        BY <2>1, <4>1
    <3> DEFINE g == [n \in 0 .. m |-> IF n = m THEN Then(f, m) ELSE f[n]]
    <3> HIDE DEF Then
    <3>2. ASSUME NEW n \in 0 .. m PROVE g[n] = Then(g, n)
      <4>1. n = 0 \/ n - 1 \in 0 .. m - 1
        BY <2>2, <3>2
      <4>2. n = 0 \/ g[n - 1] = f[n - 1]
        BY <2>2, <4>1
      <4>3. Then(g, n) = Then(f, n)
        <5> HIDE DEF g
        <5> QED
          BY <1>2, <2>2, <3>2, <4>2
      <4>4. CASE n = m
        BY <4>3, <4>4
      <4>5. CASE n # m
        <5>1. n \in 0 .. m - 1
          BY <2>2, <3>2, <4>5
        <5>2. f[n] = Then(f, n)
          BY <3>1, <5>1
        <5> QED
          BY <4>3, <4>5, <5>2
      <4> QED
        BY <4>4, <4>5
    <3>3. g = [n \in 0 .. m |-> Then(g, n)]
      <4>1. g = [n \in 0 .. m |-> g[n]]
        OBVIOUS
      <4> HIDE DEF g
      <4> QED
        BY <3>2, <4>1
    <3>4. Solves(g, m)
      <4> HIDE DEF g
      <4> QED
        BY <3>3
    <3> HIDE DEF Solves
    <3> QED
      BY <2>2, <3>4
  <2> QED
    BY <2>3, <2>4
<1>4. Solves(NotBlank(a), Len(a))
  <2>1. \E f : Solves(f, Len(a))
    <3>1. Len(a) \in 0 .. Len(a)
      OBVIOUS
    <3> HIDE DEF Solves
    <3> QED
      BY <1>3, <3>1
  <2> HIDE DEF Solves
  <2> QED
    BY <1>1, <2>1, Zenon
<1>5. \A n \in 0 .. Len(a) : NotBlank(a)[n] = Then(NotBlank(a), n)
  <2> HIDE DEF Then
  <2> QED
    BY <1>4
<1> DEFINE Odd == {n \in 0 .. Len(a) : NotBlank(a)[n] \notin Seq(Nat)}
<1>6. Odd = {}
  <2> SUFFICES ASSUME Odd # {} PROVE FALSE
    OBVIOUS
  <2>1. PICK m \in Odd : \A k \in Odd : m <= k
    <3>1. Odd \subseteq Nat
      OBVIOUS
    <3> HIDE DEF Odd
    <3> QED
      BY <3>1, LeastNat
  <2>2. CASE m = 0
    <3>1. NotBlank(a)[0] = <<>>
      BY <1>5, <2>1, <2>2
    <3>2. <<>> \in Seq(Nat)
      OBVIOUS
    <3> QED
      BY <2>1, <2>2, <3>1, <3>2, Zenon
  <2>3. CASE m # 0
    <3>1. m - 1 \in 0 .. Len(a) /\ ~(m <= m - 1) /\ a[m] \in Nat
      BY <2>1, <2>3
    <3>2. NotBlank(a)[m - 1] \in Seq(Nat)
      BY <2>1, <3>1
    <3>3. NotBlank(a)[m] = IF a[m] = 0 THEN NotBlank(a)[m - 1]
                           ELSE Append(NotBlank(a)[m - 1], a[m])
      BY <1>5, <2>1, <2>3
    <3>4. NotBlank(a)[m] \in Seq(Nat)
      <4> DEFINE before == NotBlank(a)[m - 1]
      <4>1. before \in Seq(Nat)
        BY <3>2
      <4> HIDE DEF before
      <4>2. Append(before, a[m]) \in Seq(Nat)
        BY <3>1, <4>1
      <4> QED
        BY <3>3, <4>1, <4>2 DEF before
    <3> QED
      BY <2>1, <3>4, Zenon
  <2> QED
    BY <2>2, <2>3
<1> QED
  BY <1>6

(* A text that is not blank has an embedding, and none of its embeddings is *)
(* that of a blank text.                                                    *)
LEMMA EmbeddingsOfText ==
  ASSUME NEW text \in Nat, NEW answer \in Seq(Nat)
  PROVE  /\ Embeddings(text, answer) \in Seq(EmbeddingSet)
         /\ text # 0 => Embeddings(text, answer) # <<>>
         /\ \A n \in DOMAIN Embeddings(text, answer) :
              text # 0 => Embeddings(text, answer)[n] # WholeText(0)
<1> DEFINE usable == NotBlank(answer)[Len(answer)]
<1>1. usable \in Seq(Nat)
  BY NotBlankSeq
<1>2. Embeddings(text, answer) = IF usable = <<>> /\ text # 0 THEN <<WholeText(text)>>
                                 ELSE [n \in DOMAIN usable |-> Summary(text, usable[n])]
  BY DEF Embeddings
<1> HIDE DEF usable
<1>3. CASE usable = <<>> /\ text # 0
  <2>1. Embeddings(text, answer) = <<WholeText(text)>>
    BY <1>2, <1>3
  <2>2. WholeText(text) \in EmbeddingSet /\ WholeText(text) # WholeText(0)
    BY <1>3 DEF WholeText, EmbeddingSet
  <2> QED
    BY <2>1, <2>2
<1>4. CASE ~(usable = <<>> /\ text # 0)
  <2>1. /\ DOMAIN usable = 1 .. Len(usable) /\ Len(usable) \in Nat
        /\ text # 0 => Len(usable) # 0
    BY <1>1, <1>4
  <2>2. Embeddings(text, answer) = [n \in 1 .. Len(usable) |-> Summary(text, usable[n])]
    BY <1>2, <1>4, <2>1
  <2>3. ASSUME NEW n \in 1 .. Len(usable)
        PROVE  Summary(text, usable[n]) \in EmbeddingSet /\ Summary(text, usable[n]) # WholeText(0)
    <3>1. usable[n] \in Nat /\ ModelReads(text) \in Nat
      BY <1>1, <2>3, ChunkConstants DEF ModelReads
    <3> HIDE DEF ModelReads
    <3> QED
      BY <3>1 DEF Summary, WholeText, EmbeddingSet
  <2> HIDE DEF EmbeddingSet, Summary
  <2> QED
    BY <2>1, <2>2, <2>3
<1> QED
  BY <1>3, <1>4

-----------------------------------------------------------------------------
(* Stamping *)

DocumentSet == [id : Nat \ {0}, sourceId : Nat, sourcePath : Nat, content : Seq(Nat)]

IdSet == Nat \X Nat \X Nat \X Seq(Nat)

ChunkSet ==
  [prompt : Nat, embedding : EmbeddingSet, prov : [source : Nat, content : Seq(Nat)], id : IdSet]

(* The source of a document is never empty: its id stands in for one. *)
LEMMA SourceOf ==
  ASSUME NEW doc \in DocumentSet
  PROVE  /\ Resolve(doc).source \in Nat \ {0}
         /\ Resolve(doc) \in [source : Nat, content : Seq(Nat)]
         /\ Resolve(doc).content = doc.content
  BY DEF DocumentSet, Resolve

LEMMA TwoFields ==
  ASSUME NEW chunk, NEW i, NEW prov
  PROVE  [chunk EXCEPT !.id = i, !.prov = prov] = [[chunk EXCEPT !.id = i] EXCEPT !.prov = prov]
  BY SMT

(* The chunks of a split say what the split holds and carry the id, source  *)
(* and content of their document.                                           *)
LEMMA StampedSplit ==
  ASSUME NEW doc \in DocumentSet, NEW at \in 1 .. Len(doc.content),
         NEW embeddings \in Seq(EmbeddingSet)
  PROVE  StampChunks(ChunksOf(SplitDoc(doc, at), embeddings), Resolve(doc), at) =
           [n \in 1 .. Len(embeddings) |->
              [prompt |-> doc.content[at], embedding |-> embeddings[n], prov |-> Resolve(doc),
               id |-> <<Resolve(doc).source, at, n - 1, doc.content>>]]
<1> DEFINE split == SplitDoc(doc, at)
    source == Resolve(doc).source
<1>1. source # 0 /\ Resolve(doc).content = doc.content
  BY SourceOf
<1>2. Resolve(doc) = [source |-> source, content |-> doc.content]
  BY DEF Resolve
<1>3. split.content = <<doc.content[at]>> /\ split.sourceId = source
  BY DEF SplitDoc, DocumentSet
<1>4. Resolve(split) = [source |-> source, content |-> split.content]
  <2> HIDE DEF split, source
  <2> QED
    BY <1>1, <1>3 DEF Resolve
<1> HIDE DEF split, source
<1>5. DOMAIN embeddings = 1 .. Len(embeddings)
  OBVIOUS
<1>6. ASSUME NEW n \in 1 .. Len(embeddings)
      PROVE  [ChunksOf(split, embeddings)[n]
                EXCEPT !.id = Mint(source, at, n - 1, doc.content), !.prov = [@ EXCEPT !.content = doc.content]] =
               [prompt |-> doc.content[at], embedding |-> embeddings[n], prov |-> Resolve(doc),
                id |-> <<source, at, n - 1, doc.content>>]
  <2>1. ChunksOf(split, embeddings)[n] =
          [prompt |-> doc.content[at], embedding |-> embeddings[n],
           prov |-> [source |-> source, content |-> split.content], id |-> <<>>]
    BY <1>3, <1>4, <1>5 DEF ChunksOf, NewChunk
  <2> HIDE DEF Mint
  <2> DEFINE chunk == ChunksOf(split, embeddings)[n]
    prov == [chunk.prov EXCEPT !.content = doc.content]
    id == Mint(source, at, n - 1, doc.content)
    named == [chunk EXCEPT !.id = id]
  <2>2. id = <<source, at, n - 1, doc.content>>
    BY DEF Mint
  <2> HIDE DEF id
  <2>3. chunk.prov = [source |-> source, content |-> split.content]
    BY <2>1
  <2>4. prov = [source |-> source, content |-> doc.content]
    BY <2>3
  <2>5. named = [prompt |-> doc.content[at], embedding |-> embeddings[n],
                 prov |-> [source |-> source, content |-> split.content], id |-> id]
    BY <2>1
  <2> HIDE DEF chunk, prov, named
  <2>6. [named EXCEPT !.prov = prov] =
          [prompt |-> doc.content[at], embedding |-> embeddings[n], prov |-> prov, id |-> id]
    BY <2>5
  <2>7. [chunk EXCEPT !.id = id, !.prov = prov] = [named EXCEPT !.prov = prov]
    BY TwoFields DEF named
  <2> QED
    BY <1>2, <2>2, <2>4, <2>6, <2>7 DEF chunk, prov, id
<1>7. DOMAIN ChunksOf(split, embeddings) = 1 .. Len(embeddings)
  BY <1>5 DEF ChunksOf
<1>8. StampChunks(ChunksOf(split, embeddings), Resolve(doc), at) =
        [n \in 1 .. Len(embeddings) |->
           [ChunksOf(split, embeddings)[n]
              EXCEPT !.id = Mint(source, at, n - 1, doc.content), !.prov = [@ EXCEPT !.content = doc.content]]]
  BY <1>1, <1>7 DEF StampChunks, source
<1>9. SplitDoc(doc, at) = split /\ Resolve(doc).source = source
  BY DEF split, source
<1> HIDE DEF Mint
<1> QED
  BY <1>6, <1>8, <1>9, Zenon

-----------------------------------------------------------------------------
(* The invariant *)

ChunkingSet ==
  [running : BOOLEAN, doc : DocumentSet \union {NoDocument}, simple : BOOLEAN, at : Nat,
   chunks : Seq(ChunkSet)]

RunSet == [doc : DocumentSet, simple : BOOLEAN, chunks : Seq(ChunkSet)]

IdOf(doc, seq, ordinal) == <<Resolve(doc).source, seq, ordinal, doc.content>>

(* Each chunk is one of the splits before at, and says so. *)
FromSplits(doc, chunks, at) ==
  \A k \in 1 .. Len(chunks) :
    /\ chunks[k].prov = Resolve(doc)
    /\ \E seq \in 1 .. at - 1, ordinal \in 0 .. Len(chunks) :
         chunks[k].id = IdOf(doc, seq, ordinal) /\ chunks[k].prompt = doc.content[seq]

Distinct(chunks) ==
  \A j, k \in 1 .. Len(chunks) : chunks[j].id = chunks[k].id => j = k

(* Each split before at that has text has a chunk that is found. *)
Indexed(doc, chunks, at) ==
  \A seq \in 1 .. at - 1 : doc.content[seq] # 0 =>
    \E k \in 1 .. Len(chunks), ordinal \in 0 .. Len(chunks) :
      chunks[k].id = IdOf(doc, seq, ordinal) /\ chunks[k].embedding # WholeText(0)

(* A simple chunker makes one chunk of each. *)
OneEach(doc, chunks, at) ==
  /\ Len(chunks) = at - 1
  /\ \A k \in 1 .. Len(chunks) : chunks[k].id = IdOf(doc, k, 0)

Chunked(doc, simple, chunks, at) ==
  /\ FromSplits(doc, chunks, at)
  /\ Distinct(chunks)
  /\ Indexed(doc, chunks, at)
  /\ simple => OneEach(doc, chunks, at)

ChunkInv ==
  /\ chunking \in ChunkingSet
  /\ chunkRuns \in Seq(RunSet)
  /\ chunking.running =>
       /\ chunking.doc \in DocumentSet
       /\ chunking.at \in 1 .. Len(chunking.doc.content) + 1
       /\ Chunked(chunking.doc, chunking.simple, chunking.chunks, chunking.at)
  /\ \A r \in 1 .. Len(chunkRuns) :
       Chunked(chunkRuns[r].doc, chunkRuns[r].simple, chunkRuns[r].chunks,
               Len(chunkRuns[r].doc.content) + 1)

(* Ids tell apart what they are minted of. *)
LEMMA IdsDiffer ==
  ASSUME NEW doc, NEW s1, NEW s2, NEW o1, NEW o2, IdOf(doc, s1, o1) = IdOf(doc, s2, o2)
  PROVE  s1 = s2 /\ o1 = o2
  BY DEF IdOf

(* What the chunks of one more split add. *)
LEMMA ChunksAdded ==
  ASSUME NEW doc \in DocumentSet, NEW at \in 1 .. Len(doc.content), NEW simple \in BOOLEAN,
         NEW old \in Seq(ChunkSet), NEW embeddings \in Seq(EmbeddingSet),
         Chunked(doc, simple, old, at),
         doc.content[at] # 0 =>
           embeddings # <<>> /\ \A n \in DOMAIN embeddings : embeddings[n] # WholeText(0),
         simple => Len(embeddings) = 1
  PROVE  LET new == StampChunks(ChunksOf(SplitDoc(doc, at), embeddings), Resolve(doc), at)
         IN  old \o new \in Seq(ChunkSet) /\ Chunked(doc, simple, old \o new, at + 1)
<1> DEFINE new == StampChunks(ChunksOf(SplitDoc(doc, at), embeddings), Resolve(doc), at)
    all == old \o new
    count == Len(embeddings)
    Made(n) == [prompt |-> doc.content[at], embedding |-> embeddings[n], prov |-> Resolve(doc),
                id |-> IdOf(doc, at, n - 1)]
<1>1. new = [n \in 1 .. count |-> Made(n)]
  BY StampedSplit, Zenon DEF IdOf
<1> HIDE DEF new
<1>2. count \in Nat /\ at \in Nat \ {0} /\ doc.content \in Seq(Nat) /\ doc.content[at] \in Nat
  BY DEF DocumentSet
<1>3. ASSUME NEW n \in 1 .. count PROVE Made(n) \in ChunkSet
  <2>1. embeddings[n] \in EmbeddingSet
    BY <1>2
  <2>2. Resolve(doc) \in [source : Nat, content : Seq(Nat)] /\ Resolve(doc).source \in Nat
    BY SourceOf
  <2>3. IdOf(doc, at, n - 1) \in IdSet
    <3>1. n - 1 \in Nat
      BY <1>2
    <3> QED
      BY <1>2, <2>2, <3>1 DEF IdOf, IdSet
  <2> HIDE DEF EmbeddingSet, IdSet
  <2> QED
    BY <1>2, <2>1, <2>2, <2>3 DEF ChunkSet
<1>4. new \in Seq(ChunkSet) /\ Len(new) = count
  <2> HIDE DEF Made, count
  <2>1. new \in [1 .. count -> ChunkSet]
    BY <1>1, <1>3
  <2>2. new \in Seq(ChunkSet)
    BY <1>2, <2>1
  <2>3. Len(new) = count
    BY <1>2, <2>1, <2>2
  <2> QED
    BY <2>2, <2>3
<1>5. /\ all \in Seq(ChunkSet)
      /\ Len(old) \in Nat /\ Len(all) = Len(old) + count
      /\ \A k \in 1 .. Len(old) : all[k] = old[k]
      /\ \A k \in 1 .. Len(all) : k \notin 1 .. Len(old) =>
           /\ k - Len(old) \in 1 .. count
           /\ all[k] = Made(k - Len(old))
  <2> HIDE DEF Made, count
  <2>1. \A n \in 1 .. count : new[n] = Made(n)
    BY <1>1
  <2>2. /\ all \in Seq(ChunkSet)
        /\ Len(old) \in Nat /\ Len(all) = Len(old) + count
        /\ \A k \in 1 .. Len(old) : all[k] = old[k]
        /\ \A k \in 1 .. Len(all) : k \notin 1 .. Len(old) =>
             k - Len(old) \in 1 .. count /\ all[k] = new[k - Len(old)]
    BY <1>4, Concatenated, Zenon
  <2> HIDE DEF all
  <2> QED
    BY <2>1, <2>2
<1> HIDE DEF all
<1>6. \A k \in 1 .. Len(all) : k \notin 1 .. Len(old) =>
        /\ all[k].prompt = doc.content[at] /\ all[k].prov = Resolve(doc)
        /\ all[k].embedding = embeddings[k - Len(old)]
        /\ all[k].id = IdOf(doc, at, (k - Len(old)) - 1)
  BY <1>5
<1> HIDE DEF Made
<1>7. FromSplits(doc, all, at + 1)
  <2> SUFFICES ASSUME NEW k \in 1 .. Len(all)
      PROVE  /\ all[k].prov = Resolve(doc)
             /\ \E seq \in 1 .. (at + 1) - 1, ordinal \in 0 .. Len(all) :
                  all[k].id = IdOf(doc, seq, ordinal) /\ all[k].prompt = doc.content[seq]
    BY DEF FromSplits
  <2>1. CASE k \in 1 .. Len(old)
    <3>1. PICK seq \in 1 .. at - 1, ordinal \in 0 .. Len(old) :
            old[k].id = IdOf(doc, seq, ordinal) /\ old[k].prompt = doc.content[seq]
      BY <2>1 DEF Chunked, FromSplits
    <3>2. old[k].prov = Resolve(doc)
      BY <2>1 DEF Chunked, FromSplits
    <3>3. seq \in 1 .. (at + 1) - 1 /\ ordinal \in 0 .. Len(all)
      BY <1>2, <1>5, <3>1
    <3> QED
      BY <1>5, <2>1, <3>1, <3>2, <3>3
  <2>2. CASE k \notin 1 .. Len(old)
    <3>1. at \in 1 .. (at + 1) - 1 /\ (k - Len(old)) - 1 \in 0 .. Len(all)
      BY <1>2, <1>5, <2>2
    <3> QED
      BY <1>6, <2>2, <3>1
  <2> QED
    BY <2>1, <2>2
<1>8. ASSUME NEW k \in 1 .. Len(old), NEW j \in 1 .. Len(all), j \notin 1 .. Len(old)
      PROVE  all[k].id # all[j].id
  <2>1. PICK seq \in 1 .. at - 1, ordinal \in 0 .. Len(old) : old[k].id = IdOf(doc, seq, ordinal)
    BY DEF Chunked, FromSplits
  <2>2. all[k].id = IdOf(doc, seq, ordinal) /\ all[j].id = IdOf(doc, at, (j - Len(old)) - 1)
    BY <1>5, <1>6, <1>8, <2>1
  <2>3. seq # at
    BY <1>2, <2>1
  <2> QED
    BY <2>2, <2>3, IdsDiffer
<1>9. Distinct(all)
  <2> SUFFICES ASSUME NEW j \in 1 .. Len(all), NEW k \in 1 .. Len(all), all[j].id = all[k].id
      PROVE  j = k
    BY DEF Distinct
  <2>1. CASE j \in 1 .. Len(old) /\ k \in 1 .. Len(old)
    BY <1>5, <2>1 DEF Chunked, Distinct
  <2>2. CASE j \notin 1 .. Len(old) /\ k \notin 1 .. Len(old)
    <3>1. (j - Len(old)) - 1 = (k - Len(old)) - 1
      BY <1>6, <2>2, IdsDiffer
    <3> QED
      BY <1>5, <2>2, <3>1
  <2> QED
    BY <1>8, <2>1, <2>2
<1>10. Indexed(doc, all, at + 1)
  <2> SUFFICES ASSUME NEW seq \in 1 .. (at + 1) - 1, doc.content[seq] # 0
      PROVE  \E k \in 1 .. Len(all), ordinal \in 0 .. Len(all) :
               all[k].id = IdOf(doc, seq, ordinal) /\ all[k].embedding # WholeText(0)
    BY DEF Indexed
  <2>1. CASE seq # at
    <3>1. seq \in 1 .. at - 1
      BY <1>2, <2>1
    <3>2. PICK k \in 1 .. Len(old), ordinal \in 0 .. Len(old) :
            old[k].id = IdOf(doc, seq, ordinal) /\ old[k].embedding # WholeText(0)
      BY <3>1 DEF Chunked, Indexed
    <3>3. k \in 1 .. Len(all) /\ ordinal \in 0 .. Len(all)
      BY <1>2, <1>5
    <3> QED
      BY <1>5, <3>2, <3>3
  <2>2. CASE seq = at
    <3> DEFINE k == Len(old) + 1
    <3>1. count # 0 /\ embeddings[1] # WholeText(0)
      BY <1>2, <2>2
    <3>2. k \in 1 .. Len(all) /\ k \notin 1 .. Len(old) /\ k - Len(old) = 1
      BY <1>2, <1>5, <3>1
    <3>3. all[k].id = IdOf(doc, at, 1 - 1) /\ all[k].embedding = embeddings[1]
      BY <1>6, <3>2
    <3>4. 1 - 1 \in 0 .. Len(all)
      BY <1>2, <1>5
    <3> HIDE DEF k
    <3> QED
      BY <2>2, <3>1, <3>2, <3>3, <3>4
  <2> QED
    BY <2>1, <2>2
<1>11. ASSUME simple PROVE OneEach(doc, all, at + 1)
  <2>1. Len(old) = at - 1 /\ \A k \in 1 .. Len(old) : old[k].id = IdOf(doc, k, 0)
    BY <1>11 DEF Chunked, OneEach
  <2>2. Len(all) = at
    <3>1. count = 1
      BY <1>11, Zenon
    <3> QED
      BY <1>2, <1>5, <2>1, <3>1
  <2>3. ASSUME NEW k \in 1 .. Len(all) PROVE all[k].id = IdOf(doc, k, 0)
    <3>1. CASE k \in 1 .. Len(old)
      BY <1>5, <2>1, <3>1
    <3>2. CASE k \notin 1 .. Len(old)
      <4>1. k = at /\ (k - Len(old)) - 1 = 0
        BY <1>2, <2>1, <2>2, <3>2
      <4> QED
        BY <1>6, <3>2, <4>1
    <3> QED
      BY <3>1, <3>2
  <2> QED
    BY <1>2, <2>2, <2>3 DEF OneEach
<1> QED
  BY <1>5, <1>7, <1>9, <1>10, <1>11 DEF Chunked, all, new

LEMMA RestsBetweenRuns == NotChunking \in ChunkingSet /\ ~NotChunking.running
  BY DEF NotChunking, ChunkingSet

LEMMA ChunkInitially == ChunksInit => ChunkInv
<1> SUFFICES ASSUME ChunksInit PROVE ChunkInv
  OBVIOUS
<1>1. chunking \in ChunkingSet /\ ~chunking.running
  BY RestsBetweenRuns, Zenon DEF ChunksInit
<1>2. chunkRuns = <<>> /\ chunkRuns \in Seq(RunSet) /\ 1 .. Len(chunkRuns) = {}
  BY DEF ChunksInit
<1> QED
  BY <1>1, <1>2, Zenon DEF ChunkInv

LEMMA TwoSet ==
  ASSUME NEW c, NEW at, NEW chunks
  PROVE  [c EXCEPT !.at = at, !.chunks = chunks] = [[c EXCEPT !.at = at] EXCEPT !.chunks = chunks]
  BY SMT

(* One more split keeps the invariant. *)
LEMMA SplitStep ==
  ASSUME ChunkInv, SplitLeft, NEW embeddings \in Seq(EmbeddingSet), AddChunks(embeddings),
         UNCHANGED chunkRuns,
         chunking.doc.content[chunking.at] # 0 =>
           embeddings # <<>> /\ \A n \in DOMAIN embeddings : embeddings[n] # WholeText(0),
         chunking.simple => Len(embeddings) = 1
  PROVE  ChunkInv'
<1> DEFINE doc == chunking.doc
    at == chunking.at
    new == StampChunks(ChunksOf(SplitDoc(doc, at), embeddings), Resolve(doc), at)
    moved == [chunking EXCEPT !.at = at + 1]
<1>1. /\ doc \in DocumentSet /\ at \in 1 .. Len(doc.content)
      /\ chunking.running /\ chunking \in ChunkingSet /\ chunkRuns \in Seq(RunSet)
      /\ Chunked(doc, chunking.simple, chunking.chunks, at)
  <2>1. /\ chunking.running /\ chunking \in ChunkingSet /\ chunkRuns \in Seq(RunSet)
        /\ doc \in DocumentSet /\ at \in 1 .. Len(doc.content) + 1
        /\ Chunked(doc, chunking.simple, chunking.chunks, at)
        /\ at <= Len(doc.content)
    BY Zenon DEF ChunkInv, SplitLeft
  <2>2. Len(doc.content) \in Nat
    BY <2>1 DEF DocumentSet
  <2>3. at \in 1 .. Len(doc.content)
    BY <2>1, <2>2
  <2> QED
    BY <2>1, <2>3, Zenon
<1>2. chunking.simple \in BOOLEAN /\ chunking.chunks \in Seq(ChunkSet)
  BY <1>1 DEF ChunkingSet
<1>3. /\ chunking.chunks \o new \in Seq(ChunkSet)
      /\ Chunked(doc, chunking.simple, chunking.chunks \o new, at + 1)
  <2> HIDE DEF doc, at
  <2> QED
    BY <1>1, <1>2, ChunksAdded, Zenon DEF doc, at
<1>4. chunking' = [moved EXCEPT !.chunks = chunking.chunks \o new]
  BY TwoSet, Zenon DEF AddChunks
<1> HIDE DEF new
<1>5. at \in Nat /\ at + 1 \in Nat
  BY <1>1
<1>6. moved \in ChunkingSet
  <2> HIDE DEF at
  <2> QED
    BY <1>1, <1>5 DEF ChunkingSet
<1>7. /\ moved.doc = doc /\ moved.at = at + 1
      /\ moved.running = chunking.running /\ moved.simple = chunking.simple
  <2> HIDE DEF at
  <2> QED
    BY <1>1 DEF ChunkingSet
<1> HIDE DEF moved, doc, at
<1>8. /\ chunking' \in ChunkingSet
      /\ chunking'.doc = doc /\ chunking'.at = at + 1
      /\ chunking'.running = chunking.running /\ chunking'.simple = chunking.simple
      /\ chunking'.chunks = chunking.chunks \o new
  <2> DEFINE all == chunking.chunks \o new
  <2>1. all \in Seq(ChunkSet)
    BY <1>3
  <2> HIDE DEF all
  <2>2. [moved EXCEPT !.chunks = all] \in ChunkingSet
    BY <1>6, <2>1 DEF ChunkingSet
  <2>3. LET c == [moved EXCEPT !.chunks = all]
        IN  /\ c.doc = moved.doc /\ c.at = moved.at /\ c.chunks = all
            /\ c.running = moved.running /\ c.simple = moved.simple
    BY <1>6 DEF ChunkingSet
  <2> QED
    BY <1>4, <1>7, <2>2, <2>3, Zenon DEF all
<1>9. at + 1 \in 1 .. Len(doc.content) + 1
  <2>1. Len(doc.content) \in Nat
    BY <1>1 DEF DocumentSet
  <2> QED
    BY <1>1, <2>1
<1>10. chunkRuns' = chunkRuns
  OBVIOUS
<1> QED
  BY <1>1, <1>3, <1>8, <1>9, <1>10, Zenon DEF ChunkInv

(* Nothing is chunked yet. *)
LEMMA NoChunksYet ==
  ASSUME NEW doc, NEW simple
  PROVE  Chunked(doc, simple, <<>>, 1)
<1>1. Len(<<>>) = 0 /\ 1 .. 0 = {} /\ 1 - 1 = 0
  OBVIOUS
<1>2. FromSplits(doc, <<>>, 1) /\ Distinct(<<>>) /\ Indexed(doc, <<>>, 1) /\ OneEach(doc, <<>>, 1)
  BY <1>1 DEF FromSplits, Distinct, Indexed, OneEach
<1> QED
  BY <1>2, Zenon DEF Chunked

LEMMA StartStep == ChunkInv /\ StartChunking => ChunkInv'
<1> SUFFICES ASSUME ChunkInv, StartChunking PROVE ChunkInv'
  OBVIOUS
<1>1. PICK content \in Contents, key \in SourceKeys, simple \in BOOLEAN :
        chunking' = [running |-> TRUE, simple |-> simple, at |-> 1, chunks |-> <<>>,
                     doc |-> [id |-> 10 + Len(chunkRuns), sourceId |-> key.sourceId,
                              sourcePath |-> key.sourcePath, content |-> content]]
  BY Zenon DEF StartChunking
<1> DEFINE doc == [id |-> 10 + Len(chunkRuns), sourceId |-> key.sourceId,
                   sourcePath |-> key.sourcePath, content |-> content]
<1>2. chunkRuns \in Seq(RunSet) /\ chunkRuns' = chunkRuns
  BY Zenon DEF ChunkInv, StartChunking
<1>3. /\ 10 + Len(chunkRuns) \in Nat \ {0} /\ content \in Seq(Nat)
      /\ key.sourceId \in Nat /\ key.sourcePath \in Nat
  BY <1>2, ChunkConstants
<1>4. doc \in DocumentSet
  BY <1>3 DEF DocumentSet
<1> HIDE DEF doc
<1>5. chunking' = [running |-> TRUE, simple |-> simple, at |-> 1, chunks |-> <<>>, doc |-> doc]
  BY <1>1, Zenon DEF doc
<1>6. /\ chunking' \in ChunkingSet
      /\ chunking'.doc = doc /\ chunking'.at = 1 /\ chunking'.chunks = <<>>
  BY <1>4, <1>5 DEF ChunkingSet
<1>7. Chunked(chunking'.doc, chunking'.simple, chunking'.chunks, chunking'.at)
  BY <1>6, NoChunksYet, Zenon
<1>8. 1 \in 1 .. Len(doc.content) + 1
  <2>1. Len(doc.content) \in Nat
    BY <1>4 DEF DocumentSet
  <2> QED
    BY <2>1
<1> QED
  BY <1>2, <1>4, <1>6, <1>7, <1>8, Zenon DEF ChunkInv

LEMMA SplitTexts ==
  ASSUME ChunkInv, SplitLeft
  PROVE  chunking.doc.content[chunking.at] \in Nat
<1>1. /\ chunking.doc \in DocumentSet /\ chunking.at \in 1 .. Len(chunking.doc.content) + 1
      /\ chunking.at <= Len(chunking.doc.content)
  BY Zenon DEF ChunkInv, SplitLeft
<1>2. chunking.doc.content \in Seq(Nat)
  BY <1>1 DEF DocumentSet
<1> QED
  BY <1>1, <1>2

LEMMA SimpleStep == ChunkInv /\ ChunkSimply => ChunkInv'
<1> SUFFICES ASSUME ChunkInv, ChunkSimply PROVE ChunkInv'
  OBVIOUS
<1> DEFINE text == chunking.doc.content[chunking.at]
    embeddings == <<WholeText(text)>>
<1>1. SplitLeft /\ AddChunks(embeddings) /\ UNCHANGED chunkRuns
  BY Zenon DEF ChunkSimply
<1>2. text \in Nat
  BY <1>1, SplitTexts
<1> HIDE DEF text
<1>3. WholeText(text) \in EmbeddingSet /\ (text # 0 => WholeText(text) # WholeText(0))
  BY <1>2 DEF WholeText, EmbeddingSet
<1>4. /\ embeddings \in Seq(EmbeddingSet) /\ Len(embeddings) = 1
      /\ text # 0 => embeddings # <<>> /\ \A n \in DOMAIN embeddings : embeddings[n] # WholeText(0)
  BY <1>3
<1> HIDE DEF embeddings
<1> QED
  BY <1>1, <1>4, SplitStep, Zenon DEF text

LEMMA ModelStep == ChunkInv /\ ChunkByModel => ChunkInv'
<1> SUFFICES ASSUME ChunkInv, ChunkByModel PROVE ChunkInv'
  OBVIOUS
<1> DEFINE text == chunking.doc.content[chunking.at]
<1>1. PICK answer \in Answers : AddChunks(Embeddings(text, answer))
  BY Zenon DEF ChunkByModel
<1>2. SplitLeft /\ ~chunking.simple /\ UNCHANGED chunkRuns
  BY Zenon DEF ChunkByModel
<1>3. text \in Nat /\ answer \in Seq(Nat)
  BY <1>2, SplitTexts, ChunkConstants
<1> HIDE DEF text
<1> DEFINE embeddings == Embeddings(text, answer)
<1>4. /\ embeddings \in Seq(EmbeddingSet)
      /\ text # 0 => embeddings # <<>> /\ \A n \in DOMAIN embeddings : embeddings[n] # WholeText(0)
  BY <1>3, EmbeddingsOfText, Zenon
<1> HIDE DEF embeddings
<1> QED
  BY <1>1, <1>2, <1>4, SplitStep, Zenon DEF text, embeddings

LEMMA FailStep == ChunkInv /\ ModelFails => ChunkInv'
<1> SUFFICES ASSUME ChunkInv, ModelFails PROVE ChunkInv'
  OBVIOUS
<1>1. chunking' = NotChunking /\ chunkRuns' = chunkRuns
  BY Zenon DEF ModelFails
<1>2. chunking' \in ChunkingSet /\ ~chunking'.running
  BY <1>1, RestsBetweenRuns, Zenon
<1> QED
  BY <1>1, <1>2, Zenon DEF ChunkInv

LEMMA SimpleOf ==
  ASSUME NEW d, NEW s \in BOOLEAN, NEW c
  PROVE  LET run == [doc |-> d, simple |-> s, chunks |-> c]
         IN  run.doc = d /\ run.simple = s /\ run.chunks = c
  OBVIOUS

LEMMA ReturnStep == ChunkInv /\ ReturnChunks => ChunkInv'
<1> SUFFICES ASSUME ChunkInv, ReturnChunks PROVE ChunkInv'
  OBVIOUS
<1> DEFINE run == [doc |-> chunking.doc, simple |-> chunking.simple, chunks |-> chunking.chunks]
<1>1. chunkRuns' = Append(chunkRuns, run) /\ chunking' = NotChunking
  BY Zenon DEF ReturnChunks
<1>2. /\ chunking.doc \in DocumentSet /\ chunking \in ChunkingSet /\ chunkRuns \in Seq(RunSet)
      /\ chunking.at \in 1 .. Len(chunking.doc.content) + 1
      /\ Chunked(chunking.doc, chunking.simple, chunking.chunks, chunking.at)
      /\ ~(chunking.at <= Len(chunking.doc.content))
  BY Zenon DEF ChunkInv, ReturnChunks, SplitLeft
<1>3. chunking.at = Len(chunking.doc.content) + 1
  <2>1. Len(chunking.doc.content) \in Nat
    BY <1>2 DEF DocumentSet
  <2> QED
    BY <1>2, <2>1
<1>4. chunking.simple \in BOOLEAN /\ chunking.chunks \in Seq(ChunkSet)
  BY <1>2 DEF ChunkingSet
<1>5. run.doc = chunking.doc /\ run.simple = chunking.simple /\ run.chunks = chunking.chunks
  BY <1>4, SimpleOf, Zenon
<1>6. run \in RunSet
  BY <1>2, <1>4 DEF RunSet
<1> HIDE DEF run
<1>7. Chunked(run.doc, run.simple, run.chunks, Len(run.doc.content) + 1)
  BY <1>2, <1>3, <1>5, Zenon
<1>8. /\ chunkRuns' \in Seq(RunSet)
      /\ \A r \in 1 .. Len(chunkRuns') :
           chunkRuns'[r] = run \/ (r \in 1 .. Len(chunkRuns) /\ chunkRuns'[r] = chunkRuns[r])
  BY <1>1, <1>2, <1>6
<1>9. ASSUME NEW r \in 1 .. Len(chunkRuns')
      PROVE  Chunked(chunkRuns'[r].doc, chunkRuns'[r].simple, chunkRuns'[r].chunks,
                     Len(chunkRuns'[r].doc.content) + 1)
  <2>1. CASE chunkRuns'[r] = run
    BY <1>7, <2>1, Zenon
  <2>2. CASE r \in 1 .. Len(chunkRuns) /\ chunkRuns'[r] = chunkRuns[r]
    BY <2>2, Zenon DEF ChunkInv
  <2> QED
    BY <1>8, <2>1, <2>2, Zenon
<1>10. chunking' \in ChunkingSet /\ ~chunking'.running
  BY <1>1, RestsBetweenRuns, Zenon
<1> QED
  BY <1>8, <1>9, <1>10, Zenon DEF ChunkInv

LEMMA ChunkStep == ChunkInv /\ [ChunksNext]_chunkVars => ChunkInv'
<1> SUFFICES ASSUME ChunkInv, [ChunksNext]_chunkVars PROVE ChunkInv'
  OBVIOUS
<1>1. CASE UNCHANGED chunkVars
  <2>1. chunking' = chunking /\ chunkRuns' = chunkRuns
    BY <1>1 DEF chunkVars
  <2> QED
    BY <2>1, Zenon DEF ChunkInv
<1>2. CASE ChunksNext
  BY <1>2, StartStep, SimpleStep, ModelStep, FailStep, ReturnStep, Zenon DEF ChunksNext
<1> QED
  BY <1>1, <1>2

-----------------------------------------------------------------------------
(* The results *)

(* What is known of a run that returned. *)
LEMMA RunFacts ==
  ASSUME ChunkInv, NEW r \in DOMAIN chunkRuns
  PROVE  /\ chunkRuns[r] \in RunSet
         /\ chunkRuns[r].doc \in DocumentSet /\ chunkRuns[r].doc.content \in Seq(Nat)
         /\ DOMAIN chunkRuns[r].chunks = 1 .. Len(chunkRuns[r].chunks)
         /\ Len(chunkRuns[r].chunks) \in Nat
         /\ FromSplits(chunkRuns[r].doc, chunkRuns[r].chunks, Len(chunkRuns[r].doc.content) + 1)
         /\ Distinct(chunkRuns[r].chunks)
         /\ Indexed(chunkRuns[r].doc, chunkRuns[r].chunks, Len(chunkRuns[r].doc.content) + 1)
         /\ chunkRuns[r].simple =>
              OneEach(chunkRuns[r].doc, chunkRuns[r].chunks, Len(chunkRuns[r].doc.content) + 1)
<1>1. chunkRuns \in Seq(RunSet)
  BY Zenon DEF ChunkInv
<1>2. r \in 1 .. Len(chunkRuns)
  BY <1>1
<1>3. chunkRuns[r] \in RunSet
  BY <1>1, <1>2
<1>4. chunkRuns[r].doc \in DocumentSet /\ chunkRuns[r].chunks \in Seq(ChunkSet)
  BY <1>3 DEF RunSet
<1>5. chunkRuns[r].doc.content \in Seq(Nat)
  BY <1>4 DEF DocumentSet
<1>6. /\ DOMAIN chunkRuns[r].chunks = 1 .. Len(chunkRuns[r].chunks)
      /\ Len(chunkRuns[r].chunks) \in Nat
  BY <1>4
<1> QED
  BY <1>2, <1>3, <1>4, <1>5, <1>6, Zenon DEF ChunkInv, Chunked

LEMMA NeverOverwritten == ChunkInv => NoChunkOverwritten
<1> SUFFICES ASSUME ChunkInv, NEW r \in DOMAIN chunkRuns
    PROVE  Cardinality(ChunkIdsOf(chunkRuns[r])) = Len(chunkRuns[r].chunks)
  BY Zenon DEF NoChunkOverwritten
<1> DEFINE chunks == chunkRuns[r].chunks
    ids == {chunks[n].id : n \in 1 .. Len(chunks)}
    f == [n \in 1 .. Len(chunks) |-> chunks[n].id]
<1>1. Len(chunks) \in Nat /\ DOMAIN chunks = 1 .. Len(chunks) /\ Distinct(chunks)
  BY RunFacts, Zenon
<1> HIDE DEF chunks
<1>2. f \in Injection(1 .. Len(chunks), ids)
  <2>1. f \in [1 .. Len(chunks) -> ids]
    OBVIOUS
  <2>2. \A j, k \in 1 .. Len(chunks) : f[j] = f[k] => j = k
    BY <1>1 DEF Distinct
  <2> HIDE DEF f, ids
  <2> QED
    BY <2>1, <2>2 DEF Injection, IsInjective
<1>3. f \in Surjection(1 .. Len(chunks), ids)
  BY DEF Surjection
<1>4. ExistsBijection(1 .. Len(chunks), ids)
  BY <1>2, <1>3, Zenon DEF ExistsBijection, Bijection
<1> HIDE DEF f, ids
<1>5. Cardinality(ids) = Len(chunks)
  BY <1>1, <1>4, FS_CountingElements
<1>6. ChunkIdsOf(chunkRuns[r]) = ids
  BY <1>1, Zenon DEF ChunkIdsOf, ids, chunks
<1> QED
  BY <1>5, <1>6 DEF chunks

LEMMA OneToken == ChunkInv => OneTokenPerSource
<1> SUFFICES ASSUME ChunkInv, NEW r \in DOMAIN chunkRuns, NEW n \in DOMAIN chunkRuns[r].chunks
    PROVE  chunkRuns[r].chunks[n].prov = Resolve(chunkRuns[r].doc)
  BY Zenon DEF OneTokenPerSource
<1> QED
  BY RunFacts, Zenon DEF FromSplits

LEMMA TextsIndexed == ChunkInv => TextIsIndexed
<1> SUFFICES ASSUME ChunkInv, NEW r \in DOMAIN chunkRuns, NEW n \in DOMAIN chunkRuns[r].doc.content,
                    chunkRuns[r].doc.content[n] # 0
    PROVE  \E k \in DOMAIN chunkRuns[r].chunks :
             /\ chunkRuns[r].chunks[k].id[2] = n
             /\ chunkRuns[r].chunks[k].prompt = chunkRuns[r].doc.content[n]
             /\ chunkRuns[r].chunks[k].embedding # WholeText(0)
  BY Zenon DEF TextIsIndexed
<1> DEFINE chunks == chunkRuns[r].chunks
    doc == chunkRuns[r].doc
    end == Len(doc.content) + 1
<1>1. /\ doc.content \in Seq(Nat) /\ DOMAIN chunks = 1 .. Len(chunks)
      /\ FromSplits(doc, chunks, end) /\ Indexed(doc, chunks, end)
  BY RunFacts, Zenon
<1>2. n \in 1 .. end - 1
  BY <1>1
<1> HIDE DEF chunks, doc, end
<1>3. doc.content[n] # 0
  BY Zenon DEF doc
<1>4. PICK k \in 1 .. Len(chunks), ordinal \in 0 .. Len(chunks) :
        chunks[k].id = IdOf(doc, n, ordinal) /\ chunks[k].embedding # WholeText(0)
  BY <1>1, <1>2, <1>3, Zenon DEF Indexed
<1>5. PICK seq \in 1 .. end - 1, other \in 0 .. Len(chunks) :
        chunks[k].id = IdOf(doc, seq, other) /\ chunks[k].prompt = doc.content[seq]
  BY <1>1, <1>4, Zenon DEF FromSplits
<1>6. seq = n
  <2>1. IdOf(doc, seq, other) = IdOf(doc, n, ordinal)
    BY <1>4, <1>5, Zenon
  <2> QED
    BY <2>1 DEF IdOf
<1>7. IdOf(doc, n, ordinal)[2] = n
  BY DEF IdOf
<1>8. k \in DOMAIN chunks /\ chunks[k].id[2] = n /\ chunks[k].prompt = doc.content[n]
  BY <1>1, <1>4, <1>5, <1>6, <1>7
<1> QED
  BY <1>4, <1>8, Zenon DEF chunks, doc

LEMMA SimpleIds ==
  ASSUME ChunkInv, NEW r \in DOMAIN chunkRuns, chunkRuns[r].simple
  PROVE  ChunkIdsOf(chunkRuns[r]) =
           {IdOf(chunkRuns[r].doc, n, 0) : n \in 1 .. Len(chunkRuns[r].doc.content)}
<1> DEFINE chunks == chunkRuns[r].chunks
    doc == chunkRuns[r].doc
<1>1. /\ doc.content \in Seq(Nat) /\ DOMAIN chunks = 1 .. Len(chunks)
      /\ OneEach(doc, chunks, Len(doc.content) + 1)
  BY RunFacts, Zenon
<1> HIDE DEF chunks, doc
<1>2. Len(chunks) = Len(doc.content) /\ \A k \in 1 .. Len(chunks) : chunks[k].id = IdOf(doc, k, 0)
  BY <1>1 DEF OneEach
<1>3. ChunkIdsOf(chunkRuns[r]) = {chunks[n].id : n \in 1 .. Len(chunks)}
  BY <1>1, Zenon DEF ChunkIdsOf, chunks
<1>4. {chunks[n].id : n \in 1 .. Len(chunks)} = {IdOf(doc, n, 0) : n \in 1 .. Len(doc.content)}
  BY <1>2
<1> QED
  BY <1>3, <1>4 DEF doc

LEMMA ReplacedOrGone == ChunkInv => UpsertReplaces
<1> SUFFICES ASSUME ChunkInv, NEW r \in DOMAIN chunkRuns, NEW q \in DOMAIN chunkRuns,
                    SameSource(chunkRuns[r].doc, chunkRuns[q].doc),
                    chunkRuns[r].simple, chunkRuns[q].simple
    PROVE  IF chunkRuns[r].doc.content = chunkRuns[q].doc.content
           THEN ChunkIdsOf(chunkRuns[r]) = ChunkIdsOf(chunkRuns[q])
           ELSE ChunkIdsOf(chunkRuns[r]) \intersect ChunkIdsOf(chunkRuns[q]) = {}
  BY Zenon DEF UpsertReplaces
<1> DEFINE d == chunkRuns[r].doc
    e == chunkRuns[q].doc
<1>1. /\ ChunkIdsOf(chunkRuns[r]) = {IdOf(d, n, 0) : n \in 1 .. Len(d.content)}
      /\ ChunkIdsOf(chunkRuns[q]) = {IdOf(e, n, 0) : n \in 1 .. Len(e.content)}
  BY SimpleIds, Zenon
<1>2. SameSource(d, e)
  BY Zenon
<1> HIDE DEF d, e
<1>3. Resolve(d).source = Resolve(e).source
  BY <1>2 DEF SameSource, Resolve
<1>4. CASE d.content = e.content
  <2>1. \A n : IdOf(d, n, 0) = IdOf(e, n, 0)
    BY <1>3, <1>4, Zenon DEF IdOf
  <2> QED
    BY <1>1, <1>4, <2>1, Zenon DEF d, e
<1>5. CASE d.content # e.content
  <2>1. \A n, m : IdOf(d, n, 0) # IdOf(e, m, 0)
    BY <1>5 DEF IdOf
  <2>2. ChunkIdsOf(chunkRuns[r]) \intersect ChunkIdsOf(chunkRuns[q]) = {}
    BY <1>1, <2>1
  <2> QED
    BY <1>5, <2>2 DEF d, e
<1> QED
  BY <1>4, <1>5

(* The ids of a document's chunks are distinct, every chunk bears the token of *)
(* its document, every text is found, and chunking a source again replaces its *)
(* chunks, for any documents, answers of the model and number of runs          *)
(* (ChunkPipeline.run, LLMChunker.chunk, mint_chunk_id).                       *)
THEOREM ChunksStayKnown == ChunksSpec => []ChunksAreKnown
<1>1. ChunkInv => ChunksAreKnown
  BY NeverOverwritten, OneToken, TextsIndexed, ReplacedOrGone, Zenon DEF ChunksAreKnown
<1> QED
  BY <1>1, ChunkInitially, ChunkStep, PTL DEF ChunksSpec

-----------------------------------------------------------------------------
(* The parts of blocks *)

SpanSet == [type : SpanTypes, full : BOOLEAN]

Roles ==
  {"lines", "item", "code_body", "code_caption", "image_body", "image_caption", "image_footnote",
   "table_body", "table_caption", "table_footnote", "chart_body", "chart_caption", "chart_footnote"}

PartSet == [role : Roles, spans : Seq(SpanSet)]

BlockKinds == {"title", "text", "list", "code", "table", "chart", "image"} \union DiscardedTypes

ParsedTypes ==
  {"Heading", "Paragraph", "DocumentList", "RawText", "Table", "Image", "Footnote"}

ElementSet == [type : ParsedTypes, from : Nat, part : Nat, page : Nat]

(* What stands in for the content of a part. *)
FullPart(part) == \E k \in DOMAIN part.spans : part.spans[k].full

RankOf(kind, type) ==
  CASE type \in {"Heading", "Image"} -> 1
    [] type = "Paragraph" -> IF kind = "image" THEN 2 ELSE 1
    [] type \in {"Table", "DocumentList", "Footnote"} -> 2
    [] OTHER -> 3

LEMMA RankedBy == \A e : PartRank(e) = RankOf(blocks[e.from].kind, e.type)
  BY DEF PartRank, RankOf

(* The first of some indices of a sequence. *)
LEMMA LeastIndex ==
  ASSUME NEW S, NEW q \in Seq(S), NEW at, at \subseteq DOMAIN q, at # {}
  PROVE  LET least == CHOOSE k \in at : \A j \in at : k <= j
         IN  least \in at /\ least \in 1 .. Len(q)
<1>1. at \subseteq Nat /\ DOMAIN q = 1 .. Len(q)
  OBVIOUS
<1>2. \E k \in at : \A j \in at : k <= j
  BY <1>1, LeastNat
<1> DEFINE least == CHOOSE k \in at : \A j \in at : k <= j
<1>3. least \in at
  BY <1>2, Zenon
<1> HIDE DEF least
<1>4. least \in at /\ least \in 1 .. Len(q)
  BY <1>1, <1>3
<1> QED
  BY <1>4 DEF least

LEMMA FirstPartOf ==
  ASSUME NEW role, NEW parts \in Seq(PartSet)
  PROVE  LET k == FirstPart(role, parts)
         IN  /\ k \in Nat
             /\ k # 0 => k \in DOMAIN parts /\ parts[k] \in PartSet /\ parts[k].role = role
<1> DEFINE at == {n \in DOMAIN parts : parts[n].role = role}
<1>1. CASE at = {}
  BY <1>1 DEF FirstPart
<1>2. CASE at # {}
  <2> DEFINE k == FirstPart(role, parts)
  <2>1. k = CHOOSE n \in at : \A j \in at : n <= j
    BY <1>2 DEF FirstPart
  <2>2. k \in at /\ k \in 1 .. Len(parts)
    <3> HIDE DEF at, k
    <3>1. at \subseteq DOMAIN parts
      BY DEF at
    <3> QED
      BY <1>2, <2>1, <3>1, LeastIndex
  <2>3. k \in DOMAIN parts /\ parts[k] \in PartSet /\ parts[k].role = role /\ k \in Nat
    <3> HIDE DEF k
    <3> QED
      BY <2>2
  <2> QED
    BY <2>3
<1> QED
  BY <1>1, <1>2

LEMMA FirstSpanOf ==
  ASSUME NEW types, NEW spans \in Seq(SpanSet), FirstSpan(types, spans) # <<>>
  PROVE  \E k \in DOMAIN spans : FirstSpan(types, spans) = <<spans[k]>> /\ spans[k].type \in types
<1> DEFINE at == {k \in DOMAIN spans : spans[k].type \in types}
    least == CHOOSE k \in at : \A j \in at : k <= j
<1>1. FirstSpan(types, spans) = IF at = {} THEN <<>> ELSE <<spans[least]>>
  BY Zenon DEF FirstSpan
<1>2. at # {} /\ at \subseteq DOMAIN spans
  BY <1>1
<1>3. least \in at
  <2> HIDE DEF at
  <2> QED
    BY <1>2, LeastIndex
<1> HIDE DEF least
<1> QED
  BY <1>1, <1>2, <1>3

LEMMA LostSpan ==
  ASSUME NEW spans \in Seq(SpanSet), NEW k \in DOMAIN spans, spans[k].type = "lost image"
  PROVE  FirstSpan({"lost image"}, spans) # <<>>
  BY DEF FirstSpan

-----------------------------------------------------------------------------
(* The elements of one block *)

(* No element, or the one of a part that has something to show. *)
MadeOf(es, type, role, parts) ==
  \/ es = <<>>
  \/ \E k \in DOMAIN parts :
       es = <<Element(type, k)>> /\ parts[k].role = role /\ FullPart(parts[k])

LEMMA TextMade ==
  ASSUME NEW type, NEW role, NEW parts \in Seq(PartSet)
  PROVE  MadeOf(TextOf(type, parts, role), type, role, parts)
<1> DEFINE k == FirstPart(role, parts)
<1>1. CASE k > 0 /\ HasText(parts[k])
  <2>1. k \in DOMAIN parts /\ parts[k].role = role
    BY <1>1, FirstPartOf
  <2>2. FullPart(parts[k])
    BY <1>1 DEF HasText, FullPart
  <2>3. TextOf(type, parts, role) = <<Element(type, k)>>
    BY <1>1 DEF TextOf
  <2> QED
    BY <2>1, <2>2, <2>3, Zenon DEF MadeOf
<1>2. CASE ~(k > 0 /\ HasText(parts[k]))
  <2>1. TextOf(type, parts, role) = <<>>
    BY <1>2, Zenon DEF TextOf, None
  <2> QED
    BY <2>1, Zenon DEF MadeOf
<1> QED
  BY <1>1, <1>2

LEMMA BodyMade ==
  ASSUME NEW type, NEW role, NEW span, NEW parts \in Seq(PartSet)
  PROVE  MadeOf(BodyOf(type, parts, role, span), type, role, parts)
<1> DEFINE k == FirstPart(role, parts)
    found == IF k = 0 THEN <<>> ELSE FirstSpan({span}, parts[k].spans)
<1>1. CASE found # <<>> /\ Head(found).full
  <2>1. k # 0 /\ found = FirstSpan({span}, parts[k].spans)
    BY <1>1
  <2>2. k \in DOMAIN parts /\ parts[k] \in PartSet /\ parts[k].role = role
    BY <2>1, FirstPartOf
  <2> HIDE DEF k
  <2>3. parts[k].spans \in Seq(SpanSet)
    BY <2>2 DEF PartSet
  <2>4. PICK n \in DOMAIN parts[k].spans : found = <<parts[k].spans[n]>>
    BY <1>1, <2>1, <2>3, FirstSpanOf
  <2>5. parts[k].spans[n].full
    <3> DEFINE span_ == parts[k].spans[n]
    <3>1. Head(<<span_>>) = span_
      OBVIOUS
    <3> HIDE DEF found
    <3> QED
      BY <1>1, <2>4, <3>1, Zenon
  <2>6. FullPart(parts[k])
    BY <2>5, Zenon DEF FullPart
  <2>7. BodyOf(type, parts, role, span) = <<Element(type, k)>>
    BY <1>1, Zenon DEF BodyOf, k
  <2> QED
    BY <2>2, <2>6, <2>7, Zenon DEF MadeOf
<1>2. CASE ~(found # <<>> /\ Head(found).full)
  <2>1. BodyOf(type, parts, role, span) = <<>>
    BY <1>2, Zenon DEF BodyOf, None
  <2> QED
    BY <2>1, Zenon DEF MadeOf
<1> QED
  BY <1>1, <1>2

(* The elements of the block at hand: in the order of their ranks, up to    *)
(* rank, each from a part of its own with one of the roles.                 *)
Good(kind, parts, es, rank, roles) ==
  /\ es \in Seq(ElementSet)
  /\ \A n \in 1 .. Len(es) :
       /\ es[n].from = Len(blocks) + 1 /\ es[n].page = page
       /\ es[n].part \in DOMAIN parts /\ FullPart(parts[es[n].part])
       /\ parts[es[n].part].role \in roles
       /\ RankOf(kind, es[n].type) <= rank
  /\ \A m, n \in 1 .. Len(es) : m < n =>
       /\ RankOf(kind, es[m].type) < RankOf(kind, es[n].type)
       /\ parts[es[m].part].role # parts[es[n].part].role

LEMMA Ranks == \A kind, type : RankOf(kind, type) \in {1, 2, 3}
  BY DEF RankOf

LEMMA GoodNone ==
  ASSUME NEW kind, NEW parts
  PROVE  Good(kind, parts, <<>>, 0, {})
  BY DEF Good

LEMMA GoodMore ==
  ASSUME NEW kind, NEW parts \in Seq(PartSet), NEW es, NEW rank \in Nat, NEW roles,
         NEW more, NEW type \in ParsedTypes, NEW role,
         Good(kind, parts, es, rank, roles), MadeOf(more, type, role, parts),
         rank < RankOf(kind, type), role \notin roles,
         Len(blocks) \in Nat, page \in Nat
  PROVE  Good(kind, parts, es \o more, RankOf(kind, type), roles \union {role})
<1> DEFINE top == RankOf(kind, type)
<1>1. es \in Seq(ElementSet) /\ top \in Nat /\ Len(es) \in Nat
  BY Ranks DEF Good
<1>2. \A n \in 1 .. Len(es) : RankOf(kind, es[n].type) \in Nat
  BY Ranks
<1>3. CASE more = <<>>
  <2>1. es \o more = es
    BY <1>1, <1>3
  <2>2. Good(kind, parts, es, top, roles \union {role})
    BY <1>1, <1>2 DEF Good
  <2> QED
    BY <2>1, <2>2
<1>4. CASE more # <<>>
  <2>1. PICK k \in DOMAIN parts :
          more = <<Element(type, k)>> /\ parts[k].role = role /\ FullPart(parts[k])
    BY <1>4, Zenon DEF MadeOf
  <2> DEFINE e == Element(type, k)
      all == es \o <<e>>
  <2>2. /\ e.type = type /\ e.from = Len(blocks) + 1 /\ e.part = k /\ e.page = page
        /\ e \in ElementSet
    BY DEF Element, ElementSet
  <2> HIDE DEF e
  <2>3. /\ all \in Seq(ElementSet) /\ Len(all) = Len(es) + 1
        /\ \A n \in 1 .. Len(es) : all[n] = es[n]
        /\ all[Len(es) + 1] = e
    BY <1>1, <2>2
  <2> HIDE DEF all
  <2>4. \A n \in 1 .. Len(all) : n \in 1 .. Len(es) \/ n = Len(es) + 1
    BY <1>1, <2>3
  <2>5. ASSUME NEW n \in 1 .. Len(all)
        PROVE  /\ all[n].from = Len(blocks) + 1 /\ all[n].page = page
               /\ all[n].part \in DOMAIN parts /\ FullPart(parts[all[n].part])
               /\ parts[all[n].part].role \in roles \union {role}
               /\ RankOf(kind, all[n].type) <= top
    <3>1. CASE n \in 1 .. Len(es)
      <4>1. all[n] = es[n]
        BY <2>3, <3>1
      <4>2. RankOf(kind, es[n].type) <= top
        <5>1. RankOf(kind, es[n].type) <= rank
          BY <3>1 DEF Good
        <5> HIDE DEF top
        <5> QED
          BY <1>1, <1>2, <3>1, <5>1 DEF top
      <4> QED
        BY <3>1, <4>1, <4>2, Zenon DEF Good
    <3>2. CASE n = Len(es) + 1
      BY <1>1, <2>1, <2>2, <2>3, <3>2
    <3> QED
      BY <2>4, <3>1, <3>2
  <2>6. ASSUME NEW m \in 1 .. Len(all), NEW n \in 1 .. Len(all), m < n
        PROVE  /\ RankOf(kind, all[m].type) < RankOf(kind, all[n].type)
               /\ parts[all[m].part].role # parts[all[n].part].role
    <3>1. m \in 1 .. Len(es)
      BY <1>1, <2>3, <2>6
    <3>2. CASE n \in 1 .. Len(es)
      BY <2>3, <2>6, <3>1, <3>2 DEF Good
    <3>3. CASE n = Len(es) + 1
      <4>1. RankOf(kind, es[m].type) <= rank /\ parts[es[m].part].role \in roles
        BY <3>1 DEF Good
      <4>2. all[n] = e /\ all[m] = es[m] /\ parts[e.part].role = role
        BY <2>1, <2>2, <2>3, <3>1, <3>3, Zenon
      <4> QED
        BY <1>1, <1>2, <2>2, <2>3, <3>1, <3>3, <4>1, <4>2
    <3> QED
      BY <2>4, <3>2, <3>3
  <2>7. Good(kind, parts, all, top, roles \union {role})
    BY <2>3, <2>5, <2>6, Zenon DEF Good
  <2> QED
    BY <2>1, <2>7 DEF all, e
<1> QED
  BY <1>3, <1>4

LEMMA GoodOne ==
  ASSUME NEW kind, NEW parts \in Seq(PartSet), NEW es, NEW type \in ParsedTypes, NEW role,
         MadeOf(es, type, role, parts), Len(blocks) \in Nat, page \in Nat
  PROVE  Good(kind, parts, es, RankOf(kind, type), {role})
<1>1. Good(kind, parts, <<>> \o es, RankOf(kind, type), {} \union {role})
  <2>1. 0 \in Nat /\ 0 < RankOf(kind, type) /\ role \notin {}
    BY Ranks
  <2> QED
    BY <2>1, GoodNone, GoodMore
<1>2. <<>> \o es = es
  <2>1. es = <<>> \/ \E x : es = <<x>>
    BY Zenon DEF MadeOf
  <2> QED
    BY <2>1
<1>3. {} \union {role} = {role}
  OBVIOUS
<1> QED
  BY <1>1, <1>2, <1>3, Zenon

-----------------------------------------------------------------------------
(* The invariant of the parser *)

BlockSet ==
  [page : Nat, kind : BlockKinds, parts : Seq(PartSet) \union Seq(FootnoteTexts)]

MineruTypes ==
  /\ page \in Nat
  /\ blocks \in Seq(BlockSet)
  /\ produced \in Seq(ElementSet)
  /\ warnings \subseteq 1 .. Len(blocks)

(* Each element comes from a block there is, no later than the page at hand. *)
FromBlocks ==
  \A n \in 1 .. Len(produced) :
    /\ produced[n].from \in 1 .. Len(blocks)
    /\ produced[n].page = blocks[produced[n].from].page
    /\ produced[n].page <= page

RankAt(n) == RankOf(blocks[produced[n].from].kind, produced[n].type)

Ordered ==
  \A m, n \in 1 .. Len(produced) : m < n =>
    /\ produced[m].page <= produced[n].page
    /\ produced[m].from <= produced[n].from
    /\ produced[m].from = produced[n].from => RankAt(m) < RankAt(n)

(* The elements of blocks other than lists and discarded ones. *)
Shown(n) == blocks[produced[n].from].kind \notin DiscardedTypes \union {"list"}

NotBlankOnce ==
  \A n \in 1 .. Len(produced) : Shown(n) =>
    /\ FullPart(blocks[produced[n].from].parts[produced[n].part])
    /\ \A m \in 1 .. Len(produced) :
         produced[m].from = produced[n].from /\ produced[m].part = produced[n].part => m = n

NoteBlock(n) ==
  blocks[n].kind \in DiscardedTypes /\ DiscardedHandler[blocks[n].kind] = "footnote"

Noted(n) == \E m \in 1 .. Len(produced) : produced[m].from = n

NoteOrWarning ==
  \A n \in 1 .. Len(blocks) : NoteBlock(n) => (n \in warnings <=> ~Noted(n))

Predicted ==
  sourceDir => \A n \in warnings : blocks[n].kind = "image" => MissingOf(blocks[n].parts)

MineruInv ==
  MineruTypes /\ FromBlocks /\ Ordered /\ NotBlankOnce /\ NoteOrWarning /\ Predicted

LEMMA ParseFollows == MineruInv => ParseIsFaithful
<1> SUFFICES ASSUME MineruInv PROVE ParseIsFaithful
  OBVIOUS
<1>1. /\ DOMAIN produced = 1 .. Len(produced) /\ DOMAIN blocks = 1 .. Len(blocks)
      /\ warnings \subseteq DOMAIN blocks
  BY DEF MineruInv, MineruTypes
<1>2. ElementsInOrder
  <2>1. \A n \in DOMAIN produced : PartRank(produced[n]) = RankAt(n)
    BY RankedBy, Zenon DEF RankAt
  <2> QED
    BY <1>1, <2>1, Zenon DEF ElementsInOrder, MineruInv, Ordered, FromBlocks
<1>3. NoBlankElement
  <2> SUFFICES ASSUME NEW n \in DOMAIN produced, Shown(n)
      PROVE  /\ FullPart(blocks[produced[n].from].parts[produced[n].part])
             /\ \A m \in DOMAIN produced :
                  produced[m].from = produced[n].from /\ produced[m].part = produced[n].part => m = n
    BY Zenon DEF NoBlankElement, FullPart, Shown
  <2> QED
    BY <1>1, Zenon DEF MineruInv, NotBlankOnce
<1>4. FootnoteOrWarning
  <2> SUFFICES ASSUME NEW n \in DOMAIN blocks, NoteBlock(n)
      PROVE  (n \in warnings) # (\E m \in DOMAIN produced : produced[m].from = n)
    BY Zenon DEF FootnoteOrWarning, NoteBlock
  <2>1. n \in warnings <=> ~(\E m \in DOMAIN produced : produced[m].from = n)
    BY <1>1, Zenon DEF MineruInv, NoteOrWarning, Noted
  <2> QED
    BY <2>1, Zenon
<1>5. PreflightPredicts
  BY <1>1 DEF PreflightPredicts, CheckImages, MineruInv, Predicted
<1> QED
  BY <1>2, <1>3, <1>4, <1>5, Zenon DEF ParseIsFaithful

(* One more block keeps the invariant. *)
LEMMA BlockStep ==
  ASSUME MineruInv, NEW kind \in BlockKinds, NEW parts \in Seq(PartSet) \union Seq(FootnoteTexts),
         NEW es \in Seq(ElementSet), Handled(kind, parts, es),
         \A n \in 1 .. Len(es) : es[n].from = Len(blocks) + 1 /\ es[n].page = page,
         \A m, n \in 1 .. Len(es) : m < n => RankOf(kind, es[m].type) < RankOf(kind, es[n].type),
         kind \notin DiscardedTypes \union {"list"} =>
           /\ \A n \in 1 .. Len(es) : FullPart(parts[es[n].part])
           /\ \A m, n \in 1 .. Len(es) : m < n => es[m].part # es[n].part,
         NEW W \in SUBSET {Len(blocks) + 1}, warnings' = warnings \union W,
         kind \in DiscardedTypes /\ DiscardedHandler[kind] = "footnote" => (W # {} <=> es = <<>>),
         sourceDir /\ kind = "image" /\ W # {} => MissingOf(parts)
  PROVE  MineruInv'
<1> DEFINE new == Len(blocks) + 1
    block == [page |-> page, kind |-> kind, parts |-> parts]
    old == Len(produced)
<1>1. /\ MineruTypes /\ FromBlocks /\ Ordered /\ NotBlankOnce /\ NoteOrWarning /\ Predicted
      /\ blocks' = Append(blocks, block) /\ produced' = produced \o es
      /\ page' = page /\ sourceDir' = sourceDir
  BY Zenon DEF MineruInv, Handled
<1>2. /\ block.page = page /\ block.kind = kind /\ block.parts = parts /\ block \in BlockSet
  BY <1>1 DEF BlockSet, MineruTypes
<1> HIDE DEF block
<1>3. /\ blocks' \in Seq(BlockSet) /\ Len(blocks') = new /\ Len(blocks) \in Nat
      /\ \A n \in 1 .. Len(blocks) : blocks'[n] = blocks[n]
      /\ blocks'[new] = block
  BY <1>1, <1>2 DEF MineruTypes
<1>4. produced \in Seq(ElementSet) /\ old \in Nat /\ Len(es) \in Nat /\ page \in Nat
  BY <1>1 DEF MineruTypes
<1>5. /\ produced' \in Seq(ElementSet) /\ Len(produced') = old + Len(es)
      /\ \A n \in 1 .. old : produced'[n] = produced[n]
      /\ \A n \in 1 .. Len(produced') : n \notin 1 .. old =>
           n - old \in 1 .. Len(es) /\ produced'[n] = es[n - old]
  <2>1. produced \o es \in Seq(ElementSet)
    BY <1>4
  <2>2. Len(produced \o es) = old + Len(es)
    BY <1>4
  <2>3. \A n \in 1 .. old : (produced \o es)[n] = produced[n]
    BY <1>4
  <2>4. \A n \in 1 .. Len(produced \o es) : n \notin 1 .. old =>
           n - old \in 1 .. Len(es) /\ (produced \o es)[n] = es[n - old]
    BY <1>4
  <2> QED
    BY <1>1, <2>1, <2>2, <2>3, <2>4, Zenon
<1>6. /\ \A n \in 1 .. old : /\ produced[n].from \in 1 .. Len(blocks)
                             /\ produced[n].page = blocks[produced[n].from].page
                             /\ produced[n].page \in Nat /\ produced[n].page <= page
      /\ \A n \in 1 .. Len(produced') : n \notin 1 .. old =>
           produced'[n].from = new /\ produced'[n].page = page
  <2>1. \A n \in 1 .. old : produced[n] \in ElementSet
    BY <1>4
  <2>2. \A n \in 1 .. old : produced[n].page \in Nat
    BY <2>1 DEF ElementSet
  <2> QED
    BY <1>1, <1>5, <2>2 DEF FromBlocks
<1> HIDE DEF new, old
<1>7. new = Len(blocks) + 1 /\ old = Len(produced)
  BY DEF new, old
<1>8. new \notin 1 .. Len(blocks)
  BY <1>3, <1>7
<1>9. MineruTypes'
  BY <1>1, <1>3, <1>4, <1>5, <1>7 DEF MineruTypes
<1>10. FromBlocks'
  <2> SUFFICES ASSUME NEW n \in 1 .. Len(produced')
      PROVE  /\ produced'[n].from \in 1 .. Len(blocks')
             /\ produced'[n].page = blocks'[produced'[n].from].page
             /\ produced'[n].page <= page'
    BY Zenon DEF FromBlocks
  <2>1. CASE n \in 1 .. old
    BY <1>1, <1>3, <1>5, <1>6, <1>7, <2>1
  <2>2. CASE n \notin 1 .. old
    BY <1>1, <1>2, <1>3, <1>4, <1>6, <1>7, <2>2
  <2> QED
    BY <2>1, <2>2
<1>11. Ordered'
  <2> SUFFICES ASSUME NEW m \in 1 .. Len(produced'), NEW n \in 1 .. Len(produced'), m < n
      PROVE  /\ produced'[m].page <= produced'[n].page
             /\ produced'[m].from <= produced'[n].from
             /\ produced'[m].from = produced'[n].from => RankAt(m)' < RankAt(n)'
    BY Zenon DEF Ordered
  <2>1. ASSUME NEW k \in 1 .. old PROVE RankAt(k)' = RankAt(k)
    <3>1. produced'[k] = produced[k] /\ blocks'[produced[k].from] = blocks[produced[k].from]
      BY <1>3, <1>5, <1>6
    <3> QED
      BY <3>1, Zenon DEF RankAt
  <2>2. ASSUME NEW k \in 1 .. Len(produced'), k \notin 1 .. old
        PROVE  RankAt(k)' = RankOf(kind, es[k - old].type)
    <3>1. produced'[k] = es[k - old] /\ blocks'[produced'[k].from] = block
      BY <1>3, <1>5, <1>6, <2>2, Zenon
    <3> QED
      BY <1>2, <3>1, Zenon DEF RankAt
  <2>3. CASE n \in 1 .. old
    <3>1. m \in 1 .. old
      BY <1>4, <1>5, <2>3
    <3>2. produced'[m] = produced[m] /\ produced'[n] = produced[n]
      BY <1>5, <2>3, <3>1
    <3>3. /\ produced[m].page <= produced[n].page
          /\ produced[m].from <= produced[n].from
          /\ produced[m].from = produced[n].from => RankAt(m) < RankAt(n)
      BY <1>1, <1>7, <2>3, <3>1, Zenon DEF Ordered
    <3> QED
      BY <2>1, <2>3, <3>1, <3>2, <3>3, Zenon
  <2>4. CASE n \notin 1 .. old /\ m \in 1 .. old
    <3>1. produced'[m] = produced[m] /\ produced[m].from \in 1 .. Len(blocks)
      BY <1>5, <1>6, <2>4, Zenon
    <3>2. produced'[n].from = new /\ produced'[n].page = page /\ produced[m].page <= page
      BY <1>6, <2>4, Zenon
    <3> QED
      BY <1>3, <1>7, <3>1, <3>2
  <2>5. CASE n \notin 1 .. old /\ m \notin 1 .. old
    <3>1. m - old \in 1 .. Len(es) /\ n - old \in 1 .. Len(es) /\ m - old < n - old
      BY <1>4, <1>5, <2>5
    <3>2. RankAt(m)' < RankAt(n)'
      <4>1. RankOf(kind, es[m - old].type) < RankOf(kind, es[n - old].type)
        BY <3>1
      <4> QED
        BY <2>2, <2>5, <4>1, Zenon
    <3>3. /\ produced'[m].from = new /\ produced'[m].page = page
          /\ produced'[n].from = new /\ produced'[n].page = page
      BY <1>6, <2>5, Zenon
    <3> QED
      BY <1>3, <1>4, <1>7, <3>2, <3>3
  <2> QED
    BY <2>3, <2>4, <2>5
<1>12. NotBlankOnce'
  <2> SUFFICES ASSUME NEW n \in 1 .. Len(produced'), Shown(n)'
      PROVE  /\ FullPart(blocks'[produced'[n].from].parts[produced'[n].part])
             /\ \A m \in 1 .. Len(produced') :
                  produced'[m].from = produced'[n].from /\ produced'[m].part = produced'[n].part
                    => m = n
    BY Zenon DEF NotBlankOnce, FullPart
  <2>1. CASE n \in 1 .. old
    <3>1. produced'[n] = produced[n] /\ blocks'[produced[n].from] = blocks[produced[n].from]
      BY <1>3, <1>5, <1>6, <2>1
    <3>2. Shown(n)
      BY <3>1, Zenon DEF Shown
    <3>3. /\ FullPart(blocks[produced[n].from].parts[produced[n].part])
          /\ \A m \in 1 .. old :
               produced[m].from = produced[n].from /\ produced[m].part = produced[n].part => m = n
      BY <1>1, <1>7, <2>1, <3>2, Zenon DEF NotBlankOnce
    <3>4. \A m \in 1 .. Len(produced') : m \notin 1 .. old => produced'[m].from # produced[n].from
      BY <1>6, <1>8, <2>1, Zenon
    <3> QED
      BY <1>5, <3>1, <3>3, <3>4, Zenon
  <2>2. CASE n \notin 1 .. old
    <3>1. n - old \in 1 .. Len(es) /\ produced'[n] = es[n - old] /\ produced'[n].from = new
      BY <1>5, <1>6, <2>2
    <3>2. blocks'[produced'[n].from].kind = kind /\ blocks'[produced'[n].from].parts = parts
      BY <1>2, <1>3, <3>1
    <3>3. kind \notin DiscardedTypes \union {"list"}
      BY <3>2, Zenon DEF Shown
    <3>4. FullPart(parts[es[n - old].part])
      BY <3>1, <3>3, Zenon
    <3>5. ASSUME NEW m \in 1 .. Len(produced'), produced'[m].from = produced'[n].from,
                 produced'[m].part = produced'[n].part
          PROVE  m = n
      <4>1. m \notin 1 .. old
        BY <1>3, <1>5, <1>6, <1>7, <3>1, <3>5
      <4>2. m - old \in 1 .. Len(es) /\ produced'[m] = es[m - old]
        BY <1>5, <4>1
      <4>3. ~(m - old < n - old) /\ ~(n - old < m - old)
        BY <3>1, <3>3, <3>5, <4>2
      <4> QED
        BY <1>4, <4>3
    <3> QED
      BY <3>1, <3>2, <3>4, <3>5, Zenon
  <2> QED
    BY <2>1, <2>2
<1>13. NoteOrWarning'
  <2> SUFFICES ASSUME NEW n \in 1 .. Len(blocks'), NoteBlock(n)'
      PROVE  n \in warnings' <=> ~Noted(n)'
    BY Zenon DEF NoteOrWarning
  <2>1. CASE n \in 1 .. Len(blocks)
    <3>1. NoteBlock(n)
      BY <1>3, <2>1, Zenon DEF NoteBlock
    <3>2. n \in warnings <=> ~Noted(n)
      BY <1>1, <2>1, <3>1, Zenon DEF NoteOrWarning
    <3>3. n \in warnings' <=> n \in warnings
      BY <1>3, <2>1
    <3>4. Noted(n)' <=> Noted(n)
      <4>1. ASSUME Noted(n)' PROVE Noted(n)
        <5>1. PICK m \in 1 .. Len(produced') : produced'[m].from = n
          BY <4>1, Zenon DEF Noted
        <5>2. m \in 1 .. old
          BY <1>3, <1>6, <1>7, <2>1, <5>1
        <5> QED
          BY <1>5, <1>7, <5>1, <5>2, Zenon DEF Noted
      <4>2. ASSUME Noted(n) PROVE Noted(n)'
        <5>1. PICK m \in 1 .. old : produced[m].from = n
          BY <1>7, <4>2, Zenon DEF Noted
        <5>2. Len(produced') = old + Len(es) /\ old \in Nat /\ Len(es) \in Nat /\ produced'[m] = produced[m]
          BY <1>4, <1>5, <5>1, Zenon
        <5>3. m \in 1 .. Len(produced')
          BY <5>1, <5>2
        <5>4. produced'[m].from = n
          BY <5>1, <5>2
        <5> QED
          BY <5>3, <5>4, Zenon DEF Noted
      <4> QED
        BY <4>1, <4>2
    <3> QED
      BY <3>2, <3>3, <3>4, Zenon
  <2>2. CASE n = new
    <3>1. W # {} <=> es = <<>>
      BY <1>2, <1>3, <2>2, Zenon DEF NoteBlock
    <3>2. n \in warnings' <=> W # {}
      BY <1>1, <1>3, <1>7, <2>2 DEF MineruTypes
    <3>3. CASE es = <<>>
      <4>1. Len(produced') = old
        BY <1>4, <1>5, <3>3
      <4>2. ASSUME NEW m \in 1 .. Len(produced') PROVE produced'[m].from # n
        <5>1. m \in 1 .. old
          BY <4>1
        <5>2. produced'[m] = produced[m] /\ produced[m].from \in 1 .. Len(blocks)
          BY <1>5, <1>6, <5>1, Zenon
        <5> QED
          BY <1>8, <2>2, <5>2
      <4> QED
        BY <3>1, <3>2, <3>3, <4>2, Zenon DEF Noted
    <3>4. CASE es # <<>>
      <4>1. Len(es) > 0
        BY <3>4
      <4>2. old + 1 \in 1 .. Len(produced') /\ old + 1 \notin 1 .. old
        BY <1>4, <1>5, <4>1
      <4>3. produced'[old + 1].from = n
        BY <1>6, <2>2, <4>2
      <4> QED
        BY <3>1, <3>2, <3>4, <4>2, <4>3, Zenon DEF Noted
    <3> QED
      BY <3>3, <3>4
  <2> QED
    BY <1>3, <1>7, <2>1, <2>2
<1>14. Predicted'
  <2> SUFFICES ASSUME sourceDir', NEW n \in warnings', blocks'[n].kind = "image"
      PROVE  MissingOf(blocks'[n].parts)
    BY Zenon DEF Predicted, MissingOf, FirstPart, FirstSpan
  <2>1. CASE n \in warnings
    <3>1. n \in 1 .. Len(blocks)
      BY <1>1, <2>1 DEF MineruTypes
    <3> QED
      BY <1>1, <1>3, <2>1, <3>1, Zenon DEF Predicted
  <2>2. CASE n \in W
    <3>1. n = new /\ W # {}
      BY <1>7, <2>2
    <3> QED
      BY <1>1, <1>2, <1>3, <3>1, Zenon
  <2> QED
    BY <2>1, <2>2
<1> QED
  BY <1>9, <1>10, <1>11, <1>12, <1>13, <1>14, Zenon DEF MineruInv

(* The step of a block whose elements are good. *)
LEMMA GoodStep ==
  ASSUME MineruInv, NEW kind \in BlockKinds, kind \notin DiscardedTypes,
         NEW parts \in Seq(PartSet), NEW es, NEW rank, NEW roles,
         Good(kind, parts, es, rank, roles), Handled(kind, parts, es),
         NEW W \in SUBSET {Len(blocks) + 1}, warnings' = warnings \union W,
         sourceDir /\ kind = "image" /\ W # {} => MissingOf(parts)
  PROVE  MineruInv'
<1>1. es \in Seq(ElementSet)
  BY Zenon DEF Good
<1>2. /\ \A n \in 1 .. Len(es) : es[n].from = Len(blocks) + 1 /\ es[n].page = page
      /\ \A m, n \in 1 .. Len(es) : m < n => RankOf(kind, es[m].type) < RankOf(kind, es[n].type)
      /\ \A n \in 1 .. Len(es) : FullPart(parts[es[n].part])
      /\ \A m, n \in 1 .. Len(es) : m < n => es[m].part # es[n].part
  BY Zenon DEF Good
<1>3. parts \in Seq(PartSet) \union Seq(FootnoteTexts)
  OBVIOUS
<1> QED
  BY <1>1, <1>2, <1>3, BlockStep, Zenon

-----------------------------------------------------------------------------
(* The handlers *)

LEMMA PartTyped ==
  ASSUME NEW role \in Roles, NEW spans, spans \subseteq Seq(SpanSet)
  PROVE  Part(role, spans) \subseteq PartSet
  BY DEF Part, PartSet

LEMMA InnerTyped ==
  ASSUME NEW parts, parts \subseteq PartSet
  PROVE  /\ Inner(parts) \subseteq Seq(PartSet)
         /\ {<<>>} \union {<<p>> : p \in parts} \subseteq Seq(PartSet)
<1>1. /\ \A S, p : p \in S => <<p>> \in Seq(S)
      /\ \A S, p, q : p \in S /\ q \in S => <<p, q>> \in Seq(S)
      /\ \A S : <<>> \in Seq(S)
  OBVIOUS
<1>2. /\ \A p \in parts : <<p>> \in Seq(PartSet)
      /\ \A p, q \in parts : <<p, q>> \in Seq(PartSet)
      /\ <<>> \in Seq(PartSet)
  <2>1. \A p \in parts : p \in PartSet
    OBVIOUS
  <2> QED
    BY <1>1, <2>1, Zenon
<1>3. ASSUME NEW x \in {<<p>> : p \in parts} PROVE x \in Seq(PartSet)
  <2>1. PICK p \in parts : x = <<p>>
    OBVIOUS
  <2> QED
    BY <1>2, <2>1, Zenon
<1>4. ASSUME NEW x \in {<<p, q>> : p \in parts, q \in parts} PROVE x \in Seq(PartSet)
  <2>1. PICK p \in parts, q \in parts : x = <<p, q>>
    OBVIOUS
  <2>2. <<p, q>> \in Seq(PartSet)
    BY <1>2
  <2> HIDE DEF PartSet
  <2> QED
    BY <2>1, <2>2
<1> DEFINE ones == {<<p>> : p \in parts}
    twos == {<<p, q>> : p \in parts, q \in parts}
<1>5. ones \subseteq Seq(PartSet) /\ twos \subseteq Seq(PartSet)
  BY <1>3, <1>4
<1>6. Inner(parts) = ones \union twos
  BY DEF Inner
<1> HIDE DEF ones, twos
<1>7. ones \union twos \subseteq Seq(PartSet) /\ {<<>>} \union ones \subseteq Seq(PartSet)
  BY <1>2, <1>5
<1> QED
  BY <1>6, <1>7, Zenon DEF ones

LEMMA PartsTyped ==
  /\ Lines \subseteq Seq(PartSet) /\ ListItems \subseteq Seq(PartSet)
  /\ CodeParts \subseteq Seq(PartSet) /\ ImageParts \subseteq Seq(PartSet)
  /\ TableParts \subseteq Seq(PartSet) /\ ChartParts \subseteq Seq(PartSet)
<1>1. /\ TextSpans \subseteq Seq(SpanSet) /\ ImageSpans \subseteq Seq(SpanSet)
      /\ TableSpans \subseteq Seq(SpanSet) /\ ChartSpans \subseteq Seq(SpanSet)
  BY MineruConstants DEF SpanSet
<1>2. \A role \in Roles :
        /\ Part(role, TextSpans) \subseteq PartSet /\ Part(role, ImageSpans) \subseteq PartSet
        /\ Part(role, TableSpans) \subseteq PartSet /\ Part(role, ChartSpans) \subseteq PartSet
  BY <1>1, PartTyped
<1>3. Lines \subseteq Seq(PartSet) /\ ListItems \subseteq Seq(PartSet)
  <2>1. Part("lines", TextSpans) \subseteq PartSet /\ Part("item", TextSpans) \subseteq PartSet
    BY <1>2 DEF Roles
  <2> QED
    BY <2>1, InnerTyped, Zenon DEF Lines, ListItems
<1>4. CodeParts \subseteq Seq(PartSet)
  BY <1>2, InnerTyped DEF CodeParts, Roles
<1>5. ImageParts \subseteq Seq(PartSet)
  BY <1>2, InnerTyped DEF ImageParts, Roles
<1>6. TableParts \subseteq Seq(PartSet)
  BY <1>2, InnerTyped DEF TableParts, Roles
<1>7. ChartParts \subseteq Seq(PartSet)
  BY <1>2, InnerTyped DEF ChartParts, Roles
<1> QED
  BY <1>3, <1>4, <1>5, <1>6, <1>7

LEMMA Counted == MineruInv => Len(blocks) \in Nat /\ page \in Nat
  BY DEF MineruInv, MineruTypes

(* A block that leaves the warnings alone. *)
LEMMA SilentStep ==
  ASSUME MineruInv, NEW kind \in BlockKinds \ (DiscardedTypes \union {"image"}),
         NEW parts \in Seq(PartSet), NEW es, NEW rank, NEW roles,
         Good(kind, parts, es, rank, roles), Handled(kind, parts, es), Silent
  PROVE  MineruInv'
<1>1. {} \in SUBSET {Len(blocks) + 1} /\ warnings' = warnings \union {}
  BY DEF Silent
<1> QED
  BY <1>1, GoodStep

LEMMA TitleStep == MineruInv /\ HandleTitle => MineruInv'
<1> SUFFICES ASSUME MineruInv, HandleTitle PROVE MineruInv'
  OBVIOUS
<1>1. PICK parts \in Lines : Handled("title", parts, TextOf("Heading", parts, "lines"))
  BY Zenon DEF HandleTitle
<1>2. parts \in Seq(PartSet)
  BY <1>1, PartsTyped
<1>3. Good("title", parts, TextOf("Heading", parts, "lines"), RankOf("title", "Heading"), {"lines"})
  BY <1>2, TextMade, GoodOne, Counted DEF ParsedTypes
<1>4. "title" \in BlockKinds \ (DiscardedTypes \union {"image"}) /\ Silent
  BY DEF BlockKinds, DiscardedTypes, HandleTitle
<1> QED
  BY <1>1, <1>2, <1>3, <1>4, SilentStep, Zenon

LEMMA TextStep == MineruInv /\ HandleText => MineruInv'
<1> SUFFICES ASSUME MineruInv, HandleText PROVE MineruInv'
  OBVIOUS
<1>1. PICK parts \in Lines : Handled("text", parts, TextOf("Paragraph", parts, "lines"))
  BY Zenon DEF HandleText
<1>2. parts \in Seq(PartSet)
  BY <1>1, PartsTyped
<1>3. Good("text", parts, TextOf("Paragraph", parts, "lines"), RankOf("text", "Paragraph"), {"lines"})
  BY <1>2, TextMade, GoodOne, Counted DEF ParsedTypes
<1>4. "text" \in BlockKinds \ (DiscardedTypes \union {"image"}) /\ Silent
  BY DEF BlockKinds, DiscardedTypes, HandleText
<1> QED
  BY <1>1, <1>2, <1>3, <1>4, SilentStep, Zenon

LEMMA ListStep == MineruInv /\ HandleList => MineruInv'
<1> SUFFICES ASSUME MineruInv, HandleList PROVE MineruInv'
  OBVIOUS
<1> DEFINE e == Element("DocumentList", 1)
<1>1. PICK parts \in ListItems : Handled("list", parts, <<e>>)
  BY Zenon DEF HandleList
<1>2. parts \in Seq(PartSet) \union Seq(FootnoteTexts)
  BY <1>1, PartsTyped
<1>3. e.from = Len(blocks) + 1 /\ e.page = page /\ e \in ElementSet
  BY Counted DEF Element, ElementSet, ParsedTypes
<1> HIDE DEF e
<1>4. /\ <<e>> \in Seq(ElementSet)
      /\ \A n \in 1 .. Len(<<e>>) : <<e>>[n].from = Len(blocks) + 1 /\ <<e>>[n].page = page
      /\ \A m, n \in 1 .. Len(<<e>>) : ~(m < n)
  BY <1>3
<1>5. "list" \in BlockKinds /\ "list" \in {"list"} /\ "list" \notin DiscardedTypes
  BY DEF BlockKinds, DiscardedTypes
<1>6. {} \in SUBSET {Len(blocks) + 1} /\ warnings' = warnings \union {} /\ "list" # "image"
  BY DEF HandleList, Silent
<1> QED
  BY <1>1, <1>2, <1>4, <1>5, <1>6, BlockStep

LEMMA RankValues ==
  /\ \A kind : kind # "image" => RankOf(kind, "Paragraph") = 1
  /\ RankOf("image", "Paragraph") = 2
  /\ \A kind : /\ RankOf(kind, "Image") = 1 /\ RankOf(kind, "Table") = 2
               /\ RankOf(kind, "RawText") = 3
  BY DEF RankOf

LEMMA CodeStep == MineruInv /\ HandleCode => MineruInv'
<1> SUFFICES ASSUME MineruInv, HandleCode PROVE MineruInv'
  OBVIOUS
<1>1. PICK parts \in CodeParts :
        Handled("code", parts, TextOf("Paragraph", parts, "code_caption")
                                 \o TextOf("RawText", parts, "code_body"))
  BY Zenon DEF HandleCode
<1>2. parts \in Seq(PartSet)
  BY <1>1, PartsTyped
<1> DEFINE caption == TextOf("Paragraph", parts, "code_caption")
    body == TextOf("RawText", parts, "code_body")
<1>3. MadeOf(caption, "Paragraph", "code_caption", parts) /\ MadeOf(body, "RawText", "code_body", parts)
  BY <1>2, TextMade
<1> HIDE DEF caption, body
<1>4. Good("code", parts, caption, 1, {"code_caption"})
  BY <1>2, <1>3, GoodOne, Counted, RankValues DEF ParsedTypes
<1>5. Good("code", parts, caption \o body, RankOf("code", "RawText"),
           {"code_caption"} \union {"code_body"})
  <2>1. /\ 1 \in Nat /\ 1 < RankOf("code", "RawText") /\ "code_body" \notin {"code_caption"}
        /\ "RawText" \in ParsedTypes /\ Len(blocks) \in Nat /\ page \in Nat
    BY Counted, RankValues DEF ParsedTypes
  <2> QED
    BY <1>2, <1>3, <1>4, <2>1, GoodMore, Zenon
<1>6. "code" \in BlockKinds \ (DiscardedTypes \union {"image"}) /\ Silent
  BY DEF BlockKinds, DiscardedTypes, HandleCode
<1> QED
  BY <1>1, <1>2, <1>5, <1>6, SilentStep, Zenon DEF caption, body

(* A caption, a body and a footnote in order. *)
LEMMA ThreeGood ==
  ASSUME MineruInv, NEW kind, kind # "image", NEW parts \in Seq(PartSet),
         NEW caption, NEW body, NEW footnote,
         NEW one, NEW two, NEW three, one # two, one # three, two # three,
         MadeOf(caption, "Paragraph", one, parts), MadeOf(body, "Table", two, parts),
         MadeOf(footnote, "RawText", three, parts)
  PROVE  Good(kind, parts, caption \o body \o footnote, 3, ({one} \union {two}) \union {three})
<1>1. Good(kind, parts, caption, 1, {one})
  BY GoodOne, Counted, RankValues DEF ParsedTypes
<1>2. Good(kind, parts, caption \o body, RankOf(kind, "Table"), {one} \union {two})
  <2>1. /\ 1 \in Nat /\ 1 < RankOf(kind, "Table") /\ two \notin {one}
        /\ "Table" \in ParsedTypes /\ Len(blocks) \in Nat /\ page \in Nat
    BY Counted, RankValues DEF ParsedTypes
  <2> QED
    BY <1>1, <2>1, GoodMore, Zenon
<1>3. Good(kind, parts, caption \o body \o footnote, RankOf(kind, "RawText"),
           ({one} \union {two}) \union {three})
  <2>1. /\ RankOf(kind, "Table") \in Nat /\ RankOf(kind, "Table") < RankOf(kind, "RawText")
        /\ three \notin {one} \union {two}
        /\ "RawText" \in ParsedTypes /\ Len(blocks) \in Nat /\ page \in Nat
    BY Counted, RankValues DEF ParsedTypes
  <2> QED
    BY <1>2, <2>1, GoodMore, Zenon
<1> QED
  BY <1>3, RankValues, Zenon

LEMMA TableStep == MineruInv /\ HandleTable => MineruInv'
<1> SUFFICES ASSUME MineruInv, HandleTable PROVE MineruInv'
  OBVIOUS
<1>1. PICK parts \in TableParts : Handled("table", parts, TableElements(parts))
  BY Zenon DEF HandleTable
<1>2. parts \in Seq(PartSet)
  BY <1>1, PartsTyped
<1>3. Good("table", parts, TableElements(parts), 3,
           ({"table_caption"} \union {"table_body"}) \union {"table_footnote"})
  BY <1>2, TextMade, BodyMade, ThreeGood DEF TableElements
<1>4. "table" \in BlockKinds \ (DiscardedTypes \union {"image"}) /\ Silent
  BY DEF BlockKinds, DiscardedTypes, HandleTable
<1> QED
  BY <1>1, <1>2, <1>3, <1>4, SilentStep, Zenon

LEMMA ChartStep == MineruInv /\ HandleChart => MineruInv'
<1> SUFFICES ASSUME MineruInv, HandleChart PROVE MineruInv'
  OBVIOUS
<1>1. PICK parts \in ChartParts :
        \E body \in {None, BodyOf("Table", parts, "chart_body", "chart")} :
          Handled("chart", parts, TextOf("Paragraph", parts, "chart_caption") \o body
                                    \o TextOf("RawText", parts, "chart_footnote"))
  BY Zenon DEF HandleChart
<1>2. parts \in Seq(PartSet)
  BY <1>1, PartsTyped
<1>3. PICK body \in {None, BodyOf("Table", parts, "chart_body", "chart")} :
        Handled("chart", parts, TextOf("Paragraph", parts, "chart_caption") \o body
                                  \o TextOf("RawText", parts, "chart_footnote"))
  BY <1>1, Zenon
<1>4. MadeOf(body, "Table", "chart_body", parts)
  <2>1. body = <<>> \/ body = BodyOf("Table", parts, "chart_body", "chart")
    BY <1>3 DEF None
  <2>2. MadeOf(<<>>, "Table", "chart_body", parts)
    BY Zenon DEF MadeOf
  <2>3. MadeOf(BodyOf("Table", parts, "chart_body", "chart"), "Table", "chart_body", parts)
    BY <1>2, BodyMade, Zenon
  <2> QED
    BY <2>1, <2>2, <2>3, Zenon
<1>5. Good("chart", parts, TextOf("Paragraph", parts, "chart_caption") \o body
                             \o TextOf("RawText", parts, "chart_footnote"), 3,
           ({"chart_caption"} \union {"chart_body"}) \union {"chart_footnote"})
  BY <1>2, <1>4, TextMade, ThreeGood
<1>6. "chart" \in BlockKinds \ (DiscardedTypes \union {"image"}) /\ Silent
  BY DEF BlockKinds, DiscardedTypes, HandleChart
<1> QED
  BY <1>2, <1>5, <1>6, <1>3, SilentStep, Zenon

(* The image span of the parts. *)
LEMMA ImageSpanFrom ==
  ASSUME NEW parts \in Seq(PartSet), ImageSpanOf(parts) # <<>>
  PROVE  LET k == FirstPart("image_body", parts)
         IN  /\ k # 0 /\ k \in DOMAIN parts /\ parts[k].role = "image_body"
             /\ parts[k].spans \in Seq(SpanSet)
             /\ \E n \in DOMAIN parts[k].spans : Head(ImageSpanOf(parts)) = parts[k].spans[n]
<1> DEFINE k == FirstPart("image_body", parts)
    types == {"image", "lost image"}
<1>1. k # 0 /\ ImageSpanOf(parts) = FirstSpan(types, parts[k].spans)
  BY DEF ImageSpanOf
<1>2. k \in DOMAIN parts /\ parts[k] \in PartSet /\ parts[k].role = "image_body"
  BY <1>1, FirstPartOf
<1> HIDE DEF k, types
<1>3. parts[k].spans \in Seq(SpanSet)
  BY <1>2 DEF PartSet
<1>4. PICK n \in DOMAIN parts[k].spans : ImageSpanOf(parts) = <<parts[k].spans[n]>>
  BY <1>1, <1>3, FirstSpanOf
<1>5. \A x : Head(<<x>>) = x
  OBVIOUS
<1>6. Head(ImageSpanOf(parts)) = parts[k].spans[n]
  BY <1>4, <1>5, Zenon
<1> QED
  BY <1>1, <1>2, <1>3, <1>6, Zenon DEF k

LEMMA ImageMade ==
  ASSUME NEW parts \in Seq(PartSet)
  PROVE  MadeOf(IF Loads(parts) THEN <<Element("Image", FirstPart("image_body", parts))>> ELSE None,
                "Image", "image_body", parts)
<1> DEFINE k == FirstPart("image_body", parts)
<1>1. CASE Loads(parts)
  <2>1. ImageSpanOf(parts) # <<>> /\ Head(ImageSpanOf(parts)).full
    BY <1>1, Zenon DEF Loads
  <2>2. PICK n \in DOMAIN parts[k].spans : Head(ImageSpanOf(parts)) = parts[k].spans[n]
    BY <2>1, ImageSpanFrom, Zenon
  <2>3. FullPart(parts[k])
    BY <2>1, <2>2, Zenon DEF FullPart
  <2>4. k \in DOMAIN parts /\ parts[k].role = "image_body"
    BY <2>1, ImageSpanFrom, Zenon
  <2> QED
    BY <1>1, <2>3, <2>4, Zenon DEF MadeOf
<1>2. CASE ~Loads(parts)
  BY <1>2, Zenon DEF MadeOf, None
<1> QED
  BY <1>1, <1>2

LEMMA WarnedIsMissing ==
  ASSUME NEW parts \in Seq(PartSet), sourceDir, Warns(parts)
  PROVE  MissingOf(parts)
<1> DEFINE k == FirstPart("image_body", parts)
<1>1. ImageSpanOf(parts) # <<>> /\ Head(ImageSpanOf(parts)).type = "lost image"
  BY Zenon DEF Warns
<1>2. PICK n \in DOMAIN parts[k].spans : Head(ImageSpanOf(parts)) = parts[k].spans[n]
  BY <1>1, ImageSpanFrom, Zenon
<1>3. parts[k].spans \in Seq(SpanSet) /\ k # 0
  BY <1>1, ImageSpanFrom, Zenon
<1>4. k \in Nat
  BY FirstPartOf
<1> HIDE DEF k
<1>5. FirstSpan({"lost image"}, parts[k].spans) # <<>>
  BY <1>1, <1>2, <1>3, LostSpan
<1>6. k > 0
  BY <1>3, <1>4
<1> QED
  BY <1>5, <1>6, Zenon DEF MissingOf, k

LEMMA ImageStep == MineruInv /\ HandleImage => MineruInv'
<1> SUFFICES ASSUME MineruInv, HandleImage PROVE MineruInv'
  OBVIOUS
<1>1. PICK parts \in ImageParts :
        /\ Handled("image", parts,
                   (IF Loads(parts) THEN <<Element("Image", FirstPart("image_body", parts))>>
                    ELSE None) \o TextOf("Paragraph", parts, "image_caption"))
        /\ warnings' = IF Warns(parts) THEN warnings \cup {Len(blocks) + 1} ELSE warnings
  BY Zenon DEF HandleImage
<1>2. parts \in Seq(PartSet)
  BY <1>1, PartsTyped
<1> DEFINE body == IF Loads(parts) THEN <<Element("Image", FirstPart("image_body", parts))>> ELSE None
    caption == TextOf("Paragraph", parts, "image_caption")
    W == IF Warns(parts) THEN {Len(blocks) + 1} ELSE {}
<1>3. MadeOf(body, "Image", "image_body", parts) /\ MadeOf(caption, "Paragraph", "image_caption", parts)
  BY <1>2, ImageMade, TextMade, Zenon
<1>4. Handled("image", parts, body \o caption)
  BY <1>1, Zenon
<1> HIDE DEF body, caption
<1>5. Good("image", parts, body, 1, {"image_body"})
  BY <1>2, <1>3, GoodOne, Counted, RankValues DEF ParsedTypes
<1>6. Good("image", parts, body \o caption, RankOf("image", "Paragraph"),
           {"image_body"} \union {"image_caption"})
  <2>1. /\ 1 \in Nat /\ 1 < RankOf("image", "Paragraph") /\ "image_caption" \notin {"image_body"}
        /\ "Paragraph" \in ParsedTypes /\ Len(blocks) \in Nat /\ page \in Nat
    BY Counted, RankValues DEF ParsedTypes
  <2> QED
    BY <1>2, <1>3, <1>5, <2>1, GoodMore, Zenon
<1>7. "image" \in BlockKinds /\ "image" \notin DiscardedTypes
  BY DEF BlockKinds, DiscardedTypes
<1>8. W \in SUBSET {Len(blocks) + 1} /\ warnings' = warnings \union W
  BY <1>1
<1>9. sourceDir /\ "image" = "image" /\ W # {} => MissingOf(parts)
  BY <1>2, WarnedIsMissing
<1> HIDE DEF W
<1> QED
  BY <1>2, <1>4, <1>6, <1>7, <1>8, <1>9, GoodStep, Zenon

LEMMA DiscardedStep == MineruInv /\ HandleDiscarded => MineruInv'
<1> SUFFICES ASSUME MineruInv, HandleDiscarded PROVE MineruInv'
  OBVIOUS
<1>1. PICK kind \in DiscardedTypes, text \in FootnoteTexts :
        LET how == DiscardedHandler[kind]
            some == text.digits > 0 \/ text.rest
            made == \/ how = "footnote" /\ Numbered(text)
                    \/ how = "raw_text" /\ some
        IN /\ Handled(kind, <<text>>,
                      IF ~made THEN None
                      ELSE <<Element(IF how = "footnote" THEN "Footnote" ELSE "RawText", 1)>>)
           /\ warnings' = warnings \cup (IF how = "footnote" THEN Unnumbered(text) ELSE {})
  BY Zenon DEF HandleDiscarded
<1> DEFINE how == DiscardedHandler[kind]
    some == text.digits > 0 \/ text.rest
    made == \/ how = "footnote" /\ Numbered(text)
            \/ how = "raw_text" /\ some
    e == Element(IF how = "footnote" THEN "Footnote" ELSE "RawText", 1)
    es == IF ~made THEN None ELSE <<e>>
    W == IF how = "footnote" THEN Unnumbered(text) ELSE {}
<1>2. Handled(kind, <<text>>, es) /\ warnings' = warnings \union W
  BY <1>1, Zenon
<1>3. e.from = Len(blocks) + 1 /\ e.page = page /\ e \in ElementSet
  BY Counted DEF Element, ElementSet, ParsedTypes
<1>4. /\ W \in SUBSET {Len(blocks) + 1}
      /\ how = "footnote" => (W # {} <=> es = <<>>)
  <2>1. Unnumbered(text) = {} \/ Unnumbered(text) = {Len(blocks) + 1}
    BY DEF Unnumbered
  <2>2. Unnumbered(text) # {} <=> ~Numbered(text)
    BY DEF Unnumbered
  <2>3. \A x : <<x>> # <<>>
    OBVIOUS
  <2>4. how = "footnote" => (es = <<>> <=> ~Numbered(text))
    <3> HIDE DEF e
    <3> QED
      BY <2>3 DEF None
  <2> HIDE DEF es, how
  <2> QED
    BY <2>1, <2>2, <2>4
<1> HIDE DEF e, made
<1>5. /\ es \in Seq(ElementSet)
      /\ \A n \in 1 .. Len(es) : es[n].from = Len(blocks) + 1 /\ es[n].page = page
      /\ \A m, n \in 1 .. Len(es) : ~(m < n)
  <2>1. CASE made
    BY <1>3, <2>1
  <2>2. CASE ~made
    BY <2>2 DEF None
  <2> QED
    BY <2>1, <2>2
<1> HIDE DEF es, W
<1>6. /\ <<text>> \in Seq(PartSet) \union Seq(FootnoteTexts)
      /\ kind \in BlockKinds
  BY DEF BlockKinds, DiscardedTypes
<1>7. sourceDir /\ kind = "image" /\ W # {} => MissingOf(<<text>>)
  BY DEF DiscardedTypes
<1>8. kind \notin DiscardedTypes \union {"list"} =>
        /\ \A n \in 1 .. Len(es) : FullPart(<<text>>[es[n].part])
        /\ \A m, n \in 1 .. Len(es) : m < n => es[m].part # es[n].part
  OBVIOUS
<1>9. \A m, n \in 1 .. Len(es) : m < n => RankOf(kind, es[m].type) < RankOf(kind, es[n].type)
  BY <1>5, Zenon
<1>10. kind \in DiscardedTypes /\ DiscardedHandler[kind] = "footnote" => (W # {} <=> es = <<>>)
  BY <1>4, Zenon DEF how
<1> QED
  BY <1>2, <1>4, <1>5, <1>6, <1>7, <1>8, <1>9, <1>10, BlockStep, Zenon

LEMMA TurnStep ==
  MineruInv /\ (TurnToDiscarded \/ TurnPage \/ UNCHANGED mineruVars) => MineruInv'
<1> SUFFICES ASSUME MineruInv, TurnToDiscarded \/ TurnPage \/ UNCHANGED mineruVars
    PROVE  MineruInv'
  OBVIOUS
<1>1. /\ blocks' = blocks /\ produced' = produced /\ warnings' = warnings /\ sourceDir' = sourceDir
      /\ page' = page \/ page' = page + 1
  BY DEF TurnToDiscarded, TurnPage, mineruVars
<1>2. MineruTypes' /\ FromBlocks'
  <2>1. \A n \in 1 .. Len(produced) : produced[n].page \in Nat
    <3>1. produced \in Seq(ElementSet)
      BY Zenon DEF MineruInv, MineruTypes
    <3>2. \A n \in 1 .. Len(produced) : produced[n] \in ElementSet
      BY <3>1
    <3> QED
      BY <3>2 DEF ElementSet
  <2>2. MineruTypes'
    BY <1>1 DEF MineruInv, MineruTypes
  <2>3. page \in Nat
    BY DEF MineruInv, MineruTypes
  <2> QED
    BY <1>1, <2>1, <2>2, <2>3 DEF MineruInv, FromBlocks
<1>3. Ordered'
  BY <1>1 DEF MineruInv, Ordered, RankAt
<1>4. NotBlankOnce'
  BY <1>1 DEF MineruInv, NotBlankOnce, Shown
<1>5. NoteOrWarning'
  BY <1>1 DEF MineruInv, NoteOrWarning, NoteBlock, Noted
<1>6. Predicted'
  BY <1>1 DEF MineruInv, Predicted
<1> QED
  BY <1>2, <1>3, <1>4, <1>5, <1>6, Zenon DEF MineruInv

LEMMA MineruInitially == MineruInit => MineruInv
<1> SUFFICES ASSUME MineruInit PROVE MineruInv
  OBVIOUS
<1>1. blocks = <<>> /\ produced = <<>> /\ warnings = {} /\ page = 1
  BY DEF MineruInit
<1>2. MineruTypes /\ FromBlocks /\ Ordered /\ NotBlankOnce /\ NoteOrWarning /\ Predicted
  BY <1>1 DEF MineruTypes, FromBlocks, Ordered, NotBlankOnce, NoteOrWarning, Predicted
<1> QED
  BY <1>2, Zenon DEF MineruInv

(* Elements come in reading order, none is blank, every footnote is in the   *)
(* document or in the warnings, and the pre-flight check foresees every      *)
(* warning of an image, for any blocks and pages (CoreExtractor and its      *)
(* handlers, check_mineru_images).                                           *)
THEOREM ParseStaysFaithful == MineruSpec => []ParseIsFaithful
<1>1. MineruInv /\ [MineruNext]_mineruVars => MineruInv'
  BY TitleStep, TextStep, ListStep, CodeStep, TableStep, ChartStep, ImageStep, DiscardedStep, TurnStep,
     Zenon DEF MineruNext
<1> QED
  BY <1>1, MineruInitially, ParseFollows, PTL DEF MineruSpec

-----------------------------------------------------------------------------
(* The registry *)

Registration == [pattern : DOMAIN Patterns, parser : Parsers]

(* What a document may say of itself. *)
Sayings == ParserNames \union SourceFiles \union {"", "original", "load"}

LoadedDoc == [parser : Sayings, path : Sayings, files : SUBSET SourceFiles]

Loaded ==
  [done : BOOLEAN, by : ParserNames \union {""}, asked : BOOLEAN, file : SourceFiles,
   doc : LoadedDoc]

(* What ProvenanceKept says of one load. *)
SaysItsOrigin(l) ==
  IF l.by \in Keeping
  THEN l.doc.parser = "original" /\ l.doc.path = "original"
  ELSE l.doc.parser = l.by /\ l.doc.path = l.file

RegistryInv ==
  /\ registry \in Seq(Registration)
  /\ loads \in Seq(Loaded)
  /\ \A n \in 1 .. Len(loads) : loads[n].done => SaysItsOrigin(loads[n])

(* Without the element at i. *)
LEMMA RemovedAt ==
  ASSUME NEW S, NEW q \in Seq(S), NEW i \in 1 .. Len(q)
  PROVE  /\ RemoveAt(q, i) \in Seq(S) /\ Len(RemoveAt(q, i)) = Len(q) - 1
         /\ \A k \in 1 .. Len(q) - 1 : RemoveAt(q, i)[k] = IF k < i THEN q[k] ELSE q[k + 1]
<1> DEFINE a == SubSeq(q, 1, i - 1)
    b == SubSeq(q, i + 1, Len(q))
<1>1. /\ a \in Seq(S) /\ Len(a) = i - 1
      /\ \A k \in 1 .. i - 1 : a[k] = q[k]
  OBVIOUS
<1>2. /\ b \in Seq(S) /\ Len(b) = Len(q) - i
      /\ \A k \in 1 .. Len(q) - i : b[k] = q[i + k]
  OBVIOUS
<1>3. RemoveAt(q, i) = a \o b
  BY Zenon DEF RemoveAt
<1> HIDE DEF a, b
<1>4. /\ a \o b \in Seq(S) /\ Len(a \o b) = Len(q) - 1
      /\ \A k \in 1 .. Len(q) - 1 : (a \o b)[k] = IF k < i THEN q[k] ELSE q[k + 1]
  <2>1. a \o b \in Seq(S) /\ Len(a \o b) = Len(q) - 1
    <3>1. a \o b \in Seq(S) /\ Len(a \o b) = Len(a) + Len(b)
      BY <1>1, <1>2, Concatenated
    <3> QED
      BY <1>1, <1>2, <3>1
  <2>2. ASSUME NEW k \in 1 .. Len(q) - 1, k < i PROVE (a \o b)[k] = q[k]
    BY <1>1, <1>2, <2>2
  <2>3. ASSUME NEW k \in 1 .. Len(q) - 1, ~(k < i) PROVE (a \o b)[k] = q[k + 1]
    <3>1. (a \o b)[k] = b[k - (i - 1)] /\ k - (i - 1) \in 1 .. Len(q) - i
      BY <1>1, <1>2, <2>3
    <3>2. b[k - (i - 1)] = q[i + (k - (i - 1))] /\ i + (k - (i - 1)) = k + 1
      BY <1>2, <3>1
    <3> QED
      BY <3>1, <3>2
  <2> QED
    BY <2>1, <2>2, <2>3
<1> QED
  BY <1>3, <1>4

LEMMA SomeSeq ==
  ASSUME NEW S, IsFiniteSet(S)
  PROVE  /\ SetToSeq(S) \in Seq(S) /\ Len(SetToSeq(S)) = Cardinality(S) /\ Cardinality(S) \in Nat
         /\ \A x \in S : \E n \in 1 .. Cardinality(S) : SetToSeq(S)[n] = x
         /\ \A i, j \in 1 .. Cardinality(S) : SetToSeq(S)[i] = SetToSeq(S)[j] => i = j
<1> DEFINE D == 1 .. Cardinality(S)
    f == SetToSeq(S)
<1>1. Cardinality(S) \in Nat /\ ExistsBijection(D, S)
  BY FS_CardinalityType
<1>2. PICK g \in Bijection(D, S) : TRUE
  BY <1>1, Zenon DEF ExistsBijection
<1>3. g \in [D -> S] /\ IsInjective(g)
  BY <1>2 DEF Bijection, Injection
<1>4. f \in [D -> S] /\ IsInjective(f)
  BY <1>3, Zenon DEF SetToSeq
<1> HIDE DEF f
<1>5. f \in Seq(S) /\ Len(f) = Cardinality(S)
  BY <1>1, <1>4
<1>6. ASSUME NEW x \in S, \A n \in D : f[n] # x PROVE FALSE
  <2>1. f \in Injection(D, S \ {x})
    <3>1. f \in [D -> S \ {x}]
      BY <1>4, <1>6
    <3> QED
      BY <1>4, <3>1, Zenon DEF Injection
  <2>2. IsFiniteSet(S \ {x}) /\ Cardinality(S \ {x}) = Cardinality(S) - 1
    BY FS_RemoveElement, <1>6
  <2>3. IsFiniteSet(D) /\ Cardinality(D) = Cardinality(S)
    BY <1>1, FS_Interval
  <2>4. Cardinality(D) <= Cardinality(S \ {x})
    BY <2>1, <2>2, FS_Injection DEF ExistsInjection
  <2> QED
    BY <1>1, <2>2, <2>3, <2>4
<1>7. \A i, j \in D : f[i] = f[j] => i = j
  BY <1>4 DEF IsInjective
<1> QED
  BY <1>1, <1>5, <1>6, <1>7, Zenon DEF f

(* Undone is computed suffix by suffix. *)
LEMMA UndoneSteps ==
  ASSUME NEW regs, NEW ss, NEW name, Len(ss) \in Nat
  PROVE  LET undo == Undone(regs, ss, name)
         IN  /\ undo[0] = regs
             /\ \A n \in 1 .. Len(ss) : undo[n] = Unregistered(undo[n - 1], ss[n], name)
<1> DEFINE Then(f, n) == IF n = 0 THEN regs ELSE Unregistered(f[n - 1], ss[n], name)
    Solves(f, m) == f = [n \in 0 .. m |-> Then(f, n)]
    Bad == {m \in 0 .. Len(ss) : ~ \E f : Solves(f, m)}
<1>1. Undone(regs, ss, name) = CHOOSE f : Solves(f, Len(ss))
  BY Zenon DEF Undone
<1>2. \A f, g : \A n \in Nat : n = 0 \/ f[n - 1] = g[n - 1] => Then(f, n) = Then(g, n)
  OBVIOUS
<1>3. Bad = {}
  <2> SUFFICES ASSUME Bad # {} PROVE FALSE
    OBVIOUS
  <2>1. PICK m \in Bad : \A k \in Bad : m <= k
    <3>1. Bad \subseteq Nat
      OBVIOUS
    <3> HIDE DEF Bad
    <3> QED
      BY <3>1, LeastNat
  <2>2. m \in 0 .. Len(ss) /\ ~ \E f : Solves(f, m)
    BY <2>1
  <2>3. CASE m = 0
    <3> DEFINE g == [n \in 0 .. 0 |-> regs]
    <3>1. g = [n \in 0 .. 0 |-> Then(g, n)]
      OBVIOUS
    <3> HIDE DEF Then
    <3> QED
      BY <2>2, <2>3, <3>1
  <2>4. CASE m # 0
    <3>1. PICK f : Solves(f, m - 1)
      <4>1. m - 1 \in 0 .. Len(ss) /\ ~(m <= m - 1)
        BY <2>2, <2>4
      <4> HIDE DEF Solves
      <4> QED
        BY <2>1, <4>1
    <3> DEFINE g == [n \in 0 .. m |-> IF n = m THEN Then(f, m) ELSE f[n]]
    <3> HIDE DEF Then
    <3>2. ASSUME NEW n \in 0 .. m PROVE g[n] = Then(g, n)
      <4>1. n = 0 \/ n - 1 \in 0 .. m - 1
        BY <2>2, <3>2
      <4>2. n = 0 \/ g[n - 1] = f[n - 1]
        BY <2>2, <4>1
      <4>3. Then(g, n) = Then(f, n)
        <5> HIDE DEF g
        <5> QED
          BY <1>2, <2>2, <3>2, <4>2
      <4>4. CASE n = m
        BY <4>3, <4>4
      <4>5. CASE n # m
        <5>1. n \in 0 .. m - 1
          BY <2>2, <3>2, <4>5
        <5>2. f[n] = Then(f, n)
          BY <3>1, <5>1
        <5> QED
          BY <4>3, <4>5, <5>2
      <4> QED
        BY <4>4, <4>5
    <3>3. g = [n \in 0 .. m |-> Then(g, n)]
      <4>1. g = [n \in 0 .. m |-> g[n]]
        OBVIOUS
      <4> HIDE DEF g
      <4> QED
        BY <3>2, <4>1
    <3>4. Solves(g, m)
      <4> HIDE DEF g
      <4> QED
        BY <3>3
    <3> HIDE DEF Solves
    <3> QED
      BY <2>2, <3>4
  <2> QED
    BY <2>3, <2>4
<1>4. \E f : Solves(f, Len(ss))
  <2>1. Len(ss) \in 0 .. Len(ss)
    OBVIOUS
  <2> HIDE DEF Solves
  <2> QED
    BY <1>3, <2>1
<1> DEFINE undo == Undone(regs, ss, name)
<1>5. Solves(undo, Len(ss))
  <2> HIDE DEF Solves
  <2> QED
    BY <1>1, <1>4, Zenon
<1>6. \A n \in 0 .. Len(ss) : undo[n] = Then(undo, n)
  <2> HIDE DEF undo, Then
  <2> QED
    BY <1>5
<1> HIDE DEF undo
<1>7. undo[0] = regs /\ \A n \in 1 .. Len(ss) : undo[n] = Unregistered(undo[n - 1], ss[n], name)
  BY <1>6
<1> QED
  BY <1>7, Zenon DEF undo

LEMMA UndoneAtLast == RegistryInv => UnregisterUndoes
<1> SUFFICES ASSUME RegistryInv, NEW p \in Parsers, RegisteredAs(p.name) = {}
    PROVE  Undone(Registered(registry, p), SetToSeq(p.patterns), p.name)[Cardinality(p.patterns)]
             = registry
  BY Zenon DEF UnregisterUndoes
<1> DEFINE S == p.patterns
    ss == SetToSeq(S)
    m == Cardinality(S)
    Entry(s) == [pattern |-> s, parser |-> p]
    E == {Entry(s) : s \in S}
    added == SetToSeq(E)
    L == Len(registry)
    undo == Undone(Registered(registry, p), ss, p.name)
<1>1. /\ S \subseteq DOMAIN Patterns /\ IsFiniteSet(S)
      /\ registry \in Seq(Registration) /\ L \in Nat
      /\ \A n \in 1 .. L : registry[n].parser.name # p.name
  <2>1. registry \in Seq(Registration)
    BY Zenon DEF RegistryInv
  <2>2. L \in Nat /\ DOMAIN registry = 1 .. L
    BY <2>1
  <2>3. \A n \in 1 .. L : registry[n].parser.name # p.name
    BY <2>2 DEF RegisteredAs
  <2>4. S \subseteq DOMAIN Patterns /\ IsFiniteSet(S)
    BY RegistryConstants
  <2> QED
    BY <2>1, <2>2, <2>3, <2>4
<1>2. /\ ss \in Seq(S) /\ Len(ss) = m /\ m \in Nat
      /\ \A i, j \in 1 .. m : ss[i] = ss[j] => i = j
  BY <1>1, SomeSeq
<1>3. /\ added \in Seq(Registration) /\ Len(added) = m
      /\ \A s \in S : \E n \in 1 .. m : added[n] = Entry(s)
  <2>1. \A s, t \in S : Entry(s) = Entry(t) => s = t
    <3>1. \A s : Entry(s).pattern = s
      OBVIOUS
    <3> HIDE DEF Entry
    <3> QED
      BY <3>1
  <2> DEFINE f == [s \in S |-> Entry(s)]
  <2>2. f \in Bijection(S, E)
    <3>1. f \in [S -> E] /\ \A s \in S : f[s] = Entry(s)
      OBVIOUS
    <3>2. \A e \in E : \E s \in S : f[s] = e
      OBVIOUS
    <3> HIDE DEF f, E, Entry
    <3>3. IsInjective(f)
      BY <2>1, <3>1 DEF IsInjective
    <3>4. f \in Injection(S, E)
      BY <3>1, <3>3, Zenon DEF Injection
    <3>5. f \in Surjection(S, E)
      BY <3>1, <3>2, Zenon DEF Surjection
    <3> QED
      BY <3>4, <3>5 DEF Bijection
  <2>3. IsFiniteSet(E) /\ Cardinality(E) = m
    <3>1. ExistsBijection(S, E)
      BY <2>2, Zenon DEF ExistsBijection
    <3> HIDE DEF E, S
    <3> QED
      BY <1>1, <3>1, FS_Bijection DEF m
  <2>4. E \subseteq Registration
    BY <1>1 DEF Registration
  <2>5. \A s \in S : Entry(s) \in E
    OBVIOUS
  <2> HIDE DEF E, S, m, Entry
  <2>6. /\ added \in Seq(E) /\ Len(added) = m
        /\ \A e \in E : \E n \in 1 .. m : added[n] = e
    BY <2>3, SomeSeq
  <2>7. added \in Seq(Registration)
    BY <2>4, <2>6
  <2> QED
    BY <2>5, <2>6, <2>7, Zenon
<1>4. undo[0] = registry \o added
  <2>1. Registered(registry, p) = registry \o added
    BY Zenon DEF Registered
  <2>2. \A regs, name : Undone(regs, ss, name)[0] = regs
    <3> HIDE DEF ss, m
    <3> QED
      BY <1>2, UndoneSteps
  <2> QED
    BY <2>1, <2>2, Zenon
<1>5. \A n \in 1 .. m : undo[n] = Unregistered(undo[n - 1], ss[n], p.name)
  <2> HIDE DEF ss, m
  <2> QED
    BY <1>2, UndoneSteps
<1> HIDE DEF undo, added, ss, m, E, S, L
<1> DEFINE Left(k) ==
      /\ undo[k] \in Seq(Registration) /\ Len(undo[k]) = L + m - k
      /\ \A n \in 1 .. L : undo[k][n] = registry[n]
      /\ \A j \in k + 1 .. m : \E n \in L + 1 .. L + m - k : undo[k][n] = Entry(ss[j])
<1>6. Left(0)
  <2> DEFINE both == registry \o added
  <2>5. /\ both \in Seq(Registration) /\ Len(both) = L + m
        /\ \A n \in 1 .. L : both[n] = registry[n]
        /\ \A n \in 1 .. m : both[L + n] = added[n] /\ L + n \in L + 1 .. L + m
    <3>1. registry \in Seq(Registration) /\ Len(registry) = L
      BY <1>1 DEF L
    <3>2. added \in Seq(Registration) /\ Len(added) = m
      BY <1>3
    <3>3. both \in Seq(Registration) /\ Len(both) = L + m
      BY <3>1, <3>2
    <3>4. ASSUME NEW n \in 1 .. L PROVE both[n] = registry[n]
      BY <1>1, <1>2, <3>1, <3>2
    <3>5. ASSUME NEW n \in 1 .. m PROVE both[L + n] = added[n] /\ L + n \in L + 1 .. L + m
      BY <1>1, <1>2, <3>1, <3>2
    <3> QED
      BY <3>3, <3>4, <3>5
  <2> HIDE DEF both
  <2>1. undo[0] \in Seq(Registration) /\ Len(undo[0]) = L + m - 0
    BY <1>1, <1>2, <1>4, <2>5 DEF both
  <2>2. \A n \in 1 .. L : undo[0][n] = registry[n]
    BY <1>4, <2>5, Zenon DEF both
  <2>3. \A n \in 1 .. m : undo[0][L + n] = added[n] /\ L + n \in L + 1 .. L + m - 0
    BY <1>1, <1>2, <1>4, <2>5 DEF both
  <2>4. \A j \in 0 + 1 .. m : \E n \in L + 1 .. L + m - 0 : undo[0][n] = Entry(ss[j])
    <3> SUFFICES ASSUME NEW j \in 1 .. m
        PROVE  \E n \in L + 1 .. L + m - 0 : undo[0][n] = Entry(ss[j])
      OBVIOUS
    <3>1. ss[j] \in S
      BY <1>2
    <3>2. PICK n \in 1 .. m : added[n] = Entry(ss[j])
      BY <1>3, <3>1, Zenon
    <3> QED
      BY <2>3, <3>2, Zenon
  <2> QED
    BY <2>1, <2>2, <2>4, Zenon
<1>7. ASSUME NEW k \in 0 .. m - 1, Left(k) PROVE Left(k + 1)
  <2> DEFINE regs == undo[k]
      s == ss[k + 1]
      at == Matching(regs, s, p.name)
      i == CHOOSE n \in at : \A j \in at : n <= j
  <2>1. undo[k + 1] = RemoveAt(regs, i)
    <3>1. k + 1 \in 1 .. m /\ (k + 1) - 1 = k
      BY <1>2
    <3>2. undo[k + 1] = Unregistered(undo[k], ss[k + 1], p.name)
      BY <1>5, <3>1
    <3> QED
      BY <3>2, Zenon DEF Unregistered
  <2>2. regs \in Seq(Registration) /\ Len(regs) = L + m - k
    BY <1>7
  <2>3. at # {} /\ at \subseteq DOMAIN regs
    <3>1. k + 1 \in k + 1 .. m
      BY <1>2
    <3>2. PICK n \in L + 1 .. L + m - k : regs[n] = Entry(s)
      BY <1>7, <3>1
    <3>3. n \in DOMAIN regs
      BY <1>1, <1>2, <2>2
    <3> QED
      BY <3>2, <3>3 DEF Matching
  <2>4. i \in at /\ i \in 1 .. Len(regs)
    <3> HIDE DEF at, regs
    <3> QED
      BY <2>2, <2>3, LeastIndex
  <2>5. regs[i].pattern = s /\ regs[i].parser.name = p.name
    <3> HIDE DEF i
    <3> QED
      BY <2>4 DEF Matching
  <2>6. i > L
    <3> HIDE DEF i
    <3>1. CASE i \in 1 .. L
      BY <1>1, <1>7, <2>5, <3>1
    <3> QED
      BY <1>1, <2>4, <3>1
  <2> HIDE DEF i, at
  <2>7. /\ undo[k + 1] \in Seq(Registration) /\ Len(undo[k + 1]) = L + m - k - 1
        /\ \A n \in 1 .. L + m - k - 1 : undo[k + 1][n] = IF n < i THEN regs[n] ELSE regs[n + 1]
    <3> HIDE DEF regs
    <3>1. /\ RemoveAt(regs, i) \in Seq(Registration) /\ Len(RemoveAt(regs, i)) = Len(regs) - 1
          /\ \A n \in 1 .. Len(regs) - 1 : RemoveAt(regs, i)[n] = IF n < i THEN regs[n] ELSE regs[n + 1]
      BY <2>2, <2>4, RemovedAt, Zenon
    <3>2. Len(regs) - 1 = L + m - k - 1
      BY <1>1, <1>2, <2>2
    <3> HIDE DEF Left
    <3> QED
      BY <2>1, <3>1, <3>2, Zenon
  <2>8. \A n \in 1 .. L : undo[k + 1][n] = registry[n]
    <3> SUFFICES ASSUME NEW n \in 1 .. L PROVE undo[k + 1][n] = registry[n]
      OBVIOUS
    <3>1. n \in 1 .. L + m - k - 1 /\ n < i
      BY <1>1, <1>2, <2>2, <2>4, <2>6
    <3>2. undo[k + 1][n] = regs[n]
      BY <2>7, <3>1
    <3> QED
      BY <1>7, <3>2
  <2>9. ASSUME NEW j \in (k + 1) + 1 .. m
        PROVE  \E n \in L + 1 .. L + m - (k + 1) : undo[k + 1][n] = Entry(ss[j])
    <3>1. j \in k + 1 .. m /\ j \in 1 .. m /\ k + 1 \in 1 .. m /\ j # k + 1
      BY <1>2
    <3>2. PICK n \in L + 1 .. L + m - k : regs[n] = Entry(ss[j])
      BY <1>7, <3>1, Zenon
    <3>3. Entry(ss[j]).pattern = ss[j] /\ ss[j] # s
      BY <1>2, <3>1
    <3>4. n # i
      BY <2>5, <3>2, <3>3
    <3>5. CASE n < i
      <4>1. n \in L + 1 .. L + m - (k + 1) /\ n \in 1 .. L + m - k - 1
        BY <1>1, <1>2, <2>2, <2>4, <3>5
      <4>2. undo[k + 1][n] = regs[n]
        BY <2>7, <3>5, <4>1
      <4> QED
        BY <3>2, <4>1, <4>2, Zenon
    <3>6. CASE n > i
      <4>1. n - 1 \in L + 1 .. L + m - (k + 1) /\ n - 1 \in 1 .. L + m - k - 1 /\ ~(n - 1 < i)
        BY <1>1, <1>2, <2>2, <2>4, <2>6, <3>6
      <4>2. undo[k + 1][n - 1] = regs[(n - 1) + 1] /\ (n - 1) + 1 = n
        BY <1>1, <2>7, <4>1
      <4> QED
        BY <3>2, <4>1, <4>2, Zenon
    <3> QED
      BY <1>1, <1>2, <2>4, <3>4, <3>5, <3>6
  <2>10. L + m - k - 1 = L + m - (k + 1)
    BY <1>1, <1>2
  <2> QED
    BY <2>7, <2>8, <2>9, <2>10, Zenon
<1>8. Left(m)
  <2> DEFINE Bad == {k \in 0 .. m : ~Left(k)}
  <2> SUFFICES Bad = {}
    BY <1>2
  <2> SUFFICES ASSUME Bad # {} PROVE FALSE
    OBVIOUS
  <2>1. Bad \subseteq Nat
    OBVIOUS
  <2>2. PICK k \in Bad : \A j \in Bad : k <= j
    <3> HIDE DEF Bad
    <3> QED
      BY <2>1, LeastNat
  <2>3. k \in 0 .. m /\ ~Left(k)
    BY <2>2
  <2> HIDE DEF Left
  <2>4. k # 0
    BY <1>6, <2>3
  <2>5. k - 1 \in 0 .. m - 1 /\ k - 1 \in 0 .. m /\ ~(k <= k - 1) /\ (k - 1) + 1 = k
    BY <1>2, <2>3, <2>4
  <2>6. Left(k - 1)
    BY <2>2, <2>5
  <2>7. Left(k - 1 + 1)
    BY <1>7, <2>5, <2>6
  <2> QED
    BY <2>3, <2>5, <2>7
<1>9. undo[m] = registry
  <2>1. undo[m] \in Seq(Registration) /\ Len(undo[m]) = L
    BY <1>1, <1>2, <1>8
  <2>2. \A n \in 1 .. L : undo[m][n] = registry[n]
    BY <1>8
  <2> HIDE DEF Left
  <2>3. registry \in Seq(Registration) /\ Len(registry) = L
    BY <1>1 DEF L
  <2> QED
    BY <2>1, <2>2, <2>3
<1> QED
  BY <1>9, Zenon DEF undo, ss, m, S

LEMMA AppendAt ==
  ASSUME NEW S, NEW q \in Seq(S), NEW x
  PROVE  /\ Append(q, x)[Len(Append(q, x))] = x
         /\ \A n \in 1 .. Len(Append(q, x)) :
              Append(q, x)[n] = x \/ (n \in 1 .. Len(q) /\ Append(q, x)[n] = q[n])
<1>1. q \in Seq(S \union {x}) /\ x \in S \union {x} /\ Len(q) \in Nat
  OBVIOUS
<1>2. Len(Append(q, x)) = Len(q) + 1
  BY <1>1
<1>3. ASSUME NEW n \in 1 .. Len(q) + 1
      PROVE  Append(q, x)[n] = IF n <= Len(q) THEN q[n] ELSE x
  BY <1>1
<1>4. Append(q, x)[Len(q) + 1] = x
  <2>1. Len(q) + 1 \in 1 .. Len(q) + 1 /\ ~(Len(q) + 1 <= Len(q))
    BY <1>1
  <2> QED
    BY <1>3, <2>1, Zenon
<1>5. \A n \in 1 .. Len(q) + 1 :
        Append(q, x)[n] = x \/ (n \in 1 .. Len(q) /\ Append(q, x)[n] = q[n])
  <2>1. \A n \in 1 .. Len(q) + 1 : n <= Len(q) => n \in 1 .. Len(q)
    BY <1>1
  <2> QED
    BY <1>3, <2>1, Zenon
<1> QED
  BY <1>2, <1>4, <1>5

LEMMA RegistryDomain ==
  ASSUME RegistryInv
  PROVE  DOMAIN registry = 1 .. Len(registry)
  BY DEF RegistryInv

LEMMA RegisteredTypes ==
  ASSUME RegistryInv, NEW n \in 1 .. Len(registry)
  PROVE  /\ registry[n] \in Registration
         /\ registry[n].pattern \in DOMAIN Patterns /\ registry[n].parser \in Parsers
         /\ Patterns[registry[n].pattern].length \in Nat
         /\ registry[n].parser.priority \in Int /\ n \in Nat /\ n # 0
<1>1. registry[n] \in Registration /\ n \in Nat /\ n # 0
  BY DEF RegistryInv
<1>2. registry[n].pattern \in DOMAIN Patterns /\ registry[n].parser \in Parsers
  BY <1>1 DEF Registration
<1>3. Patterns[registry[n].pattern].length \in Nat /\ registry[n].parser.priority \in Int
  BY <1>2, RegistryConstants, Zenon
<1> QED
  BY <1>1, <1>2, <1>3

(* The order of the sort is total ... *)
LEMMA SortsTotal ==
  ASSUME RegistryInv, NEW n \in 1 .. Len(registry), NEW k \in 1 .. Len(registry)
  PROVE  SortsBefore(n, k) \/ SortsBefore(k, n)
<1>1. /\ Patterns[registry[n].pattern].length \in Nat /\ Patterns[registry[k].pattern].length \in Nat
      /\ registry[n].parser.priority \in Int /\ registry[k].parser.priority \in Int
  BY RegisteredTypes, Zenon
<1>2. n \in Int /\ k \in Int
  OBVIOUS
<1> QED
  BY <1>1, <1>2 DEF SortsBefore

(* ... and transitive. *)
LEMMA SortsTransitive ==
  ASSUME RegistryInv, NEW n \in 1 .. Len(registry), NEW k \in 1 .. Len(registry),
         NEW j \in 1 .. Len(registry), SortsBefore(n, k), SortsBefore(k, j)
  PROVE  SortsBefore(n, j)
<1>1. \A i \in 1 .. Len(registry) : /\ Patterns[registry[i].pattern].length \in Nat
                                     /\ registry[i].parser.priority \in Int
  BY RegisteredTypes, Zenon
<1>2. n \in Int /\ k \in Int /\ j \in Int
  OBVIOUS
<1> QED
  BY <1>1, <1>2 DEF SortsBefore

(* So some usable registration is before every other. *)
LEMMA FirstUsable ==
  ASSUME RegistryInv, NEW U, U \subseteq 1 .. Len(registry), U # {}
  PROVE  \E n \in U : \A k \in U : SortsBefore(n, k)
<1> DEFINE L == Len(registry)
    R == {w \in (1 .. L) \X (1 .. L) : SortsBefore(w[1], w[2])}
<1>1. L \in Nat
  BY DEF RegistryInv
<1>2. \A n, k \in 1 .. L : <<n, k>> \in R <=> SortsBefore(n, k)
  OBVIOUS
<1> HIDE DEF R
<1>3. \A n, k \in U : <<n, k>> \in R \/ <<k, n>> \in R
  BY <1>2, SortsTotal
<1>4. \A n, k, j \in U : <<n, k>> \in R /\ <<k, j>> \in R => <<n, j>> \in R
  BY <1>2, SortsTransitive
<1>5. \E n \in U : \A k \in U : <<n, k>> \in R
  <2>1. U \subseteq 1 .. L
    OBVIOUS
  <2>2. Orders(R, U)
    BY <1>3, <1>4, Zenon DEF Orders
  <2> HIDE DEF L
  <2> QED
    BY <1>1, <2>1, <2>2, FirstInOrder
<1> QED
  BY <1>2, <1>5

(* _resolve_parser returns a registration, or 0. *)
LEMMA ResolvedIsRegistered ==
  ASSUME RegistryInv, NEW file, NEW asked
  PROVE  ResolvedParser(file, asked) = 0 \/ ResolvedParser(file, asked) \in 1 .. Len(registry)
<1>1. registry \in Seq(Registration) /\ DOMAIN registry = 1 .. Len(registry)
  BY DEF RegistryInv
<1> DEFINE byName(name) == IF RegisteredAs(name) = {} THEN 0 ELSE FirstOf(RegisteredAs(name))
<1>2. \A name : byName(name) = 0 \/ byName(name) \in 1 .. Len(registry)
  <2> SUFFICES ASSUME NEW name, RegisteredAs(name) # {}
      PROVE  FirstOf(RegisteredAs(name)) \in 1 .. Len(registry)
    OBVIOUS
  <2>1. RegisteredAs(name) \subseteq DOMAIN registry
    BY DEF RegisteredAs
  <2> QED
    BY <1>1, <2>1, LeastIndex, Zenon DEF FirstOf
<1> DEFINE best == CHOOSE n \in Usable(file) : \A k \in Usable(file) : SortsBefore(n, k)
<1>3. Usable(file) # {} => best \in 1 .. Len(registry)
  <2> SUFFICES ASSUME Usable(file) # {} PROVE best \in 1 .. Len(registry)
    OBVIOUS
  <2>1. Usable(file) \subseteq 1 .. Len(registry)
    BY <1>1 DEF Usable, Matches
  <2>2. \E n \in Usable(file) : \A k \in Usable(file) : SortsBefore(n, k)
    BY <2>1, FirstUsable
  <2>3. best \in Usable(file)
    BY <2>2, Zenon
  <2> QED
    BY <2>1, <2>3, Zenon
<1>4. \/ ResolvedParser(file, asked) = byName(asked)
      \/ \E s : ResolvedParser(file, asked) = byName(preferences[s])
      \/ ResolvedParser(file, asked) = 0
      \/ (Usable(file) # {} /\ ResolvedParser(file, asked) = best)
  <2>1. CASE asked # ""
    BY <2>1, Zenon DEF ResolvedParser
  <2>2. CASE asked = "" /\ PreferredFor(file) # {}
    <3>1. ResolvedParser(file, asked) = byName(preferences[CHOOSE s \in PreferredFor(file) : TRUE])
      BY <2>2, Zenon DEF ResolvedParser
    <3> HIDE DEF byName
    <3> QED
      BY <3>1, Zenon
  <2>3. CASE asked = "" /\ PreferredFor(file) = {} /\ Usable(file) = {}
    BY <2>3, Zenon DEF ResolvedParser
  <2>4. CASE asked = "" /\ PreferredFor(file) = {} /\ Usable(file) # {}
    BY <2>4, Zenon DEF ResolvedParser
  <2> HIDE DEF byName, best
  <2> QED
    BY <2>1, <2>2, <2>3, <2>4, Zenon
<1> HIDE DEF byName, best
<1> QED
  BY <1>2, <1>3, <1>4, Zenon

LEMMA StampedFields ==
  ASSUME NEW d \in LoadedDoc, NEW file \in Sayings, NEW name \in Sayings
  PROVE  /\ Stamped(d, file, name) \in LoadedDoc
         /\ Stamped(d, file, name).parser = Filled(d.parser, name)
         /\ Stamped(d, file, name).path = Filled(d.path, file)
<1> DEFINE a == Filled(d.parser, name)
    b == Filled(d.path, file)
    e == [d EXCEPT !.parser = a]
    f == [e EXCEPT !.path = b]
<1>1. a \in Sayings /\ b \in Sayings
  <2>1. d.parser \in Sayings /\ d.path \in Sayings
    BY DEF LoadedDoc
  <2> QED
    BY <2>1, Zenon DEF Filled
<1>2. f = Stamped(d, file, name)
  BY DEF Stamped, Filled
<1> HIDE DEF a, b
<1>3. e \in LoadedDoc /\ e.parser = a
  BY <1>1 DEF LoadedDoc
<1> HIDE DEF e
<1>4. f \in LoadedDoc /\ f.parser = e.parser /\ f.path = b
  BY <1>1, <1>3 DEF LoadedDoc
<1> HIDE DEF f
<1> QED
  BY <1>2, <1>3, <1>4 DEF a, b

LEMMA WithSibling ==
  ASSUME NEW d \in LoadedDoc, NEW sibling \in SourceFiles
  PROVE  LET e == [d EXCEPT !.files = @ \union {sibling}]
         IN  e \in LoadedDoc /\ e.parser = d.parser /\ e.path = d.path
<1> DEFINE fs == d.files \union {sibling}
    e == [d EXCEPT !.files = fs]
<1>1. fs \in SUBSET SourceFiles
  BY DEF LoadedDoc
<1> HIDE DEF fs
<1>2. e \in LoadedDoc /\ e.parser = d.parser /\ e.path = d.path
  BY <1>1 DEF LoadedDoc
<1> QED
  BY <1>2, Zenon DEF fs

(* A loaded document says where it came from. *)
LEMMA LoadSaysItsOrigin ==
  ASSUME RegistryInv, NEW file \in SourceFiles, NEW asked, NEW loaded,
         LoadFile(file, asked), loaded = loads'[Len(loads')]
  PROVE  /\ loads' = Append(loads, loaded) /\ loaded \in Loaded
         /\ loaded.done => SaysItsOrigin(loaded)
<1> DEFINE n == ResolvedParser(file, asked)
    p == registry[n].parser
    named == asked # "" \/ PreferredFor(file) # {}
<1>1. n = 0 \/ n \in 1 .. Len(registry)
  BY ResolvedIsRegistered
<1>2. n # 0 => p \in Parsers
  <2> HIDE DEF n
  <2> QED
    BY <1>1, RegisteredTypes, Zenon
<1>3. n # 0 => p.name \in ParserNames /\ p.name # ""
  BY <1>2, RegistryConstants DEF ParserNames
<1>4. file # ""
  BY RegistryConstants
<1>5. loads \in Seq(Loaded)
  BY DEF RegistryInv
<1>6. ASSUME NEW done \in BOOLEAN, NEW by \in ParserNames \union {""}, NEW doc \in LoadedDoc,
             NEW wanted \in BOOLEAN,
             loads' = Append(loads, [done |-> done, by |-> by, asked |-> wanted, file |-> file,
                                     doc |-> doc]),
             done => IF by \in Keeping THEN doc.parser = "original" /\ doc.path = "original"
                                       ELSE doc.parser = by /\ doc.path = file
      PROVE  /\ loads' = Append(loads, loaded) /\ loaded \in Loaded
             /\ loaded.done => SaysItsOrigin(loaded)
  <2> DEFINE l == [done |-> done, by |-> by, asked |-> wanted, file |-> file, doc |-> doc]
  <2>1. l \in Loaded
    BY Zenon DEF Loaded
  <2>2. l.done = done /\ l.by = by /\ l.file = file /\ l.doc = doc
    BY Zenon
  <2> HIDE DEF l
  <2>3. Append(loads, l)[Len(Append(loads, l))] = l
    BY <1>5, AppendAt
  <2>4. loaded = l
    BY <1>6, <2>3, Zenon DEF l
  <2>5. l.done => SaysItsOrigin(l)
    BY <1>6, <2>2, Zenon DEF SaysItsOrigin
  <2> QED
    BY <1>6, <2>1, <2>4, <2>5, Zenon DEF l
<1>7. named \in BOOLEAN
  OBVIOUS
<1>8. ASSUME NEW q
      PROVE  /\ ParsedBy(q, file) \in LoadedDoc
             /\ IF q.name \in Keeping
                THEN ParsedBy(q, file).parser = "original" /\ ParsedBy(q, file).path = "original"
                ELSE ParsedBy(q, file).parser = "" /\ ParsedBy(q, file).path = ""
  <2>1. {file} \in SUBSET SourceFiles
    OBVIOUS
  <2>2. "original" \in Sayings /\ "" \in Sayings
    BY DEF Sayings
  <2> HIDE DEF n, p, named
  <2>3. CASE q.name \in Keeping
    <3>1. ParsedBy(q, file) = [parser |-> "original", path |-> "original", files |-> {file}]
      BY <2>3, Zenon DEF ParsedBy
    <3> DEFINE d == [parser |-> "original", path |-> "original", files |-> {file}]
    <3>2. d \in LoadedDoc /\ d.parser = "original" /\ d.path = "original"
      BY <2>1, <2>2, Zenon DEF LoadedDoc
    <3> HIDE DEF d
    <3> QED
      BY <2>3, <3>1, <3>2, Zenon DEF d
  <2>4. CASE ~(q.name \in Keeping)
    <3>1. ParsedBy(q, file) = [parser |-> "", path |-> "", files |-> {file}]
      BY <2>4, Zenon DEF ParsedBy
    <3> DEFINE d == [parser |-> "", path |-> "", files |-> {file}]
    <3>2. d \in LoadedDoc /\ d.parser = "" /\ d.path = ""
      BY <2>1, <2>2, Zenon DEF LoadedDoc
    <3> HIDE DEF d
    <3> QED
      BY <2>4, <3>1, <3>2, Zenon DEF d
  <2> QED
    BY <2>3, <2>4
<1>9. CASE n = 0 \/ ~ (p.name \in available)
  <2> DEFINE nobody == [name |-> ""]
      by == IF n = 0 THEN "" ELSE p.name
  <2>1. loads' = Append(loads, [done |-> FALSE, by |-> by, asked |-> named, file |-> file,
                                doc |-> ParsedBy(nobody, file)])
    BY <1>9, Zenon DEF LoadFile
  <2>2. ParsedBy(nobody, file) \in LoadedDoc
    BY <1>8, Zenon
  <2>3. by \in ParserNames \union {""} /\ FALSE \in BOOLEAN
    BY <1>3, Zenon
  <2> HIDE DEF named, by, nobody
  <2> QED
    BY <1>6, <1>7, <2>1, <2>2, <2>3, Zenon
<1>10. CASE ~(n = 0 \/ ~ (p.name \in available))
  <2>1. PICK sibling \in {""} \union (SourceFiles \ {file}) :
          loads' = Append(loads,
            [done |-> TRUE, by |-> p.name, asked |-> named, file |-> file,
             doc |-> Stamped(Stamped(Called(p, file, sibling), file, p.name), file, "load")])
    BY <1>10, Zenon DEF LoadFile
  <2> HIDE DEF named, p
  <2> DEFINE called == Called(p, file, sibling)
      once == Stamped(called, file, p.name)
      twice == Stamped(once, file, "load")
  <2>2. /\ called \in LoadedDoc
        /\ IF p.name \in Keeping THEN called.parser = "original" /\ called.path = "original"
                                 ELSE called.parser = "" /\ called.path = ""
    <3>1. CASE p.second # "" /\ sibling # ""
      <4>1. called = [ParsedBy(p, file) EXCEPT !.files = @ \union {sibling}]
        BY <3>1, Zenon DEF Called
      <4>2. sibling \in SourceFiles
        BY <2>1, <3>1
      <4> HIDE DEF called
      <4>3. called \in LoadedDoc /\ called.parser = ParsedBy(p, file).parser
            /\ called.path = ParsedBy(p, file).path
        BY <1>8, <4>1, <4>2, WithSibling, Zenon
      <4> QED
        BY <1>8, <4>3, Zenon
    <3>2. CASE ~(p.second # "" /\ sibling # "")
      <4>1. called = ParsedBy(p, file)
        BY <3>2, Zenon DEF Called
      <4> HIDE DEF called
      <4> QED
        BY <1>8, <4>1, Zenon
    <3> QED
      BY <3>1, <3>2
  <2>3. p.name # "" /\ p.name \in ParserNames /\ p.name \in Sayings /\ file \in Sayings
        /\ "load" \in Sayings
    BY <1>3, <1>10, Zenon DEF p, Sayings
  <2> HIDE DEF called
  <2>4. once \in LoadedDoc /\ once.parser = Filled(called.parser, p.name)
        /\ once.path = Filled(called.path, file)
    BY <2>2, <2>3, StampedFields
  <2> HIDE DEF once
  <2>5. twice \in LoadedDoc /\ twice.parser = Filled(once.parser, "load")
        /\ twice.path = Filled(once.path, file)
    BY <2>3, <2>4, StampedFields
  <2> HIDE DEF twice
  <2>6. IF p.name \in Keeping THEN twice.parser = "original" /\ twice.path = "original"
                              ELSE twice.parser = p.name /\ twice.path = file
    BY <1>4, <2>2, <2>3, <2>4, <2>5 DEF Filled
  <2>7. loads' = Append(loads, [done |-> TRUE, by |-> p.name, asked |-> named, file |-> file,
                                doc |-> twice])
    BY <2>1, Zenon DEF twice, once, called
  <2>8. p.name \in ParserNames \union {""} /\ TRUE \in BOOLEAN
    BY <2>3, Zenon
  <2> QED
    BY <1>6, <1>7, <2>5, <2>6, <2>7, <2>8, Zenon
<1> QED
  BY <1>9, <1>10

(* Every step keeps the registry in order and the loads true. *)
LEMMA RegistryStep == RegistryInv /\ [RegistryNext]_registryVars => RegistryInv'
<1> SUFFICES ASSUME RegistryInv, [RegistryNext]_registryVars PROVE RegistryInv'
  OBVIOUS
<1>1. ASSUME NEW p \in Parsers, Register(p) PROVE RegistryInv'
  <2> DEFINE E == {[pattern |-> s, parser |-> p] : s \in p.patterns}
  <2>1. E \subseteq Registration
    <3> SUFFICES ASSUME NEW s \in p.patterns PROVE [pattern |-> s, parser |-> p] \in Registration
      OBVIOUS
    <3>1. s \in DOMAIN Patterns
      BY RegistryConstants, Zenon
    <3> QED
      BY <3>1 DEF Registration
  <2>2. IsFiniteSet(p.patterns)
    BY RegistryConstants
  <2>3. IsFiniteSet(E)
    <3> DEFINE f == [s \in p.patterns |-> [pattern |-> s, parser |-> p]]
    <3>1. f \in Surjection(p.patterns, E)
      <4>1. f \in [p.patterns -> E] /\ \A e \in E : \E s \in p.patterns : f[s] = e
        OBVIOUS
      <4> HIDE DEF f, E
      <4> QED
        BY <4>1, Zenon DEF Surjection
    <3> HIDE DEF f, E
    <3> QED
      BY <2>2, <3>1, FS_Surjection
  <2>4. SetToSeq(E) \in Seq(E)
    <3> HIDE DEF E
    <3> QED
      BY <2>3, SomeSeq
  <2>5. SetToSeq(E) \in Seq(Registration)
    <3> HIDE DEF E
    <3> QED
      BY <2>1, <2>4
  <2>6. registry' = registry \o SetToSeq(E) /\ loads' = loads
    BY <1>1 DEF Register, Registered
  <2>7. registry' \in Seq(Registration)
    <3> HIDE DEF E
    <3> QED
      BY <2>5, <2>6 DEF RegistryInv
  <2> QED
    BY <2>6, <2>7, Zenon DEF RegistryInv
<1>2. ASSUME NEW s, NEW name, Unregister(s, name) PROVE RegistryInv'
  <2> DEFINE at == Matching(registry, s, name)
      i == CHOOSE n \in at : \A k \in at : n <= k
  <2>1. registry' = RemoveAt(registry, i) /\ at # {} /\ loads' = loads
    BY <1>2 DEF Unregister, Unregistered
  <2>2. at \subseteq DOMAIN registry /\ registry \in Seq(Registration)
    BY DEF Matching, RegistryInv
  <2>3. i \in 1 .. Len(registry)
    <3> HIDE DEF at
    <3> QED
      BY <2>1, <2>2, LeastIndex
  <2>4. registry' \in Seq(Registration)
    <3> HIDE DEF i
    <3> QED
      BY <2>1, <2>2, <2>3, RemovedAt
  <2> QED
    BY <2>1, <2>4, Zenon DEF RegistryInv
<1>3. ASSUME NEW file \in SourceFiles, NEW asked, LoadFile(file, asked) PROVE RegistryInv'
  <2> DEFINE l == loads'[Len(loads')]
  <2>1. /\ loads' = Append(loads, l) /\ l \in Loaded /\ registry' = registry
        /\ l.done => SaysItsOrigin(l)
    BY <1>3, LoadSaysItsOrigin, Zenon DEF LoadFile
  <2> HIDE DEF l
  <2>2. loads \in Seq(Loaded)
    BY DEF RegistryInv
  <2>3. loads' \in Seq(Loaded)
    BY <2>1, <2>2
  <2>4. ASSUME NEW n \in 1 .. Len(loads') 
        PROVE  loads'[n] = l \/ (n \in 1 .. Len(loads) /\ loads'[n] = loads[n])
    BY <2>1, <2>2, AppendAt
  <2>5. \A n \in 1 .. Len(loads') : loads'[n].done => SaysItsOrigin(loads'[n])
    BY <2>1, <2>4, Zenon DEF RegistryInv
  <2> QED
    BY <2>1, <2>3, <2>5, Zenon DEF RegistryInv, SaysItsOrigin
<1>4. CASE UNCHANGED registryVars
  BY <1>4 DEF RegistryInv, registryVars
<1> QED
  BY <1>1, <1>2, <1>3, <1>4, Zenon DEF RegistryNext

LEMMA RegistryStarts == RegistryInit => RegistryInv
  BY DEF RegistryInit, RegistryInv

(* load, when nobody named a parser. *)
LEMMA BestReads ==
  ASSUME RegistryInv, NEW file \in SourceFiles, LoadFile(file, ""), PreferredFor(file) = {},
         NEW able, able = {n \in Matches(file) : registry[n].parser.name \in available},
         able # {}, {n \in Matches(file) : registry[n].parser.second # ""} = {}
  PROVE  LET got == loads'[Len(loads')]
         IN /\ got.done
            /\ \E n \in able : registry[n].parser.name = got.by
                               /\ \A k \in able : SortsBefore(n, k)
<1>1. Usable(file) = able
  BY DEF Usable
<1>2. able \subseteq 1 .. Len(registry)
  <2>2. DOMAIN registry = 1 .. Len(registry)
    BY RegistryDomain, Zenon
  <2>3. Matches(file) \subseteq DOMAIN registry
    BY DEF Matches
  <2> QED
    BY <2>2, <2>3, Zenon
<1> DEFINE n == CHOOSE m \in able : \A k \in able : SortsBefore(m, k)
<1>3. n \in able /\ \A k \in able : SortsBefore(n, k)
  <2>1. \E m \in able : \A k \in able : SortsBefore(m, k)
    BY <1>2, FirstUsable
  <2> QED
    BY <2>1, Zenon
<1>4. ResolvedParser(file, "") = n
  BY <1>1, Zenon DEF ResolvedParser
<1> HIDE DEF n
<1>5. n # 0 /\ registry[n].parser.name \in available
  <2>1. n \in 1 .. Len(registry) /\ registry[n].parser.name \in available
    BY <1>2, <1>3, Zenon
  <2> QED
    BY <2>1, RegisteredTypes, Zenon
<1>6. PICK doc, wanted :
        loads' = Append(loads, [done |-> TRUE, by |-> registry[n].parser.name, asked |-> wanted,
                                file |-> file, doc |-> doc])
  BY <1>4, <1>5, Zenon DEF LoadFile
<1> DEFINE l == [done |-> TRUE, by |-> registry[n].parser.name, asked |-> wanted,
                 file |-> file, doc |-> doc]
<1>7. l.done /\ l.by = registry[n].parser.name
  OBVIOUS
<1> HIDE DEF l
<1>8. loads'[Len(loads')] = l
  <2>1. loads \in Seq(Loaded)
    BY DEF RegistryInv
  <2>2. loads' = Append(loads, l)
    BY <1>6, Zenon DEF l
  <2> QED
    BY <2>1, <2>2, AppendAt
<1> QED
  BY <1>3, <1>7, <1>8, Zenon

(* Who reads a file is decided by the registrations alone, whatever their   *)
(* order and history, and is what the document says of itself               *)
(* (parsing/registry.py, stamp_provenance).                                 *)
THEOREM RegistryStaysDecisive == RegistrySpec => RegistryDecides
<1>1. RegistryInv => ProvenanceKept
  <2> SUFFICES ASSUME RegistryInv, NEW n \in DOMAIN loads, loads[n].done
      PROVE  SaysItsOrigin(loads[n])
    BY Zenon DEF ProvenanceKept, SaysItsOrigin
  <2> QED
    BY DEF RegistryInv
<1>2. ASSUME RegistryInv, [RegistryNext]_registryVars
      PROVE  [\A file \in SourceFiles :
       LET able == {n \in Matches(file) : registry[n].parser.name \in available}
           multi == {n \in Matches(file) : registry[n].parser.second # ""}
       IN LoadFile(file, "") /\ PreferredFor(file) = {} /\ able # {} /\ multi = {} =>
            LET got == loads'[Len(loads')]
            IN /\ got.done
               /\ \E n \in able : registry[n].parser.name = got.by
                                  /\ \A k \in able : SortsBefore(n, k)]_registryVars
  BY <1>2, BestReads, Zenon
<1> QED
  BY RegistryStarts, RegistryStep, UndoneAtLast, <1>1, <1>2, PTL
     DEF RegistrySpec, RegistryDecides, BestUsableReads

-----------------------------------------------------------------------------
(* The content of documents *)

(* How many members of a sequence are in a set. *)
LEMMA AmongCounted ==
  ASSUME NEW M, NEW S, NEW t \in Seq(M)
  PROVE  /\ IsFiniteSet({n \in DOMAIN t : t[n] \in S})
         /\ Cardinality({n \in DOMAIN t : t[n] \in S}) = Len(Among(t, S))
<1> DEFINE At(s) == {n \in DOMAIN s : s[n] \in S}
    Holds(s) == IsFiniteSet(At(s)) /\ Cardinality(At(s)) = Len(Among(s, S))
    P == {s \in Seq(M) : Holds(s)}
<1>1. <<>> \in P
  <2>1. At(<<>>) = {} /\ <<>> \in Seq(M) /\ Len(<<>>) = 0
    OBVIOUS
  <2>2. Among(<<>>, S) = <<>>
    BY AmongNothing
  <2>3. Holds(<<>>)
    BY <2>1, <2>2, FS_EmptySet
  <2> HIDE DEF Holds
  <2> QED
    BY <2>1, <2>3
<1>2. ASSUME NEW s \in Seq(M), NEW x \in M, s \in P PROVE Append(s, x) \in P
  <2> DEFINE u == Append(s, x)
      K == Len(s) + 1
  <2>1. /\ u \in Seq(M) /\ Len(s) \in Nat /\ DOMAIN s = 1 .. Len(s) /\ DOMAIN u = 1 .. K
        /\ u[K] = x /\ \A n \in 1 .. Len(s) : u[n] = s[n]
    BY AppendFacts
  <2>2. Among(u, S) = IF x \in S THEN Append(Among(s, S), x) ELSE Among(s, S)
    BY AmongAppended
  <2>3. Among(s, S) \in Seq(M)
    BY AmongIn
  <2>4. IsFiniteSet(At(s)) /\ Cardinality(At(s)) = Len(Among(s, S))
    BY <1>2
  <2>5. At(u) = IF x \in S THEN At(s) \cup {K} ELSE At(s)
    <3>1. \A n : n \in 1 .. K <=> n \in 1 .. Len(s) \/ n = K
      BY <2>1
    <3>2. K \notin 1 .. Len(s)
      BY <2>1
    <3> HIDE DEF K, u
    <3> QED
      BY <2>1, <3>1, <3>2
  <2>6. K \notin At(s)
    BY <2>1
  <2> HIDE DEF At, K, u
  <2>7. Holds(u)
    <3>1. CASE x \in S
      <4>1. IsFiniteSet(At(s) \cup {K}) /\ Cardinality(At(s) \cup {K}) = Cardinality(At(s)) + 1
        BY <2>4, <2>6, FS_AddElement
      <4>2. Len(Append(Among(s, S), x)) = Len(Among(s, S)) + 1
        BY <2>3
      <4> QED
        BY <2>2, <2>4, <2>5, <3>1, <4>1, <4>2
    <3>2. CASE x \notin S
      BY <2>2, <2>4, <2>5, <3>2
    <3> QED
      BY <3>1, <3>2
  <2> HIDE DEF Holds
  <2> QED
    BY <2>1, <2>7 DEF u
<1>3. \A s \in Seq(M) : s \in P
  <2> HIDE DEF P
  <2> QED
    BY <1>1, <1>2, EverySequence
<1> QED
  BY <1>3

Ids == Nat \X Nat
Words == {f.body : f \in Forms} \cup Names
RefOf == [to : Ids, rel : {"footnote", "image", "odd"}]
ElementOf == [id : Ids, kind : {"heading", "text", "image", "footnote"}, body : Words, refs : Seq(RefOf)]
SightOf == [what : {"title", "body", "ref", "missing", "tag"}, of : Ids]

OwnIds(doc, S) ==
  \A n \in Positions(doc) :
    /\ doc.elements[n].id # BridgeId => doc.elements[n].id[1] \in S
    /\ doc.elements[n].id = BridgeId => doc.elements[n].kind = "heading" /\ doc.elements[n].refs = <<>>
    /\ \A k \in DOMAIN doc.elements[n].refs : doc.elements[n].refs[k].to[1] \in S
    /\ doc.elements[n].kind = "image" => doc.elements[n].refs = <<>>

UniqueIds(doc) ==
  \A n, m \in Positions(doc) :
    doc.elements[n].id = doc.elements[m].id /\ doc.elements[n].id # BridgeId => n = m

WellFormed(doc, S) ==
  /\ S \subseteq Nat \ {0}
  /\ doc.title \in Names /\ doc.elements \in Seq(ElementOf)
  /\ OwnIds(doc, S) /\ UniqueIds(doc)

LEMMA RefersIf ==
  ASSUME NEW doc, NEW S, WellFormed(doc, S), NEW id
  PROVE  id \in InlineIds(doc) <=>
           \E n \in Positions(doc) : \E k \in DOMAIN doc.elements[n].refs :
              doc.elements[n].refs[k].rel # "odd" /\ doc.elements[n].refs[k].to = id
BY DEF InlineIds, KnownRefs, Range

LEMMA InlineIdsIn ==
  ASSUME NEW doc, NEW S, WellFormed(doc, S), NEW id \in InlineIds(doc)
  PROVE  id \in Ids /\ id[1] \in S /\ id # BridgeId
<1>0. PICK n \in Positions(doc) : \E k \in DOMAIN doc.elements[n].refs :
        doc.elements[n].refs[k].rel # "odd" /\ doc.elements[n].refs[k].to = id
  BY RefersIf
<1>1. PICK k \in DOMAIN doc.elements[n].refs : doc.elements[n].refs[k].to = id
  BY <1>0
<1>2. doc.elements[n] \in ElementOf
  BY DEF WellFormed, Positions
<1>3. doc.elements[n].refs[k] \in RefOf
  BY <1>2 DEF ElementOf
<1>4. id \in Ids
  BY <1>1, <1>3 DEF RefOf
<1>5. id[1] \in S /\ S \subseteq Nat \ {0}
  BY <1>1 DEF WellFormed, OwnIds
<1> QED
  BY <1>4, <1>5 DEF BridgeId, Uuid, Ids

LEMMA NamedIs ==
  ASSUME NEW doc, NEW S, WellFormed(doc, S), NEW n \in Positions(doc), doc.elements[n].id # BridgeId
  PROVE  Named(doc, doc.elements[n].id) = doc.elements[n]
<1> DEFINE id == doc.elements[n].id
    First(m) == m \in Positions(doc) /\ doc.elements[m].id = id /\ \A k \in 1 .. m - 1 : doc.elements[k].id # id
<1>1. doc.elements \in Seq(ElementOf) /\ Positions(doc) = 1 .. Len(doc.elements) /\ Len(doc.elements) \in Nat
  BY DEF WellFormed, Positions
<1>2. First(n)
  <2>1. ASSUME NEW k \in 1 .. n - 1, doc.elements[k].id = id PROVE FALSE
    <3>1. k \in Positions(doc) /\ k # n
      BY <1>1
    <3> QED
      BY <2>1, <3>1 DEF WellFormed, UniqueIds
  <2> QED
    BY <2>1
<1>3. \A m : First(m) => m = n
  BY DEF WellFormed, UniqueIds
<1>4. (CHOOSE m \in Positions(doc) : doc.elements[m].id = id /\ \A k \in 1 .. m - 1 : doc.elements[k].id # id)
        = CHOOSE m : First(m)
  OBVIOUS
<1>5. (CHOOSE m : First(m)) = n
  <2> HIDE DEF First
  <2> QED
    BY <1>2, <1>3
<1> QED
  BY <1>4, <1>5 DEF Named

LEMMA HtmlIs ==
  ASSUME NEW e \in ElementOf
  PROVE  /\ Html(e) \in Seq(SightOf) /\ Html(e) # <<>>
         /\ \A x : x \in ToSet(Html(e)) <=>
              x = Sight("body", e.id) \/ \E k \in DOMAIN e.refs : x = Sight("ref", e.refs[k].to)
<1> DEFINE one == <<Sight("body", e.id)>>
    rest == [r \in DOMAIN e.refs |-> Sight("ref", e.refs[r].to)]
<1>1. e.refs \in Seq(RefOf) /\ e.id \in Ids
  BY DEF ElementOf
<1>2. \A k \in DOMAIN e.refs : Sight("ref", e.refs[k].to) \in SightOf
  <2> SUFFICES ASSUME NEW k \in DOMAIN e.refs PROVE Sight("ref", e.refs[k].to) \in SightOf
    OBVIOUS
  <2>1. e.refs[k] \in RefOf
    BY <1>1
  <2>2. e.refs[k].to \in Ids
    BY <2>1 DEF RefOf
  <2> QED
    BY <2>2 DEF Sight, SightOf
<1>3. Sight("body", e.id) \in SightOf
  BY <1>1 DEF Sight, SightOf
<1>4. one \in Seq(SightOf) /\ Len(one) = 1 /\ one[1] = Sight("body", e.id) /\ DOMAIN one = {1}
  BY <1>3
<1>5. rest \in Seq(SightOf) /\ DOMAIN rest = DOMAIN e.refs
  BY <1>1, <1>2
<1>6. ToSet(one) = {Sight("body", e.id)}
  BY <1>4 DEF ToSet
<1>7. \A x : x \in ToSet(rest) <=> \E k \in DOMAIN e.refs : x = Sight("ref", e.refs[k].to)
  BY DEF ToSet
<1>8. Html(e) = one \o rest
  BY DEF Html
<1> HIDE DEF one, rest
<1>9. one \o rest \in Seq(SightOf) /\ ToSet(one \o rest) = ToSet(one) \cup ToSet(rest)
  BY <1>4, <1>5, JoinedIn, JoinedMembers
<1>10. one \o rest # <<>>
  <2>1. ToSet(<<>>) = {}
    BY DEF ToSet
  <2> QED
    BY <1>6, <1>9, <2>1
<1> QED
  BY <1>6, <1>7, <1>8, <1>9, <1>10

LEMMA InlineIs ==
  ASSUME NEW e \in ElementOf
  PROVE  /\ Inline(e) \in Seq(SightOf) /\ Inline(e) # <<>>
         /\ Sight("body", e.id) \in ToSet(Inline(e))
         /\ \A x \in ToSet(Inline(e)) : x = Sight("body", e.id) \/ x.what = "ref"
         /\ \A x \in ToSet(Inline(e)) : x.what = "ref" => x # Sight("body", e.id)
<1>1. CASE e.kind \in {"footnote", "image"}
  <2>1. Inline(e) = <<Sight("body", e.id)>>
    BY <1>1 DEF Inline
  <2>2. Sight("body", e.id) \in SightOf
    BY DEF Sight, SightOf, ElementOf
  <2>3. ToSet(<<Sight("body", e.id)>>) = {Sight("body", e.id)}
    BY DEF ToSet
  <2>4. Sight("body", e.id).what # "ref"
    BY DEF Sight
  <2> QED
    BY <2>1, <2>2, <2>3, <2>4
<1>2. CASE e.kind \notin {"footnote", "image"}
  <2>1. Inline(e) = Html(e)
    BY <1>2 DEF Inline
  <2>2. \A i : Sight("ref", i).what = "ref" /\ Sight("body", i).what # "ref"
    BY DEF Sight
  <2> QED
    BY <2>1, <2>2, HtmlIs
<1> QED
  BY <1>1, <1>2

Alone(doc, e) == e.kind = "heading" \/ e.id \notin InlineIds(doc)

LEMMA StandaloneIs ==
  ASSUME NEW doc, NEW e \in ElementOf, e.kind = "image" => e.refs = <<>>
  PROVE  /\ Standalone(doc, e) \in Seq(SightOf)
         /\ Standalone(doc, e) # <<>> <=> Alone(doc, e)
         /\ \A x : x \in ToSet(Standalone(doc, e)) <=>
              /\ Alone(doc, e)
              /\ x = Sight("body", e.id) \/ \E k \in DOMAIN e.refs : x = Sight("ref", e.refs[k].to)
<1>1. CASE Alone(doc, e) /\ e.kind = "image"
  <2>1. Standalone(doc, e) = <<Sight("body", e.id)>> /\ e.refs = <<>>
    BY <1>1 DEF Alone, Standalone, Inline
  <2>2. Sight("body", e.id) \in SightOf
    BY DEF Sight, SightOf, ElementOf
  <2>3. ToSet(<<Sight("body", e.id)>>) = {Sight("body", e.id)}
    BY DEF ToSet
  <2>4. DOMAIN e.refs = {}
    BY <2>1
  <2> QED
    BY <1>1, <2>1, <2>2, <2>3, <2>4
<1>2. CASE Alone(doc, e) /\ e.kind # "image"
  <2>1. Standalone(doc, e) = Html(e)
    BY <1>2 DEF Alone, Standalone
  <2> QED
    BY <1>2, <2>1, HtmlIs
<1>3. CASE ~Alone(doc, e)
  <2>1. Standalone(doc, e) = <<>>
    BY <1>3 DEF Alone, Standalone
  <2>2. ToSet(<<>>) = {} /\ <<>> \in Seq(SightOf)
    BY DEF ToSet
  <2> QED
    BY <1>3, <2>1, <2>2
<1> QED
  BY <1>1, <1>2, <1>3

Inlined(doc) == InlineIds(doc) \cap IdsOf(doc)

LEMMA InlinedIs ==
  ASSUME NEW doc, NEW S, WellFormed(doc, S), NEW id \in Inlined(doc)
  PROVE  /\ Named(doc, id) \in ElementOf /\ Named(doc, id).id = id
         /\ InlineRendered(doc)[id] = Inline(Named(doc, id))
<1>1. PICK n \in Positions(doc) : doc.elements[n].id = id
  BY DEF Inlined, IdsOf
<1>2. id # BridgeId
  BY InlineIdsIn DEF Inlined
<1>3. Named(doc, id) = doc.elements[n]
  BY <1>1, <1>2, NamedIs
<1>4. doc.elements[n] \in ElementOf
  BY DEF WellFormed, Positions
<1> QED
  BY <1>1, <1>3, <1>4 DEF InlineRendered, Inlined

Tagged(s) == [k \in DOMAIN s |-> IF s[k].what = "ref" THEN [s[k] EXCEPT !.what = "tag"] ELSE s[k]]

LEMMA TaggedIs ==
  ASSUME NEW s \in Seq(SightOf)
  PROVE  /\ Tagged(s) \in Seq(SightOf)
         /\ \A x \in ToSet(s) : x.what # "ref" => x \in ToSet(Tagged(s))
         /\ \A x \in ToSet(Tagged(s)) : (x \in ToSet(s) /\ x.what # "ref") \/ x.what = "tag"
<1>1. \A k \in DOMAIN s : s[k] \in SightOf
  OBVIOUS
<1>2. ASSUME NEW x \in SightOf PROVE [x EXCEPT !.what = "tag"] \in SightOf /\ [x EXCEPT !.what = "tag"].what = "tag"
  BY DEF SightOf
<1>3. ASSUME NEW k \in DOMAIN s
      PROVE  (IF s[k].what = "ref" THEN [s[k] EXCEPT !.what = "tag"] ELSE s[k]) \in SightOf
  BY <1>1, <1>2
<1>4. Tagged(s) \in Seq(SightOf)
  BY <1>3 DEF Tagged
<1>5. DOMAIN Tagged(s) = DOMAIN s /\ \A k \in DOMAIN s :
         Tagged(s)[k] = IF s[k].what = "ref" THEN [s[k] EXCEPT !.what = "tag"] ELSE s[k]
  BY DEF Tagged
<1>6. ASSUME NEW k \in DOMAIN s, s[k].what # "ref" PROVE s[k] \in ToSet(Tagged(s))
  BY <1>5, <1>6 DEF ToSet
<1>7. ASSUME NEW k \in DOMAIN s
      PROVE  (Tagged(s)[k] \in ToSet(s) /\ Tagged(s)[k].what # "ref") \/ Tagged(s)[k].what = "tag"
  <2>1. s[k] \in SightOf /\ s[k] \in ToSet(s)
    BY <1>1 DEF ToSet
  <2>2. CASE s[k].what = "ref"
    <3>1. Tagged(s)[k] = [s[k] EXCEPT !.what = "tag"]
      BY <1>5, <2>2
    <3>2. [s[k] EXCEPT !.what = "tag"].what = "tag"
      BY <1>2, <2>1
    <3> QED
      BY <3>1, <3>2
  <2>3. CASE s[k].what # "ref"
    BY <1>5, <2>1, <2>3
  <2> QED
    BY <2>2, <2>3
<1> QED
  BY <1>4, <1>5, <1>6, <1>7 DEF ToSet

StandsFor(sub, doc, id) ==
  /\ sub \in Seq(SightOf)
  /\ id \in Inlined(doc) => Sight("body", id) \in ToSet(sub)
  /\ \A x \in ToSet(sub) : x.what = "body" => x = Sight("body", id) /\ id \in Inlined(doc)

LEMMA SubstitutedIs ==
  ASSUME NEW doc, NEW S, WellFormed(doc, S), NEW id \in Ids
  PROVE  StandsFor(Substituted(InlineRendered(doc), id), doc, id)
<1> DEFINE sub == Substituted(InlineRendered(doc), id)
<1>1. DOMAIN InlineRendered(doc) = Inlined(doc)
  BY DEF InlineRendered, Inlined
<1>2. CASE id \in Inlined(doc)
  <2> DEFINE s == Inline(Named(doc, id))
  <2>1. Named(doc, id) \in ElementOf /\ Named(doc, id).id = id /\ InlineRendered(doc)[id] = s
    BY <1>2, InlinedIs
  <2>2. sub = Tagged(s)
    BY <1>1, <1>2, <2>1 DEF Substituted, Tagged
  <2>3. /\ s \in Seq(SightOf) /\ Sight("body", id) \in ToSet(s)
        /\ \A x \in ToSet(s) : x = Sight("body", id) \/ x.what = "ref"
    BY <2>1, InlineIs
  <2> HIDE DEF s, sub
  <2>4. Sight("body", id).what = "body"
    BY DEF Sight
  <2>5. /\ Tagged(s) \in Seq(SightOf)
        /\ \A x \in ToSet(s) : x.what # "ref" => x \in ToSet(Tagged(s))
        /\ \A x \in ToSet(Tagged(s)) : (x \in ToSet(s) /\ x.what # "ref") \/ x.what = "tag"
    BY <2>3, TaggedIs
  <2>6. StandsFor(sub, doc, id)
    BY <1>2, <2>2, <2>3, <2>4, <2>5 DEF StandsFor
  <2> QED
    BY <2>6 DEF sub
<1>3. CASE id \notin Inlined(doc)
  <2>1. sub = <<Sight("missing", id)>>
    BY <1>1, <1>3 DEF Substituted
  <2>2. ToSet(<<Sight("missing", id)>>) = {Sight("missing", id)}
    BY DEF ToSet
  <2>3. Sight("missing", id) \in SightOf /\ Sight("missing", id).what = "missing"
    BY DEF Sight, SightOf
  <2> HIDE DEF sub
  <2>4. StandsFor(sub, doc, id)
    BY <1>3, <2>1, <2>2, <2>3 DEF StandsFor
  <2> QED
    BY <2>4 DEF sub
<1> QED
  BY <1>2, <1>3

(* What becomes of a part of the page, and of an element. *)
Into(doc) ==
  [s \in SightOf |-> IF s.what = "ref" THEN Substituted(InlineRendered(doc), s.of) ELSE <<s>>]

View(doc) == [e \in ElementOf |-> FlattenSeq(Mapped(Into(doc), Standalone(doc, e)))]

Header(doc) == IF doc.title = "" THEN <<>> ELSE <<Sight("title", BridgeId)>>

LEMMA IntoIs ==
  ASSUME NEW doc, NEW S, WellFormed(doc, S)
  PROVE  \A s \in SightOf :
           /\ Into(doc)[s] \in Seq(SightOf)
           /\ \A id : Sight("body", id) \in ToSet(Into(doc)[s]) <=>
                s = Sight("body", id) \/ (s = Sight("ref", id) /\ id \in Inlined(doc))
<1> SUFFICES ASSUME NEW s \in SightOf
             PROVE  /\ Into(doc)[s] \in Seq(SightOf)
                    /\ \A id : Sight("body", id) \in ToSet(Into(doc)[s]) <=>
                         s = Sight("body", id) \/ (s = Sight("ref", id) /\ id \in Inlined(doc))
  OBVIOUS
<1>0. s.of \in Ids /\ s = Sight(s.what, s.of)
  BY DEF SightOf, Sight
<1>0a. \A w, v, i, j : Sight(w, i) = Sight(v, j) <=> w = v /\ i = j
  BY DEF Sight
<1>0b. \A i : Sight("body", i).what = "body" /\ Sight("ref", i).what = "ref" /\ Sight("ref", i).of = i
  BY DEF Sight
<1>1. CASE s.what = "ref"
  <2> DEFINE sub == Substituted(InlineRendered(doc), s.of)
  <2>1. Into(doc)[s] = sub
    BY <1>1 DEF Into
  <2>2. /\ sub \in Seq(SightOf)
        /\ s.of \in Inlined(doc) => Sight("body", s.of) \in ToSet(sub)
        /\ \A x \in ToSet(sub) : x.what = "body" => x = Sight("body", s.of) /\ s.of \in Inlined(doc)
    <3>1. StandsFor(sub, doc, s.of)
      BY <1>0, SubstitutedIs
    <3> QED
      BY <3>1 DEF StandsFor
  <2> HIDE DEF sub
  <2>3. ASSUME NEW id, Sight("body", id) \in ToSet(sub) PROVE s.of = id /\ id \in Inlined(doc)
    BY <1>0a, <1>0b, <2>2, <2>3
  <2> QED
    BY <1>0, <1>0a, <1>0b, <1>1, <2>1, <2>2, <2>3
<1>2. CASE s.what # "ref"
  <2>1. Into(doc)[s] = <<s>>
    BY <1>2 DEF Into
  <2>2. ToSet(<<s>>) = {s}
    BY DEF ToSet
  <2>3. <<s>> \in Seq(SightOf)
    OBVIOUS
  <2> QED
    BY <1>0b, <1>2, <2>1, <2>2, <2>3
<1> QED
  BY <1>1, <1>2

LEMMA ResolveIs ==
  ASSUME NEW doc, NEW html \in Seq(SightOf)
  PROVE  ResolveInlineRefs(html, InlineRendered(doc)) = FlattenSeq(Mapped(Into(doc), html))
<1> DEFINE f == [k \in DOMAIN html |->
                  IF html[k].what = "ref" THEN Substituted(InlineRendered(doc), html[k].of) ELSE <<html[k]>>]
    g == Mapped(Into(doc), html)
<1>1. DOMAIN g = DOMAIN html /\ \A k \in DOMAIN html : g[k] = Into(doc)[html[k]]
  BY DEF Mapped
<1>2. \A k \in DOMAIN html : html[k] \in SightOf
  OBVIOUS
<1>3. \A k \in DOMAIN html : g[k] = f[k]
  BY <1>1, <1>2 DEF Into
<1>4. g = [k \in DOMAIN html |-> g[k]]
  BY DEF Mapped
<1> HIDE DEF g
<1>5. g = f
  BY <1>1, <1>3, <1>4
<1>6. ResolveInlineRefs(html, InlineRendered(doc)) = FlattenSeq(f)
  BY DEF ResolveInlineRefs
<1> HIDE DEF f
<1> QED
  BY <1>5, <1>6 DEF g

LEMMA ViewIs ==
  ASSUME NEW doc, NEW S, WellFormed(doc, S), NEW e \in ElementOf, e.kind = "image" => e.refs = <<>>
  PROVE  /\ View(doc)[e] \in Seq(SightOf)
         /\ \A id : Sight("body", id) \in ToSet(View(doc)[e]) <=>
              /\ Alone(doc, e)
              /\ \/ e.id = id
                 \/ id \in Inlined(doc) /\ \E k \in DOMAIN e.refs : e.refs[k].to = id
<1> DEFINE g == Into(doc)
    s == Standalone(doc, e)
    m == Mapped(g, s)
<1>1. /\ s \in Seq(SightOf)
      /\ \A x : x \in ToSet(s) <=>
              /\ Alone(doc, e)
              /\ x = Sight("body", e.id) \/ \E k \in DOMAIN e.refs : x = Sight("ref", e.refs[k].to)
  BY StandaloneIs
<1>2. \A x \in SightOf :
           /\ g[x] \in Seq(SightOf)
           /\ \A id : Sight("body", id) \in ToSet(g[x]) <=>
                x = Sight("body", id) \/ (x = Sight("ref", id) /\ id \in Inlined(doc))
  BY IntoIs
<1>3. View(doc)[e] = FlattenSeq(m)
  BY DEF View
<1> HIDE DEF s, g
<1>4. m \in Seq(Seq(SightOf)) /\ Len(m) = Len(s) /\ \A n \in 1 .. Len(s) : m[n] = g[s[n]]
  BY <1>1, <1>2 DEF Mapped
<1> HIDE DEF m
<1>5. FlattenSeq(m) \in Seq(SightOf)
  BY <1>4, FlattenIn
<1>6. \A x : x \in ToSet(FlattenSeq(m)) <=> \E n \in 1 .. Len(m) : x \in ToSet(m[n])
  BY <1>4, FlattenMembers
<1>7. \A n \in 1 .. Len(s) : s[n] \in ToSet(s) /\ s[n] \in SightOf
  BY <1>1 DEF ToSet
<1>8. \A x \in ToSet(s) : \E n \in 1 .. Len(s) : x = s[n]
  BY <1>1 DEF ToSet
<1>9. ASSUME NEW id
      PROVE  Sight("body", id) \in ToSet(FlattenSeq(m)) <=>
               \E x \in ToSet(s) : x = Sight("body", id) \/ (x = Sight("ref", id) /\ id \in Inlined(doc))
  <2>1. ASSUME NEW n \in 1 .. Len(m)
        PROVE  Sight("body", id) \in ToSet(m[n]) <=>
                 s[n] = Sight("body", id) \/ (s[n] = Sight("ref", id) /\ id \in Inlined(doc))
    BY <1>2, <1>4, <1>7
  <2> QED
    BY <1>4, <1>6, <1>7, <1>8, <2>1
<1>10. \A w, v, i, j : Sight(w, i) = Sight(v, j) <=> w = v /\ i = j
  BY DEF Sight
<1>11. ASSUME NEW id
       PROVE  (\E x \in ToSet(s) : x = Sight("body", id) \/ (x = Sight("ref", id) /\ id \in Inlined(doc)))
              <=> /\ Alone(doc, e)
                  /\ \/ e.id = id
                     \/ id \in Inlined(doc) /\ \E k \in DOMAIN e.refs : e.refs[k].to = id
  <2>1. Sight("body", id) \in ToSet(s) <=> Alone(doc, e) /\ e.id = id
    BY <1>1, <1>10
  <2>2. Sight("ref", id) \in ToSet(s) <=> Alone(doc, e) /\ \E k \in DOMAIN e.refs : e.refs[k].to = id
    BY <1>1, <1>10
  <2> QED
    BY <2>1, <2>2
<1> QED
  BY <1>3, <1>5, <1>9, <1>11

LEMMA ImagesBare ==
  ASSUME NEW doc, NEW S, WellFormed(doc, S), NEW n \in Positions(doc)
  PROVE  doc.elements[n] \in ElementOf /\ (doc.elements[n].kind = "image" => doc.elements[n].refs = <<>>)
BY DEF WellFormed, OwnIds, Positions

(* The page is the header and then the views of the elements. *)
LEMMA RenderedIs ==
  ASSUME NEW doc, NEW S, WellFormed(doc, S)
  PROVE  /\ Mapped(View(doc), doc.elements) \in Seq(Seq(SightOf))
         /\ Header(doc) \in Seq(SightOf)
         /\ RenderForPrompt(doc) = Header(doc) \o FlattenSeq(Mapped(View(doc), doc.elements))
<1> DEFINE parts == [n \in Positions(doc) |-> Standalone(doc, doc.elements[n])]
    body == FlattenSeq(parts)
    head == Header(doc)
    g == Into(doc)
    T == Seq(SightOf)
    h == [s \in Seq(SightOf) |-> FlattenSeq(Mapped(g, s))]
    views == Mapped(View(doc), doc.elements)
<1>1. doc.elements \in Seq(ElementOf) /\ Positions(doc) = 1 .. Len(doc.elements) /\ Len(doc.elements) \in Nat
  BY DEF WellFormed, Positions
<1>2. parts \in Seq(Seq(SightOf))
  <2>1. \A n \in 1 .. Len(doc.elements) : Standalone(doc, doc.elements[n]) \in T
    BY <1>1, ImagesBare, StandaloneIs
  <2> HIDE DEF T
  <2>2. parts \in Seq(T)
    BY <1>1, <2>1
  <2> QED
    BY <2>2 DEF T
<1>3. \A n \in Positions(doc) : parts[n] = Standalone(doc, doc.elements[n])
  OBVIOUS
<1>4. DOMAIN parts = Positions(doc)
  OBVIOUS
<1>5. head \in Seq(SightOf)
  <2>1. Sight("title", BridgeId) \in SightOf
    BY DEF Sight, SightOf, BridgeId, Uuid, Ids
  <2>2. <<>> \in Seq(SightOf) /\ <<Sight("title", BridgeId)>> \in Seq(SightOf)
    BY <2>1
  <2> QED
    BY <2>2 DEF Header
<1>6. RenderForPrompt(doc) = ResolveInlineRefs(head \o body, InlineRendered(doc))
  BY DEF RenderForPrompt, Header
<1> HIDE DEF parts
<1>7. body \in Seq(SightOf)
  BY <1>2, FlattenIn
<1>8. \A x \in SightOf : g[x] \in Seq(SightOf)
  BY IntoIs
<1>8a. ToSequences(g, SightOf, SightOf)
  BY <1>8 DEF ToSequences
<1> HIDE DEF head, body, g
<1>9. head \o body \in Seq(SightOf)
  BY <1>5, <1>7, JoinedIn
<1>10. ResolveInlineRefs(head \o body, InlineRendered(doc)) = FlattenSeq(Mapped(g, head \o body))
  BY <1>9, ResolveIs DEF g
<1>11. Mapped(g, head \o body) = Mapped(g, head) \o Mapped(g, body)
  BY <1>5, <1>7, MappedJoined
<1>12. \A s \in Seq(SightOf) : h[s] = FlattenSeq(Mapped(g, s))
  OBVIOUS
<1> HIDE DEF h
<1>13. \A s \in Seq(SightOf) : Mapped(g, s) \in Seq(Seq(SightOf)) /\ h[s] \in Seq(SightOf)
  BY <1>2, <1>8a, <1>12, FlattenMapped
<1>14. FlattenSeq(Mapped(g, body)) = FlattenSeq(Mapped(h, parts))
  <2>1. FlattenSeq(Mapped(g, FlattenSeq(parts))) = FlattenSeq(Mapped(h, parts))
    BY <1>2, <1>8a, <1>12, FlattenMapped
  <2> QED
    BY <2>1 DEF body
<1>15. FlattenSeq(Mapped(g, head) \o Mapped(g, body)) = FlattenSeq(Mapped(g, head)) \o FlattenSeq(Mapped(g, body))
  BY <1>5, <1>7, <1>13, FlattenJoined
<1>16. FlattenSeq(Mapped(g, head)) = head
  <2>1. CASE doc.title = ""
    <3>1. head = <<>>
      BY <2>1 DEF head, Header
    <3>2. Mapped(g, <<>>) = <<>>
      BY DEF Mapped
    <3> QED
      BY <3>1, <3>2, FlattenNone
  <2>2. CASE doc.title # ""
    <3> DEFINE s == Sight("title", BridgeId)
    <3>1. head = <<s>> /\ s \in SightOf
      BY <2>2 DEF head, Header, Sight, SightOf, BridgeId, Uuid, Ids
    <3>2. g[s] = <<s>>
      BY <3>1 DEF g, Into, Sight
    <3> HIDE DEF s
    <3>3. Mapped(g, <<s>>) = <<g[s]>>
      BY DEF Mapped
    <3>4. <<s>> \in Seq(SightOf)
      BY <3>1
    <3>5. FlattenSeq(<< <<s>> >>) = <<s>>
      BY <3>4, FlattenOne
    <3> QED
      BY <3>1, <3>2, <3>3, <3>5
  <2> QED
    BY <2>1, <2>2
<1>17. \A e \in ElementOf : View(doc)[e] = FlattenSeq(Mapped(g, Standalone(doc, e)))
  BY DEF View, g
<1>18. ASSUME NEW n \in Positions(doc) PROVE View(doc)[doc.elements[n]] = h[parts[n]] /\ h[parts[n]] \in T
  <2>1. doc.elements[n] \in ElementOf /\ Standalone(doc, doc.elements[n]) \in Seq(SightOf)
    BY ImagesBare, StandaloneIs
  <2>2. h[Standalone(doc, doc.elements[n])] = FlattenSeq(Mapped(g, Standalone(doc, doc.elements[n])))
    BY <2>1 DEF h
  <2>3. View(doc)[doc.elements[n]] = FlattenSeq(Mapped(g, Standalone(doc, doc.elements[n])))
    BY <1>17, <2>1
  <2>4. parts[n] \in Seq(SightOf)
    BY <1>3, <2>1
  <2>5. h[parts[n]] \in Seq(SightOf)
    BY <1>13, <2>4
  <2> QED
    BY <1>3, <2>2, <2>3, <2>5
<1>19. views = Mapped(h, parts)
  <2>1. views = [n \in Positions(doc) |-> View(doc)[doc.elements[n]]]
    BY DEF Mapped, Positions
  <2>2. Mapped(h, parts) = [n \in Positions(doc) |-> h[parts[n]]]
    BY <1>4 DEF Mapped
  <2> HIDE DEF views
  <2> QED
    BY <1>18, <2>1, <2>2
<1>20. views \in Seq(T)
  <2>1. views = [n \in 1 .. Len(doc.elements) |-> View(doc)[doc.elements[n]]]
    BY <1>1 DEF Mapped, Positions
  <2>2. \A n \in 1 .. Len(doc.elements) : View(doc)[doc.elements[n]] \in T
    BY <1>1, <1>18
  <2> HIDE DEF T, views
  <2> QED
    BY <1>1, <2>1, <2>2
<1> QED
  BY <1>5, <1>6, <1>10, <1>11, <1>14, <1>15, <1>16, <1>19, <1>20 DEF head, views

(* Where a body is seen, and how often. *)
LEMMA ShownIf ==
  ASSUME NEW doc, NEW S, WellFormed(doc, S), NEW id
  PROVE  /\ RenderForPrompt(doc) \in Seq(SightOf)
         /\ Sight("body", id) \in ToSet(RenderForPrompt(doc)) <=>
              \E n \in Positions(doc) :
                /\ Alone(doc, doc.elements[n])
                /\ \/ doc.elements[n].id = id
                   \/ id \in Inlined(doc) /\ \E k \in DOMAIN doc.elements[n].refs : doc.elements[n].refs[k].to = id
<1> DEFINE views == Mapped(View(doc), doc.elements)
    head == Header(doc)
    all == FlattenSeq(views)
    x == Sight("body", id)
<1>1. views \in Seq(Seq(SightOf)) /\ head \in Seq(SightOf) /\ RenderForPrompt(doc) = head \o all
  BY RenderedIs
<1>2. Positions(doc) = 1 .. Len(views) /\ \A n \in Positions(doc) : views[n] = View(doc)[doc.elements[n]]
  <2>1. doc.elements \in Seq(ElementOf)
    BY DEF WellFormed
  <2>2. Len(views) = Len(doc.elements) /\ \A n \in 1 .. Len(doc.elements) : views[n] = View(doc)[doc.elements[n]]
    BY <2>1, MappedLen
  <2>3. Positions(doc) = 1 .. Len(doc.elements)
    BY <2>1 DEF Positions
  <2> HIDE DEF views
  <2> QED
    BY <2>2, <2>3
<1>3. x \notin ToSet(head)
  <2>1. \A w, v, i, j : Sight(w, i) = Sight(v, j) <=> w = v /\ i = j
    BY DEF Sight
  <2>2. \A y : ToSet(<<y>>) = {y}
    BY DEF ToSet
  <2>3. ToSet(<<>>) = {}
    BY DEF ToSet
  <2>4. head = <<>> \/ head = <<Sight("title", BridgeId)>>
    BY DEF Header
  <2> HIDE DEF head
  <2> QED
    BY <2>1, <2>2, <2>3, <2>4
<1> HIDE DEF views, head
<1>4. all \in Seq(SightOf)
  BY <1>1, FlattenIn
<1>5. x \in ToSet(all) <=> \E n \in 1 .. Len(views) : x \in ToSet(views[n])
  BY <1>1, FlattenMembers
<1> HIDE DEF all
<1>6. ToSet(head \o all) = ToSet(head) \cup ToSet(all) /\ head \o all \in Seq(SightOf)
  BY <1>1, <1>4, JoinedMembers, JoinedIn
<1>7. ASSUME NEW n \in Positions(doc)
      PROVE  x \in ToSet(views[n]) <=>
                /\ Alone(doc, doc.elements[n])
                /\ \/ doc.elements[n].id = id
                   \/ id \in Inlined(doc) /\ \E k \in DOMAIN doc.elements[n].refs : doc.elements[n].refs[k].to = id
  <2>1. doc.elements[n] \in ElementOf /\ (doc.elements[n].kind = "image" => doc.elements[n].refs = <<>>)
    BY ImagesBare
  <2>2. views[n] = View(doc)[doc.elements[n]]
    BY <1>2
  <2> QED
    BY <2>1, <2>2, ViewIs
<1>8. x \in ToSet(RenderForPrompt(doc)) <=> \E n \in Positions(doc) : x \in ToSet(views[n])
  BY <1>1, <1>2, <1>3, <1>5, <1>6
<1> QED
  BY <1>1, <1>6, <1>7, <1>8

LEMMA SeenIs ==
  ASSUME NEW doc, NEW S, WellFormed(doc, S), NEW id
  PROVE  /\ Seen(doc, id) = Len(Among(RenderForPrompt(doc), {Sight("body", id)}))
         /\ Seen(doc, id) = 0 <=> Sight("body", id) \notin ToSet(RenderForPrompt(doc))
<1> DEFINE out == RenderForPrompt(doc)
    x == Sight("body", id)
    some == Among(out, {x})
<1>1. out \in Seq(SightOf)
  BY ShownIf
<1>2. {k \in DOMAIN out : out[k] = x} = {k \in DOMAIN out : out[k] \in {x}}
  OBVIOUS
<1>3. Seen(doc, id) = Cardinality({k \in DOMAIN out : out[k] = x})
  BY DEF Seen
<1> HIDE DEF out, x
<1>4. Cardinality({k \in DOMAIN out : out[k] \in {x}}) = Len(some)
  BY <1>1, AmongCounted
<1>5. some \in Seq(SightOf) /\ ToSet(some) = ToSet(out) \cap {x}
  BY <1>1, AmongIn, AmongMembers
<1> HIDE DEF some
<1>6. Len(some) = 0 <=> ToSet(some) = {}
  <2>1. Len(some) = 0 => some = <<>>
    BY <1>5
  <2>2. ToSet(<<>>) = {}
    BY DEF ToSet
  <2>3. Len(some) # 0 => some[1] \in ToSet(some)
    BY <1>5 DEF ToSet
  <2> QED
    BY <2>1, <2>2, <2>3
<1> QED
  BY <1>2, <1>3, <1>4, <1>5, <1>6 DEF out, x, some

LEMMA ViewOnce ==
  ASSUME NEW doc, NEW S, WellFormed(doc, S), NEW e \in ElementOf, e.kind = "image" => e.refs = <<>>,
         e.id \notin InlineIds(doc)
  PROVE  Len(Among(View(doc)[e], {Sight("body", e.id)})) = 1
<1> DEFINE g == Into(doc)
    x == Sight("body", e.id)
    one == <<x>>
    rest == [r \in DOMAIN e.refs |-> Sight("ref", e.refs[r].to)]
    m == Mapped(g, rest)
    more == FlattenSeq(m)
    s == Standalone(doc, e)
<1>1. e.refs \in Seq(RefOf) /\ x \in SightOf
  BY DEF ElementOf, Sight, SightOf
<1>2. s = one \o rest
  <2>1. CASE e.kind = "image"
    <3>1. s = one /\ rest = <<>>
      BY <2>1 DEF Standalone, Inline
    <3>2. one \in Seq(SightOf)
      BY <1>1
    <3> HIDE DEF one, rest, s
    <3> QED
      BY <3>1, <3>2, JoinedNothing
  <2>2. CASE e.kind # "image"
    BY <2>2 DEF Standalone, Html
  <2> QED
    BY <2>1, <2>2
<1>3. rest \in Seq(SightOf)
  <2> SUFFICES ASSUME NEW k \in DOMAIN e.refs PROVE Sight("ref", e.refs[k].to) \in SightOf
    BY <1>1
  <2>1. e.refs[k] \in RefOf
    BY <1>1
  <2> QED
    BY <2>1 DEF RefOf, Sight, SightOf
<1>4. \A k \in 1 .. Len(rest) : \E i : rest[k] = Sight("ref", i)
  BY <1>3
<1>5. one \in Seq(SightOf) /\ g[x] = one
  BY <1>1 DEF Into, Sight
<1>6. \A y \in SightOf :
        /\ g[y] \in Seq(SightOf)
        /\ \A id : Sight("body", id) \in ToSet(g[y]) <=>
             y = Sight("body", id) \/ (y = Sight("ref", id) /\ id \in Inlined(doc))
  BY IntoIs
<1>7. Mapped(g, one) = <<one>>
  <2>1. Mapped(g, one) = <<g[x]>>
    BY DEF Mapped
  <2> QED
    BY <1>5, <2>1
<1>8. View(doc)[e] = FlattenSeq(Mapped(g, s))
  BY DEF View
<1>9. e.id \notin Inlined(doc)
  BY DEF Inlined
<1>10. \A w, v, i, j : Sight(w, i) = Sight(v, j) <=> w = v /\ i = j
  BY DEF Sight
<1>11. Among(one, {x}) = one
  <2>1. \A n \in 1 .. Len(one) : one[n] \in {x}
    OBVIOUS
  <2> HIDE DEF one
  <2> QED
    BY <1>5, <2>1, AllAmong
<1>12. Len(one) = 1
  OBVIOUS
<1> HIDE DEF s, rest, one, g
<1>13. m \in Seq(Seq(SightOf)) /\ Len(m) = Len(rest) /\ \A n \in 1 .. Len(rest) : m[n] = g[rest[n]]
  BY <1>3, <1>6 DEF Mapped
<1>14. Mapped(g, s) = <<one>> \o m
  <2>1. Mapped(g, one \o rest) = Mapped(g, one) \o Mapped(g, rest)
    BY <1>3, <1>5, MappedJoined
  <2> QED
    BY <1>2, <1>7, <2>1
<1> HIDE DEF m
<1>15. more \in Seq(SightOf) /\ FlattenSeq(<<one>> \o m) = one \o more
  <2>1. <<one>> \in Seq(Seq(SightOf)) /\ FlattenSeq(<<one>>) = one
    BY <1>5, FlattenOne
  <2> QED
    BY <1>13, <2>1, FlattenIn, FlattenJoined
<1>16. x \notin ToSet(more)
  <2>1. \A y : y \in ToSet(more) <=> \E n \in 1 .. Len(m) : y \in ToSet(m[n])
    BY <1>13, FlattenMembers
  <2>2. ASSUME NEW n \in 1 .. Len(m) PROVE x \notin ToSet(m[n])
    <3>1. rest[n] \in SightOf /\ \E i : rest[n] = Sight("ref", i)
      BY <1>3, <1>4, <1>13
    <3> QED
      BY <1>6, <1>9, <1>10, <1>13, <3>1
  <2> HIDE DEF x, more
  <2> QED
    BY <2>1, <2>2
<1> HIDE DEF more, x
<1>17. Among(one \o more, {x}) = Among(one, {x}) \o Among(more, {x})
  BY <1>5, <1>15, AmongJoined
<1>18. Among(more, {x}) = <<>>
  <2>1. \A n \in 1 .. Len(more) : more[n] \notin {x}
    BY <1>15, <1>16 DEF ToSet
  <2> QED
    BY <1>15, <2>1, NoneAmong
<1>19. one \o <<>> = one
  BY <1>5
<1>20. Among(View(doc)[e], {x}) = one
  BY <1>8, <1>11, <1>14, <1>15, <1>17, <1>18, <1>19
<1> QED
  BY <1>12, <1>20 DEF x

LEMMA SeenOnce ==
  ASSUME NEW doc, NEW S, WellFormed(doc, S), NEW n \in Positions(doc),
         doc.elements[n].id # BridgeId, doc.elements[n].id \notin InlineIds(doc)
  PROVE  Seen(doc, doc.elements[n].id) = 1
<1> DEFINE e == doc.elements[n]
    views == Mapped(View(doc), doc.elements)
    head == Header(doc)
    all == FlattenSeq(views)
    x == Sight("body", e.id)
<1>1. views \in Seq(Seq(SightOf)) /\ head \in Seq(SightOf) /\ RenderForPrompt(doc) = head \o all
  BY RenderedIs
<1>2. Positions(doc) = 1 .. Len(views) /\ \A k \in Positions(doc) : views[k] = View(doc)[doc.elements[k]]
  <2>1. doc.elements \in Seq(ElementOf)
    BY DEF WellFormed
  <2>2. Len(views) = Len(doc.elements) /\ \A k \in 1 .. Len(doc.elements) : views[k] = View(doc)[doc.elements[k]]
    BY <2>1, MappedLen
  <2>3. Positions(doc) = 1 .. Len(doc.elements)
    BY <2>1 DEF Positions
  <2> HIDE DEF views
  <2> QED
    BY <2>2, <2>3
<1>3. Among(head, {x}) = <<>>
  <2>1. \A k \in 1 .. Len(head) : head[k] \notin {x}
    <3>1. Sight("title", BridgeId) # x
      BY DEF Sight
    <3>2. head = <<>> \/ head = <<Sight("title", BridgeId)>>
      BY DEF Header
    <3> HIDE DEF head, x
    <3> QED
      BY <3>1, <3>2
  <2> QED
    BY <1>1, <2>1, NoneAmong
<1>4. Seen(doc, e.id) = Len(Among(RenderForPrompt(doc), {x}))
  BY SeenIs
<1>5. ASSUME NEW k \in Positions(doc), k # n PROVE x \notin ToSet(views[k])
  <2>1. doc.elements[k] \in ElementOf /\ (doc.elements[k].kind = "image" => doc.elements[k].refs = <<>>)
    BY ImagesBare
  <2>2. doc.elements[k].id # e.id
    BY <1>5 DEF WellFormed, UniqueIds
  <2>3. e.id \notin Inlined(doc)
    BY DEF Inlined
  <2>4. x \notin ToSet(View(doc)[doc.elements[k]])
    BY <2>1, <2>2, <2>3, ViewIs
  <2> QED
    BY <1>2, <2>4
<1>6. Len(Among(View(doc)[e], {x})) = 1
  BY ImagesBare, ViewOnce
<1>7. n \in 1 .. Len(views) /\ views[n] = View(doc)[e]
  BY <1>2
<1> HIDE DEF views, head, x
<1>8. all \in Seq(SightOf)
  BY <1>1, FlattenIn
<1>9. \A k \in 1 .. Len(views) : k # n => Among(views[k], {x}) = <<>>
  <2> SUFFICES ASSUME NEW k \in 1 .. Len(views), k # n PROVE Among(views[k], {x}) = <<>>
    OBVIOUS
  <2>1. views[k] \in Seq(SightOf) /\ x \notin ToSet(views[k])
    <3> DEFINE T == Seq(SightOf)
    <3>1. views \in Seq(T)
      BY <1>1
    <3> HIDE DEF T
    <3>2. views[k] \in T
      BY <3>1
    <3> QED
      BY <1>2, <1>5, <3>2 DEF T
  <2>2. \A i \in 1 .. Len(views[k]) : views[k][i] \notin {x}
    BY <2>1 DEF ToSet
  <2> QED
    BY <2>1, <2>2, NoneAmong
<1>10. Among(all, {x}) = Among(views[n], {x})
  BY <1>1, <1>7, <1>9, AmongSingle
<1> HIDE DEF all
<1>11. Among(head \o all, {x}) = Among(head, {x}) \o Among(all, {x})
  BY <1>1, <1>8, AmongJoined
<1>12. Among(all, {x}) \in Seq(SightOf)
  BY <1>8, AmongIn
<1>13. <<>> \o Among(all, {x}) = Among(all, {x})
  BY <1>12
<1>14. Seen(doc, e.id) = 1
  BY <1>1, <1>3, <1>4, <1>6, <1>7, <1>10, <1>11, <1>13
<1> QED
  BY <1>14

EverythingShownOf(doc) ==
  \A n \in Positions(doc) :
    LET e == doc.elements[n]
    IN /\ Seen(doc, e.id) = 0 <=> Nested(doc, e)
       /\ e.id \notin InlineIds(doc) => Seen(doc, e.id) = 1

LEMMA AllShown ==
  ASSUME NEW doc, NEW S, WellFormed(doc, S), \A n \in Positions(doc) : doc.elements[n].id # BridgeId
  PROVE  EverythingShownOf(doc)
<1> SUFFICES ASSUME NEW n \in Positions(doc)
             PROVE  LET e == doc.elements[n]
                    IN /\ Seen(doc, e.id) = 0 <=> Nested(doc, e)
                       /\ e.id \notin InlineIds(doc) => Seen(doc, e.id) = 1
  BY DEF EverythingShownOf
<1> DEFINE e == doc.elements[n]
<1>1. e.id \notin InlineIds(doc) => Seen(doc, e.id) = 1
  BY SeenOnce
<1>2. Seen(doc, e.id) = 0 <=>
        ~\E m \in Positions(doc) :
                /\ Alone(doc, doc.elements[m])
                /\ \/ doc.elements[m].id = e.id
                   \/ e.id \in Inlined(doc) /\ \E k \in DOMAIN doc.elements[m].refs : doc.elements[m].refs[k].to = e.id
  <2> DEFINE id == e.id
  <2> HIDE DEF e, id
  <2>1. Seen(doc, id) = 0 <=> Sight("body", id) \notin ToSet(RenderForPrompt(doc))
    BY SeenIs
  <2> QED
    BY <2>1, ShownIf DEF id
<1>3. e.id \in Inlined(doc) <=> e.id \in InlineIds(doc)
  BY DEF Inlined, IdsOf
<1>4. \A m \in Positions(doc) : doc.elements[m].id = e.id => m = n
  BY DEF WellFormed, UniqueIds
<1>5. \A m \in Positions(doc) : e.id \in {r.to : r \in Range(doc.elements[m].refs)} <=>
         \E k \in DOMAIN doc.elements[m].refs : doc.elements[m].refs[k].to = e.id
  BY DEF Range
<1>6. Nested(doc, e) <=> /\ ~Alone(doc, e)
                         /\ \A m \in Positions(doc) :
                              (\E k \in DOMAIN doc.elements[m].refs : doc.elements[m].refs[k].to = e.id) =>
                                ~Alone(doc, doc.elements[m])
  BY <1>5 DEF Nested, Alone
<1>7. Seen(doc, e.id) = 0 <=> Nested(doc, e)
  <2>1. ~Alone(doc, e) => e.id \in Inlined(doc)
    BY <1>3 DEF Alone
  <2>2. doc.elements[n] = e
    OBVIOUS
  <2> HIDE DEF e
  <2> QED
    BY <1>2, <1>4, <1>6, <2>1, <2>2
<1> QED
  BY <1>1, <1>7

ShownInOnePlaceOf(doc) ==
  \A n \in Positions(doc) :
    LET e == doc.elements[n]
        alone == Standalone(doc, e) # <<>>
    IN /\ e.kind # "heading" => (alone <=> e.id \notin InlineIds(doc))
       /\ e.kind = "footnote" /\ alone => n \in OrphanedFootnotes(doc)

LEMMA InOnePlace ==
  ASSUME NEW doc, NEW S, WellFormed(doc, S)
  PROVE  ShownInOnePlaceOf(doc)
<1> SUFFICES ASSUME NEW n \in Positions(doc)
             PROVE  LET e == doc.elements[n]
                        alone == Standalone(doc, e) # <<>>
                    IN /\ e.kind # "heading" => (alone <=> e.id \notin InlineIds(doc))
                       /\ e.kind = "footnote" /\ alone => n \in OrphanedFootnotes(doc)
  BY DEF ShownInOnePlaceOf
<1> DEFINE e == doc.elements[n]
    Notes == {r \in UNION {Range(doc.elements[m].refs) : m \in Positions(doc)} : r.rel = "footnote"}
<1>1. Standalone(doc, e) # <<>> <=> Alone(doc, e)
  BY ImagesBare, StandaloneIs
<1>2. ASSUME NEW r \in Notes PROVE r.to \in InlineIds(doc)
  BY <1>2 DEF InlineIds, KnownRefs
<1>3. ASSUME e.kind = "footnote", e.id \notin InlineIds(doc) PROVE n \in OrphanedFootnotes(doc)
  <2>1. e.id \notin {r.to : r \in Notes}
    BY <1>2, <1>3
  <2> QED
    BY <1>3, <2>1 DEF OrphanedFootnotes
<1>4. e.kind # "heading" => (Alone(doc, e) <=> e.id \notin InlineIds(doc))
  BY DEF Alone
<1>5. e.kind = "footnote" /\ Alone(doc, e) => n \in OrphanedFootnotes(doc)
  BY <1>3 DEF Alone
<1> QED
  BY <1>1, <1>4, <1>5

(* An ordinal is the position of the element, 0 if there is none. *)
LEMMA OrdinalIs ==
  ASSUME NEW doc, NEW S, WellFormed(doc, S), \A n \in Positions(doc) : doc.elements[n].id # BridgeId, NEW id
  PROVE  /\ Ordinal(doc, id) \in Positions(doc) \cup {0}
         /\ \A m \in Positions(doc) : Ordinal(doc, id) = m <=> id = doc.elements[m].id
<1>1. Positions(doc) \subseteq Nat \ {0}
  BY DEF WellFormed, Positions
<1>2. CASE OrdinalsFrom(doc, id) = {}
  <2>1. Ordinal(doc, id) = 0
    BY <1>2 DEF Ordinal
  <2>2. \A m \in Positions(doc) : id # doc.elements[m].id
    BY <1>2 DEF OrdinalsFrom
  <2> QED
    BY <1>1, <2>1, <2>2
<1>3. CASE OrdinalsFrom(doc, id) # {}
  <2>1. PICK m \in Positions(doc) : doc.elements[m].id = id
    BY <1>3 DEF OrdinalsFrom
  <2>2. OrdinalsFrom(doc, id) = {m}
    BY <2>1 DEF OrdinalsFrom, WellFormed, UniqueIds
  <2>3. m <= m
    BY <1>1
  <2>4. Ordinal(doc, id) = CHOOSE n \in {m} : \A k \in {m} : k <= n
    BY <2>2 DEF Ordinal
  <2>5. (CHOOSE n \in {m} : \A k \in {m} : k <= n) = m
    BY <2>3
  <2>6. Ordinal(doc, id) = m
    BY <2>4, <2>5
  <2> QED
    BY <2>1, <2>6 DEF WellFormed, UniqueIds
<1> QED
  BY <1>2, <1>3

SameRefs(a, b, e, f) ==
  /\ Len(e.refs) = Len(f.refs)
  /\ \A k \in DOMAIN e.refs :
       /\ e.refs[k].rel = f.refs[k].rel
       /\ \A m \in Positions(a) : e.refs[k].to = a.elements[m].id <=> f.refs[k].to = b.elements[m].id

LEMMA RefsAgree ==
  ASSUME NEW a, NEW b, NEW S, NEW T, WellFormed(a, S), WellFormed(b, T),
         \A n \in Positions(a) : a.elements[n].id # BridgeId,
         \A n \in Positions(b) : b.elements[n].id # BridgeId,
         Positions(a) = Positions(b), NEW e \in ElementOf, NEW f \in ElementOf
  PROVE  NormalizeRefIds(a, e.refs) = NormalizeRefIds(b, f.refs) <=> SameRefs(a, b, e, f)
<1> DEFINE x == NormalizeRefIds(a, e.refs)
    y == NormalizeRefIds(b, f.refs)
<1>1. e.refs \in Seq(RefOf) /\ f.refs \in Seq(RefOf)
  BY DEF ElementOf
<1>2. /\ DOMAIN x = DOMAIN e.refs /\ \A k \in DOMAIN e.refs : x[k] = <<Ordinal(a, e.refs[k].to), e.refs[k].rel>>
      /\ DOMAIN y = DOMAIN f.refs /\ \A k \in DOMAIN f.refs : y[k] = <<Ordinal(b, f.refs[k].to), f.refs[k].rel>>
      /\ x = [k \in DOMAIN e.refs |-> x[k]] /\ y = [k \in DOMAIN f.refs |-> y[k]]
  BY DEF NormalizeRefIds
<1> HIDE DEF x, y
<1>3. DOMAIN e.refs = DOMAIN f.refs <=> Len(e.refs) = Len(f.refs)
  <2>1. DOMAIN e.refs = 1 .. Len(e.refs) /\ DOMAIN f.refs = 1 .. Len(f.refs)
        /\ Len(e.refs) \in Nat /\ Len(f.refs) \in Nat
    BY <1>1
  <2>2. \A i, j \in Nat : 1 .. i = 1 .. j => i = j
    <3> SUFFICES ASSUME NEW i \in Nat, NEW j \in Nat, i < j, 1 .. i = 1 .. j PROVE FALSE
      OBVIOUS
    <3>1. j \in 1 .. j /\ j \notin 1 .. i
      OBVIOUS
    <3> QED
      BY <3>1
  <2> QED
    BY <2>1, <2>2
<1>4. ASSUME NEW i, NEW j
      PROVE  Ordinal(a, i) = Ordinal(b, j) <=> \A m \in Positions(a) : i = a.elements[m].id <=> j = b.elements[m].id
  <2>1. /\ Ordinal(a, i) \in Positions(a) \cup {0}
        /\ \A m \in Positions(a) : Ordinal(a, i) = m <=> i = a.elements[m].id
    BY OrdinalIs
  <2>2. /\ Ordinal(b, j) \in Positions(b) \cup {0}
        /\ \A m \in Positions(b) : Ordinal(b, j) = m <=> j = b.elements[m].id
    BY OrdinalIs
  <2> QED
    BY <2>1, <2>2
<1>5. x = y <=> DOMAIN x = DOMAIN y /\ \A k \in DOMAIN x : x[k] = y[k]
  BY <1>2
<1>6. \A p, q, r, s : <<p, q>> = <<r, s>> <=> p = r /\ q = s
  OBVIOUS
<1>7. ASSUME NEW k \in DOMAIN e.refs, DOMAIN e.refs = DOMAIN f.refs
      PROVE  x[k] = y[k] <=>
               /\ e.refs[k].rel = f.refs[k].rel
               /\ \A m \in Positions(a) : e.refs[k].to = a.elements[m].id <=> f.refs[k].to = b.elements[m].id
  <2>1. x[k] = <<Ordinal(a, e.refs[k].to), e.refs[k].rel>> /\ y[k] = <<Ordinal(b, f.refs[k].to), f.refs[k].rel>>
    BY <1>2, <1>7
  <2>2. x[k] = y[k] <=> Ordinal(a, e.refs[k].to) = Ordinal(b, f.refs[k].to) /\ e.refs[k].rel = f.refs[k].rel
    BY <2>1
  <2> QED
    BY <1>4, <2>2
<1> QED
  BY <1>2, <1>3, <1>5, <1>7 DEF SameRefs, x, y

LEMMA HashOfTwo ==
  ASSUME NEW a, NEW b, NEW S, NEW T, WellFormed(a, S), WellFormed(b, T),
         \A n \in Positions(a) : a.elements[n].id # BridgeId,
         \A n \in Positions(b) : b.elements[n].id # BridgeId
  PROVE  ContentPayload(a) = ContentPayload(b) <=> EqualContent(a, b)
<1> DEFINE x == [n \in Positions(a) |-> ElementPayload(a, a.elements[n])]
    y == [n \in Positions(b) |-> ElementPayload(b, b.elements[n])]
    Same(n) == /\ a.elements[n].kind = b.elements[n].kind
               /\ a.elements[n].body = b.elements[n].body
               /\ SameRefs(a, b, a.elements[n], b.elements[n])
<1>1. ContentPayload(a) = ContentPayload(b) <=> a.title = b.title /\ x = y
  BY DEF ContentPayload
<1>2. Positions(a) = 1 .. Len(a.elements) /\ Positions(b) = 1 .. Len(b.elements)
      /\ Len(a.elements) \in Nat /\ Len(b.elements) \in Nat
  BY DEF WellFormed, Positions
<1>3. Positions(a) = Positions(b) <=> Len(a.elements) = Len(b.elements)
  <2>2. \A i, j \in Nat : 1 .. i = 1 .. j => i = j
    <3> SUFFICES ASSUME NEW i \in Nat, NEW j \in Nat, i < j, 1 .. i = 1 .. j PROVE FALSE
      OBVIOUS
    <3>1. j \in 1 .. j /\ j \notin 1 .. i
      OBVIOUS
    <3> QED
      BY <3>1
  <2> QED
    BY <1>2, <2>2
<1>4. x = y <=> Positions(a) = Positions(b) /\ \A n \in Positions(a) : x[n] = y[n]
  OBVIOUS
<1>5. ASSUME NEW n \in Positions(a), Positions(a) = Positions(b) PROVE x[n] = y[n] <=> Same(n)
  <2> DEFINE e == a.elements[n]
      f == b.elements[n]
      u == NormalizeRefIds(a, e.refs)
      v == NormalizeRefIds(b, f.refs)
  <2>1. e \in ElementOf /\ f \in ElementOf
    BY <1>5, ImagesBare
  <2>2. x[n] = <<e.kind, e.body, u>> /\ y[n] = <<f.kind, f.body, v>>
    BY <1>5 DEF ElementPayload
  <2>3. u = v <=> SameRefs(a, b, e, f)
    <3> HIDE DEF e, f
    <3> QED
      BY <1>5, <2>1, RefsAgree
  <2> HIDE DEF u, v, x, y
  <2>4. x[n] = y[n] <=> e.kind = f.kind /\ e.body = f.body /\ u = v
    BY <2>2
  <2> QED
    BY <2>3, <2>4
<1>6. EqualContent(a, b) <=> a.title = b.title /\ Len(a.elements) = Len(b.elements) /\ \A n \in Positions(a) : Same(n)
  BY DEF EqualContent, SameRefs
<1> HIDE DEF x, y, Same
<1> QED
  BY <1>1, <1>3, <1>4, <1>5, <1>6

(* What a document says of references, by its elements without their places. *)
LEMMA RefersToSet ==
  ASSUME NEW doc, NEW S, WellFormed(doc, S)
  PROVE  /\ \A n \in Positions(doc) : doc.elements[n] \in ToSet(doc.elements)
         /\ \A e \in ToSet(doc.elements) : \E n \in Positions(doc) : e = doc.elements[n]
         /\ \A id : id \in InlineIds(doc) <=>
              \E e \in ToSet(doc.elements) : \E k \in DOMAIN e.refs : e.refs[k].rel # "odd" /\ e.refs[k].to = id
         /\ \A id : id \in IdsOf(doc) <=> \E e \in ToSet(doc.elements) : e.id = id
         /\ \A e \in ToSet(doc.elements) : e.id # BridgeId => Named(doc, e.id) = e
<1>1. /\ \A n \in Positions(doc) : doc.elements[n] \in ToSet(doc.elements)
      /\ \A e \in ToSet(doc.elements) : \E n \in Positions(doc) : e = doc.elements[n]
  BY DEF ToSet, Positions
<1>2. \A id : id \in InlineIds(doc) <=>
              \E e \in ToSet(doc.elements) : \E k \in DOMAIN e.refs : e.refs[k].rel # "odd" /\ e.refs[k].to = id
  BY <1>1, RefersIf
<1>3. \A id : id \in IdsOf(doc) <=> \E e \in ToSet(doc.elements) : e.id = id
  BY <1>1 DEF IdsOf
<1>4. \A e \in ToSet(doc.elements) : e.id # BridgeId => Named(doc, e.id) = e
  BY <1>1, NamedIs
<1> QED
  BY <1>1, <1>2, <1>3, <1>4

(* All of a document is in another, and nothing else there is of its scope. *)
Holds(c, doc, S) ==
  /\ ToSet(doc.elements) \subseteq ToSet(c.elements)
  /\ \A e \in ToSet(c.elements) : e \notin ToSet(doc.elements) =>
       e.id[1] \notin S /\ \A k \in DOMAIN e.refs : e.refs[k].to[1] \notin S

LEMMA SameIn ==
  ASSUME NEW doc, NEW S, WellFormed(doc, S), NEW c, NEW U, WellFormed(c, U), Holds(c, doc, S),
         NEW id \in Ids, id[1] \in S
  PROVE  /\ id \in InlineIds(c) <=> id \in InlineIds(doc)
         /\ Substituted(InlineRendered(c), id) = Substituted(InlineRendered(doc), id)
<1>0. id # BridgeId
  BY DEF WellFormed, BridgeId, Uuid
<1>1. \A e \in ToSet(c.elements) : e.id = id \/ (\E k \in DOMAIN e.refs : e.refs[k].to = id) =>
         e \in ToSet(doc.elements)
  BY DEF Holds
<1>2. ToSet(doc.elements) \subseteq ToSet(c.elements)
  BY DEF Holds
<1>3. id \in InlineIds(c) <=> id \in InlineIds(doc)
  <2>1. id \in InlineIds(c) <=>
           \E e \in ToSet(c.elements) : \E k \in DOMAIN e.refs : e.refs[k].rel # "odd" /\ e.refs[k].to = id
    BY RefersToSet
  <2>2. id \in InlineIds(doc) <=>
           \E e \in ToSet(doc.elements) : \E k \in DOMAIN e.refs : e.refs[k].rel # "odd" /\ e.refs[k].to = id
    BY RefersToSet
  <2> QED
    BY <1>1, <1>2, <2>1, <2>2
<1>4. id \in IdsOf(c) <=> id \in IdsOf(doc)
  <2>1. id \in IdsOf(c) <=> \E e \in ToSet(c.elements) : e.id = id
    BY RefersToSet
  <2>2. id \in IdsOf(doc) <=> \E e \in ToSet(doc.elements) : e.id = id
    BY RefersToSet
  <2> QED
    BY <1>1, <1>2, <2>1, <2>2
<1>5. DOMAIN InlineRendered(c) = Inlined(c) /\ DOMAIN InlineRendered(doc) = Inlined(doc)
  BY DEF InlineRendered, Inlined
<1>6. id \in Inlined(c) <=> id \in Inlined(doc)
  BY <1>3, <1>4 DEF Inlined
<1>7. CASE id \in Inlined(doc)
  <2>1. PICK e \in ToSet(doc.elements) : e.id = id
    BY <1>7, RefersToSet DEF Inlined
  <2>2. Named(doc, id) = e
    BY <1>0, <2>1, RefersToSet
  <2>3. Named(c, id) = e
    BY <1>0, <1>2, <2>1, RefersToSet
  <2>4. InlineRendered(c)[id] = InlineRendered(doc)[id]
    <3>1. InlineRendered(c)[id] = Inline(Named(c, id))
      BY <1>6, <1>7, InlinedIs
    <3>2. InlineRendered(doc)[id] = Inline(Named(doc, id))
      BY <1>7, InlinedIs
    <3> QED
      BY <2>2, <2>3, <3>1, <3>2
  <2> QED
    BY <1>3, <1>5, <1>6, <1>7, <2>4 DEF Substituted
<1>8. CASE id \notin Inlined(doc)
  BY <1>3, <1>5, <1>6, <1>8 DEF Substituted
<1> QED
  BY <1>7, <1>8

LEMMA SameView ==
  ASSUME NEW doc, NEW S, WellFormed(doc, S), NEW c, NEW U, WellFormed(c, U), Holds(c, doc, S),
         NEW n \in Positions(doc)
  PROVE  View(c)[doc.elements[n]] = View(doc)[doc.elements[n]]
<1> DEFINE e == doc.elements[n]
    s == Standalone(doc, e)
    x == Mapped(Into(c), s)
    y == Mapped(Into(doc), s)
<1>1. e \in ElementOf /\ (e.kind = "image" => e.refs = <<>>)
  BY ImagesBare
<1>2. e.id \in InlineIds(c) <=> e.id \in InlineIds(doc)
  <2>1. CASE e.id = BridgeId
    BY <2>1, InlineIdsIn
  <2>2. CASE e.id # BridgeId
    <3>1. e.id[1] \in S /\ e.id \in Ids
      BY <1>1, <2>2 DEF WellFormed, OwnIds, ElementOf
    <3> QED
      BY <3>1, SameIn
  <2> QED
    BY <2>1, <2>2
<1>3. Standalone(c, e) = s
  BY <1>2 DEF Standalone
<1>4. /\ s \in Seq(SightOf)
      /\ \A z \in ToSet(s) : z = Sight("body", e.id) \/ \E k \in DOMAIN e.refs : z = Sight("ref", e.refs[k].to)
  BY <1>1, StandaloneIs
<1>5. ASSUME NEW k \in DOMAIN e.refs
      PROVE  Substituted(InlineRendered(c), e.refs[k].to) = Substituted(InlineRendered(doc), e.refs[k].to)
  <2>1. e.refs[k].to[1] \in S
    BY DEF WellFormed, OwnIds
  <2>2. e.refs[k].to \in Ids
    <3>1. e.refs[k] \in RefOf
      BY <1>1 DEF ElementOf
    <3> QED
      BY <3>1 DEF RefOf
  <2> QED
    BY <2>1, <2>2, SameIn
<1>6. \A w, i : Sight(w, i).what = w /\ Sight(w, i).of = i
  BY DEF Sight
<1>7. /\ View(c)[e] = FlattenSeq(Mapped(Into(c), Standalone(c, e)))
      /\ View(doc)[e] = FlattenSeq(y)
  BY <1>1 DEF View
<1> HIDE DEF e, s
<1>8. ASSUME NEW z \in SightOf, z \in ToSet(s) PROVE Into(c)[z] = Into(doc)[z]
  <2>1. CASE z = Sight("body", e.id)
    <3>1. z.what # "ref"
      BY <1>6, <2>1
    <3> QED
      BY <3>1 DEF Into
  <2>2. CASE \E k \in DOMAIN e.refs : z = Sight("ref", e.refs[k].to)
    <3>1. PICK k \in DOMAIN e.refs : z = Sight("ref", e.refs[k].to)
      BY <2>2
    <3>2. z.what = "ref" /\ z.of = e.refs[k].to
      BY <1>6, <3>1
    <3>3. Into(c)[z] = Substituted(InlineRendered(c), z.of) /\ Into(doc)[z] = Substituted(InlineRendered(doc), z.of)
      BY <3>2 DEF Into
    <3> QED
      BY <1>5, <3>2, <3>3
  <2> QED
    BY <1>4, <1>8, <2>1, <2>2
<1>9. x = y
  <2>1. \A k \in DOMAIN s : s[k] \in SightOf /\ s[k] \in ToSet(s)
    BY <1>4 DEF ToSet
  <2>2. \A k \in DOMAIN s : Into(c)[s[k]] = Into(doc)[s[k]]
    BY <1>8, <2>1
  <2>3. x = [k \in DOMAIN s |-> Into(c)[s[k]]] /\ y = [k \in DOMAIN s |-> Into(doc)[s[k]]]
    BY DEF Mapped
  <2> HIDE DEF x, y
  <2> QED
    BY <2>2, <2>3
<1>10. Mapped(Into(c), Standalone(c, e)) = x
  BY <1>3
<1> HIDE DEF x, y
<1> QED
  BY <1>7, <1>9, <1>10 DEF e

(* Elements of two documents one after the other. *)
OwnIn(els, S) ==
  \A n \in DOMAIN els :
    /\ els[n].id # BridgeId => els[n].id[1] \in S
    /\ els[n].id = BridgeId => els[n].kind = "heading" /\ els[n].refs = <<>>
    /\ \A k \in DOMAIN els[n].refs : els[n].refs[k].to[1] \in S
    /\ els[n].kind = "image" => els[n].refs = <<>>

UniqueIn(els) ==
  \A n, m \in DOMAIN els : els[n].id = els[m].id /\ els[n].id # BridgeId => n = m

LEMMA TogetherIn ==
  ASSUME NEW S, NEW T, S \cap T = {}, NEW x \in Seq(ElementOf), NEW y \in Seq(ElementOf),
         OwnIn(x, S), OwnIn(y, T), UniqueIn(x), UniqueIn(y)
  PROVE  x \o y \in Seq(ElementOf) /\ OwnIn(x \o y, S \cup T) /\ UniqueIn(x \o y)
<1> DEFINE z == x \o y
    L == Len(x)
<1>1. /\ z \in Seq(ElementOf) /\ DOMAIN z = 1 .. Len(z) /\ DOMAIN x = 1 .. L /\ DOMAIN y = 1 .. Len(y)
      /\ L \in Nat /\ Len(z) \in Nat
  <2>1. z \in Seq(ElementOf)
    BY JoinedIn
  <2> HIDE DEF z
  <2> QED
    BY <2>1
<1>2. /\ \A k \in DOMAIN x : z[k] = x[k]
      /\ \A k \in DOMAIN z : k \notin DOMAIN x => k - L \in DOMAIN y /\ z[k] = y[k - L]
  <2>1. /\ \A k \in 1 .. Len(x) : z[k] = x[k]
        /\ \A k \in 1 .. Len(z) : k \notin 1 .. Len(x) => k - Len(x) \in 1 .. Len(y) /\ z[k] = y[k - Len(x)]
    BY Concatenated
  <2> HIDE DEF z
  <2> QED
    BY <1>1, <2>1
<1> HIDE DEF z
<1>3. OwnIn(z, S \cup T)
  <2> SUFFICES ASSUME NEW n \in DOMAIN z
               PROVE  /\ z[n].id # BridgeId => z[n].id[1] \in S \cup T
                      /\ z[n].id = BridgeId => z[n].kind = "heading" /\ z[n].refs = <<>>
                      /\ \A k \in DOMAIN z[n].refs : z[n].refs[k].to[1] \in S \cup T
                      /\ z[n].kind = "image" => z[n].refs = <<>>
    BY DEF OwnIn
  <2>1. CASE n \in DOMAIN x
    BY <1>2, <2>1 DEF OwnIn
  <2>2. CASE n \notin DOMAIN x
    <3> DEFINE m == n - L
    <3>1. m \in DOMAIN y /\ z[n] = y[m]
      BY <1>2, <2>2
    <3> HIDE DEF m
    <3> QED
      BY <3>1 DEF OwnIn
  <2> QED
    BY <2>1, <2>2
<1>4. UniqueIn(z)
  <2> SUFFICES ASSUME NEW n \in DOMAIN z, NEW m \in DOMAIN z, z[n].id = z[m].id, z[n].id # BridgeId
               PROVE  n = m
    BY DEF UniqueIn
  <2>1. CASE n \in DOMAIN x /\ m \in DOMAIN x
    BY <1>2, <2>1 DEF UniqueIn
  <2>2. CASE n \notin DOMAIN x /\ m \notin DOMAIN x
    <3> DEFINE i == n - L
        j == m - L
    <3>1. i \in DOMAIN y /\ j \in DOMAIN y /\ z[n] = y[i] /\ z[m] = y[j]
      BY <1>2, <2>2
    <3>2. i = j => n = m
      BY <1>1
    <3> HIDE DEF i, j
    <3>3. i = j
      BY <3>1 DEF UniqueIn
    <3> QED
      BY <3>2, <3>3
  <2>3. ASSUME NEW i \in DOMAIN z, NEW j \in DOMAIN z, i \in DOMAIN x, j \notin DOMAIN x,
               z[i].id = z[j].id, z[i].id # BridgeId
        PROVE  FALSE
    <3> DEFINE o == j - L
    <3>1. z[i] = x[i] /\ o \in DOMAIN y /\ z[j] = y[o]
      BY <1>2, <2>3
    <3> HIDE DEF o
    <3>2. x[i].id[1] \in S
      BY <2>3, <3>1 DEF OwnIn
    <3>3. y[o].id[1] \in T
      BY <2>3, <3>1 DEF OwnIn
    <3> QED
      BY <2>3, <3>1, <3>2, <3>3
  <2> QED
    BY <2>1, <2>2, <2>3
<1> QED
  BY <1>1, <1>3, <1>4 DEF z

LEMMA WellFormedIs ==
  ASSUME NEW doc, NEW S
  PROVE  WellFormed(doc, S) <=>
           /\ S \subseteq Nat \ {0}
           /\ doc.title \in Names /\ doc.elements \in Seq(ElementOf)
           /\ OwnIn(doc.elements, S) /\ UniqueIn(doc.elements)
BY DEF WellFormed, OwnIds, UniqueIds, OwnIn, UniqueIn, Positions

LEMMA BridgeIs ==
  ASSUME NEW a, NEW b, a.title \in Names, b.title \in Names
  PROVE  LET both == a.title # "" /\ b.title # ""
             e == [id |-> BridgeId, kind |-> "heading", body |-> b.title, refs |-> <<>>]
         IN /\ Bridge(a, b) \in Seq(ElementOf)
            /\ OwnIn(Bridge(a, b), {}) /\ UniqueIn(Bridge(a, b))
            /\ both => Bridge(a, b) = <<e>> /\ e \in ElementOf
            /\ ~both => Bridge(a, b) = <<>>
            /\ \A x \in ToSet(Bridge(a, b)) : x.id = BridgeId /\ x.refs = <<>>
<1> DEFINE both == a.title # "" /\ b.title # ""
    e == [id |-> BridgeId, kind |-> "heading", body |-> b.title, refs |-> <<>>]
    br == Bridge(a, b)
<1>1. (both => br = <<e>>) /\ (~both => br = <<>>)
  BY DEF Bridge
<1>2. e \in ElementOf /\ e.id = BridgeId /\ e.kind = "heading" /\ e.refs = <<>>
  <2>1. <<>> \in Seq(RefOf) /\ BridgeId \in Ids /\ b.title \in Words
    BY DEF BridgeId, Uuid, Ids, Words
  <2> QED
    BY <2>1 DEF ElementOf
<1> HIDE DEF br, e
<1>3. \A n \in DOMAIN br : n = 1 /\ br[n] = e
  <2>1. CASE both
    <3>1. br = <<e>>
      BY <1>1, <2>1
    <3> QED
      BY <3>1
  <2>2. CASE ~both
    <3>1. br = <<>>
      BY <1>1, <2>2
    <3> QED
      BY <3>1
  <2> QED
    BY <2>1, <2>2
<1>4. br \in Seq(ElementOf)
  <2>1. <<e>> \in Seq(ElementOf) /\ <<>> \in Seq(ElementOf)
    BY <1>2
  <2>2. br = <<e>> \/ br = <<>>
    BY <1>1
  <2> QED
    BY <2>1, <2>2
<1>5. OwnIn(br, {})
  BY <1>2, <1>3 DEF OwnIn
<1>6. UniqueIn(br)
  BY <1>3 DEF UniqueIn
<1>7. \A x \in ToSet(br) : x.id = BridgeId /\ x.refs = <<>>
  BY <1>2, <1>3 DEF ToSet
<1>8. both => br = <<e>> /\ e \in ElementOf
  BY <1>1, <1>2
<1> QED
  BY <1>1, <1>4, <1>5, <1>6, <1>7, <1>8 DEF br, e

LEMMA ConcatIs ==
  ASSUME NEW a, NEW b, NEW S, NEW T, WellFormed(a, S), WellFormed(b, T), S \cap T = {}
  PROVE  /\ WellFormed(Concat(a, b), S \cup T)
         /\ Holds(Concat(a, b), a, S) /\ Holds(Concat(a, b), b, T)
         /\ Concat(a, b).elements = (a.elements \o Bridge(a, b)) \o b.elements
<1> DEFINE c == Concat(a, b)
    br == Bridge(a, b)
    x == a.elements
    y == b.elements
    z == (x \o br) \o y
<1>1. c.elements = z /\ c.title = (IF a.title # "" THEN a.title ELSE b.title)
  BY DEF Concat
<1>2. /\ S \subseteq Nat \ {0} /\ a.title \in Names /\ x \in Seq(ElementOf) /\ OwnIn(x, S) /\ UniqueIn(x)
      /\ T \subseteq Nat \ {0} /\ b.title \in Names /\ y \in Seq(ElementOf) /\ OwnIn(y, T) /\ UniqueIn(y)
  BY WellFormedIs
<1>3. /\ br \in Seq(ElementOf) /\ OwnIn(br, {}) /\ UniqueIn(br)
      /\ \A e \in ToSet(br) : e.id = BridgeId /\ e.refs = <<>>
  BY <1>2, BridgeIs
<1> HIDE DEF br, x, y, c
<1>4. x \o br \in Seq(ElementOf) /\ OwnIn(x \o br, S) /\ UniqueIn(x \o br)
  <2>1. S \cap {} = {} /\ S \cup {} = S
    OBVIOUS
  <2>2. x \o br \in Seq(ElementOf) /\ OwnIn(x \o br, S \cup {}) /\ UniqueIn(x \o br)
    BY <1>2, <1>3, <2>1, TogetherIn
  <2> QED
    BY <2>1, <2>2
<1>5. z \in Seq(ElementOf) /\ OwnIn(z, S \cup T) /\ UniqueIn(z)
  BY <1>2, <1>4, TogetherIn
<1>6. ToSet(z) = (ToSet(x) \cup ToSet(br)) \cup ToSet(y)
  <2>1. ToSet(x \o br) = ToSet(x) \cup ToSet(br)
    BY <1>2, <1>3, JoinedMembers
  <2>2. ToSet((x \o br) \o y) = ToSet(x \o br) \cup ToSet(y)
    <3> DEFINE p == x \o br
    <3>1. p \in Seq(ElementOf) /\ y \in Seq(ElementOf)
      BY <1>2, <1>4
    <3> HIDE DEF p
    <3>2. ToSet(p \o y) = ToSet(p) \cup ToSet(y)
      BY <3>1, JoinedMembers
    <3> QED
      BY <3>2 DEF p
  <2> QED
    BY <2>1, <2>2
<1> HIDE DEF z
<1>7. WellFormed(c, S \cup T)
  BY <1>1, <1>2, <1>5, WellFormedIs
<1>8. ASSUME NEW e \in ToSet(x) PROVE (e.id = BridgeId \/ e.id[1] \in S) /\ \A k \in DOMAIN e.refs : e.refs[k].to[1] \in S
  <2>1. PICK n \in DOMAIN x : e = x[n]
    BY DEF ToSet
  <2> QED
    BY <1>2, <2>1 DEF OwnIn
<1>9. ASSUME NEW e \in ToSet(y) PROVE (e.id = BridgeId \/ e.id[1] \in T) /\ \A k \in DOMAIN e.refs : e.refs[k].to[1] \in T
  <2>1. PICK n \in DOMAIN y : e = y[n]
    BY DEF ToSet
  <2> QED
    BY <1>2, <2>1 DEF OwnIn
<1>10. BridgeId[1] \notin S /\ BridgeId[1] \notin T
  BY <1>2 DEF BridgeId, Uuid
<1>11. Holds(c, a, S)
  <2>1. ASSUME NEW e \in ToSet(z), e \notin ToSet(x)
        PROVE  e.id[1] \notin S /\ \A k \in DOMAIN e.refs : e.refs[k].to[1] \notin S
    <3>1. CASE e \in ToSet(br)
      BY <1>3, <1>10, <3>1
    <3>2. CASE e \in ToSet(y)
      BY <1>9, <1>10, <3>2
    <3> QED
      BY <1>6, <2>1, <3>1, <3>2
  <2> QED
    BY <1>1, <1>6, <2>1 DEF Holds, x
<1>12. Holds(c, b, T)
  <2>1. ASSUME NEW e \in ToSet(z), e \notin ToSet(y)
        PROVE  e.id[1] \notin T /\ \A k \in DOMAIN e.refs : e.refs[k].to[1] \notin T
    <3>1. CASE e \in ToSet(br)
      BY <1>3, <1>10, <3>1
    <3>2. CASE e \in ToSet(x)
      BY <1>8, <1>10, <3>2
    <3> QED
      BY <1>6, <2>1, <3>1, <3>2
  <2> QED
    BY <1>1, <1>6, <2>1 DEF Holds, y
<1> QED
  BY <1>1, <1>7, <1>11, <1>12 DEF c, z, x, y, br

LEMMA RealJoined ==
  ASSUME NEW x \in Seq(SightOf), NEW y \in Seq(SightOf)
  PROVE  Real(x) \in Seq(SightOf) /\ Real(x \o y) = Real(x) \o Real(y)
<1> DEFINE W == [what : {"body", "ref", "tag", "missing"}, of : (Nat \X Nat) \ {BridgeId}]
<1>1. Real(x) = Among(x, W) /\ Real(y) = Among(y, W) /\ Real(x \o y) = Among(x \o y, W)
  BY DEF Real
<1> HIDE DEF W
<1>2. Among(x, W) \in Seq(SightOf)
  BY AmongIn
<1>3. Among(x \o y, W) = Among(x, W) \o Among(y, W)
  BY AmongJoined
<1> QED
  BY <1>1, <1>2, <1>3

LEMMA NotReal ==
  ASSUME NEW x \in SightOf, x = Sight("title", BridgeId) \/ x = Sight("body", BridgeId)
  PROVE  Real(<<x>>) = <<>> /\ Real(<<>>) = <<>>
<1> DEFINE W == [what : {"body", "ref", "tag", "missing"}, of : (Nat \X Nat) \ {BridgeId}]
    one == <<x>>
<1>1. Real(one) = Among(one, W) /\ Real(<<>>) = Among(<<>>, W)
  BY DEF Real
<1>2. x \notin W
  BY DEF Sight
<1>3. one \in Seq(SightOf) /\ \A n \in 1 .. Len(one) : one[n] = x
  OBVIOUS
<1> HIDE DEF W, one
<1>4. \A n \in 1 .. Len(one) : one[n] \notin W
  BY <1>2, <1>3
<1>5. Among(one, W) = <<>>
  BY <1>3, <1>4, NoneAmong
<1>6. Among(<<>>, W) = <<>>
  BY AmongNothing
<1> QED
  BY <1>1, <1>5, <1>6 DEF one

LEMMA RealIs ==
  ASSUME NEW doc, NEW S, WellFormed(doc, S)
  PROVE  /\ FlattenSeq(Mapped(View(doc), doc.elements)) \in Seq(SightOf)
         /\ Real(RenderForPrompt(doc)) = Real(FlattenSeq(Mapped(View(doc), doc.elements)))
         /\ Real(RenderForPrompt(doc)) \in Seq(SightOf)
<1> DEFINE head == Header(doc)
    views == Mapped(View(doc), doc.elements)
    all == FlattenSeq(views)
<1>1. views \in Seq(Seq(SightOf)) /\ head \in Seq(SightOf) /\ RenderForPrompt(doc) = head \o all
  BY RenderedIs
<1>2. Real(head) = <<>>
  <2>1. Sight("title", BridgeId) \in SightOf
    BY DEF Sight, SightOf, BridgeId, Uuid, Ids
  <2>2. head = <<>> \/ head = <<Sight("title", BridgeId)>>
    BY DEF Header
  <2> QED
    BY <2>1, <2>2, NotReal
<1> HIDE DEF head, views
<1>3. all \in Seq(SightOf)
  BY <1>1, FlattenIn
<1> HIDE DEF all
<1>4. Real(head \o all) = Real(head) \o Real(all) /\ Real(all) \in Seq(SightOf)
  BY <1>1, <1>3, RealJoined
<1>5. <<>> \o Real(all) = Real(all)
  BY <1>4
<1> QED
  BY <1>1, <1>2, <1>3, <1>4, <1>5 DEF all, views

LEMMA BridgeView ==
  ASSUME NEW c, NEW U, WellFormed(c, U), NEW e \in ElementOf, e.id = BridgeId, e.kind = "heading", e.refs = <<>>
  PROVE  View(c)[e] = <<Sight("body", BridgeId)>> /\ Sight("body", BridgeId) \in SightOf
<1> DEFINE s == Sight("body", BridgeId)
    one == <<s>>
    none == <<>>
<1>1. s \in SightOf /\ s.what # "ref"
  BY DEF Sight, SightOf, BridgeId, Uuid, Ids
<1>2. Standalone(c, e) = one
  <2>1. Standalone(c, e) = Html(e)
    BY DEF Standalone
  <2>2. Html(e) = one \o [r \in DOMAIN e.refs |-> Sight("ref", e.refs[r].to)]
    BY DEF Html
  <2>3. [r \in DOMAIN e.refs |-> Sight("ref", e.refs[r].to)] = <<>>
    OBVIOUS
  <2>4. one \in Seq(SightOf)
    BY <1>1
  <2> HIDE DEF one
  <2> QED
    BY <2>1, <2>2, <2>3, <2>4, JoinedNothing
<1>3. View(c)[e] = FlattenSeq(Mapped(Into(c), Standalone(c, e)))
  BY DEF View
<1>4. Into(c)[s] = one
  BY <1>1 DEF Into
<1>5. Mapped(Into(c), one) = <<Into(c)[s]>>
  BY DEF Mapped
<1>6. one \in Seq(SightOf)
  BY <1>1
<1> HIDE DEF one, s
<1>7. FlattenSeq(<<one>>) = one
  BY <1>6, FlattenOne
<1>8. View(c)[e] = one
  BY <1>2, <1>3, <1>4, <1>5, <1>7
<1> QED
  BY <1>1, <1>8 DEF one, s

LEMMA ViewsOfPart ==
  ASSUME NEW doc, NEW S, WellFormed(doc, S), NEW c, NEW U, WellFormed(c, U), Holds(c, doc, S)
  PROVE  Mapped(View(c), doc.elements) = Mapped(View(doc), doc.elements)
<1>1. \A n \in DOMAIN doc.elements : View(c)[doc.elements[n]] = View(doc)[doc.elements[n]]
  BY SameView DEF Positions
<1> QED
  BY <1>1 DEF Mapped

LEMMA RealOfConcat ==
  ASSUME NEW a, NEW b, NEW S, NEW T, WellFormed(a, S), WellFormed(b, T), S \cap T = {}
  PROVE  Real(RenderForPrompt(Concat(a, b))) = Real(RenderForPrompt(a)) \o Real(RenderForPrompt(b))
<1> DEFINE c == Concat(a, b)
    br == Bridge(a, b)
    va == Mapped(View(a), a.elements)
    vb == Mapped(View(b), b.elements)
    vm == Mapped(View(c), br)
    vc == Mapped(View(c), c.elements)
    x == FlattenSeq(va)
    y == FlattenSeq(vb)
    m == FlattenSeq(vm)
<1>1. /\ WellFormed(c, S \cup T) /\ Holds(c, a, S) /\ Holds(c, b, T)
      /\ c.elements = (a.elements \o br) \o b.elements
  BY ConcatIs
<1>2. Mapped(View(c), a.elements) = va /\ Mapped(View(c), b.elements) = vb
  BY <1>1, ViewsOfPart
<1>3. a.elements \in Seq(ElementOf) /\ b.elements \in Seq(ElementOf) /\ a.title \in Names /\ b.title \in Names
  BY DEF WellFormed
<1>4. br \in Seq(ElementOf)
  BY <1>3, BridgeIs
<1>5. va \in Seq(Seq(SightOf)) /\ vb \in Seq(Seq(SightOf)) /\ x \in Seq(SightOf) /\ y \in Seq(SightOf)
  BY RenderedIs, RealIs
<1>6. vm \in Seq(Seq(SightOf)) /\ m \in Seq(SightOf) /\ Real(m) = <<>>
  <2> DEFINE e == [id |-> BridgeId, kind |-> "heading", body |-> b.title, refs |-> <<>>]
      s == Sight("body", BridgeId)
  <2>1. br = <<>> \/ (br = <<e>> /\ e \in ElementOf)
    BY <1>3, BridgeIs
  <2>2. CASE br = <<>>
    <3>1. vm = <<>>
      BY <2>2 DEF Mapped
    <3>2. m = <<>>
      BY <3>1, FlattenNone
    <3>3. Real(<<>>) = <<>>
      BY AmongNothing DEF Real
    <3> HIDE DEF vm, m
    <3> QED
      BY <3>1, <3>2, <3>3
  <2>3. CASE br = <<e>> /\ e \in ElementOf
    <3>1. e.id = BridgeId /\ e.kind = "heading" /\ e.refs = <<>>
      OBVIOUS
    <3> HIDE DEF e
    <3>2. View(c)[e] = <<s>> /\ s \in SightOf
      BY <1>1, <2>3, <3>1, BridgeView
    <3>3. vm = <<View(c)[e]>>
      BY <2>3 DEF Mapped
    <3> HIDE DEF s, vm
    <3>4. vm = << <<s>> >> /\ <<s>> \in Seq(SightOf)
      BY <3>2, <3>3
    <3>5. m = <<s>>
      BY <3>4, FlattenOne
    <3>6. Real(<<s>>) = <<>>
      BY <3>2, NotReal DEF s
    <3>7. vm \in Seq(Seq(SightOf))
      <4> DEFINE M == Seq(SightOf)
          one == <<s>>
      <4>1. one \in M
        BY <3>4
      <4> HIDE DEF M, one
      <4>2. <<one>> \in Seq(M)
        BY <4>1
      <4> QED
        BY <3>4, <4>2 DEF M, one
    <3>8. m \in Seq(SightOf) /\ Real(m) = <<>>
      BY <3>4, <3>5, <3>6
    <3> QED
      BY <3>7, <3>8
  <2> QED
    BY <2>1, <2>2, <2>3
<1> HIDE DEF c, br, va, vb, vm
<1>7. vc = (va \o vm) \o vb
  <2>1. a.elements \o br \in Seq(ElementOf)
    BY <1>3, <1>4, JoinedIn
  <2>2. Mapped(View(c), a.elements \o br) = Mapped(View(c), a.elements) \o vm
    <3> DEFINE p == a.elements
        w == View(c)
    <3>1. p \in Seq(ElementOf)
      BY <1>3
    <3> HIDE DEF p, w
    <3>2. Mapped(w, p \o br) = Mapped(w, p) \o Mapped(w, br)
      BY <1>4, <3>1, MappedJoined
    <3> QED
      BY <3>2 DEF p, w, vm
  <2>3. Mapped(View(c), (a.elements \o br) \o b.elements)
          = Mapped(View(c), a.elements \o br) \o Mapped(View(c), b.elements)
    <3> DEFINE p == a.elements \o br
        q == b.elements
    <3>1. p \in Seq(ElementOf) /\ q \in Seq(ElementOf)
      BY <1>3, <2>1
    <3> HIDE DEF p, q
    <3>2. Mapped(View(c), p \o q) = Mapped(View(c), p) \o Mapped(View(c), q)
      BY <3>1, MappedJoined
    <3> QED
      BY <3>2 DEF p, q
  <2> QED
    BY <1>1, <1>2, <2>2, <2>3
<1>8. va \o vm \in Seq(Seq(SightOf)) /\ FlattenSeq(va \o vm) = x \o m
  <2> DEFINE M == Seq(SightOf)
  <2>1. va \in Seq(M) /\ vm \in Seq(M)
    BY <1>5, <1>6
  <2> HIDE DEF M
  <2>2. va \o vm \in Seq(M)
    BY <2>1, JoinedIn
  <2>3. FlattenSeq(va \o vm) = FlattenSeq(va) \o FlattenSeq(vm)
    BY <1>5, <1>6, FlattenJoined
  <2> QED
    BY <2>2, <2>3 DEF M
<1>9. FlattenSeq(vc) = (x \o m) \o y
  <2>1. FlattenSeq((va \o vm) \o vb) = FlattenSeq(va \o vm) \o y
    BY <1>5, <1>8, FlattenJoined
  <2> QED
    BY <1>7, <1>8, <2>1
<1>10. Real(RenderForPrompt(c)) = Real(FlattenSeq(vc))
  BY <1>1, RealIs
<1>11. Real(RenderForPrompt(a)) = Real(x) /\ Real(RenderForPrompt(b)) = Real(y)
  BY RealIs DEF va, vb
<1> HIDE DEF x, y, m, vc
<1>12. Real(x \o m) = Real(x) \o Real(m) /\ Real(x) \in Seq(SightOf) /\ x \o m \in Seq(SightOf)
  BY <1>5, <1>6, RealJoined, JoinedIn
<1>13. Real((x \o m) \o y) = Real(x \o m) \o Real(y)
  BY <1>5, <1>12, RealJoined
<1>14. Real(x) \o <<>> = Real(x)
  BY <1>12
<1> QED
  BY <1>6, <1>9, <1>10, <1>11, <1>12, <1>13, <1>14 DEF c

LEMMA BridgesOfConcat ==
  ASSUME NEW a, NEW b, NEW S, NEW T, WellFormed(a, S), WellFormed(b, T), S \cap T = {}
  PROVE  /\ Bridges(a) \in Nat /\ Bridges(b) \in Nat
         /\ Bridges(Concat(a, b)) = Bridges(a) + Bridges(b) + (IF a.title # "" /\ b.title # "" THEN 1 ELSE 0)
<1> DEFINE c == Concat(a, b)
    br == Bridge(a, b)
    W == {e \in ElementOf : e.id = BridgeId}
    count(s) == Len(Among(s, W))
<1>1. ASSUME NEW doc, NEW V, WellFormed(doc, V)
      PROVE  Bridges(doc) = count(doc.elements) /\ count(doc.elements) \in Nat
  <2>1. doc.elements \in Seq(ElementOf)
    BY <1>1 DEF WellFormed
  <2> DEFINE B == {n \in Positions(doc) : doc.elements[n].id = BridgeId}
      C == {n \in DOMAIN doc.elements : doc.elements[n] \in W}
      some == Among(doc.elements, W)
  <2>2. B = C
    BY <2>1 DEF Positions
  <2>3. Bridges(doc) = Cardinality(B)
    BY DEF Bridges
  <2>4. Cardinality(C) = Len(some)
    <3> HIDE DEF W
    <3> QED
      BY <2>1, AmongCounted
  <2>5. some \in Seq(ElementOf)
    BY <2>1, AmongIn
  <2>6. count(doc.elements) = Len(some)
    OBVIOUS
  <2> HIDE DEF B, C, some, count
  <2> QED
    BY <2>2, <2>3, <2>4, <2>5, <2>6
<1>2. /\ WellFormed(c, S \cup T)
      /\ c.elements = (a.elements \o br) \o b.elements
  BY ConcatIs
<1>3. a.elements \in Seq(ElementOf) /\ b.elements \in Seq(ElementOf) /\ a.title \in Names /\ b.title \in Names
  BY DEF WellFormed
<1>4. br \in Seq(ElementOf) /\ count(br) = IF a.title # "" /\ b.title # "" THEN 1 ELSE 0
  <2> DEFINE e == [id |-> BridgeId, kind |-> "heading", body |-> b.title, refs |-> <<>>]
      both == a.title # "" /\ b.title # ""
  <2>1. br \in Seq(ElementOf) /\ (both => br = <<e>> /\ e \in ElementOf) /\ (~both => br = <<>>)
    BY <1>3, BridgeIs
  <2>2. e.id = BridgeId
    OBVIOUS
  <2> HIDE DEF e, br, both
  <2>3. CASE both
    <3> DEFINE one == <<e>>
    <3>1. one \in Seq(ElementOf) /\ Len(one) = 1 /\ \A n \in 1 .. Len(one) : one[n] \in W
      BY <2>1, <2>2, <2>3
    <3> HIDE DEF one, W
    <3>2. Among(one, W) = one
      BY <3>1, AllAmong
    <3> QED
      BY <2>1, <2>3, <3>1, <3>2 DEF one, both
  <2>4. CASE ~both
    <3>1. br = <<>>
      BY <2>1, <2>4
    <3>2. Among(br, W) = <<>>
      BY <3>1, AmongNothing
    <3> QED
      BY <2>1, <2>4, <3>2 DEF both
  <2> QED
    BY <2>3, <2>4
<1> HIDE DEF br, W, c
<1>5. a.elements \o br \in Seq(ElementOf)
  BY <1>3, <1>4, JoinedIn
<1>6. Among((a.elements \o br) \o b.elements, W) = (Among(a.elements, W) \o Among(br, W)) \o Among(b.elements, W)
  <2>1. Among(a.elements \o br, W) = Among(a.elements, W) \o Among(br, W)
    BY <1>3, <1>4, AmongJoined
  <2>2. Among((a.elements \o br) \o b.elements, W) = Among(a.elements \o br, W) \o Among(b.elements, W)
    BY <1>3, <1>5, AmongJoined
  <2> QED
    BY <2>1, <2>2
<1>7. Among(a.elements, W) \in Seq(ElementOf) /\ Among(br, W) \in Seq(ElementOf) /\ Among(b.elements, W) \in Seq(ElementOf)
  BY <1>3, <1>4, AmongIn
<1>8. count(c.elements) = count(a.elements) + count(br) + count(b.elements)
  <2> DEFINE x == Among(a.elements, W)
      y == Among(br, W)
      z == Among(b.elements, W)
  <2>1. x \in Seq(ElementOf) /\ y \in Seq(ElementOf) /\ z \in Seq(ElementOf)
    BY <1>7
  <2>2. Among(c.elements, W) = (x \o y) \o z
    BY <1>2, <1>6
  <2> HIDE DEF x, y, z
  <2>3. Len((x \o y) \o z) = Len(x) + Len(y) + Len(z)
    BY <2>1
  <2> QED
    BY <2>2, <2>3 DEF x, y, z
<1>9. Bridges(a) = count(a.elements) /\ Bridges(b) = count(b.elements) /\ Bridges(c) = count(c.elements)
      /\ count(a.elements) \in Nat /\ count(b.elements) \in Nat
  BY <1>1, <1>2
<1> HIDE DEF count
<1>10. Bridges(c) = Bridges(a) + Bridges(b) + (IF a.title # "" /\ b.title # "" THEN 1 ELSE 0)
  <2> DEFINE one == IF a.title # "" /\ b.title # "" THEN 1 ELSE 0
      p == count(a.elements)
      q == count(b.elements)
      r == count(br)
  <2>1. one \in Nat /\ r = one
    BY <1>4
  <2>2. /\ Bridges(c) = p + r + q /\ Bridges(a) = p /\ Bridges(b) = q /\ p \in Nat /\ q \in Nat
    BY <1>8, <1>9
  <2> HIDE DEF one, p, q, r
  <2>3. Bridges(c) = Bridges(a) + Bridges(b) + one
    BY <2>1, <2>2
  <2> QED
    BY <2>3 DEF one
<1> QED
  BY <1>9, <1>10 DEF c

(* The state: a paper's elements have its ids, in order, and refer within it. *)
MetaOf(d) == [key \in {0, d} |-> d]

DocOf == [title : Names, elements : Seq(ElementOf), meta : {MetaOf(d) : d \in Papers}]

PaperIs(doc, d) ==
  /\ doc.meta = MetaOf(d)
  /\ \A n \in DOMAIN doc.elements :
       /\ doc.elements[n].id = <<d, n>>
       /\ \A k \in DOMAIN doc.elements[n].refs : doc.elements[n].refs[k].to[1] = d
       /\ doc.elements[n].kind = "image" => doc.elements[n].refs = <<>>

ContentInv == docs \in [Papers -> DocOf] /\ \A d \in Papers : PaperIs(docs[d], d)

LEMMA ContentBegins == ContentInit => ContentInv
<1> SUFFICES ASSUME ContentInit PROVE ContentInv
  OBVIOUS
<1>1. PICK t \in [Papers -> Names] :
        docs = [d \in Papers |-> [title |-> t[d], elements |-> <<>>, meta |-> [key \in {0, d} |-> d]]]
  BY DEF ContentInit
<1>2. ASSUME NEW d \in Papers PROVE docs[d] \in DocOf /\ PaperIs(docs[d], d)
  <2> DEFINE m == MetaOf(d)
      e == <<>>
  <2>1. docs[d] = [title |-> t[d], elements |-> e, meta |-> m]
    BY <1>1 DEF MetaOf
  <2>2. m \in {MetaOf(c) : c \in Papers} /\ t[d] \in Names
    OBVIOUS
  <2>3. e \in Seq(ElementOf) /\ DOMAIN e = {}
    OBVIOUS
  <2> HIDE DEF m, e
  <2>4. docs[d] \in DocOf
    BY <2>1, <2>2, <2>3 DEF DocOf
  <2>5. PaperIs(docs[d], d)
    BY <2>1, <2>3 DEF PaperIs, m
  <2> QED
    BY <2>4, <2>5
<1>3. docs = [d \in Papers |-> docs[d]]
  BY <1>1
<1>4. docs \in [Papers -> DocOf]
  BY <1>2, <1>3
<1> QED
  BY <1>2, <1>4 DEF ContentInv

Added(d, n, f) ==
  [id |-> Uuid(d, n), kind |-> f.kind, body |-> f.body,
   refs |-> [r \in DOMAIN f.refs |-> [to |-> Uuid(d, f.refs[r][1]), rel |-> f.refs[r][2]]]]

LEMMA AddedIs ==
  ASSUME NEW d \in Papers, NEW n \in Nat, NEW f \in Forms
  PROVE  /\ Added(d, n, f) \in ElementOf /\ Added(d, n, f).id = <<d, n>>
         /\ \A k \in DOMAIN Added(d, n, f).refs : Added(d, n, f).refs[k].to[1] = d
         /\ Added(d, n, f).kind = "image" => Added(d, n, f).refs = <<>>
<1> DEFINE refs == [r \in DOMAIN f.refs |-> [to |-> Uuid(d, f.refs[r][1]), rel |-> f.refs[r][2]]]
    e == Added(d, n, f)
    Rel == {"footnote", "image", "odd"}
<1>1. /\ f.kind \in {"heading", "text", "image", "footnote"} /\ f.refs \in Seq(Nat \X Rel)
      /\ (f.kind = "image" => f.refs = <<>>)
  BY ContentConstants
<1>2. ASSUME NEW k \in DOMAIN f.refs
      PROVE  refs[k] \in RefOf /\ refs[k].to[1] = d
  <2>1. f.refs[k] \in Nat \X Rel
    BY <1>1
  <2>2. refs[k].to = <<d, f.refs[k][1]>> /\ refs[k] = [to |-> Uuid(d, f.refs[k][1]), rel |-> f.refs[k][2]]
    BY DEF Uuid
  <2>3. d \in Nat /\ f.refs[k][1] \in Nat /\ f.refs[k][2] \in Rel
    BY <2>1 DEF Papers
  <2>4. <<d, f.refs[k][1]>> \in Ids
    BY <2>3 DEF Ids
  <2> HIDE DEF refs
  <2> QED
    BY <2>2, <2>3, <2>4 DEF RefOf, Uuid
<1>3. refs \in Seq(RefOf) /\ DOMAIN refs = DOMAIN f.refs
  <2>1. DOMAIN f.refs = 1 .. Len(f.refs) /\ Len(f.refs) \in Nat
    BY <1>1
  <2>2. refs = [r \in DOMAIN f.refs |-> refs[r]]
    OBVIOUS
  <2> HIDE DEF refs
  <2>3. refs \in [1 .. Len(f.refs) -> RefOf]
    BY <1>2, <2>1, <2>2
  <2> QED
    BY <2>1, <2>3
<1>4. f.kind = "image" => refs = <<>>
  <2> SUFFICES ASSUME f.kind = "image" PROVE refs = <<>>
    OBVIOUS
  <2>1. f.refs = <<>>
    BY <1>1
  <2>2. DOMAIN f.refs = {}
    BY <2>1
  <2> QED
    BY <2>2
<1>5. e = [id |-> <<d, n>>, kind |-> f.kind, body |-> f.body, refs |-> refs]
  BY DEF Added, Uuid
<1>6. <<d, n>> \in Ids /\ f.body \in Words
  BY DEF Ids, Words, Papers
<1> HIDE DEF refs, e
<1>7. e \in ElementOf
  BY <1>1, <1>3, <1>5, <1>6 DEF ElementOf
<1>8. e.id = <<d, n>> /\ e.kind = f.kind /\ e.refs = refs
  BY <1>5
<1>9. \A k \in DOMAIN refs : refs[k].to[1] = d
  BY <1>2, <1>3
<1> QED
  BY <1>4, <1>7, <1>8, <1>9 DEF e

LEMMA ContentStays == ContentInv /\ [ContentNext]_docs => ContentInv'
<1> SUFFICES ASSUME ContentInv, [ContentNext]_docs PROVE ContentInv'
  OBVIOUS
<1>1. CASE UNCHANGED docs
  BY <1>1 DEF ContentInv
<1>2. ASSUME NEW d \in Papers, NEW f \in Forms, AddForm(d, f) PROVE ContentInv'
  <2> DEFINE doc == docs[d]
      els == doc.elements
      e == Added(d, Len(els) + 1, f)
      new == Append(els, e)
      next == [doc EXCEPT !.elements = new]
  <2>1. docs \in [Papers -> DocOf] /\ \A c \in Papers : PaperIs(docs[c], c)
    BY DEF ContentInv
  <2>2. doc \in DocOf /\ PaperIs(doc, d)
    BY <2>1
  <2>3. els \in Seq(ElementOf)
    BY <2>2 DEF DocOf
  <2>4. docs' = [docs EXCEPT ![d] = next]
    BY <1>2 DEF AddForm, Added
  <2>5. /\ e \in ElementOf /\ e.id = <<d, Len(els) + 1>>
        /\ \A k \in DOMAIN e.refs : e.refs[k].to[1] = d
        /\ e.kind = "image" => e.refs = <<>>
    <3>1. Len(els) + 1 \in Nat
      BY <2>3
    <3>2. \A n \in Nat : /\ Added(d, n, f) \in ElementOf /\ Added(d, n, f).id = <<d, n>>
                         /\ \A k \in DOMAIN Added(d, n, f).refs : Added(d, n, f).refs[k].to[1] = d
                         /\ Added(d, n, f).kind = "image" => Added(d, n, f).refs = <<>>
      BY Zenon, AddedIs
    <3> HIDE DEF els
    <3> QED
      BY <3>1, <3>2
  <2> HIDE DEF e
  <2>6. /\ new \in Seq(ElementOf) /\ DOMAIN els = 1 .. Len(els) /\ DOMAIN new = 1 .. Len(els) + 1
        /\ Len(els) \in Nat /\ new[Len(els) + 1] = e /\ \A n \in 1 .. Len(els) : new[n] = els[n]
    BY <2>3, <2>5, AppendFacts
  <2> HIDE DEF new
  <2>7. next \in DocOf /\ next.elements = new /\ next.meta = doc.meta
    BY <2>2, <2>6 DEF DocOf
  <2> HIDE DEF next
  <2>8. PaperIs(next, d)
    <3>1. doc.meta = MetaOf(d)
      BY <2>2 DEF PaperIs
    <3>2. ASSUME NEW n \in DOMAIN new
          PROVE  /\ new[n].id = <<d, n>>
                 /\ \A k \in DOMAIN new[n].refs : new[n].refs[k].to[1] = d
                 /\ new[n].kind = "image" => new[n].refs = <<>>
      <4>1. CASE n = Len(els) + 1
        BY <2>5, <2>6, <4>1
      <4>2. CASE n # Len(els) + 1
        <5>1. n \in DOMAIN els /\ new[n] = els[n]
          BY <2>6, <4>2
        <5> QED
          BY <2>2, <5>1 DEF PaperIs
      <4> QED
        BY <4>1, <4>2
    <3> QED
      BY <2>7, <3>1, <3>2 DEF PaperIs
  <2> HIDE DEF els, doc
  <2>9. docs' \in [Papers -> DocOf] /\ docs'[d] = next /\ \A c \in Papers : c # d => docs'[c] = docs[c]
    BY <2>1, <2>4, <2>7
  <2> QED
    BY <2>1, <2>8, <2>9 DEF ContentInv
<1> QED
  BY <1>1, <1>2 DEF ContentNext

LEMMA PapersWellFormed ==
  ASSUME ContentInv, NEW d \in Papers
  PROVE  /\ WellFormed(docs[d], {d}) /\ docs[d].meta = MetaOf(d)
         /\ \A n \in Positions(docs[d]) : docs[d].elements[n].id # BridgeId
<1> DEFINE doc == docs[d]
<1>1. doc \in DocOf /\ PaperIs(doc, d)
  BY DEF ContentInv
<1>2. doc.title \in Names /\ doc.elements \in Seq(ElementOf)
  BY <1>1 DEF DocOf
<1>3. d \in Nat \ {0}
  BY DEF Papers
<1>4. /\ doc.meta = MetaOf(d)
      /\ \A n \in DOMAIN doc.elements :
           /\ doc.elements[n].id = <<d, n>>
           /\ \A k \in DOMAIN doc.elements[n].refs : doc.elements[n].refs[k].to[1] = d
           /\ doc.elements[n].kind = "image" => doc.elements[n].refs = <<>>
  BY <1>1 DEF PaperIs
<1> HIDE DEF doc
<1>5. \A n \in DOMAIN doc.elements : doc.elements[n].id # BridgeId /\ doc.elements[n].id[1] = d
  BY <1>3, <1>4 DEF BridgeId, Uuid
<1>6. OwnIn(doc.elements, {d})
  BY <1>4, <1>5 DEF OwnIn
<1>7. UniqueIn(doc.elements)
  BY <1>4 DEF UniqueIn
<1>8. WellFormed(doc, {d})
  BY <1>2, <1>3, <1>6, <1>7, WellFormedIs
<1> QED
  BY <1>4, <1>5, <1>8 DEF doc, Positions

(* Papers joined by two groupings. *)
LEMMA JoinIs ==
  ASSUME NEW a, NEW b, NEW c
  PROVE  Join(<<a, b, c>>) = Concat(Concat(a, b), c)
<1> DEFINE ds == <<a, b, c>>
    Then(g, n) == IF n = 1 THEN ds[1] ELSE Concat(g[n - 1], ds[n])
    Solves(g) == g = [n \in 1 .. Len(ds) |-> Then(g, n)]
    two == Concat(a, b)
    three == Concat(two, c)
    h == [n \in 1 .. 3 |-> IF n = 1 THEN a ELSE IF n = 2 THEN two ELSE three]
    joined == CHOOSE g : Solves(g)
<1>1. Len(ds) = 3 /\ ds[1] = a /\ ds[2] = b /\ ds[3] = c /\ ds # <<>>
  OBVIOUS
<1>2. Join(ds) = joined[Len(ds)]
  BY <1>1, Zenon DEF Join
<1>3. h[1] = a /\ h[2] = two /\ h[3] = three /\ h = [n \in 1 .. 3 |-> h[n]]
  OBVIOUS
<1> HIDE DEF ds, h
<1>4. \A n \in 1 .. 3 : h[n] = Then(h, n)
  <2>1. Then(h, 1) = a
    BY <1>1
  <2>2. Then(h, 2) = Concat(h[1], ds[2])
    OBVIOUS
  <2>3. Then(h, 3) = Concat(h[2], ds[3])
    OBVIOUS
  <2>4. \A n \in 1 .. 3 : n = 1 \/ n = 2 \/ n = 3
    OBVIOUS
  <2> HIDE DEF Then
  <2> QED
    BY <1>1, <1>3, <2>1, <2>2, <2>3, <2>4
<1>5. Solves(h)
  <2> HIDE DEF Then
  <2>1. h = [n \in 1 .. 3 |-> Then(h, n)]
    BY <1>3, <1>4
  <2> QED
    BY <1>1, <2>1
<1>6. Solves(joined)
  <2> HIDE DEF Solves
  <2> QED
    BY <1>5, Zenon
<1> HIDE DEF joined
<1>7. \A n \in 1 .. 3 : joined[n] = Then(joined, n)
  <2> HIDE DEF Then
  <2>1. joined = [n \in 1 .. 3 |-> Then(joined, n)]
    BY <1>1, <1>6
  <2> QED
    BY <2>1
<1>8. joined[1] = a
  BY <1>1, <1>7
<1>9. joined[2] = Concat(joined[1], ds[2])
  BY <1>7
<1>10. joined[3] = Concat(joined[2], ds[3])
  BY <1>7
<1> QED
  BY <1>1, <1>2, <1>8, <1>9, <1>10 DEF ds

LEMMA CountOfPapers ==
  ASSUME NEW T, T \subseteq 1 .. 3
  PROVE  Cardinality(T) = (IF 1 \in T THEN 1 ELSE 0) + (IF 2 \in T THEN 1 ELSE 0) + (IF 3 \in T THEN 1 ELSE 0)
<1> DEFINE none == {}
    A == IF 1 \in T THEN none \cup {1} ELSE none
    B == IF 2 \in T THEN A \cup {2} ELSE A
    C == IF 3 \in T THEN B \cup {3} ELSE B
    i == IF 1 \in T THEN 1 ELSE 0
    j == IF 2 \in T THEN 1 ELSE 0
    k == IF 3 \in T THEN 1 ELSE 0
<1>1. T = C
  <2>1. \A x : x \in T => x = 1 \/ x = 2 \/ x = 3
    OBVIOUS
  <2> QED
    BY <2>1
<1>2. 1 \notin none /\ 2 \notin A /\ 3 \notin B
  OBVIOUS
<1>3. IsFiniteSet(none) /\ Cardinality(none) = 0
  BY FS_EmptySet
<1> HIDE DEF none
<1>4. IsFiniteSet(A) /\ Cardinality(A) = i
  <2>1. IsFiniteSet(none \cup {1}) /\ Cardinality(none \cup {1}) = Cardinality(none) + 1
    BY <1>2, <1>3, FS_AddElement
  <2> QED
    BY <1>3, <2>1
<1> HIDE DEF A
<1>5. IsFiniteSet(B) /\ Cardinality(B) = i + j
  <2>1. IsFiniteSet(A \cup {2}) /\ Cardinality(A \cup {2}) = Cardinality(A) + 1
    BY <1>2, <1>4, FS_AddElement
  <2> QED
    BY <1>4, <2>1
<1> HIDE DEF B
<1>6. Cardinality(C) = i + j + k
  <2>1. IsFiniteSet(B \cup {3}) /\ Cardinality(B \cup {3}) = Cardinality(B) + 1
    BY <1>2, <1>5, FS_AddElement
  <2> QED
    BY <1>5, <2>1
<1> HIDE DEF C
<1> QED
  BY <1>1, <1>6

MetaOver(f, g) ==
  [key \in DOMAIN f \cup DOMAIN g |-> IF key \in DOMAIN f THEN f[key] ELSE g[key]]

LEMMA MetaJoined ==
  LET all == [key \in {0} \cup Papers |-> IF key = 0 THEN 1 ELSE key]
  IN /\ MetaOver(MetaOver(MetaOf(1), MetaOf(2)), MetaOf(3)) = all
     /\ MetaOver(MetaOf(1), MetaOver(MetaOf(2), MetaOf(3))) = all
<1>2. ASSUME NEW d PROVE DOMAIN MetaOf(d) = {0, d} /\ MetaOf(d)[0] = d /\ MetaOf(d)[d] = d
  BY DEF MetaOf
<1> DEFINE a == MetaOf(1)
    b == MetaOf(2)
    c == MetaOf(3)
    ab == MetaOver(a, b)
    bc == MetaOver(b, c)
    l == MetaOver(ab, c)
    r == MetaOver(a, bc)
    w == [key \in {0} \cup Papers |-> IF key = 0 THEN 1 ELSE key]
<1>7. /\ DOMAIN a = {0, 1} /\ a[0] = 1 /\ a[1] = 1
      /\ DOMAIN b = {0, 2} /\ b[0] = 2 /\ b[2] = 2
      /\ DOMAIN c = {0, 3} /\ c[0] = 3 /\ c[3] = 3
  BY <1>2
<1> HIDE DEF a, b, c
<1>8. DOMAIN ab = {0, 1, 2} /\ ab[0] = 1 /\ ab[1] = 1 /\ ab[2] = 2
  <2>1. ab = [x \in DOMAIN a \cup DOMAIN b |-> IF x \in DOMAIN a THEN a[x] ELSE b[x]]
    BY Zenon DEF MetaOver
  <2> HIDE DEF ab
  <2> QED
    BY <1>7, <2>1
<1>9. DOMAIN bc = {0, 2, 3} /\ bc[0] = 2 /\ bc[2] = 2 /\ bc[3] = 3
  <2>1. bc = [x \in DOMAIN b \cup DOMAIN c |-> IF x \in DOMAIN b THEN b[x] ELSE c[x]]
    BY Zenon DEF MetaOver
  <2> HIDE DEF bc
  <2> QED
    BY <1>7, <2>1
<1> HIDE DEF ab, bc
<1>10. /\ DOMAIN l = {0, 1, 2, 3} /\ l[0] = 1 /\ l[1] = 1 /\ l[2] = 2 /\ l[3] = 3
       /\ l = [x \in DOMAIN l |-> l[x]]
  <2>1. l = [x \in DOMAIN ab \cup DOMAIN c |-> IF x \in DOMAIN ab THEN ab[x] ELSE c[x]]
    BY Zenon DEF MetaOver
  <2> HIDE DEF l
  <2> QED
    BY <1>7, <1>8, <2>1
<1>11. /\ DOMAIN r = {0, 1, 2, 3} /\ r[0] = 1 /\ r[1] = 1 /\ r[2] = 2 /\ r[3] = 3
       /\ r = [x \in DOMAIN r |-> r[x]]
  <2>1. r = [x \in DOMAIN a \cup DOMAIN bc |-> IF x \in DOMAIN a THEN a[x] ELSE bc[x]]
    BY Zenon DEF MetaOver
  <2> HIDE DEF r
  <2> QED
    BY <1>7, <1>9, <2>1
<1>12. /\ DOMAIN w = {0, 1, 2, 3} /\ w[0] = 1 /\ w[1] = 1 /\ w[2] = 2 /\ w[3] = 3
       /\ w = [x \in DOMAIN w |-> w[x]]
  BY DEF Papers
<1> HIDE DEF l, r, w
<1>13. l = w /\ r = w
  BY <1>10, <1>11, <1>12
<1> QED
  BY <1>13 DEF l, r, w, ab, bc, a, b, c

LEMMA NoBridges ==
  ASSUME NEW doc, \A n \in Positions(doc) : doc.elements[n].id # BridgeId
  PROVE  Bridges(doc) = 0
<1>1. {n \in Positions(doc) : doc.elements[n].id = BridgeId} = {}
  OBVIOUS
<1> QED
  BY <1>1, FS_EmptySet DEF Bridges

LEMMA JoinedParts == ContentInv => JoinedRendersAsParts
<1> SUFFICES ASSUME ContentInv PROVE JoinedRendersAsParts
  OBVIOUS
<1> DEFINE a == docs[1]
    b == docs[2]
    c == docs[3]
    ab == Concat(a, b)
    bc == Concat(b, c)
    left == Concat(ab, c)
    right == Concat(a, bc)
    ra == Real(RenderForPrompt(a))
    rb == Real(RenderForPrompt(b))
    rc == Real(RenderForPrompt(c))
    parts == FlattenSeq([d \in Papers |-> Real(RenderForPrompt(docs[d]))])
    all == [key \in {0} \cup Papers |-> IF key = 0 THEN 1 ELSE key]
    bridges == IF TitledPapers = {} THEN 0 ELSE Cardinality(TitledPapers) - 1
    Fine(doc) == /\ Real(RenderForPrompt(doc)) = parts
                 /\ Bridges(doc) = bridges
                 /\ doc.title = "" <=> TitledPapers = {}
                 /\ doc.meta = all
<1>1. 1 \in Papers /\ 2 \in Papers /\ 3 \in Papers
  BY DEF Papers
<1>2. /\ WellFormed(a, {1}) /\ WellFormed(b, {2}) /\ WellFormed(c, {3})
      /\ a.meta = MetaOf(1) /\ b.meta = MetaOf(2) /\ c.meta = MetaOf(3)
  BY <1>1, PapersWellFormed
<1>3. Bridges(a) = 0 /\ Bridges(b) = 0 /\ Bridges(c) = 0
  BY <1>1, PapersWellFormed, NoBridges
<1>4. 1 \in TitledPapers <=> a.title # ""
  BY <1>1 DEF TitledPapers
<1>5. 2 \in TitledPapers <=> b.title # ""
  BY <1>1 DEF TitledPapers
<1>6. 3 \in TitledPapers <=> c.title # ""
  BY <1>1 DEF TitledPapers
<1>7. TitledPapers \subseteq 1 .. 3
  BY DEF TitledPapers, Papers
<1>8. Cardinality(TitledPapers)
        = (IF a.title # "" THEN 1 ELSE 0) + (IF b.title # "" THEN 1 ELSE 0) + (IF c.title # "" THEN 1 ELSE 0)
  BY <1>4, <1>5, <1>6, <1>7, CountOfPapers
<1>9. TitledPapers = {} <=> a.title = "" /\ b.title = "" /\ c.title = ""
  <2>1. \A d \in TitledPapers : d = 1 \/ d = 2 \/ d = 3
    BY <1>7
  <2> QED
    BY <1>4, <1>5, <1>6, <2>1
<1>10. ra \in Seq(SightOf) /\ rb \in Seq(SightOf) /\ rc \in Seq(SightOf)
  BY <1>2, RealIs
<1>11. parts = (ra \o rb) \o rc
  <2> DEFINE f == [d \in Papers |-> Real(RenderForPrompt(docs[d]))]
  <2>1. f[1] = ra /\ f[2] = rb /\ f[3] = rc
    BY <1>1
  <2>2. f = [d \in 1 .. 3 |-> f[d]]
    BY DEF Papers
  <2> HIDE DEF f, ra, rb, rc
  <2>3. f \in Seq(Seq(SightOf)) /\ Len(f) = 3
    <3> DEFINE X == Seq(SightOf)
    <3>1. \A d \in 1 .. 3 : f[d] \in X
      BY <1>10, <2>1
    <3> HIDE DEF X
    <3>2. f \in Seq(X) /\ Len(f) = 3
      BY <2>2, <3>1
    <3> QED
      BY <3>2 DEF X
  <2>4. FlattenSeq(f) = (ra \o rb) \o rc
    BY <1>10, <2>1, <2>3, FlattenTriple
  <2> QED
    BY <2>4 DEF f
<1>12. {1} \cap {2} = {} /\ {2} \cap {3} = {}
       /\ ({1} \cup {2}) \cap {3} = {} /\ {1} \cap ({2} \cup {3}) = {}
  OBVIOUS
<1>13. WellFormed(ab, {1} \cup {2}) /\ WellFormed(bc, {2} \cup {3})
  BY <1>2, <1>12, ConcatIs
<1>14. Real(RenderForPrompt(ab)) = ra \o rb /\ Real(RenderForPrompt(bc)) = rb \o rc
  BY <1>2, <1>12, RealOfConcat
<1>15. /\ ab.title = (IF a.title # "" THEN a.title ELSE b.title) /\ ab.meta = MetaOver(a.meta, b.meta)
       /\ bc.title = (IF b.title # "" THEN b.title ELSE c.title) /\ bc.meta = MetaOver(b.meta, c.meta)
       /\ left.title = (IF ab.title # "" THEN ab.title ELSE c.title) /\ left.meta = MetaOver(ab.meta, c.meta)
       /\ right.title = (IF a.title # "" THEN a.title ELSE bc.title) /\ right.meta = MetaOver(a.meta, bc.meta)
  BY DEF Concat, MetaOver
<1>16. /\ Bridges(ab) = Bridges(a) + Bridges(b) + (IF a.title # "" /\ b.title # "" THEN 1 ELSE 0)
       /\ Bridges(bc) = Bridges(b) + Bridges(c) + (IF b.title # "" /\ c.title # "" THEN 1 ELSE 0)
  BY <1>2, <1>12, BridgesOfConcat
<1> HIDE DEF a, b, c, ab, bc, parts, all, bridges
<1>17. /\ Bridges(left) = Bridges(ab) + Bridges(c) + (IF ab.title # "" /\ c.title # "" THEN 1 ELSE 0)
       /\ Bridges(right) = Bridges(a) + Bridges(bc) + (IF a.title # "" /\ bc.title # "" THEN 1 ELSE 0)
  BY <1>2, <1>12, <1>13, BridgesOfConcat
<1>18. /\ Real(RenderForPrompt(left)) = Real(RenderForPrompt(ab)) \o rc
       /\ Real(RenderForPrompt(right)) = ra \o Real(RenderForPrompt(bc))
  BY <1>2, <1>12, <1>13, RealOfConcat
<1> HIDE DEF left, right, ra, rb, rc
<1>19. Real(RenderForPrompt(left)) = parts /\ Real(RenderForPrompt(right)) = parts
  <2>1. ra \o (rb \o rc) = (ra \o rb) \o rc
    BY <1>10, JoinedTwice
  <2> QED
    BY <1>11, <1>14, <1>18, <2>1
<1>20. left.meta = all /\ right.meta = all
  BY <1>2, <1>15, MetaJoined DEF all
<1>21. /\ left.title = "" <=> TitledPapers = {}
       /\ right.title = "" <=> TitledPapers = {}
  <2>1. /\ ab.title = (IF a.title # "" THEN a.title ELSE b.title)
        /\ bc.title = (IF b.title # "" THEN b.title ELSE c.title)
        /\ left.title = (IF ab.title # "" THEN ab.title ELSE c.title)
        /\ right.title = (IF a.title # "" THEN a.title ELSE bc.title)
    BY <1>15
  <2>2. left.title = "" <=> a.title = "" /\ b.title = "" /\ c.title = ""
    BY <2>1
  <2>3. right.title = "" <=> a.title = "" /\ b.title = "" /\ c.title = ""
    BY <2>1
  <2> QED
    BY <1>9, <2>2, <2>3
<1>22. Bridges(left) = bridges /\ Bridges(right) = bridges
  <2> DEFINE i == a.title # ""
      j == b.title # ""
      k == c.title # ""
  <2>1. ab.title # "" <=> i \/ j
    BY <1>15
  <2>2. bc.title # "" <=> j \/ k
    BY <1>15
  <2>3. TitledPapers = {} <=> ~i /\ ~j /\ ~k
    BY <1>9
  <2> DEFINE p == IF a.title # "" THEN 1 ELSE 0
      q == IF b.title # "" THEN 1 ELSE 0
      r == IF c.title # "" THEN 1 ELSE 0
      n == Cardinality(TitledPapers)
      s == IF a.title # "" /\ b.title # "" THEN 1 ELSE 0
      t == IF b.title # "" /\ c.title # "" THEN 1 ELSE 0
      u == IF ab.title # "" /\ c.title # "" THEN 1 ELSE 0
      v == IF a.title # "" /\ bc.title # "" THEN 1 ELSE 0
  <2>4. /\ (i => p = 1) /\ (~i => p = 0) /\ (j => q = 1) /\ (~j => q = 0) /\ (k => r = 1) /\ (~k => r = 0)
        /\ (i /\ j => s = 1) /\ (~(i /\ j) => s = 0) /\ (j /\ k => t = 1) /\ (~(j /\ k) => t = 0)
    OBVIOUS
  <2>5. /\ ((i \/ j) /\ k => u = 1) /\ (~((i \/ j) /\ k) => u = 0)
        /\ (i /\ (j \/ k) => v = 1) /\ (~(i /\ (j \/ k)) => v = 0)
    BY <2>1, <2>2
  <2>6. n = p + q + r
    BY <1>8
  <2>7. (TitledPapers = {} => bridges = 0) /\ (TitledPapers # {} => bridges = n - 1)
    BY DEF bridges
  <2>8. Bridges(ab) = Bridges(a) + Bridges(b) + s /\ Bridges(bc) = Bridges(b) + Bridges(c) + t
    BY <1>16
  <2>9. Bridges(left) = Bridges(ab) + Bridges(c) + u /\ Bridges(right) = Bridges(a) + Bridges(bc) + v
    BY <1>17
  <2> HIDE DEF i, j, k, n, p, q, r, s, t, u, v
  <2>10. CASE i
    BY <1>3, <2>3, <2>4, <2>5, <2>6, <2>7, <2>8, <2>9, <2>10
  <2>11. CASE ~i
    BY <1>3, <2>3, <2>4, <2>5, <2>6, <2>7, <2>8, <2>9, <2>11
  <2> QED
    BY <2>10, <2>11
<1>23. Fine(left) /\ Fine(right)
  BY <1>19, <1>20, <1>21, <1>22
<1>24. Join(<<a, b, c>>) = left
  BY JoinIs DEF left, ab
<1>25. \A joined \in {Join(<<docs[1], docs[2], docs[3]>>), Concat(docs[1], Concat(docs[2], docs[3]))} : Fine(joined)
  BY <1>23, <1>24 DEF right, bc, a, b, c
<1> QED
  BY <1>25 DEF JoinedRendersAsParts, parts, bridges, all

LEMMA WholeIs == ContentInv => ContentIsWhole
<1> SUFFICES ASSUME ContentInv PROVE ContentIsWhole
  OBVIOUS
<1>1. HashMeansContent
  <2> SUFFICES ASSUME NEW a \in Papers, NEW b \in Papers
               PROVE  ContentPayload(docs[a]) = ContentPayload(docs[b]) <=> EqualContent(docs[a], docs[b])
    BY DEF HashMeansContent
  <2> QED
    BY PapersWellFormed, HashOfTwo
<1>2. EverythingShown
  <2>1. \A d \in Papers : EverythingShownOf(docs[d])
    BY PapersWellFormed, AllShown
  <2> QED
    BY <2>1, Zenon DEF EverythingShown, EverythingShownOf
<1>3. ShownInOnePlace
  <2>1. \A d \in Papers : ShownInOnePlaceOf(docs[d])
    BY PapersWellFormed, InOnePlace
  <2> QED
    BY <2>1, Zenon DEF ShownInOnePlace, ShownInOnePlaceOf
<1>4. JoinedRendersAsParts
  BY JoinedParts
<1> QED
  BY <1>1, <1>2, <1>3, <1>4 DEF ContentIsWhole

(* Whatever documents are built side by side, with whatever references, their *)
(* hashes tell their contents apart and not their ids, a rendering shows all  *)
(* but what only lost elements refer to, nothing twice, and joined documents  *)
(* render as their parts, in any grouping.                                    *)
THEOREM DocumentContentIsWhole == ContentSpec => []ContentIsWhole
<1>1. ContentInit => ContentInv
  BY ContentBegins
<1>2. ContentInv /\ [ContentNext]_docs => ContentInv'
  BY ContentStays
<1>3. ContentInv => ContentIsWhole
  BY WholeIs
<1> QED
  BY <1>1, <1>2, <1>3, PTL DEF ContentSpec

-----------------------------------------------------------------------------
(* What get_opcodes returns of a window. *)
CodeTags == {"replace", "delete", "insert", "equal"}

(* An opcode. *)
Codes == [tag : CodeTags, i1 : Nat, i2 : Nat, j1 : Nat, j2 : Nat]

(* The ranges of a window are not backwards. *)
Forwards(w) == w[1] <= w[2] /\ w[3] <= w[4]

(* An opcode of a window, with the ranges its tag asks for. *)
CodeIn(c, w) ==
  /\ c \in Codes
  /\ w[1] <= c.i1 /\ c.i1 <= c.i2 /\ c.i2 <= w[2]
  /\ w[3] <= c.j1 /\ c.j1 <= c.j2 /\ c.j2 <= w[4]
  /\ c.tag = "equal" => c.i2 - c.i1 = c.j2 - c.j1
  /\ c.tag = "replace" => c.i1 < c.i2 /\ c.j1 < c.j2

(* One opcode behind another in either sequence. *)
Follows == {p \in Codes \X Codes : p[1].i2 <= p[2].i1 /\ p[1].j2 <= p[2].j1}

(* The opcodes of a window follow each other. *)
Partition(s, w) ==
  s \in Seq(Codes) /\ (\A n \in 1 .. Len(s) : CodeIn(s[n], w)) /\ Pairwise(s, Follows)

(* A window's four ends. *)
LEMMA WindowEnds ==
  ASSUME NEW K, NEW ka \in Seq(K), NEW kb \in Seq(K), NEW w \in Windows(ka, kb)
  PROVE  /\ w[1] \in 1 .. Len(ka) + 1 /\ w[2] \in 1 .. Len(ka) + 1
         /\ w[3] \in 1 .. Len(kb) + 1 /\ w[4] \in 1 .. Len(kb) + 1
         /\ w = <<w[1], w[2], w[3], w[4]>>
         /\ Len(ka) \in Nat /\ Len(kb) \in Nat
  BY DEF Windows

(* A sequence of one opcode. *)
LEMMA SingleCode ==
  ASSUME NEW c \in Codes
  PROVE  <<c>> \in Seq(Codes) /\ Len(<<c>>) = 1 /\ <<c>>[1] = c /\ Pairwise(<<c>>, Follows)
  BY DEF Pairwise

(* The gap of a window. *)
LEMMA GapPartition ==
  ASSUME NEW K, NEW ka \in Seq(K), NEW kb \in Seq(K), NEW w \in Windows(ka, kb)
  PROVE  /\ Gap(w) \in Seq(Codes)
         /\ Forwards(w) => Partition(Gap(w), w)
         /\ w[1] = w[2] /\ w[3] = w[4] => Gap(w) = <<>>
<1> DEFINE a1 == w[1]
      a2 == w[2]
      b1 == w[3]
      b2 == w[4]
      C(tag) == Opcode(tag, a1, a2, b1, b2)
<1>1. a1 \in Nat /\ a2 \in Nat /\ b1 \in Nat /\ b2 \in Nat
  BY WindowEnds
<1>2. \A tag \in CodeTags : /\ C(tag) \in Codes /\ C(tag).tag = tag
                            /\ C(tag).i1 = a1 /\ C(tag).i2 = a2 /\ C(tag).j1 = b1 /\ C(tag).j2 = b2
  BY <1>1 DEF Opcode, Codes
<1>3. Gap(w) = CASE a1 < a2 /\ b1 < b2 -> <<C("replace")>>
                 [] a1 < a2 /\ b1 >= b2 -> <<C("delete")>>
                 [] a1 >= a2 /\ b1 < b2 -> <<C("insert")>>
                 [] OTHER -> <<>>
  BY DEF Gap
<1>4. Gap(w) = <<>> \/ \E tag \in CodeTags \ {"equal"} :
                         Gap(w) = <<C(tag)>> /\ (tag = "replace" => a1 < a2 /\ b1 < b2)
  <2>1. {"replace", "delete", "insert"} \subseteq CodeTags \ {"equal"}
    BY DEF CodeTags
  <2> HIDE DEF C, a1, a2, b1, b2
  <2>2. CASE a1 < a2 /\ b1 < b2
    <3>1. Gap(w) = <<C("replace")>>
      BY <1>1, <1>3, <2>2
    <3> QED
      BY <2>1, <2>2, <3>1
  <2>3. CASE a1 < a2 /\ b1 >= b2
    <3>1. Gap(w) = <<C("delete")>>
      BY <1>1, <1>3, <2>3
    <3> QED
      BY <2>1, <3>1
  <2>4. CASE a1 >= a2 /\ b1 < b2
    <3>1. Gap(w) = <<C("insert")>>
      BY <1>1, <1>3, <2>4
    <3> QED
      BY <2>1, <3>1
  <2>5. CASE a1 >= a2 /\ b1 >= b2
    BY <1>1, <1>3, <2>5
  <2> QED
    BY <1>1, <2>2, <2>3, <2>4, <2>5
<1>5. a1 = a2 /\ b1 = b2 => Gap(w) = <<>>
  BY <1>1, <1>3
<1> HIDE DEF C
<1>6. CASE Gap(w) = <<>>
  BY <1>6, <1>5 DEF Partition, Pairwise
<1>7. ASSUME NEW tag \in CodeTags \ {"equal"}, Gap(w) = <<C(tag)>>, tag = "replace" => a1 < a2 /\ b1 < b2
      PROVE  Gap(w) \in Seq(Codes) /\ (Forwards(w) => Partition(Gap(w), w))
  <2>1. Gap(w) \in Seq(Codes) /\ Len(Gap(w)) = 1 /\ Gap(w)[1] = C(tag) /\ Pairwise(Gap(w), Follows)
    BY <1>2, <1>7, SingleCode
  <2>2. Forwards(w) => CodeIn(C(tag), w)
    BY <1>1, <1>2, <1>7 DEF CodeIn, Forwards
  <2> QED
    BY <2>1, <2>2 DEF Partition
<1> QED
  BY <1>4, <1>5, <1>6, <1>7

(* A common block of a window. *)
LEMMA BlockIn ==
  ASSUME NEW K, NEW ka \in Seq(K), NEW kb \in Seq(K), NEW w \in Windows(ka, kb),
         NEW m \in Common(ka, kb, w)
  PROVE  /\ m[1] \in Nat /\ m[2] \in Nat /\ m[3] \in Nat /\ m[3] >= 1
         /\ w[1] <= m[1] /\ w[3] <= m[2] /\ m[1] + m[3] <= w[2] /\ m[2] + m[3] <= w[4]
         /\ m = <<m[1], m[2], m[3]>>
         /\ m[1] \in 1 .. Len(ka) + 1 /\ m[1] + m[3] \in 1 .. Len(ka) + 1
         /\ m[2] \in 1 .. Len(kb) + 1 /\ m[2] + m[3] \in 1 .. Len(kb) + 1
<1>1. /\ w[1] \in 1 .. Len(ka) + 1 /\ w[2] \in 1 .. Len(ka) + 1
      /\ w[3] \in 1 .. Len(kb) + 1 /\ w[4] \in 1 .. Len(kb) + 1
      /\ Len(ka) \in Nat /\ Len(kb) \in Nat
  BY WindowEnds
<1>2. m \in (w[1] .. (w[2] - 1)) \X (w[3] .. (w[4] - 1)) \X (1 .. (w[2] - w[1]))
      /\ m[1] + m[3] <= w[2] /\ m[2] + m[3] <= w[4]
  BY DEF Common
<1>3. m[1] \in w[1] .. (w[2] - 1) /\ m[2] \in w[3] .. (w[4] - 1) /\ m[3] \in 1 .. (w[2] - w[1])
      /\ m = <<m[1], m[2], m[3]>>
  BY <1>2
<1>4. /\ m[1] \in Int /\ m[2] \in Int /\ m[3] \in Int /\ w[1] <= m[1] /\ w[3] <= m[2] /\ 1 <= m[3]
      /\ w[1] \in Nat /\ w[2] \in Nat /\ w[3] \in Nat /\ w[4] \in Nat /\ 1 <= w[1] /\ 1 <= w[3]
      /\ w[2] <= Len(ka) + 1 /\ w[4] <= Len(kb) + 1
  <2>1. /\ w[1] \in Nat /\ w[2] \in Nat /\ w[3] \in Nat /\ w[4] \in Nat /\ 1 <= w[1] /\ 1 <= w[3]
        /\ w[2] <= Len(ka) + 1 /\ w[4] <= Len(kb) + 1
    BY <1>1
  <2>2. m[1] \in Int /\ w[1] <= m[1]
    BY <1>3, <2>1
  <2>3. m[2] \in Int /\ w[3] <= m[2]
    BY <1>3, <2>1
  <2>4. m[3] \in Int /\ 1 <= m[3]
    BY <1>3, <2>1
  <2> QED
    BY <2>1, <2>2, <2>3, <2>4
<1> DEFINE p == m[1]
      q == m[2]
      z == m[3]
      x == w[1]
      y == w[3]
      la == Len(ka)
      lb == Len(kb)
      t == w[2]
      u == w[4]
<1>5. /\ p \in Int /\ q \in Int /\ z \in Int /\ x \in Nat /\ y \in Nat /\ la \in Nat /\ lb \in Nat
      /\ x <= p /\ y <= q /\ 1 <= z /\ 1 <= x /\ 1 <= y /\ p + z <= t /\ q + z <= u
      /\ t \in Nat /\ u \in Nat /\ t <= la + 1 /\ u <= lb + 1
  BY <1>1, <1>2, <1>4
<1> HIDE DEF p, q, z, x, y, la, lb, t, u
<1>6. /\ p \in Nat /\ q \in Nat /\ z \in Nat /\ z >= 1
      /\ p \in 1 .. la + 1 /\ p + z \in 1 .. la + 1
      /\ q \in 1 .. lb + 1 /\ q + z \in 1 .. lb + 1
  BY <1>5
<1> QED
  BY <1>2, <1>3, <1>4, <1>6 DEF p, q, z, x, y, la, lb, t, u

(* The longest common block is one of them, and none is longer; of those as  *)
(* long none begins earlier.                                                 *)
LEMMA LongestIs ==
  ASSUME NEW K, NEW ka \in Seq(K), NEW kb \in Seq(K), NEW w \in Windows(ka, kb),
         Common(ka, kb, w) # {}
  PROVE  /\ Longest(Common(ka, kb, w)) \in Common(ka, kb, w)
         /\ \A m \in Common(ka, kb, w) : m[3] <= Longest(Common(ka, kb, w))[3]
<1> DEFINE C == Common(ka, kb, w)
      sizes == {m[3] : m \in C}
      size == Max(sizes)
      is == {m[1] : m \in {c \in C : c[3] = size}}
      i == Min(is)
      js == {m[2] : m \in {c \in C : c[3] = size /\ c[1] = i}}
      j == Min(js)
      L == Len(ka) + Len(kb) + 1
<1>1. L \in Nat /\ \A m \in C : /\ m[1] \in 0 .. L /\ m[2] \in 0 .. L /\ m[3] \in 0 .. L
                               /\ m = <<m[1], m[2], m[3]>>
  <2>1. Len(ka) \in Nat /\ Len(kb) \in Nat
    BY WindowEnds
  <2>2. ASSUME NEW m \in C
        PROVE  /\ m[1] \in Nat /\ m[2] \in Nat /\ m[3] \in Nat /\ m[3] >= 1
               /\ m[1] \in 1 .. Len(ka) + 1 /\ m[1] + m[3] \in 1 .. Len(ka) + 1
               /\ m[2] \in 1 .. Len(kb) + 1 /\ m = <<m[1], m[2], m[3]>>
    BY BlockIn
  <2> QED
    BY <2>1, <2>2
<1>2. Longest(C) = <<i, j, size>>
  BY DEF Longest
<1> HIDE DEF C, L
<1>3. C # {}
  BY DEF C
<1>4. size \in sizes /\ \A y \in sizes : size >= y
  <2>1. sizes \subseteq 0 .. L /\ sizes # {}
    BY <1>1, <1>3
  <2> HIDE DEF sizes
  <2> QED
    BY <1>1, <2>1, Extremes
<1> HIDE DEF size
<1>5. i \in is
  <2>1. is \subseteq 0 .. L /\ is # {}
    BY <1>1, <1>4
  <2> HIDE DEF is
  <2> QED
    BY <1>1, <2>1, Extremes
<1> HIDE DEF i
<1>6. j \in js
  <2>1. js \subseteq 0 .. L /\ js # {}
    BY <1>1, <1>5
  <2> HIDE DEF js
  <2> QED
    BY <1>1, <2>1, Extremes
<1> HIDE DEF j
<1>7. PICK m \in C : m[3] = size /\ m[1] = i /\ m[2] = j
  BY <1>6
<1>8. m = <<i, j, size>>
  BY <1>1, <1>7
<1>9. \A c \in C : c[3] <= size
  <2> SUFFICES ASSUME NEW c \in C PROVE c[3] <= size
    OBVIOUS
  <2>1. c[3] \in sizes /\ c[3] \in 0 .. L
    BY <1>1
  <2>2. size \in 0 .. L
    BY <1>1, <1>7
  <2> HIDE DEF sizes
  <2> QED
    BY <1>1, <1>4, <2>1, <2>2
<1>10. Longest(C) \in C /\ Longest(C)[3] = size
  BY <1>2, <1>7, <1>8
<1> QED
  BY <1>9, <1>10 DEF C

(* Four ends. *)
Quads == Nat \X Nat \X Nat \X Nat

(* The opcodes of two windows, one behind the other. *)
LEMMA Adjoined ==
  ASSUME NEW a, NEW b, NEW v \in Quads, NEW u \in Quads, NEW w \in Quads,
         Partition(a, v), Partition(b, u), v[2] <= u[1], v[4] <= u[3],
         w[1] <= v[1], w[3] <= v[3], v[2] <= w[2], v[4] <= w[4],
         w[1] <= u[1], w[3] <= u[3], u[2] <= w[2], u[4] <= w[4]
  PROVE  Partition(a \o b, w)
<1>1. /\ a \in Seq(Codes) /\ b \in Seq(Codes)
      /\ (\A n \in 1 .. Len(a) : CodeIn(a[n], v)) /\ (\A n \in 1 .. Len(b) : CodeIn(b[n], u))
      /\ Pairwise(a, Follows) /\ Pairwise(b, Follows)
  BY DEF Partition
<1>2. \A k \in 1 .. 4 : v[k] \in Nat /\ u[k] \in Nat /\ w[k] \in Nat
  BY DEF Quads
<1>3. \A c : CodeIn(c, v) \/ CodeIn(c, u) => CodeIn(c, w)
  BY <1>2 DEF CodeIn, Codes
<1>4. \A c, d : CodeIn(c, v) /\ CodeIn(d, u) => <<c, d>> \in Follows
  BY <1>2 DEF CodeIn, Codes, Follows
<1>5. AllBefore(a, b, Follows)
  BY <1>1, <1>4 DEF AllBefore
<1> HIDE DEF Quads
<1>6. Pairwise(a \o b, Follows)
  BY <1>1, <1>5, PairwiseJoined
<1>7. /\ a \o b \in Seq(Codes)
      /\ \A k \in 1 .. Len(a) : (a \o b)[k] = a[k]
      /\ \A k \in 1 .. Len(a \o b) : k \notin 1 .. Len(a) =>
           k - Len(a) \in 1 .. Len(b) /\ (a \o b)[k] = b[k - Len(a)]
  BY <1>1, Concatenated
<1>8. ASSUME NEW k \in 1 .. Len(a \o b) PROVE CodeIn((a \o b)[k], w)
  BY <1>1, <1>3, <1>7, Zenon
<1> QED
  BY <1>6, <1>7, <1>8 DEF Partition

(* The windows beside a common block, and the block's opcode. *)
LEMMA Beside ==
  ASSUME NEW K, NEW ka \in Seq(K), NEW kb \in Seq(K), NEW w \in Windows(ka, kb),
         NEW m \in Common(ka, kb, w)
  PROVE  /\ <<w[1], m[1], w[3], m[2]>> \in Windows(ka, kb)
         /\ <<m[1] + m[3], w[2], m[2] + m[3], w[4]>> \in Windows(ka, kb)
         /\ Opcode("equal", m[1], m[1] + m[3], m[2], m[2] + m[3]) \in Codes
<1>1. /\ w[1] \in 1 .. Len(ka) + 1 /\ w[2] \in 1 .. Len(ka) + 1
      /\ w[3] \in 1 .. Len(kb) + 1 /\ w[4] \in 1 .. Len(kb) + 1
  BY WindowEnds
<1>2. /\ m[1] \in 1 .. Len(ka) + 1 /\ m[1] + m[3] \in 1 .. Len(ka) + 1
      /\ m[2] \in 1 .. Len(kb) + 1 /\ m[2] + m[3] \in 1 .. Len(kb) + 1
  BY BlockIn
<1>3. m[1] \in Nat /\ m[1] + m[3] \in Nat /\ m[2] \in Nat /\ m[2] + m[3] \in Nat
  BY <1>2
<1> QED
  BY <1>1, <1>2, <1>3 DEF Windows, Opcode, Codes, CodeTags

(* What surrounds the longest block. *)
LEMMA DividedIs ==
  ASSUME NEW K, NEW ka \in Seq(K), NEW kb \in Seq(K), NEW w \in Windows(ka, kb),
         NEW inner \in [Windows(ka, kb) -> Seq(Codes)]
  PROVE  /\ Divided(ka, kb, inner, w) \in Seq(Codes)
         /\ Common(ka, kb, w) = {} => Divided(ka, kb, inner, w) = Gap(w)
         /\ Common(ka, kb, w) # {} =>
              \E m \in Common(ka, kb, w) :
                /\ m = Longest(Common(ka, kb, w))
                /\ Divided(ka, kb, inner, w)
                     = (inner[<<w[1], m[1], w[3], m[2]>>]
                          \o <<Opcode("equal", m[1], m[1] + m[3], m[2], m[2] + m[3])>>)
                         \o inner[<<m[1] + m[3], w[2], m[2] + m[3], w[4]>>]
<1>1. CASE Common(ka, kb, w) = {}
  BY <1>1, GapPartition DEF Divided
<1>2. CASE Common(ka, kb, w) # {}
  <2> DEFINE m == Longest(Common(ka, kb, w))
        left == inner[<<w[1], m[1], w[3], m[2]>>]
        eq == Opcode("equal", m[1], m[1] + m[3], m[2], m[2] + m[3])
        right == inner[<<m[1] + m[3], w[2], m[2] + m[3], w[4]>>]
  <2>1. m \in Common(ka, kb, w)
    BY <1>2, LongestIs
  <2>2. Divided(ka, kb, inner, w) = (left \o <<eq>>) \o right
    BY <1>2 DEF Divided
  <2> HIDE DEF m
  <2>3. left \in Seq(Codes) /\ right \in Seq(Codes) /\ eq \in Codes
    BY <2>1, Beside
  <2> HIDE DEF left, right, eq
  <2>4. (left \o <<eq>>) \o right \in Seq(Codes)
    BY <2>3
  <2>5. \E n \in Common(ka, kb, w) : n = m
    BY <2>1
  <2> QED
    BY <1>2, <2>1, <2>2, <2>4 DEF m, left, right, eq
<1> QED
  BY <1>1, <1>2

(* Partitions beside the longest block make a partition. *)
LEMMA DividedPartition ==
  ASSUME NEW K, NEW ka \in Seq(K), NEW kb \in Seq(K), NEW w \in Windows(ka, kb), Forwards(w),
         NEW inner \in [Windows(ka, kb) -> Seq(Codes)],
         \A v \in Windows(ka, kb) : Forwards(v) => Partition(inner[v], v)
  PROVE  Partition(Divided(ka, kb, inner, w), w)
<1>1. CASE Common(ka, kb, w) = {}
  <2>1. Divided(ka, kb, inner, w) = Gap(w)
    BY <1>1, DividedIs
  <2> QED
    BY <2>1, GapPartition
<1>2. CASE Common(ka, kb, w) # {}
  <2>1. PICK m \in Common(ka, kb, w) :
          Divided(ka, kb, inner, w)
            = (inner[<<w[1], m[1], w[3], m[2]>>]
                 \o <<Opcode("equal", m[1], m[1] + m[3], m[2], m[2] + m[3])>>)
                \o inner[<<m[1] + m[3], w[2], m[2] + m[3], w[4]>>]
    BY <1>2, DividedIs
  <2> DEFINE v == <<w[1], m[1], w[3], m[2]>>
        eq == Opcode("equal", m[1], m[1] + m[3], m[2], m[2] + m[3])
        e == <<m[1], m[1] + m[3], m[2], m[2] + m[3]>>
        ve == <<w[1], m[1] + m[3], w[3], m[2] + m[3]>>
        u == <<m[1] + m[3], w[2], m[2] + m[3], w[4]>>
  <2>2. /\ m[1] \in Nat /\ m[2] \in Nat /\ m[3] \in Nat /\ m[3] >= 1
        /\ w[1] <= m[1] /\ w[3] <= m[2] /\ m[1] + m[3] <= w[2] /\ m[2] + m[3] <= w[4]
    BY BlockIn
  <2>3. v \in Windows(ka, kb) /\ u \in Windows(ka, kb) /\ eq \in Codes
    BY Beside
  <2>4. w[1] \in Nat /\ w[2] \in Nat /\ w[3] \in Nat /\ w[4] \in Nat
    BY WindowEnds
  <2>5. Forwards(v) /\ Forwards(u)
    BY <2>2, <2>4 DEF Forwards
  <2>6. Partition(inner[v], v) /\ Partition(inner[u], u)
    BY <2>3, <2>5
  <2>7. Partition(<<eq>>, e)
    <3>1. <<eq>> \in Seq(Codes) /\ Len(<<eq>>) = 1 /\ <<eq>>[1] = eq /\ Pairwise(<<eq>>, Follows)
      BY <2>3, SingleCode
    <3>2. CodeIn(eq, e)
      <4>1. /\ eq.tag = "equal" /\ eq.i1 = m[1] /\ eq.i2 = m[1] + m[3]
            /\ eq.j1 = m[2] /\ eq.j2 = m[2] + m[3]
        BY DEF Opcode
      <4> QED
        BY <2>2, <2>3, <4>1 DEF CodeIn
    <3> HIDE DEF eq, e
    <3> QED
      BY <3>1, <3>2 DEF Partition
  <2>8. /\ v \in Quads /\ e \in Quads /\ ve \in Quads /\ u \in Quads /\ w \in Quads
    <3>1. w = <<w[1], w[2], w[3], w[4]>>
      BY WindowEnds
    <3> QED
      BY <2>2, <2>4, <3>1 DEF Quads
  <2> DEFINE s == inner[v]
        t == inner[u]
        x == <<eq>>
  <2>9. Partition(s \o x, ve)
    <3>1. /\ v[1] = w[1] /\ v[2] = m[1] /\ v[3] = w[3] /\ v[4] = m[2]
          /\ e[1] = m[1] /\ e[2] = m[1] + m[3] /\ e[3] = m[2] /\ e[4] = m[2] + m[3]
          /\ ve[1] = w[1] /\ ve[2] = m[1] + m[3] /\ ve[3] = w[3] /\ ve[4] = m[2] + m[3]
      OBVIOUS
    <3> HIDE DEF v, e, ve
    <3>2. /\ v[2] <= e[1] /\ v[4] <= e[3]
          /\ ve[1] <= v[1] /\ ve[3] <= v[3] /\ v[2] <= ve[2] /\ v[4] <= ve[4]
          /\ ve[1] <= e[1] /\ ve[3] <= e[3] /\ e[2] <= ve[2] /\ e[4] <= ve[4]
      <4>1. v[2] <= e[1] /\ v[4] <= e[3] /\ ve[1] <= v[1] /\ ve[3] <= v[3]
        BY <2>2, <2>4, <3>1
      <4>2. v[2] <= ve[2] /\ v[4] <= ve[4]
        BY <2>2, <3>1
      <4>3. ve[1] <= e[1] /\ ve[3] <= e[3]
        BY <2>2, <3>1
      <4>4. e[2] <= ve[2] /\ e[4] <= ve[4]
        BY <2>2, <3>1
      <4> QED
        BY <4>1, <4>2, <4>3, <4>4
    <3>3. Partition(s, v) /\ Partition(x, e)
      BY <2>6, <2>7
    <3> HIDE DEF s, x
    <3> QED
      BY <2>8, <3>2, <3>3, Adjoined
  <2>10. Partition((s \o x) \o t, w)
    <3>1. /\ u[1] = m[1] + m[3] /\ u[2] = w[2] /\ u[3] = m[2] + m[3] /\ u[4] = w[4]
          /\ ve[1] = w[1] /\ ve[2] = m[1] + m[3] /\ ve[3] = w[3] /\ ve[4] = m[2] + m[3]
      OBVIOUS
    <3> HIDE DEF u, ve
    <3>2. /\ ve[2] <= u[1] /\ ve[4] <= u[3]
          /\ w[1] <= ve[1] /\ w[3] <= ve[3] /\ ve[2] <= w[2] /\ ve[4] <= w[4]
          /\ w[1] <= u[1] /\ w[3] <= u[3] /\ u[2] <= w[2] /\ u[4] <= w[4]
      <4>1. ve[2] <= u[1] /\ ve[4] <= u[3]
        BY <2>2, <3>1
      <4>2. w[1] <= ve[1] /\ w[3] <= ve[3] /\ u[2] <= w[2] /\ u[4] <= w[4]
        BY <2>4, <3>1
      <4>3. ve[2] <= w[2] /\ ve[4] <= w[4]
        BY <2>2, <3>1
      <4>4. w[1] <= u[1]
        BY <2>2, <2>4, <3>1
      <4>5. w[3] <= u[3]
        BY <2>2, <2>4, <3>1
      <4> QED
        BY <4>1, <4>2, <4>3, <4>4, <4>5
    <3>3. Partition(t, u)
      BY <2>6
    <3> DEFINE sx == s \o x
    <3>4. Partition(sx, ve)
      BY <2>9
    <3> HIDE DEF sx, t
    <3>5. Partition(sx \o t, w)
      BY <2>8, <3>2, <3>3, <3>4, Adjoined
    <3> QED
      BY <3>5 DEF sx
  <2> QED
    BY <2>1, <2>10
<1> QED
  BY <1>1, <1>2

(* The equations of get_opcodes. *)
CodesBy(ka, kb, f) ==
  /\ f[Len(ka)][<<1, Len(ka) + 1, 1, Len(kb) + 1>>] = Opcodes(ka, kb)
  /\ \A w \in Windows(ka, kb) : f[0][w] = Gap(w)
  /\ \A n \in 1 .. Len(ka) : \A w \in Windows(ka, kb) : f[n][w] = Divided(ka, kb, f[n - 1], w)

(* get_opcodes is the recursion's last function. *)
LEMMA OpcodesBy ==
  ASSUME NEW K, NEW ka \in Seq(K), NEW kb \in Seq(K)
  PROVE  \E f \in [0 .. Len(ka) -> [Windows(ka, kb) -> Seq(Codes)]] : CodesBy(ka, kb, f)
<1> DEFINE L == Len(ka)
    W == Windows(ka, kb)
    X == [W -> Seq(Codes)]
    D(inner) == [w \in W |-> Divided(ka, kb, inner, w)]
    base == [w \in W |-> Gap(w)]
    T == [p \in X \X (1 .. L) |-> D(p[1])]
    Then(g, n) == [w \in W |-> IF n = 0 THEN Gap(w) ELSE Divided(ka, kb, g[n - 1], w)]
    Solves(g) == g = [n \in 0 .. L |-> Then(g, n)]
    full == <<1, Len(ka) + 1, 1, Len(kb) + 1>>
<1>1. L \in Nat
  OBVIOUS
<1>2. base \in X
  <2>1. \A w \in W : Gap(w) \in Seq(Codes)
    BY GapPartition
  <2> HIDE DEF W
  <2> QED
    BY <2>1
<1>3. ASSUME NEW inner \in X PROVE D(inner) \in X
  <2>1. ASSUME NEW w \in W PROVE Divided(ka, kb, inner, w) \in Seq(Codes)
    BY DividedIs
  <2> HIDE DEF W
  <2> QED
    BY <2>1
<1>4. StaysIn(T, X, L)
  <2> HIDE DEF X, L, D
  <2> QED
    BY <1>3 DEF StaysIn
<1>5. PICK f \in [0 .. L -> X] : f[0] = base /\ \A n \in 1 .. L : f[n] = T[<<f[n - 1], n>>]
  <2> HIDE DEF X, L, T, base
  <2> QED
    BY <1>1, <1>2, <1>4, Iterated
<1>6. ASSUME NEW n \in 1 .. L PROVE f[n] = D(f[n - 1])
  <2>1. f[n - 1] \in X
    <3> HIDE DEF X
    <3> QED
      BY <1>1
  <2>2. T[<<f[n - 1], n>>] = D(f[n - 1])
    <3> HIDE DEF X, L, D
    <3> QED
      BY <2>1
  <2> QED
    BY <1>5, <2>2, Zenon
<1>7. Solves(f)
  <2>1. f = [n \in 0 .. L |-> f[n]]
    OBVIOUS
  <2>2. ASSUME NEW n \in 0 .. L PROVE f[n] = Then(f, n)
    <3>1. CASE n = 0
      <4> HIDE DEF W
      <4> QED
        BY <1>5, <3>1
    <3>2. CASE n # 0
      <4>1. n \in 1 .. L
        BY <1>1, <3>2
      <4>2. f[n] = D(f[n - 1])
        BY <1>6, <4>1
      <4> HIDE DEF W
      <4> QED
        BY <3>2, <4>2
    <3> QED
      BY <3>1, <3>2
  <2> HIDE DEF Then, L
  <2> QED
    BY <2>1, <2>2
<1> DEFINE g == CHOOSE g : Solves(g)
<1>8. Solves(g)
  <2> HIDE DEF Solves
  <2> QED
    BY <1>7
<1>9. Opcodes(ka, kb) = g[L][full]
  BY DEF Opcodes
<1> HIDE DEF g
<1>10. \A n \in 0 .. L : g[n] = Then(g, n)
  <2> HIDE DEF Then, L
  <2> QED
    BY <1>8
<1> DEFINE P == {n \in 0 .. L : g[n] = f[n]}
<1>11. 0 \in P
  <2>1. 0 \in 0 .. L
    BY <1>1
  <2>2. g[0] = base
    <3> HIDE DEF W, L
    <3> QED
      BY <1>10, <2>1
  <2> QED
    BY <1>5, <2>1, <2>2
<1>12. ASSUME NEW n \in 1 .. L, n - 1 \in P PROVE n \in P
  <2>1. n \in 0 .. L /\ n # 0 /\ g[n - 1] = f[n - 1]
    BY <1>1, <1>12
  <2>2. g[n] = D(g[n - 1])
    <3> HIDE DEF W, L, P
    <3> QED
      BY <1>10, <2>1
  <2> QED
    BY <1>6, <2>1, <2>2
<1>13. L \in P
  <2> HIDE DEF P
  <2>1. L \in Nat /\ \A n \in 1 .. L : n - 1 \in P => n \in P
    BY <1>1, <1>12
  <2> HIDE DEF L
  <2>2. \A n \in 0 .. L : n \in P
    BY <1>11, <2>1, UpTo
  <2> QED
    BY <2>1, <2>2
<1>14. CodesBy(ka, kb, f)
  <2>1. f[L][full] = Opcodes(ka, kb)
    BY <1>9, <1>13
  <2>2. \A w \in W : f[0][w] = Gap(w)
    BY <1>5
  <2>3. \A n \in 1 .. L : \A w \in W : f[n][w] = Divided(ka, kb, f[n - 1], w)
    BY <1>6
  <2> QED
    BY <2>1, <2>2, <2>3 DEF CodesBy
<1> QED
  BY <1>14

(* The whole of two sequences. *)
WholeWindow(ka, kb) == <<1, Len(ka) + 1, 1, Len(kb) + 1>>

(* get_opcodes covers windows inside two sequences, one behind the other. *)
LEMMA OpcodesPartition ==
  ASSUME NEW K, NEW ka \in Seq(K), NEW kb \in Seq(K)
  PROVE  Partition(Opcodes(ka, kb), WholeWindow(ka, kb))
<1>1. PICK f \in [0 .. Len(ka) -> [Windows(ka, kb) -> Seq(Codes)]] : CodesBy(ka, kb, f)
  BY OpcodesBy
<1> DEFINE L == Len(ka)
    W == Windows(ka, kb)
    P == {n \in 0 .. L : \A w \in W : Forwards(w) => Partition(f[n][w], w)}
<1>2. L \in Nat /\ Len(kb) \in Nat
  OBVIOUS
<1>3. 0 \in P
  <2>1. \A w \in W : Forwards(w) => Partition(f[0][w], w)
    BY <1>1, GapPartition DEF CodesBy
  <2> QED
    BY <1>2, <2>1
<1>4. ASSUME NEW n \in 1 .. L, n - 1 \in P PROVE n \in P
  <2>1. n \in 0 .. L /\ n - 1 \in 0 .. L
    BY <1>2
  <2> DEFINE inner == f[n - 1]
  <2>2. inner \in [W -> Seq(Codes)] /\ \A v \in W : Forwards(v) => Partition(inner[v], v)
    BY <1>4, <2>1
  <2> HIDE DEF inner
  <2>3. ASSUME NEW w \in W, Forwards(w) PROVE Partition(f[n][w], w)
    <3>1. f[n][w] = Divided(ka, kb, inner, w)
      BY <1>1 DEF CodesBy, inner
    <3>2. Partition(Divided(ka, kb, inner, w), w)
      BY <2>2, <2>3, DividedPartition
    <3> QED
      BY <3>1, <3>2
  <2> QED
    BY <2>1, <2>3
<1>5. L \in P
  <2> HIDE DEF P
  <2>1. L \in Nat /\ \A n \in 1 .. L : n - 1 \in P => n \in P
    BY <1>2, <1>4
  <2> HIDE DEF L
  <2>2. \A n \in 0 .. L : n \in P
    BY <1>3, <2>1, UpTo
  <2> QED
    BY <2>1, <2>2
<1>6. WholeWindow(ka, kb) \in W /\ Forwards(WholeWindow(ka, kb))
  BY <1>2 DEF WholeWindow, Windows, Forwards
<1>7. f[L][WholeWindow(ka, kb)] = Opcodes(ka, kb)
  BY <1>1 DEF CodesBy, WholeWindow
<1> QED
  BY <1>5, <1>6, <1>7

(* A window with nothing in it. *)
LEMMA EmptyWindow ==
  ASSUME NEW K, NEW ka \in Seq(K), NEW kb \in Seq(K), NEW w \in Windows(ka, kb),
         w[1] = w[2], w[3] = w[4],
         NEW f \in [0 .. Len(ka) -> [Windows(ka, kb) -> Seq(Codes)]], CodesBy(ka, kb, f),
         NEW n \in 0 .. Len(ka)
  PROVE  f[n][w] = <<>>
<1>1. Gap(w) = <<>>
  BY GapPartition
<1>2. CASE n = 0
  BY <1>1, <1>2 DEF CodesBy
<1>3. CASE n # 0
  <2>1. n \in 1 .. Len(ka) /\ n - 1 \in 0 .. Len(ka)
    BY <1>3
  <2>2. f[n][w] = Divided(ka, kb, f[n - 1], w)
    BY <2>1 DEF CodesBy
  <2>3. Common(ka, kb, w) = {}
    <3>1. \A m \in Common(ka, kb, w) : m[3] \in Nat /\ m[3] >= 1 /\ w[1] <= m[1] /\ m[1] + m[3] <= w[2] /\ m[1] \in Nat
      BY BlockIn
    <3>2. w[1] \in Nat
      BY WindowEnds
    <3> QED
      BY <3>1, <3>2
  <2>4. Divided(ka, kb, f[n - 1], w) = Gap(w)
    BY <2>3 DEF Divided
  <2> QED
    BY <1>1, <2>2, <2>4
<1> QED
  BY <1>2, <1>3

(* Two sequences that are the same are one block. *)
LEMMA SameOpcodes ==
  ASSUME NEW K, NEW ka \in Seq(K)
  PROVE  /\ ka = <<>> => Opcodes(ka, ka) = <<>>
         /\ ka # <<>> => Opcodes(ka, ka) = <<Opcode("equal", 1, Len(ka) + 1, 1, Len(ka) + 1)>>
<1>1. PICK f \in [0 .. Len(ka) -> [Windows(ka, ka) -> Seq(Codes)]] : CodesBy(ka, ka, f)
  BY OpcodesBy
<1> DEFINE L == Len(ka)
    W == Windows(ka, ka)
    w == <<1, L + 1, 1, L + 1>>
    C == Common(ka, ka, w)
<1>2. L \in Nat /\ f[L][w] = Opcodes(ka, ka) /\ w \in W
  BY <1>1 DEF CodesBy, Windows
<1>3. CASE ka = <<>>
  <2>1. L = 0 /\ w[1] = w[2] /\ w[3] = w[4]
    BY <1>3
  <2>2. f[L][w] = <<>>
    <3>1. L \in 0 .. Len(ka)
      BY <1>2
    <3> HIDE DEF L, w
    <3> QED
      BY <1>1, <1>2, <2>1, <3>1, EmptyWindow
  <2> QED
    BY <1>2, <1>3, <2>2
<1>4. CASE ka # <<>>
  <2>1. L >= 1
    BY <1>4
  <2>2. <<1, 1, L>> \in C
    <3>1. w[1] = 1 /\ w[2] = L + 1 /\ w[3] = 1 /\ w[4] = L + 1
      OBVIOUS
    <3>2. 1 \in w[1] .. (w[2] - 1) /\ 1 \in w[3] .. (w[4] - 1) /\ L \in 1 .. (w[2] - w[1])
          /\ 1 + L <= w[2] /\ 1 + L <= w[4]
      BY <1>2, <2>1
    <3> HIDE DEF w, L
    <3> QED
      BY <3>2 DEF Common
  <2>3. PICK m \in C :
          /\ m = Longest(C)
          /\ f[L][w] = (f[L - 1][<<w[1], m[1], w[3], m[2]>>]
                         \o <<Opcode("equal", m[1], m[1] + m[3], m[2], m[2] + m[3])>>)
                        \o f[L - 1][<<m[1] + m[3], w[2], m[2] + m[3], w[4]>>]
    <3>1. f[L][w] = Divided(ka, ka, f[L - 1], w) /\ f[L - 1] \in [W -> Seq(Codes)]
      <4>1. L \in 1 .. L /\ L - 1 \in 0 .. L
        BY <1>2, <2>1
      <4>2. \A n \in 1 .. L : \A v \in W : f[n][v] = Divided(ka, ka, f[n - 1], v)
        BY <1>1 DEF CodesBy
      <4>3. f \in [0 .. L -> [W -> Seq(Codes)]]
        OBVIOUS
      <4> HIDE DEF L, W, w
      <4> QED
        BY <1>2, <4>1, <4>2, <4>3
    <3> DEFINE inner == f[L - 1]
    <3>2. C # {}
      BY <2>2
    <3>3. inner \in [W -> Seq(Codes)] /\ f[L][w] = Divided(ka, ka, inner, w)
      BY <3>1
    <3> HIDE DEF inner, w
    <3>4. \E m \in C :
            /\ m = Longest(C)
            /\ Divided(ka, ka, inner, w) = (inner[<<w[1], m[1], w[3], m[2]>>]
                         \o <<Opcode("equal", m[1], m[1] + m[3], m[2], m[2] + m[3])>>)
                        \o inner[<<m[1] + m[3], w[2], m[2] + m[3], w[4]>>]
      BY <1>2, <3>2, <3>3, DividedIs
    <3> QED
      BY <3>3, <3>4 DEF inner
  <2>4. m[3] >= L
    <3>1. <<1, 1, L>>[3] <= Longest(C)[3]
      <4> HIDE DEF w, L
      <4> QED
        BY <1>2, <2>2, LongestIs
    <3>2. m[3] \in Nat
      <4> HIDE DEF w
      <4> QED
        BY <1>2, BlockIn
    <3> QED
      BY <1>2, <2>3, <3>1, <3>2
  <2>5. m[1] = 1 /\ m[2] = 1 /\ m[3] = L
    <3>1. /\ m[1] \in Nat /\ m[2] \in Nat /\ m[3] \in Nat
          /\ w[1] <= m[1] /\ w[3] <= m[2] /\ m[1] + m[3] <= w[2] /\ m[2] + m[3] <= w[4]
      <4> HIDE DEF w
      <4> QED
        BY <1>2, BlockIn
    <3> QED
      BY <1>2, <2>4, <3>1
  <2>6. f[L][w] = (f[L - 1][<<1, 1, 1, 1>>] \o <<Opcode("equal", 1, L + 1, 1, L + 1)>>)
                    \o f[L - 1][<<L + 1, L + 1, L + 1, L + 1>>]
    <3>1. m[1] + m[3] = L + 1 /\ m[2] + m[3] = L + 1
      BY <1>2, <2>5
    <3> QED
      BY <2>3, <2>5, <3>1
  <2>7. f[L - 1][<<1, 1, 1, 1>>] = <<>> /\ f[L - 1][<<L + 1, L + 1, L + 1, L + 1>>] = <<>>
    <3> DEFINE v == <<1, 1, 1, 1>>
          u == <<L + 1, L + 1, L + 1, L + 1>>
    <3>1. /\ v \in W /\ v[1] = v[2] /\ v[3] = v[4] /\ u \in W /\ u[1] = u[2] /\ u[3] = u[4]
          /\ L - 1 \in 0 .. Len(ka)
      BY <1>2, <2>1 DEF Windows
    <3> DEFINE n == L - 1
    <3>2. n \in 0 .. Len(ka)
      BY <3>1
    <3> HIDE DEF v, u, n
    <3>3. f[n][v] = <<>>
      BY <1>1, <3>1, <3>2, EmptyWindow
    <3>4. f[n][u] = <<>>
      BY <1>1, <3>1, <3>2, EmptyWindow
    <3> QED
      BY <3>3, <3>4 DEF v, u, n
  <2>8. f[L][w] = <<Opcode("equal", 1, L + 1, 1, L + 1)>>
    <3>1. <<Opcode("equal", 1, L + 1, 1, L + 1)>> \in Seq(Codes)
      BY <1>2 DEF Opcode, Codes, CodeTags
    <3> DEFINE x == <<Opcode("equal", 1, L + 1, 1, L + 1)>>
    <3>2. (<<>> \o x) \o <<>> = x
      <4>1. x \in Seq(Codes)
        BY <3>1
      <4> HIDE DEF x
      <4> QED
        BY <4>1, JoinedNothing
    <3> QED
      BY <2>6, <2>7, <3>2
  <2> QED
    BY <1>2, <1>4, <2>8
<1> QED
  BY <1>3, <1>4

(* What an element of a parse or of a merge is. *)
OriginIds == {"a", "b"} \X Nat

(* Its id, or that of a heading merged from it. *)
MergeIds == OriginIds \cup ({"new"} \X OriginIds)

(* The elements. *)
MergeElements ==
  [id : MergeIds, type : ElementTypes, text : Nat, rich : Nat, level : 1 .. 6, refs : SUBSET OriginIds]

(* A group of elements. *)
Groups == Seq(MergeElements) \ {<<>>}

(* The sentinel is an element. *)
LEMMA SentinelIn ==
  ASSUME NEW side \in {"a", "b"}
  PROVE  /\ Sentinel(side) \in MergeElements /\ Sentinel(side).id = <<side, 0>>
         /\ Sentinel(side).text = 0 /\ Sentinel(side).refs = {} /\ Sentinel(side).type = "raw_text"
         /\ Sentinel(side).rich = 0 /\ Sentinel(side).level = 1
  BY DEF Sentinel, MergeElements, MergeIds, OriginIds, ElementTypes

(* A group is a sequence, and so is one with an element more. *)
LEMMA GroupFacts ==
  ASSUME NEW g \in Groups, NEW e \in MergeElements
  PROVE  /\ g \in Seq(MergeElements) /\ Len(g) \in Nat /\ Len(g) >= 1 /\ g[1] \in MergeElements
         /\ Append(g, e) \in Groups /\ <<e>> \in Groups /\ Head(g) = g[1]
  BY DEF Groups

(* What an element does to the groups so far. *)
LEMMA WithElementIs ==
  ASSUME NEW gs \in Seq(Groups), NEW e \in MergeElements, NEW side \in {"a", "b"}
  PROVE  /\ WithElement(gs, e, side) \in Seq(Groups)
         /\ e.type \in Primary => WithElement(gs, e, side) = Append(gs, <<e>>)
         /\ e.type \notin Primary /\ gs = <<>> => WithElement(gs, e, side) = Append(gs, <<Sentinel(side), e>>)
         /\ e.type \notin Primary /\ gs # <<>> =>
              WithElement(gs, e, side) = Append(Front(gs), Append(Last(gs), e))
<1>1. CASE e.type \in Primary
  <2>1. WithElement(gs, e, side) = Append(gs, <<e>>)
    BY <1>1 DEF WithElement
  <2>2. <<e>> \in Groups
    BY DEF Groups
  <2>3. Append(gs, <<e>>) \in Seq(Groups)
    BY <2>2
  <2> QED
    BY <1>1, <2>1, <2>3
<1>2. CASE e.type \notin Primary /\ gs = <<>>
  <2> DEFINE g == <<Sentinel(side), e>>
  <2>1. g \in Groups
    BY SentinelIn DEF Groups
  <2>2. WithElement(gs, e, side) = <<g>>
    BY <1>2 DEF WithElement
  <2> HIDE DEF g
  <2>3. <<g>> = Append(gs, g) /\ <<g>> \in Seq(Groups)
    BY <1>2, <2>1
  <2> QED
    BY <1>2, <2>2, <2>3 DEF g
<1>3. CASE e.type \notin Primary /\ gs # <<>>
  <2> DEFINE L == Len(gs)
        new == Append(gs[L], e)
  <2>1. L \in Nat /\ L >= 1 /\ gs[L] \in Groups /\ DOMAIN gs = 1 .. L
    BY <1>3
  <2>2. new \in Groups
    BY <2>1, GroupFacts
  <2>3. WithElement(gs, e, side) = [gs EXCEPT ![L] = new]
    BY <1>3 DEF WithElement
  <2>4. Front(gs) = SubSeq(gs, 1, L - 1) /\ Last(gs) = gs[L]
    BY DEF Front, Last
  <2>5. SubSeq(gs, 1, L - 1) \in Seq(Groups) /\ Len(SubSeq(gs, 1, L - 1)) = L - 1
        /\ \A n \in 1 .. L - 1 : SubSeq(gs, 1, L - 1)[n] = gs[n]
    <3>1. L - 1 \in 0 .. Len(gs)
      BY <2>1
    <3> DEFINE m == L - 1
    <3>2. m \in 0 .. Len(gs)
      BY <3>1
    <3> HIDE DEF m
    <3>3. SubSeq(gs, 1, m) \in Seq(Groups) /\ Len(SubSeq(gs, 1, m)) = m
          /\ \A n \in 1 .. m : SubSeq(gs, 1, m)[n] = gs[n]
      BY <3>2, Prefix
    <3> QED
      BY <3>3 DEF m
  <2> DEFINE f == SubSeq(gs, 1, L - 1)
        u == Append(f, new)
        v == [gs EXCEPT ![L] = new]
  <2>6. f \in Seq(Groups) /\ Len(f) = L - 1 /\ \A n \in 1 .. L - 1 : f[n] = gs[n]
    BY <2>5
  <2> HIDE DEF new, f
  <2>7. u \in Seq(Groups) /\ Len(u) = L /\ u[L] = new /\ \A n \in 1 .. L - 1 : u[n] = gs[n]
    <3>1. Len(u) = Len(f) + 1 /\ u \in Seq(Groups) /\ u[Len(f) + 1] = new
          /\ \A n \in 1 .. Len(f) : u[n] = f[n]
      BY <2>2, <2>6, AppendFacts
    <3>2. Len(f) + 1 = L /\ Len(f) = L - 1
      BY <2>1, <2>6
    <3> HIDE DEF u, L
    <3> QED
      BY <2>6, <3>1, <3>2
  <2>8. v \in Seq(Groups) /\ Len(v) = L /\ v[L] = new /\ \A n \in 1 .. L - 1 : v[n] = gs[n]
    <3>1. v \in [1 .. L -> Groups]
      BY <2>1, <2>2
    <3>2. v \in Seq(Groups) /\ Len(v) = L
      BY <2>1, <3>1
    <3>3. v[L] = new /\ \A n \in 1 .. L - 1 : v[n] = gs[n]
      <4>1. L \in 1 .. L /\ \A n \in 1 .. L - 1 : n \in 1 .. L /\ n # L
        <5>1. L \in Nat /\ L >= 1
          BY <2>1
        <5> HIDE DEF L
        <5> QED
          BY <5>1
      <4>2. DOMAIN gs = 1 .. L
        BY <2>1
      <4> HIDE DEF L
      <4> QED
        BY <4>1, <4>2
    <3> QED
      BY <3>2, <3>3
  <2>9. u = v
    <3>1. \A n \in 1 .. L : u[n] = v[n]
      <4> SUFFICES ASSUME NEW n \in 1 .. L PROVE u[n] = v[n]
        OBVIOUS
      <4>1. n = L \/ n \in 1 .. L - 1
        <5>1. L \in Nat /\ n \in 1 .. L
          BY <2>1
        <5> HIDE DEF L
        <5> QED
          BY <5>1
      <4> HIDE DEF u, v, L
      <4> QED
        BY <2>7, <2>8, <4>1
    <3> HIDE DEF u, v, L
    <3> QED
      BY <2>7, <2>8, <3>1, SeqsAgree
  <2> QED
    BY <1>3, <2>3, <2>4, <2>8, <2>9 DEF new, f
<1> QED
  BY <1>1, <1>2, <1>3

(* The equations of _group_with_trailing. *)
GroupsBy(s, side, f) ==
  /\ f[0] = <<>> /\ f[Len(s)] = GroupWithTrailing(s, side)
  /\ \A n \in 1 .. Len(s) : f[n] = WithElement(f[n - 1], s[n], side)

(* The groups are the recursion's last value. *)
LEMMA Grouped ==
  ASSUME NEW s \in Seq(MergeElements), NEW side \in {"a", "b"}
  PROVE  \E f \in [0 .. Len(s) -> Seq(Groups)] : GroupsBy(s, side, f)
<1> DEFINE L == Len(s)
    X == Seq(Groups)
    T == [w \in X \X (1 .. L) |-> WithElement(w[1], s[w[2]], side)]
    Then(g, n) == IF n = 0 THEN <<>> ELSE WithElement(g[n - 1], s[n], side)
    Solves(g) == g = [n \in 0 .. L |-> Then(g, n)]
    none == <<>>
<1>1. L \in Nat /\ none \in X /\ \A n \in 1 .. L : s[n] \in MergeElements
  OBVIOUS
<1>2. StaysIn(T, X, L)
  <2>1. ASSUME NEW w \in X \X (1 .. L) PROVE WithElement(w[1], s[w[2]], side) \in X
    <3>1. w[1] \in Seq(Groups) /\ s[w[2]] \in MergeElements
      BY <1>1
    <3> QED
      BY <3>1, WithElementIs
  <2> HIDE DEF X, L
  <2> QED
    BY <2>1 DEF StaysIn
<1>3. PICK f \in [0 .. L -> X] : f[0] = none /\ \A n \in 1 .. L : f[n] = T[<<f[n - 1], n>>]
  <2> HIDE DEF X, L, T, none
  <2> QED
    BY <1>1, <1>2, Iterated
<1>4. ASSUME NEW n \in 1 .. L PROVE f[n] = WithElement(f[n - 1], s[n], side)
  <2>1. f[n - 1] \in X
    <3> HIDE DEF X
    <3> QED
      BY <1>1
  <2>2. T[<<f[n - 1], n>>] = WithElement(f[n - 1], s[n], side)
    <3> HIDE DEF X, L
    <3> QED
      BY <2>1
  <2> QED
    BY <1>3, <2>2, Zenon
<1>5. Solves(f)
  <2>1. f = [n \in 0 .. L |-> f[n]]
    OBVIOUS
  <2>2. ASSUME NEW n \in 0 .. L PROVE f[n] = Then(f, n)
    <3>1. CASE n = 0
      BY <1>3, <3>1
    <3>2. CASE n # 0
      <4>1. n \in 1 .. L
        BY <1>1, <3>2
      <4> QED
        BY <1>4, <3>2, <4>1, Zenon
    <3> QED
      BY <3>1, <3>2
  <2> HIDE DEF Then, L
  <2> QED
    BY <2>1, <2>2
<1> DEFINE g == CHOOSE g : Solves(g)
<1>6. Solves(g)
  <2> HIDE DEF Solves
  <2> QED
    BY <1>5
<1>7. GroupWithTrailing(s, side) = g[L]
  BY DEF GroupWithTrailing
<1> HIDE DEF g
<1>8. \A n \in 0 .. L : g[n] = Then(g, n)
  <2> HIDE DEF Then, L
  <2> QED
    BY <1>6
<1> DEFINE P == {n \in 0 .. L : g[n] = f[n]}
<1>9. 0 \in P
  <2>1. 0 \in 0 .. L
    BY <1>1
  <2>2. g[0] = none
    BY <1>8, <2>1
  <2> QED
    BY <1>3, <2>1, <2>2
<1>10. ASSUME NEW n \in 1 .. L, n - 1 \in P PROVE n \in P
  <2>1. n \in 0 .. L /\ n # 0 /\ g[n - 1] = f[n - 1]
    BY <1>1, <1>10
  <2>2. g[n] = WithElement(g[n - 1], s[n], side)
    <3> HIDE DEF L, P
    <3> QED
      BY <1>8, <2>1
  <2> QED
    BY <1>4, <2>1, <2>2
<1>11. L \in P
  <2> HIDE DEF P
  <2>1. L \in Nat /\ \A n \in 1 .. L : n - 1 \in P => n \in P
    BY <1>1, <1>10
  <2> HIDE DEF L
  <2>2. \A n \in 0 .. L : n \in P
    BY <1>9, <2>1, UpTo
  <2> QED
    BY <2>1, <2>2
<1>12. GroupsBy(s, side, f)
  BY <1>3, <1>4, <1>7, <1>11 DEF GroupsBy
<1> QED
  BY <1>12

(* Nothing has no groups. *)
LEMMA GroupNone ==
  ASSUME NEW side \in {"a", "b"}
  PROVE  GroupWithTrailing(<<>>, side) = <<>>
<1> DEFINE s == <<>>
<1>1. s \in Seq(MergeElements) /\ Len(s) = 0
  OBVIOUS
<1> HIDE DEF s
<1>2. PICK f \in [0 .. Len(s) -> Seq(Groups)] : GroupsBy(s, side, f)
  BY <1>1, Grouped
<1>3. GroupWithTrailing(s, side) = <<>>
  BY <1>1, <1>2 DEF GroupsBy
<1> QED
  BY <1>3 DEF s

(* Groups are groups, and an element more is put with them. *)
LEMMA GroupMore ==
  ASSUME NEW s \in Seq(MergeElements), NEW e \in MergeElements, NEW side \in {"a", "b"}
  PROVE  /\ GroupWithTrailing(s, side) \in Seq(Groups)
         /\ GroupWithTrailing(Append(s, e), side) = WithElement(GroupWithTrailing(s, side), e, side)
<1> DEFINE u == Append(s, e)
    L == Len(s)
<1>1. u \in Seq(MergeElements) /\ Len(u) = L + 1 /\ L \in Nat /\ u[L + 1] = e /\ \A n \in 1 .. L : u[n] = s[n]
  BY AppendFacts
<1>2. PICK f \in [0 .. L -> Seq(Groups)] : GroupsBy(s, side, f)
  BY Grouped
<1> HIDE DEF u
<1>3. PICK h \in [0 .. Len(u) -> Seq(Groups)] : GroupsBy(u, side, h)
  BY <1>1, Grouped
<1>4. /\ f[0] = <<>> /\ f[L] = GroupWithTrailing(s, side)
      /\ \A n \in 1 .. L : f[n] = WithElement(f[n - 1], s[n], side)
  BY <1>2 DEF GroupsBy
<1>5. /\ h[0] = <<>> /\ h[L + 1] = GroupWithTrailing(u, side)
      /\ \A n \in 1 .. L + 1 : h[n] = WithElement(h[n - 1], u[n], side)
  BY <1>1, <1>3 DEF GroupsBy
<1> HIDE DEF L
<1> DEFINE P == {n \in 0 .. L : h[n] = f[n]}
<1>6. 0 \in P
  BY <1>1, <1>4, <1>5
<1>7. ASSUME NEW n \in 1 .. L, n - 1 \in P PROVE n \in P
  <2>1. n \in 0 .. L /\ n \in 1 .. L + 1 /\ h[n - 1] = f[n - 1] /\ u[n] = s[n]
    BY <1>1, <1>7
  <2> QED
    BY <1>4, <1>5, <2>1
<1>8. L \in P
  <2> HIDE DEF P
  <2>1. L \in Nat /\ \A n \in 1 .. L : n - 1 \in P => n \in P
    BY <1>1, <1>7
  <2>2. \A n \in 0 .. L : n \in P
    BY <1>6, <2>1, UpTo
  <2> QED
    BY <2>1, <2>2
<1>9. h[L] = f[L] /\ L + 1 \in 1 .. L + 1 /\ (L + 1) - 1 = L /\ L \in 0 .. L
  BY <1>1, <1>8
<1>10. h[L + 1] = WithElement(h[L], u[L + 1], side)
  BY <1>5, <1>9
<1>11. f[L] \in Seq(Groups)
  BY <1>2, <1>9 DEF L
<1> QED
  BY <1>1, <1>4, <1>5, <1>9, <1>10, <1>11 DEF u

(* The groups of a sequence are it again, the sentinel aside. *)
LEMMA GroupsCover ==
  ASSUME NEW t \in Seq(MergeElements), NEW side \in {"a", "b"}
  PROVE  /\ GroupWithTrailing(t, side) \in Seq(Groups)
         /\ FlattenSeq(GroupWithTrailing(t, side)) \in {t, <<Sentinel(side)>> \o t}
<1> DEFINE G(s) == GroupWithTrailing(s, side)
    z == Sentinel(side)
    M == MergeElements
    Fine(s) == G(s) \in Seq(Groups) /\ (FlattenSeq(G(s)) = s \/ FlattenSeq(G(s)) = <<z>> \o s)
    P == {s \in Seq(M) : Fine(s)}
<1>1. z \in M
  BY SentinelIn
<1>2. <<>> \in P
  <2>1. G(<<>>) = <<>>
    BY GroupNone
  <2>2. FlattenSeq(G(<<>>)) = <<>>
    BY <2>1, FlattenNone
  <2>3. Fine(<<>>)
    <3>1. G(<<>>) \in Seq(Groups)
      <4>1. <<>> \in Seq(Groups)
        OBVIOUS
      <4> HIDE DEF G
      <4> QED
        BY <2>1, <4>1, Zenon
    <3> HIDE DEF G
    <3> QED
      BY <2>2, <3>1, Zenon
  <2> HIDE DEF Fine, M
  <2> QED
    BY <2>3
<1>3. ASSUME NEW s \in Seq(M), NEW e \in M, s \in P PROVE Append(s, e) \in P
  <2> DEFINE gs == G(s)
        flat == FlattenSeq(gs)
        u == Append(s, e)
        fu == FlattenSeq(G(u))
  <2>1. gs \in Seq(Groups) /\ (flat = s \/ flat = <<z>> \o s)
    BY <1>3
  <2>2. G(u) = WithElement(gs, e, side)
    BY GroupMore
  <2>3. Groups \subseteq Seq(M) /\ Seq(Groups) \subseteq Seq(Seq(M))
    BY DEF Groups
  <2>4. gs \in Seq(Seq(M))
    BY <2>1, <2>3
  <2>5. flat \in Seq(M)
    BY <2>4, FlattenIn
  <2>6. /\ WithElement(gs, e, side) \in Seq(Groups)
        /\ e.type \in Primary => WithElement(gs, e, side) = Append(gs, <<e>>)
        /\ e.type \notin Primary /\ gs = <<>> => WithElement(gs, e, side) = Append(gs, <<z, e>>)
        /\ e.type \notin Primary /\ gs # <<>> =>
             WithElement(gs, e, side) = Append(Front(gs), Append(Last(gs), e))
    BY <2>1, WithElementIs
  <2> HIDE DEF gs
  <2>7. fu = Append(flat, e) \/ (gs = <<>> /\ fu = <<z>> \o Append(flat, e))
    <3>1. CASE e.type \in Primary
      <4> DEFINE x == <<e>>
      <4>1. x \in Seq(M)
        OBVIOUS
      <4>2. fu = FlattenSeq(Append(gs, x))
        BY <2>2, <2>6, <3>1
      <4> HIDE DEF x
      <4>3. FlattenSeq(Append(gs, x)) = flat \o x
        BY <2>4, <4>1, FlattenAppend
      <4> HIDE DEF fu, flat
      <4>4. flat \o x = Append(flat, e)
        BY <2>5 DEF x
      <4> QED
        BY <4>2, <4>3, <4>4
    <3>2. CASE e.type \notin Primary /\ gs = <<>>
      <4> DEFINE x == <<z, e>>
      <4>1. x \in Seq(M)
        BY <1>1
      <4>2. fu = FlattenSeq(Append(gs, x))
        BY <2>2, <2>6, <3>2
      <4>3. flat = <<>>
        BY <3>2, FlattenNone
      <4> HIDE DEF x
      <4>4. FlattenSeq(Append(gs, x)) = flat \o x
        BY <2>4, <4>1, FlattenAppend
      <4> HIDE DEF fu, flat, z
      <4>5. flat \o x = <<z>> \o Append(flat, e)
        BY <1>1, <4>3 DEF x
      <4> QED
        BY <3>2, <4>2, <4>4, <4>5
    <3>3. CASE e.type \notin Primary /\ gs # <<>>
      <4> DEFINE front == Front(gs)
            last == Last(gs)
            x == Append(last, e)
      <4>1. front \in Seq(Groups) /\ last \in Groups /\ gs = Append(front, last)
        BY <2>1, <3>3, FrontLast
      <4>2. front \in Seq(Seq(M)) /\ last \in Seq(M) /\ x \in Seq(M)
        BY <2>3, <4>1
      <4>3. fu = FlattenSeq(Append(front, x))
        BY <2>2, <2>6, <3>3
      <4> HIDE DEF front, last
      <4>4. flat = FlattenSeq(front) \o last /\ FlattenSeq(front) \in Seq(M)
        BY <4>1, <4>2, FlattenAppend, FlattenIn
      <4>5. FlattenSeq(Append(front, x)) = FlattenSeq(front) \o x
        <5> HIDE DEF x
        <5> QED
          BY <4>2, FlattenAppend
      <4> DEFINE ff == FlattenSeq(front)
      <4>6. ff \in Seq(M) /\ flat = ff \o last
        BY <4>4
      <4> HIDE DEF ff, fu, flat
      <4>7. ff \o Append(last, e) = Append(ff \o last, e)
        BY <4>2, <4>6, AppendJoined
      <4> QED
        BY <4>3, <4>5, <4>6, <4>7 DEF ff
    <3> QED
      BY <3>1, <3>2, <3>3
  <2>8. u \in Seq(M) /\ G(u) \in Seq(Groups)
    BY <2>2, <2>6
  <2>9. fu = u \/ fu = <<z>> \o u
    <3>1. CASE fu = Append(flat, e) /\ flat = s
      BY <3>1
    <3>2. CASE fu = Append(flat, e) /\ flat = <<z>> \o s
      <4> DEFINE x == <<z>>
      <4>1. x \in Seq(M)
        BY <1>1
      <4>2. flat = x \o s
        BY <3>2
      <4>3. s \in Seq(M) /\ e \in M
        OBVIOUS
      <4> HIDE DEF x, flat, P, M
      <4>4. x \o Append(s, e) = Append(x \o s, e)
        BY <4>1, <4>3, AppendJoined
      <4> QED
        BY <3>2, <4>2, <4>4 DEF x
    <3>3. CASE gs = <<>> /\ fu = <<z>> \o Append(flat, e)
      <4>1. flat = <<>>
        BY <3>3, FlattenNone
      <4>2. s = <<>>
        <5>1. CASE flat = s
          BY <4>1, <5>1
        <5>2. CASE flat = <<z>> \o s
          <6>1. Len(<<z>> \o s) = 1 + Len(s) /\ Len(s) \in Nat
            BY <1>1
          <6> HIDE DEF flat, z
          <6> QED
            BY <4>1, <5>2, <6>1
        <5> QED
          BY <2>1, <5>1, <5>2
      <4> QED
        BY <3>3, <4>1, <4>2
    <3> QED
      BY <2>1, <2>7, <3>1, <3>2, <3>3
  <2> QED
    BY <2>8, <2>9
<1> HIDE DEF P, M
<1>4. \A s \in Seq(M) : s \in P
  BY <1>2, <1>3, EverySequence
<1> QED
  BY <1>4 DEF P, M

(* One element numbered before the other. *)
Numbering == {p \in MergeElements \X MergeElements : p[1].id[2] < p[2].id[2]}

(* Elements of one parse, in its order; none refers to itself. *)
OfParse(s, side) ==
  /\ s \in Seq(MergeElements) /\ Pairwise(s, Numbering)
  /\ \A k \in 1 .. Len(s) : s[k].id \in {side} \X Nat /\ s[k].id \notin s[k].refs

(* A parse: what AddToA and AddToB make. *)
IsParse(s, side) ==
  /\ s \in Seq(MergeElements)
  /\ \A n \in 1 .. Len(s) : /\ s[n].id = <<side, n>> /\ s[n].text # 0 /\ s[n].type # "raw_text"
                            /\ s[n].id \notin s[n].refs

(* Groups of one parse, in its order. *)
GroupsOf(gs, side) ==
  /\ gs \in Seq(Groups)
  /\ \A n \in 1 .. Len(gs) : OfParse(gs[n], side)
  /\ \A m, n \in 1 .. Len(gs) : m < n => AllBefore(gs[m], gs[n], Numbering)

(* A parse is in its order, also behind the sentinel. *)
LEMMA ParseOrdered ==
  ASSUME NEW side \in {"a", "b"}, NEW s, IsParse(s, side)
  PROVE  OfParse(s, side) /\ OfParse(<<Sentinel(side)>> \o s, side)
<1>1. /\ s \in Seq(MergeElements)
      /\ \A n \in 1 .. Len(s) : s[n] \in MergeElements /\ s[n].id = <<side, n>> /\ s[n].id \notin s[n].refs
  BY DEF IsParse
<1>2. Pairwise(s, Numbering)
  BY <1>1 DEF Pairwise, Numbering
<1>3. OfParse(s, side)
  <2> SUFFICES ASSUME NEW k \in 1 .. Len(s) PROVE s[k].id \in {side} \X Nat
    BY <1>1, <1>2 DEF OfParse
  <2>1. k \in Nat /\ s[k].id = <<side, k>>
    BY <1>1
  <2> QED
    BY <2>1
<1> DEFINE x == <<Sentinel(side)>>
<1>4. x \in Seq(MergeElements) /\ Len(x) = 1 /\ x[1] = Sentinel(side)
  BY SentinelIn
<1>5. /\ x[1] \in MergeElements /\ x[1].id = <<side, 0>> /\ x[1].id \notin x[1].refs
  BY <1>4, SentinelIn
<1> HIDE DEF x
<1>6. Pairwise(x, Numbering)
  BY <1>4 DEF Pairwise
<1>7. AllBefore(x, s, Numbering)
  BY <1>1, <1>4, <1>5 DEF AllBefore, Numbering
<1>8. Pairwise(x \o s, Numbering)
  BY <1>1, <1>2, <1>4, <1>6, <1>7, PairwiseJoined
<1>9. /\ x \o s \in Seq(MergeElements)
      /\ \A k \in 1 .. Len(x) : (x \o s)[k] = x[k]
      /\ \A k \in 1 .. Len(x \o s) : k \notin 1 .. Len(x) =>
           k - Len(x) \in 1 .. Len(s) /\ (x \o s)[k] = s[k - Len(x)]
  <2>1. x \in Seq(MergeElements) /\ s \in Seq(MergeElements)
    BY <1>1, <1>4
  <2> QED
    BY <2>1, Concatenated, Zenon
<1>10. ASSUME NEW k \in 1 .. Len(x \o s)
       PROVE  (x \o s)[k].id \in {side} \X Nat /\ (x \o s)[k].id \notin (x \o s)[k].refs
  <2>1. CASE k \in 1 .. Len(x)
    <3>1. (x \o s)[k] = x[1]
      BY <1>4, <1>9, <2>1
    <3>2. <<side, 0>> \in {side} \X Nat
      OBVIOUS
    <3> QED
      BY <1>5, <3>1, <3>2
  <2>2. CASE k \notin 1 .. Len(x)
    <3>1. PICK n \in 1 .. Len(s) : (x \o s)[k] = s[n]
      BY <1>9, <2>2
    <3>2. s[n].id = <<side, n>> /\ s[n].id \notin s[n].refs /\ n \in Nat
      BY <1>1
    <3> QED
      BY <3>1, <3>2
  <2> QED
    BY <2>1, <2>2
<1>11. OfParse(x \o s, side)
  BY <1>8, <1>9, <1>10 DEF OfParse
<1> QED
  BY <1>3, <1>11 DEF x

(* Groups whose elements are a parse's. *)
LEMMA GroupsInOrder ==
  ASSUME NEW side, NEW gs \in Seq(Groups), OfParse(FlattenSeq(gs), side)
  PROVE  GroupsOf(gs, side)
<1> DEFINE M == MergeElements
    flat == FlattenSeq(gs)
<1>1. Groups \subseteq Seq(M) /\ gs \in Seq(Seq(M))
  <2>1. Groups \subseteq Seq(M)
    BY DEF Groups
  <2> QED
    BY <2>1
<1>2. flat \in Seq(M) /\ \A x : x \in ToSet(flat) <=> \E n \in 1 .. Len(gs) : x \in ToSet(gs[n])
  BY <1>1, FlattenIn, FlattenMembers
<1>3. Pairwise(flat, Numbering)
  BY DEF OfParse
<1>4. /\ \A n \in 1 .. Len(gs) : Pairwise(gs[n], Numbering)
      /\ \A m, n \in 1 .. Len(gs) : m < n => AllBefore(gs[m], gs[n], Numbering)
  <2> HIDE DEF M
  <2> QED
    BY <1>1, <1>3, PartsPairwise
<1>5. \A x \in ToSet(flat) : x.id \in {side} \X Nat /\ x.id \notin x.refs
  <2> SUFFICES ASSUME NEW x \in ToSet(flat) PROVE x.id \in {side} \X Nat /\ x.id \notin x.refs
    OBVIOUS
  <2>1. \A k \in 1 .. Len(flat) : flat[k].id \in {side} \X Nat /\ flat[k].id \notin flat[k].refs
    BY DEF OfParse
  <2>2. DOMAIN flat = 1 .. Len(flat)
    BY <1>2
  <2> HIDE DEF flat
  <2>3. PICK k \in 1 .. Len(flat) : x = flat[k]
    BY <2>2 DEF ToSet
  <2> QED
    BY <2>1, <2>3
<1> HIDE DEF flat
<1>6. ASSUME NEW n \in 1 .. Len(gs) PROVE OfParse(gs[n], side)
  <2>1. gs[n] \in Seq(M)
    BY <1>1
  <2>2. ASSUME NEW k \in 1 .. Len(gs[n]) PROVE gs[n][k].id \in {side} \X Nat /\ gs[n][k].id \notin gs[n][k].refs
    <3>1. gs[n][k] \in ToSet(gs[n])
      BY <2>1 DEF ToSet
    <3>2. gs[n][k] \in ToSet(flat)
      BY <1>2, <3>1
    <3> QED
      BY <1>5, <3>2
  <2> QED
    BY <1>4, <2>1, <2>2 DEF OfParse
<1> QED
  BY <1>4, <1>6 DEF GroupsOf

(* The groups of a parse are in its order. *)
LEMMA GroupsRise ==
  ASSUME NEW side \in {"a", "b"}, NEW s, IsParse(s, side)
  PROVE  GroupsOf(GroupWithTrailing(s, side), side)
<1> DEFINE gs == GroupWithTrailing(s, side)
<1>1. s \in Seq(MergeElements)
  BY DEF IsParse
<1>2. gs \in Seq(Groups) /\ FlattenSeq(gs) \in {s, <<Sentinel(side)>> \o s}
  BY <1>1, GroupsCover
<1>3. OfParse(FlattenSeq(gs), side)
  BY <1>2, ParseOrdered
<1> HIDE DEF gs
<1>4. GroupsOf(gs, side)
  BY <1>2, <1>3, GroupsInOrder
<1> QED
  BY <1>4 DEF gs

-----------------------------------------------------------------------------

(* Parses that look alike have groups that look alike.                       *)
(* How an element looks.                                                     *)
Look == [e \in MergeElements |-> <<e.type, e.text, e.rich, e.level>>]

(* Looking alike, element by element. *)
LEMMA LooksSame ==
  ASSUME NEW s \in Seq(MergeElements), NEW t \in Seq(MergeElements)
  PROVE  Mapped(Look, s) = Mapped(Look, t)
           <=> Len(s) = Len(t) /\ \A n \in 1 .. Len(s) : Look[s[n]] = Look[t[n]]
  BY MappedSame

(* Groups that look alike. *)
AlikeGroups(gs, hs) ==
  Len(gs) = Len(hs) /\ \A n \in 1 .. Len(gs) : Mapped(Look, gs[n]) = Mapped(Look, hs[n])

(* A group more. *)
LEMMA AlikeMore ==
  ASSUME NEW gs \in Seq(Groups), NEW hs \in Seq(Groups), NEW g \in Groups, NEW h \in Groups
  PROVE  AlikeGroups(Append(gs, g), Append(hs, h)) <=> AlikeGroups(gs, hs) /\ Mapped(Look, g) = Mapped(Look, h)
<1> DEFINE u == Append(gs, g)
    v == Append(hs, h)
<1>1. /\ Len(u) = Len(gs) + 1 /\ u[Len(gs) + 1] = g /\ Len(gs) \in Nat /\ (\A n \in 1 .. Len(gs) : u[n] = gs[n])
      /\ Len(v) = Len(hs) + 1 /\ v[Len(hs) + 1] = h /\ Len(hs) \in Nat /\ (\A n \in 1 .. Len(hs) : v[n] = hs[n])
  BY AppendFacts
<1> HIDE DEF u, v
<1>2. ASSUME AlikeGroups(u, v) PROVE AlikeGroups(gs, hs) /\ Mapped(Look, g) = Mapped(Look, h)
  <2>1. Len(gs) = Len(hs) /\ \A n \in 1 .. Len(gs) + 1 : Mapped(Look, u[n]) = Mapped(Look, v[n])
    BY <1>1, <1>2 DEF AlikeGroups
  <2>2. Len(gs) + 1 \in 1 .. Len(gs) + 1 /\ \A n \in 1 .. Len(gs) : n \in 1 .. Len(gs) + 1
    BY <1>1
  <2>3. Mapped(Look, g) = Mapped(Look, h)
    BY <1>1, <2>1, <2>2
  <2>4. \A n \in 1 .. Len(gs) : Mapped(Look, gs[n]) = Mapped(Look, hs[n])
    BY <1>1, <2>1, <2>2
  <2> QED
    BY <2>1, <2>3, <2>4 DEF AlikeGroups
<1>3. ASSUME AlikeGroups(gs, hs), Mapped(Look, g) = Mapped(Look, h) PROVE AlikeGroups(u, v)
  <2>1. Len(gs) = Len(hs) /\ \A n \in 1 .. Len(gs) : Mapped(Look, gs[n]) = Mapped(Look, hs[n])
    BY <1>3 DEF AlikeGroups
  <2>2. ASSUME NEW n \in 1 .. Len(u) PROVE Mapped(Look, u[n]) = Mapped(Look, v[n])
    <3>1. CASE n = Len(gs) + 1
      BY <1>1, <1>3, <2>1, <3>1
    <3>2. CASE n # Len(gs) + 1
      <4>1. n \in 1 .. Len(gs)
        BY <1>1, <3>2
      <4> QED
        BY <1>1, <2>1, <4>1
    <3> QED
      BY <3>1, <3>2
  <2> QED
    BY <1>1, <2>1, <2>2 DEF AlikeGroups
<1> QED
  BY <1>2, <1>3 DEF u, v

(* Sequences an element longer. *)
LEMMA LongerAlike ==
  ASSUME NEW s \in Seq(MergeElements), NEW t \in Seq(MergeElements), NEW x \in MergeElements, NEW y \in MergeElements
  PROVE  Mapped(Look, Append(s, x)) = Mapped(Look, Append(t, y))
           <=> Mapped(Look, s) = Mapped(Look, t) /\ Look[x] = Look[y]
<1> DEFINE u == Append(s, x)
    v == Append(t, y)
<1>1. /\ Len(u) = Len(s) + 1 /\ u[Len(s) + 1] = x /\ Len(s) \in Nat /\ (\A n \in 1 .. Len(s) : u[n] = s[n])
      /\ Len(v) = Len(t) + 1 /\ v[Len(t) + 1] = y /\ Len(t) \in Nat /\ (\A n \in 1 .. Len(t) : v[n] = t[n])
      /\ u \in Seq(MergeElements) /\ v \in Seq(MergeElements)
  BY AppendFacts
<1> HIDE DEF u, v
<1>2. Mapped(Look, u) = Mapped(Look, v) <=> Len(u) = Len(v) /\ \A n \in 1 .. Len(u) : Look[u[n]] = Look[v[n]]
  BY <1>1, LooksSame
<1>3. Mapped(Look, s) = Mapped(Look, t) <=> Len(s) = Len(t) /\ \A n \in 1 .. Len(s) : Look[s[n]] = Look[t[n]]
  BY LooksSame
<1>4. ASSUME Mapped(Look, u) = Mapped(Look, v) PROVE Mapped(Look, s) = Mapped(Look, t) /\ Look[x] = Look[y]
  <2>1. Len(s) = Len(t) /\ \A n \in 1 .. Len(s) + 1 : Look[u[n]] = Look[v[n]]
    BY <1>1, <1>2, <1>4
  <2>2. Len(s) + 1 \in 1 .. Len(s) + 1 /\ \A n \in 1 .. Len(s) : n \in 1 .. Len(s) + 1
    BY <1>1
  <2>3. Look[x] = Look[y]
    BY <1>1, <2>1, <2>2
  <2>4. \A n \in 1 .. Len(s) : Look[s[n]] = Look[t[n]]
    BY <1>1, <2>1, <2>2
  <2> QED
    BY <1>3, <2>1, <2>3, <2>4
<1>5. ASSUME Mapped(Look, s) = Mapped(Look, t), Look[x] = Look[y] PROVE Mapped(Look, u) = Mapped(Look, v)
  <2>1. Len(s) = Len(t) /\ \A n \in 1 .. Len(s) : Look[s[n]] = Look[t[n]]
    BY <1>3, <1>5
  <2>2. ASSUME NEW n \in 1 .. Len(u) PROVE Look[u[n]] = Look[v[n]]
    <3>1. CASE n = Len(s) + 1
      BY <1>1, <1>5, <2>1, <3>1
    <3>2. CASE n # Len(s) + 1
      <4>1. n \in 1 .. Len(s)
        BY <1>1, <3>2
      <4> QED
        BY <1>1, <2>1, <4>1
    <3> QED
      BY <3>1, <3>2
  <2> QED
    BY <1>1, <1>2, <2>1, <2>2
<1> QED
  BY <1>4, <1>5 DEF u, v

(* Elements that look alike are put alike with groups that look alike. *)
LEMMA PutAlike ==
  ASSUME NEW gs \in Seq(Groups), NEW hs \in Seq(Groups), AlikeGroups(gs, hs),
         NEW x \in MergeElements, NEW y \in MergeElements, Look[x] = Look[y]
  PROVE  AlikeGroups(WithElement(gs, x, "a"), WithElement(hs, y, "b"))
<1>1. x.type = y.type
  BY DEF Look
<1>2. gs = <<>> <=> hs = <<>>
  BY DEF AlikeGroups
<1>3. /\ x.type \in Primary => WithElement(gs, x, "a") = Append(gs, <<x>>)
      /\ x.type \notin Primary /\ gs = <<>> => WithElement(gs, x, "a") = Append(gs, <<Sentinel("a"), x>>)
      /\ x.type \notin Primary /\ gs # <<>> => WithElement(gs, x, "a") = Append(Front(gs), Append(Last(gs), x))
  BY WithElementIs
<1>4. /\ y.type \in Primary => WithElement(hs, y, "b") = Append(hs, <<y>>)
      /\ y.type \notin Primary /\ hs = <<>> => WithElement(hs, y, "b") = Append(hs, <<Sentinel("b"), y>>)
      /\ y.type \notin Primary /\ hs # <<>> => WithElement(hs, y, "b") = Append(Front(hs), Append(Last(hs), y))
  BY WithElementIs
<1>5. Mapped(Look, <<>>) = Mapped(Look, <<>>)
  OBVIOUS
<1>6. <<>> \in Seq(MergeElements)
  OBVIOUS
<1>7. \A c, d \in MergeElements : Look[c] = Look[d] => Mapped(Look, Append(<<>>, c)) = Mapped(Look, Append(<<>>, d))
  <2> SUFFICES ASSUME NEW c \in MergeElements, NEW d \in MergeElements, Look[c] = Look[d]
               PROVE  Mapped(Look, Append(<<>>, c)) = Mapped(Look, Append(<<>>, d))
    OBVIOUS
  <2> DEFINE none == <<>>
  <2>1. none \in Seq(MergeElements)
    OBVIOUS
  <2> HIDE DEF none
  <2>2. Mapped(Look, Append(none, c)) = Mapped(Look, Append(none, d))
          <=> Mapped(Look, none) = Mapped(Look, none) /\ Look[c] = Look[d]
    <3>1. \A s, t \in Seq(MergeElements) :
            Mapped(Look, Append(s, c)) = Mapped(Look, Append(t, d))
              <=> Mapped(Look, s) = Mapped(Look, t) /\ Look[c] = Look[d]
      BY LongerAlike
    <3> QED
      BY <2>1, <3>1
  <2> QED
    BY <2>2 DEF none
<1>8. CASE x.type \in Primary
  <2> DEFINE g == <<x>>
        h == <<y>>
  <2>1. g \in Groups /\ h \in Groups
    BY DEF Groups
  <2>2. g = Append(<<>>, x) /\ h = Append(<<>>, y)
    OBVIOUS
  <2>3. WithElement(gs, x, "a") = Append(gs, g) /\ WithElement(hs, y, "b") = Append(hs, h)
    BY <1>1, <1>3, <1>4, <1>8
  <2> HIDE DEF g, h
  <2>4. Mapped(Look, g) = Mapped(Look, h)
    BY <1>7, <2>2
  <2>5. AlikeGroups(Append(gs, g), Append(hs, h))
    BY <2>1, <2>4, AlikeMore
  <2> QED
    BY <2>3, <2>5
<1>9. CASE x.type \notin Primary /\ gs = <<>>
  <2> DEFINE p == Sentinel("a")
        q == Sentinel("b")
        g == <<p, x>>
        h == <<q, y>>
        p1 == <<p>>
        q1 == <<q>>
  <2>1. p \in MergeElements /\ q \in MergeElements /\ Look[p] = Look[q]
    BY SentinelIn DEF Look
  <2>2. WithElement(gs, x, "a") = Append(gs, g) /\ WithElement(hs, y, "b") = Append(hs, h)
    BY <1>1, <1>2, <1>3, <1>4, <1>9
  <2> HIDE DEF p, q
  <2>3. p1 \in Seq(MergeElements) /\ q1 \in Seq(MergeElements) /\ g = Append(p1, x) /\ h = Append(q1, y)
        /\ p1 = Append(<<>>, p) /\ q1 = Append(<<>>, q)
    <3>1. p1 \in Seq(MergeElements) /\ q1 \in Seq(MergeElements)
      BY <2>1
    <3>2. p1 = Append(<<>>, p) /\ q1 = Append(<<>>, q)
      OBVIOUS
    <3>3. g = Append(p1, x) /\ h = Append(q1, y)
      BY <2>1, AppendPair
    <3> QED
      BY <3>1, <3>2, <3>3
  <2>4. g \in Groups /\ h \in Groups
    BY <2>1 DEF Groups
  <2> HIDE DEF g, h, p1, q1
  <2>5. Mapped(Look, p1) = Mapped(Look, q1)
    BY <1>7, <2>1, <2>3
  <2>6. Mapped(Look, g) = Mapped(Look, h)
    <3>1. \A s, t \in Seq(MergeElements) :
            Mapped(Look, Append(s, x)) = Mapped(Look, Append(t, y))
              <=> Mapped(Look, s) = Mapped(Look, t) /\ Look[x] = Look[y]
      BY LongerAlike
    <3> QED
      BY <2>3, <2>5, <3>1
  <2>7. AlikeGroups(Append(gs, g), Append(hs, h))
    BY <2>4, <2>6, AlikeMore
  <2> QED
    BY <2>2, <2>7
<1>10. CASE x.type \notin Primary /\ gs # <<>>
  <2> DEFINE fg == Front(gs)
        lg == Last(gs)
        fh == Front(hs)
        lh == Last(hs)
        g == Append(lg, x)
        h == Append(lh, y)
  <2>1. fg \in Seq(Groups) /\ lg \in Groups /\ gs = Append(fg, lg)
    BY <1>10, FrontLast
  <2>2. fh \in Seq(Groups) /\ lh \in Groups /\ hs = Append(fh, lh)
    BY <1>2, <1>10, FrontLast
  <2>3. WithElement(gs, x, "a") = Append(fg, g) /\ WithElement(hs, y, "b") = Append(fh, h)
    BY <1>1, <1>2, <1>3, <1>4, <1>10
  <2> HIDE DEF fg, lg, fh, lh
  <2>4. AlikeGroups(Append(fg, lg), Append(fh, lh))
    BY <2>1, <2>2
  <2>5. AlikeGroups(fg, fh) /\ Mapped(Look, lg) = Mapped(Look, lh)
    BY <2>1, <2>2, <2>4, AlikeMore
  <2>6. lg \in Seq(MergeElements) /\ lh \in Seq(MergeElements) /\ g \in Groups /\ h \in Groups
    BY <2>1, <2>2, GroupFacts
  <2>7. Mapped(Look, g) = Mapped(Look, h)
    BY <2>5, <2>6, LongerAlike
  <2> HIDE DEF g, h
  <2>8. AlikeGroups(Append(fg, g), Append(fh, h))
    BY <2>1, <2>2, <2>5, <2>6, <2>7, AlikeMore
  <2> QED
    BY <2>3, <2>8
<1> QED
  BY <1>8, <1>9, <1>10

(* Parses that look alike have groups that look alike. *)
LEMMA GroupedAlike ==
  ASSUME NEW s \in Seq(MergeElements), NEW t \in Seq(MergeElements), Mapped(Look, s) = Mapped(Look, t)
  PROVE  AlikeGroups(GroupWithTrailing(s, "a"), GroupWithTrailing(t, "b"))
<1> DEFINE M == MergeElements
    Fine(u) == \A v \in Seq(M) : Mapped(Look, u) = Mapped(Look, v) =>
                 AlikeGroups(GroupWithTrailing(u, "a"), GroupWithTrailing(v, "b"))
    P == {u \in Seq(M) : Fine(u)}
<1>1. <<>> \in P
  <2>1. <<>> \in Seq(M)
    OBVIOUS
  <2>2. ASSUME NEW v \in Seq(M), Mapped(Look, <<>>) = Mapped(Look, v)
        PROVE  AlikeGroups(GroupWithTrailing(<<>>, "a"), GroupWithTrailing(v, "b"))
    <3>1. Len(v) = 0
      <4> DEFINE none == <<>>
      <4>1. none \in Seq(M) /\ Len(none) = 0
        OBVIOUS
      <4>2. Mapped(Look, none) = Mapped(Look, v)
        BY <2>2
      <4> HIDE DEF none
      <4>3. Mapped(Look, none) = Mapped(Look, v)
              <=> Len(none) = Len(v) /\ \A n \in 1 .. Len(none) : Look[none[n]] = Look[v[n]]
        BY <4>1, LooksSame
      <4> QED
        BY <4>1, <4>2, <4>3
    <3>2. v = <<>>
      BY <3>1
    <3>3. GroupWithTrailing(<<>>, "a") = <<>> /\ GroupWithTrailing(<<>>, "b") = <<>>
      BY GroupNone
    <3> QED
      BY <3>2, <3>3 DEF AlikeGroups
  <2> HIDE DEF M
  <2> QED
    BY <2>1, <2>2
<1>2. ASSUME NEW u \in Seq(M), NEW x \in M, u \in P PROVE Append(u, x) \in P
  <2>1. ASSUME NEW v \in Seq(M), Mapped(Look, Append(u, x)) = Mapped(Look, v)
        PROVE  AlikeGroups(GroupWithTrailing(Append(u, x), "a"), GroupWithTrailing(v, "b"))
    <3>1. v # <<>>
      <4> DEFINE w == Append(u, x)
      <4>1. w \in Seq(M) /\ Len(w) = Len(u) + 1 /\ Len(u) \in Nat
        BY AppendFacts
      <4>2. Mapped(Look, w) = Mapped(Look, v)
        BY <2>1
      <4> HIDE DEF w
      <4>3. Len(w) = Len(v)
        BY <4>1, <4>2, LooksSame
      <4> QED
        BY <4>1, <4>3
    <3> DEFINE f == Front(v)
          y == Last(v)
    <3>2. f \in Seq(M) /\ y \in M /\ v = Append(f, y)
      BY <3>1, FrontLast
    <3> HIDE DEF f, y
    <3>3. Mapped(Look, Append(u, x)) = Mapped(Look, Append(f, y))
      BY <2>1, <3>2
    <3>4. Mapped(Look, u) = Mapped(Look, f) /\ Look[x] = Look[y]
      BY <3>2, <3>3, LongerAlike
    <3> DEFINE gs == GroupWithTrailing(u, "a")
          hs == GroupWithTrailing(f, "b")
    <3>5. AlikeGroups(gs, hs)
      BY <1>2, <3>2, <3>4
    <3>6. gs \in Seq(Groups) /\ GroupWithTrailing(Append(u, x), "a") = WithElement(gs, x, "a")
      BY GroupMore
    <3>7. hs \in Seq(Groups) /\ GroupWithTrailing(Append(f, y), "b") = WithElement(hs, y, "b")
      BY <3>2, GroupMore
    <3> HIDE DEF gs, hs
    <3>8. AlikeGroups(WithElement(gs, x, "a"), WithElement(hs, y, "b"))
      BY <3>2, <3>4, <3>5, <3>6, <3>7, PutAlike
    <3> QED
      BY <3>2, <3>6, <3>7, <3>8
  <2>2. Append(u, x) \in Seq(M)
    OBVIOUS
  <2> QED
    BY <2>1, <2>2
<1> HIDE DEF P
<1>3. \A u \in Seq(M) : u \in P
  <2> HIDE DEF M
  <2> QED
    BY <1>1, <1>2, EverySequence
<1> QED
  BY <1>3 DEF P

(* What align_elements calls its operations. *)
OpWords == {"keep_a", "keep_b", "merge", "insert_b", "delete_a"}

(* Operations. *)
Operations ==
  [op : OpWords, a : Seq(MergeElements), b : Seq(MergeElements), resolved : Seq(MergeElements)]

(* Elements of different origins, those of A in its order. *)
KeptApart ==
  {p \in MergeElements \X MergeElements :
     /\ Origin(p[1].id) # Origin(p[2].id)
     /\ Origin(p[1].id)[1] = "a" /\ Origin(p[2].id)[1] = "a" => Origin(p[1].id)[2] < Origin(p[2].id)[2]}

(* Elements with ids of their own. *)
Differs == {p \in MergeElements \X MergeElements : p[1].id # p[2].id}

(* What refers to its own. *)
Closed(s) == \A k \in 1 .. Len(s) : s[k].refs \subseteq {s[m].id : m \in 1 .. Len(s)}

(* What is in a sequence stands somewhere in it. *)
LEMMA MemberAt ==
  ASSUME NEW s, DOMAIN s = 1 .. Len(s), NEW x \in ToSet(s)
  PROVE  \E q \in 1 .. Len(s) : x = s[q]
  BY DEF ToSet

(* What an operation may resolve to: one side, or of two single elements     *)
(* one made from either.                                                     *)
Picked(r, sa, sb) ==
  /\ r \in Seq(MergeElements)
  /\ \/ r = sa
     \/ r = sb
     \/ /\ Len(sa) = 1 /\ Len(sb) = 1 /\ Len(r) = 1
        /\ Origin(r[1].id) \in {sa[1].id, sb[1].id} /\ r[1].refs \in {sa[1].refs, sb[1].refs}

(* An operation on elements of the two parses. *)
GoodOp(p) ==
  p \in Operations /\ OfParse(p.a, "a") /\ OfParse(p.b, "b") /\ Picked(p.resolved, p.a, p.b)

(* Operations on different elements, those of A in order. *)
OpsApart ==
  {p \in Operations \X Operations : /\ AllBefore(p[1].a, p[2].a, Numbering)
                                    /\ AllBefore(p[1].b, p[2].b, Differs)}

(* An id of a parse is its own origin. *)
LEMMA OwnOrigin ==
  ASSUME NEW side \in {"a", "b"}, NEW s, OfParse(s, side), NEW k \in 1 .. Len(s)
  PROVE  /\ s[k] \in MergeElements /\ Origin(s[k].id) = s[k].id
         /\ s[k].id[1] = side /\ s[k].id[2] \in Nat /\ s[k].id = <<side, s[k].id[2]>>
  BY DEF OfParse, Origin

(* An operation made of its parts. *)
LEMMA OpIs ==
  ASSUME NEW w \in OpWords, NEW sa, NEW sb, NEW r, OfParse(sa, "a"), OfParse(sb, "b"), Picked(r, sa, sb)
  PROVE  /\ GoodOp(Operation(w, sa, sb, r)) /\ Operation(w, sa, sb, r).a = sa
         /\ Operation(w, sa, sb, r).b = sb /\ Operation(w, sa, sb, r).resolved = r
<1> DEFINE p == Operation(w, sa, sb, r)
<1>1. sa \in Seq(MergeElements) /\ sb \in Seq(MergeElements) /\ r \in Seq(MergeElements)
  BY DEF OfParse, Picked
<1>2. p \in Operations /\ p.a = sa /\ p.b = sb /\ p.resolved = r
  BY <1>1 DEF Operation, Operations
<1> HIDE DEF p
<1>3. GoodOp(p)
  BY <1>2 DEF GoodOp
<1> QED
  BY <1>2, <1>3 DEF p

(* The same of all of them. *)
LEMMA OpsAre ==
  \A w \in OpWords : \A sa, sb, r : OfParse(sa, "a") /\ OfParse(sb, "b") /\ Picked(r, sa, sb) =>
    /\ GoodOp(Operation(w, sa, sb, r)) /\ Operation(w, sa, sb, r).a = sa
    /\ Operation(w, sa, sb, r).b = sb /\ Operation(w, sa, sb, r).resolved = r
  BY OpIs

(* Nothing is of either parse. *)
LEMMA NothingOfParse ==
  ASSUME NEW side PROVE OfParse(<<>>, side) /\ Closed(<<>>)
  BY DEF OfParse, Pairwise, Closed

(* What a good operation resolves to is in order, from its own elements, and *)
(* refers to its own when its sides do.                                      *)
LEMMA ResolvedIs ==
  ASSUME NEW p, GoodOp(p)
  PROVE  /\ p.resolved \in Seq(MergeElements) /\ Pairwise(p.resolved, KeptApart)
         /\ \A k \in 1 .. Len(p.resolved) :
              \/ \E m \in 1 .. Len(p.a) : Origin(p.resolved[k].id) = p.a[m].id
              \/ \E m \in 1 .. Len(p.b) : Origin(p.resolved[k].id) = p.b[m].id
         /\ Closed(p.a) /\ Closed(p.b) => Closed(p.resolved)
<1> DEFINE sa == p.a
    sb == p.b
    r == p.resolved
<1>1. OfParse(sa, "a") /\ OfParse(sb, "b") /\ Picked(r, sa, sb)
  BY DEF GoodOp
<1> HIDE DEF sa, sb, r
<1>2. r \in Seq(MergeElements)
  BY <1>1 DEF Picked
<1>3. CASE r = sa
  <2>1. Pairwise(sa, KeptApart)
    <3> SUFFICES ASSUME NEW i \in 1 .. Len(sa), NEW j \in 1 .. Len(sa), i < j PROVE <<sa[i], sa[j]>> \in KeptApart
      BY DEF Pairwise
    <3>1. <<sa[i], sa[j]>> \in Numbering
      BY <1>1 DEF OfParse, Pairwise
    <3>2. /\ sa[i] \in MergeElements /\ Origin(sa[i].id) = sa[i].id /\ sa[i].id[2] \in Nat
          /\ sa[j] \in MergeElements /\ Origin(sa[j].id) = sa[j].id /\ sa[j].id[2] \in Nat
      BY <1>1, OwnOrigin
    <3>3. sa[i].id[2] < sa[j].id[2]
      BY <3>1 DEF Numbering
    <3>4. sa[i].id # sa[j].id
      <4> SUFFICES ASSUME sa[i].id = sa[j].id PROVE FALSE
        OBVIOUS
      <4>1. sa[i].id[2] = sa[j].id[2]
        OBVIOUS
      <4>2. \A c, d \in Nat : c < d => c # d
        OBVIOUS
      <4> QED
        BY <3>2, <3>3, <4>1, <4>2, Zenon
    <3> QED
      BY <3>2, <3>3, <3>4 DEF KeptApart
  <2>2. \A k \in 1 .. Len(sa) : Origin(sa[k].id) = sa[k].id
    BY <1>1, OwnOrigin
  <2> QED
    BY <1>2, <1>3, <2>1, <2>2 DEF sa, sb, r
<1>4. CASE r = sb
  <2>1. Pairwise(sb, KeptApart)
    <3> SUFFICES ASSUME NEW i \in 1 .. Len(sb), NEW j \in 1 .. Len(sb), i < j PROVE <<sb[i], sb[j]>> \in KeptApart
      BY DEF Pairwise
    <3>1. <<sb[i], sb[j]>> \in Numbering
      BY <1>1 DEF OfParse, Pairwise
    <3>2. /\ sb[i] \in MergeElements /\ Origin(sb[i].id) = sb[i].id /\ sb[i].id[2] \in Nat /\ sb[i].id[1] = "b"
          /\ sb[j] \in MergeElements /\ Origin(sb[j].id) = sb[j].id /\ sb[j].id[2] \in Nat /\ sb[j].id[1] = "b"
      BY <1>1, OwnOrigin
    <3>3. sb[i].id[2] < sb[j].id[2]
      BY <3>1 DEF Numbering
    <3>4. sb[i].id # sb[j].id
      <4> SUFFICES ASSUME sb[i].id = sb[j].id PROVE FALSE
        OBVIOUS
      <4>1. sb[i].id[2] = sb[j].id[2]
        OBVIOUS
      <4>2. \A c, d \in Nat : c < d => c # d
        OBVIOUS
      <4> QED
        BY <3>2, <3>3, <4>1, <4>2, Zenon
    <3> QED
      BY <3>2, <3>3, <3>4 DEF KeptApart
  <2>2. \A k \in 1 .. Len(sb) : Origin(sb[k].id) = sb[k].id
    BY <1>1, OwnOrigin
  <2> QED
    BY <1>2, <1>4, <2>1, <2>2 DEF sa, sb, r
<1>5. CASE /\ Len(sa) = 1 /\ Len(sb) = 1 /\ Len(r) = 1
           /\ Origin(r[1].id) \in {sa[1].id, sb[1].id} /\ r[1].refs \in {sa[1].refs, sb[1].refs}
  <2>1. Pairwise(r, KeptApart)
    BY <1>5 DEF Pairwise
  <2>2. \A k \in 1 .. Len(r) : \/ \E m \in 1 .. Len(sa) : Origin(r[k].id) = sa[m].id
                               \/ \E m \in 1 .. Len(sb) : Origin(r[k].id) = sb[m].id
    <3>1. \A k \in 1 .. Len(r) : k = 1
      BY <1>5
    <3>2. 1 \in 1 .. Len(sa) /\ 1 \in 1 .. Len(sb)
      BY <1>5
    <3>3. Origin(r[1].id) = sa[1].id \/ Origin(r[1].id) = sb[1].id
      BY <1>5
    <3> QED
      BY <3>1, <3>2, <3>3
  <2>3. ASSUME Closed(sa), Closed(sb) PROVE Closed(r)
    <3>1. sa[1].refs \subseteq {sa[1].id} /\ sb[1].refs \subseteq {sb[1].id}
      <4>1. 1 \in 1 .. Len(sa) /\ 1 \in 1 .. Len(sb) /\ \A m \in 1 .. Len(sa) : m = 1
            /\ \A k \in 1 .. Len(sb) : k = 1
        BY <1>5
      <4>2. sa[1].refs \subseteq {sa[m].id : m \in 1 .. Len(sa)} /\ sb[1].refs \subseteq {sb[m].id : m \in 1 .. Len(sb)}
        BY <2>3, <4>1 DEF Closed
      <4> QED
        BY <4>1, <4>2
    <3>2. sa[1].id \notin sa[1].refs /\ sb[1].id \notin sb[1].refs
      <4>1. 1 \in 1 .. Len(sa) /\ 1 \in 1 .. Len(sb)
        BY <1>5
      <4> QED
        BY <1>1, <4>1 DEF OfParse
    <3>3. r[1].refs = {}
      BY <1>5, <3>1, <3>2
    <3> QED
      BY <1>5, <3>3 DEF Closed
  <2> QED
    BY <1>2, <2>1, <2>2, <2>3 DEF sa, sb, r
<1> QED
  BY <1>1, <1>3, <1>4, <1>5 DEF Picked

(* What operations on different elements resolve to is apart. *)
LEMMA ResolvedApart ==
  ASSUME NEW p, NEW q, GoodOp(p), GoodOp(q), <<p, q>> \in OpsApart
  PROVE  AllBefore(p.resolved, q.resolved, KeptApart)
<1> SUFFICES ASSUME NEW i \in 1 .. Len(p.resolved), NEW j \in 1 .. Len(q.resolved)
             PROVE  <<p.resolved[i], q.resolved[j]>> \in KeptApart
  BY DEF AllBefore
<1> DEFINE x == p.resolved[i]
    y == q.resolved[j]
<1>1. x \in MergeElements /\ y \in MergeElements
  <2>1. p.resolved \in Seq(MergeElements) /\ q.resolved \in Seq(MergeElements)
    BY ResolvedIs
  <2> QED
    BY <2>1
<1>2. \/ \E m \in 1 .. Len(p.a) : Origin(x.id) = p.a[m].id
      \/ \E m \in 1 .. Len(p.b) : Origin(x.id) = p.b[m].id
  BY ResolvedIs
<1>3. \/ \E m \in 1 .. Len(q.a) : Origin(y.id) = q.a[m].id
      \/ \E m \in 1 .. Len(q.b) : Origin(y.id) = q.b[m].id
  BY ResolvedIs
<1> HIDE DEF x, y
<1>4. /\ \A m \in 1 .. Len(p.a) : p.a[m].id[1] = "a" /\ p.a[m].id[2] \in Nat
      /\ \A m \in 1 .. Len(p.b) : p.b[m].id[1] = "b"
      /\ \A m \in 1 .. Len(q.a) : q.a[m].id[1] = "a" /\ q.a[m].id[2] \in Nat
      /\ \A m \in 1 .. Len(q.b) : q.b[m].id[1] = "b"
  <2>1. OfParse(p.a, "a") /\ OfParse(p.b, "b") /\ OfParse(q.a, "a") /\ OfParse(q.b, "b")
    BY DEF GoodOp
  <2> QED
    BY <2>1, OwnOrigin
<1>5. AllBefore(p.a, q.a, Numbering) /\ AllBefore(p.b, q.b, Differs)
  BY DEF OpsApart
<1>6. ASSUME NEW m \in 1 .. Len(p.a), NEW n \in 1 .. Len(q.a), Origin(x.id) = p.a[m].id, Origin(y.id) = q.a[n].id
      PROVE  <<x, y>> \in KeptApart
  <2>1. p.a[m].id[2] < q.a[n].id[2]
    BY <1>5 DEF AllBefore, Numbering
  <2>2. p.a[m].id # q.a[n].id
    BY <1>4, <2>1
  <2> QED
    BY <1>1, <1>6, <2>1, <2>2 DEF KeptApart
<1>7. ASSUME NEW m \in 1 .. Len(p.b), NEW n \in 1 .. Len(q.b), Origin(x.id) = p.b[m].id, Origin(y.id) = q.b[n].id
      PROVE  <<x, y>> \in KeptApart
  <2>1. p.b[m].id # q.b[n].id
    BY <1>5 DEF AllBefore, Differs
  <2> QED
    BY <1>1, <1>4, <1>7, <2>1 DEF KeptApart
<1>8. ASSUME NEW m \in 1 .. Len(p.a), NEW n \in 1 .. Len(q.b), Origin(x.id) = p.a[m].id, Origin(y.id) = q.b[n].id
      PROVE  <<x, y>> \in KeptApart
  BY <1>1, <1>4, <1>8 DEF KeptApart
<1>9. ASSUME NEW m \in 1 .. Len(p.b), NEW n \in 1 .. Len(q.a), Origin(x.id) = p.b[m].id, Origin(y.id) = q.a[n].id
      PROVE  <<x, y>> \in KeptApart
  BY <1>1, <1>4, <1>9 DEF KeptApart
<1>10. <<x, y>> \in KeptApart
  BY <1>2, <1>3, <1>6, <1>7, <1>8, <1>9
<1> QED
  BY <1>10 DEF x, y

(* Of the options. *)
LEMMA OptionsAre ==
  ASSUME NEW o \in MergeOptions
  PROVE  /\ o.allow \subseteq ElementTypes /\ o.trust \in {"a", "b", "both"}
         /\ o.block \in {"far", "near", "same"}
         /\ \A type : PreferredSide(type, o) \in {"a", "b", "neither"}
<1>1. /\ o.allow \subseteq ElementTypes /\ o.trust \in {"a", "b", "both"}
      /\ o.block \in {"far", "near", "same"} /\ \A t \in DOMAIN o.prefer : o.prefer[t] \in {"a", "b"}
  BY MergeConstants
<1>2. \A type : PreferredSide(type, o) \in {"a", "b", "neither"}
  BY <1>1 DEF PreferredSide
<1> QED
  BY <1>1, <1>2

(* An element of one parse with fields of another, under an id of its own. *)
LEMMA ElementFields ==
  ASSUME NEW e \in MergeElements
  PROVE  /\ e.id \in MergeIds /\ e.type \in ElementTypes /\ e.text \in Nat /\ e.rich \in Nat
         /\ e.level \in 1 .. 6 /\ e.refs \in SUBSET OriginIds
         /\ \A id \in MergeIds, level \in 1 .. 6 :
              LET f == [e EXCEPT !.id = id, !.level = level]
              IN  /\ f \in MergeElements /\ f.id = id /\ f.refs = e.refs /\ f.level = level
                  /\ f.type = e.type /\ f.text = e.text /\ f.rich = e.rich
         /\ \A rich \in Nat :
              LET f == [e EXCEPT !.rich = rich]
              IN  f \in MergeElements /\ f.id = e.id /\ f.refs = e.refs
         /\ \A level \in 1 .. 6 :
              LET f == [e EXCEPT !.level = level]
              IN  /\ f \in MergeElements /\ f.level = level
                  /\ f.type = e.type /\ f.text = e.text /\ f.rich = e.rich
<1>1. /\ e.id \in MergeIds /\ e.type \in ElementTypes /\ e.text \in Nat /\ e.rich \in Nat
      /\ e.level \in 1 .. 6 /\ e.refs \in SUBSET OriginIds
  BY DEF MergeElements
<1>2. ASSUME NEW id \in MergeIds, NEW level \in 1 .. 6
      PROVE  LET f == [e EXCEPT !.id = id, !.level = level]
             IN  /\ f \in MergeElements /\ f.id = id /\ f.refs = e.refs /\ f.level = level
                 /\ f.type = e.type /\ f.text = e.text /\ f.rich = e.rich
  BY DEF MergeElements
<1>3. ASSUME NEW rich \in Nat
      PROVE  LET f == [e EXCEPT !.rich = rich] IN f \in MergeElements /\ f.id = e.id /\ f.refs = e.refs
  BY DEF MergeElements
<1>4. ASSUME NEW level \in 1 .. 6
      PROVE  LET f == [e EXCEPT !.level = level]
             IN  /\ f \in MergeElements /\ f.level = level
                 /\ f.type = e.type /\ f.text = e.text /\ f.rich = e.rich
  BY DEF MergeElements
<1> QED
  BY <1>1, <1>2, <1>3, <1>4

(* What a heading merged from two is. *)
LEMMA HeadingIs ==
  ASSUME NEW a \in MergeElements, NEW b \in MergeElements, a.id \in OriginIds, NEW o \in MergeOptions
  PROVE  LET h == SelectHeading(a, b, o)
         IN  /\ h \in MergeElements /\ h.id = <<"new", a.id>> /\ Origin(h.id) = a.id
             /\ h.refs \in {a.refs, b.refs} /\ h.level \in {a.level, b.level}
             /\ \/ h.type = a.type /\ h.text = a.text /\ h.rich = a.rich
                \/ h.type = b.type /\ h.text = b.text /\ h.rich = b.rich
<1> DEFINE inner == IF b.rich > a.rich THEN b ELSE a
    level == CASE o.trust = "a" -> a.level
               [] o.trust = "b" -> b.level
               [] o.trust = "both" -> Lower(a.level, b.level)
    id == <<"new", a.id>>
    h == [inner EXCEPT !.id = id, !.level = level]
<1>1. inner \in MergeElements /\ inner \in {a, b}
  OBVIOUS
<1>2. level \in {a.level, b.level}
  BY OptionsAre DEF Lower
<1>3. level \in 1 .. 6
  <2>1. a.level \in 1 .. 6
    BY ElementFields
  <2>2. b.level \in 1 .. 6
    BY ElementFields
  <2> HIDE DEF level
  <2> QED
    BY <1>2, <2>1, <2>2
<1>4. id \in MergeIds
  BY DEF MergeIds
<1>5. SelectHeading(a, b, o) = h
  BY DEF SelectHeading
<1> HIDE DEF inner, level, id
<1>6. /\ h \in MergeElements /\ h.id = id /\ h.refs = inner.refs /\ h.level = level
      /\ h.type = inner.type /\ h.text = inner.text /\ h.rich = inner.rich
  <2>1. \A i \in MergeIds, l \in 1 .. 6 :
              LET f == [inner EXCEPT !.id = i, !.level = l]
              IN  /\ f \in MergeElements /\ f.id = i /\ f.refs = inner.refs /\ f.level = l
                  /\ f.type = inner.type /\ f.text = inner.text /\ f.rich = inner.rich
    BY <1>1, ElementFields
  <2> QED
    BY <1>3, <1>4, <2>1
<1> HIDE DEF h
<1>7. Origin(h.id) = a.id
  BY <1>6 DEF id, Origin
<1> QED
  BY <1>1, <1>2, <1>5, <1>6, <1>7 DEF id

(* An element made of two: one of them, or a heading with the fields of one. *)
SelectedFrom(e, a, b) ==
  /\ e \in MergeElements /\ Origin(e.id) \in {a.id, b.id} /\ e.refs \in {a.refs, b.refs}
  /\ e.level \in {a.level, b.level}
  /\ \/ e.type = a.type /\ e.text = a.text /\ e.rich = a.rich
     \/ e.type = b.type /\ e.text = b.text /\ e.rich = b.rich

(* What apply_heuristics returns. *)
LEMMA HeuristicsAre ==
  ASSUME NEW sa, NEW sb, OfParse(sa, "a"), OfParse(sb, "b"), sa # <<>>, sb # <<>>, NEW o \in MergeOptions
  PROVE  LET r == ApplyHeuristics(sa, sb, o)
         IN  \/ r = sa
             \/ r = sb
             \/ Len(sa) = 1 /\ Len(sb) = 1 /\ \E e \in MergeElements : r = <<e>> /\ SelectedFrom(e, sa[1], sb[1])
<1>1. sa \in Seq(MergeElements) /\ sb \in Seq(MergeElements)
  BY DEF OfParse
<1>2. Len(sa) # 0
  BY <1>1
<1>3. Len(sa) \in Nat
  BY <1>1
<1>4. Len(sb) # 0
  BY <1>1
<1>5. Len(sb) \in Nat
  BY <1>1
<1>6. 1 \in 1 .. Len(sa)
  BY <1>2, <1>3
<1>7. 1 \in 1 .. Len(sb)
  BY <1>4, <1>5
<1> DEFINE a == Head(sa)
    b == Head(sb)
    pref == PreferredSide(a.type, o)
    single == Len(sa) = 1 /\ Len(sb) = 1 /\ a.type = b.type
    r == ApplyHeuristics(sa, sb, o)
<1>14. a = sa[1]
  BY <1>1
<1>15. b = sb[1]
  BY <1>1
<1>16. a \in MergeElements /\ Origin(a.id) = a.id /\ a.id \in OriginIds
  <2>1. \A k \in 1 .. Len(sa) : /\ sa[k] \in MergeElements /\ Origin(sa[k].id) = sa[k].id
                               /\ sa[k].id[1] = "a" /\ sa[k].id[2] \in Nat /\ sa[k].id = <<"a", sa[k].id[2]>>
    BY OwnOrigin
  <2> HIDE DEF a
  <2>2. sa[1] \in MergeElements /\ Origin(sa[1].id) = sa[1].id
    BY <1>6, <2>1
  <2>3. sa[1].id = <<"a", sa[1].id[2]>> /\ sa[1].id[2] \in Nat
    BY <1>6, <2>1
  <2>4. sa[1].id \in OriginIds
    <3>1. \A n \in Nat : <<"a", n>> \in OriginIds
      BY DEF OriginIds
    <3> QED
      BY <2>3, <3>1, Zenon
  <2> QED
    BY <1>14, <2>2, <2>4
<1>17. b \in MergeElements /\ Origin(b.id) = b.id
  <2>1. \A k \in 1 .. Len(sb) : sb[k] \in MergeElements /\ Origin(sb[k].id) = sb[k].id
    BY OwnOrigin
  <2> HIDE DEF b
  <2> QED
    BY <1>7, <1>15, <2>1
<1>18. pref \in {"a", "b", "neither"}
  BY OptionsAre
<1>19. r = CASE pref = "a" -> sa
            [] pref = "b" -> sb
            [] pref = "neither" /\ single /\ a.type = "heading" -> <<SelectHeading(a, b, o)>>
            [] pref = "neither" /\ single /\ a.type = "paragraph" -> <<SelectParagraph(a, b)>>
            [] OTHER -> IF Scored(sb) > Scored(sa) THEN sb ELSE sa
  BY DEF ApplyHeuristics
<1> HIDE DEF r, pref, a, b
<1>8. \/ r = sa \/ r = sb
      \/ single /\ a.type = "heading" /\ r = <<SelectHeading(a, b, o)>>
      \/ single /\ a.type = "paragraph" /\ r = <<SelectParagraph(a, b)>>
  BY <1>18, <1>19
<1>9. SelectedFrom(a, a, b) /\ SelectedFrom(b, a, b)
  BY <1>16, <1>17 DEF SelectedFrom
<1>10. CASE single /\ a.type = "heading" /\ r = <<SelectHeading(a, b, o)>>
  <2> DEFINE h == SelectHeading(a, b, o)
  <2>1. /\ h \in MergeElements /\ h.id = <<"new", a.id>> /\ Origin(h.id) = a.id
        /\ h.refs \in {a.refs, b.refs} /\ h.level \in {a.level, b.level}
        /\ \/ h.type = a.type /\ h.text = a.text /\ h.rich = a.rich
           \/ h.type = b.type /\ h.text = b.text /\ h.rich = b.rich
    BY <1>16, <1>17, HeadingIs
  <2> HIDE DEF h
  <2>2. SelectedFrom(h, a, b)
    BY <2>1 DEF SelectedFrom
  <2>3. r = <<h>>
    BY <1>10 DEF h
  <2> QED
    BY <1>14, <1>15, <1>10, <2>1, <2>2, <2>3 DEF r
<1>11. CASE single /\ a.type = "paragraph" /\ r = <<SelectParagraph(a, b)>>
  <2> DEFINE p == SelectParagraph(a, b)
  <2>1. p = a \/ p = b
    BY DEF SelectParagraph
  <2>2. p \in MergeElements /\ SelectedFrom(p, a, b)
    BY <1>16, <1>17, <1>9, <2>1
  <2> QED
    BY <1>14, <1>15, <1>11, <2>2 DEF r
<1> QED
  BY <1>8, <1>10, <1>11 DEF r

(* It is picked of the two sides, and looks as they do if they look alike. *)
LEMMA HeuristicsPick ==
  ASSUME NEW sa, NEW sb, OfParse(sa, "a"), OfParse(sb, "b"), sa # <<>>, sb # <<>>, NEW o \in MergeOptions
  PROVE  /\ Picked(ApplyHeuristics(sa, sb, o), sa, sb)
         /\ Mapped(Look, sa) = Mapped(Look, sb) => Mapped(Look, ApplyHeuristics(sa, sb, o)) = Mapped(Look, sa)
<1> DEFINE r == ApplyHeuristics(sa, sb, o)
<1>1. \/ r = sa
      \/ r = sb
      \/ Len(sa) = 1 /\ Len(sb) = 1 /\ \E e \in MergeElements : r = <<e>> /\ SelectedFrom(e, sa[1], sb[1])
  BY HeuristicsAre
<1> HIDE DEF r
<1>2. sa \in Seq(MergeElements) /\ sb \in Seq(MergeElements)
  BY DEF OfParse
<1>3. CASE r = sa \/ r = sb
  BY <1>2, <1>3 DEF Picked, r
<1>4. ASSUME Len(sa) = 1, Len(sb) = 1, NEW e \in MergeElements, r = <<e>>, SelectedFrom(e, sa[1], sb[1])
      PROVE  Picked(r, sa, sb) /\ (Mapped(Look, sa) = Mapped(Look, sb) => Mapped(Look, r) = Mapped(Look, sa))
  <2>1. r \in Seq(MergeElements) /\ Len(r) = 1 /\ r[1] = e
    BY <1>4
  <2>2. Picked(r, sa, sb)
    BY <1>4, <2>1 DEF Picked, SelectedFrom
  <2>3. ASSUME Mapped(Look, sa) = Mapped(Look, sb) PROVE Mapped(Look, r) = Mapped(Look, sa)
    <3>1. \A c, d \in Seq(MergeElements) : Mapped(Look, c) = Mapped(Look, d)
            <=> Len(c) = Len(d) /\ \A n \in 1 .. Len(c) : Look[c[n]] = Look[d[n]]
      BY MappedSame
    <3> DEFINE one == 1
    <3>6. one \in 1 .. Len(sa) /\ one \in 1 .. Len(sb) /\ one \in 1 .. Len(r)
      BY <1>4, <2>1
    <3> HIDE DEF one
    <3>2. Look[sa[1]] = Look[sb[1]]
      <4>1. Look[sa[one]] = Look[sb[one]]
        BY <1>2, <2>3, <3>1, <3>6
      <4> QED
        BY <4>1 DEF one
    <3>3. sa[1] \in MergeElements /\ sb[1] \in MergeElements
      <4>1. sa[one] \in MergeElements
        BY <1>2, <3>6
      <4>2. sb[one] \in MergeElements
        BY <1>2, <3>6
      <4> QED
        BY <4>1, <4>2 DEF one
    <3>4. Look[e] = Look[sa[1]]
      BY <1>4, <3>2, <3>3 DEF Look, SelectedFrom
    <3>5. \A n \in 1 .. Len(r) : n = 1
      BY <2>1
    <3>7. Len(r) = Len(sa) /\ \A n \in 1 .. Len(r) : Look[r[n]] = Look[sa[n]]
      BY <1>4, <2>1, <3>4, <3>5
    <3> QED
      BY <1>2, <2>1, <3>1, <3>7
  <2> QED
    BY <2>2, <2>3
<1> QED
  BY <1>1, <1>3, <1>4 DEF r

(* The words for an aligned pair. *)
LEMMA KeptIs ==
  ASSUME NEW r, NEW sa, NEW sb, NEW sure \in BOOLEAN
  PROVE  Kept(r, sa, sb, sure) \in OpWords
<1>1. \/ sure /\ r = sa
      \/ ~(sure /\ r = sa) /\ sure /\ r # sa /\ r = sb
      \/ ~(sure /\ r = sa) /\ ~(sure /\ r # sa /\ r = sb)
  OBVIOUS
<1>2. Kept(r, sa, sb, sure) = "keep_a" \/ Kept(r, sa, sb, sure) = "keep_b" \/ Kept(r, sa, sb, sure) = "merge"
  BY <1>1 DEF Kept
<1> QED
  BY <1>2 DEF OpWords

(* One aligned pair is a good operation on the two groups. *)
LEMMA PairGood ==
  ASSUME NEW sa, NEW sb, OfParse(sa, "a"), OfParse(sb, "b"), sa # <<>>, sb # <<>>, NEW o \in MergeOptions,
         NEW sure \in BOOLEAN
  PROVE  LET p == AlignedPair(sa, sb, o, sure)
         IN  GoodOp(p) /\ p.a = sa /\ p.b = sb /\ p.resolved = ApplyHeuristics(sa, sb, o)
<1> DEFINE r == ApplyHeuristics(sa, sb, o)
    w == Kept(r, sa, sb, sure)
<1>1. Picked(r, sa, sb)
  BY HeuristicsPick
<1>2. AlignedPair(sa, sb, o, sure) = Operation(w, sa, sb, r)
  BY DEF AlignedPair
<1>3. w \in OpWords
  BY KeptIs
<1> HIDE DEF r, w
<1>4. /\ GoodOp(Operation(w, sa, sb, r)) /\ Operation(w, sa, sb, r).a = sa
      /\ Operation(w, sa, sb, r).b = sb /\ Operation(w, sa, sb, r).resolved = r
  BY <1>1, <1>3, OpsAre
<1> QED
  BY <1>2, <1>4 DEF r

(* So is one of a replaced block. *)
LEMMA MarkupGood ==
  ASSUME NEW sa, NEW sb, OfParse(sa, "a"), OfParse(sb, "b"), sa # <<>>, sb # <<>>, NEW o \in MergeOptions
  PROVE  LET p == PairedWithMarkup(sa, sb, o) IN GoodOp(p) /\ p.a = sa /\ p.b = sb
<1> DEFINE won == ApplyHeuristics(sa, sb, o)
    r == IF won = sb /\ Len(sa) = 1 /\ Len(sb) = 1 THEN <<Injected(sb[1], sa[1])>> ELSE won
    w == Kept(r, sa, sb, TRUE)
<1>1. Picked(won, sa, sb)
  BY HeuristicsPick
<1>2. PairedWithMarkup(sa, sb, o) = Operation(w, sa, sb, r)
  BY DEF PairedWithMarkup
<1>3. w \in OpWords
  BY KeptIs
<1> HIDE DEF won, w
<1>4. Picked(r, sa, sb)
  <2>1. CASE won = sb /\ Len(sa) = 1 /\ Len(sb) = 1
    <3> DEFINE x == sa[1]
          y == sb[1]
          e == Injected(y, x)
    <3>1. 1 \in 1 .. Len(sa) /\ 1 \in 1 .. Len(sb)
      BY <2>1
    <3>2. x \in MergeElements /\ y \in MergeElements /\ Origin(y.id) = y.id
      BY <3>1, OwnOrigin
    <3> HIDE DEF x, y
    <3>3. e \in MergeElements /\ e.id = y.id /\ e.refs = y.refs
      <4>1. x.rich \in Nat /\ y.rich \in Nat
        BY <3>2, ElementFields
      <4>2. \A rich \in Nat : LET f == [y EXCEPT !.rich = rich] IN f \in MergeElements /\ f.id = y.id /\ f.refs = y.refs
        BY <3>2, ElementFields
      <4>3. y.rich + x.rich \in Nat
        BY <4>1
      <4> DEFINE sum == y.rich + x.rich
            f == [y EXCEPT !.rich = sum]
      <4>4. f \in MergeElements /\ f.id = y.id /\ f.refs = y.refs
        BY <4>2, <4>3
      <4>5. e = f \/ e = y
        BY DEF Injected
      <4> HIDE DEF f, e
      <4> QED
        BY <3>2, <4>4, <4>5
    <3>4. r = <<e>>
      BY <2>1 DEF x, y
    <3> HIDE DEF e, r
    <3>5. r \in Seq(MergeElements) /\ Len(r) = 1 /\ r[1] = e
      BY <3>3, <3>4
    <3> QED
      BY <2>1, <3>2, <3>3, <3>5 DEF Picked, x, y
  <2>2. CASE ~(won = sb /\ Len(sa) = 1 /\ Len(sb) = 1)
    BY <1>1, <2>2
  <2> QED
    BY <2>1, <2>2
<1> HIDE DEF r
<1>5. /\ GoodOp(Operation(w, sa, sb, r)) /\ Operation(w, sa, sb, r).a = sa
      /\ Operation(w, sa, sb, r).b = sb /\ Operation(w, sa, sb, r).resolved = r
  BY <1>3, <1>4, OpsAre
<1> QED
  BY <1>2, <1>5

(* So is taking one side alone, or nothing. *)
LEMMA AloneGood ==
  ASSUME NEW sa, NEW sb, OfParse(sa, "a"), OfParse(sb, "b")
  PROVE  /\ LET p == Inserted(sb) IN GoodOp(p) /\ p.a = <<>> /\ p.b = sb
         /\ LET p == Operation("delete_a", sa, <<>>, <<>>) IN GoodOp(p) /\ p.a = sa /\ p.b = <<>>
         /\ LET p == Operation("delete_a", sa, <<>>, sa) IN GoodOp(p) /\ p.a = sa /\ p.b = <<>>
<1> DEFINE none == <<>>
<1>1. OfParse(none, "a") /\ OfParse(none, "b")
  BY NothingOfParse
<1>2. none \in Seq(MergeElements) /\ sa \in Seq(MergeElements) /\ sb \in Seq(MergeElements)
  <2>1. none \in Seq(MergeElements)
    OBVIOUS
  <2> HIDE DEF none
  <2> QED
    BY <2>1 DEF OfParse
<1>3. "delete_a" \in OpWords /\ "insert_b" \in OpWords
  BY DEF OpWords
<1> HIDE DEF none
<1>4. Picked(sb, none, sb) /\ Picked(none, sa, none) /\ Picked(sa, sa, none)
  BY <1>2 DEF Picked
<1>5. /\ GoodOp(Operation("insert_b", none, sb, sb)) /\ Operation("insert_b", none, sb, sb).a = none
      /\ Operation("insert_b", none, sb, sb).b = sb
  BY <1>1, <1>3, <1>4, OpsAre
<1>6. /\ GoodOp(Operation("delete_a", sa, none, none)) /\ Operation("delete_a", sa, none, none).a = sa
      /\ Operation("delete_a", sa, none, none).b = none
  BY <1>1, <1>3, <1>4, OpsAre
<1>7. /\ GoodOp(Operation("delete_a", sa, none, sa)) /\ Operation("delete_a", sa, none, sa).a = sa
      /\ Operation("delete_a", sa, none, sa).b = none
  BY <1>1, <1>3, <1>4, OpsAre
<1> QED
  BY <1>5, <1>6, <1>7 DEF none, Inserted

(* The elements of groups. *)
Members(gs) == UNION {ToSet(gs[n]) : n \in 1 .. Len(gs)}

(* Only the anchor refers, and to its own group. *)
LocalGroup(g) ==
  /\ g[1].refs \subseteq {g[k].id : k \in 1 .. Len(g)}
  /\ \A n \in 2 .. Len(g) : g[n].refs = {}

(* In each group. *)
LocalGroups(gs) == \A n \in 1 .. Len(gs) : LocalGroup(gs[n])

(* An operation of two windows of groups. *)
OpFits(p, ga, gb) ==
  /\ GoodOp(p)
  /\ ToSet(p.a) \subseteq Members(ga) /\ ToSet(p.b) \subseteq Members(gb)
  /\ LocalGroups(ga) /\ LocalGroups(gb) => Closed(p.a) /\ Closed(p.b)

(* Operations of two windows, each element in one of them. *)
OpsFit(ops, ga, gb) ==
  ops \in Seq(Operations) /\ (\A n \in 1 .. Len(ops) : OpFits(ops[n], ga, gb)) /\ Pairwise(ops, OpsApart)

(* A good operation is an operation. *)
LEMMA GoodIs ==
  ASSUME NEW p, GoodOp(p) PROVE p \in Operations
  BY DEF GoodOp

(* A group of a parse. *)
LEMMA GroupIs ==
  ASSUME NEW side, NEW gs, GroupsOf(gs, side), NEW n \in 1 .. Len(gs)
  PROVE  /\ gs[n] \in Groups /\ gs[n] \in Seq(MergeElements) /\ OfParse(gs[n], side) /\ gs[n] # <<>>
         /\ ToSet(gs[n]) \subseteq Members(gs)
         /\ LocalGroups(gs) => Closed(gs[n]) /\ LocalGroup(gs[n])
<1>1. gs[n] \in Groups /\ OfParse(gs[n], side)
  BY DEF GroupsOf
<1>2. gs[n] \in Seq(MergeElements) /\ gs[n] # <<>>
  BY <1>1 DEF Groups
<1>3. ToSet(gs[n]) \subseteq Members(gs)
  BY DEF Members
<1>4. ASSUME LocalGroups(gs) PROVE Closed(gs[n]) /\ LocalGroup(gs[n])
  <2>1. LocalGroup(gs[n])
    BY <1>4 DEF LocalGroups
  <2> DEFINE g == gs[n]
  <2>2. g \in Seq(MergeElements)
    BY <1>2
  <2> HIDE DEF g
  <2>3. ASSUME NEW k \in 1 .. Len(g) PROVE g[k].refs \subseteq {g[m].id : m \in 1 .. Len(g)}
    <3>1. CASE k = 1
      BY <2>1, <3>1 DEF LocalGroup, g
    <3>2. CASE k # 1
      <4>1. k \in 2 .. Len(g)
        BY <2>2, <3>2
      <4>2. g[k].refs = {}
        BY <2>1, <4>1 DEF LocalGroup, g
      <4> QED
        BY <4>2
    <3> QED
      BY <3>1, <3>2
  <2> QED
    BY <2>1, <2>3 DEF Closed, g
<1> QED
  BY <1>1, <1>2, <1>3, <1>4

(* Two groups of a parse: the earlier's elements are numbered before. *)
LEMMA TwoGroups ==
  ASSUME NEW side \in {"a", "b"}, NEW gs, GroupsOf(gs, side), NEW m \in 1 .. Len(gs), NEW n \in 1 .. Len(gs)
  PROVE  /\ m < n => AllBefore(gs[m], gs[n], Numbering)
         /\ m # n => AllBefore(gs[m], gs[n], Differs)
<1>1. \A i, j \in 1 .. Len(gs) : i < j => AllBefore(gs[i], gs[j], Numbering)
  BY DEF GroupsOf
<1>2. ASSUME m # n PROVE AllBefore(gs[m], gs[n], Differs)
  <2> DEFINE g == gs[m]
        h == gs[n]
  <2>1. OfParse(g, side) /\ OfParse(h, side)
    BY GroupIs
  <2>2. AllBefore(g, h, Numbering) \/ AllBefore(h, g, Numbering)
    <3>1. m < n \/ n < m
      BY <1>2
    <3> QED
      BY <1>1, <3>1
  <2> HIDE DEF g, h
  <2>3. ASSUME NEW i \in 1 .. Len(g), NEW j \in 1 .. Len(h) PROVE <<g[i], h[j]>> \in Differs
    <3> DEFINE x == g[i]
          y == h[j]
    <3>1. x \in MergeElements /\ x.id[2] \in Nat /\ y \in MergeElements /\ y.id[2] \in Nat
      BY <2>1, OwnOrigin
    <3>2. <<x, y>> \in Numbering \/ <<y, x>> \in Numbering
      BY <2>2 DEF AllBefore
    <3> HIDE DEF x, y
    <3>3. x.id[2] < y.id[2] \/ y.id[2] < x.id[2]
      BY <3>2 DEF Numbering
    <3>4. x.id[2] # y.id[2]
      BY <3>1, <3>3
    <3>5. x.id # y.id
      BY <3>4
    <3> QED
      BY <3>1, <3>5 DEF Differs, x, y
  <2> QED
    BY <2>3 DEF AllBefore, g, h
<1> QED
  BY <1>1, <1>2

(* The elements of groups, one after the other. *)
LEMMA AllOfGroups ==
  ASSUME NEW side \in {"a", "b"}, NEW gs, GroupsOf(gs, side)
  PROVE  /\ OfParse(FlattenSeq(gs), side) /\ ToSet(FlattenSeq(gs)) = Members(gs)
         /\ LocalGroups(gs) => Closed(FlattenSeq(gs))
         /\ gs # <<>> => FlattenSeq(gs) # <<>>
<1> DEFINE flat == FlattenSeq(gs)
    M == MergeElements
<1>1. gs \in Seq(Groups) /\ gs \in Seq(Seq(M))
  <2>1. Groups \subseteq Seq(M) /\ gs \in Seq(Groups)
    BY DEF Groups, GroupsOf
  <2> QED
    BY <2>1
<1>2. flat \in Seq(M) /\ \A x : x \in ToSet(flat) <=> \E n \in 1 .. Len(gs) : x \in ToSet(gs[n])
  BY <1>1, FlattenIn, FlattenMembers
<1>3. Pairwise(flat, Numbering)
  <2>1. /\ \A n \in 1 .. Len(gs) : Pairwise(gs[n], Numbering)
        /\ \A m, n \in 1 .. Len(gs) : m < n => AllBefore(gs[m], gs[n], Numbering)
    BY DEF GroupsOf, OfParse
  <2> HIDE DEF M
  <2> QED
    BY <1>1, <2>1, FlattenPairwise
<1>4. ToSet(flat) = Members(gs)
  BY <1>2 DEF Members
<1> HIDE DEF flat
<1>5. DOMAIN flat = 1 .. Len(flat) /\ ToSet(flat) = {flat[k] : k \in 1 .. Len(flat)}
  BY <1>2 DEF ToSet
<1>6. ASSUME NEW k \in 1 .. Len(flat)
      PROVE  \E n \in 1 .. Len(gs) : \E i \in 1 .. Len(gs[n]) : flat[k] = gs[n][i]
  <2>1. flat[k] \in ToSet(flat)
    BY <1>5
  <2>2. PICK n \in 1 .. Len(gs) : flat[k] \in ToSet(gs[n])
    BY <1>2, <2>1
  <2>3. DOMAIN gs[n] = 1 .. Len(gs[n])
    BY <1>1
  <2> DEFINE x == flat[k]
        g == gs[n]
  <2>4. x \in ToSet(g) /\ DOMAIN g = 1 .. Len(g)
    BY <2>2, <2>3
  <2> HIDE DEF x, g
  <2>5. \E i \in 1 .. Len(g) : x = g[i]
    BY <2>4 DEF ToSet
  <2> QED
    BY <2>5 DEF x, g
<1>7. OfParse(flat, side)
  <2>1. ASSUME NEW k \in 1 .. Len(flat) PROVE flat[k].id \in {side} \X Nat /\ flat[k].id \notin flat[k].refs
    <3>1. PICK n \in 1 .. Len(gs) : \E i \in 1 .. Len(gs[n]) : flat[k] = gs[n][i]
      BY <1>6
    <3>2. OfParse(gs[n], side)
      BY GroupIs
    <3> QED
      BY <3>1, <3>2 DEF OfParse
  <2> QED
    BY <1>2, <1>3, <2>1 DEF OfParse
<1>8. ASSUME LocalGroups(gs) PROVE Closed(flat)
  <2> SUFFICES ASSUME NEW k \in 1 .. Len(flat) PROVE flat[k].refs \subseteq {flat[m].id : m \in 1 .. Len(flat)}
    BY DEF Closed
  <2>1. PICK n \in 1 .. Len(gs) : \E i \in 1 .. Len(gs[n]) : flat[k] = gs[n][i]
    BY <1>6
  <2> DEFINE g == gs[n]
  <2>2. PICK i \in 1 .. Len(g) : flat[k] = g[i]
    BY <2>1
  <2>3. Closed(g) /\ g \in Seq(M)
    BY <1>8, GroupIs
  <2>4. ToSet(g) \subseteq ToSet(flat)
    BY <1>2
  <2> HIDE DEF g
  <2>5. g[i].refs \subseteq {g[m].id : m \in 1 .. Len(g)}
    BY <2>3 DEF Closed
  <2>6. \A m \in 1 .. Len(g) : \E q \in 1 .. Len(flat) : g[m] = flat[q]
    <3>1. \A m \in 1 .. Len(g) : g[m] \in ToSet(g)
      BY <2>3 DEF ToSet
    <3> QED
      BY <1>5, <2>4, <3>1
  <2> SUFFICES ASSUME NEW id \in g[i].refs PROVE \E q \in 1 .. Len(flat) : id = flat[q].id
    BY <2>2
  <2>7. PICK m \in 1 .. Len(g) : id = g[m].id
    BY <2>5
  <2>8. PICK q \in 1 .. Len(flat) : g[m] = flat[q]
    BY <2>6
  <2> QED
    BY <2>7, <2>8
<1>9. ASSUME gs # <<>> PROVE flat # <<>>
  <2>1. Len(gs) \in Nat
    BY <1>1
  <2>2. Len(gs) # 0
    BY <1>1, <1>9
  <2>3. 1 \in 1 .. Len(gs)
    BY <2>1, <2>2
  <2> DEFINE g == gs[1]
  <2>4. g # <<>> /\ g \in Seq(M) /\ ToSet(g) \subseteq ToSet(flat)
    BY <1>4, <2>3, GroupIs
  <2> HIDE DEF g
  <2>5. Len(g) \in Nat
    BY <2>4
  <2>6. Len(g) # 0
    BY <2>4
  <2>7. 1 \in 1 .. Len(g)
    BY <2>5, <2>6
  <2>8. g[1] \in ToSet(flat)
    BY <2>4, <2>7 DEF ToSet
  <2>9. PICK q \in 1 .. Len(flat) : g[1] = flat[q]
    BY <1>5, <2>8
  <2> QED
    BY <1>2, <2>9
<1> QED
  BY <1>4, <1>7, <1>8, <1>9 DEF flat

(* Operations that fit windows fit larger ones. *)
LEMMA FitWider ==
  ASSUME NEW p, NEW ga, NEW gb, NEW ha, NEW hb, OpFits(p, ga, gb),
         Members(ga) \subseteq Members(ha), Members(gb) \subseteq Members(hb),
         LocalGroups(ha) => LocalGroups(ga), LocalGroups(hb) => LocalGroups(gb)
  PROVE  OpFits(p, ha, hb)
  BY DEF OpFits

(* Aligned groups. *)
LEMMA PairsFit ==
  ASSUME NEW ga, NEW gb, GroupsOf(ga, "a"), GroupsOf(gb, "b"), Len(ga) = Len(gb),
         NEW o \in MergeOptions, NEW sure \in BOOLEAN
  PROVE  /\ OpsFit([n \in DOMAIN ga |-> AlignedPair(ga[n], gb[n], o, sure)], ga, gb)
         /\ \A n \in 1 .. Len(ga) : AlignedPair(ga[n], gb[n], o, sure).resolved = ApplyHeuristics(ga[n], gb[n], o)
<1> DEFINE L == Len(ga)
    ops == [n \in DOMAIN ga |-> AlignedPair(ga[n], gb[n], o, sure)]
<1>1. DOMAIN ga = 1 .. L /\ L \in Nat
  BY DEF GroupsOf
<1>2. ASSUME NEW n \in 1 .. L
      PROVE  /\ OpFits(ops[n], ga, gb) /\ ops[n].a = ga[n] /\ ops[n].b = gb[n]
             /\ AlignedPair(ga[n], gb[n], o, sure).resolved = ApplyHeuristics(ga[n], gb[n], o)
  <2> DEFINE g == ga[n]
        h == gb[n]
        p == AlignedPair(g, h, o, sure)
  <2>1. OfParse(g, "a") /\ g # <<>> /\ ToSet(g) \subseteq Members(ga) /\ (LocalGroups(ga) => Closed(g))
    BY GroupIs
  <2>2. OfParse(h, "b") /\ h # <<>> /\ ToSet(h) \subseteq Members(gb) /\ (LocalGroups(gb) => Closed(h))
    BY GroupIs
  <2> HIDE DEF g, h
  <2>3. GoodOp(p) /\ p.a = g /\ p.b = h /\ p.resolved = ApplyHeuristics(g, h, o)
    BY <2>1, <2>2, PairGood
  <2>4. ops[n] = p
    BY <1>1 DEF g, h
  <2> HIDE DEF p
  <2>5. OpFits(p, ga, gb)
    BY <2>1, <2>2, <2>3 DEF OpFits
  <2> QED
    BY <2>3, <2>4, <2>5 DEF g, h, p
<1> HIDE DEF L
<1>3. ops \in Seq(Operations) /\ Len(ops) = L
  <2>1. \A n \in 1 .. L : ops[n] \in Operations
    BY <1>2, GoodIs DEF OpFits
  <2> QED
    BY <1>1, <2>1
<1> HIDE DEF ops
<1>4. Pairwise(ops, OpsApart)
  <2> SUFFICES ASSUME NEW i \in 1 .. L, NEW j \in 1 .. L, i < j PROVE <<ops[i], ops[j]>> \in OpsApart
    BY <1>3 DEF Pairwise
  <2>1. AllBefore(ga[i], ga[j], Numbering)
    BY TwoGroups DEF L
  <2>2. AllBefore(gb[i], gb[j], Differs)
    <3>1. i # j
      BY <1>1
    <3> QED
      BY <3>1, TwoGroups DEF L
  <2>3. ops[i] \in Operations /\ ops[j] \in Operations
    BY <1>3
  <2> QED
    BY <1>2, <2>1, <2>2, <2>3 DEF OpsApart
<1> QED
  BY <1>2, <1>3, <1>4 DEF OpsFit, ops, L

(* Groups only A has. *)
LEMMA DeletesFit ==
  ASSUME NEW ga, NEW gb, GroupsOf(ga, "a")
  PROVE  OpsFit([n \in DOMAIN ga |-> Operation("delete_a", ga[n], <<>>, <<>>)], ga, gb)
<1> DEFINE L == Len(ga)
    none == <<>>
    ops == [n \in DOMAIN ga |-> Operation("delete_a", ga[n], none, none)]
<1>1. DOMAIN ga = 1 .. L /\ L \in Nat
  BY DEF GroupsOf
<1>2. OfParse(none, "b") /\ Closed(none) /\ ToSet(none) = {}
  BY NothingOfParse, NothingBefore
<1>3. ASSUME NEW n \in 1 .. L PROVE OpFits(ops[n], ga, gb) /\ ops[n].a = ga[n] /\ ops[n].b = none
  <2> DEFINE g == ga[n]
        p == Operation("delete_a", g, none, none)
  <2>1. OfParse(g, "a") /\ g # <<>> /\ ToSet(g) \subseteq Members(ga) /\ (LocalGroups(ga) => Closed(g))
    BY GroupIs
  <2> HIDE DEF g
  <2>2. GoodOp(p) /\ p.a = g /\ p.b = none
    BY <1>2, <2>1, AloneGood
  <2>3. ops[n] = p
    BY <1>1 DEF g
  <2> HIDE DEF p, none
  <2>4. OpFits(p, ga, gb)
    BY <1>2, <2>1, <2>2 DEF OpFits
  <2> QED
    BY <2>2, <2>3, <2>4 DEF g
<1> HIDE DEF L
<1>4. ops \in Seq(Operations) /\ Len(ops) = L
  <2>1. \A n \in 1 .. L : ops[n] \in Operations
    BY <1>3, GoodIs DEF OpFits
  <2> QED
    BY <1>1, <2>1
<1> HIDE DEF ops
<1>5. Pairwise(ops, OpsApart)
  <2> SUFFICES ASSUME NEW i \in 1 .. L, NEW j \in 1 .. L, i < j PROVE <<ops[i], ops[j]>> \in OpsApart
    BY <1>4 DEF Pairwise
  <2>1. AllBefore(ga[i], ga[j], Numbering)
    BY TwoGroups DEF L
  <2>2. AllBefore(ops[i].b, ops[j].b, Differs)
    BY <1>3, NothingBefore
  <2>3. ops[i] \in Operations /\ ops[j] \in Operations
    BY <1>4
  <2> QED
    BY <1>3, <2>1, <2>2, <2>3 DEF OpsApart
<1> QED
  BY <1>3, <1>4, <1>5 DEF OpsFit, ops, L

(* One operation. *)
LEMMA OneFits ==
  ASSUME NEW p, NEW ga, NEW gb, OpFits(p, ga, gb)
  PROVE  OpsFit(<<p>>, ga, gb)
<1>1. p \in Operations
  BY GoodIs DEF OpFits
<1>2. <<p>> \in Seq(Operations) /\ Len(<<p>>) = 1 /\ <<p>>[1] = p
  BY <1>1
<1> DEFINE ops == <<p>>
<1> HIDE DEF ops
<1>3. ops \in Seq(Operations) /\ Len(ops) = 1 /\ ops[1] = p
  BY <1>2 DEF ops
<1>4. \A n \in 1 .. Len(ops) : n = 1
  BY <1>3
<1>5. Pairwise(ops, OpsApart)
  BY <1>3 DEF Pairwise
<1>6. OpsFit(ops, ga, gb)
  BY <1>3, <1>4, <1>5 DEF OpsFit
<1> QED
  BY <1>6 DEF ops

(* Operations followed by operations on other elements. *)
LEMMA JoinedFit ==
  ASSUME NEW x, NEW y, NEW ga, NEW gb, OpsFit(x, ga, gb), OpsFit(y, ga, gb), AllBefore(x, y, OpsApart)
  PROVE  OpsFit(x \o y, ga, gb)
<1>1. /\ x \in Seq(Operations) /\ y \in Seq(Operations)
      /\ (\A n \in 1 .. Len(x) : OpFits(x[n], ga, gb)) /\ (\A n \in 1 .. Len(y) : OpFits(y[n], ga, gb))
      /\ Pairwise(x, OpsApart) /\ Pairwise(y, OpsApart)
  BY DEF OpsFit
<1>2. Pairwise(x \o y, OpsApart)
  BY <1>1, PairwiseJoined
<1>3. /\ x \o y \in Seq(Operations)
      /\ \A k \in 1 .. Len(x) : (x \o y)[k] = x[k]
      /\ \A k \in 1 .. Len(x \o y) : k \notin 1 .. Len(x) =>
           k - Len(x) \in 1 .. Len(y) /\ (x \o y)[k] = y[k - Len(x)]
  BY <1>1, Concatenated
<1>4. ASSUME NEW k \in 1 .. Len(x \o y) PROVE OpFits((x \o y)[k], ga, gb)
  BY <1>1, <1>3, Zenon
<1> QED
  BY <1>2, <1>3, <1>4 DEF OpsFit

(* Many sequences of them. *)
LEMMA FlattenedFit ==
  ASSUME NEW ss \in Seq(Seq(Operations)), NEW ga, NEW gb, \A n \in 1 .. Len(ss) : OpsFit(ss[n], ga, gb),
         \A m, n \in 1 .. Len(ss) : m < n => AllBefore(ss[m], ss[n], OpsApart)
  PROVE  OpsFit(FlattenSeq(ss), ga, gb)
<1> DEFINE flat == FlattenSeq(ss)
<1>1. flat \in Seq(Operations) /\ \A x : x \in ToSet(flat) <=> \E n \in 1 .. Len(ss) : x \in ToSet(ss[n])
  BY FlattenIn, FlattenMembers
<1>2. \A n \in 1 .. Len(ss) : Pairwise(ss[n], OpsApart)
  BY DEF OpsFit
<1>3. Pairwise(flat, OpsApart)
  BY <1>2, FlattenPairwise
<1> HIDE DEF flat
<1>4. ASSUME NEW k \in 1 .. Len(flat) PROVE OpFits(flat[k], ga, gb)
  <2>1. flat[k] \in ToSet(flat)
    BY <1>1 DEF ToSet
  <2>2. PICK n \in 1 .. Len(ss) : flat[k] \in ToSet(ss[n])
    BY <1>1, <2>1
  <2> DEFINE s == ss[n]
        x == flat[k]
  <2>3. x \in ToSet(s) /\ DOMAIN s = 1 .. Len(s) /\ OpsFit(s, ga, gb)
    BY <2>2
  <2> HIDE DEF s, x
  <2>4. PICK i \in 1 .. Len(s) : x = s[i]
    BY <2>3 DEF ToSet
  <2> QED
    BY <2>3, <2>4 DEF OpsFit, x
<1> QED
  BY <1>1, <1>3, <1>4 DEF OpsFit, flat

(* Elements of B inserted, each once. *)
LEMMA InsertsFit ==
  ASSUME NEW ga, NEW gb, NEW hs \in Seq(Seq(MergeElements)),
         \A k \in 1 .. Len(hs) : /\ OfParse(hs[k], "b") /\ ToSet(hs[k]) \subseteq Members(gb)
                                 /\ LocalGroups(gb) => Closed(hs[k]),
         \A i, j \in 1 .. Len(hs) : i < j => AllBefore(hs[i], hs[j], Differs)
  PROVE  LET ops == [k \in DOMAIN hs |-> Inserted(hs[k])]
         IN  /\ OpsFit(ops, ga, gb) /\ Len(ops) = Len(hs)
             /\ \A k \in 1 .. Len(hs) : ops[k].a = <<>> /\ ops[k].b = hs[k]
<1> DEFINE L == Len(hs)
    none == <<>>
    ops == [k \in DOMAIN hs |-> Inserted(hs[k])]
<1>1. DOMAIN hs = 1 .. L /\ L \in Nat
  OBVIOUS
<1>2. OfParse(none, "a") /\ Closed(none) /\ ToSet(none) = {}
  BY NothingOfParse, NothingBefore
<1>3. ASSUME NEW n \in 1 .. L PROVE OpFits(ops[n], ga, gb) /\ ops[n].a = none /\ ops[n].b = hs[n]
  <2> DEFINE h == hs[n]
        p == Inserted(h)
  <2>1. OfParse(h, "b") /\ ToSet(h) \subseteq Members(gb) /\ (LocalGroups(gb) => Closed(h))
    OBVIOUS
  <2> HIDE DEF h
  <2>2. GoodOp(p) /\ p.a = none /\ p.b = h
    BY <1>2, <2>1, AloneGood
  <2>3. ops[n] = p
    BY <1>1 DEF h
  <2> HIDE DEF p, none
  <2>4. OpFits(p, ga, gb)
    BY <1>2, <2>1, <2>2 DEF OpFits
  <2> QED
    BY <2>2, <2>3, <2>4 DEF h
<1> HIDE DEF L
<1>4. ops \in Seq(Operations) /\ Len(ops) = L
  <2>1. \A n \in 1 .. L : ops[n] \in Operations
    BY <1>3, GoodIs DEF OpFits
  <2> QED
    BY <1>1, <2>1
<1> HIDE DEF ops
<1>5. Pairwise(ops, OpsApart)
  <2> SUFFICES ASSUME NEW i \in 1 .. L, NEW j \in 1 .. L, i < j PROVE <<ops[i], ops[j]>> \in OpsApart
    BY <1>4 DEF Pairwise
  <2>1. AllBefore(ops[i].a, ops[j].a, Numbering)
    BY <1>3, NothingBefore
  <2>2. AllBefore(hs[i], hs[j], Differs)
    BY DEF L
  <2>3. ops[i] \in Operations /\ ops[j] \in Operations
    BY <1>4
  <2> QED
    BY <1>3, <2>1, <2>2, <2>3 DEF OpsApart
<1> QED
  BY <1>3, <1>4, <1>5 DEF OpsFit, ops, L

(* A single element of B. *)
LEMMA SingleIs ==
  ASSUME NEW e \in MergeElements, NEW side, e.id \in {side} \X Nat, e.refs = {}
  PROVE  OfParse(<<e>>, side) /\ Closed(<<e>>) /\ ToSet(<<e>>) = {e} /\ <<e>> \in Seq(MergeElements)
<1> DEFINE s == <<e>>
<1>1. s \in Seq(MergeElements) /\ Len(s) = 1 /\ s[1] = e /\ DOMAIN s = 1 .. 1
  OBVIOUS
<1> HIDE DEF s
<1>2. \A n \in 1 .. Len(s) : n = 1
  BY <1>1
<1>3. Pairwise(s, Numbering)
  BY <1>1 DEF Pairwise
<1>4. OfParse(s, side)
  BY <1>1, <1>2, <1>3 DEF OfParse
<1>5. Closed(s)
  BY <1>1, <1>2 DEF Closed
<1>6. ToSet(s) = {e}
  BY <1>1 DEF ToSet
<1> QED
  BY <1>1, <1>4, <1>5, <1>6 DEF s

(* A single element, whatever it refers to but itself. *)
LEMMA SingleParse ==
  ASSUME NEW e \in MergeElements, NEW side, e.id \in {side} \X Nat, e.id \notin e.refs
  PROVE  OfParse(<<e>>, side) /\ ToSet(<<e>>) = {e} /\ <<e>> \in Seq(MergeElements)
<1> DEFINE s == <<e>>
<1>1. s \in Seq(MergeElements) /\ Len(s) = 1 /\ s[1] = e /\ DOMAIN s = 1 .. 1
  OBVIOUS
<1> HIDE DEF s
<1>2. \A n \in 1 .. Len(s) : n = 1
  BY <1>1
<1>3. Pairwise(s, Numbering)
  BY <1>1 DEF Pairwise
<1>4. OfParse(s, side)
  BY <1>1, <1>2, <1>3 DEF OfParse
<1>5. ToSet(s) = {e}
  BY <1>1 DEF ToSet
<1> QED
  BY <1>1, <1>4, <1>5 DEF s

(* The trailing elements of a group. *)
LEMMA TrailingIs ==
  ASSUME NEW g, OfParse(g, "b"), g # <<>>
  PROVE  /\ Tail(g) \in Seq(MergeElements) /\ Pairwise(Tail(g), Numbering)
         /\ \A x \in ToSet(Tail(g)) : /\ x \in ToSet(g) /\ x \in MergeElements /\ x.id \in {"b"} \X Nat
                                      /\ x.id \notin x.refs
                                      /\ LocalGroup(g) => x.refs = {}
<1> DEFINE t == Tail(g)
<1>1. g \in Seq(MergeElements) /\ Pairwise(g, Numbering)
  BY DEF OfParse
<1>2. Len(g) \in Nat
  BY <1>1
<1>3. Len(g) # 0
  BY <1>1
<1>4. t \in Seq(MergeElements) /\ Len(t) = Len(g) - 1 /\ \A k \in 1 .. Len(g) - 1 : t[k] = g[k + 1]
  BY <1>1
<1> HIDE DEF t
<1>5. \A k \in 1 .. Len(t) : k + 1 \in 2 .. Len(g) /\ k + 1 \in 1 .. Len(g) /\ t[k] = g[k + 1]
  BY <1>2, <1>3, <1>4
<1>6. Pairwise(t, Numbering)
  <2> SUFFICES ASSUME NEW i \in 1 .. Len(t), NEW j \in 1 .. Len(t), i < j PROVE <<t[i], t[j]>> \in Numbering
    BY DEF Pairwise
  <2>1. i + 1 < j + 1
    OBVIOUS
  <2>2. <<g[i + 1], g[j + 1]>> \in Numbering
    BY <1>1, <1>5, <2>1 DEF Pairwise
  <2> QED
    BY <1>5, <2>2
<1>7. ASSUME NEW x \in ToSet(t)
      PROVE  /\ x \in ToSet(g) /\ x \in MergeElements /\ x.id \in {"b"} \X Nat /\ x.id \notin x.refs
             /\ LocalGroup(g) => x.refs = {}
  <2>1. DOMAIN t = 1 .. Len(t) /\ DOMAIN g = 1 .. Len(g)
    BY <1>1, <1>4
  <2>2. PICK k \in 1 .. Len(t) : x = t[k]
    BY <2>1 DEF ToSet
  <2>3. x = g[k + 1] /\ k + 1 \in 2 .. Len(g) /\ k + 1 \in 1 .. Len(g)
    BY <1>5, <2>2
  <2> DEFINE n == k + 1
  <2>4. x = g[n] /\ n \in 2 .. Len(g) /\ n \in 1 .. Len(g)
    BY <2>3
  <2> HIDE DEF n
  <2>5. x \in ToSet(g)
    BY <2>1, <2>4 DEF ToSet
  <2>6. x \in MergeElements
    BY <1>1, <2>4
  <2>7. x.id \in {"b"} \X Nat /\ x.id \notin x.refs
    BY <2>4 DEF OfParse
  <2>8. LocalGroup(g) => x.refs = {}
    BY <2>4 DEF LocalGroup
  <2> QED
    BY <2>5, <2>6, <2>7, <2>8
<1> QED
  BY <1>4, <1>6, <1>7 DEF t

(* The elements behind an anchor, each a group of its own. *)
LEMMA SinglesAre ==
  ASSUME NEW free \in Seq(MergeElements)
  PROVE  LET hs == [n \in DOMAIN free |-> <<free[n]>>]
         IN  /\ hs \in Seq(Seq(MergeElements)) /\ Len(hs) = Len(free)
             /\ [n \in DOMAIN free |-> Inserted(<<free[n]>>)] = [k \in DOMAIN hs |-> Inserted(hs[k])]
<1> DEFINE hs == [n \in DOMAIN free |-> <<free[n]>>]
<1>1. DOMAIN free = 1 .. Len(free) /\ Len(free) \in Nat /\ \A n \in 1 .. Len(free) : free[n] \in MergeElements
  OBVIOUS
<1>2. \A n \in 1 .. Len(free) : <<free[n]>> \in Seq(MergeElements)
  BY <1>1
<1>3. hs \in Seq(Seq(MergeElements)) /\ Len(hs) = Len(free)
  BY <1>1, <1>2
<1>4. DOMAIN hs = DOMAIN free /\ \A k \in DOMAIN free : hs[k] = <<free[k]>>
  OBVIOUS
<1> HIDE DEF hs
<1>5. [n \in DOMAIN free |-> Inserted(<<free[n]>>)] = [k \in DOMAIN hs |-> Inserted(hs[k])]
  BY <1>4
<1> QED
  BY <1>3, <1>5 DEF hs

(* What B alone has of a group. *)
LEMMA OnlyFits ==
  ASSUME NEW ga, NEW gb, GroupsOf(gb, "b"), NEW n \in 1 .. Len(gb), NEW o \in MergeOptions
  PROVE  /\ OpsFit(OnlyInB(gb[n], o), ga, gb)
         /\ \A k \in 1 .. Len(OnlyInB(gb[n], o)) :
              /\ OnlyInB(gb[n], o)[k].a = <<>>
              /\ ToSet(OnlyInB(gb[n], o)[k].b) \subseteq ToSet(gb[n])
<1> DEFINE
    g == gb[n]
    S == {e \in ToSet(g) : e.type \in o.allow}
    free == Among(Tail(g), S)
    hs == [k \in DOMAIN free |-> <<free[k]>>]
    singles == [k \in DOMAIN free |-> Inserted(<<free[k]>>)]
<1>1. /\ g \in Seq(MergeElements) /\ OfParse(g, "b") /\ g # <<>>
      /\ ToSet(g) \subseteq Members(gb)
      /\ LocalGroups(gb) => Closed(g) /\ LocalGroup(g)
  BY GroupIs
<1>2. OnlyInB(g, o) = IF Head(g).type \in o.allow THEN <<Inserted(g)>> ELSE singles
  BY DEF OnlyInB
<1> HIDE DEF g
<1>3. CASE Head(g).type \in o.allow
  <2> DEFINE p == Inserted(g)
  <2>1. OfParse(<<>>, "a") /\ Closed(<<>>) /\ ToSet(<<>>) = {}
    BY NothingOfParse, NothingBefore
  <2>2. GoodOp(p) /\ p.a = <<>> /\ p.b = g
    BY <1>1, <2>1, AloneGood
  <2> HIDE DEF p
  <2>3. OpFits(p, ga, gb)
    BY <1>1, <2>1, <2>2 DEF OpFits
  <2>4. OpsFit(<<p>>, ga, gb)
    BY <2>3, OneFits
  <2>5. OnlyInB(g, o) = <<p>>
    BY <1>2, <1>3 DEF p
  <2>6. Len(<<p>>) = 1 /\ <<p>>[1] = p
    OBVIOUS
  <2>7. \A k \in 1 .. Len(<<p>>) : <<p>>[k].a = <<>> /\ ToSet(<<p>>[k].b) \subseteq ToSet(g)
    BY <2>2, <2>6
  <2> QED
    BY <2>4, <2>5, <2>7 DEF g
<1>4. CASE Head(g).type \notin o.allow
  <2>1. /\ Tail(g) \in Seq(MergeElements) /\ Pairwise(Tail(g), Numbering)
        /\ \A x \in ToSet(Tail(g)) : /\ x \in ToSet(g) /\ x \in MergeElements /\ x.id \in {"b"} \X Nat
                                     /\ x.id \notin x.refs
                                     /\ LocalGroup(g) => x.refs = {}
    BY <1>1, TrailingIs
  <2>2. /\ free \in Seq(MergeElements) /\ ToSet(free) = ToSet(Tail(g)) \cap S
        /\ Pairwise(free, Numbering)
    BY <2>1, AmongIn, AmongMembers, AmongPairwise
  <2> HIDE DEF S, free
  <2>3. /\ hs \in Seq(Seq(MergeElements)) /\ Len(hs) = Len(free)
        /\ singles = [k \in DOMAIN hs |-> Inserted(hs[k])]
    BY <2>2, SinglesAre
  <2>4. DOMAIN free = 1 .. Len(free) /\ \A k \in 1 .. Len(free) : free[k] \in ToSet(Tail(g)) /\ hs[k] = <<free[k]>>
    <3>1. DOMAIN free = 1 .. Len(free)
      BY <2>2
    <3>2. \A k \in 1 .. Len(free) : free[k] \in ToSet(free)
      BY <3>1 DEF ToSet
    <3> QED
      BY <3>1, <3>2, <2>2
  <2> HIDE DEF hs
  <2>5. ASSUME NEW k \in 1 .. Len(hs)
        PROVE  /\ OfParse(hs[k], "b") /\ ToSet(hs[k]) = {free[k]} /\ ToSet(hs[k]) \subseteq ToSet(g)
               /\ ToSet(hs[k]) \subseteq Members(gb)
               /\ LocalGroups(gb) => Closed(hs[k])
    <3> DEFINE x == free[k]
    <3>1. x \in ToSet(Tail(g)) /\ hs[k] = <<x>>
      BY <2>3, <2>4
    <3> HIDE DEF x
    <3>2. x \in ToSet(g) /\ x \in MergeElements /\ x.id \in {"b"} \X Nat /\ x.id \notin x.refs
      BY <2>1, <3>1
    <3>3. OfParse(<<x>>, "b") /\ ToSet(<<x>>) = {x}
      BY <3>2, SingleParse
    <3>4. LocalGroups(gb) => x.refs = {}
      BY <1>1, <2>1, <3>1
    <3>5. LocalGroups(gb) => Closed(<<x>>)
      BY <3>2, <3>4, SingleIs
    <3>6. ToSet(<<x>>) \subseteq ToSet(g) /\ ToSet(<<x>>) \subseteq Members(gb)
      BY <1>1, <3>2, <3>3
    <3> QED
      BY <3>1, <3>3, <3>5, <3>6 DEF x
  <2>6. ASSUME NEW i \in 1 .. Len(hs), NEW j \in 1 .. Len(hs), i < j
        PROVE  AllBefore(hs[i], hs[j], Differs)
    <3>1. <<free[i], free[j]>> \in Numbering
      BY <2>2, <2>3, <2>6 DEF Pairwise
    <3>2. free[i].id[2] < free[j].id[2] /\ free[i] \in MergeElements /\ free[j] \in MergeElements
      BY <3>1 DEF Numbering
    <3>3. free[i].id \in {"b"} \X Nat /\ free[j].id \in {"b"} \X Nat
      BY <2>1, <2>3, <2>4
    <3>4. <<free[i], free[j]>> \in Differs
      BY <3>2, <3>3 DEF Differs
    <3>5. hs[i] = <<free[i]>> /\ hs[j] = <<free[j]>>
      BY <2>3, <2>4
    <3> QED
      BY <3>4, <3>5 DEF AllBefore
  <2>7. /\ OpsFit([k \in DOMAIN hs |-> Inserted(hs[k])], ga, gb)
        /\ Len([k \in DOMAIN hs |-> Inserted(hs[k])]) = Len(hs)
        /\ \A k \in 1 .. Len(hs) : /\ [i \in DOMAIN hs |-> Inserted(hs[i])][k].a = <<>>
                                   /\ [i \in DOMAIN hs |-> Inserted(hs[i])][k].b = hs[k]
    BY <2>3, <2>5, <2>6, InsertsFit
  <2>8. OnlyInB(g, o) = singles
    BY <1>2, <1>4
  <2> HIDE DEF singles
  <2>9. OnlyInB(g, o) = [k \in DOMAIN hs |-> Inserted(hs[k])]
    BY <2>3, <2>8
  <2> QED
    BY <2>5, <2>7, <2>9 DEF g
<1> QED
  BY <1>3, <1>4

(* Operations on what only B has of two groups apart. *)
LEMMA InsertsApart ==
  ASSUME NEW x \in Seq(Operations), NEW y \in Seq(Operations),
         NEW g \in Seq(MergeElements), NEW h \in Seq(MergeElements), AllBefore(g, h, Differs),
         \A k \in 1 .. Len(x) : x[k].a = <<>> /\ ToSet(x[k].b) \subseteq ToSet(g),
         \A k \in 1 .. Len(y) : ToSet(y[k].b) \subseteq ToSet(h)
  PROVE  AllBefore(x, y, OpsApart)
<1> SUFFICES ASSUME NEW i \in 1 .. Len(x), NEW j \in 1 .. Len(y) PROVE <<x[i], y[j]>> \in OpsApart
  BY DEF AllBefore
<1>1. x[i] \in Operations /\ y[j] \in Operations
  OBVIOUS
<1>2. x[i].b \in Seq(MergeElements) /\ y[j].b \in Seq(MergeElements)
  BY <1>1 DEF Operations
<1>3. AllBefore(x[i].b, y[j].b, Differs)
  <2>1. ToSet(x[i].b) \subseteq ToSet(g) /\ ToSet(y[j].b) \subseteq ToSet(h)
    OBVIOUS
  <2> QED
    BY <1>2, <2>1, WithinBefore
<1>4. x[i].a = <<>>
  OBVIOUS
<1>5. AllBefore(x[i].a, y[j].a, Numbering)
  BY <1>4, NothingBefore
<1> QED
  BY <1>1, <1>3, <1>5 DEF OpsApart

(* The groups B alone has. *)
LEMMA OnlyInBFits ==
  ASSUME NEW ga, NEW gb, GroupsOf(gb, "b"), NEW o \in MergeOptions
  PROVE  OpsFit(FlattenSeq([n \in DOMAIN gb |-> OnlyInB(gb[n], o)]), ga, gb)
<1> DEFINE ss == [n \in DOMAIN gb |-> OnlyInB(gb[n], o)]
<1>1. DOMAIN gb = 1 .. Len(gb) /\ Len(gb) \in Nat
  BY DEF GroupsOf
<1>2. \A n \in 1 .. Len(gb) :
        /\ OpsFit(OnlyInB(gb[n], o), ga, gb)
        /\ \A k \in 1 .. Len(OnlyInB(gb[n], o)) :
             /\ OnlyInB(gb[n], o)[k].a = <<>>
             /\ ToSet(OnlyInB(gb[n], o)[k].b) \subseteq ToSet(gb[n])
  BY OnlyFits
<1>3. DOMAIN ss = 1 .. Len(gb) /\ \A n \in 1 .. Len(gb) : ss[n] = OnlyInB(gb[n], o)
  BY <1>1
<1> HIDE DEF ss
<1>4. \A n \in 1 .. Len(gb) : OpsFit(ss[n], ga, gb) /\ ss[n] \in Seq(Operations)
  BY <1>2, <1>3 DEF OpsFit
<1>5. ss \in Seq(Seq(Operations)) /\ Len(ss) = Len(gb)
  <2>1. ss = [n \in 1 .. Len(gb) |-> ss[n]]
    BY <1>1, <1>3 DEF ss
  <2> DEFINE L == Len(gb)
  <2>2. L \in Nat /\ ss = [n \in 1 .. L |-> ss[n]] /\ \A n \in 1 .. L : ss[n] \in Seq(Operations)
    BY <1>1, <2>1, <1>4
  <2> HIDE DEF L
  <2>3. ss \in [1 .. L -> Seq(Operations)]
    BY <2>2
  <2>4. ss \in Seq(Seq(Operations)) /\ Len(ss) = L
    BY <2>2, <2>3
  <2> QED
    BY <2>4 DEF L
<1>6. ASSUME NEW m \in 1 .. Len(ss), NEW n \in 1 .. Len(ss), m < n
      PROVE  AllBefore(ss[m], ss[n], OpsApart)
  <2> DEFINE x == ss[m]
             y == ss[n]
             g == gb[m]
             h == gb[n]
  <2>1. g \in Seq(MergeElements) /\ h \in Seq(MergeElements)
    BY <1>5, GroupIs
  <2>2. AllBefore(g, h, Differs)
    <3>1. m \in 1 .. Len(gb) /\ n \in 1 .. Len(gb) /\ m # n
      BY <1>5, <1>6
    <3> QED
      BY <3>1, TwoGroups
  <2>3. x \in Seq(Operations) /\ y \in Seq(Operations)
    BY <1>4, <1>5
  <2>4. /\ \A k \in 1 .. Len(x) : x[k].a = <<>> /\ ToSet(x[k].b) \subseteq ToSet(g)
        /\ \A k \in 1 .. Len(y) : ToSet(y[k].b) \subseteq ToSet(h)
    BY <1>2, <1>3, <1>5
  <2> HIDE DEF x, y, g, h
  <2>5. AllBefore(x, y, OpsApart)
    BY <2>1, <2>2, <2>3, <2>4, InsertsApart
  <2> QED
    BY <2>5 DEF x, y
<1>7. \A m, n \in 1 .. Len(ss) : m < n => AllBefore(ss[m], ss[n], OpsApart)
  BY <1>6
<1>8. \A n \in 1 .. Len(ss) : OpsFit(ss[n], ga, gb)
  BY <1>4, <1>5
<1>9. OpsFit(FlattenSeq(ss), ga, gb)
  BY <1>5, <1>7, <1>8, FlattenedFit
<1> QED
  BY <1>9 DEF ss

(* Of some groups, in the order they had. *)
LEMMA GroupsAmong ==
  ASSUME NEW gb, GroupsOf(gb, "b"), NEW S
  PROVE  LET hs == Among(gb, S)
         IN  /\ hs \in Seq(Seq(MergeElements))
             /\ \A k \in 1 .. Len(hs) : /\ OfParse(hs[k], "b") /\ ToSet(hs[k]) \subseteq Members(gb)
                                        /\ LocalGroups(gb) => Closed(hs[k])
             /\ \A i, j \in 1 .. Len(hs) : i < j => AllBefore(hs[i], hs[j], Differs)
<1> DEFINE
    hs == Among(gb, S)
    R == {p \in Groups \X Groups : AllBefore(p[1], p[2], Differs)}
<1>1. gb \in Seq(Groups) /\ DOMAIN gb = 1 .. Len(gb)
  BY DEF GroupsOf
<1>2. hs \in Seq(Groups) /\ ToSet(hs) = ToSet(gb) \cap S
  BY <1>1, AmongIn, AmongMembers
<1>3. Pairwise(gb, R)
  <2>1. \A i, j \in 1 .. Len(gb) : i < j => AllBefore(gb[i], gb[j], Differs)
    BY TwoGroups
  <2>2. \A i \in 1 .. Len(gb) : gb[i] \in Groups
    BY <1>1
  <2> QED
    BY <2>1, <2>2 DEF Pairwise
<1> HIDE DEF R
<1>4. Pairwise(hs, R)
  BY <1>1, <1>3, AmongPairwise
<1> HIDE DEF hs
<1>5. \A i, j \in 1 .. Len(hs) : i < j => AllBefore(hs[i], hs[j], Differs)
  BY <1>4 DEF Pairwise, R
<1>6. ASSUME NEW k \in 1 .. Len(hs)
      PROVE  \E n \in 1 .. Len(gb) : hs[k] = gb[n]
  <2>1. DOMAIN hs = 1 .. Len(hs)
    BY <1>2
  <2>2. hs[k] \in ToSet(hs)
    BY <2>1 DEF ToSet
  <2>3. hs[k] \in ToSet(gb)
    BY <2>2, <1>2
  <2> QED
    BY <2>3, <1>1 DEF ToSet
<1>7. \A n \in 1 .. Len(gb) : /\ OfParse(gb[n], "b") /\ ToSet(gb[n]) \subseteq Members(gb)
                              /\ LocalGroups(gb) => Closed(gb[n])
  BY GroupIs
<1>8. \A k \in 1 .. Len(hs) : /\ OfParse(hs[k], "b") /\ ToSet(hs[k]) \subseteq Members(gb)
                              /\ LocalGroups(gb) => Closed(hs[k])
  BY <1>6, <1>7
<1>9. hs \in Seq(Seq(MergeElements))
  BY <1>2 DEF Groups
<1> QED
  BY <1>5, <1>8, <1>9 DEF hs

(* A block nothing alike. *)
LEMMA DissimilarFits ==
  ASSUME NEW ga, NEW gb, GroupsOf(ga, "a"), GroupsOf(gb, "b"), NEW o \in MergeOptions
  PROVE  OpsFit(Dissimilar(ga, gb, o), ga, gb)
<1> DEFINE
    p == Operation("delete_a", FlattenSeq(ga), <<>>, <<>>)
    S == {g \in ToSet(gb) : \A n \in DOMAIN g : g[n].type \in o.allow}
    hs == Among(gb, S)
    ops == [k \in DOMAIN hs |-> Inserted(hs[k])]
<1>1. Dissimilar(ga, gb, o) = <<p>> \o ops
  BY DEF Dissimilar
<1> HIDE DEF S
<1>2. /\ OfParse(FlattenSeq(ga), "a") /\ ToSet(FlattenSeq(ga)) = Members(ga)
      /\ LocalGroups(ga) => Closed(FlattenSeq(ga))
  BY AllOfGroups
<1>3. OfParse(<<>>, "b") /\ Closed(<<>>) /\ ToSet(<<>>) = {}
  BY NothingOfParse, NothingBefore
<1>4. GoodOp(p) /\ p.a = FlattenSeq(ga) /\ p.b = <<>>
  BY <1>2, <1>3, AloneGood
<1> HIDE DEF p
<1>5. OpFits(p, ga, gb)
  BY <1>2, <1>3, <1>4 DEF OpFits
<1>6. OpsFit(<<p>>, ga, gb)
  BY <1>5, OneFits
<1>7. /\ hs \in Seq(Seq(MergeElements))
      /\ \A k \in 1 .. Len(hs) : /\ OfParse(hs[k], "b") /\ ToSet(hs[k]) \subseteq Members(gb)
                                 /\ LocalGroups(gb) => Closed(hs[k])
      /\ \A i, j \in 1 .. Len(hs) : i < j => AllBefore(hs[i], hs[j], Differs)
  BY GroupsAmong
<1> HIDE DEF hs
<1>8. OpsFit(ops, ga, gb) /\ Len(ops) = Len(hs) /\ \A k \in 1 .. Len(hs) : ops[k].a = <<>> /\ ops[k].b = hs[k]
  BY <1>7, InsertsFit
<1> HIDE DEF ops
<1>9. AllBefore(<<p>>, ops, OpsApart)
  <2> SUFFICES ASSUME NEW k \in 1 .. Len(ops) PROVE <<p, ops[k]>> \in OpsApart
    BY DEF AllBefore
  <2>1. p \in Operations /\ ops[k] \in Operations
    BY <1>4, <1>8, GoodIs DEF OpsFit
  <2>2. AllBefore(p.b, ops[k].b, Differs)
    BY <1>4, NothingBefore
  <2>3. ops[k].a = <<>>
    BY <1>8
  <2>4. AllBefore(p.a, ops[k].a, Numbering)
    BY <2>3, NothingBefore
  <2> QED
    BY <2>1, <2>2, <2>4 DEF OpsApart
<1>10. OpsFit(<<p>> \o ops, ga, gb)
  BY <1>6, <1>8, <1>9, JoinedFit
<1> QED
  BY <1>1, <1>10

(* A group of B per group of A, or none: no group of B twice. *)
OneToOne(s, L) ==
  s \in Seq(0 .. L) /\ \A i, j \in 1 .. Len(s) : i # j /\ s[i] # 0 => s[i] # s[j]

(* A free group, or none. *)
LEMMA ClosestToIs ==
  ASSUME NEW key, NEW L \in Nat, NEW kb, NEW free, free \subseteq 1 .. L, NEW o
  PROVE  ClosestTo(key, free, kb, o) \in free \cup {0}
<1> DEFINE same == {j \in free : kb[j] = key}
           near == IF same # {} THEN same ELSE {j \in free : {key, kb[j]} \in o.pair}
<1>1. ClosestTo(key, free, kb, o) = IF near = {} THEN 0 ELSE Min(near)
  BY DEF ClosestTo
<1>2. near \subseteq free /\ near \subseteq 0 .. L
  <2>1. same \subseteq free /\ {j \in free : {key, kb[j]} \in o.pair} \subseteq free
    OBVIOUS
  <2>2. near \subseteq free
    BY <2>1
  <2> HIDE DEF near
  <2> QED
    BY <2>2
<1> HIDE DEF near
<1>3. near # {} => Min(near) \in near
  BY <1>2, Extremes
<1> QED
  BY <1>1, <1>2, <1>3

(* One more. *)
LEMMA MatchMore ==
  ASSUME NEW L \in Nat, NEW s, OneToOne(s, L), NEW j \in ((1 .. L) \ ToSet(s)) \cup {0}
  PROVE  OneToOne(Append(s, j), L)
<1> DEFINE t == Append(s, j)
           J == 0 .. L
<1>1. s \in Seq(J) /\ j \in J /\ \A a, b \in 1 .. Len(s) : a # b /\ s[a] # 0 => s[a] # s[b]
  BY DEF OneToOne
<1> HIDE DEF J
<1>2. /\ t \in Seq(J) /\ Len(t) = Len(s) + 1 /\ Len(s) \in Nat /\ DOMAIN s = 1 .. Len(s)
      /\ t[Len(s) + 1] = j /\ \A n \in 1 .. Len(s) : t[n] = s[n]
  BY <1>1, AppendFacts
<1> HIDE DEF t
<1>3. \A n \in 1 .. Len(s) : s[n] \in ToSet(s)
  BY <1>2 DEF ToSet
<1>4. ASSUME NEW a \in 1 .. Len(t), NEW b \in 1 .. Len(t), a # b, t[a] # 0
      PROVE  t[a] # t[b]
  <2>1. (a \in 1 .. Len(s) \/ a = Len(s) + 1) /\ (b \in 1 .. Len(s) \/ b = Len(s) + 1)
    BY <1>2
  <2>2. CASE a \in 1 .. Len(s) /\ b \in 1 .. Len(s)
    BY <1>1, <1>2, <1>4, <2>2
  <2>3. CASE a \in 1 .. Len(s) /\ b = Len(s) + 1
    <3>1. t[a] \in ToSet(s) /\ t[b] = j
      BY <1>2, <1>3, <2>3
    <3> QED
      BY <1>4, <3>1
  <2>4. CASE a = Len(s) + 1 /\ b \in 1 .. Len(s)
    <3>1. t[b] \in ToSet(s) /\ t[a] = j
      BY <1>2, <1>3, <2>4
    <3> QED
      BY <1>4, <3>1
  <2>5. CASE a = Len(s) + 1 /\ b = Len(s) + 1
    BY <1>4, <2>5
  <2> QED
    BY <2>1, <2>2, <2>3, <2>4, <2>5
<1> QED
  BY <1>2, <1>4 DEF OneToOne, t, J

(* The matches of all of A's groups, one after the other. *)
LEMMA ClosestIs ==
  ASSUME NEW K, NEW ka \in Seq(K), NEW kb \in Seq(K), NEW o
  PROVE  OneToOne(Closest(ka, kb, o), Len(kb)) /\ Len(Closest(ka, kb, o)) = Len(ka)
<1> DEFINE L == Len(ka)
    B == Len(kb)
    X == Seq(0 .. B)
    More(s, n) == Append(s, ClosestTo(ka[n], DOMAIN kb \ ToSet(s), kb, o))
    Then(g, n) == IF n = 0 THEN <<>> ELSE More(g[n - 1], n)
    Solves(g) == g = [n \in 0 .. L |-> Then(g, n)]
    T == [w \in X \X (1 .. L) |-> More(w[1], w[2])]
    none == <<>>
<1>1. L \in Nat /\ B \in Nat /\ none \in X /\ DOMAIN kb = 1 .. B
  OBVIOUS
<1> HIDE DEF L, B
<1>2. ASSUME NEW s \in X, NEW n \in 1 .. L
      PROVE  /\ More(s, n) \in X /\ Len(More(s, n)) = Len(s) + 1
             /\ OneToOne(s, B) => OneToOne(More(s, n), B)
  <2> DEFINE free == (1 .. B) \ ToSet(s)
             j == ClosestTo(ka[n], free, kb, o)
  <2>1. free \subseteq 1 .. B
    OBVIOUS
  <2>2. j \in free \cup {0}
    <3> HIDE DEF free
    <3> QED
      BY <1>1, <2>1, ClosestToIs
  <2>3. More(s, n) = Append(s, j)
    BY <1>1
  <2> HIDE DEF More, j
  <2>4. j \in 0 .. B
    BY <1>1, <2>2
  <2>5. Append(s, j) \in X /\ Len(Append(s, j)) = Len(s) + 1
    BY <2>4
  <2>6. OneToOne(s, B) => OneToOne(Append(s, j), B)
    BY <1>1, <2>2, MatchMore
  <2> QED
    BY <2>3, <2>5, <2>6
<1>3. StaysIn(T, X, L)
  <2>1. \A w \in X \X (1 .. L) : More(w[1], w[2]) \in X
    <3> SUFFICES ASSUME NEW w \in X \X (1 .. L) PROVE More(w[1], w[2]) \in X
      OBVIOUS
    <3>1. w[1] \in X /\ w[2] \in 1 .. L
      OBVIOUS
    <3> HIDE DEF X, More
    <3> QED
      BY <3>1, <1>2
  <2> HIDE DEF X, More
  <2> QED
    BY <2>1 DEF StaysIn
<1>4. PICK f \in [0 .. L -> X] : f[0] = none /\ \A n \in 1 .. L : f[n] = T[<<f[n - 1], n>>]
  <2>1. none \in X /\ L \in Nat
    BY <1>1
  <2> HIDE DEF X, T, none, L
  <2> QED
    BY <1>3, <2>1, Iterated
<1>5. ASSUME NEW n \in 1 .. L PROVE f[n - 1] \in X /\ f[n] = More(f[n - 1], n)
  <2>1. f[n - 1] \in X
    <3> HIDE DEF X
    <3> QED
      BY <1>1
  <2>2. T[<<f[n - 1], n>>] = More(f[n - 1], n)
    <3> HIDE DEF X, More
    <3> QED
      BY <2>1
  <2> HIDE DEF X, More, T
  <2> QED
    BY <1>4, <2>1, <2>2
<1>6. Solves(f)
  <2>1. f = [n \in 0 .. L |-> f[n]]
    OBVIOUS
  <2>2. ASSUME NEW n \in 0 .. L PROVE f[n] = Then(f, n)
    <3> HIDE DEF More
    <3>1. CASE n = 0
      BY <1>4, <3>1
    <3>2. CASE n # 0
      <4>1. n \in 1 .. L
        BY <1>1, <3>2
      <4> QED
        BY <1>5, <3>2, <4>1, Zenon
    <3> QED
      BY <3>1, <3>2
  <2> HIDE DEF Then, X
  <2> QED
    BY <2>1, <2>2
<1> DEFINE g == CHOOSE g : Solves(g)
<1>7. Solves(g)
  <2> HIDE DEF Solves
  <2> QED
    BY <1>6
<1>8. Closest(ka, kb, o) = g[L]
  BY DEF Closest, L
<1> HIDE DEF g
<1>9. \A n \in 0 .. L : g[n] = Then(g, n)
  <2> HIDE DEF Then
  <2> QED
    BY <1>7
<1> DEFINE P == {n \in 0 .. L : g[n] = f[n] /\ Len(f[n]) = n /\ OneToOne(f[n], B)}
<1>10. 0 \in P
  <2>1. 0 \in 0 .. L
    BY <1>1
  <2>2. g[0] = none
    BY <1>9, <2>1
  <2>3. Len(none) = 0 /\ OneToOne(none, B)
    BY DEF OneToOne
  <2> QED
    BY <1>4, <2>1, <2>2, <2>3
<1>11. ASSUME NEW n \in 1 .. L, n - 1 \in P PROVE n \in P
  <2>1. n \in 0 .. L /\ n # 0 /\ g[n - 1] = f[n - 1] /\ Len(f[n - 1]) = n - 1 /\ OneToOne(f[n - 1], B)
    <3>1. n \in 0 .. L /\ n # 0
      BY <1>1
    <3> HIDE DEF More, T, X
    <3> QED
      BY <1>11, <3>1
  <2> HIDE DEF More, P
  <2>2. g[n] = More(g[n - 1], n)
    BY <1>9, <2>1
  <2>3. f[n - 1] \in X /\ f[n] = More(f[n - 1], n)
    BY <1>5
  <2> HIDE DEF X
  <2>4. Len(f[n]) = (n - 1) + 1 /\ OneToOne(f[n], B)
    BY <1>2, <2>1, <2>3
  <2>5. n \in Int
    BY <1>1
  <2>6. Len(f[n]) = n
    BY <2>4, <2>5
  <2> QED
    BY <2>1, <2>2, <2>3, <2>4, <2>6 DEF P
<1>12. L \in P
  <2> HIDE DEF P
  <2>1. L \in Nat /\ \A n \in 1 .. L : n - 1 \in P => n \in P
    BY <1>1, <1>11
  <2>2. \A n \in 0 .. L : n \in P
    BY <1>10, <2>1, UpTo
  <2> QED
    BY <2>1, <2>2
<1> QED
  BY <1>8, <1>12 DEF L, B

(* The keys of groups. *)
LEMMA KeysIn ==
  ASSUME NEW gs \in Seq(Groups)
  PROVE  /\ AlignmentKeys(gs) \in Seq(Nat) /\ Len(AlignmentKeys(gs)) = Len(gs)
         /\ \A n \in 1 .. Len(gs) : AlignmentKeys(gs)[n] = gs[n][1].text
<1>1. DOMAIN gs = 1 .. Len(gs) /\ Len(gs) \in Nat
  OBVIOUS
<1>2. ASSUME NEW n \in 1 .. Len(gs) PROVE Head(gs[n]).text = gs[n][1].text /\ gs[n][1].text \in Nat
  <2>1. gs[n] \in Groups
    OBVIOUS
  <2>2. gs[n][1] \in MergeElements /\ Head(gs[n]) = gs[n][1]
    <3> DEFINE g == gs[n]
    <3>1. g \in Groups
      BY <2>1
    <3> HIDE DEF g
    <3>2. g # <<>> /\ g \in Seq(MergeElements)
      BY <3>1 DEF Groups
    <3>3. Head(g) = g[1] /\ g[1] \in MergeElements
      BY <3>2
    <3> QED
      BY <3>3 DEF g
  <2> QED
    BY <2>2 DEF MergeElements
<1> DEFINE keys == [n \in DOMAIN gs |-> Head(gs[n]).text]
<1>3. keys \in Seq(Nat) /\ Len(keys) = Len(gs) /\ \A n \in 1 .. Len(gs) : keys[n] = gs[n][1].text
  BY <1>1, <1>2
<1> QED
  BY <1>3 DEF AlignmentKeys

(* What MoreInA makes of A's groups. *)
MatchedOps(ga, gb, o, match) ==
  [i \in DOMAIN ga |->
     IF match[i] # 0 THEN PairedWithMarkup(ga[i], gb[match[i]], o)
     ELSE Operation("delete_a", ga[i], <<>>, ga[i])]

(* Groups of A with a match of their own, or none. *)
LEMMA MatchedFit ==
  ASSUME NEW ga, NEW gb, GroupsOf(ga, "a"), GroupsOf(gb, "b"), NEW o \in MergeOptions,
         NEW match, OneToOne(match, Len(gb)), Len(match) = Len(ga)
  PROVE  LET ops == MatchedOps(ga, gb, o, match)
         IN  /\ OpsFit(ops, ga, gb) /\ Len(ops) = Len(ga)
             /\ \A i \in 1 .. Len(ga) : IF match[i] # 0 THEN ops[i].b = gb[match[i]] ELSE ops[i].b = <<>>
<1> DEFINE
    L == Len(ga)
    none == <<>>
    ops == MatchedOps(ga, gb, o, match)
<1>1. DOMAIN ga = 1 .. L /\ L \in Nat
  BY DEF GroupsOf
<1>2. /\ \A i \in 1 .. L : match[i] # 0 => match[i] \in 1 .. Len(gb)
      /\ \A i, j \in 1 .. L : i # j /\ match[i] # 0 => match[i] # match[j]
  <2>1. \A i \in 1 .. L : match[i] \in 0 .. Len(gb)
    BY DEF OneToOne
  <2>2. Len(gb) \in Nat
    BY DEF GroupsOf
  <2> QED
    BY <2>1, <2>2 DEF OneToOne
<1>3. OfParse(none, "b") /\ Closed(none) /\ ToSet(none) = {} /\ \A s, R : AllBefore(none, s, R) /\ AllBefore(s, none, R)
  BY NothingOfParse, NothingBefore
<1> HIDE DEF L
<1>4. ASSUME NEW n \in 1 .. L
      PROVE  /\ OpFits(ops[n], ga, gb) /\ ops[n].a = ga[n]
             /\ IF match[n] # 0 THEN ops[n].b = gb[match[n]] ELSE ops[n].b = none
  <2> DEFINE g == ga[n]
  <2>1. OfParse(g, "a") /\ g # <<>> /\ ToSet(g) \subseteq Members(ga) /\ (LocalGroups(ga) => Closed(g))
    BY GroupIs DEF L
  <2>2. CASE match[n] # 0
    <3> DEFINE h == gb[match[n]]
               p == PairedWithMarkup(g, h, o)
    <3>1. OfParse(h, "b") /\ h # <<>> /\ ToSet(h) \subseteq Members(gb) /\ (LocalGroups(gb) => Closed(h))
      BY <1>2, <2>2, GroupIs
    <3>2. ops[n] = p
      BY <1>1, <2>2 DEF MatchedOps
    <3> HIDE DEF g, h, ops
    <3>3. GoodOp(p) /\ p.a = g /\ p.b = h
      BY <2>1, <3>1, MarkupGood
    <3> HIDE DEF p
    <3>4. OpFits(p, ga, gb)
      BY <2>1, <3>1, <3>3 DEF OpFits
    <3> QED
      BY <2>2, <3>2, <3>3, <3>4 DEF g, h
  <2>3. CASE match[n] = 0
    <3> DEFINE p == Operation("delete_a", g, none, g)
    <3>1. ops[n] = p
      BY <1>1, <2>3 DEF MatchedOps
    <3> HIDE DEF g, ops
    <3>2. GoodOp(p) /\ p.a = g /\ p.b = none
      BY <1>3, <2>1, AloneGood
    <3> HIDE DEF p, none
    <3>3. OpFits(p, ga, gb)
      BY <1>3, <2>1, <3>2 DEF OpFits
    <3> QED
      BY <2>3, <3>1, <3>2, <3>3 DEF g
  <2> QED
    BY <2>2, <2>3
<1>5. ops \in Seq(Operations) /\ Len(ops) = L
  <2>1. DOMAIN ops = 1 .. L /\ ops = [n \in 1 .. L |-> ops[n]]
    BY <1>1 DEF MatchedOps
  <2> HIDE DEF ops
  <2>2. \A n \in 1 .. L : ops[n] \in Operations
    BY <1>4, GoodIs DEF OpFits
  <2>3. ops \in [1 .. L -> Operations]
    BY <2>1, <2>2
  <2> QED
    BY <1>1, <2>1, <2>3
<1> HIDE DEF ops, none
<1>6. Pairwise(ops, OpsApart)
  <2> SUFFICES ASSUME NEW i \in 1 .. L, NEW j \in 1 .. L, i < j PROVE <<ops[i], ops[j]>> \in OpsApart
    BY <1>5 DEF Pairwise
  <2>1. AllBefore(ga[i], ga[j], Numbering)
    BY TwoGroups DEF L
  <2>2. i # j
    BY <1>1
  <2>3. AllBefore(ops[i].b, ops[j].b, Differs)
    <3>1. CASE match[i] # 0 /\ match[j] # 0
      <4>1. match[i] # match[j] /\ match[i] \in 1 .. Len(gb) /\ match[j] \in 1 .. Len(gb)
        BY <1>2, <2>2, <3>1
      <4>2. AllBefore(gb[match[i]], gb[match[j]], Differs)
        BY <4>1, TwoGroups
      <4>3. ops[i].b = gb[match[i]] /\ ops[j].b = gb[match[j]]
        BY <1>4, <3>1
      <4> QED
        BY <4>2, <4>3
    <3>2. CASE match[i] = 0
      <4>1. ops[i].b = none
        BY <1>4, <3>2
      <4> QED
        BY <1>3, <4>1
    <3>3. CASE match[j] = 0
      <4>1. ops[j].b = none
        BY <1>4, <3>3
      <4> QED
        BY <1>3, <4>1
    <3> QED
      BY <3>1, <3>2, <3>3
  <2>4. ops[i] \in Operations /\ ops[j] \in Operations
    BY <1>5
  <2> QED
    BY <1>4, <2>1, <2>3, <2>4 DEF OpsApart
<1> QED
  BY <1>4, <1>5, <1>6 DEF OpsFit, ops, L, none

(* The groups of B with no group of A, of allowed types. *)
LEMMA SparesFit ==
  ASSUME NEW ga, NEW gb, GroupsOf(gb, "b"), NEW ns \in Seq(1 .. Len(gb)),
         \A i, j \in 1 .. Len(ns) : i < j => ns[i] < ns[j]
  PROVE  LET ops == [k \in DOMAIN ns |-> Inserted(gb[ns[k]])]
         IN  /\ OpsFit(ops, ga, gb) /\ Len(ops) = Len(ns)
             /\ \A k \in 1 .. Len(ns) : ops[k].a = <<>> /\ ops[k].b = gb[ns[k]]
<1> DEFINE hs == [k \in DOMAIN ns |-> gb[ns[k]]]
           ops == [k \in DOMAIN ns |-> Inserted(gb[ns[k]])]
           L == Len(ns)
<1>1. L \in Nat /\ DOMAIN ns = 1 .. L /\ \A k \in 1 .. L : ns[k] \in 1 .. Len(gb)
  OBVIOUS
<1>2. gb \in Seq(Groups) /\ Len(gb) \in Nat
  BY DEF GroupsOf
<1> HIDE DEF L
<1>3. \A k \in 1 .. L : gb[ns[k]] \in Seq(MergeElements)
  BY <1>1, GroupIs
<1>4. hs \in Seq(Seq(MergeElements)) /\ Len(hs) = L /\ \A k \in 1 .. L : hs[k] = gb[ns[k]]
  BY <1>1, <1>3
<1>5. DOMAIN hs = DOMAIN ns
  OBVIOUS
<1> HIDE DEF hs
<1>6. ops = [k \in DOMAIN hs |-> Inserted(hs[k])]
  BY <1>1, <1>4, <1>5
<1> HIDE DEF ops
<1>7. \A k \in 1 .. Len(hs) : /\ OfParse(hs[k], "b") /\ ToSet(hs[k]) \subseteq Members(gb)
                              /\ LocalGroups(gb) => Closed(hs[k])
  <2> SUFFICES ASSUME NEW k \in 1 .. Len(hs)
               PROVE  /\ OfParse(hs[k], "b") /\ ToSet(hs[k]) \subseteq Members(gb)
                      /\ LocalGroups(gb) => Closed(hs[k])
    OBVIOUS
  <2>1. ns[k] \in 1 .. Len(gb) /\ hs[k] = gb[ns[k]]
    BY <1>1, <1>4
  <2> QED
    BY <2>1, GroupIs
<1>8. \A i, j \in 1 .. Len(hs) : i < j => AllBefore(hs[i], hs[j], Differs)
  <2> SUFFICES ASSUME NEW i \in 1 .. Len(hs), NEW j \in 1 .. Len(hs), i < j
               PROVE  AllBefore(hs[i], hs[j], Differs)
    OBVIOUS
  <2>1. ns[i] \in 1 .. Len(gb) /\ ns[j] \in 1 .. Len(gb) /\ ns[i] < ns[j]
    BY <1>1, <1>4 DEF L
  <2>2. ns[i] # ns[j]
    BY <1>2, <2>1
  <2>3. AllBefore(gb[ns[i]], gb[ns[j]], Differs)
    BY <2>1, <2>2, TwoGroups
  <2> QED
    BY <1>4, <2>3
<1>9. /\ OpsFit([k \in DOMAIN hs |-> Inserted(hs[k])], ga, gb)
      /\ Len([k \in DOMAIN hs |-> Inserted(hs[k])]) = Len(hs)
      /\ \A k \in 1 .. Len(hs) : /\ [i \in DOMAIN hs |-> Inserted(hs[i])][k].a = <<>>
                                 /\ [i \in DOMAIN hs |-> Inserted(hs[i])][k].b = hs[k]
  BY <1>4, <1>7, <1>8, InsertsFit
<1>10. OpsFit(ops, ga, gb) /\ Len(ops) = L /\ \A k \in 1 .. L : ops[k].a = <<>> /\ ops[k].b = gb[ns[k]]
  BY <1>4, <1>6, <1>9
<1> QED
  BY <1>10 DEF ops, L

(* A block with more groups in A: each with its match, those of B left over. *)
LEMMA MoreFits ==
  ASSUME NEW ga, NEW gb, GroupsOf(ga, "a"), GroupsOf(gb, "b"), NEW o \in MergeOptions
  PROVE  OpsFit(MoreInA(ga, gb, o), ga, gb)
<1> DEFINE
    match == Closest(AlignmentKeys(ga), AlignmentKeys(gb), o)
    S == {j \in DOMAIN gb \ ToSet(match) : Head(gb[j]).type \in o.allow}
    all == [j \in DOMAIN gb |-> j]
    ns == Among(all, S)
    x == MatchedOps(ga, gb, o, match)
    y == [k \in DOMAIN ns |-> Inserted(gb[ns[k]])]
<1>1. MoreInA(ga, gb, o) = x \o y
  BY DEF MoreInA, MatchedOps
<1>2. /\ DOMAIN gb = 1 .. Len(gb) /\ Len(gb) \in Nat
      /\ ga \in Seq(Groups) /\ gb \in Seq(Groups)
  BY DEF GroupsOf
<1>3. OneToOne(match, Len(gb)) /\ Len(match) = Len(ga)
  <2>1. /\ AlignmentKeys(ga) \in Seq(Nat) /\ Len(AlignmentKeys(ga)) = Len(ga)
        /\ AlignmentKeys(gb) \in Seq(Nat) /\ Len(AlignmentKeys(gb)) = Len(gb)
    BY <1>2, KeysIn
  <2>2. OneToOne(match, Len(AlignmentKeys(gb))) /\ Len(match) = Len(AlignmentKeys(ga))
    BY <2>1, ClosestIs
  <2> QED
    BY <2>1, <2>2
<1> HIDE DEF match
<1>4. /\ ns \in Seq(1 .. Len(gb)) /\ \A k \in 1 .. Len(ns) : ns[k] \in S
      /\ \A i, j \in 1 .. Len(ns) : i < j => ns[i] < ns[j]
  <2>1. ns = Among([j \in 1 .. Len(gb) |-> j], S)
    BY <1>2
  <2> HIDE DEF ns, S
  <2> DEFINE L == Len(gb)
  <2>2. L \in Nat
    BY <1>2
  <2> HIDE DEF L
  <2>3. LET ms == Among([j \in 1 .. L |-> j], S)
        IN  /\ ms \in Seq(1 .. L) /\ \A k \in 1 .. Len(ms) : ms[k] \in S
            /\ \A i, j \in 1 .. Len(ms) : i < j => ms[i] < ms[j]
    BY <2>2, NumbersAmong
  <2>4. ns = Among([j \in 1 .. L |-> j], S)
    BY <2>1 DEF L
  <2>5. /\ ns \in Seq(1 .. L) /\ \A k \in 1 .. Len(ns) : ns[k] \in S
        /\ \A i, j \in 1 .. Len(ns) : i < j => ns[i] < ns[j]
    BY <2>3, <2>4
  <2> QED
    BY <2>5 DEF L
<1>5. \A k \in 1 .. Len(ns) : ns[k] \notin ToSet(match) /\ ns[k] \in 1 .. Len(gb)
  BY <1>2, <1>4
<1> HIDE DEF ns
<1>6. /\ OpsFit(x, ga, gb) /\ Len(x) = Len(ga)
      /\ \A i \in 1 .. Len(ga) : IF match[i] # 0 THEN x[i].b = gb[match[i]] ELSE x[i].b = <<>>
  BY <1>3, MatchedFit
<1>7. /\ OpsFit(y, ga, gb) /\ Len(y) = Len(ns)
      /\ \A k \in 1 .. Len(ns) : y[k].a = <<>> /\ y[k].b = gb[ns[k]]
  BY <1>4, SparesFit
<1> HIDE DEF x, y
<1>8. AllBefore(x, y, OpsApart)
  <2> SUFFICES ASSUME NEW i \in 1 .. Len(ga), NEW k \in 1 .. Len(ns) PROVE <<x[i], y[k]>> \in OpsApart
    BY <1>6, <1>7 DEF AllBefore
  <2>1. x[i] \in Operations /\ y[k] \in Operations
    BY <1>6, <1>7 DEF OpsFit
  <2>2. AllBefore(x[i].a, y[k].a, Numbering)
    <3>1. y[k].a = <<>>
      BY <1>7
    <3> QED
      BY <3>1, NothingBefore
  <2>3. AllBefore(x[i].b, y[k].b, Differs)
    <3>1. CASE match[i] = 0
      <4>1. x[i].b = <<>>
        BY <1>6, <3>1
      <4> QED
        BY <4>1, NothingBefore
    <3>2. CASE match[i] # 0
      <4>1. match[i] \in 1 .. Len(gb) /\ match[i] \in ToSet(match)
        <5>1. DOMAIN match = 1 .. Len(match) /\ \A n \in 1 .. Len(match) : match[n] \in 0 .. Len(gb)
          BY <1>3 DEF OneToOne
        <5>2. i \in 1 .. Len(match) /\ Len(gb) \in Nat
          BY <1>2, <1>3
        <5>3. match[i] \in 0 .. Len(gb)
          BY <5>1, <5>2
        <5> QED
          BY <3>2, <5>1, <5>2, <5>3 DEF ToSet
      <4>2. match[i] # ns[k] /\ ns[k] \in 1 .. Len(gb)
        BY <1>5, <4>1
      <4>3. AllBefore(gb[match[i]], gb[ns[k]], Differs)
        BY <4>1, <4>2, TwoGroups
      <4>4. x[i].b = gb[match[i]] /\ y[k].b = gb[ns[k]]
        BY <1>6, <1>7, <3>2
      <4> QED
        BY <4>3, <4>4
    <3> QED
      BY <3>1, <3>2
  <2> QED
    BY <2>1, <2>2, <2>3 DEF OpsApart
<1>9. OpsFit(x \o y, ga, gb)
  BY <1>6, <1>7, <1>8, JoinedFit
<1> QED
  BY <1>1, <1>9

(* A replaced block. *)
LEMMA ReplacedFits ==
  ASSUME NEW ga, NEW gb, GroupsOf(ga, "a"), GroupsOf(gb, "b"), NEW o \in MergeOptions,
         ga # <<>>, gb # <<>>
  PROVE  OpsFit(Replaced(ga, gb, o), ga, gb)
<1> DEFINE
    alike == o.block # "far" \/ (Len(ga) = 1 /\ Len(gb) = 1)
    sure == o.block = "same"
    p == AlignedPair(FlattenSeq(ga), FlattenSeq(gb), o, sure)
<1>1. Replaced(ga, gb, o) =
        CASE ~alike -> Dissimilar(ga, gb, o)
          [] alike /\ Len(ga) = Len(gb) -> [n \in DOMAIN ga |-> AlignedPair(ga[n], gb[n], o, sure)]
          [] alike /\ Len(ga) > Len(gb) -> MoreInA(ga, gb, o)
          [] OTHER -> <<p>>
  BY DEF Replaced
<1>2. sure \in BOOLEAN
  OBVIOUS
<1> HIDE DEF alike, sure
<1>3. CASE ~alike
  <2>1. Replaced(ga, gb, o) = Dissimilar(ga, gb, o)
    BY <1>1, <1>3
  <2> QED
    BY <2>1, DissimilarFits
<1>4. CASE alike /\ Len(ga) = Len(gb)
  <2>1. Replaced(ga, gb, o) = [n \in DOMAIN ga |-> AlignedPair(ga[n], gb[n], o, sure)]
    BY <1>1, <1>4
  <2>2. OpsFit([n \in DOMAIN ga |-> AlignedPair(ga[n], gb[n], o, sure)], ga, gb)
    BY <1>2, <1>4, PairsFit
  <2> QED
    BY <2>1, <2>2
<1>5. CASE alike /\ Len(ga) # Len(gb) /\ Len(ga) > Len(gb)
  <2>1. Replaced(ga, gb, o) = MoreInA(ga, gb, o)
    BY <1>1, <1>5
  <2> QED
    BY <2>1, MoreFits
<1>6. CASE alike /\ Len(ga) # Len(gb) /\ ~(Len(ga) > Len(gb))
  <2> DEFINE sa == FlattenSeq(ga)
             sb == FlattenSeq(gb)
  <2>1. Replaced(ga, gb, o) = <<p>>
    BY <1>1, <1>6
  <2>2. /\ OfParse(sa, "a") /\ ToSet(sa) = Members(ga) /\ sa # <<>>
        /\ LocalGroups(ga) => Closed(sa)
    BY AllOfGroups
  <2>3. /\ OfParse(sb, "b") /\ ToSet(sb) = Members(gb) /\ sb # <<>>
        /\ LocalGroups(gb) => Closed(sb)
    BY AllOfGroups
  <2> HIDE DEF sa, sb
  <2> DEFINE q == AlignedPair(sa, sb, o, sure)
  <2>4. GoodOp(q) /\ q.a = sa /\ q.b = sb
    BY <1>2, <2>2, <2>3, PairGood
  <2>5. p = q
    BY DEF sa, sb
  <2> HIDE DEF q, p
  <2>6. OpFits(q, ga, gb)
    BY <2>2, <2>3, <2>4 DEF OpFits
  <2> QED
    BY <2>1, <2>5, <2>6, OneFits
<1> QED
  BY <1>3, <1>4, <1>5, <1>6

(* Some of a parse's groups, one after the other. *)
LEMMA RangeOfGroups ==
  ASSUME NEW side \in {"a", "b"}, NEW gs, GroupsOf(gs, side),
         NEW i \in Nat, NEW j \in Nat, 1 <= i, i <= j, j <= Len(gs) + 1
  PROVE  LET w == SubSeq(gs, i, j - 1)
         IN  /\ GroupsOf(w, side) /\ Len(w) = j - i /\ Members(w) \subseteq Members(gs)
             /\ LocalGroups(gs) => LocalGroups(w)
             /\ \A e \in Members(w) : \E n \in 1 .. Len(gs) : i <= n /\ n < j /\ e \in ToSet(gs[n])
<1> DEFINE w == SubSeq(gs, i, j - 1)
<1>1. gs \in Seq(Groups)
  BY DEF GroupsOf
<1>2. /\ w \in Seq(Groups) /\ Len(w) = j - i /\ j - i \in Nat
      /\ \A k \in 1 .. (j - i) : /\ w[k] = gs[(i - 1) + k]
                                 /\ (i - 1) + k \in 1 .. Len(gs) /\ (i - 1) + k < j /\ i <= (i - 1) + k
  BY <1>1, RangeIs
<1> HIDE DEF w
<1>3. \A k \in 1 .. Len(w) : \E n \in 1 .. Len(gs) : i <= n /\ n < j /\ w[k] = gs[n]
  BY <1>2
<1>4. \A e \in Members(w) : \E n \in 1 .. Len(gs) : i <= n /\ n < j /\ e \in ToSet(gs[n])
  BY <1>3 DEF Members
<1>5. Members(w) \subseteq Members(gs)
  BY <1>4 DEF Members
<1>6. LocalGroups(gs) => LocalGroups(w)
  BY <1>3 DEF LocalGroups
<1>7. \A k \in 1 .. Len(w) : OfParse(w[k], side)
  BY <1>3 DEF GroupsOf
<1>8. ASSUME NEW m \in 1 .. Len(w), NEW n \in 1 .. Len(w), m < n
      PROVE  AllBefore(w[m], w[n], Numbering)
  <2>1. /\ w[m] = gs[(i - 1) + m] /\ w[n] = gs[(i - 1) + n]
        /\ (i - 1) + m \in 1 .. Len(gs) /\ (i - 1) + n \in 1 .. Len(gs)
    BY <1>2
  <2>2. (i - 1) + m < (i - 1) + n
    BY <1>2, <1>8
  <2>3. AllBefore(gs[(i - 1) + m], gs[(i - 1) + n], Numbering)
    BY <2>1, <2>2, TwoGroups
  <2> QED
    BY <2>1, <2>3
<1>9. GroupsOf(w, side)
  BY <1>2, <1>7, <1>8 DEF GroupsOf
<1> QED
  BY <1>2, <1>4, <1>5, <1>6, <1>9 DEF w

(* What fits windows fits the whole. *)
LEMMA OpsWider ==
  ASSUME NEW ops, NEW ga, NEW gb, NEW ha, NEW hb, OpsFit(ops, ga, gb),
         Members(ga) \subseteq Members(ha), Members(gb) \subseteq Members(hb),
         LocalGroups(ha) => LocalGroups(ga), LocalGroups(hb) => LocalGroups(gb)
  PROVE  OpsFit(ops, ha, hb)
<1>1. \A n \in 1 .. Len(ops) : OpFits(ops[n], ga, gb) => OpFits(ops[n], ha, hb)
  BY FitWider
<1> QED
  BY <1>1 DEF OpsFit

(* Members all before those of other operations. *)
LEMMA FitApart ==
  ASSUME NEW x, NEW y, NEW ga, NEW gb, NEW ha, NEW hb, OpsFit(x, ga, gb), OpsFit(y, ha, hb),
         \A d \in Members(ga), e \in Members(ha) : <<d, e>> \in Numbering,
         \A d \in Members(gb), e \in Members(hb) : <<d, e>> \in Differs
  PROVE  AllBefore(x, y, OpsApart)
<1> SUFFICES ASSUME NEW i \in 1 .. Len(x), NEW j \in 1 .. Len(y) PROVE <<x[i], y[j]>> \in OpsApart
  BY DEF AllBefore
<1> DEFINE p == x[i]
           q == y[j]
<1>1. OpFits(p, ga, gb) /\ OpFits(q, ha, hb)
  BY DEF OpsFit
<1> HIDE DEF p, q
<1>2. /\ p \in Operations /\ q \in Operations
      /\ ToSet(p.a) \subseteq Members(ga) /\ ToSet(p.b) \subseteq Members(gb)
      /\ ToSet(q.a) \subseteq Members(ha) /\ ToSet(q.b) \subseteq Members(hb)
  BY <1>1 DEF OpFits, GoodOp
<1>3. ASSUME NEW s \in Seq(MergeElements), NEW k \in 1 .. Len(s) PROVE s[k] \in ToSet(s)
  <2>1. DOMAIN s = 1 .. Len(s)
    OBVIOUS
  <2> QED
    BY <2>1 DEF ToSet
<1>4. p.a \in Seq(MergeElements) /\ p.b \in Seq(MergeElements) /\ q.a \in Seq(MergeElements) /\ q.b \in Seq(MergeElements)
  BY <1>2 DEF Operations
<1>5. AllBefore(p.a, q.a, Numbering)
  BY <1>2, <1>3, <1>4 DEF AllBefore
<1>6. AllBefore(p.b, q.b, Differs)
  BY <1>2, <1>3, <1>4 DEF AllBefore
<1> QED
  BY <1>2, <1>5, <1>6 DEF OpsApart, p, q

(* Members of groups apart. *)
LEMMA MembersApart ==
  ASSUME NEW side \in {"a", "b"}, NEW gs, GroupsOf(gs, side), NEW i \in 1 .. Len(gs), NEW j \in 1 .. Len(gs),
         i < j, NEW d \in ToSet(gs[i]), NEW e \in ToSet(gs[j])
  PROVE  <<d, e>> \in Numbering /\ <<d, e>> \in Differs
<1>1. gs[i] \in Seq(MergeElements) /\ gs[j] \in Seq(MergeElements)
  BY GroupIs
<1>2. DOMAIN gs[i] = 1 .. Len(gs[i]) /\ DOMAIN gs[j] = 1 .. Len(gs[j])
  BY <1>1
<1>3. (\E m \in 1 .. Len(gs[i]) : gs[i][m] = d) /\ (\E n \in 1 .. Len(gs[j]) : gs[j][n] = e)
  BY <1>2 DEF ToSet
<1>4. Len(gs) \in Nat
  BY DEF GroupsOf
<1>5. i # j
  BY <1>4
<1>6. AllBefore(gs[i], gs[j], Numbering) /\ AllBefore(gs[i], gs[j], Differs)
  BY <1>5, TwoGroups
<1> QED
  BY <1>3, <1>6 DEF AllBefore

(* The operations of one opcode, on its ranges. *)
LEMMA CodeFits ==
  ASSUME NEW ga, NEW gb, GroupsOf(ga, "a"), GroupsOf(gb, "b"), NEW o \in MergeOptions,
         NEW c, CodeIn(c, <<1, Len(ga) + 1, 1, Len(gb) + 1>>)
  PROVE  OpsFit(OperationsOf(c, ga, gb, o), SubSeq(ga, c.i1, c.i2 - 1), SubSeq(gb, c.j1, c.j2 - 1))
<1> DEFINE wa == SubSeq(ga, c.i1, c.i2 - 1)
           wb == SubSeq(gb, c.j1, c.j2 - 1)
<1>1. /\ c.tag \in CodeTags /\ c.i1 \in Nat /\ c.i2 \in Nat /\ c.j1 \in Nat /\ c.j2 \in Nat
      /\ 1 <= c.i1 /\ c.i1 <= c.i2 /\ c.i2 <= Len(ga) + 1
      /\ 1 <= c.j1 /\ c.j1 <= c.j2 /\ c.j2 <= Len(gb) + 1
      /\ c.tag = "equal" => c.i2 - c.i1 = c.j2 - c.j1
      /\ c.tag = "replace" => c.i1 < c.i2 /\ c.j1 < c.j2
  BY DEF CodeIn, Codes
<1>2. GroupsOf(wa, "a") /\ Len(wa) = c.i2 - c.i1
  BY <1>1, RangeOfGroups
<1>3. GroupsOf(wb, "b") /\ Len(wb) = c.j2 - c.j1
  BY <1>1, RangeOfGroups
<1>4. OperationsOf(c, ga, gb, o) =
        CASE c.tag = "equal" -> [n \in DOMAIN wa |-> AlignedPair(wa[n], wb[n], o, TRUE)]
          [] c.tag = "replace" -> Replaced(wa, wb, o)
          [] c.tag = "insert" -> FlattenSeq([n \in DOMAIN wb |-> OnlyInB(wb[n], o)])
          [] c.tag = "delete" -> [n \in DOMAIN wa |-> Operation("delete_a", wa[n], <<>>, <<>>)]
  BY DEF OperationsOf
<1> HIDE DEF wa, wb
<1>5. CASE c.tag = "equal"
  <2>1. Len(wa) = Len(wb)
    BY <1>1, <1>2, <1>3, <1>5
  <2>2. OpsFit([n \in DOMAIN wa |-> AlignedPair(wa[n], wb[n], o, TRUE)], wa, wb)
    BY <1>2, <1>3, <2>1, PairsFit
  <2> QED
    BY <1>4, <1>5, <2>2 DEF wa, wb
<1>6. CASE c.tag = "replace"
  <2>1. wa # <<>> /\ wb # <<>>
    <3>1. Len(wa) # 0 /\ Len(wb) # 0
      BY <1>1, <1>2, <1>3, <1>6
    <3> QED
      BY <3>1
  <2>2. OpsFit(Replaced(wa, wb, o), wa, wb)
    BY <1>2, <1>3, <2>1, ReplacedFits
  <2> QED
    BY <1>4, <1>6, <2>2 DEF wa, wb
<1>7. CASE c.tag = "insert"
  <2>1. OpsFit(FlattenSeq([n \in DOMAIN wb |-> OnlyInB(wb[n], o)]), wa, wb)
    BY <1>3, OnlyInBFits
  <2> QED
    BY <1>4, <1>7, <2>1 DEF wa, wb
<1>8. CASE c.tag = "delete"
  <2>1. OpsFit([n \in DOMAIN wa |-> Operation("delete_a", wa[n], <<>>, <<>>)], wa, wb)
    BY <1>2, DeletesFit
  <2> QED
    BY <1>4, <1>8, <2>1 DEF wa, wb
<1> QED
  BY <1>1, <1>5, <1>6, <1>7, <1>8 DEF CodeTags

(* The patch of two parses. *)
LEMMA AlignFits ==
  ASSUME NEW da, NEW db, IsParse(da, "a"), IsParse(db, "b"), NEW o \in MergeOptions
  PROVE  OpsFit(AlignElements(da, db, o), GroupWithTrailing(da, "a"), GroupWithTrailing(db, "b"))
<1> DEFINE
    ga == GroupWithTrailing(da, "a")
    gb == GroupWithTrailing(db, "b")
    codes == Opcodes(AlignmentKeys(ga), AlignmentKeys(gb))
    ss == [c \in DOMAIN codes |-> OperationsOf(codes[c], ga, gb, o)]
    L == Len(codes)
    w == <<1, Len(ga) + 1, 1, Len(gb) + 1>>
<1>1. GroupsOf(ga, "a") /\ GroupsOf(gb, "b")
  BY GroupsRise
<1>2. AlignElements(da, db, o) = FlattenSeq(ss)
  BY DEF AlignElements
<1> HIDE DEF ga, gb
<1>3. /\ AlignmentKeys(ga) \in Seq(Nat) /\ Len(AlignmentKeys(ga)) = Len(ga)
      /\ AlignmentKeys(gb) \in Seq(Nat) /\ Len(AlignmentKeys(gb)) = Len(gb)
      /\ Len(ga) \in Nat /\ Len(gb) \in Nat
  BY <1>1, KeysIn DEF GroupsOf
<1>4. Partition(codes, w)
  <2>1. Partition(codes, WholeWindow(AlignmentKeys(ga), AlignmentKeys(gb)))
    BY <1>3, OpcodesPartition
  <2> HIDE DEF codes
  <2> QED
    BY <2>1, <1>3 DEF WholeWindow
<1> HIDE DEF codes
<1>5. /\ codes \in Seq(Codes) /\ (\A n \in 1 .. L : CodeIn(codes[n], w)) /\ Pairwise(codes, Follows)
      /\ DOMAIN codes = 1 .. L /\ L \in Nat
  <2>1. codes \in Seq(Codes) /\ (\A n \in 1 .. L : CodeIn(codes[n], w)) /\ Pairwise(codes, Follows)
    BY <1>4 DEF Partition
  <2> QED
    BY <2>1
<1> HIDE DEF L
<1>6. ss = [n \in 1 .. L |-> ss[n]] /\ \A n \in 1 .. L : ss[n] = OperationsOf(codes[n], ga, gb, o)
  BY <1>5
<1> HIDE DEF ss
<1> DEFINE wa(c) == SubSeq(ga, c.i1, c.i2 - 1)
           wb(c) == SubSeq(gb, c.j1, c.j2 - 1)
<1>7. ASSUME NEW n \in 1 .. L
      PROVE  OpsFit(ss[n], wa(codes[n]), wb(codes[n]))
  <2> DEFINE c == codes[n]
  <2>1. CodeIn(c, w)
    BY <1>5
  <2> HIDE DEF c
  <2>2. OpsFit(OperationsOf(c, ga, gb, o), SubSeq(ga, c.i1, c.i2 - 1), SubSeq(gb, c.j1, c.j2 - 1))
    BY <1>1, <2>1, CodeFits
  <2> QED
    BY <1>6, <2>2 DEF c
<1>8. ASSUME NEW c, CodeIn(c, w)
      PROVE  /\ c.i1 \in Nat /\ c.i2 \in Nat /\ c.j1 \in Nat /\ c.j2 \in Nat
             /\ 1 <= c.i1 /\ c.i1 <= c.i2 /\ c.i2 <= Len(ga) + 1
             /\ 1 <= c.j1 /\ c.j1 <= c.j2 /\ c.j2 <= Len(gb) + 1
  BY <1>8 DEF CodeIn, Codes
<1>9. ASSUME NEW c, CodeIn(c, w)
      PROVE  /\ Members(wa(c)) \subseteq Members(ga) /\ (LocalGroups(ga) => LocalGroups(wa(c)))
             /\ \A e \in Members(wa(c)) : \E n \in 1 .. Len(ga) : c.i1 <= n /\ n < c.i2 /\ e \in ToSet(ga[n])
             /\ Members(wb(c)) \subseteq Members(gb) /\ (LocalGroups(gb) => LocalGroups(wb(c)))
             /\ \A e \in Members(wb(c)) : \E n \in 1 .. Len(gb) : c.j1 <= n /\ n < c.j2 /\ e \in ToSet(gb[n])
  <2>1. /\ Members(wa(c)) \subseteq Members(ga) /\ (LocalGroups(ga) => LocalGroups(wa(c)))
        /\ \A e \in Members(wa(c)) : \E n \in 1 .. Len(ga) : c.i1 <= n /\ n < c.i2 /\ e \in ToSet(ga[n])
    BY <1>1, <1>8, <1>9, RangeOfGroups
  <2>2. /\ Members(wb(c)) \subseteq Members(gb) /\ (LocalGroups(gb) => LocalGroups(wb(c)))
        /\ \A e \in Members(wb(c)) : \E n \in 1 .. Len(gb) : c.j1 <= n /\ n < c.j2 /\ e \in ToSet(gb[n])
    BY <1>1, <1>8, <1>9, RangeOfGroups
  <2> QED
    BY <2>1, <2>2
<1>10. ASSUME NEW n \in 1 .. L PROVE OpsFit(ss[n], ga, gb) /\ ss[n] \in Seq(Operations)
  <2> DEFINE c == codes[n]
  <2>1. CodeIn(c, w) /\ OpsFit(ss[n], wa(c), wb(c))
    BY <1>5, <1>7
  <2> HIDE DEF c
  <2>2. /\ Members(wa(c)) \subseteq Members(ga) /\ (LocalGroups(ga) => LocalGroups(wa(c)))
        /\ Members(wb(c)) \subseteq Members(gb) /\ (LocalGroups(gb) => LocalGroups(wb(c)))
    BY <1>9, <2>1
  <2>3. OpsFit(ss[n], ga, gb)
    <3> HIDE DEF wa, wb
    <3> QED
      BY <2>1, <2>2, OpsWider
  <2> QED
    BY <2>3 DEF OpsFit
<1>11. ss \in Seq(Seq(Operations)) /\ Len(ss) = L
  BY <1>5, <1>6, <1>10, SequenceIs
<1>12. ASSUME NEW m \in 1 .. L, NEW n \in 1 .. L, m < n
       PROVE  AllBefore(ss[m], ss[n], OpsApart)
  <2> DEFINE c == codes[m]
             d == codes[n]
  <2>1. CodeIn(c, w) /\ OpsFit(ss[m], wa(c), wb(c)) /\ CodeIn(d, w) /\ OpsFit(ss[n], wa(d), wb(d))
    BY <1>5, <1>7
  <2>2. c.i2 <= d.i1 /\ c.j2 <= d.j1
    BY <1>5, <1>12 DEF Pairwise, Follows, L
  <2> HIDE DEF c, d
  <2>3. \A x \in Members(wa(c)), y \in Members(wa(d)) : <<x, y>> \in Numbering
    <3> SUFFICES ASSUME NEW x \in Members(wa(c)), NEW y \in Members(wa(d)) PROVE <<x, y>> \in Numbering
      OBVIOUS
    <3>1. PICK i \in 1 .. Len(ga) : c.i1 <= i /\ i < c.i2 /\ x \in ToSet(ga[i])
      BY <1>9, <2>1
    <3>2. PICK j \in 1 .. Len(ga) : d.i1 <= j /\ j < d.i2 /\ y \in ToSet(ga[j])
      BY <1>9, <2>1
    <3>3. c.i2 \in Nat /\ d.i1 \in Nat
      BY <1>8, <2>1
    <3>4. i < j
      BY <1>3, <2>2, <3>1, <3>2, <3>3
    <3> QED
      BY <1>1, <3>1, <3>2, <3>4, MembersApart
  <2>4. \A x \in Members(wb(c)), y \in Members(wb(d)) : <<x, y>> \in Differs
    <3> SUFFICES ASSUME NEW x \in Members(wb(c)), NEW y \in Members(wb(d)) PROVE <<x, y>> \in Differs
      OBVIOUS
    <3>1. PICK i \in 1 .. Len(gb) : c.j1 <= i /\ i < c.j2 /\ x \in ToSet(gb[i])
      BY <1>9, <2>1
    <3>2. PICK j \in 1 .. Len(gb) : d.j1 <= j /\ j < d.j2 /\ y \in ToSet(gb[j])
      BY <1>9, <2>1
    <3>3. c.j2 \in Nat /\ d.j1 \in Nat
      BY <1>8, <2>1
    <3>4. i < j
      BY <1>3, <2>2, <3>1, <3>2, <3>3
    <3> QED
      BY <1>1, <3>1, <3>2, <3>4, MembersApart
  <2> HIDE DEF wa, wb
  <2> QED
    BY <2>1, <2>3, <2>4, FitApart
<1>13. \A n \in 1 .. Len(ss) : OpsFit(ss[n], ga, gb)
  BY <1>10, <1>11
<1>14. \A m, n \in 1 .. Len(ss) : m < n => AllBefore(ss[m], ss[n], OpsApart)
  BY <1>11, <1>12
<1>15. OpsFit(FlattenSeq(ss), ga, gb)
  BY <1>11, <1>13, <1>14, FlattenedFit
<1> QED
  BY <1>2, <1>15 DEF ga, gb

(* What a patch resolves to. *)
LEMMA ResolvedAll ==
  ASSUME NEW ops, NEW ga, NEW gb, OpsFit(ops, ga, gb)
  PROVE  /\ Resolved(ops) \in Seq(MergeElements) /\ Pairwise(Resolved(ops), KeptApart)
         /\ LocalGroups(ga) /\ LocalGroups(gb) => Closed(Resolved(ops))
<1> DEFINE
    rs == [n \in DOMAIN ops |-> ops[n].resolved]
    L == Len(ops)
    M == MergeElements
<1>1. ops \in Seq(Operations) /\ (\A n \in 1 .. L : OpFits(ops[n], ga, gb)) /\ Pairwise(ops, OpsApart)
  BY DEF OpsFit
<1>2. DOMAIN ops = 1 .. L /\ L \in Nat
  BY <1>1
<1>3. Resolved(ops) = FlattenSeq(rs)
  BY DEF Resolved
<1> HIDE DEF L
<1>4. rs = [n \in 1 .. L |-> rs[n]] /\ \A n \in 1 .. L : rs[n] = ops[n].resolved
  BY <1>2
<1> HIDE DEF rs
<1>5. ASSUME NEW n \in 1 .. L
      PROVE  /\ rs[n] \in Seq(M) /\ Pairwise(rs[n], KeptApart)
             /\ LocalGroups(ga) /\ LocalGroups(gb) => Closed(rs[n])
  <2> DEFINE p == ops[n]
  <2>1. OpFits(p, ga, gb)
    BY <1>1
  <2> HIDE DEF p
  <2>2. GoodOp(p) /\ (LocalGroups(ga) /\ LocalGroups(gb) => Closed(p.a) /\ Closed(p.b))
    BY <2>1 DEF OpFits
  <2>3. /\ p.resolved \in Seq(M) /\ Pairwise(p.resolved, KeptApart)
        /\ Closed(p.a) /\ Closed(p.b) => Closed(p.resolved)
    BY <2>2, ResolvedIs
  <2> QED
    BY <1>4, <2>2, <2>3 DEF p
<1> HIDE DEF M
<1>6. rs \in Seq(Seq(M)) /\ Len(rs) = L
  BY <1>2, <1>4, <1>5, SequenceIs
<1>7. ASSUME NEW m \in 1 .. L, NEW n \in 1 .. L, m < n PROVE AllBefore(rs[m], rs[n], KeptApart)
  <2> DEFINE p == ops[m]
             q == ops[n]
  <2>1. GoodOp(p) /\ GoodOp(q)
    BY <1>1 DEF OpFits
  <2>2. <<p, q>> \in OpsApart
    BY <1>1, <1>7 DEF Pairwise, L
  <2> HIDE DEF p, q
  <2>3. AllBefore(p.resolved, q.resolved, KeptApart)
    BY <2>1, <2>2, ResolvedApart
  <2> QED
    BY <1>4, <2>3 DEF p, q
<1>8. Pairwise(FlattenSeq(rs), KeptApart)
  <2>1. \A n \in 1 .. Len(rs) : Pairwise(rs[n], KeptApart)
    BY <1>5, <1>6
  <2>2. \A m, n \in 1 .. Len(rs) : m < n => AllBefore(rs[m], rs[n], KeptApart)
    BY <1>6, <1>7
  <2> QED
    BY <1>6, <2>1, <2>2, FlattenPairwise
<1> DEFINE all == FlattenSeq(rs)
<1>9. all \in Seq(M) /\ \A x : x \in ToSet(all) <=> \E n \in 1 .. Len(rs) : x \in ToSet(rs[n])
  BY <1>6, FlattenIn, FlattenMembers
<1>10. ASSUME LocalGroups(ga), LocalGroups(gb) PROVE Closed(all)
  <2> HIDE DEF all
  <2> SUFFICES ASSUME NEW k \in 1 .. Len(all)
               PROVE  all[k].refs \subseteq {all[m].id : m \in 1 .. Len(all)}
    BY DEF Closed
  <2>1. DOMAIN all = 1 .. Len(all)
    BY <1>9
  <2>2. all[k] \in ToSet(all)
    BY <2>1 DEF ToSet
  <2>3. PICK n \in 1 .. L : all[k] \in ToSet(rs[n])
    BY <1>6, <1>9, <2>2
  <2> DEFINE r == rs[n]
  <2>4. r \in Seq(M) /\ Closed(r)
    BY <1>5, <1>10
  <2>5. \A x : x \in ToSet(r) => x \in ToSet(all)
    BY <1>6, <1>9
  <2>6. all[k] \in ToSet(r)
    BY <2>3
  <2> HIDE DEF r
  <2>7. DOMAIN r = 1 .. Len(r)
    BY <2>4
  <2>8. PICK j \in 1 .. Len(r) : r[j] = all[k]
    BY <2>6, <2>7 DEF ToSet
  <2>9. all[k].refs \subseteq {r[m].id : m \in 1 .. Len(r)}
    BY <2>4, <2>8 DEF Closed
  <2>10. ASSUME NEW m \in 1 .. Len(r) PROVE \E i \in 1 .. Len(all) : r[m] = all[i]
    <3>1. r[m] \in ToSet(r)
      BY <2>7 DEF ToSet
    <3>2. r[m] \in ToSet(all)
      BY <2>5, <3>1
    <3> QED
      BY <2>1, <3>2, MemberAt
  <2> SUFFICES ASSUME NEW id \in all[k].refs PROVE \E i \in 1 .. Len(all) : id = all[i].id
    OBVIOUS
  <2>11. PICK m \in 1 .. Len(r) : id = r[m].id
    BY <2>9
  <2>12. PICK i \in 1 .. Len(all) : r[m] = all[i]
    BY <2>10
  <2> QED
    BY <2>11, <2>12
<1> QED
  BY <1>3, <1>8, <1>9, <1>10 DEF M

(* What is apart is applied as it is. *)
LEMMA AppliedIs ==
  ASSUME NEW ops, Resolved(ops) \in Seq(MergeElements), Pairwise(Resolved(ops), KeptApart)
  PROVE  ApplyPatch(ops) = Resolved(ops)
<1> DEFINE
    all == Resolved(ops)
    L == Len(all)
    ns == [n \in DOMAIN all |-> n]
    S == {n \in DOMAIN all : \A k \in 1 .. (n - 1) : all[k].id # all[n].id}
    first == Among(ns, S)
<1>1. ApplyPatch(ops) = [n \in DOMAIN first |-> all[first[n]]]
  BY DEF ApplyPatch
<1>2. all \in Seq(MergeElements) /\ Pairwise(all, KeptApart)
  OBVIOUS
<1> HIDE DEF all
<1>3. DOMAIN all = 1 .. L /\ L \in Nat /\ all = [n \in 1 .. L |-> all[n]]
  BY <1>2
<1>4. \A n \in 1 .. L : n \in S
  <2> SUFFICES ASSUME NEW n \in 1 .. L, NEW k \in 1 .. (n - 1) PROVE all[k].id # all[n].id
    BY <1>3
  <2>1. k \in 1 .. L /\ k < n
    BY <1>3
  <2>2. <<all[k], all[n]>> \in KeptApart
    BY <1>2, <2>1 DEF Pairwise
  <2> QED
    BY <2>2 DEF KeptApart
<1> HIDE DEF L, S
<1>5. ns \in Seq(Nat) /\ Len(ns) = L /\ \A n \in 1 .. L : ns[n] = n
  BY <1>3
<1>6. DOMAIN ns = 1 .. L
  BY <1>3
<1> HIDE DEF ns
<1>7. first = ns
  BY <1>4, <1>5, AllAmong
<1> HIDE DEF first
<1>8. ApplyPatch(ops) = [n \in 1 .. L |-> all[n]]
  BY <1>1, <1>5, <1>6, <1>7
<1> QED
  BY <1>3, <1>8 DEF all

(* Only anchors refer, to their own groups. *)
LEMMA LocalIs ==
  ASSUME NEW side \in {"a", "b"}, NEW s, IsParse(s, side), Local(s, side)
  PROVE  LocalGroups(GroupWithTrailing(s, side))
<1> DEFINE gs == GroupWithTrailing(s, side)
<1>1. GroupsOf(gs, side)
  BY GroupsRise
<1>2. \A g \in ToSet(gs) : /\ g[1].refs \subseteq {g[k].id : k \in DOMAIN g}
                           /\ \A n \in 2 .. Len(g) : g[n].refs = {}
  BY DEF Local
<1> HIDE DEF gs
<1> SUFFICES ASSUME NEW n \in 1 .. Len(gs) PROVE LocalGroup(gs[n])
  BY DEF LocalGroups, gs
<1>3. gs \in Seq(Groups)
  BY <1>1 DEF GroupsOf
<1>4. DOMAIN gs = 1 .. Len(gs)
  BY <1>3
<1>5. gs[n] \in ToSet(gs)
  BY <1>4 DEF ToSet
<1>6. gs[n] \in Seq(MergeElements)
  BY <1>1, GroupIs
<1>7. DOMAIN gs[n] = 1 .. Len(gs[n])
  BY <1>6
<1> QED
  BY <1>2, <1>5, <1>7 DEF LocalGroup

(* What a merge of two parses returns. *)
LEMMA MergedIs ==
  ASSUME NEW da, NEW db, IsParse(da, "a"), IsParse(db, "b"), NEW o \in MergeOptions
  PROVE  /\ ApplyPatch(AlignElements(da, db, o)) = Resolved(AlignElements(da, db, o))
         /\ Resolved(AlignElements(da, db, o)) \in Seq(MergeElements)
         /\ Pairwise(Resolved(AlignElements(da, db, o)), KeptApart)
         /\ Local(da, "a") /\ Local(db, "b") => Closed(Resolved(AlignElements(da, db, o)))
<1> DEFINE ops == AlignElements(da, db, o)
           ga == GroupWithTrailing(da, "a")
           gb == GroupWithTrailing(db, "b")
<1>1. OpsFit(ops, ga, gb)
  BY AlignFits
<1>2. Local(da, "a") /\ Local(db, "b") => LocalGroups(ga) /\ LocalGroups(gb)
  BY LocalIs
<1> HIDE DEF ops, ga, gb
<1>3. /\ Resolved(ops) \in Seq(MergeElements) /\ Pairwise(Resolved(ops), KeptApart)
      /\ LocalGroups(ga) /\ LocalGroups(gb) => Closed(Resolved(ops))
  BY <1>1, ResolvedAll
<1>4. ApplyPatch(ops) = Resolved(ops)
  BY <1>3, AppliedIs
<1> QED
  BY <1>2, <1>3, <1>4 DEF ops

(* Elements with a text. *)
Worded == {e \in MergeElements : e.text # 0}

(* What a reader sees of a sequence of elements. *)
LEMMA LooksAre ==
  ASSUME NEW s \in Seq(MergeElements)
  PROVE  LooksOf(s) = Mapped(Look, Among(s, Worded))
<1> DEFINE S == {e \in ToSet(s) : e.text # 0}
           real == Among(s, S)
<1>1. DOMAIN s = 1 .. Len(s) /\ \A n \in 1 .. Len(s) : s[n] \in MergeElements
  OBVIOUS
<1>2. \A n \in 1 .. Len(s) : s[n] \in S <=> s[n] \in Worded
  BY <1>1 DEF ToSet, Worded
<1> HIDE DEF S
<1>3. real = Among(s, Worded) /\ real \in Seq(MergeElements)
  BY <1>2, AmongAgree, AmongIn
<1>4. LooksOf(s) = [n \in DOMAIN real |-> <<real[n].type, real[n].text, real[n].rich, real[n].level>>]
  BY DEF LooksOf, S
<1> HIDE DEF real
<1>5. \A n \in DOMAIN real : real[n] \in MergeElements
  BY <1>3
<1>6. \A n \in DOMAIN real : Look[real[n]] = <<real[n].type, real[n].text, real[n].rich, real[n].level>>
  BY <1>5 DEF Look
<1> QED
  BY <1>3, <1>4, <1>6 DEF Mapped

(* Sequences that look alike are seen alike. *)
LEMMA LooksAlike ==
  ASSUME NEW s \in Seq(MergeElements), NEW t \in Seq(MergeElements), Mapped(Look, s) = Mapped(Look, t)
  PROVE  LooksOf(s) = LooksOf(t)
<1> DEFINE T == {x \in {Look[e] : e \in MergeElements} : x[2] # 0}
<1>1. \A x \in MergeElements : Look[x][2] = x.text
  BY DEF Look
<1>2. \A x \in MergeElements : Look[x] \in T <=> x \in Worded
  BY <1>1 DEF Worded
<1> HIDE DEF T
<1>3. Among(Mapped(Look, s), T) = Mapped(Look, Among(s, Worded))
  BY <1>2, AmongMapped
<1>4. Among(Mapped(Look, t), T) = Mapped(Look, Among(t, Worded))
  BY <1>2, AmongMapped
<1> QED
  BY <1>3, <1>4, LooksAre

(* A parse is seen as it is; the sentinel is not seen. *)
LEMMA ParseLooks ==
  ASSUME NEW side \in {"a", "b"}, NEW s, IsParse(s, side)
  PROVE  LooksOf(s) = Mapped(Look, s) /\ LooksOf(<<Sentinel(side)>> \o s) = Mapped(Look, s)
<1> DEFINE e == Sentinel(side)
           one == <<e>>
<1>1. s \in Seq(MergeElements) /\ \A n \in 1 .. Len(s) : s[n] \in Worded
  BY DEF IsParse, Worded
<1>2. e \in MergeElements /\ e \notin Worded
  BY SentinelIn DEF Worded
<1>3. Among(s, Worded) = s
  BY <1>1, AllAmong
<1> HIDE DEF e
<1>4. one \in Seq(MergeElements) /\ \A n \in 1 .. Len(one) : one[n] \notin Worded
  BY <1>2
<1> HIDE DEF one
<1>5. Among(one, Worded) = <<>>
  BY <1>4, NoneAmong
<1>6. Among(one \o s, Worded) = Among(one, Worded) \o Among(s, Worded)
  BY <1>1, <1>4, AmongJoined
<1>7. <<>> \o s = s
  BY <1>1, JoinedNothing
<1>8. one \o s \in Seq(MergeElements)
  BY <1>1, <1>4, JoinedIn
<1>9. LooksOf(s) = Mapped(Look, s)
  BY <1>1, <1>3, LooksAre
<1>10. LooksOf(one \o s) = Mapped(Look, s)
  BY <1>3, <1>5, <1>6, <1>7, <1>8, LooksAre
<1> QED
  BY <1>9, <1>10 DEF one, e

(* One block. *)
LEMMA SingleCodeIs ==
  ASSUME NEW L \in Nat
  PROVE  LET c == Opcode("equal", 1, L + 1, 1, L + 1)
         IN  /\ c.tag = "equal" /\ c.i1 = 1 /\ c.j1 = 1 /\ c.i2 = L + 1 /\ c.j2 = L + 1
             /\ DOMAIN <<c>> = {1} /\ <<c>>[1] = c
BY DEF Opcode

(* Groups of either parse, pair by pair. *)
PairedGroups(ga, gb, o) == [n \in DOMAIN ga |-> AlignedPair(ga[n], gb[n], o, TRUE)]

(* Two parses alike are aligned group by group. *)
LEMMA SameAligned ==
  ASSUME NEW da, NEW db, IsParse(da, "a"), IsParse(db, "b"), NEW o \in MergeOptions,
         Mapped(Look, da) = Mapped(Look, db)
  PROVE  /\ Len(GroupWithTrailing(da, "a")) = Len(GroupWithTrailing(db, "b"))
         /\ AlignElements(da, db, o)
              = PairedGroups(GroupWithTrailing(da, "a"), GroupWithTrailing(db, "b"), o)
<1> DEFINE
    ga == GroupWithTrailing(da, "a")
    gb == GroupWithTrailing(db, "b")
    ka == AlignmentKeys(ga)
    kb == AlignmentKeys(gb)
    L == Len(ga)
    pairs == PairedGroups(ga, gb, o)
    codes == Opcodes(ka, kb)
    ss == [c \in DOMAIN codes |-> OperationsOf(codes[c], ga, gb, o)]
<1>1. GroupsOf(ga, "a") /\ GroupsOf(gb, "b")
  BY GroupsRise
<1>2. AlikeGroups(ga, gb)
  BY GroupedAlike DEF IsParse
<1>3. AlignElements(da, db, o) = FlattenSeq(ss)
  BY DEF AlignElements
<1> HIDE DEF ga, gb
<1>4. /\ ga \in Seq(Groups) /\ gb \in Seq(Groups) /\ L \in Nat /\ Len(gb) = L
      /\ DOMAIN ga = 1 .. L /\ DOMAIN gb = 1 .. L
  BY <1>1, <1>2 DEF GroupsOf, AlikeGroups
<1>5. /\ ka \in Seq(Nat) /\ Len(ka) = L /\ \A n \in 1 .. L : ka[n] = ga[n][1].text
      /\ kb \in Seq(Nat) /\ Len(kb) = L /\ \A n \in 1 .. L : kb[n] = gb[n][1].text
  BY <1>4, KeysIn
<1>6. ASSUME NEW n \in 1 .. L PROVE ga[n][1].text = gb[n][1].text
  <2>1. /\ ga[n] \in Seq(MergeElements) /\ gb[n] \in Seq(MergeElements)
        /\ ga[n] # <<>> /\ gb[n] # <<>>
    BY <1>1, <1>4, GroupIs
  <2>2. Mapped(Look, ga[n]) = Mapped(Look, gb[n])
    BY <1>2 DEF AlikeGroups
  <2> DEFINE g == ga[n]
             h == gb[n]
  <2> HIDE DEF g, h
  <2>3. g \in Seq(MergeElements) /\ h \in Seq(MergeElements) /\ g # <<>> /\ Mapped(Look, g) = Mapped(Look, h)
    BY <2>1, <2>2 DEF g, h
  <2>4. Len(g) = Len(h) /\ \A k \in 1 .. Len(g) : Look[g[k]] = Look[h[k]]
    BY <2>3, LooksSame
  <2>5. 1 \in 1 .. Len(g) /\ g[1] \in MergeElements /\ h[1] \in MergeElements
    BY <2>3, <2>4
  <2>6. Look[g[1]][2] = g[1].text /\ Look[h[1]][2] = h[1].text
    BY <2>5 DEF Look
  <2>7. g[1].text = h[1].text
    BY <2>4, <2>5, <2>6
  <2> QED
    BY <2>7 DEF g, h
<1> HIDE DEF ka, kb, L
<1>7. ka = kb
  <2>1. \A n \in 1 .. L : ka[n] = kb[n]
    BY <1>5, <1>6
  <2> QED
    BY <1>5, <2>1, SeqsAgree
<1>8. /\ ka = <<>> => codes = <<>>
      /\ ka # <<>> => codes = <<Opcode("equal", 1, L + 1, 1, L + 1)>>
  BY <1>5, <1>7, SameOpcodes
<1>9. CASE ka = <<>>
  <2>1. L = 0
    BY <1>5, <1>9
  <2>2. codes = <<>>
    BY <1>8, <1>9
  <2> HIDE DEF codes
  <2>3. ss = <<>>
    BY <2>2
  <2> HIDE DEF ss
  <2>4. FlattenSeq(ss) = <<>>
    BY <2>3, FlattenNone
  <2>5. pairs = <<>>
    BY <1>4, <2>1 DEF PairedGroups
  <2> QED
    BY <1>3, <1>4, <2>4, <2>5 DEF ga, gb, L, pairs
<1>10. CASE ka # <<>>
  <2> DEFINE c == Opcode("equal", 1, L + 1, 1, L + 1)
             p == OperationsOf(c, ga, gb, o)
  <2>1. codes = <<c>>
    BY <1>8, <1>10
  <2>2. /\ c.tag = "equal" /\ c.i1 = 1 /\ c.j1 = 1 /\ c.i2 = L + 1 /\ c.j2 = L + 1
        /\ DOMAIN <<c>> = {1} /\ <<c>>[1] = c
    BY <1>4, SingleCodeIs
  <2> HIDE DEF c, codes
  <2>3. SubSeq(ga, c.i1, c.i2 - 1) = ga /\ SubSeq(gb, c.j1, c.j2 - 1) = gb
    BY <1>4, <2>2, WholeRange DEF L
  <2>4. p = pairs
    BY <2>2, <2>3 DEF OperationsOf, PairedGroups
  <2>5. pairs \in Seq(Operations)
    <3>1. OpsFit(pairs, ga, gb)
      BY <1>1, <1>4, PairsFit DEF L, PairedGroups
    <3> QED
      BY <3>1 DEF OpsFit
  <2> HIDE DEF p, pairs
  <2>6. ss = <<pairs>>
    <3>1. DOMAIN ss = {1} /\ ss[1] = pairs
      BY <2>1, <2>2, <2>4 DEF p
    <3>2. ss = [n \in {1} |-> pairs]
      BY <2>1, <2>2, <3>1
    <3>3. {1} = 1 .. 1
      OBVIOUS
    <3>4. <<pairs>> = [n \in 1 .. 1 |-> pairs]
      OBVIOUS
    <3> HIDE DEF ss
    <3> QED
      BY <3>2, <3>3, <3>4
  <2> HIDE DEF ss
  <2>7. FlattenSeq(ss) = pairs
    BY <2>5, <2>6, FlattenOne
  <2> QED
    BY <1>3, <1>4, <2>7 DEF ga, gb, L, pairs
<1> QED
  BY <1>9, <1>10

(* Two parses alike merge into what a reader sees in either. *)
LEMMA SameMerged ==
  ASSUME NEW da, NEW db, IsParse(da, "a"), IsParse(db, "b"), NEW o \in MergeOptions,
         Mapped(Look, da) = Mapped(Look, db)
  PROVE  LooksOf(Resolved(AlignElements(da, db, o))) = LooksOf(da)
<1> DEFINE
    ga == GroupWithTrailing(da, "a")
    gb == GroupWithTrailing(db, "b")
    ops == PairedGroups(ga, gb, o)
    rs == [n \in DOMAIN ops |-> ops[n].resolved]
    L == Len(ga)
    M == MergeElements
<1>1. GroupsOf(ga, "a") /\ GroupsOf(gb, "b") /\ AlikeGroups(ga, gb)
  BY GroupsRise, GroupedAlike DEF IsParse
<1>2. Len(ga) = Len(gb) /\ AlignElements(da, db, o) = ops
  BY SameAligned
<1>3. da \in Seq(M) /\ FlattenSeq(ga) \in {da, <<Sentinel("a")>> \o da}
  BY GroupsCover DEF IsParse
<1> HIDE DEF ga, gb
<1>4. ga \in Seq(Groups) /\ L \in Nat /\ DOMAIN ga = 1 .. L
  BY <1>1 DEF GroupsOf
<1>5. /\ OpsFit(ops, ga, gb)
      /\ \A n \in 1 .. L : AlignedPair(ga[n], gb[n], o, TRUE).resolved = ApplyHeuristics(ga[n], gb[n], o)
  BY <1>1, <1>2, PairsFit DEF L, PairedGroups
<1> HIDE DEF L
<1>6. Resolved(ops) = FlattenSeq(rs)
  BY DEF Resolved
<1>7. /\ rs = [n \in 1 .. L |-> rs[n]]
      /\ \A n \in 1 .. L : rs[n] = ApplyHeuristics(ga[n], gb[n], o)
  BY <1>4, <1>5 DEF PairedGroups
<1> HIDE DEF ops, rs
<1>8. ASSUME NEW n \in 1 .. L PROVE rs[n] \in Seq(M) /\ Mapped(Look, rs[n]) = Mapped(Look, ga[n])
  <2> DEFINE g == ga[n]
             h == gb[n]
  <2>1. OfParse(g, "a") /\ g # <<>>
    BY <1>1, GroupIs DEF L
  <2>2. OfParse(h, "b") /\ h # <<>>
    BY <1>1, <1>2, GroupIs DEF L
  <2>3. Mapped(Look, g) = Mapped(Look, h)
    BY <1>1 DEF AlikeGroups, L
  <2> HIDE DEF g, h
  <2>4. /\ Picked(ApplyHeuristics(g, h, o), g, h)
        /\ Mapped(Look, ApplyHeuristics(g, h, o)) = Mapped(Look, g)
    BY <2>1, <2>2, <2>3, HeuristicsPick
  <2>5. rs[n] = ApplyHeuristics(g, h, o)
    BY <1>7 DEF g, h
  <2> QED
    BY <2>4, <2>5 DEF Picked, g
<1>9. rs \in Seq(Seq(M)) /\ Len(rs) = L
  BY <1>4, <1>7, <1>8, SequenceIs
<1>10. ga \in Seq(Seq(M)) /\ Len(ga) = L
  BY <1>4 DEF Groups, L
<1>11. Mapped(Look, FlattenSeq(rs)) = Mapped(Look, FlattenSeq(ga))
  <2>1. \A n \in 1 .. Len(rs) : Mapped(Look, rs[n]) = Mapped(Look, ga[n])
    BY <1>8, <1>9
  <2> HIDE DEF M
  <2> QED
    BY <1>9, <1>10, <2>1, FlattenAlike
<1>12. FlattenSeq(rs) \in Seq(M) /\ FlattenSeq(ga) \in Seq(M)
  <2> HIDE DEF M
  <2> QED
    BY <1>9, <1>10, FlattenIn
<1>13. LooksOf(FlattenSeq(rs)) = LooksOf(FlattenSeq(ga))
  BY <1>11, <1>12, LooksAlike
<1>14. LooksOf(FlattenSeq(ga)) = LooksOf(da)
  <2>1. LooksOf(da) = Mapped(Look, da) /\ LooksOf(<<Sentinel("a")>> \o da) = Mapped(Look, da)
    BY ParseLooks
  <2>2. CASE FlattenSeq(ga) = da
    BY <2>2
  <2>3. CASE FlattenSeq(ga) = <<Sentinel("a")>> \o da
    BY <2>1, <2>3
  <2> QED
    BY <1>3, <2>2, <2>3
<1> QED
  BY <1>2, <1>6, <1>13, <1>14

(* Tags that look alike: what is selected looks like either. *)
LEMMA SelectedLooks ==
  ASSUME NEW x \in MergeElements, NEW y \in MergeElements, Look[x] = Look[y],
         NEW o \in MergeOptions, NEW hier \in BOOLEAN
  PROVE  LET e == SelectTag(x, y, o, hier, hier) IN e \in MergeElements /\ Look[e] = Look[x]
<1> DEFINE pref == PreferredSide(x.type, o)
           headings == x.type = "heading" /\ y.type = "heading"
           richer == IF y.rich > x.rich THEN y ELSE x
           other == [(IF x.rich > y.rich THEN x ELSE y) EXCEPT !.level = y.level]
           level == [richer EXCEPT !.level = x.level]
<1>1. pref \in {"a", "b", "neither"}
  BY OptionsAre
<1>2. SelectTag(x, y, o, hier, hier) =
        CASE pref = "a" -> x
          [] pref = "b" -> y
          [] pref = "neither" /\ headings /\ hier /\ ~hier -> level
          [] pref = "neither" /\ headings /\ hier /\ ~hier -> other
          [] OTHER -> richer
  BY DEF SelectTag
<1> HIDE DEF pref, headings, level, other
<1>3. SelectTag(x, y, o, hier, hier) \in {x, y}
  BY <1>1, <1>2
<1> QED
  BY <1>3

(* The keys of tags. *)
TagKeys(s) == [n \in DOMAIN s |-> TagKey(s[n])]

(* Tags that look alike have the same keys and levels. *)
LEMMA SameTags ==
  ASSUME NEW da \in Seq(MergeElements), NEW db \in Seq(MergeElements), Mapped(Look, da) = Mapped(Look, db)
  PROVE  /\ TagKeys(da) = TagKeys(db) /\ MultiLevel(da) = MultiLevel(db) /\ MultiLevel(da) \in BOOLEAN
         /\ TagKeys(da) \in Seq({"image", "text"} \X Nat) /\ Len(TagKeys(da)) = Len(da)
<1> DEFINE L == Len(da)
<1>1. /\ Len(db) = L /\ \A n \in 1 .. L : Look[da[n]] = Look[db[n]]
  BY MappedSame
<1>2. /\ L \in Nat /\ DOMAIN da = 1 .. L /\ DOMAIN db = 1 .. L
      /\ \A n \in 1 .. L : da[n] \in MergeElements /\ db[n] \in MergeElements
  BY <1>1
<1> HIDE DEF L
<1>3. \A n \in 1 .. L : da[n].type = db[n].type /\ da[n].text = db[n].text /\ da[n].level = db[n].level
  <2> SUFFICES ASSUME NEW n \in 1 .. L
               PROVE  da[n].type = db[n].type /\ da[n].text = db[n].text /\ da[n].level = db[n].level
    OBVIOUS
  <2>1. /\ Look[da[n]] = <<da[n].type, da[n].text, da[n].rich, da[n].level>>
        /\ Look[db[n]] = <<db[n].type, db[n].text, db[n].rich, db[n].level>>
    BY <1>2 DEF Look
  <2> QED
    BY <1>1, <2>1
<1>4. \A n \in 1 .. L : TagKey(da[n]) = TagKey(db[n]) /\ TagKey(da[n]) \in {"image", "text"} \X Nat
  <2> SUFFICES ASSUME NEW n \in 1 .. L
               PROVE  TagKey(da[n]) = TagKey(db[n]) /\ TagKey(da[n]) \in {"image", "text"} \X Nat
    OBVIOUS
  <2>1. da[n].text \in Nat
    BY <1>2 DEF MergeElements
  <2> QED
    BY <1>3, <2>1 DEF TagKey
<1>5. TagKeys(da) = TagKeys(db)
  BY <1>2, <1>4 DEF TagKeys
<1>6. TagKeys(da) \in Seq({"image", "text"} \X Nat) /\ Len(TagKeys(da)) = L
  BY <1>2, <1>4 DEF TagKeys
<1>7. {n \in DOMAIN da : da[n].type = "heading"} = {n \in DOMAIN db : db[n].type = "heading"}
  BY <1>2, <1>3
<1>8. {da[n].level : n \in {k \in DOMAIN da : da[k].type = "heading"}}
        = {db[n].level : n \in {k \in DOMAIN db : db[k].type = "heading"}}
  BY <1>2, <1>3, <1>7
<1>9. MultiLevel(da) = MultiLevel(db) /\ MultiLevel(da) \in BOOLEAN
  <2> DEFINE
      sa == {da[n].level : n \in {k \in DOMAIN da : da[k].type = "heading"}}
      sb == {db[n].level : n \in {k \in DOMAIN db : db[k].type = "heading"}}
  <2>1. MultiLevel(da) = (Cardinality(sa) > 1) /\ MultiLevel(db) = (Cardinality(sb) > 1)
    BY Zenon DEF MultiLevel
  <2>2. sa = sb
    BY <1>8
  <2> HIDE DEF sa, sb
  <2>3. MultiLevel(da) = MultiLevel(db)
    BY <2>1, <2>2
  <2>4. (Cardinality(sa) > 1) \in BOOLEAN
    OBVIOUS
  <2> QED
    BY <2>1, <2>3, <2>4
<1> QED
  BY <1>5, <1>6, <1>9 DEF L

(* Two parses alike merge into html a reader sees as either. *)
LEMMA SameHtml ==
  ASSUME NEW da, NEW db, IsParse(da, "a"), IsParse(db, "b"), NEW o \in MergeOptions,
         Mapped(Look, da) = Mapped(Look, db)
  PROVE  LooksOf(MergeHtml(da, db, o)) = LooksOf(da)
<1> DEFINE
    L == Len(da)
    M == MergeElements
    hier == MultiLevel(da)
    codes == Opcodes(TagKeys(da), TagKeys(db))
    ss == [c \in DOMAIN codes |-> Tags(codes[c], da, db, o, hier, MultiLevel(db))]
    each == [n \in DOMAIN da |-> SelectTag(da[n], db[n], o, hier, hier)]
<1>1. da \in Seq(M) /\ db \in Seq(M)
  BY DEF IsParse
<1>2. /\ TagKeys(da) = TagKeys(db) /\ hier = MultiLevel(db) /\ hier \in BOOLEAN
      /\ TagKeys(da) \in Seq({"image", "text"} \X Nat) /\ Len(TagKeys(da)) = L
  BY <1>1, SameTags
<1>3. MergeHtml(da, db, o) = FlattenSeq(ss)
  BY DEF MergeHtml, TagKeys
<1>4. Len(db) = L /\ \A n \in 1 .. L : Look[da[n]] = Look[db[n]]
  BY <1>1, LooksSame
<1>5. /\ L \in Nat /\ DOMAIN da = 1 .. L /\ DOMAIN db = 1 .. L
      /\ \A n \in 1 .. L : da[n] \in M /\ db[n] \in M
  BY <1>1, <1>4
<1>6. /\ TagKeys(da) = <<>> => codes = <<>>
      /\ TagKeys(da) # <<>> => codes = <<Opcode("equal", 1, L + 1, 1, L + 1)>>
  BY <1>2, SameOpcodes
<1> HIDE DEF L, hier, codes
<1>7. \A n \in 1 .. L : each[n] \in M /\ Look[each[n]] = Look[da[n]]
  BY <1>2, <1>4, <1>5, SelectedLooks
<1>8. each = [n \in 1 .. L |-> each[n]]
  BY <1>5
<1> HIDE DEF each
<1>9. each \in Seq(M) /\ Len(each) = L
  BY <1>5, <1>7, <1>8, SequenceIs
<1>10. Mapped(Look, each) = Mapped(Look, da)
  BY <1>1, <1>7, <1>9, MappedSame DEF L
<1>11. LooksOf(each) = LooksOf(da)
  BY <1>1, <1>9, <1>10, LooksAlike
<1>12. FlattenSeq(ss) = each
  <2>1. CASE TagKeys(da) = <<>>
    <3>1. L = 0
      BY <1>2, <2>1
    <3>2. codes = <<>>
      BY <1>6, <2>1
    <3>3. ss = <<>>
      BY <3>2
    <3> HIDE DEF ss
    <3>4. FlattenSeq(ss) = <<>>
      BY <3>3, FlattenNone
    <3>5. each = <<>>
      BY <1>9, <3>1
    <3> QED
      BY <3>4, <3>5
  <2>2. CASE TagKeys(da) # <<>>
    <3> DEFINE c == Opcode("equal", 1, L + 1, 1, L + 1)
               p == Tags(c, da, db, o, hier, MultiLevel(db))
    <3>1. codes = <<c>>
      BY <1>6, <2>2
    <3>2. /\ c.tag = "equal" /\ c.i1 = 1 /\ c.j1 = 1 /\ c.i2 = L + 1 /\ c.j2 = L + 1
          /\ DOMAIN <<c>> = {1} /\ <<c>>[1] = c
      BY <1>5, SingleCodeIs
    <3> HIDE DEF c
    <3>3. SubSeq(da, c.i1, c.i2 - 1) = da /\ SubSeq(db, c.j1, c.j2 - 1) = db
      BY <1>1, <1>4, <3>2, WholeRange DEF L
    <3>4. p = MergeTags(c, da, db, o, hier, hier)
      BY <1>2, <3>3 DEF Tags
    <3>5. p = each
      BY <3>2, <3>4 DEF MergeTags, each
    <3> HIDE DEF p
    <3>6. ss = <<each>>
      <4>1. ss = [n \in {1} |-> each]
        BY <3>1, <3>2, <3>5 DEF p
      <4>2. {1} = 1 .. 1
        OBVIOUS
      <4>3. <<each>> = [n \in 1 .. 1 |-> each]
        OBVIOUS
      <4> HIDE DEF ss
      <4> QED
        BY <4>1, <4>2, <4>3
    <3> HIDE DEF ss
    <3> QED
      BY <1>9, <3>6, FlattenOne
  <2> QED
    BY <2>1, <2>2
<1> QED
  BY <1>3, <1>11, <1>12

(* A sum of naturals. *)
LEMMA SumIs ==
  ASSUME NEW s \in Seq(Nat)
  PROVE  SumOf(s) \in Nat
<1> DEFINE
    L == Len(s)
    X == Nat
    T == [w \in X \X (1 .. L) |-> w[1] + s[w[2]]]
    Then(g, n) == IF n = 0 THEN 0 ELSE g[n - 1] + s[n]
    Solves(g) == g = [n \in 0 .. L |-> Then(g, n)]
<1>1. L \in Nat /\ 0 \in X /\ \A n \in 1 .. L : s[n] \in Nat
  OBVIOUS
<1> HIDE DEF L
<1>2. StaysIn(T, X, L)
  BY <1>1 DEF StaysIn
<1>3. PICK f \in [0 .. L -> X] : f[0] = 0 /\ \A n \in 1 .. L : f[n] = T[<<f[n - 1], n>>]
  <2>1. 0 \in X /\ L \in Nat
    BY <1>1
  <2> HIDE DEF X, T
  <2> QED
    BY <1>2, <2>1, Iterated
<1>4. ASSUME NEW n \in 1 .. L PROVE f[n] = f[n - 1] + s[n]
  <2>1. f[n - 1] \in X
    BY <1>1
  <2>2. T[<<f[n - 1], n>>] = f[n - 1] + s[n]
    BY <2>1
  <2> QED
    BY <1>3, <2>2, Zenon
<1>5. Solves(f)
  <2>1. f = [n \in 0 .. L |-> f[n]]
    OBVIOUS
  <2>2. ASSUME NEW n \in 0 .. L PROVE f[n] = Then(f, n)
    <3>1. CASE n = 0
      BY <1>3, <3>1
    <3>2. CASE n # 0
      <4>1. n \in 1 .. L
        BY <1>1, <3>2
      <4> QED
        BY <1>4, <3>2, <4>1, Zenon
    <3> QED
      BY <3>1, <3>2
  <2> HIDE DEF Then, X
  <2> QED
    BY <2>1, <2>2
<1> DEFINE g == CHOOSE g : Solves(g)
<1>6. Solves(g)
  <2> HIDE DEF Solves
  <2> QED
    BY <1>5
<1>7. SumOf(s) = g[L]
  BY DEF SumOf, L
<1> HIDE DEF g
<1>8. \A n \in 0 .. L : g[n] = Then(g, n)
  <2> HIDE DEF Then
  <2> QED
    BY <1>6
<1> DEFINE P == {n \in 0 .. L : g[n] = f[n]}
<1>9. 0 \in P
  <2>1. 0 \in 0 .. L
    BY <1>1
  <2>2. g[0] = 0
    BY <1>8, <2>1
  <2> QED
    BY <1>3, <2>1, <2>2
<1>10. ASSUME NEW n \in 1 .. L, n - 1 \in P PROVE n \in P
  <2>1. n \in 0 .. L /\ n # 0 /\ g[n - 1] = f[n - 1]
    BY <1>1, <1>10
  <2>2. g[n] = g[n - 1] + s[n]
    BY <1>8, <2>1
  <2> QED
    BY <1>4, <2>1, <2>2
<1>11. L \in P
  <2> HIDE DEF P
  <2>1. L \in Nat /\ \A n \in 1 .. L : n - 1 \in P => n \in P
    BY <1>1, <1>10
  <2>2. \A n \in 0 .. L : n \in P
    BY <1>9, <2>1, UpTo
  <2> QED
    BY <2>1, <2>2
<1>12. f[L] \in X /\ g[L] = f[L]
  BY <1>1, <1>11
<1> QED
  BY <1>7, <1>12

(* How rich elements are is a number. *)
LEMMA RichIs ==
  ASSUME NEW s \in Seq(MergeElements)
  PROVE  Rich(s) \in Nat
<1> DEFINE rich == [n \in DOMAIN s |-> s[n].rich]
           L == Len(s)
<1>1. L \in Nat /\ DOMAIN s = 1 .. L /\ \A n \in 1 .. L : s[n].rich \in Nat
  <2>1. \A n \in 1 .. L : s[n] \in MergeElements
    OBVIOUS
  <2>2. \A e \in MergeElements : e.rich \in Nat
    BY DEF MergeElements
  <2> QED
    BY <2>1, <2>2
<1> HIDE DEF L
<1>2. rich \in Seq(Nat)
  BY <1>1
<1> HIDE DEF rich
<1>3. SumOf(rich) \in Nat
  BY <1>2, SumIs
<1> QED
  BY <1>3 DEF Rich, rich

(* The two copies of the selection decide alike. *)
LEMMA SelectedIs ==
  ASSUME NEW c, c.tag \in CodeTags, NEW sa \in Seq(MergeElements), NEW sb \in Seq(MergeElements),
         NEW o \in MergeOptions, NEW hierA, NEW hierB
  PROVE  Selected(c, sa, sb, o, hierA, hierB) = MergeTags(c, sa, sb, o, hierA, hierB)
<1> DEFINE
    each == [n \in DOMAIN sa |-> SelectTag(sa[n], sb[n], o, hierA, hierB)]
    ra == Rich(sa)
    rb == Rich(sb)
    richer == IF rb >= ra THEN sb ELSE sa
    pref == PreferredSide(sa[1].type, o)
    allowed == AllowedTags(sb, o)
    alike == BlockAlike(sa, sb, o)
    same == Len(sa) = Len(sb)
<1>1. MergeTags(c, sa, sb, o, hierA, hierB) =
        CASE c.tag = "equal" -> each
          [] c.tag = "delete" -> sa
          [] c.tag = "insert" -> allowed
          [] c.tag = "replace" /\ ~alike -> allowed
          [] c.tag = "replace" /\ alike /\ same -> each
          [] OTHER -> IF pref = "a" \/ (pref = "neither" /\ rb < ra) THEN sa ELSE sb
  BY DEF MergeTags
<1>2. Selected(c, sa, sb, o, hierA, hierB) =
        CASE c.tag = "insert" -> allowed
          [] c.tag = "delete" -> sa
          [] c.tag = "equal" -> each
          [] c.tag = "replace" ->
               IF alike
               THEN IF same THEN each ELSE CASE pref = "a" -> sa [] pref = "b" -> sb [] OTHER -> richer
               ELSE allowed
  BY DEF Selected
<1>3. pref \in {"a", "b", "neither"}
  BY OptionsAre
<1>4. ra \in Nat /\ rb \in Nat
  BY RichIs
<1> HIDE DEF each, ra, rb, pref, allowed, alike, same
<1>5. CASE c.tag = "equal"
  BY <1>1, <1>2, <1>5
<1>6. CASE c.tag = "delete"
  BY <1>1, <1>2, <1>6
<1>7. CASE c.tag = "insert"
  BY <1>1, <1>2, <1>7
<1>8. CASE c.tag = "replace" /\ ~alike
  BY <1>1, <1>2, <1>8
<1>9. CASE c.tag = "replace" /\ alike /\ same
  BY <1>1, <1>2, <1>9
<1>10. CASE c.tag = "replace" /\ alike /\ ~same
  <2>1. MergeTags(c, sa, sb, o, hierA, hierB)
          = IF pref = "a" \/ (pref = "neither" /\ rb < ra) THEN sa ELSE sb
    BY <1>1, <1>10
  <2>2. Selected(c, sa, sb, o, hierA, hierB)
          = CASE pref = "a" -> sa [] pref = "b" -> sb [] OTHER -> richer
    BY <1>2, <1>10
  <2>3. CASE pref = "a"
    BY <2>1, <2>2, <2>3
  <2>4. CASE pref = "b"
    BY <2>1, <2>2, <2>4
  <2>5. CASE pref = "neither"
    BY <1>4, <2>1, <2>2, <2>5
  <2> QED
    BY <1>3, <2>3, <2>4, <2>5
<1> QED
  BY <1>5, <1>6, <1>7, <1>8, <1>9, <1>10 DEF CodeTags

(* The patch of two renderings is applied into what the merge makes of them. *)
LEMMA PatchedHtml ==
  ASSUME NEW da \in Seq(MergeElements), NEW db \in Seq(MergeElements), NEW o \in MergeOptions
  PROVE  FlattenSeq([n \in DOMAIN HtmlPatch(da, db, o) |-> HtmlPatch(da, db, o)[n].selected])
           = MergeHtml(da, db, o)
<1> DEFINE
    ka == TagKeys(da)
    kb == TagKeys(db)
    K == {"image", "text"} \X Nat
    codes == Opcodes(ka, kb)
    hierA == MultiLevel(da)
    hierB == MultiLevel(db)
    L == Len(codes)
    wa(c) == SubSeq(da, codes[c].i1, codes[c].i2 - 1)
    wb(c) == SubSeq(db, codes[c].j1, codes[c].j2 - 1)
    patch == [c \in DOMAIN codes |->
               [opcode |-> codes[c].tag, selected |-> Selected(codes[c], wa(c), wb(c), o, hierA, hierB)]]
    ss == [c \in DOMAIN codes |-> Tags(codes[c], da, db, o, hierA, hierB)]
<1>1. MergeHtml(da, db, o) = FlattenSeq(ss)
  BY DEF MergeHtml, TagKeys
<1>2. HtmlPatch(da, db, o) = patch
  BY DEF HtmlPatch, TagKeys
<1>3. ka \in Seq(K) /\ Len(ka) = Len(da) /\ kb \in Seq(K) /\ Len(kb) = Len(db)
  <2>1. Mapped(Look, da) = Mapped(Look, da) /\ Mapped(Look, db) = Mapped(Look, db)
    OBVIOUS
  <2> QED
    BY <2>1, SameTags
<1> HIDE DEF ka, kb, K
<1>4. Partition(codes, WholeWindow(ka, kb))
  BY <1>3, OpcodesPartition
<1> HIDE DEF codes, hierA, hierB
<1>5. codes \in Seq(Codes) /\ DOMAIN codes = 1 .. L /\ \A n \in 1 .. L : CodeIn(codes[n], WholeWindow(ka, kb))
  BY <1>4 DEF Partition
<1>6. ASSUME NEW n \in 1 .. L
      PROVE  Selected(codes[n], wa(n), wb(n), o, hierA, hierB) = Tags(codes[n], da, db, o, hierA, hierB)
  <2> DEFINE c == codes[n]
  <2>1. CodeIn(c, WholeWindow(ka, kb))
    BY <1>5
  <2> HIDE DEF c
  <2>2. /\ c.tag \in CodeTags /\ c.i1 \in Nat /\ c.i2 \in Nat /\ c.j1 \in Nat /\ c.j2 \in Nat
        /\ 1 <= c.i1 /\ c.i1 <= c.i2 /\ c.i2 <= Len(da) + 1
        /\ 1 <= c.j1 /\ c.j1 <= c.j2 /\ c.j2 <= Len(db) + 1
    BY <1>3, <2>1 DEF CodeIn, Codes, WholeWindow
  <2>3. SubSeq(da, c.i1, c.i2 - 1) \in Seq(MergeElements)
    BY <2>2, RangeIs
  <2>4. SubSeq(db, c.j1, c.j2 - 1) \in Seq(MergeElements)
    BY <2>2, RangeIs
  <2> DEFINE sa == SubSeq(da, c.i1, c.i2 - 1)
             sb == SubSeq(db, c.j1, c.j2 - 1)
  <2>5. Selected(c, sa, sb, o, hierA, hierB) = MergeTags(c, sa, sb, o, hierA, hierB)
    <3>1. c.tag \in CodeTags /\ sa \in Seq(MergeElements) /\ sb \in Seq(MergeElements)
      BY <2>2, <2>3, <2>4
    <3> HIDE DEF sa, sb
    <3>2. \A ha, hb : Selected(c, sa, sb, o, ha, hb) = MergeTags(c, sa, sb, o, ha, hb)
      BY <3>1, SelectedIs
    <3> QED
      BY <3>2
  <2> QED
    BY <2>5 DEF Tags, c
<1> HIDE DEF L
<1>7. [n \in DOMAIN patch |-> patch[n].selected] = ss
  <2>1. DOMAIN patch = DOMAIN codes
    OBVIOUS
  <2>2. \A n \in DOMAIN codes : patch[n].selected = Selected(codes[n], wa(n), wb(n), o, hierA, hierB)
    OBVIOUS
  <2> HIDE DEF patch, wa, wb
  <2>3. \A n \in DOMAIN codes : patch[n].selected = Tags(codes[n], da, db, o, hierA, hierB)
    BY <1>5, <1>6, <2>2
  <2> QED
    BY <2>1, <2>3
<1> QED
  BY <1>1, <1>2, <1>7

(* Both parses, and what one merge made of them. *)
MergeInv ==
  /\ IsParse(parseA, "a") /\ IsParse(parseB, "b")
  /\ Merged => \E o \in MergeOptions : merging = MergeOf(parseA, parseB, o)

(* A parse with one element more. *)
LEMMA ParsedMore ==
  ASSUME NEW side \in {"a", "b"}, NEW s, IsParse(s, side), NEW f \in MergeForms
  PROVE  IsParse(Append(s, Parsed(side, Len(s) + 1, f)), side)
<1> DEFINE e == Parsed(side, Len(s) + 1, f)
           t == Append(s, e)
<1>1. /\ s \in Seq(MergeElements) /\ Len(s) \in Nat
      /\ \A n \in 1 .. Len(s) : /\ s[n].id = <<side, n>> /\ s[n].text # 0 /\ s[n].type # "raw_text"
                                /\ s[n].id \notin s[n].refs
  BY DEF IsParse
<1>2. /\ f.type \in ElementTypes \ {"raw_text"} /\ f.text \in Nat \ {0} /\ f.rich \in Nat
      /\ f.level \in 1 .. 6 /\ f.refs \subseteq Nat \ {0}
  BY MergeConstants
<1>3. /\ e.id = <<side, Len(s) + 1>> /\ e.type = f.type /\ e.text = f.text
      /\ e.refs = {<<side, (Len(s) + 1) + k>> : k \in f.refs}
  BY DEF Parsed
<1>4. e.refs \subseteq OriginIds /\ e.id \notin e.refs /\ e.id \in MergeIds
  <2>1. ASSUME NEW k \in f.refs
        PROVE  /\ <<side, (Len(s) + 1) + k>> \in OriginIds
               /\ <<side, (Len(s) + 1) + k>> # <<side, Len(s) + 1>>
    <3>1. k \in Nat \ {0}
      BY <1>2
    <3>2. (Len(s) + 1) + k \in Nat /\ (Len(s) + 1) + k # Len(s) + 1
      BY <1>1, <3>1
    <3> QED
      BY <3>2 DEF OriginIds
  <2>2. e.id \in MergeIds
    <3>1. Len(s) + 1 \in Nat
      BY <1>1
    <3>2. <<side, Len(s) + 1>> \in OriginIds
      BY <3>1 DEF OriginIds
    <3> HIDE DEF e
    <3> QED
      BY <1>3, <3>2 DEF MergeIds
  <2> QED
    BY <1>3, <2>1, <2>2
<1>5. e \in MergeElements
  BY <1>2, <1>4 DEF Parsed, MergeElements
<1> HIDE DEF e
<1>6. /\ t \in Seq(MergeElements) /\ Len(t) = Len(s) + 1 /\ t[Len(s) + 1] = e
      /\ \A n \in 1 .. Len(s) : t[n] = s[n]
  BY <1>1, <1>5, AppendFacts
<1> HIDE DEF t
<1>7. ASSUME NEW n \in 1 .. Len(t)
      PROVE  t[n].id = <<side, n>> /\ t[n].text # 0 /\ t[n].type # "raw_text" /\ t[n].id \notin t[n].refs
  <2>1. n \in 1 .. Len(s) \/ n = Len(s) + 1
    BY <1>1, <1>6
  <2>2. CASE n \in 1 .. Len(s)
    BY <1>1, <1>6, <2>2
  <2>3. CASE n = Len(s) + 1
    BY <1>2, <1>3, <1>4, <1>6, <2>3
  <2> QED
    BY <2>1, <2>2, <2>3
<1> QED
  BY <1>6, <1>7 DEF IsParse, t, e

(* No parse yet. *)
LEMMA MergeStarts ==
  ASSUME MergeInit
  PROVE  MergeInv
<1>1. parseA = <<>> /\ parseB = <<>> /\ merging = NotMerged
  BY DEF MergeInit
<1> DEFINE none == <<>>
<1>2. none \in Seq(MergeElements) /\ Len(none) = 0 /\ 1 .. Len(none) = {}
  OBVIOUS
<1>3. parseA = none /\ parseB = none
  BY <1>1
<1> HIDE DEF none
<1>4. IsParse(none, "a") /\ IsParse(none, "b")
  BY <1>2 DEF IsParse
<1> QED
  BY <1>1, <1>3, <1>4 DEF MergeInv, Merged

(* Every step. *)
LEMMA MergeSteps ==
  ASSUME MergeInv, [MergeNext]_mergeVars
  PROVE  MergeInv'
<1>1. ASSUME NEW f \in MergeForms, AddToA(f) PROVE MergeInv'
  <2>1. IsParse(parseA', "a")
    <3>1. parseA' = Append(parseA, Parsed("a", Len(parseA) + 1, f))
      BY <1>1 DEF AddToA
    <3>2. \A s : IsParse(s, "a") => IsParse(Append(s, Parsed("a", Len(s) + 1, f)), "a")
      BY ParsedMore
    <3>3. IsParse(parseA, "a")
      BY DEF MergeInv
    <3> QED
      BY <3>1, <3>2, <3>3
  <2>2. parseB' = parseB /\ merging' = NotMerged
    BY <1>1 DEF AddToA
  <2> QED
    BY <2>1, <2>2 DEF MergeInv, Merged
<1>2. ASSUME NEW f \in MergeForms, AddToB(f) PROVE MergeInv'
  <2>1. IsParse(parseB', "b")
    <3>1. parseB' = Append(parseB, Parsed("b", Len(parseB) + 1, f))
      BY <1>2 DEF AddToB
    <3>2. \A s : IsParse(s, "b") => IsParse(Append(s, Parsed("b", Len(s) + 1, f)), "b")
      BY ParsedMore
    <3>3. IsParse(parseB, "b")
      BY DEF MergeInv
    <3> QED
      BY <3>1, <3>2, <3>3
  <2>2. parseA' = parseA /\ merging' = NotMerged
    BY <1>2 DEF AddToB
  <2> QED
    BY <2>1, <2>2 DEF MergeInv, Merged
<1>3. ASSUME NEW o \in MergeOptions, Merge(o) PROVE MergeInv'
  BY <1>3 DEF Merge, MergeInv
<1>4. CASE UNCHANGED mergeVars
  BY <1>4 DEF mergeVars, MergeInv, Merged
<1> QED
  BY <1>1, <1>2, <1>3, <1>4 DEF MergeNext

(* Whatever the options, a merge of two parses is faithful to them. *)
LEMMA MergeHolds ==
  ASSUME MergeInv
  PROVE  MergeIsFaithful
<1> SUFFICES ASSUME Merged PROVE MergeIsFaithful
  BY DEF MergeIsFaithful, LocalRefsTravel, OrderOfA, ReparseIsNeutral, HtmlPatchIsMerge
<1>1. PICK o \in MergeOptions : merging = MergeOf(parseA, parseB, o)
  BY DEF MergeInv
<1>2. IsParse(parseA, "a") /\ IsParse(parseB, "b")
  BY DEF MergeInv
<1> DEFINE patch == AlignElements(parseA, parseB, o)
           all == Resolved(patch)
<1>3. /\ merging.patch = patch /\ merging.merged = ApplyPatch(patch)
      /\ merging.html = MergeHtml(parseA, parseB, o) /\ merging.htmlPatch = HtmlPatch(parseA, parseB, o)
  BY <1>1 DEF MergeOf
<1>4. /\ ApplyPatch(patch) = all /\ all \in Seq(MergeElements) /\ Pairwise(all, KeptApart)
      /\ Local(parseA, "a") /\ Local(parseB, "b") => Closed(all)
  BY <1>2, MergedIs
<1>5. parseA \in Seq(MergeElements) /\ parseB \in Seq(MergeElements)
  BY <1>2 DEF IsParse
<1> HIDE DEF all, patch
<1>6. merging.merged = all /\ all = Resolved(merging.patch)
  BY <1>3, <1>4 DEF all
<1>7. DOMAIN all = 1 .. Len(all) /\ Len(all) \in Nat
  BY <1>4
<1>8. LocalRefsTravel
  <2> SUFFICES ASSUME Closed(all) PROVE BrokenRefs(all) = {}
    BY <1>4, <1>6 DEF LocalRefsTravel
  <2>1. \A n \in DOMAIN all : all[n].refs \subseteq {all[m].id : m \in DOMAIN all}
    BY <1>7 DEF Closed
  <2> DEFINE refs == UNION {all[n].refs : n \in DOMAIN all}
             ids == {all[n].id : n \in DOMAIN all}
  <2>2. \A r \in refs : r \in ids
    <3> SUFFICES ASSUME NEW n \in DOMAIN all, NEW r \in all[n].refs PROVE r \in ids
      OBVIOUS
    <3> QED
      BY <2>1
  <2>3. BrokenRefs(all) = refs \ ids
    BY DEF BrokenRefs
  <2> HIDE DEF refs, ids
  <2> QED
    BY <2>2, <2>3
<1>9. OrderOfA
  <2> DEFINE origin == [n \in DOMAIN all |-> Origin(all[n].id)]
  <2>1. ASSUME NEW m \in DOMAIN all, NEW n \in DOMAIN all, m < n,
               origin[m][1] = "a", origin[n][1] = "a"
        PROVE  origin[m][2] < origin[n][2]
    <3>1. <<all[m], all[n]>> \in KeptApart
      BY <1>4, <1>7, <2>1 DEF Pairwise
    <3>2. origin[m] = Origin(all[m].id) /\ origin[n] = Origin(all[n].id)
      OBVIOUS
    <3> QED
      BY <2>1, <3>1, <3>2 DEF KeptApart
  <2>2. DOMAIN origin = DOMAIN all
    OBVIOUS
  <2> HIDE DEF origin
  <2>3. \A m, n \in DOMAIN origin :
          m < n /\ origin[m][1] = "a" /\ origin[n][1] = "a" => origin[m][2] < origin[n][2]
    BY <2>1, <2>2
  <2> QED
    BY <1>6, <2>3 DEF OrderOfA, origin
<1>10. ReparseIsNeutral
  <2> SUFFICES ASSUME LooksOf(parseA) = LooksOf(parseB)
               PROVE  LooksOf(all) = LooksOf(parseA) /\ LooksOf(MergeHtml(parseA, parseB, o)) = LooksOf(parseA)
    BY <1>3, <1>6 DEF ReparseIsNeutral
  <2>1. LooksOf(parseA) = Mapped(Look, parseA) /\ LooksOf(parseB) = Mapped(Look, parseB)
    BY <1>2, ParseLooks
  <2>2. Mapped(Look, parseA) = Mapped(Look, parseB)
    BY <2>1
  <2>3. LooksOf(all) = LooksOf(parseA)
    BY <1>2, <2>2, SameMerged DEF all, patch
  <2>4. LooksOf(MergeHtml(parseA, parseB, o)) = LooksOf(parseA)
    BY <1>2, <2>2, SameHtml
  <2> QED
    BY <2>3, <2>4
<1>11. HtmlPatchIsMerge
  <2>1. FlattenSeq([n \in DOMAIN HtmlPatch(parseA, parseB, o) |-> HtmlPatch(parseA, parseB, o)[n].selected])
          = MergeHtml(parseA, parseB, o)
    BY <1>5, PatchedHtml
  <2> QED
    BY <1>3, <2>1 DEF HtmlPatchIsMerge
<1> QED
  BY <1>8, <1>9, <1>10, <1>11 DEF MergeIsFaithful

(* A merge is faithful to its two parses under every option: references stay  *)
(* whole, A's order and every id stand, a second parse that came out the same  *)
(* changes nothing a reader sees, and the html patch is the html merge.        *)
THEOREM MergeStaysFaithful == MergeSpec => []MergeIsFaithful
<1>1. MergeInit => MergeInv
  BY MergeStarts
<1>2. MergeInv /\ [MergeNext]_mergeVars => MergeInv'
  BY MergeSteps
<1>3. MergeInv => MergeIsFaithful
  BY MergeHolds
<1> QED
  BY <1>1, <1>2, <1>3, PTL DEF MergeSpec
=============================================================================
