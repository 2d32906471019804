------------------------------- MODULE ChunkIds -------------------------------
(***************************************************************************)
(* ChunkPipeline.run (pipeline/linear.py) over one document after another,    *)
(* with the chunkers of chunking/: a document is split, each split becomes    *)
(* one chunk (SimpleChunker) or one per topic summary a model gives it        *)
(* (LLMChunker), and the pipeline mints every id and stamps the document's    *)
(* provenance on every chunk (chunking/provenance.py).                        *)
(*                                                                            *)
(* A content is the sequence of the texts its splits render to; a text is its *)
(* number of tokens, 0 when blank.  Parsing one file again gives a document   *)
(* with a fresh id, the same source_id or source_path, and the same content   *)
(* unless the file changed.  Ids and keys are numbers, keys below the ids and *)
(* 0 when the document has none; summaries are numbers too, 0 when blank.     *)
(***************************************************************************)
EXTENDS Integers, Sequences, FiniteSets

CONSTANTS
  Contents,     \* sequences of texts
  SourceKeys,   \* [sourceId, sourcePath]
  Answers,      \* summaries a model gives a split
  PromptLimit,  \* max_prompt_tokens
  MaxChunked       \* bound: documents chunked

ASSUME ChunkConstants ==
  /\ Contents \subseteq Seq(Nat)
  /\ Answers \subseteq Seq(Nat)
  /\ \A k \in SourceKeys : {k.sourceId, k.sourcePath} \subseteq 0 .. 9
  /\ {PromptLimit, MaxChunked} \subseteq Nat

VARIABLES
  chunking,   \* the document being chunked
  chunkRuns    \* the runs that returned: [doc, simple, chunks]

chunkVars == <<chunking, chunkRuns>>

NoDocument == [id |-> 0, sourceId |-> 0, sourcePath |-> 0, content |-> <<>>]
NotChunking == [running |-> FALSE, doc |-> NoDocument, simple |-> TRUE, at |-> 0, chunks |-> <<>>]

ChunksInit == chunking = NotChunking /\ chunkRuns = <<>>

-----------------------------------------------------------------------------
(* Provenance *)

(* resolve_chunk_provenance: source_id, else source_path, else id. *)
Resolve(doc) ==
  [source |-> IF doc.sourceId # 0 THEN doc.sourceId
              ELSE IF doc.sourcePath # 0 THEN doc.sourcePath
              ELSE doc.id,
   content |-> doc.content]

(* Mutated: the ordinal of a chunk in its split is left out. *)
MintOfSplit(source, seq, ordinal, content) == <<source, seq, content>>

(* mint_chunk_id: a digest, taken to be injective in its four parts. *)
Mint(source, seq, ordinal, content) == <<source, seq, ordinal, content>>

(* A split has an id and a content of its own; the pipeline gives it the    *)
(* source of the document before it is chunked.                             *)
SplitDoc(doc, n) == [doc EXCEPT !.content = <<doc.content[n]>>, !.id = 100 * @ + n,
                                !.sourceId = Resolve(doc).source]

-----------------------------------------------------------------------------
(* The chunkers *)

NewChunk(split, embedding) ==
  [prompt |-> split.content[1], embedding |-> embedding, prov |-> Resolve(split), id |-> <<>>]

(* _budget_llm_input: what the model reads of a text. *)
ModelReads(text) == IF text <= PromptLimit THEN text ELSE PromptLimit

(* The embedding of the whole rendering, and of a summary. *)
WholeText(text) == <<"text", text>>
Summary(text, summary) == <<"summary", ModelReads(text), summary>>

(* The summaries of an answer that are not blank, for its first n. *)
NotBlank(answer) ==
  LET kept[n \in 0 .. Len(answer)] ==
        IF n = 0 THEN <<>>
        ELSE IF answer[n] = 0 THEN kept[n - 1] ELSE Append(kept[n - 1], answer[n])
  IN kept

(* LLMChunker: blank summaries are dropped; with none left, a text that is  *)
(* not blank stands for itself.                                             *)
Embeddings(text, answer) ==
  LET usable == NotBlank(answer)[Len(answer)]
  IN IF usable = <<>> /\ text # 0 THEN <<WholeText(text)>>
     ELSE [n \in DOMAIN usable |-> Summary(text, usable[n])]

ChunksOf(split, embeddings) == [n \in DOMAIN embeddings |-> NewChunk(split, embeddings[n])]

(* The pipeline is the only authority on ids and content hashes. *)
StampChunks(chunks, prov, seq) ==
  [n \in DOMAIN chunks |->
     [chunks[n] EXCEPT !.id = Mint(prov.source, seq, n - 1, prov.content),
                       !.prov = [@ EXCEPT !.content = prov.content]]]

-----------------------------------------------------------------------------
(* A run of the pipeline *)

(* The id of a parsed document is new each time. *)
StartChunking ==
  /\ ~ chunking.running /\ Len(chunkRuns) < MaxChunked
  /\ \E content \in Contents, key \in SourceKeys, simple \in BOOLEAN :
       chunking' = [running |-> TRUE, simple |-> simple, at |-> 1, chunks |-> <<>>,
                    doc |-> [id |-> 10 + Len(chunkRuns), sourceId |-> key.sourceId,
                             sourcePath |-> key.sourcePath, content |-> content]]
  /\ UNCHANGED chunkRuns

AddChunks(embeddings) ==
  LET doc == chunking.doc
      chunks == ChunksOf(SplitDoc(doc, chunking.at), embeddings)
  IN chunking' = [chunking EXCEPT !.at = @ + 1,
                                  !.chunks = @ \o StampChunks(chunks, Resolve(doc), chunking.at)]

SplitLeft == chunking.running /\ chunking.at <= Len(chunking.doc.content)

ChunkSimply ==
  /\ SplitLeft /\ chunking.simple
  /\ AddChunks(<<WholeText(chunking.doc.content[chunking.at])>>)
  /\ UNCHANGED chunkRuns

ChunkByModel ==
  /\ SplitLeft /\ ~ chunking.simple
  /\ \E answer \in Answers : AddChunks(Embeddings(chunking.doc.content[chunking.at], answer))
  /\ UNCHANGED chunkRuns

(* A refusal or an exhausted retry raises out of the run: no chunk is returned. *)
ModelFails ==
  /\ SplitLeft /\ ~ chunking.simple
  /\ chunking' = NotChunking
  /\ UNCHANGED chunkRuns

ReturnChunks ==
  /\ chunking.running /\ ~ SplitLeft
  /\ chunkRuns' = Append(chunkRuns, [doc |-> chunking.doc, simple |-> chunking.simple,
                                   chunks |-> chunking.chunks])
  /\ chunking' = NotChunking

ChunksNext == StartChunking \/ ChunkSimply \/ ChunkByModel \/ ModelFails \/ ReturnChunks

-----------------------------------------------------------------------------
(* Properties *)

ChunkIdsOf(run) == {run.chunks[n].id : n \in DOMAIN run.chunks}

(* Chunks of one document never share an id, though its splits may render    *)
(* alike and a split may have several chunks: none overwrites another in the *)
(* store (mint_chunk_id, enumerate in ChunkPipeline.run).                    *)
NoChunkOverwritten ==
  \A r \in DOMAIN chunkRuns : Cardinality(ChunkIdsOf(chunkRuns[r])) = Len(chunkRuns[r].chunks)

(* Every chunk of a document carries the content hash of the document, not of *)
(* its split, so that the next sync finds one token for the source            *)
(* (ChunkPipeline.run stamps what the chunker left on it).                    *)
OneTokenPerSource ==
  \A r \in DOMAIN chunkRuns : \A n \in DOMAIN chunkRuns[r].chunks :
    chunkRuns[r].chunks[n].prov = Resolve(chunkRuns[r].doc)

(* A split with text is found by some embedding that is not blank, whatever *)
(* the model answered (the fallback in LLMChunker.chunk).                   *)
TextIsIndexed ==
  \A r \in DOMAIN chunkRuns : \A n \in DOMAIN chunkRuns[r].doc.content :
    chunkRuns[r].doc.content[n] # 0 =>
      \E k \in DOMAIN chunkRuns[r].chunks :
        /\ chunkRuns[r].chunks[k].id[2] = n
        /\ chunkRuns[r].chunks[k].prompt = chunkRuns[r].doc.content[n]
        /\ chunkRuns[r].chunks[k].embedding # WholeText(0)

(* A source parsed again unchanged gets the ids it had, though its document    *)
(* has a new id: an upsert replaces its chunks.  One that changed shares none. *)
SameSource(d, e) ==
  /\ d.sourceId = e.sourceId /\ d.sourcePath = e.sourcePath
  /\ d.sourceId # 0 \/ d.sourcePath # 0

UpsertReplaces ==
  \A r, q \in DOMAIN chunkRuns :
    LET a == chunkRuns[r]
        b == chunkRuns[q]
    IN SameSource(a.doc, b.doc) /\ a.simple /\ b.simple =>
         IF a.doc.content = b.doc.content THEN ChunkIdsOf(a) = ChunkIdsOf(b)
                                          ELSE ChunkIdsOf(a) \intersect ChunkIdsOf(b) = {}

(* The ids, tokens and embeddings by which the store and the sync know the  *)
(* chunks of a source.                                                      *)
ChunksAreKnown == NoChunkOverwritten /\ OneTokenPerSource /\ TextIsIndexed /\ UpsertReplaces

ChunksSpec == ChunksInit /\ [][ChunksNext]_chunkVars
=============================================================================
