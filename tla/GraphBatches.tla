----------------------------- MODULE GraphBatches -----------------------------
(***************************************************************************)
(* What becomes of the answers of an LLM that extracts a knowledge graph:   *)
(* dangling edges are dropped from each answer, a second answer (of the     *)
(* other half of the text, or of a gleaning call) is merged into the first  *)
(* under fresh ids, the result is wrapped into mentions (extraction/kg.py), *)
(* and the mentions of all splits are given their final ids                 *)
(* (extraction/pipeline.py, extraction/mention.py).                         *)
(*                                                                          *)
(* The machine lets two answers grow by any nodes and edges; the invariants *)
(* say what the functions return for them.  A local id "n<k>" is the number *)
(* k; a payload is a value whose kind is the payload itself.                *)
(***************************************************************************)
EXTENDS Naturals, Sequences, FiniteSets, SequencesExt, FiniteSetsExt, SequenceOps

CONSTANTS
  LocalIds,   \* numbers an LLM may use in ids
  Payloads,   \* node payloads
  References, \* pairs of local ids that edges may name
  Legal,      \* the pairs of kinds the schema's patterns allow
  MaxNodes, MaxEdges  \* bounds: of one answer

ASSUME BatchConstants ==
  /\ LocalIds \subseteq Nat
  /\ References \subseteq Nat \X Nat
  /\ Legal \subseteq Payloads \X Payloads
  /\ MaxNodes \in Nat /\ MaxEdges \in Nat

VARIABLES first, second  \* the two answers: [nodes, edges]

batchVars == <<first, second>>

NoAnswer == [nodes |-> <<>>, edges |-> <<>>]

LocalId(b) == {b.nodes[i].id : i \in DOMAIN b.nodes}

UniqueIds(b) == Cardinality(LocalId(b)) = Len(b.nodes)

(* The payload that an id of an answer names; duplicates are ruled out. *)
PayloadOf(b, id) ==
  IF \E i \in DOMAIN b.nodes : b.nodes[i].id = id
  THEN b.nodes[CHOOSE i \in DOMAIN b.nodes : b.nodes[i].id = id].payload
  ELSE "none"

-----------------------------------------------------------------------------
(* drop_dangling_edges *)
DropDangling(b, extra) ==
  LET known == LocalId(b) \cup extra
  IN  [b EXCEPT !.edges = Among(@, known \X known)]

-----------------------------------------------------------------------------
(* merge_graph_batches *)

(* Mutated: the fresh ids start behind the first answer's nodes without a   *)
(* look at the ids that are taken.                                          *)
FreshCounted(taken, counter) == counter

(* The first free number from counter on. *)
Fresh(taken, counter) == Min({k \in counter .. counter + Cardinality(taken) : k \notin taken})

(* Positions of the first answer's nodes with this payload. *)
Twins(p, payload) == {i \in DOMAIN p.nodes : p.nodes[i].payload = payload}

(* One node of the second answer: dropped for its twin, or renumbered. *)
AddSecond(acc, node, p, deduplicate) ==
  IF deduplicate /\ Twins(p, node.payload) # {}
  THEN [acc EXCEPT !.remap = @ \cup {<<node.id, p.nodes[Min(Twins(p, node.payload))].id>>}]
  ELSE LET new == Fresh(acc.taken, acc.counter)
       IN  [taken   |-> acc.taken \cup {new},
            counter |-> new + 1,
            remap   |-> acc.remap \cup {<<node.id, new>>},
            nodes   |-> Append(acc.nodes, [id |-> new, payload |-> node.payload])]

SecondAdded(p, s, deduplicate) ==
  LET added[n \in 0 .. Len(s.nodes)] ==
        IF n = 0 THEN [taken |-> LocalId(p), counter |-> Len(p.nodes), remap |-> {}, nodes |-> <<>>]
        ELSE AddSecond(added[n - 1], s.nodes[n], p, deduplicate)
  IN  added[Len(s.nodes)]

(* rewrite_edge_refs: an id that is not mapped is left alone. *)
Rewrite(map, id) == IF \E m \in map : m[1] = id THEN (CHOOSE m \in map : m[1] = id)[2] ELSE id

(* Defined when the ids of s are unique; otherwise the code raises. *)
MergeBatches(p, s, deduplicate) ==
  LET acc == SecondAdded(p, s, deduplicate)
      rewritten == [i \in DOMAIN s.edges |->
                      <<Rewrite(acc.remap, s.edges[i][1]), Rewrite(acc.remap, s.edges[i][2])>>]
  IN  [nodes |-> p.nodes \o acc.nodes,
       edges |-> p.edges \o IF deduplicate THEN Among(rewritten, ToSet(rewritten) \ ToSet(p.edges)) ELSE rewritten]

Halves == MergeBatches(DropDangling(first, {}), DropDangling(second, {}), FALSE)

Gleaned ==
  LET p == DropDangling(first, {})
  IN  MergeBatches(p, DropDangling(second, LocalId(p)), TRUE)

-----------------------------------------------------------------------------
(* KnowledgeGraphExtractor.extract: nodes first, then the legal edges, under *)
(* one ordinal.  A mention_id hashes the content hash, the ordinal and the   *)
(* payload, of an edge with its rewritten ends: here the tuple of them.      *)

NodeMention(hash, b, i) ==
  [id |-> <<hash, i - 1, <<b.nodes[i].payload>>>>, payload |-> b.nodes[i].payload, ends |-> <<>>]

MentionOf(hash, b, id) == NodeMention(hash, b, CHOOSE i \in DOMAIN b.nodes : b.nodes[i].id = id).id

Extract(hash, b) ==
  LET legal == Among(b.edges, {e \in ToSet(b.edges) : <<PayloadOf(b, e[1]), PayloadOf(b, e[2])>> \in Legal})
      EndsOf(i) == <<MentionOf(hash, b, legal[i][1]), MentionOf(hash, b, legal[i][2])>>
  IN  [i \in DOMAIN b.nodes |-> NodeMention(hash, b, i)] \o
      [i \in DOMAIN legal |->
         [id |-> <<hash, Len(b.nodes) + i - 1, EndsOf(i)>>, payload |-> "edge", ends |-> EndsOf(i)]]

-----------------------------------------------------------------------------
(* MentionStorePipeline._extract_from_document: the mentions of all splits  *)
(* are numbered through and given the parent's content hash; then every end *)
(* is rewritten from the old ids to the new ones, the latest of equal ones. *)

(* finalize_mention; the payload that is hashed holds the ends as they are. *)
Finalized(m, ordinal) == [m EXCEPT !.id = <<"parent", ordinal, m.id[3]>>]

FinalizeSplits(splits) ==
  LET all    == FlattenSeq(splits)
      out    == [i \in DOMAIN all |-> Finalized(all[i], i - 1)]
      Latest(old) == out[Max({i \in DOMAIN all : all[i].id = old})].id
  IN  [i \in DOMAIN out |-> [out[i] EXCEPT !.ends = [k \in DOMAIN @ |-> Latest(@[k])]]]

(* The answers of two splits, of equal content or not. *)
Mentions2(sameText) ==
  FinalizeSplits(<<Extract("h1", DropDangling(first, {})),
                   Extract(IF sameText THEN "h1" ELSE "h2", DropDangling(second, {}))>>)

-----------------------------------------------------------------------------
BatchesInit == first = NoAnswer /\ second = NoAnswer

AddNode(b) == \E id \in LocalIds, x \in Payloads :
  b' = [b EXCEPT !.nodes = Append(@, [id |-> id, payload |-> x])]

AddEdge(b) == \E e \in References : b' = [b EXCEPT !.edges = Append(@, e)]

GrowFirst ==
  /\ second = NoAnswer
  /\ \/ first.edges = <<>> /\ Len(first.nodes) < MaxNodes /\ AddNode(first)
     \/ Len(first.edges) < MaxEdges /\ AddEdge(first)
  /\ UNCHANGED second

GrowSecond ==
  /\ \/ second.edges = <<>> /\ Len(second.nodes) < MaxNodes /\ AddNode(second)
     \/ Len(second.edges) < MaxEdges /\ AddEdge(second)
  /\ UNCHANGED first

BatchesNext == GrowFirst \/ GrowSecond

BatchesSpec == BatchesInit /\ [][BatchesNext]_batchVars

Sound == UniqueIds(first) /\ UniqueIds(second)

(* Renumbered ids never collide with each other or with the first answer's, *)
(* whichever numbers its ids skip.                                          *)
MergedIdsUnique == Sound => UniqueIds(Halves) /\ UniqueIds(Gleaned)

EdgePayloads(b) == [i \in DOMAIN b.edges |-> <<PayloadOf(b, b.edges[i][1]), PayloadOf(b, b.edges[i][2])>>]

(* After the merge of two halves every edge still joins nodes with the      *)
(* payloads its own answer gave them, and only dangling edges are gone.     *)
HalvesKeepEdges ==
  Sound => EdgePayloads(Halves) =
             EdgePayloads(DropDangling(first, {})) \o EdgePayloads(DropDangling(second, {}))

(* A gleaning answer that repeats the first one, under whatever ids, adds   *)
(* nothing, if the payloads of the first answer are distinct.               *)
GleaningAddsNothingTwice ==
  LET p == DropDangling(first, {})
      s == DropDangling(second, LocalId(p))
  IN  Sound /\ Cardinality({n.payload : n \in ToSet(p.nodes)}) = Len(p.nodes)
        /\ ToSet(EdgePayloads(DropDangling(second, {}))) \subseteq ToSet(EdgePayloads(p))
        /\ {n.payload : n \in ToSet(s.nodes)} \subseteq {n.payload : n \in ToSet(p.nodes)}
        /\ s.edges = DropDangling(second, {}).edges
      => Gleaned = p

(* After a gleaning call every edge of its answer joins the payloads it     *)
(* named: its own nodes first, then those of the first answer.              *)
GleaningKeepsEdges ==
  LET p == DropDangling(first, {})
      s == DropDangling(second, LocalId(p))
      Named2(id) == IF id \in LocalId(s) THEN PayloadOf(s, id) ELSE PayloadOf(p, id)
      joined == {<<Named2(e[1]), Named2(e[2])>> : e \in
                   {d \in ToSet(second.edges) : d[1] \in LocalId(s) \cup LocalId(p)
                                               /\ d[2] \in LocalId(s) \cup LocalId(p)}}
  IN  Sound => ToSet(EdgePayloads(Gleaned)) = ToSet(EdgePayloads(p)) \cup joined

(* The final mention ids of a source are unique, and every edge of every    *)
(* split ends in final node mentions with the payloads it was extracted     *)
(* with, even if two splits have the same text and the same answer.         *)
FinalEdgesKeepPayloads ==
  Sound => \A sameText \in BOOLEAN :
    LET ms == Mentions2(sameText)
        Node(id) == ms[CHOOSE i \in DOMAIN ms : ms[i].id = id]
        legal(b) == Among(EdgePayloads(DropDangling(b, {})), Legal)
        edges == Among(ms, {m \in ToSet(ms) : m.ends # <<>>})
    IN  /\ \A i, j \in DOMAIN ms : ms[i].id = ms[j].id => i = j
        /\ \A i \in DOMAIN edges : \A k \in {1, 2} : \E j \in DOMAIN ms : ms[j].id = edges[i].ends[k]
        /\ [i \in DOMAIN edges |-> <<Node(edges[i].ends[1]).payload, Node(edges[i].ends[2]).payload>>]
             = legal(first) \o legal(second)

(* From the answer of the model to the mention ids of the source, through   *)
(* halves, gleaning and the splits of a document, an edge keeps its ends.   *)
EdgesKeepTheirEnds ==
  /\ MergedIdsUnique /\ HalvesKeepEdges
  /\ GleaningAddsNothingTwice /\ GleaningKeepsEdges
  /\ FinalEdgesKeepPayloads
=============================================================================
