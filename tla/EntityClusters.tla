---------------------------- MODULE EntityClusters ----------------------------
(***************************************************************************)
(* EntityResolutionPipeline (extraction/resolution.py): mentions with the    *)
(* same identity text are clustered at once, then rounds of embedding,       *)
(* reviewing and merging make the clusters coarser until a round proposes    *)
(* no merge or the rounds are used up.                                       *)
(*                                                                           *)
(* The embedding is abstracted to any choice of at most TopK neighbours, the *)
(* LLM reviewer to any group per answer, with any confidence; it may name    *)
(* items twice, and items that do not exist.  Entities are the clusters      *)
(* of the last round: entity_id is a hash of the sorted member ids.          *)
(***************************************************************************)
EXTENDS Naturals, Sequences, FiniteSets, SequencesExt, SequenceOps

CONSTANTS
  Mentions,   \* the mentions of the store
  Identity,   \* the normalised identity text of each
  TopK,       \* settings.top_k
  MaxRounds   \* settings.max_iterations

ASSUME ClusterConstants ==
  /\ IsFiniteSet(Mentions)
  /\ Identity \in [Mentions -> Nat]
  /\ TopK \in Nat
  /\ MaxRounds \in Nat \ {0}

VARIABLES
  clusters,  \* the current clusters, each the set of its mentions
  merges,    \* the index pairs that the reviews of this round proposed
  pending,   \* the groups the reviewer was not sure of
  reviewed,  \* the index sets reviewed in this round
  at,        \* the cluster whose neighbours are looked at next
  round      \* the current round; 0 once the entities are written

clusterVars == <<clusters, merges, pending, reviewed, at, round>>

Indices == 1 .. Len(clusters)

SeedExact ==
  SetToSeq({{m \in Mentions : Identity[m] = k} : k \in {Identity[m] : m \in Mentions}})

ClustersInit ==
  /\ clusters = SeedExact
  /\ merges = <<>>
  /\ pending = {}
  /\ reviewed = {}
  /\ at = 1
  /\ round = 1

-----------------------------------------------------------------------------
(* Union-find over the proposed merges. *)

(* A turn of the loop of find: x is linked to its grandparent and moves     *)
(* there.  At a root, where the loop ends, it changes nothing.              *)
HalvePath(parent, x) ==
  LET up == parent[parent[x]] IN <<[parent EXCEPT ![x] = up], up>>

(* find: the parents afterwards, and the root.  No path is longer than the  *)
(* parents are many.                                                        *)
Find(parent, x) ==
  LET found[n \in 0 .. Len(parent)] ==
        IF n = 0 THEN <<parent, x>> ELSE HalvePath(found[n - 1][1], found[n - 1][2])
  IN  found[Len(parent)]

(* Mutated: the element itself is linked, not its root. *)
UnionElement(parent, edge) ==
  LET b == Find(parent, edge[2]) IN [b[1] EXCEPT ![edge[1]] = b[2]]

Union(parent, edge) ==
  LET b == Find(parent, edge[2])
      a == Find(b[1], edge[1])
  IN  [a[1] EXCEPT ![a[2]] = b[2]]

(* The parents after every edge. *)
Parents(cs, edges) ==
  LET parent[n \in 0 .. Len(edges)] ==
        IF n = 0 THEN [i \in DOMAIN cs |-> i] ELSE Union(parent[n - 1], edges[n])
  IN  parent[Len(edges)]

ApplyMerges(cs, edges) ==
  LET root == [i \in DOMAIN cs |-> Find(Parents(cs, edges), i)[2]]
  IN  SetToSeq({UNION {cs[j] : j \in {k \in DOMAIN cs : root[k] = r}} :
                  r \in {root[i] : i \in DOMAIN cs}})

(* The reference: the connected components of the graph of the edges. *)
Grown(S, edges) ==
  LET linked == {{edges[e][1], edges[e][2]} : e \in DOMAIN edges}
  IN  S \cup UNION {l \in linked : l \cap S # {}}

Reached(cs, edges) ==
  LET within[n \in 0 .. Len(cs)] ==
        [i \in DOMAIN cs |-> IF n = 0 THEN {i} ELSE Grown(within[n - 1][i], edges)]
  IN  within[Len(cs)]

ConnectedComponents(cs, edges) ==
  LET reached == Reached(cs, edges)
  IN  {UNION {cs[j] : j \in reached[i]} : i \in DOMAIN cs}

-----------------------------------------------------------------------------
(* A round. *)

Neighbourhoods == {N \in SUBSET (Indices \ {at}) : Cardinality(N) <= TopK}

(* A group of the reviewer's answer, by positions in the reviewed list; those *)
(* past its end are dropped, and one member alone means nothing.              *)
Named(group, answer) ==
  LET named == Among(answer, DOMAIN group)
  IN  IF Len(named) < 2 THEN <<>> ELSE [k \in DOMAIN named |-> group[named[k]]]

(* Every other member is paired with the first. *)
Pairs(named) == [k \in 1 .. Len(named) - 1 |-> <<named[1], named[k + 1]>>]

ReviewCluster ==
  /\ round > 0
  /\ at \in Indices
  /\ Len(clusters) >= 2
  /\ \E N \in Neighbourhoods :
       LET group == <<at>> \o SetToSeq(N)
       IN  IF N = {} \/ ToSet(group) \in reviewed
           THEN UNCHANGED <<merges, pending, reviewed>>
           ELSE \E answer \in BoundedSeq(1 .. Len(group) + 1, Len(group)), sure \in BOOLEAN :
                  LET named == Named(group, answer)
                  IN  /\ reviewed' = reviewed \cup {ToSet(group)}
                      /\ merges' = IF sure /\ named # <<>> THEN merges \o Pairs(named) ELSE merges
                      /\ pending' = IF sure \/ named = <<>> THEN pending
                                    ELSE pending \cup {{clusters[i] : i \in ToSet(named)}}
  /\ at' = at + 1
  /\ UNCHANGED <<clusters, round>>

RoundReviewed == round > 0 /\ (at > Len(clusters) \/ Len(clusters) < 2)

Merge ==
  /\ RoundReviewed
  /\ merges # <<>>
  /\ clusters' = ApplyMerges(clusters, merges)
  /\ merges' = <<>>
  /\ reviewed' = {}
  /\ at' = 1
  /\ round' = IF round = MaxRounds THEN 0 ELSE round + 1
  /\ UNCHANGED pending

Converge ==
  /\ RoundReviewed
  /\ merges = <<>>
  /\ round' = 0
  /\ UNCHANGED <<clusters, merges, pending, reviewed, at>>

ClustersNext == ReviewCluster \/ Merge \/ Converge

ClustersSpec == ClustersInit /\ [][ClustersNext]_clusterVars

-----------------------------------------------------------------------------
(* Properties. *)

(* Every mention is in exactly one cluster in every round, so that every    *)
(* mention of the store ends in exactly one entity.                         *)
OneClusterPerMention ==
  \A m \in Mentions : Cardinality({i \in Indices : m \in clusters[i]}) = 1

(* The merge of a round gives the connected components of what its reviews  *)
(* proposed: a chain of groups is joined, and nothing else is.              *)
MergesAreComponents ==
  ToSet(ApplyMerges(clusters, merges)) = ConnectedComponents(clusters, merges)

(* Whatever the reviews answer, and however their answers overlap, the      *)
(* clusters of every round partition the mentions, and a round joins what   *)
(* its reviews connect, directly or by a chain, and nothing else            *)
(* (_apply_merges, the union-find of EntityResolutionPipeline).             *)
ClustersAreComponents == OneClusterPerMention /\ MergesAreComponents
=============================================================================
