--------------------------- MODULE GraphResolution ---------------------------
(***************************************************************************)
(* KnowledgeGraphResolutionPipeline (extraction/kg_resolution.py) writing a *)
(* node store and an edge store, entity by entity, while the mention store  *)
(* it reads is synced by another process, and runs are killed.              *)
(*                                                                          *)
(* The clustering of the node mentions of a type is any partition of them   *)
(* (module EntityClusters).  An entity_id is a hash of the member mention ids: here *)
(* the set of the members.  Edges are promoted one to one, the default.     *)
(*                                                                          *)
(* inPlace: the stores are LocalEntityStore (extraction/entity.py), whose   *)
(* write_text truncates a file before it writes it, so that a killed run    *)
(* may leave one that cannot be read.  Otherwise a write is atomic, as the  *)
(* upsert of a Qdrant point is.                                             *)
(*                                                                          *)
(* Between runs the sources of the graph are deleted (delete_by_source),    *)
(* the nodes and then the edges, and that may stop half way.  Runs and      *)
(* deletions are those of one caller, one after the other.                  *)
(***************************************************************************)
EXTENDS Naturals, FiniteSets

CONSTANTS
  Nodes,     \* node mentions
  Edges,     \* edge mentions
  Source,    \* the source of each mention
  Type,      \* the node or edge type of each mention
  Ends,      \* the two node mentions of an edge mention, of its own source
  InPlace,   \* the values of inPlace to start from
  MaxSyncs,  \* bound: changes of the mention store
  MaxKills   \* bound: killed runs

ASSUME GraphConstants ==
  /\ IsFiniteSet(Nodes) /\ IsFiniteSet(Edges)
  /\ \A e \in Edges : \A k \in {1, 2} : Ends[e][k] \in Nodes /\ Source[Ends[e][k]] = Source[e]
  /\ InPlace \subseteq BOOLEAN
  /\ MaxSyncs \in Nat /\ MaxKills \in Nat

Kinds == {"node", "edge"}

VARIABLES
  mentioned,  \* the sources whose mentions are in the mention store
  entities,   \* the entities of each store
  resolving,  \* what the resolution does: idle, reading, or writing a store
  unread,     \* the types whose mentions are still to be listed
  listed,     \* whether that store has been listed
  plan,       \* the entities resolved for each store
  todo,       \* those still to be upserted
  stale,      \* ids listed before the upsert that the plan does not hold
  orphans,    \* edge mentions whose endpoints did not resolve
  outcome,    \* of the latest run
  moved,      \* whether the mentions changed since the run began
  drop,       \* the source and the store a deletion is at, <<>> outside one
  unfinished, \* history: sources whose deletion began and neither it, a later
              \* one of that source, nor a run has come to its end
  syncs, kills,
  inPlace     \* whether the writes of the stores can be torn; never changes

dropVars == <<drop, unfinished>>

runVars == <<resolving, unread, listed, plan, todo, stale, orphans, outcome>>

graphVars == <<mentioned, entities, runVars, moved, dropVars, syncs, kills, inPlace>>

(* [id, ends, readable]; the ends of an edge are node entity ids. *)
Entity(id, ends) == [id |-> id, ends |-> ends, readable |-> TRUE]

Ids(es) == {e.id : e \in es}

Present(mentions) == {m \in mentions : Source[m] \in mentioned}

(* list_mentions(t) *)
OfType(t, mentions) == {m \in Present(mentions) : Type[m] = t}

NodeSources == {Source[m] : m \in Nodes}

Nothing == [k \in Kinds |-> {}]

GraphInit ==
  /\ mentioned \in SUBSET NodeSources
  /\ entities = Nothing
  /\ resolving = "idle"
  /\ unread = {}
  /\ listed = FALSE
  /\ plan = Nothing
  /\ todo = {} /\ stale = {} /\ orphans = {}
  /\ outcome = "none"
  /\ moved = FALSE
  /\ drop = <<>> /\ unfinished = {}
  /\ syncs = 0 /\ kills = 0
  /\ inPlace \in InPlace

(* The mention store drops a source, or extracts it again. *)
SyncMentions ==
  /\ syncs < MaxSyncs
  /\ \E s \in NodeSources :
       mentioned' = IF s \in mentioned THEN mentioned \ {s} ELSE mentioned \cup {s}
  /\ moved' = TRUE
  /\ syncs' = syncs + 1
  /\ UNCHANGED <<entities, runVars, dropVars, kills, inPlace>>

-----------------------------------------------------------------------------
(* resolve: phases 1 and 2, one listing per type. *)

BeginRun ==
  /\ resolving = "idle" /\ drop = <<>>
  /\ resolving' = "nodes"
  /\ unread' = {Type[m] : m \in Nodes}
  /\ plan' = Nothing
  /\ orphans' = {}
  /\ outcome' = "running"
  /\ moved' = FALSE
  /\ UNCHANGED <<mentioned, entities, listed, todo, stale, dropVars, syncs, kills, inPlace>>

Partitions(S) ==
  {P \in SUBSET ((SUBSET S) \ {{}}) : UNION P = S /\ \A A, B \in P : A = B \/ A \cap B = {}}

(* list_mentions(node_type), and the clustering of what it returned. *)
ResolveNodes ==
  /\ resolving = "nodes"
  /\ \E t \in unread :
       /\ \E P \in Partitions(OfType(t, Nodes)) :
            plan' = [plan EXCEPT !["node"] = @ \cup {Entity(c, <<>>) : c \in P}]
       /\ unread' = unread \ {t}
  /\ UNCHANGED <<mentioned, entities, resolving, listed, todo, stale, orphans, outcome, moved,
                 dropVars, syncs, kills, inPlace>>

NodesRead ==
  /\ resolving = "nodes" /\ unread = {}
  /\ resolving' = "edges"
  /\ unread' = {Type[e] : e \in Edges}
  /\ UNCHANGED <<mentioned, entities, listed, plan, todo, stale, orphans, outcome, moved,
                 dropVars, syncs, kills, inPlace>>

(* node_entity_map *)
EntityOf(m) == CHOOSE c \in Ids(plan["node"]) : m \in c

Resolvable(e) == \A k \in {1, 2} : Ends[e][k] \in UNION Ids(plan["node"])

Rewritten(m) == IF m \in UNION Ids(plan["node"]) THEN EntityOf(m) ELSE {m}

Promoted(e) == Entity({e}, <<Rewritten(Ends[e][1]), Rewritten(Ends[e][2])>>)

(* list_mentions(edge_type), and the rewriting of what it returned. *)
ResolveEdges ==
  /\ resolving = "edges"
  /\ \E t \in unread :
       /\ plan' = [plan EXCEPT !["edge"] =
                     @ \cup {Promoted(e) : e \in {d \in OfType(t, Edges) : Resolvable(d)}}]
       /\ orphans' = orphans \cup {e \in OfType(t, Edges) : ~Resolvable(e)}
       /\ unread' = unread \ {t}
  /\ UNCHANGED <<mentioned, entities, resolving, listed, todo, stale, outcome, moved, dropVars,
                 syncs, kills, inPlace>>

EdgesRead ==
  /\ resolving = "edges" /\ unread = {}
  /\ resolving' = "node"
  /\ UNCHANGED <<mentioned, entities, unread, listed, plan, todo, stale, orphans, outcome, moved,
                 dropVars, syncs, kills, inPlace>>

-----------------------------------------------------------------------------
(* Phase 3: _write_entity_store, for the nodes and then for the edges. *)

Writing == resolving \in Kinds

Store == entities[resolving]

Readable == \A e \in Store : e.readable

(* Mutated: what is stale is read off the plan, not the store. *)
StaleNever == {}

Stale == Ids(Store) \ Ids(plan[resolving])

ListEntities ==
  /\ Writing /\ ~listed /\ Readable
  /\ listed' = TRUE
  /\ todo' = plan[resolving]
  /\ stale' = Stale
  /\ UNCHANGED <<mentioned, entities, resolving, unread, plan, orphans, outcome, moved, dropVars,
                 syncs, kills, inPlace>>

(* A file that cannot be parsed raises out of list_entities and resolve. *)
ListingFails ==
  /\ Writing /\ ~listed /\ ~Readable
  /\ resolving' = "idle"
  /\ outcome' = "failed"
  /\ UNCHANGED <<mentioned, entities, unread, listed, plan, todo, stale, orphans, moved, dropVars,
                 syncs, kills, inPlace>>

Replaced(e) == {d \in Store : d.id # e.id} \cup {e}

UpsertEntity ==
  /\ Writing /\ listed
  /\ \E e \in todo :
       /\ entities' = [entities EXCEPT ![resolving] = Replaced(e)]
       /\ todo' = todo \ {e}
  /\ UNCHANGED <<mentioned, resolving, unread, listed, plan, stale, orphans, outcome, moved,
                 dropVars, syncs, kills, inPlace>>

(* Mutated: stale entities may go before the new ones are there. *)
MayDeleteFirst == Writing /\ listed

MayDelete == Writing /\ listed /\ todo = {}

DeleteStaleEntity ==
  /\ MayDelete
  /\ \E id \in stale :
       /\ entities' = [entities EXCEPT ![resolving] = {e \in @ : e.id # id}]
       /\ stale' = stale \ {id}
  /\ UNCHANGED <<mentioned, resolving, unread, listed, plan, todo, orphans, outcome, moved,
                 dropVars, syncs, kills, inPlace>>

StoreWritten ==
  /\ Writing /\ listed /\ todo = {} /\ stale = {}
  /\ resolving' = IF resolving = "node" THEN "edge" ELSE "idle"
  /\ outcome' = IF resolving = "node" THEN outcome ELSE "ok"
  /\ unfinished' = IF resolving = "node" THEN unfinished ELSE {}
  /\ listed' = FALSE
  /\ UNCHANGED <<mentioned, entities, unread, plan, todo, stale, orphans, moved, drop, syncs,
                 kills, inPlace>>

(* A file rewritten in place may be left half-written; a point may not. *)
Tears == inPlace

(* The process is killed, or a request raises; a write may be half done. *)
Kill ==
  /\ resolving # "idle"
  /\ kills < MaxKills
  /\ kills' = kills + 1
  /\ \/ UNCHANGED entities
     \/ \E e \in todo :
          /\ Tears
          /\ entities' = [entities EXCEPT ![resolving] = Replaced([e EXCEPT !.readable = FALSE])]
  /\ resolving' = "idle"
  /\ listed' = FALSE
  /\ todo' = {} /\ stale' = {}
  /\ outcome' = "killed"
  /\ unread' = {}
  /\ UNCHANGED <<mentioned, plan, orphans, moved, dropVars, syncs, inPlace>>

-----------------------------------------------------------------------------
(* delete_by_source of a graph store. *)

(* source_ids == [source_id] *)
SoleSource(s, e) == {Source[m] : m \in e.id} = {s}

(* One that finds nothing to delete changes nothing. *)
BeginDrop ==
  /\ resolving = "idle" /\ drop = <<>>
  /\ \E s \in NodeSources :
       /\ \E k \in Kinds : \E e \in entities[k] : SoleSource(s, e)
       /\ drop' = <<s, "node">>
       /\ unfinished' = unfinished \cup {s}
  /\ UNCHANGED <<mentioned, entities, runVars, moved, syncs, kills, inPlace>>

Dropping == drop # <<>>

DropStore == entities[drop[2]]

Doomed == {e \in DropStore : SoleSource(drop[1], e)}

(* File after file is read and unlinked; a Qdrant collection is scrolled and *)
(* its points deleted in one request.                                        *)
DropEntities ==
  /\ Dropping
  /\ \E gone \in SUBSET Doomed :
       /\ gone # {} /\ \A e \in gone : e.readable
       /\ IF inPlace THEN Cardinality(gone) = 1 ELSE gone = Doomed
       /\ entities' = [entities EXCEPT ![drop[2]] = @ \ gone]
  /\ UNCHANGED <<mentioned, runVars, moved, dropVars, syncs, kills, inPlace>>

StoreDropped ==
  /\ Dropping /\ Doomed = {} /\ \A e \in DropStore : e.readable
  /\ IF drop[2] = "node"
       THEN drop' = <<drop[1], "edge">> /\ UNCHANGED unfinished
       ELSE drop' = <<>> /\ unfinished' = unfinished \ {drop[1]}
  /\ UNCHANGED <<mentioned, entities, runVars, moved, syncs, kills, inPlace>>

(* A file that cannot be parsed raises, the files before it are gone. *)
DropFails ==
  /\ Dropping /\ \E e \in DropStore : ~e.readable
  /\ drop' = <<>>
  /\ UNCHANGED <<mentioned, entities, runVars, moved, unfinished, syncs, kills, inPlace>>

(* The process is killed, or a request raises, having deleted or not. *)
KillDrop ==
  /\ Dropping
  /\ kills < MaxKills
  /\ kills' = kills + 1
  /\ drop' = <<>>
  /\ UNCHANGED <<mentioned, entities, runVars, moved, unfinished, syncs, inPlace>>

ResolveStep ==
  BeginRun \/ ResolveNodes \/ NodesRead \/ ResolveEdges \/ EdgesRead \/ ListEntities
    \/ ListingFails \/ UpsertEntity \/ DeleteStaleEntity \/ StoreWritten

DropStep == DropEntities \/ StoreDropped \/ DropFails

GraphNext == ResolveStep \/ DropStep \/ SyncMentions \/ Kill \/ BeginDrop \/ KillDrop

(* Someone runs the resolution again and again; runs and deletions go on. *)
GraphSpec == GraphInit /\ [][GraphNext]_graphVars /\ WF_graphVars(ResolveStep \/ DropStep)

-----------------------------------------------------------------------------
(* Reading the graph. *)

Settled == resolving = "idle" /\ outcome = "ok"

Stored(e) == \A k \in {1, 2} : e.ends[k] \in Ids(entities["node"])

(* After a run that completed, whatever earlier runs left half-written and  *)
(* whatever sources were deleted since, every edge ends in stored entities  *)
(* that hold the mentions it was extracted with: neighbors misses nothing.  *)
(* Only a deletion that did not come to its end leaves edges without their  *)
(* ends, those that come from its source alone, until a deletion of that    *)
(* source or a run does.                                                    *)
GraphIsClosed ==
  Settled => \A e \in entities["edge"] :
    /\ \A m \in e.id : \A k \in {1, 2} : Ends[m][k] \in e.ends[k]
    /\ Stored(e) \/ \E s \in unfinished : SoleSource(s, e)

(* After a run that completed no mention is in two node entities, even if an *)
(* earlier run died between its upserts and its deletes.                     *)
OneEntityPerMention ==
  Settled => \A a, b \in Ids(entities["node"]) : a = b \/ a \cap b = {}

(* An edge is an orphan only if the mentions were synced between two of the  *)
(* listings of the run.                                                      *)
OrphansMeanMovement == resolving # "idle" /\ ~moved => orphans = {}

(* While a run replaces the entities, no mention that it resolved disappears *)
(* from the node store, not even for a moment, unless a write is torn.       *)
MentionsStayCovered ==
  [][Writing /\ (\A e \in entities'["node"] : e.readable) =>
       (UNION Ids(entities["node"])) \cap (UNION Ids(plan["node"]))
         \subseteq UNION Ids(entities'["node"])]_graphVars

(* "The EntityStore is derived: it is fully re-creatable from the           *)
(* MentionStore by re-running resolution" (entity.py): once runs are no     *)
(* longer killed, resolutions complete again.                               *)
Recreatable == []<>Settled

(* The same for stores whose writes are atomic. *)
AtomicStoresRecreate == ~inPlace => Recreatable

(* What the graph promises between runs, whichever runs and deletions died    *)
(* on the way.                                                                *)
GraphIsConsistent == GraphIsClosed /\ OneEntityPerMention /\ OrphansMeanMovement

(* The entity stores are derived from the mentions: a run takes nothing away *)
(* before its replacement is there, and runs can always be repeated to an    *)
(* end, unless a write in place was torn.                                    *)
EntitiesAreDerived == MentionsStayCovered /\ AtomicStoresRecreate
=============================================================================
