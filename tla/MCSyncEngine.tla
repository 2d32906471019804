---------------------------- MODULE MCSyncEngine ----------------------------
(* One run of the engine's stream over many sources, and beside it the runs *)
(* that follow one another on one source of a Qdrant store, where a run may *)
(* be cancelled again while it cleans up.  The two share no state: part     *)
(* says which a behaviour is about.                                         *)
EXTENDS MCSyncStream, MCQdrantProductions

CONSTANTS w1, Blank, Absent, Unknown, NoCall

VARIABLES part, points, pc, seen, status, call, detached

Store ==
  INSTANCE QdrantStore
    WITH Writers <- {w1}, Sources <- {s1}, Ids <- {1, 2, 3}, Tokens <- {a, b},
         Bodies <- {x, y}, Productions <- FewProductions, UpsertBatch <- 1

storeVars == <<points, pc, seen, status, call, detached>>

Streaming == part = "stream"
Storing == part = "store"

EngineInit == part \in {"stream", "store"} /\ Init /\ Store!Init

EngineNext ==
  /\ \/ Streaming /\ Next /\ UNCHANGED storeVars
     \/ Storing /\ (Store!Next \/ Store!Recancel) /\ UNCHANGED vars
  /\ UNCHANGED part

(* The fairness of each module, in the behaviours that are about it. *)
EngineSpec ==
  /\ EngineInit /\ [][EngineNext]_<<vars, storeVars, part>>
  /\ WF_vars(Streaming /\ ConsumerStep)
  /\ \A t \in Ask : WF_vars(Streaming /\ TaskStep(t))
  /\ WF_storeVars(Storing /\ Store!Progress(w1))

(* "The next sync re-processes it", of a source that a write of a run       *)
(* cancelled twice has left blank: see QdrantStore.                         *)
Heals == Store!Heals
=============================================================================
