----------------------------- MODULE QdrantStore -----------------------------
(***************************************************************************)
(* The Qdrant stores' write protocol (integrations/_qdrant_base.py), as     *)
(* SyncEngine.run drives it (pipeline/sync.py).                             *)
(*                                                                          *)
(* Qdrant has no multi-request transactions.  A source's points carry the   *)
(* pair of hashes change detection compares, and a write of several         *)
(* requests is made detectable: points go in with blank hashes, the stale   *)
(* ones are deleted, and one last request stamps the real hashes.           *)
(*                                                                          *)
(* Every request is atomic on the server (Qdrant applies one request as a   *)
(* whole, in arrival order), but the client may never learn that it was:    *)
(* a failed or cancelled request may or may not have been applied.          *)
(***************************************************************************)
EXTENDS Naturals, FiniteSets

CONSTANTS
  Writers,       \* processes that run SyncEngine.run on the collection
  Sources,       \* source ids
  Ids,           \* point ids one source can use
  Tokens,        \* (source_hash, content_hash) pairs, one value per pair
  Bodies,        \* what else a point carries: text, metadata, vectors
  Productions,   \* what the producer can return for a source
  UpsertBatch,   \* _UPSERT_BATCH
  Blank,         \* the blank pair ("", None)
  Absent,        \* no point under this id
  Unknown,       \* list_source_state does not list the source
  NoCall         \* the writer is between two store calls

Point == [tok : Tokens \cup {Blank}, body : Bodies]

(* The points of one source: a point or nothing under each id. *)
Content == [Ids -> Point \cup {Absent}]

(* What a producer returns: a list of chunks with distinct ids. *)
Production ==
  [tok : Tokens, chunk : UNION {[ids -> Bodies] : ids \in SUBSET Ids}]

ASSUME ConstantsOK ==
  /\ IsFiniteSet(Ids)
  /\ UpsertBatch \in Nat \ {0}
  /\ Productions \subseteq Production
  /\ Blank \notin Tokens
  /\ Unknown \notin Tokens \cup {Blank}
  /\ Absent \notin Point

VARIABLES
  points,    \* the collection: Sources -> Content
  pc,        \* the request each writer is about to have answered
  seen,      \* the snapshot each run took with list_source_state
  status,    \* each run's outcome per source (UpdateResult)
  call,      \* the locals of the store call in progress
  detached   \* shielded rollbacks whose caller was cancelled a second time

vars == <<points, pc, seen, status, call, detached>>

-----------------------------------------------------------------------------
(* What one request does to the content c of a source. *)

Empty == [i \in Ids |-> Absent]

Present(c) == {i \in Ids : c[i] # Absent}

(* upsert of the points ids of production p, with hashes t *)
Upsert(c, p, ids, t) ==
  [i \in Ids |-> IF i \in ids THEN [tok |-> t, body |-> p.chunk[i]] ELSE c[i]]

(* delete by point id *)
Remove(c, ids) == [i \in Ids |-> IF i \in ids THEN Absent ELSE c[i]]

(* set_payload of the hashes t on those of the ids that exist *)
Stamp(c, ids, t) ==
  [i \in Ids |-> IF i \in ids /\ c[i] # Absent
                 THEN [tok |-> t, body |-> c[i].body] ELSE c[i]]

(* Every point agrees on the hashes t. *)
Uniform(c, t) == Present(c) # {} /\ \A i \in Present(c) : c[i].tok = t

(* What list_source_state reports for content c.  A source whose points     *)
(* disagree is reported blank, and blank reads as "always changed".         *)
SourceState(c) ==
  IF Present(c) = {} THEN Unknown
  ELSE IF \E t \in Tokens : Uniform(c, t)
       THEN CHOOSE t \in Tokens : Uniform(c, t)
       ELSE Blank

(* The points of c are exactly the chunks of production p. *)
Complete(c, p) ==
  /\ Present(c) = DOMAIN p.chunk
  /\ \A i \in Present(c) : c[i].body = p.chunk[i]

Multi(ids) == Cardinality(ids) > UpsertBatch

(* The batches that can come next.  The order of the points in the list is  *)
(* immaterial: any UpsertBatch of those left may be the next ones.          *)
Batches(left) ==
  {b \in (SUBSET left) \ {{}} :
     Cardinality(b) = IF Multi(left) THEN UpsertBatch ELSE Cardinality(left)}

-----------------------------------------------------------------------------
NoItems == [tok |-> Blank, chunk |-> [i \in {} |-> Absent]]

Call == [src : Sources, prod : Productions \cup {NoItems}, new : BOOLEAN,
         left : SUBSET Ids,     \* points not sent yet
         sent : SUBSET Ids,     \* `sent`: ids of the batches sent, landed or not
         pre : SUBSET Ids,      \* `preexisting`
         old : Content]         \* history: the points when the call began

Phases == {"idle", "running", "retrieve", "upsert", "batch", "stale", "stamp",
           "delete", "rollback", "shielded"}

(* "unavailable" is a source listed in `skipped` for want of a payload. *)
Statuses == {"none", "pending", "writing", "processed", "skipped", "unavailable",
             "deleted", "error"}

TypeOK ==
  /\ points \in [Sources -> Content]
  /\ pc \in [Writers -> Phases]
  /\ seen \in [Writers -> [Sources -> Tokens \cup {Blank, Unknown}]]
  /\ status \in [Writers -> [Sources -> Statuses]]
  /\ call \in [Writers -> Call \cup {NoCall}]
  /\ detached \in SUBSET [src : Sources, ids : SUBSET Ids]

Init ==
  /\ points = [s \in Sources |-> Empty]
  /\ pc = [w \in Writers |-> "idle"]
  /\ seen = [w \in Writers |-> [s \in Sources |-> Unknown]]
  /\ status = [w \in Writers |-> [s \in Sources |-> "none"]]
  /\ call = [w \in Writers |-> NoCall]
  /\ detached = {}

-----------------------------------------------------------------------------
(* Control of a run. *)

Goto(w, phase) == pc' = [pc EXCEPT ![w] = phase]

Report(w, s, outcome) == status' = [status EXCEPT ![w][s] = outcome]

Became(w, content) == points' = [points EXCEPT ![call[w].src] = content]

(* The store call is over; the run goes on with its next source. *)
Return(w, outcome) ==
  /\ Goto(w, "running")
  /\ Report(w, call[w].src, outcome)
  /\ call' = [call EXCEPT ![w] = NoCall]
  /\ UNCHANGED seen

(* The run is over without a result: cancelled, or its process died. *)
Halt(w) ==
  /\ Goto(w, "idle")
  /\ status' = [status EXCEPT ![w] = [s \in Sources |-> "none"]]
  /\ seen' = [seen EXCEPT ![w] = [s \in Sources |-> Unknown]]
  /\ call' = [call EXCEPT ![w] = NoCall]

(* A run starts: one list_source_state before anything is evaluated. *)
StartRun(w) ==
  /\ pc[w] = "idle"
  /\ Goto(w, "running")
  /\ status' = [status EXCEPT ![w] = [s \in Sources |-> "pending"]]
  /\ seen' = [seen EXCEPT ![w] = [s \in Sources |-> SourceState(points[s])]]
  /\ UNCHANGED <<points, call, detached>>

Pending(w, s) == pc[w] = "running" /\ status[w][s] = "pending"

(* Mutated: a blank stored token counts as unchanged. *)
SkipBlankToo(w, s) ==
  /\ Pending(w, s)
  /\ seen[w][s] \in Tokens \cup {Blank}
  /\ Report(w, s, "skipped")
  /\ UNCHANGED <<points, pc, seen, call, detached>>

(* The stored token equals the current one: not even produced. *)
SkipUnchanged(w, s) ==
  /\ Pending(w, s)
  /\ seen[w][s] \in Tokens
  /\ Report(w, s, "skipped")
  /\ UNCHANGED <<points, pc, seen, call, detached>>

(* The producer raised or had nothing, or embedding failed: no store call. *)
Unproduced(w, s) ==
  /\ Pending(w, s)
  /\ \E outcome \in {"unavailable", "error"} : Report(w, s, outcome)
  /\ UNCHANGED <<points, pc, seen, call, detached>>

(* A new source that yields no items: nothing to write. *)
NothingToWrite(w, s) ==
  /\ Pending(w, s)
  /\ seen[w][s] = Unknown
  /\ \E p \in Productions : DOMAIN p.chunk = {}
  /\ Report(w, s, "processed")
  /\ UNCHANGED <<points, pc, seen, call, detached>>

OpenCall(w, s, p, phase) ==
  /\ Goto(w, phase)
  /\ Report(w, s, "writing")
  /\ call' = [call EXCEPT ![w] =
                [src |-> s, prod |-> p, new |-> seen[w][s] = Unknown,
                 left |-> DOMAIN p.chunk, sent |-> {}, pre |-> {},
                 old |-> points[s]]]
  /\ UNCHANGED <<points, seen, detached>>

(* A new source fits one request: it carries its hashes from the start. *)
BeginUpsert(w, s, p) ==
  /\ Pending(w, s)
  /\ seen[w][s] = Unknown
  /\ DOMAIN p.chunk # {}
  /\ ~Multi(DOMAIN p.chunk)
  /\ OpenCall(w, s, p, "upsert")

(* Every other write with items is two-phase; one of several batches first  *)
(* asks which of its ids exist.                                             *)
BeginTwoPhase(w, s, p) ==
  /\ Pending(w, s)
  /\ p.tok # seen[w][s]
  /\ DOMAIN p.chunk # {}
  /\ seen[w][s] # Unknown \/ Multi(DOMAIN p.chunk)
  /\ OpenCall(w, s, p, IF Multi(DOMAIN p.chunk) THEN "retrieve" ELSE "batch")

(* A stored source that now yields no items, or an orphan. *)
BeginDelete(w, s) ==
  /\ Pending(w, s)
  /\ seen[w][s] # Unknown
  /\ OpenCall(w, s, NoItems, "delete")

EndRun(w) ==
  /\ pc[w] = "running"
  /\ \A s \in Sources : status[w][s] # "pending"
  /\ Goto(w, "idle")
  /\ seen' = [seen EXCEPT ![w] = [s \in Sources |-> Unknown]]
  /\ UNCHANGED <<points, status, call, detached>>

-----------------------------------------------------------------------------
(* The store call in progress. *)

Src(w) == call[w].src
Chunk(w) == call[w].prod.chunk

(* Mutated: the rollback deletes every id that was sent. *)
CreatedIsSent(w) == call[w].sent

Created(w) == call[w].sent \ call[w].pre

(* Mutated: batches carry their hashes; the stale points stay. *)
AfterHashedBatch(w, b) == Upsert(points[Src(w)], call[w].prod, b, call[w].prod.tok)
AfterNoStale(w) == points[Src(w)]

(* What the source holds once the request being waited for is applied. *)
AfterBatch(w, b) == Upsert(points[Src(w)], call[w].prod, b, Blank)
AfterUpsert(w) == Upsert(points[Src(w)], call[w].prod, DOMAIN Chunk(w), call[w].prod.tok)
AfterStale(w) == Remove(points[Src(w)], Ids \ DOMAIN Chunk(w))
AfterStamp(w) == Stamp(points[Src(w)], DOMAIN Chunk(w), call[w].prod.tok)
AfterRollback(w) == Remove(points[Src(w)], Created(w))

(* The contents the source can be left with when the answer never comes: the *)
(* request was applied, or it was not.                                       *)
Outcomes(w) ==
  {points[Src(w)]} \cup
  CASE pc[w] = "batch"    -> {AfterBatch(w, b) : b \in Batches(call[w].left)}
    [] pc[w] = "upsert"   -> {AfterUpsert(w)}
    [] pc[w] = "stale"    -> {AfterStale(w)}
    [] pc[w] = "stamp"    -> {AfterStamp(w)}
    [] pc[w] = "delete"   -> {Empty}
    [] pc[w] \in {"rollback", "shielded"} -> {AfterRollback(w)}
    [] OTHER -> {}

RetrieveExisting(w) ==
  /\ pc[w] = "retrieve"
  /\ call' = [call EXCEPT ![w].pre = Present(points[Src(w)]) \cap call[w].left]
  /\ Goto(w, "batch")
  /\ UNCHANGED <<points, seen, status, detached>>

(* The batch is recorded as sent before its request is made. *)
SendBatch(w, b) ==
  call' = [call EXCEPT ![w].sent = @ \cup b, ![w].left = @ \ b]

(* A new source has nothing stale: its call is _batched_upsert, not a       *)
(* replace_source.                                                          *)
BatchLands(w) ==
  /\ pc[w] = "batch"
  /\ \E b \in Batches(call[w].left) :
       /\ SendBatch(w, b)
       /\ Became(w, AfterBatch(w, b))
       /\ Goto(w, IF b # call[w].left THEN "batch"
                  ELSE IF call[w].new THEN "stamp" ELSE "stale")
  /\ UNCHANGED <<seen, status, detached>>

(* A batch of several raises or is cancelled: its points are removed again, *)
(* shielded if it was cancelled.                                            *)
BatchFails(w) ==
  /\ pc[w] = "batch"
  /\ Multi(DOMAIN Chunk(w))
  /\ \E b \in Batches(call[w].left) :
       /\ SendBatch(w, b)
       /\ points' = points \/ Became(w, AfterBatch(w, b))
  /\ Goto(w, "rollback") \/ Goto(w, "shielded")
  /\ UNCHANGED <<seen, status, detached>>

(* Best effort: a rollback that fails is logged, and either way the error   *)
(* or the cancellation is raised again.                                     *)
Rollback(w) ==
  /\ pc[w] \in {"rollback", "shielded"}
  /\ points' = points \/ Became(w, AfterRollback(w))
  /\ \/ pc[w] = "rollback" /\ Return(w, "error")
     \/ pc[w] = "shielded" /\ Halt(w)
  /\ UNCHANGED detached

(* A second cancellation ends the wait for the shielded rollback, not the   *)
(* rollback itself.  Bound: one such rollback outlives its run at a time.   *)
Recancelled(w) ==
  /\ detached = {}
  /\ pc[w] = "shielded"
  /\ detached' = detached \cup {[src |-> Src(w), ids |-> Created(w)]}
  /\ Halt(w)
  /\ UNCHANGED points

DetachedRollback(d) ==
  /\ points' = [points EXCEPT ![d.src] = Remove(@, d.ids)]
  /\ detached' = detached \ {d}
  /\ UNCHANGED <<pc, seen, status, call>>

(* The points of the source that are not in the new list are deleted. *)
DeleteStale(w) ==
  /\ pc[w] = "stale"
  /\ Became(w, AfterStale(w))
  /\ Goto(w, "stamp")
  /\ UNCHANGED <<seen, status, call, detached>>

StampHashes(w) ==
  /\ pc[w] = "stamp"
  /\ Became(w, AfterStamp(w))
  /\ Return(w, "processed")
  /\ UNCHANGED detached

UpsertLands(w) ==
  /\ pc[w] = "upsert"
  /\ Became(w, AfterUpsert(w))
  /\ Return(w, "processed")
  /\ UNCHANGED detached

DeleteSource(w) ==
  /\ pc[w] = "delete"
  /\ Became(w, Empty)
  /\ Return(w, "deleted")
  /\ UNCHANGED detached

(* A request without cleanup raises an Exception: the error is collected. *)
RequestFails(w) ==
  /\ \/ pc[w] \in {"retrieve", "upsert", "stale", "stamp", "delete"}
     \/ pc[w] = "batch" /\ ~Multi(DOMAIN Chunk(w))
  /\ \E content \in Outcomes(w) : Became(w, content)
  /\ Return(w, "error")
  /\ UNCHANGED detached

(* The run is cancelled where nothing is cleaned up, or its process dies. *)
Abort(w) ==
  /\ pc[w] # "idle"
  /\ IF pc[w] = "running" THEN UNCHANGED points
     ELSE \E content \in Outcomes(w) : Became(w, content)
  /\ Halt(w)
  /\ UNCHANGED detached

-----------------------------------------------------------------------------
(* The steps of a run in which nothing goes wrong. *)
Progress(w) ==
  \/ StartRun(w)
  \/ \E s \in Sources :
       \/ SkipUnchanged(w, s)
       \/ NothingToWrite(w, s)
       \/ BeginDelete(w, s)
       \/ \E p \in Productions : BeginUpsert(w, s, p) \/ BeginTwoPhase(w, s, p)
  \/ RetrieveExisting(w)
  \/ BatchLands(w)
  \/ DeleteStale(w)
  \/ StampHashes(w)
  \/ UpsertLands(w)
  \/ DeleteSource(w)
  \/ Rollback(w)
  \/ EndRun(w)

Fault(w) ==
  \/ \E s \in Sources : Unproduced(w, s)
  \/ BatchFails(w)
  \/ RequestFails(w)
  \/ Abort(w)

Next == \E w \in Writers : Progress(w) \/ Fault(w)

Spec == Init /\ [][Next]_vars

(* A run may also be cancelled again while it cleans up. *)
Recancel ==
  \/ \E w \in Writers : Recancelled(w)
  \/ \E d \in detached : DetachedRollback(d)

RecancelSpec == Init /\ [][Next \/ Recancel]_vars

(* Runs are started again and again, and the event loop lets every awaited  *)
(* request be answered.                                                     *)
FairSpec == Spec /\ \A w \in Writers : WF_vars(Progress(w))

-----------------------------------------------------------------------------
(* The docstring of _list_source_state: a partially written source never    *)
(* looks "unchanged".  A source that reports hashes t holds exactly the     *)
(* chunks of one production under t, whatever failed or crashed before.     *)
NeverLooksUnchanged ==
  \A s \in Sources, t \in Tokens :
    Uniform(points[s], t) =>
      \E p \in Productions : p.tok = t /\ Complete(points[s], p)

(* What UpdateResult.processed tells the caller: the source's chunks are    *)
(* all in place under their hashes when its call returns, so that the next  *)
(* run can skip it.                                                         *)
ProcessedIsStamped ==
  \A w \in Writers, s \in Sources :
    status[w][s] = "processed" => SourceState(points[s]) # Blank

Lost(s) == Present(points[s]) \ Present(points'[s])

(* replace_source: "the old points stay in place until every new point has  *)
(* landed".  No step of a write removes a point that was there before the   *)
(* call unless all the new points are there.                                *)
OldStaysUntilNewLanded ==
  [][\A w \in Writers :
       pc[w] \in {"retrieve", "upsert", "batch", "stale", "stamp", "rollback", "shielded"} =>
         \/ Lost(Src(w)) \cap Present(call[w].old) = {}
         \/ DOMAIN Chunk(w) \subseteq Present(points[Src(w)])]_vars

(* "The next sync re-processes it": once nothing fails any more, an         *)
(* interrupted write does not leave its source blank for ever.              *)
Heals ==
  <>[][\A w \in Writers : ~Fault(w) /\ ~Recancelled(w)]_vars =>
    \A s \in Sources : []<>(SourceState(points[s]) # Blank)
=============================================================================
