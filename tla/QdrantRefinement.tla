-------------------------- MODULE QdrantRefinement --------------------------
(***************************************************************************)
(* One run at a time on a collection, none of them cancelled twice: then    *)
(* the Qdrant write protocol keeps the contract of SourceStore.  IInv is    *)
(* the inductive invariant that makes it true.                              *)
(***************************************************************************)
EXTENDS QdrantStore

CONSTANTS None, Dirty, NoJob

(* Nothing in the protocol coordinates two runs: see MCQdrantTwoWriters. *)
ASSUME SoleWriter == \A v, w \in Writers : v = w

ASSUME ViewConstants ==
  /\ None # Dirty
  /\ None \notin Productions /\ Dirty \notin Productions
  /\ \A t \in Productions \cup {None}, v \in Productions \cup {None, Dirty} :
       NoJob # [target |-> t, prior |-> v]

InCall(w) == pc[w] \notin {"idle", "running"}

(* What the content c of a source looks like to the engine. *)
View(c) ==
  IF Present(c) = {} THEN None
  ELSE IF \E t \in Tokens : Uniform(c, t)
       THEN [tok |-> CHOOSE t \in Tokens : Uniform(c, t),
             chunk |-> [i \in Present(c) |-> c[i].body]]
       ELSE Dirty

viewBar == [s \in Sources |-> View(points[s])]

Target(p) == IF DOMAIN p.chunk = {} THEN None ELSE p

Writing(s, w) == InCall(w) /\ call[w].src = s

jobBar ==
  [s \in Sources |->
     IF \E w \in Writers : Writing(s, w)
     THEN LET w == CHOOSE w \in Writers : Writing(s, w)
          IN  [target |-> Target(call[w].prod), prior |-> View(call[w].old)]
     ELSE NoJob]

Contract == INSTANCE SourceStore WITH view <- viewBar, job <- jobBar

ContractSpec == Contract!Spec

-----------------------------------------------------------------------------
(* The clauses of the inductive invariant. *)

(* A source that looks like a production holds that production. *)
Sound(c) ==
  \A t \in Tokens : Uniform(c, t) =>
    \E p \in Productions : p.tok = t /\ Complete(c, p)

(* A source the run's snapshot does not list still has nothing stored when  *)
(* its turn comes.                                                          *)
NewIsAbsent ==
  \A w \in Writers, s \in Sources :
    pc[w] # "idle" /\ status[w][s] = "pending" /\ seen[w][s] = Unknown =>
      points[s] = Empty

(* The locals of a call agree with its phase. *)
CallOK(w) ==
  /\ call[w] \in Call
  /\ status[w][Src(w)] = "writing"
  /\ DOMAIN Chunk(w) = call[w].left \cup call[w].sent
  /\ call[w].left \cap call[w].sent = {}
  /\ pc[w] # "delete" => call[w].prod \in Productions /\ DOMAIN Chunk(w) # {}
  /\ pc[w] = "delete" => call[w].prod = NoItems
  /\ pc[w] \in {"retrieve", "batch"} => call[w].left # {}
  /\ pc[w] \in {"retrieve", "upsert", "delete"} =>
       call[w].sent = {} /\ points[Src(w)] = call[w].old
  /\ pc[w] \in {"stale", "stamp"} => call[w].left = {}
  /\ pc[w] \in {"retrieve", "rollback", "shielded"} => Multi(DOMAIN Chunk(w))
  /\ call[w].new => call[w].old = Empty
  /\ pc[w] = "upsert" => call[w].new
  /\ pc[w] = "batch" /\ ~Multi(DOMAIN Chunk(w)) => ~call[w].new

(* `preexisting` is the pre-image of the ids of a call in several batches. *)
PreOK(w) ==
  pc[w] \in {"batch", "rollback", "shielded"} /\ Multi(DOMAIN Chunk(w)) =>
    call[w].pre = Present(call[w].old) \cap DOMAIN Chunk(w)

(* What has been sent is there, blank; the rest is as the call found it. *)
WrittenOK(w) ==
  /\ pc[w] = "batch" =>
       points[Src(w)] = Upsert(call[w].old, call[w].prod, call[w].sent, Blank)
  /\ pc[w] = "stale" =>
       points[Src(w)] = Upsert(call[w].old, call[w].prod, DOMAIN Chunk(w), Blank)
  /\ pc[w] = "stamp" =>
       points[Src(w)] = Upsert(Empty, call[w].prod, DOMAIN Chunk(w), Blank)
  /\ pc[w] \in {"rollback", "shielded"} =>
       \E landed \in SUBSET call[w].sent :
         points[Src(w)] = Upsert(call[w].old, call[w].prod, landed, Blank)

IInv ==
  /\ TypeOK
  /\ detached = {}
  /\ \A s \in Sources : Sound(points[s])
  /\ NewIsAbsent
  /\ \A w \in Writers :
       InCall(w) => CallOK(w) /\ PreOK(w) /\ WrittenOK(w) /\ Sound(call[w].old)
  /\ ProcessedIsStamped
=============================================================================
