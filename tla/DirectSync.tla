------------------------------ MODULE DirectSync ------------------------------
(***************************************************************************)
(* A direct-mode sync pipeline over files that change: VectorStorePipeline  *)
(* (pipeline/vectorstore.py) with SyncEngine.run, plan and apply            *)
(* (pipeline/sync.py), several runs one after the other.                    *)
(*                                                                          *)
(* A file is hashed when the request is resolved, parsed when its source is *)
(* produced, and written later still; it may change, vanish or come back    *)
(* in between.  A plan may be applied long after it was made.  The store    *)
(* either replaces a source's items (SourceReplaceStore, as SourceStore     *)
(* promises) or is written by a delete and an upsert.                       *)
(***************************************************************************)
EXTENDS Naturals, FiniteSets

CONSTANTS
  Sources,        \* source ids, one file each
  MaxVersion,     \* bound: versions of a file
  Recurs,         \* whether a file may get back a content it had before
  OldPlans,       \* the kinds of store plans are applied to after something else happened
  YieldsNothing,  \* the versions that are filtered or chunk to nothing
  Stores          \* kinds of store: TRUE, it implements SourceReplaceStore; FALSE, not

Versions == 1 .. MaxVersion

ASSUME DirectConstants ==
  /\ MaxVersion \in Nat
  /\ Recurs \in BOOLEAN
  /\ Stores \subseteq BOOLEAN /\ OldPlans \subseteq Stores
  /\ YieldsNothing \subseteq Nat

VARIABLES
  replaces, \* the kind of store the pipeline was given
  file,    \* the version each file has; 0: there is no file
  last,    \* the newest version each file has had
  stored,  \* what the store holds of each source
  mode,    \* the engine method called last: "run", "plan" or "apply"
  phase,   \* how far it is
  asked,   \* the sources of the request
  sweep,   \* delete_orphans
  token,   \* SyncSource.change_token; 0: none
  seen,    \* the snapshot list_source_state returned
  at,      \* how far each source is
  change,  \* the SourceChange of each source that has one
  orphans, \* the orphans left to delete
  saved,   \* a saved ChangeSet
  base,    \* history: the store when the last plan or run began
  clean    \* history: the method since which nothing else happened, or "none"

vars == <<replaces, file, last, stored, mode, phase, asked, sweep, token, seen, at, change,
          orphans, saved, base, clean>>

filesVars == <<file, last>>
requestVars == <<mode, asked, sweep>>

(* A stored source: its change token, and the versions its items are from.  *)
(* Token 0 stands for hashes that are blank, "always changed".              *)
Entry == [tok : Nat, data : SUBSET Nat]
Nothing == [tok |-> 0, data |-> {}]

Change == [tok : Nat, data : SUBSET Nat, new : BOOLEAN]
NoChange == [tok |-> 0, data |-> {}, new |-> FALSE]

NoPlan == [change |-> [s \in {} |-> NoChange], orphans |-> {}]

TypeOK ==
  /\ replaces \in Stores
  /\ file \in [Sources -> Nat] /\ last \in [Sources -> Nat]
  /\ stored \in [Sources -> Entry]
  /\ mode \in {"none", "run", "plan", "apply"}
  /\ phase \in {"idle", "hashing", "streaming", "deleting", "writing"}
  /\ asked \in SUBSET Sources
  /\ sweep \in BOOLEAN
  /\ token \in [Sources -> Nat]
  /\ seen \in [Sources -> Entry]
  /\ at \in [Sources -> {"none", "asked", "hashed", "changed", "halfway", "done"}]
  /\ change \in [Sources -> Change]
  /\ orphans \in SUBSET Sources
  /\ saved.orphans \in SUBSET Sources
  /\ DOMAIN saved.change \subseteq Sources \ saved.orphans
  /\ \A s \in DOMAIN saved.change : saved.change[s] \in Change
  /\ base \in [Sources -> Entry]
  /\ clean \in {"none", "run", "plan"}

Init ==
  /\ replaces \in Stores
  /\ file = [s \in Sources |-> 0] /\ last = [s \in Sources |-> 0]
  /\ stored = [s \in Sources |-> Nothing]
  /\ mode = "none" /\ phase = "idle"
  /\ asked = {} /\ sweep = FALSE
  /\ token = [s \in Sources |-> 0]
  /\ seen = [s \in Sources |-> Nothing]
  /\ at = [s \in Sources |-> "none"]
  /\ change = [s \in Sources |-> NoChange]
  /\ orphans = {}
  /\ saved = NoPlan
  /\ base = stored
  /\ clean = "none"

-----------------------------------------------------------------------------
(* The files. *)

(* A fault, or a change of the files: the end of a history without one. *)
Disturbed == clean' = "none" /\ base' = [s \in Sources |-> Nothing]

Edit(s) ==
  /\ \E v \in Versions :
       /\ Recurs \/ v = last[s] + 1
       /\ v # file[s]
       /\ file' = [file EXCEPT ![s] = v]
       /\ last' = [last EXCEPT ![s] = IF v > @ THEN v ELSE @]
  /\ Disturbed
  /\ UNCHANGED <<stored, phase, token, seen, at, change, orphans, saved, requestVars>>

Vanish(s) ==
  /\ file[s] # 0
  /\ file' = [file EXCEPT ![s] = 0]
  /\ Disturbed
  /\ UNCHANGED <<last, stored, phase, token, seen, at, change, orphans, saved, requestVars>>

Files == {s \in Sources : file[s] # 0}

-----------------------------------------------------------------------------
(* Resolution and the listing. *)

Reach(s, point) == at' = [at EXCEPT ![s] = point]

(* The source is finished with, whatever came of it. *)
Settle(s) ==
  /\ Reach(s, "done")
  /\ token' = [token EXCEPT ![s] = 0]
  /\ change' = [change EXCEPT ![s] = NoChange]

(* The method is over and its variables are gone. *)
Return ==
  /\ phase' = "idle"
  /\ at' = [s \in Sources |-> "none"]
  /\ token' = [s \in Sources |-> 0]
  /\ seen' = [s \in Sources |-> Nothing]
  /\ change' = [s \in Sources |-> NoChange]
  /\ orphans' = {}

(* run or plan is called.  delete_orphans wants the complete corpus. *)
Start(method, corpus, orphaned) ==
  /\ phase = "idle"
  /\ orphaned => corpus = Files
  /\ mode' = method /\ asked' = corpus /\ sweep' = orphaned
  /\ phase' = "hashing"
  /\ at' = [s \in Sources |-> IF s \in corpus THEN "asked" ELSE "none"]
  /\ base' = stored
  /\ clean' = method
  /\ UNCHANGED <<stored, token, seen, change, orphans, saved, filesVars>>

HashFile(s) ==
  /\ phase = "hashing" /\ at[s] = "asked"
  /\ file[s] # 0
  /\ token' = [token EXCEPT ![s] = file[s]]
  /\ Reach(s, "hashed")
  /\ UNCHANGED <<stored, phase, seen, change, orphans, saved, base, clean, filesVars, requestVars>>

(* hash_fn raises: the source is in pre_failed. *)
HashFails(s) ==
  /\ phase = "hashing" /\ at[s] = "asked"
  /\ Settle(s)
  /\ Disturbed
  /\ UNCHANGED <<stored, phase, seen, orphans, saved, filesVars, requestVars>>

List ==
  /\ phase = "hashing"
  /\ \A s \in Sources : at[s] # "asked"
  /\ seen' = stored
  /\ phase' = "streaming"
  /\ UNCHANGED <<stored, token, at, change, orphans, saved, base, clean, filesVars, requestVars>>

-----------------------------------------------------------------------------
(* _evaluate. *)

(* Mutated: a source whose stored token is unknown counts as unchanged. *)
UnchangedIfBlank(s) == seen[s].data # {} /\ seen[s].tok \in {0, token[s]}

Unchanged(s) == seen[s].tok # 0 /\ seen[s].tok = token[s]

Skip(s) ==
  /\ phase = "streaming" /\ at[s] = "hashed"
  /\ Unchanged(s)
  /\ Settle(s)
  /\ UNCHANGED <<stored, phase, seen, orphans, saved, base, clean, filesVars, requestVars>>

(* The items of the version the file has now, under the hash it had then. *)
Items(s) == IF file[s] \in YieldsNothing THEN {} ELSE {file[s]}

Produce(s) ==
  /\ phase = "streaming" /\ at[s] = "hashed"
  /\ ~Unchanged(s)
  /\ file[s] # 0
  /\ change' = [change EXCEPT ![s] = [tok |-> token[s], data |-> Items(s),
                                      new |-> seen[s].data = {}]]
  /\ Reach(s, "changed")
  /\ UNCHANGED <<stored, phase, token, seen, orphans, saved, base, clean, filesVars, requestVars>>

(* The file cannot be read any more, or a stage of the pipeline raises. *)
ProduceFails(s) ==
  /\ phase = "streaming" /\ at[s] = "hashed"
  /\ ~Unchanged(s)
  /\ Settle(s)
  /\ Disturbed
  /\ UNCHANGED <<stored, phase, seen, orphans, saved, filesVars, requestVars>>

-----------------------------------------------------------------------------
(* _write_source. *)

Put(s, e) == stored' = [stored EXCEPT ![s] = e]

(* Mutated: the items are stamped with the hash the file has when written. *)
TargetRehashed(s) ==
  IF change[s].data = {} THEN Nothing ELSE [tok |-> file[s], data |-> change[s].data]

Target(s) ==
  IF change[s].data = {} THEN Nothing ELSE [tok |-> change[s].tok, data |-> change[s].data]

(* What the hashes of a source read as once the new items are beside what   *)
(* is stored: Qdrant's are blank unless all agree, of another store nothing *)
(* is known.                                                                *)
Reads(s) ==
  IF stored[s].data = {} \/ stored[s].tok = change[s].tok THEN {change[s].tok}
  ELSE IF replaces THEN {0}
  ELSE {0, stored[s].tok, change[s].tok}

(* The outcomes of an upsert without a delete. *)
Added(s) ==
  IF change[s].data = {} THEN {stored[s]}
  ELSE {[tok |-> h, data |-> stored[s].data \cup change[s].data] : h \in Reads(s)}

(* What is stored and some of the new items, without hashes. *)
Mixed(s) == [tok |-> 0, data |-> stored[s].data \cup change[s].data]

(* All new items and no others, not stamped yet. *)
Unstamped(s) == [tok |-> 0, data |-> change[s].data]

(* One source is written at a time, as it comes or once all are planned. *)
Writable(s) ==
  /\ at[s] = "changed"
  /\ \A r \in Sources : at[r] # "halfway"
  /\ (phase = "streaming" /\ mode = "run") \/ phase = "writing"

WriteNew(s) ==
  /\ Writable(s)
  /\ change[s].new
  /\ \E e \in Added(s) : Put(s, e)
  /\ Settle(s)
  /\ UNCHANGED <<phase, seen, orphans, saved, base, clean, filesVars, requestVars>>

(* Mutated: every update is a delete and an upsert. *)
OneCallNever(s) == change[s].data = {}

(* An update in one call: no items, or replace_source. *)
OneCall(s) == change[s].data = {} \/ replaces

WriteUpdate(s) ==
  /\ Writable(s)
  /\ ~change[s].new
  /\ OneCall(s)
  /\ Put(s, Target(s))
  /\ Settle(s)
  /\ UNCHANGED <<phase, seen, orphans, saved, base, clean, filesVars, requestVars>>

DeleteFirst(s) ==
  /\ Writable(s)
  /\ ~change[s].new
  /\ ~OneCall(s)
  /\ Put(s, Nothing)
  /\ Reach(s, "halfway")
  /\ UNCHANGED <<phase, token, seen, change, orphans, saved, base, clean, filesVars, requestVars>>

UpsertAfter(s) ==
  /\ at[s] = "halfway"
  /\ \E e \in Added(s) : Put(s, e)
  /\ Settle(s)
  /\ UNCHANGED <<phase, seen, orphans, saved, base, clean, filesVars, requestVars>>

(* Mutated: the upsert follows a delete that failed. *)
LeftByMixing(s) ==
  IF at[s] = "halfway" THEN {stored[s]} \cup Added(s)
  ELSE IF change[s].new THEN {stored[s], Mixed(s)} \cup Added(s)
  ELSE IF ~OneCall(s) THEN {Mixed(s)}
  ELSE {stored[s], Target(s)}

(* What a write that raises can leave: a call that failed may have landed,  *)
(* and a replace or a large upsert may have landed in part.                 *)
LeftBy(s) ==
  IF at[s] = "halfway" THEN {stored[s]} \cup Added(s)
  ELSE IF change[s].new THEN {stored[s]} \cup Added(s) \cup (IF replaces THEN {Mixed(s)} ELSE {})
  ELSE IF ~OneCall(s) THEN {stored[s], Nothing}
  ELSE {stored[s], Target(s)} \cup (IF change[s].data # {} THEN {Mixed(s), Unstamped(s)} ELSE {})

(* pre_write or a store call raises. *)
WriteFails(s) ==
  /\ Writable(s) \/ at[s] = "halfway"
  /\ \E e \in LeftBy(s) : Put(s, e)
  /\ Settle(s)
  /\ Disturbed
  /\ UNCHANGED <<phase, seen, orphans, saved, filesVars, requestVars>>

-----------------------------------------------------------------------------
(* The end of the stream, orphans, plans. *)

Settled == {s \in Sources : at[s] \in {"none", "done"}}

Orphaned == IF sweep THEN {s \in Sources \ asked : seen[s].data # {}} ELSE {}

StreamOver ==
  /\ phase = "streaming" /\ mode = "run"
  /\ Settled = Sources
  /\ orphans' = Orphaned
  /\ phase' = "deleting"
  /\ UNCHANGED <<stored, token, seen, at, change, saved, base, clean, filesVars, requestVars>>

(* Mutated: orphans are left out of the plan. *)
PlannedWithoutOrphans ==
  [change |-> [s \in {r \in Sources : at[r] = "changed"} |-> change[s]], orphans |-> {}]

Planned ==
  [change |-> [s \in {r \in Sources : at[r] = "changed"} |-> change[s]], orphans |-> Orphaned]

(* plan returns its ChangeSet. *)
PlanOver ==
  /\ phase = "streaming" /\ mode = "plan"
  /\ \A s \in Sources : s \in Settled \/ at[s] = "changed"
  /\ saved' = Planned
  /\ Return
  /\ UNCHANGED <<stored, base, clean, filesVars, requestVars>>

(* apply of a saved plan.  pre_write over all its items has not raised: had *)
(* it, nothing would have happened.                                         *)
Apply ==
  /\ phase = "idle" /\ saved # NoPlan
  /\ replaces \in OldPlans \/ clean = "plan"
  /\ mode' = "apply"
  /\ phase' = "deleting"
  /\ orphans' = saved.orphans
  /\ at' = [s \in Sources |-> IF s \in DOMAIN saved.change THEN "changed" ELSE "none"]
  /\ change' = [s \in Sources |-> IF s \in DOMAIN saved.change THEN saved.change[s]
                                  ELSE NoChange]
  /\ IF clean = "plan" THEN UNCHANGED <<clean, base>> ELSE Disturbed
  /\ UNCHANGED <<stored, token, seen, saved, asked, sweep, filesVars>>

DeleteOrphan(s) ==
  /\ phase = "deleting" /\ s \in orphans
  /\ Put(s, Nothing)
  /\ orphans' = orphans \ {s}
  /\ UNCHANGED <<phase, token, seen, at, change, saved, base, clean, filesVars, requestVars>>

DeleteOrphanFails(s) ==
  /\ phase = "deleting" /\ s \in orphans
  /\ orphans' = orphans \ {s}
  /\ Disturbed
  /\ UNCHANGED <<stored, phase, token, seen, at, change, saved, filesVars, requestVars>>

(* apply goes on with its writes once the orphans are gone. *)
WritesBegin ==
  /\ phase = "deleting" /\ orphans = {} /\ mode = "apply"
  /\ phase' = "writing"
  /\ UNCHANGED <<stored, token, seen, at, change, orphans, saved, base, clean, filesVars,
                 requestVars>>

RunOver ==
  /\ \/ phase = "deleting" /\ orphans = {} /\ mode = "run"
     \/ phase = "writing" /\ Settled = Sources
  /\ Return
  /\ UNCHANGED <<stored, saved, base, clean, filesVars, requestVars>>

(* The call is cancelled or its process dies. *)
Abort ==
  /\ phase # "idle"
  /\ Return
  /\ Disturbed
  /\ UNCHANGED <<stored, saved, filesVars, requestVars>>

-----------------------------------------------------------------------------
StartFull == Start("run", Files, TRUE)

(* The steps of a run over the whole corpus in which nothing goes wrong. *)
Sync ==
  \/ StartFull
  \/ List
  \/ \E s \in Sources :
       \/ HashFile(s) \/ Skip(s) \/ Produce(s)
       \/ WriteNew(s) \/ WriteUpdate(s) \/ DeleteFirst(s) \/ UpsertAfter(s)
       \/ DeleteOrphan(s)
  \/ StreamOver \/ PlanOver \/ WritesBegin \/ RunOver

(* Everything else that can happen. *)
Disturb ==
  \/ \E s \in Sources :
       \/ Edit(s) \/ Vanish(s)
       \/ HashFails(s) \/ ProduceFails(s) \/ WriteFails(s) \/ DeleteOrphanFails(s)
  \/ \E corpus \in SUBSET Sources, orphaned \in BOOLEAN, method \in {"run", "plan"} :
       /\ <<method, corpus, orphaned>> # <<"run", Files, TRUE>>
       /\ Start(method, corpus, orphaned)
  \/ Apply
  \/ Abort

Next == (Sync \/ Disturb) /\ UNCHANGED replaces

Spec == Init /\ [][Next]_vars

(* The sync is run again and again, on an event loop that runs what it can; *)
(* a file that is gone cannot be hashed or parsed, and fails its source.    *)
FairSpec ==
  /\ Spec
  /\ WF_vars(/\ Sync \/ \E s \in Sources : HashFails(s) \/ ProduceFails(s)
             /\ UNCHANGED replaces)

-----------------------------------------------------------------------------
(* A file that never gets back an old content: the source is skipped only   *)
(* if the items stored are those of the version the file has.  The hash is  *)
(* taken before the parse, so a token can be older than its items, never    *)
(* newer.                                                                   *)
UnchangedIsCurrent ==
  \A s \in Sources :
    file[s] # 0 /\ stored[s].tok = file[s] => stored[s].data = {file[s]}

(* Chunk.source_hash: "SHA-256 hex digest of the ORIGINAL SOURCE FILE       *)
(* bytes ... True file provenance only".                                    *)
TrueProvenance ==
  \A s \in Sources : stored[s].tok # 0 => stored[s].data = {stored[s].tok}

(* The module docstring of sync.py: run() "produces the same end state as   *)
(* apply(plan(...))": both end as Expected, which depends only on the files *)
(* and on the store before.                                                 *)
Expected(s) ==
  IF s \in asked
  THEN IF base[s].tok = file[s] THEN base[s]
       ELSE IF file[s] \in YieldsNothing THEN Nothing
       ELSE [tok |-> file[s], data |-> {file[s]}]
  ELSE IF sweep THEN Nothing ELSE base[s]

SameEndState ==
  phase = "idle" /\ mode \in {"run", "apply"} /\ clean # "none" =>
    \A s \in Sources : stored[s] = Expected(s)

(* "no old/new mixing": a store without replace_source never holds items of *)
(* two versions of a source, whatever fails, while no old plan is applied.  *)
NoMixing == ~replaces => \A s \in Sources : Cardinality(stored[s].data) <= 1

(* With replace_source a source that still has items never loses all of     *)
(* them: they go only if it was an orphan or has nothing to show.           *)
NeverEmptied ==
  [][replaces => \A s \in Sources :
       stored[s].data # {} /\ stored'[s].data = {} =>
         s \in orphans \/ change[s].data = {}]_vars

(* Once files and faults are quiet, the store converges to the files. *)
Converged ==
  \A s \in Sources :
    IF file[s] = 0 \/ file[s] \in YieldsNothing THEN stored[s] = Nothing
    ELSE stored[s] = [tok |-> file[s], data |-> {file[s]}]

Converges == <>[][~Disturb]_vars => <>[]Converged
=============================================================================
