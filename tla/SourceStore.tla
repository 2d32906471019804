----------------------------- MODULE SourceStore -----------------------------
(***************************************************************************)
(* What SyncEngine expects of the store it writes to: the contracts of      *)
(* SourceSyncStore and SourceReplaceStore (pipeline/sync.py), with no       *)
(* points, batches or requests.  For each source the store shows one of     *)
(*   - None: nothing is stored;                                             *)
(*   - a production: all its chunks, and its change token;                  *)
(*   - Dirty: something else, which reads as "always changed".              *)
(* A write may be given up at any moment.  It then leaves what was there    *)
(* before, the new items, or Dirty, and never looks like anything else.     *)
(***************************************************************************)
EXTENDS Naturals

CONSTANTS Sources, Productions, None, Dirty, NoJob

VARIABLES
  view,   \* what the store shows of each source
  job     \* the write in progress of each source, and what it found

storeVars == <<view, job>>

Stored == {p \in Productions : DOMAIN p.chunk # {}}

Init ==
  /\ view = [s \in Sources |-> None]
  /\ job = [s \in Sources |-> NoJob]

Begin(s, target) ==
  /\ job[s] = NoJob
  /\ job' = [job EXCEPT ![s] = [target |-> target, prior |-> view[s]]]
  /\ UNCHANGED view

(* Part of the write is applied. *)
Touch(s) ==
  /\ job[s] # NoJob
  /\ view' = [view EXCEPT ![s] = Dirty]
  /\ UNCHANGED job

(* The write returns, raises, is cancelled, or its process dies. *)
Finish(s) ==
  /\ job[s] # NoJob
  /\ \E v \in {view[s], Dirty, job[s].prior, job[s].target} :
       view' = [view EXCEPT ![s] = v]
  /\ job' = [job EXCEPT ![s] = NoJob]

Next ==
  \E s \in Sources :
    \/ \E target \in Stored \cup {None} : Begin(s, target)
    \/ Touch(s)
    \/ Finish(s)

Spec == Init /\ [][Next]_storeVars
=============================================================================
