------------------------------ MODULE SyncStream ------------------------------
(***************************************************************************)
(* SyncEngine._stream and SyncEngine.run (pipeline/sync.py): one task per   *)
(* source produces under a semaphore and hands its outcome to the one       *)
(* writer through a one-slot queue; orphans are deleted at the end.         *)
(*                                                                          *)
(* A task keeps its slot until its outcome is in the queue (back-pressure). *)
(* A producer that dies of a BaseException wakes the writer through the     *)
(* future `fatal`.  However the stream is left, every task is cancelled and *)
(* awaited first.                                                           *)
(***************************************************************************)
EXTENDS Naturals, FiniteSets

CONSTANTS
  Sources,        \* source ids
  MaxCopies,      \* bound: how often a request may name one source id
  MaxAsked,       \* bound: how many sources a request names
  Limit,          \* permits of the semaphore
  FailsOnCancel,  \* whether a producer may answer its cancellation with an Exception
  NoTask

(* The k-th mention of a source in the request. *)
Ask == Sources \X (1 .. MaxCopies)

ASSUME StreamConstants ==
  /\ IsFiniteSet(Sources)
  /\ MaxCopies \in Nat \ {0}
  /\ MaxAsked \in Nat
  /\ Limit \in Nat \ {0}
  /\ FailsOnCancel \in BOOLEAN
  /\ NoTask \notin Ask

VARIABLES
  phase,       \* what the consumer, run(), is doing
  asked,       \* the sources named in the request
  live,        \* SyncPlanInput.live_source_ids
  known,       \* the keys of `state`, what list_source_state returned
  task,        \* the task of each source
  outcome,     \* the outcome each task has produced
  handoff,     \* the outcomes in the one-slot queue
  held,        \* the outcome the consumer has taken
  taken,       \* how many outcomes the consumer has taken
  fatal,       \* the future `fatal` is done
  cancelling,  \* the tasks whose CancelledError has not been delivered yet
  orphans,     \* the orphans not yet yielded
  result       \* UpdateResult: how often each list names each source

vars == <<phase, asked, live, known, task, outcome, handoff, held, taken, fatal,
          cancelling, orphans, result>>

tasksVars == <<task, outcome, handoff, fatal, cancelling>>
requestVars == <<asked, live, known>>

Fields == {"processed", "skipped", "errors", "deleted"}

Running == {"waiting", "evaluating", "putting"}

TypeOK ==
  /\ phase \in {"idle", "listing", "streaming", "holding", "cleanup", "orphans",
                "done", "raised"}
  /\ asked \in SUBSET Ask
  /\ live \in SUBSET Sources
  /\ known \in SUBSET Sources
  /\ task \in [Ask -> Running \cup {"none", "named", "done", "dead", "cancelled"}]
  /\ outcome \in [Ask -> {"none", "skipped", "changed", "error", "late error"}]
  /\ handoff \in SUBSET Ask
  /\ held \in Ask \cup {NoTask}
  /\ taken \in Nat
  /\ fatal \in BOOLEAN
  /\ cancelling \in SUBSET Ask
  /\ orphans \in SUBSET Sources
  /\ result \in [Fields -> [Sources -> Nat]]

Init ==
  /\ phase = "idle"
  /\ asked = {}
  /\ live = {}
  /\ known = {}
  /\ task = [a \in Ask |-> "none"]
  /\ outcome = [a \in Ask |-> "none"]
  /\ handoff = {}
  /\ held = NoTask
  /\ taken = 0
  /\ fatal = FALSE
  /\ cancelling = {}
  /\ orphans = {}
  /\ result = [f \in Fields |-> [s \in Sources |-> 0]]

-----------------------------------------------------------------------------
(* Resolution: the pipeline makes a SyncPlanInput of the request. *)

Tasks == {a \in Ask : task[a] # "none"}

Mentions(names, s) == Cardinality({a \in names : a[1] = s})

Ended == {"idle", "done", "raised"}

(* The request is resolved: `names` become tasks, every other name of it is *)
(* in pre_failed or pre_skipped and reported under `field` at once.         *)
Request(names, alive, field) ==
  /\ phase = "idle"
  /\ Cardinality(asked') <= MaxAsked
  /\ phase' = "listing"
  /\ live' = alive
  /\ task' = [a \in Ask |-> IF a \in names THEN "named" ELSE "none"]
  /\ result' = [f \in Fields |-> [s \in Sources |->
                 IF f = field THEN Mentions(asked' \ names, s) ELSE 0]]
  /\ UNCHANGED <<known, outcome, handoff, held, taken, fatal, cancelling, orphans>>

(* From paths: ids are unique (a collision raises before anything runs), and *)
(* a source whose hashing failed stays alive.                                *)
ResolvePaths ==
  \E requested \in SUBSET Sources : \E hashed \in SUBSET requested :
    /\ asked' = requested \X {1}
    /\ Request(hashed \X {1}, requested, "errors")

(* From a document store: any list of ids, compared with every document. *)
ResolveDocuments ==
  \E names \in SUBSET Ask, documents \in SUBSET Sources :
    /\ asked' = names
    /\ Request({a \in names : a[1] \in documents}, documents, "skipped")

(* list_source_state answers, and the tasks are created. *)
List ==
  /\ phase = "listing"
  /\ \E stored \in SUBSET Sources : known' = stored
  /\ task' = [a \in Ask |-> IF a \in Tasks THEN "waiting" ELSE "none"]
  /\ phase' = "streaming"
  /\ UNCHANGED <<asked, live, held, taken, orphans, result, outcome, handoff, fatal,
                 cancelling>>

-----------------------------------------------------------------------------
(* The tasks. *)

(* Mutated: the permit is returned before the outcome is put. *)
SlotsEvaluating == Cardinality({a \in Ask : task[a] = "evaluating"})

Slots == Cardinality({a \in Ask : task[a] \in {"evaluating", "putting"}})

(* The event loop runs the tasks only once they have been created. *)
Started == phase \in {"streaming", "holding", "cleanup"}

Become(a, s) == task' = [task EXCEPT ![a] = s]

Acquire(a) ==
  /\ Started
  /\ task[a] = "waiting"
  /\ a \notin cancelling
  /\ Slots < Limit
  /\ Become(a, "evaluating")
  /\ UNCHANGED <<phase, held, taken, orphans, result, outcome, handoff, fatal,
                 cancelling, requestVars>>

(* _evaluate returns: unchanged or unavailable, changed, or an Exception. *)
Evaluate(a) ==
  /\ Started
  /\ task[a] = "evaluating"
  /\ a \notin cancelling
  /\ \E o \in {"skipped", "changed", "error"} : outcome' = [outcome EXCEPT ![a] = o]
  /\ Become(a, "putting")
  /\ UNCHANGED <<phase, held, taken, orphans, result, handoff, fatal, cancelling,
                 requestVars>>

(* Mutated: the done-callback ignores exceptions. *)
DieUnseen(a) ==
  /\ Started
  /\ task[a] = "evaluating"
  /\ Become(a, "dead")
  /\ cancelling' = cancelling \ {a}
  /\ UNCHANGED <<phase, held, taken, orphans, result, outcome, handoff, fatal,
                 requestVars>>

(* A BaseException that is not an Exception escapes the producer. *)
Die(a) ==
  /\ Started
  /\ task[a] = "evaluating"
  /\ Become(a, "dead")
  /\ fatal' = TRUE
  /\ cancelling' = cancelling \ {a}
  /\ UNCHANGED <<phase, held, taken, orphans, result, outcome, handoff, requestVars>>

(* handoff.put: the task waits while the slot is taken, then releases its   *)
(* permit.                                                                  *)
Put(a) ==
  /\ Started
  /\ task[a] = "putting"
  /\ a \notin cancelling
  /\ handoff = {}
  /\ handoff' = {a}
  /\ Become(a, "done")
  /\ UNCHANGED <<phase, held, taken, orphans, result, outcome, fatal, cancelling,
                 requestVars>>

(* The CancelledError is raised where the task waits.  _evaluate lets it    *)
(* through, but a producer that raises something else over it has failed    *)
(* like any other: its error is put.                                        *)
Deliver(a) ==
  /\ a \in cancelling
  /\ cancelling' = cancelling \ {a}
  /\ \/ Become(a, "cancelled") /\ fatal' = TRUE /\ UNCHANGED outcome
     \/ /\ FailsOnCancel
        /\ task[a] = "evaluating"
        /\ Become(a, "putting")
        /\ outcome' = [outcome EXCEPT ![a] = "late error"]
        /\ UNCHANGED fatal
  /\ UNCHANGED <<phase, held, taken, orphans, result, handoff, requestVars>>

-----------------------------------------------------------------------------
(* The consumer. *)

Alive == {a \in Ask : task[a] \in Running}

Count(field, s) == result' = [result EXCEPT ![field][s] = @ + 1]

Take ==
  /\ phase = "streaming"
  /\ \E a \in handoff : held' = a /\ handoff' = handoff \ {a}
  /\ taken' = taken + 1
  /\ phase' = "holding"
  /\ UNCHANGED <<orphans, result, task, outcome, fatal, cancelling, requestVars>>

Release ==
  /\ held' = NoTask
  /\ phase' = "streaming"
  /\ UNCHANGED <<taken, orphans, requestVars, tasksVars>>

(* Skips and errors are only listed. *)
Dismiss ==
  /\ phase = "holding"
  /\ outcome[held] \in {"skipped", "error", "late error"}
  /\ Count(IF outcome[held] = "skipped" THEN "skipped" ELSE "errors", held[1])
  /\ Release

(* Mutated: a failing pre_write is logged and not recorded. *)
WriteUnrecorded ==
  /\ phase = "holding"
  /\ outcome[held] = "changed"
  /\ Count("processed", held[1]) \/ UNCHANGED result
  /\ Release

(* pre_write and the store call, or an Exception of either. *)
Write ==
  /\ phase = "holding"
  /\ outcome[held] = "changed"
  /\ \E field \in {"processed", "errors"} : Count(field, held[1])
  /\ Release

(* Every outcome has been yielded: the finally clause finds no task alive,  *)
(* and the orphans follow if the caller asked for their deletion.           *)
StreamOver ==
  /\ phase = "streaming"
  /\ taken = Cardinality(Tasks)
  /\ phase' = "orphans"
  /\ orphans' \in {{}, known \ live}
  /\ UNCHANGED <<held, taken, result, requestVars, tasksVars>>

DeleteOrphan(s) ==
  /\ phase = "orphans"
  /\ s \in orphans
  /\ orphans' = orphans \ {s}
  /\ \E field \in {"deleted", "errors"} : Count(field, s)
  /\ UNCHANGED <<phase, held, taken, requestVars, tasksVars>>

RunOver ==
  /\ phase = "orphans"
  /\ orphans = {}
  /\ phase' = "done"
  /\ UNCHANGED <<held, taken, orphans, result, requestVars, tasksVars>>

(* The generator is left early: every task is cancelled. *)
CancelTasks ==
  /\ phase' = "cleanup"
  /\ cancelling' = Alive
  /\ held' = NoTask
  /\ UNCHANGED <<taken, orphans, result, task, outcome, handoff, fatal, requestVars>>

(* The consumer was woken by `fatal`, and there was nothing to take. *)
Abort ==
  /\ phase = "streaming"
  /\ taken # Cardinality(Tasks)
  /\ fatal
  /\ handoff = {}
  /\ CancelTasks

(* The caller cancels run(), or a BaseException escapes the store.  Again   *)
(* while the tasks are awaited, it cancels them again.                      *)
Cancel ==
  /\ phase \in {"streaming", "holding", "cleanup"}
  /\ CancelTasks

(* Everything else there is to cancel: nothing is running but the store     *)
(* call, whose failure to list also ends the run.                           *)
Interrupt ==
  /\ phase \in {"listing", "orphans"}
  /\ phase' = "raised"
  /\ UNCHANGED <<held, taken, orphans, result, requestVars, tasksVars>>

(* Mutated: the tasks are cancelled and not awaited. *)
CleanedUpAtOnce ==
  /\ phase = "cleanup"
  /\ phase' = "raised"
  /\ UNCHANGED <<held, taken, orphans, result, requestVars, tasksVars>>

(* gather returns once every task has ended. *)
CleanedUp ==
  /\ phase = "cleanup"
  /\ Alive = {}
  /\ phase' = "raised"
  /\ UNCHANGED <<held, taken, orphans, result, requestVars, tasksVars>>

-----------------------------------------------------------------------------
TaskStep(a) == Acquire(a) \/ Evaluate(a) \/ Put(a) \/ Deliver(a)

ConsumerStep ==
  \/ List \/ Take \/ Dismiss \/ Write \/ StreamOver \/ RunOver
  \/ \E s \in Sources : DeleteOrphan(s)
  \/ Abort \/ CleanedUp

(* The caller has the result or the exception; the engine keeps nothing. *)
NextRun ==
  /\ phase \in {"done", "raised"}
  /\ phase' = "idle"
  /\ asked' = {} /\ live' = {} /\ known' = {}
  /\ task' = [a \in Ask |-> "none"]
  /\ outcome' = [a \in Ask |-> "none"]
  /\ handoff' = {} /\ held' = NoTask /\ taken' = 0
  /\ fatal' = FALSE /\ cancelling' = {} /\ orphans' = {}
  /\ result' = [f \in Fields |-> [s \in Sources |-> 0]]

Next ==
  \/ NextRun
  \/ ResolvePaths \/ ResolveDocuments
  \/ \E a \in Ask : TaskStep(a) \/ Die(a)
  \/ ConsumerStep
  \/ Cancel \/ Interrupt

Spec == Init /\ [][Next]_vars

(* The event loop runs every task that can run, producers and store calls   *)
(* end, and nobody else holds the semaphore.                                *)
FairSpec ==
  Spec /\ WF_vars(ConsumerStep) /\ \A a \in Ask : WF_vars(TaskStep(a))

-----------------------------------------------------------------------------
(* The docstring of _stream: "at most concurrency + 2 outcomes exist at any *)
(* time (one per slot, one queued, one held by the consumer)", however many *)
(* sources there are and however slow the writer is.                        *)
InHand == {a \in Ask : task[a] \in {"evaluating", "putting"}}
            \cup handoff \cup ({held} \ {NoTask})

AliveBound == Cardinality(InHand) <= Limit + 2

(* "An early abort never abandons a running producer": when run() has       *)
(* returned or raised, and before the first orphan goes, no task is left.   *)
NoneLeftRunning == phase \in Ended \cup {"orphans"} => Alive = {}

(* A run that returns has accounted for every name of the request, the      *)
(* unreadable and unavailable ones too, and for every orphan if it was to   *)
(* delete them, each exactly once.                                          *)
Reports(s) ==
  result["processed"][s] + result["skipped"][s] + result["errors"][s]
    + result["deleted"][s]

EveryNameReportedOnce ==
  phase = "done" =>
    \E swept \in {{}, known \ live} : \A s \in Sources :
      Reports(s) = Mentions(asked, s) + (IF s \in swept THEN 1 ELSE 0)

(* Only what the store listed and nothing upstream has any more is deleted, *)
(* and only once every source has produced its outcome: neither an aborted  *)
(* run, nor an unreadable file, nor a subset request makes orphans.         *)
OnlyOrphansDeleted ==
  \A s \in Sources :
    result["deleted"][s] > 0 =>
      /\ s \in known \ live
      /\ \A a \in Tasks : task[a] = "done"

(* Producers let their cancellation through. *)
LetThrough == [](\A a \in Ask : outcome[a] # "late error")

(* Every run ends, whatever dies or is cancelled, if producers let their    *)
(* cancellation through.                                                    *)
RunEnds == LetThrough => (phase \notin Ended ~> phase \in Ended)

(* docs/guide/sync-engine.md: cancellation and other BaseExceptions         *)
(* "propagate to the caller, and the running producers are cancelled and    *)
(* awaited before control returns".                                         *)
CancellationPropagates == phase = "cleanup" ~> phase = "raised"

-----------------------------------------------------------------------------
(* The inductive invariant of the safety properties, part by part. *)

Done == {a \in Ask : task[a] = "done"}

(* The outcomes the consumer has dealt with. *)
Handled == Done \ (handoff \cup {held})

(* The queue has one slot; a task that is cancelled, queued or held is      *)
(* where the code says it is.                                               *)
QueueInv ==
  /\ Slots <= Limit
  /\ \A a, b \in handoff : a = b
  /\ handoff \subseteq Done
  /\ held # NoTask => held \in Done \ handoff
  /\ phase = "holding" <=> held # NoTask
  /\ cancelling \subseteq Alive

(* Each task that is done has put one outcome, and each is taken once. *)
CountInv == taken + Cardinality(handoff) = Cardinality(Done)

(* Which tasks there are in each phase. *)
PhaseInv ==
  /\ Tasks \subseteq asked
  /\ phase \in Ended \cup {"listing", "orphans"} => Alive = {}
  /\ phase \in {"idle", "listing"} => Done = {}
  /\ phase \in {"orphans", "done"} => Tasks = Done

OrphanInv ==
  /\ orphans \subseteq known \ live
  /\ phase \notin {"orphans", "raised"} => orphans = {}
  /\ phase \notin {"orphans", "done", "raised"} =>
       \A s \in Sources : result["deleted"][s] = 0

(* The names reported so far are those that never became tasks and those    *)
(* whose outcome the consumer has dealt with; then come the orphans.        *)
AccountInv ==
  /\ phase \in {"listing", "streaming", "holding"} =>
       \A s \in Sources :
         Reports(s) = Mentions(asked \ Tasks, s) + Mentions(Handled, s)
  /\ phase \in {"orphans", "done"} =>
       \E swept \in {{}, known \ live} :
         /\ orphans \subseteq swept
         /\ \A s \in Sources :
              Reports(s) = Mentions(asked, s)
                             + (IF s \in swept \ orphans THEN 1 ELSE 0)

StreamInv ==
  /\ TypeOK /\ QueueInv /\ CountInv /\ PhaseInv /\ OrphanInv /\ AccountInv
  /\ OnlyOrphansDeleted
=============================================================================
