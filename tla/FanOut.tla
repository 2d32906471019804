-------------------------------- MODULE FanOut --------------------------------
(***************************************************************************)
(* The library's bounded fan-outs over asyncio: run_ordered                 *)
(* (utils/concurrency.py), DocumentPipeline.run_many and .stream            *)
(* (pipeline/linear.py).                                                    *)
(*                                                                          *)
(* Several calls may be under way, each made by a caller that holds one of  *)
(* the slots of an outer semaphore, as a source of the mention pipeline     *)
(* does while its splits are extracted.  A call makes one task per item;    *)
(* a task holds a permit while it runs.  Items fail, callers are cancelled, *)
(* at any moment.  The loop delivers a CancelledError some time after       *)
(* Task.cancel asked for it.                                                *)
(***************************************************************************)
EXTENDS Naturals, Sequences, FiniteSets

CONSTANTS
  Calls,   \* the calls of the helper
  Width,   \* items of a call
  Limit,   \* permits of the inner semaphore
  Shared,  \* whether the calls share that semaphore, or each makes its own
  Slots,   \* permits of the semaphore their callers hold
  Helpers  \* the functions that may be called

Items == 1 .. Width

Tasks == Calls \X Items

ASSUME FanOutConstants ==
  /\ IsFiniteSet(Calls)
  /\ Width \in Nat \ {0}
  /\ Limit \in Nat \ {0}
  /\ Shared \in BOOLEAN
  /\ Slots \in Nat \ {0}
  /\ Helpers \subseteq {"run_ordered", "one by one", "run_many", "run_many skip", "stream"}

VARIABLES
  helper,      \* the function that is called
  call,        \* what each call is doing
  task,        \* the task of each item
  cancelling,  \* tasks whose CancelledError has not been delivered
  ended,       \* the items of each call in the order they completed
  result       \* the items whose results the caller has, in its order

vars == <<helper, call, task, cancelling, ended, result>>

Live(c) == {t \in Tasks : t[1] = c /\ task[t] \in {"queued", "running"}}

Over == {"returned", "raised"}

TypeOK ==
  /\ helper \in Helpers
  /\ call \in [Calls -> Over \cup {"idle", "waiting", "holding", "cleanup"}]
  /\ task \in [Tasks -> {"none", "queued", "running", "done", "failed", "collected",
                         "cancelled"}]
  /\ cancelling \in SUBSET {t \in Tasks : task[t] \in {"queued", "running"}}
  /\ ended \in [Calls -> Seq(Items)]
  /\ result \in [Calls -> Seq(Items)]

Init ==
  /\ helper \in Helpers
  /\ call = [c \in Calls |-> "idle"]
  /\ task = [t \in Tasks |-> "none"]
  /\ cancelling = {}
  /\ ended = [c \in Calls |-> <<>>]
  /\ result = [c \in Calls |-> <<>>]

-----------------------------------------------------------------------------
(* The tasks. *)

(* run_ordered with the int 1 awaits its items one by one and makes no task. *)
Sequential == helper = "one by one"

(* The items that run under the semaphore of a call; one by one, of itself. *)
Holders(c) ==
  {t \in Tasks : task[t] = "running" /\ (t[1] = c \/ (Shared /\ ~Sequential))}

(* Mutated: the callers hold permits of the very same semaphore. *)
FreePermitSameSemaphore(c) ==
  Cardinality(Holders(c)) + Cardinality({d \in Calls : call[d] \in {"waiting", "cleanup"}})
    < Limit

(* Mutated: off by one. *)
FreePermitLoose(c) == Cardinality(Holders(c)) <= Limit

FreePermit(c) == Cardinality(Holders(c)) < Limit

(* Task.cancel does nothing to a task that is over. *)
Cancel(c) == cancelling' = cancelling \cup Live(c)

Acquire(t) ==
  /\ task[t] = "queued"
  /\ t \notin cancelling
  /\ FreePermit(t[1])
  /\ task' = [task EXCEPT ![t] = "running"]
  /\ UNCHANGED <<call, cancelling, ended, result>>

(* The next item of a sequential call is awaited in the caller itself. *)
AwaitNext(c) ==
  /\ Sequential
  /\ call[c] = "waiting"
  /\ \E i \in Items :
       /\ task[<<c, i>>] = "none"
       /\ \A j \in 1 .. i - 1 : task[<<c, j>>] = "done"
       /\ task' = [task EXCEPT ![<<c, i>>] = "running"]
  /\ UNCHANGED <<call, cancelling, ended, result>>

(* The item's coroutine returns.  run_many's task stores the chunks itself. *)
Finish(t) ==
  /\ task[t] = "running"
  /\ t \notin cancelling
  /\ task' = [task EXCEPT ![t] = "done"]
  /\ ended' = [ended EXCEPT ![t[1]] = Append(@, t[2])]
  /\ result' = IF helper \in {"run_many", "run_many skip"}
               THEN [result EXCEPT ![t[1]] = Append(@, t[2])]
               ELSE result
  /\ UNCHANGED <<call, cancelling>>

(* What an item that raised becomes, and what that does to its caller. *)
Raise(t) ==
  /\ task' = [task EXCEPT ![t] = IF helper = "run_many skip" THEN "collected" ELSE "failed"]
  /\ ended' = [ended EXCEPT ![t[1]] = Append(@, t[2])]
  /\ call' = IF Sequential THEN [call EXCEPT ![t[1]] = "raised"] ELSE call
  /\ cancelling' = cancelling \ {t}
  /\ UNCHANGED result

(* The item's coroutine raises an Exception, perhaps instead of its         *)
(* CancelledError.                                                          *)
Fail(t) ==
  /\ task[t] = "running"
  /\ Raise(t)

(* The CancelledError arrives: a queued item is never called. *)
Deliver(t) ==
  /\ t \in cancelling
  /\ task' = [task EXCEPT ![t] = "cancelled"]
  /\ cancelling' = cancelling \ {t}
  /\ call' = IF Sequential THEN [call EXCEPT ![t[1]] = "raised"] ELSE call
  /\ UNCHANGED <<ended, result>>

-----------------------------------------------------------------------------
(* The callers. *)

Busy == {c \in Calls : call[c] \notin Over \cup {"idle"}}

Start(c) ==
  /\ call[c] = "idle"
  /\ Cardinality(Busy) < Slots
  /\ call' = [call EXCEPT ![c] = "waiting"]
  /\ task' = IF Sequential THEN task
             ELSE [t \in Tasks |-> IF t[1] = c THEN "queued" ELSE task[t]]
  /\ UNCHANGED <<cancelling, ended, result>>

(* The call gives up: tasks that are not over are cancelled and awaited.    *)
(* Mutated: they are cancelled, not awaited.                                *)
LeaveUnawaited(c) ==
  /\ call' = [call EXCEPT ![c] = "raised"]
  /\ Cancel(c)
  /\ UNCHANGED <<task, ended, result>>

(* Mutated: they are awaited, not cancelled. *)
LeaveUncancelled(c) ==
  /\ call' = [call EXCEPT ![c] = "cleanup"]
  /\ UNCHANGED <<cancelling, task, ended, result>>

Leave(c) ==
  /\ call' = [call EXCEPT ![c] = "cleanup"]
  /\ Cancel(c)
  /\ UNCHANGED <<task, ended, result>>

Gathers == helper # "stream"

(* The helpers that leave no task behind. *)
Cleans == helper \in {"run_ordered", "one by one", "stream"}

Spoilt(c) == \E i \in Items : task[<<c, i>>] \in {"failed", "cancelled"}

(* gather raises at the first task that failed or was cancelled. *)
GatherRaises(c) ==
  /\ Gathers
  /\ call[c] = "waiting"
  /\ Spoilt(c)
  /\ IF Cleans
     THEN Leave(c)
     ELSE /\ call' = [call EXCEPT ![c] = "raised"]
          /\ UNCHANGED <<task, cancelling, ended, result>>

AllOver(c) == \A i \in Items : task[<<c, i>>] \in {"done", "collected"}

(* gather answers; run_ordered's results come in the order of the items. *)
GatherReturns(c) ==
  /\ Gathers
  /\ call[c] = "waiting"
  /\ AllOver(c)
  /\ call' = [call EXCEPT ![c] = "returned"]
  /\ result' = IF Cleans
               THEN [result EXCEPT ![c] = [i \in Items |-> i]]
               ELSE result
  /\ UNCHANGED <<task, cancelling, ended>>

CleanedUp(c) ==
  /\ call[c] = "cleanup"
  /\ Live(c) = {}
  /\ call' = [call EXCEPT ![c] = "raised"]
  /\ UNCHANGED <<task, cancelling, ended, result>>

(* stream: as_completed hands over the tasks in the order they completed. *)
NextEnded(c) == ended[c][Len(result[c]) + 1]

Arrived(c) ==
  /\ helper = "stream"
  /\ call[c] = "waiting"
  /\ Len(result[c]) < Len(ended[c])

Yield(c) ==
  /\ Arrived(c)
  /\ task[<<c, NextEnded(c)>>] = "done"
  /\ result' = [result EXCEPT ![c] = Append(@, NextEnded(c))]
  /\ call' = [call EXCEPT ![c] = "holding"]
  /\ UNCHANGED <<task, cancelling, ended>>

StreamRaises(c) ==
  /\ Arrived(c)
  /\ task[<<c, NextEnded(c)>>] = "failed"
  /\ Leave(c)

(* Mutated: the stream ends when no batch is ready. *)
AllTakenSoFar(c) == Len(result[c]) = Len(ended[c])

AllTaken(c) == \A i \in Items : \E k \in DOMAIN result[c] : result[c][k] = i

(* The consumer asks for the next batch, or there is none. *)
Resume(c) ==
  /\ helper = "stream"
  /\ call[c] = "holding"
  /\ call' = [call EXCEPT ![c] = IF AllTaken(c) THEN "returned" ELSE "waiting"]
  /\ UNCHANGED <<task, cancelling, ended, result>>

(* The consumer closes the iterator early. *)
Close(c) ==
  /\ helper = "stream"
  /\ call[c] = "holding"
  /\ Leave(c)

(* The caller's task is cancelled.  Awaiting a gather, it goes on waiting   *)
(* until a child ends, and it raises at once when no child is left.         *)
CancelCaller(c) ==
  /\ call[c] \in {"waiting", "cleanup"}
  /\ IF call[c] = "waiting" /\ helper = "stream"
     THEN Leave(c)
     ELSE IF Live(c) = {}
     THEN /\ call' = [call EXCEPT ![c] = "raised"]
          /\ UNCHANGED <<task, cancelling, ended, result>>
     ELSE /\ Cancel(c)
          /\ UNCHANGED <<call, task, ended, result>>

TaskStep(t) == Acquire(t) \/ Finish(t) \/ Fail(t) \/ Deliver(t)

CallStep(c) ==
  \/ Start(c)
  \/ AwaitNext(c)
  \/ GatherRaises(c)
  \/ GatherReturns(c)
  \/ CleanedUp(c)
  \/ Yield(c)
  \/ StreamRaises(c)
  \/ Resume(c)
  \/ Close(c)

Next ==
  /\ \/ \E t \in Tasks : TaskStep(t)
     \/ \E c \in Calls : CallStep(c) \/ CancelCaller(c)
  /\ UNCHANGED helper

(* The loop runs every callback, coroutines end, consumers go on or close;  *)
(* nobody need ever be cancelled.                                           *)
Fairness ==
  /\ \A t \in Tasks : WF_vars(TaskStep(t) /\ UNCHANGED helper)
  /\ \A c \in Calls : WF_vars(CallStep(c) /\ UNCHANGED helper)

Spec == Init /\ [][Next]_vars

FairSpec == Spec /\ Fairness

-----------------------------------------------------------------------------
(* Safety. *)

(* However run_ordered or stream is left, by a result, a failure, a closed  *)
(* iterator or one or two cancellations of its caller, none of its tasks is *)
(* still queued or running.                                                 *)
NothingLeftRunning == Cleans => \A c \in Calls : call[c] \in Over => Live(c) = {}

(* No more items run at once than the semaphore has permits, over all calls *)
(* that share it; cancelled and failed tasks included.                      *)
WithinBudget == \A c \in Calls : Cardinality(Holders(c)) <= Limit

(* A call that returns has heard of every item exactly once: its result, in *)
(* one list, or an error run_many collected; a cancelled item is never      *)
(* passed off as either.                                                    *)
ReturnsAll ==
  \A c \in Calls : call[c] = "returned" =>
    \A i \in Items :
      Cardinality({k \in DOMAIN result[c] : result[c][k] = i})
        = (IF task[<<c, i>>] = "done" THEN 1 ELSE 0)
      /\ task[<<c, i>>] \in {"done", "collected"}

(* Once run_ordered or stream cleans up or is over, it starts no item any   *)
(* more.                                                                    *)
NoLateStart ==
  [][Cleans => \A t \in Tasks : call[t[1]] \in Over \cup {"cleanup"} =>
       ~(task[t] # "running" /\ task'[t] = "running")]_vars

(* Every call that is made ends: permits always come back, and the slots the *)
(* callers hold are not the permits their items wait for.                    *)
CallsEnd == \A c \in Calls : call[c] # "idle" ~> call[c] \in Over

=============================================================================
