--------------------------- MODULE ProcessingProofs ---------------------------
(***************************************************************************)
(* What TLAPS proves about the processors and the helpers they run on.      *)
(*                                                                          *)
(* FanOut, for any number of calls, items and permits: type correctness;    *)
(* that run_ordered and stream leave no task behind and start none once     *)
(* they give up; and, for every helper, that the permits bound what runs    *)
(* and that a call that returns has heard of every item once.               *)
(*                                                                          *)
(* SummaryFold, the tree of run_ordered calls that summarizes a document:   *)
(* for documents, budgets and answers of any size, the summary leaves out   *)
(* only what was truncated, and no call is larger than the settings allow.  *)
(*                                                                          *)
(* HeadingLevels: whatever processors run over a document in which order,   *)
(* levels follow sizes, the title is taken out once and alone, and no       *)
(* heading changes sides with another.                                      *)
(*                                                                          *)
(* FootnoteRefs: whatever documents, footnotes and resolvers, refs are put  *)
(* where they were found, once and in order, nothing else changes, and a    *)
(* run by rules leaves nothing to find.                                     *)
(***************************************************************************)
EXTENDS FanOut, SummaryFold, HeadingLevels, FootnoteRefs,
        SequenceLemmas, SequenceTheorems, FiniteSetTheorems, TLAPS

LEMMA TaskPair ==
  ASSUME NEW t \in Tasks
  PROVE  t[1] \in Calls /\ t[2] \in Items /\ t = <<t[1], t[2]>>
  BY DEF Tasks

LEMMA WidthNat == Width \in Nat
  BY FanOutConstants

LEMMA ItemNat == \A i \in Items : i \in Nat /\ 1 <= i /\ i <= Width
  BY WidthNat DEF Items

LEMMA EarlierItem == \A i \in Items : \A j \in 1 .. i - 1 : j \in Items
  BY WidthNat DEF Items

LEMMA AppendedSeq ==
  ASSUME NEW f \in [Calls -> Seq(Items)], NEW c \in Calls, NEW i \in Items
  PROVE  [f EXCEPT ![c] = Append(@, i)] \in [Calls -> Seq(Items)]
<1>1. Append(f[c], i) \in Seq(Items)
  OBVIOUS
<1> QED
  BY <1>1

LEMMA LiveTasks ==
  ASSUME NEW c \in Calls, TypeOK
  PROVE  /\ Live(c) \in SUBSET Tasks
         /\ cancelling \cup Live(c)
              \in SUBSET {t \in Tasks : task[t] \in {"queued", "running"}}
  BY DEF TypeOK, Live

LEMMA TypeInit == Init => TypeOK
  BY DEF Init, TypeOK, Over

LEMMA TypeTask ==
  ASSUME TypeOK, NEW t \in Tasks, TaskStep(t), helper' = helper
  PROVE  TypeOK'
<1>1. t[1] \in Calls /\ t[2] \in Items
  BY TaskPair
<1>2. CASE Acquire(t)
  BY <1>2 DEF Acquire, TypeOK, Over
<1>3. CASE Finish(t)
  <2>1. ended' \in [Calls -> Seq(Items)]
    BY <1>1, <1>3, AppendedSeq DEF Finish, TypeOK
  <2>2. result' \in [Calls -> Seq(Items)]
    BY <1>1, <1>3, AppendedSeq DEF Finish, TypeOK
  <2> QED
    BY <1>3, <2>1, <2>2 DEF Finish, TypeOK, Over
<1>4. ASSUME Raise(t) PROVE TypeOK'
  <2>1. ended' \in [Calls -> Seq(Items)]
    BY <1>1, <1>4, AppendedSeq DEF Raise, TypeOK
  <2>2. call' \in [Calls -> Over \cup {"idle", "waiting", "holding", "cleanup"}]
    BY <1>1, <1>4 DEF Raise, TypeOK, Over
  <2> QED
    BY <1>4, <2>1, <2>2 DEF Raise, TypeOK
<1>5. CASE Fail(t)
  BY <1>4, <1>5 DEF Fail
<1>6. CASE Deliver(t)
  <2>1. call' \in [Calls -> Over \cup {"idle", "waiting", "holding", "cleanup"}]
    BY <1>1, <1>6 DEF Deliver, TypeOK, Over
  <2> QED
    BY <1>6, <2>1 DEF Deliver, TypeOK
<1> QED
  BY <1>2, <1>3, <1>5, <1>6 DEF TaskStep

LEMMA TypeLeave ==
  ASSUME TypeOK, NEW c \in Calls, Leave(c), helper' = helper
  PROVE  TypeOK'
  BY LiveTasks DEF Leave, Cancel, TypeOK, Over

LEMMA TypeCall ==
  ASSUME TypeOK, NEW c \in Calls, CallStep(c) \/ CancelCaller(c), helper' = helper
  PROVE  TypeOK'
<1>1. CASE Start(c)
  BY <1>1 DEF Start, TypeOK, Over
<1>2. CASE AwaitNext(c)
  <2>1. PICK i \in Items : task[<<c, i>>] = "none"
                           /\ task' = [task EXCEPT ![<<c, i>>] = "running"]
    BY <1>2 DEF AwaitNext
  <2>2. <<c, i>> \notin cancelling
    BY <2>1 DEF TypeOK
  <2>3. task' \in [Tasks -> {"none", "queued", "running", "done", "failed", "collected",
                             "cancelled"}]
    BY <2>1 DEF TypeOK
  <2>4. \A t \in cancelling : task'[t] = task[t]
    BY <2>1, <2>2 DEF TypeOK
  <2> QED
    BY <1>2, <2>3, <2>4 DEF AwaitNext, TypeOK, Over
<1>3. CASE GatherRaises(c)
  BY <1>3, TypeLeave DEF GatherRaises, TypeOK, Over
<1>4. CASE GatherReturns(c)
  <2>1. [i \in Items |-> i] \in Seq(Items)
    BY WidthNat DEF Items
  <2>2. result' \in [Calls -> Seq(Items)]
    BY <1>4, <2>1 DEF GatherReturns, TypeOK
  <2> QED
    BY <1>4, <2>2 DEF GatherReturns, TypeOK, Over
<1>5. CASE CleanedUp(c)
  BY <1>5 DEF CleanedUp, TypeOK, Over
<1>6. CASE Yield(c)
  <2>1. result[c] \in Seq(Items) /\ ended[c] \in Seq(Items)
    BY DEF TypeOK
  <2>2. Len(result[c]) + 1 \in 1 .. Len(ended[c])
    BY <1>6, <2>1 DEF Yield, Arrived
  <2>3. NextEnded(c) \in Items
    BY <2>1, <2>2 DEF NextEnded
  <2>4. result' \in [Calls -> Seq(Items)]
    BY <1>6, <2>3 DEF Yield, TypeOK
  <2> QED
    BY <1>6, <2>4 DEF Yield, TypeOK, Over
<1>7. CASE StreamRaises(c)
  BY <1>7, TypeLeave DEF StreamRaises
<1>8. CASE Resume(c)
  BY <1>8 DEF Resume, TypeOK, Over
<1>9. CASE Close(c)
  BY <1>9, TypeLeave DEF Close
<1>10. CASE CancelCaller(c)
  BY <1>10, TypeLeave, LiveTasks DEF CancelCaller, Cancel, TypeOK, Over
<1> QED
  BY <1>1, <1>2, <1>3, <1>4, <1>5, <1>6, <1>7, <1>8, <1>9, <1>10 DEF CallStep

(* Type correctness; no task that is over awaits a CancelledError. *)
THEOREM FanOutTypeCorrect == Spec => []TypeOK
<1>1. ASSUME TypeOK, [Next]_vars PROVE TypeOK'
  BY <1>1, TypeTask, TypeCall DEF Next, vars, TypeOK
<1> QED
  BY TypeInit, <1>1, PTL DEF Spec

-----------------------------------------------------------------------------
(* The items of a sequential call run one after another. *)
SeqInv ==
  Sequential => \A c \in Calls : \A i \in Items :
    /\ task[<<c, i>>] # "queued"
    /\ task[<<c, i>>] = "running" => \A j \in 1 .. i - 1 : task[<<c, j>>] = "done"

(* What the tasks of a call are up to, by what the call is doing. *)
PhaseInv ==
  Cleans => \A c \in Calls :
    /\ call[c] = "idle" => \A i \in Items : task[<<c, i>>] = "none"
    /\ call[c] \in Over => \A i \in Items : task[<<c, i>>] \notin {"queued", "running"}
    /\ call[c] = "cleanup" => \A i \in Items :
         task[<<c, i>>] \in {"queued", "running"} => <<c, i>> \in cancelling

(* What a stream yields has been done. *)
YieldInv ==
  helper = "stream" =>
    \A c \in Calls : \A k \in DOMAIN result[c] : task[<<c, result[c][k]>>] = "done"

FanInv == TypeOK /\ SeqInv /\ PhaseInv /\ YieldInv

LEMMA FanInit == Init => FanInv
  BY TypeInit DEF Init, FanInv, SeqInv, PhaseInv, YieldInv, Over, Tasks

LEMMA LiveOf ==
  ASSUME NEW c \in Calls
  PROVE  /\ \A i \in Items : <<c, i>> \in Live(c) <=> task[<<c, i>>] \in {"queued", "running"}
         /\ Live(c) = {} <=> \A i \in Items : task[<<c, i>>] \notin {"queued", "running"}
<1>1. \A i \in Items : <<c, i>> \in Tasks
  BY DEF Tasks
<1>2. \A t \in Live(c) : \E i \in Items : t = <<c, i>> /\ task[t] \in {"queued", "running"}
  BY TaskPair DEF Live
<1>3. \A i \in Items : <<c, i>> \in Live(c) <=> task[<<c, i>>] \in {"queued", "running"}
  BY <1>1 DEF Live
<1> QED
  BY <1>2, <1>3

(* A task step changes one task, which was live. *)
LEMMA TaskChanges ==
  ASSUME FanInv, NEW t \in Tasks, TaskStep(t), helper' = helper
  PROVE  /\ task[t] \in {"queued", "running"}
         /\ \E s \in {"running", "done", "failed", "collected", "cancelled"} :
              task' = [task EXCEPT ![t] = s]
         /\ task'[t] = "running" => task[t] = "queued" /\ t \notin cancelling
         /\ cancelling' \in {cancelling, cancelling \ {t}}
         /\ task'[t] = "running" => cancelling' = cancelling
         /\ call' = call \/ (Sequential /\ call' = [call EXCEPT ![t[1]] = "raised"]
                             /\ task'[t] # "running")
         /\ helper = "stream" => result' = result
<1>1. t \in DOMAIN task
  BY DEF FanInv, TypeOK
<1>2. CASE Acquire(t)
  BY <1>1, <1>2 DEF Acquire
<1>3. CASE Finish(t)
  BY <1>1, <1>3 DEF Finish
<1>4. ASSUME Raise(t), task[t] \in {"queued", "running"} PROVE
         /\ \E s \in {"running", "done", "failed", "collected", "cancelled"} :
              task' = [task EXCEPT ![t] = s]
         /\ task'[t] # "running"
         /\ cancelling' \in {cancelling, cancelling \ {t}}
         /\ call' = call \/ (Sequential /\ call' = [call EXCEPT ![t[1]] = "raised"])
         /\ result' = result
  BY <1>1, <1>4 DEF Raise
<1>5. CASE Fail(t)
  BY <1>4, <1>5 DEF Fail
<1>6. CASE Deliver(t)
  BY <1>1, <1>6 DEF Deliver, FanInv, TypeOK
<1> QED
  BY <1>2, <1>3, <1>5, <1>6 DEF TaskStep

LEMMA FanTask ==
  ASSUME FanInv, NEW t \in Tasks, TaskStep(t), helper' = helper
  PROVE  FanInv'
<1>1. TypeOK'
  BY TypeTask DEF FanInv
<1>2. PICK s \in {"running", "done", "failed", "collected", "cancelled"} :
        task' = [task EXCEPT ![t] = s]
  BY TaskChanges
<1>3. task'[t] = s /\ \A u \in Tasks : u # t => task'[u] = task[u]
  BY <1>2 DEF FanInv, TypeOK
<1>4. \A c \in Calls, i \in Items : <<c, i>> \in Tasks /\ (<<c, i>> = t <=> c = t[1] /\ i = t[2])
  BY TaskPair DEF Tasks
<1>5. t[1] \in Calls /\ t[2] \in Items /\ task[t] \in {"queued", "running"}
  BY TaskPair, TaskChanges
<1>6. s = "running" => task[t] = "queued"
  BY <1>3, TaskChanges
<1>7. SeqInv'
  <2> SUFFICES ASSUME Sequential, NEW c \in Calls, NEW i \in Items
               PROVE  /\ task'[<<c, i>>] # "queued"
                      /\ task'[<<c, i>>] = "running" =>
                           \A j \in 1 .. i - 1 : task'[<<c, j>>] = "done"
    BY DEF SeqInv, Sequential
  <2>1. task[t] = "running" /\ s # "running"
    BY <1>4, <1>5, <1>6 DEF FanInv, SeqInv
  <2>2. task'[<<c, i>>] # "queued"
    BY <1>3, <1>4 DEF FanInv, SeqInv
  <2>3. ASSUME task'[<<c, i>>] = "running", NEW j \in 1 .. i - 1
        PROVE  task'[<<c, j>>] = "done"
    <3>1. j \in Items
      BY EarlierItem
    <3>2. task[<<c, i>>] = "running"
      BY <2>1, <2>3, <1>3, <1>4
    <3>3. task[<<c, j>>] = "done"
      BY <3>2 DEF FanInv, SeqInv
    <3> QED
      BY <3>1, <3>3, <2>1, <1>3, <1>4
  <2> QED
    BY <2>2, <2>3
<1>8. PhaseInv'
  <2> SUFFICES ASSUME Cleans, NEW c \in Calls
               PROVE  /\ call'[c] = "idle" => \A i \in Items : task'[<<c, i>>] = "none"
                      /\ call'[c] \in Over =>
                           \A i \in Items : task'[<<c, i>>] \notin {"queued", "running"}
                      /\ call'[c] = "cleanup" => \A i \in Items :
                           task'[<<c, i>>] \in {"queued", "running"} => <<c, i>> \in cancelling'
    BY DEF PhaseInv, Cleans
  <2>1. CASE call'[c] = call[c]
    <3>1. ASSUME call[c] = "idle", NEW i \in Items PROVE task'[<<c, i>>] = "none"
      <4>1. task[<<c, i>>] = "none"
        BY <3>1 DEF FanInv, PhaseInv
      <4> QED
        BY <4>1, <1>3, <1>4, <1>5
    <3>2. ASSUME call[c] \in Over, NEW i \in Items
          PROVE  task'[<<c, i>>] \notin {"queued", "running"}
      <4>1. task[<<c, i>>] \notin {"queued", "running"}
        BY <3>2 DEF FanInv, PhaseInv
      <4> QED
        BY <4>1, <1>3, <1>4, <1>5
    <3>3. ASSUME call[c] = "cleanup", NEW i \in Items,
                 task'[<<c, i>>] \in {"queued", "running"}
          PROVE  <<c, i>> \in cancelling'
      <4>1. CASE <<c, i>> = t
        <5>1. task[<<c, i>>] \in {"queued", "running"} /\ s = "running"
          BY <4>1, <1>3, <1>5, <3>3
        <5>2. t \in cancelling
          BY <4>1, <5>1, <3>3 DEF FanInv, PhaseInv
        <5> QED
          BY <5>1, <5>2, <1>3, TaskChanges
      <4>2. CASE <<c, i>> # t
        <5>1. <<c, i>> \in cancelling
          BY <4>2, <3>3, <1>3, <1>4 DEF FanInv, PhaseInv
        <5> QED
          BY <4>2, <5>1, TaskChanges
      <4> QED
        BY <4>1, <4>2
    <3> QED
      BY <2>1, <3>1, <3>2, <3>3
  <2>2. CASE call'[c] # call[c]
    <3>1. Sequential /\ call' = [call EXCEPT ![t[1]] = "raised"] /\ s # "running"
      BY <2>2, <1>3, TaskChanges
    <3>2. c = t[1] /\ call'[c] = "raised"
      BY <2>2, <3>1 DEF FanInv, TypeOK
    <3>3. task[t] = "running"
      BY <3>1, <1>4, <1>5 DEF FanInv, SeqInv
    <3>4. ASSUME NEW i \in Items PROVE task'[<<c, i>>] \notin {"queued", "running"}
      <4>1. CASE i = t[2]
        BY <4>1, <3>1, <3>2, <1>3, <1>4
      <4>2. CASE i # t[2]
        <5>1. task'[<<c, i>>] = task[<<c, i>>]
          BY <4>2, <1>3, <1>4
        <5>2. task[<<c, i>>] # "queued"
          BY <3>1 DEF FanInv, SeqInv
        <5>3. ~(task[<<c, i>>] = "running")
          <6> SUFFICES ASSUME task[<<c, i>>] = "running" PROVE FALSE
            OBVIOUS
          <6>1. task[<<c, t[2]>>] = "running"
            BY <3>2, <3>3, TaskPair
          <6>2. i < t[2] \/ t[2] < i
            BY <4>2, <1>5, ItemNat
          <6>3. CASE i < t[2]
            <7>1. i \in 1 .. t[2] - 1
              BY <6>3, <1>5, ItemNat
            <7> QED
              BY <7>1, <6>1, <1>5, <3>1 DEF FanInv, SeqInv
          <6>4. CASE t[2] < i
            <7>1. t[2] \in 1 .. i - 1
              BY <6>4, <1>5, ItemNat
            <7> QED
              BY <7>1, <6>1, <1>5, <3>1 DEF FanInv, SeqInv
          <6> QED
            BY <6>2, <6>3, <6>4
        <5> QED
          BY <5>1, <5>2, <5>3
      <4> QED
        BY <4>1, <4>2
    <3> QED
      BY <3>2, <3>4 DEF Over
  <2> QED
    BY <2>1, <2>2
<1>9. YieldInv'
  <2> SUFFICES ASSUME helper = "stream", NEW c \in Calls, NEW k \in DOMAIN result'[c]
               PROVE  task'[<<c, result'[c][k]>>] = "done"
    BY DEF YieldInv
  <2>1. result' = result
    BY TaskChanges
  <2>2. task[<<c, result[c][k]>>] = "done"
    BY <2>1 DEF FanInv, YieldInv
  <2>3. result[c][k] \in Items
    BY <2>1 DEF FanInv, TypeOK
  <2> QED
    BY <2>1, <2>2, <2>3, <1>3, <1>4, <1>5
<1> QED
  BY <1>1, <1>7, <1>8, <1>9 DEF FanInv

(* A call that gives up cancels what is live. *)
LEMMA FanLeave ==
  ASSUME FanInv, NEW c \in Calls, Leave(c), helper' = helper
  PROVE  FanInv'
<1>1. TypeOK'
  BY TypeLeave DEF FanInv
<1>2. SeqInv' /\ YieldInv'
  BY DEF FanInv, SeqInv, YieldInv, Leave, Sequential
<1>3. PhaseInv'
  <2> SUFFICES ASSUME Cleans, NEW d \in Calls
               PROVE  /\ call'[d] = "idle" => \A i \in Items : task'[<<d, i>>] = "none"
                      /\ call'[d] \in Over =>
                           \A i \in Items : task'[<<d, i>>] \notin {"queued", "running"}
                      /\ call'[d] = "cleanup" => \A i \in Items :
                           task'[<<d, i>>] \in {"queued", "running"} => <<d, i>> \in cancelling'
    BY DEF PhaseInv, Cleans
  <2>1. task' = task /\ cancelling' = cancelling \cup Live(c)
    BY DEF Leave, Cancel
  <2>2. CASE d = c
    <3>1. call'[d] = "cleanup"
      BY <2>2 DEF Leave, FanInv, TypeOK
    <3> QED
      BY <2>1, <2>2, <3>1, LiveOf DEF Over
  <2>3. CASE d # c
    <3>1. call'[d] = call[d]
      BY <2>3 DEF Leave, FanInv, TypeOK
    <3> QED
      BY <2>1, <3>1 DEF FanInv, PhaseInv
  <2> QED
    BY <2>2, <2>3
<1> QED
  BY <1>1, <1>2, <1>3 DEF FanInv

(* A step of the caller that changes no task and cancels none. *)
LEMMA FanMove ==
  ASSUME FanInv, TypeOK', NEW c \in Calls, NEW p,
         call' = [call EXCEPT ![c] = p], p # "idle", p # "cleanup",
         Cleans /\ p \in Over => Live(c) = {},
         task' = task, cancelling' = cancelling, helper' = helper, YieldInv'
  PROVE  FanInv'
<1>1. SeqInv'
  BY DEF FanInv, SeqInv, Sequential
<1>2. PhaseInv'
  <2> SUFFICES ASSUME Cleans, NEW d \in Calls
               PROVE  /\ call'[d] = "idle" => \A i \in Items : task'[<<d, i>>] = "none"
                      /\ call'[d] \in Over =>
                           \A i \in Items : task'[<<d, i>>] \notin {"queued", "running"}
                      /\ call'[d] = "cleanup" => \A i \in Items :
                           task'[<<d, i>>] \in {"queued", "running"} => <<d, i>> \in cancelling'
    BY DEF PhaseInv, Cleans
  <2>1. CASE d = c
    <3>1. call'[d] = p
      BY <2>1 DEF FanInv, TypeOK
    <3> QED
      BY <2>1, <3>1, LiveOf
  <2>2. CASE d # c
    <3>1. call'[d] = call[d]
      BY <2>2 DEF FanInv, TypeOK
    <3> QED
      BY <3>1 DEF FanInv, PhaseInv
  <2> QED
    BY <2>1, <2>2
<1> QED
  BY <1>1, <1>2 DEF FanInv

LEMMA FanStart ==
  ASSUME FanInv, TypeOK', NEW c \in Calls, Start(c), helper' = helper
  PROVE  FanInv'
<1>t. TypeOK
  BY DEF FanInv
<1>1. SeqInv'
  BY DEF Start, FanInv, SeqInv, Sequential
<1>2. YieldInv'
  <2> SUFFICES ASSUME helper = "stream", NEW d \in Calls, NEW k \in DOMAIN result[d]
               PROVE  task'[<<d, result[d][k]>>] = "done"
    BY DEF Start, YieldInv
  <2>1. result[d][k] \in Items /\ <<d, result[d][k]>> \in Tasks
    BY <1>t DEF TypeOK, Tasks
  <2>2. task[<<d, result[d][k]>>] = "done"
    BY DEF FanInv, YieldInv
  <2>3. d # c
    BY <2>1, <2>2 DEF Start, FanInv, PhaseInv, Cleans
  <2> QED
    BY <2>1, <2>2, <2>3 DEF Start, Sequential
<1>3. PhaseInv'
  <2> SUFFICES ASSUME Cleans, NEW d \in Calls
               PROVE  /\ call'[d] = "idle" => \A i \in Items : task'[<<d, i>>] = "none"
                      /\ call'[d] \in Over =>
                           \A i \in Items : task'[<<d, i>>] \notin {"queued", "running"}
                      /\ call'[d] = "cleanup" => \A i \in Items :
                           task'[<<d, i>>] \in {"queued", "running"} => <<d, i>> \in cancelling'
    BY DEF PhaseInv, Cleans
  <2>1. CASE d = c
    <3>1. call'[d] = "waiting"
      BY <1>t, <2>1 DEF Start, TypeOK
    <3> QED
      BY <3>1 DEF Over
  <2>2. CASE d # c
    <3>1. call'[d] = call[d] /\ cancelling' = cancelling
      BY <1>t, <2>2 DEF Start, TypeOK
    <3>2. \A i \in Items : task'[<<d, i>>] = task[<<d, i>>]
      BY <2>2 DEF Start, Tasks
    <3> QED
      BY <3>1, <3>2 DEF FanInv, PhaseInv
  <2> QED
    BY <2>1, <2>2
<1> QED
  BY <1>1, <1>2, <1>3 DEF FanInv

LEMMA FanAwait ==
  ASSUME FanInv, TypeOK', NEW c \in Calls, AwaitNext(c), helper' = helper
  PROVE  FanInv'
<1>t. TypeOK
  BY DEF FanInv
<1>1. PICK i \in Items :
        /\ task[<<c, i>>] = "none"
        /\ \A j \in 1 .. i - 1 : task[<<c, j>>] = "done"
        /\ task' = [task EXCEPT ![<<c, i>>] = "running"]
  BY DEF AwaitNext
<1>2. \A d \in Calls, j \in Items :
        task'[<<d, j>>] = IF d = c /\ j = i THEN "running" ELSE task[<<d, j>>]
  BY <1>1, <1>t DEF TypeOK, Tasks
<1>3. SeqInv'
  <2> SUFFICES ASSUME Sequential, NEW d \in Calls, NEW j \in Items
               PROVE  /\ task'[<<d, j>>] # "queued"
                      /\ task'[<<d, j>>] = "running" =>
                           \A k \in 1 .. j - 1 : task'[<<d, k>>] = "done"
    BY DEF SeqInv, Sequential
  <2>1. task'[<<d, j>>] # "queued"
    BY <1>2 DEF FanInv, SeqInv
  <2>2. ASSUME task'[<<d, j>>] = "running", NEW k \in 1 .. j - 1
        PROVE  task'[<<d, k>>] = "done"
    <3>1. k \in Items
      BY EarlierItem
    <3>2. task[<<d, k>>] = "done"
      <4>1. CASE d = c /\ j = i
        BY <4>1, <1>1
      <4>2. CASE ~(d = c /\ j = i)
        BY <4>2, <2>2, <1>2 DEF FanInv, SeqInv
      <4> QED
        BY <4>1, <4>2
    <3> QED
      BY <3>1, <3>2, <1>1, <1>2
  <2> QED
    BY <2>1, <2>2
<1>4. YieldInv'
  BY DEF AwaitNext, Sequential, YieldInv
<1>5. PhaseInv'
  <2>1. call' = call /\ cancelling' = cancelling /\ call[c] = "waiting"
    BY DEF AwaitNext
  <2> QED
    BY <1>2, <2>1 DEF FanInv, PhaseInv, Cleans, Over
<1> QED
  BY <1>3, <1>4, <1>5 DEF FanInv

LEMMA FanCall ==
  ASSUME FanInv, NEW c \in Calls, CallStep(c) \/ CancelCaller(c), helper' = helper
  PROVE  FanInv'
<1>t. TypeOK' /\ TypeOK
  BY TypeCall DEF FanInv
<1>1. CASE Start(c)
  BY <1>t, <1>1, FanStart
<1>2. CASE AwaitNext(c)
  BY <1>t, <1>2, FanAwait
<1>3. CASE GatherRaises(c)
  <2>1. CASE Cleans
    BY <1>3, <2>1, FanLeave DEF GatherRaises
  <2>2. CASE ~Cleans
    <3>1. YieldInv' /\ ~Cleans
      BY <1>3, <2>2 DEF GatherRaises, Gathers, YieldInv
    <3> QED
      BY <1>3, <1>t, <2>2, <3>1, FanMove DEF GatherRaises
  <2> QED
    BY <2>1, <2>2
<1>4. CASE GatherReturns(c)
  <2>1. Live(c) = {}
    BY <1>4, LiveOf DEF GatherReturns, AllOver
  <2>2. YieldInv'
    BY <1>4 DEF GatherReturns, Gathers, YieldInv
  <2> QED
    BY <1>4, <1>t, <2>1, <2>2, FanMove DEF GatherReturns
<1>5. CASE CleanedUp(c)
  <2>1. YieldInv'
    BY <1>5 DEF CleanedUp, FanInv, YieldInv
  <2> QED
    BY <1>5, <1>t, <2>1, FanMove DEF CleanedUp
<1>6. CASE Yield(c)
  <2>1. YieldInv'
    <3> SUFFICES ASSUME helper = "stream", NEW d \in Calls, NEW k \in DOMAIN result'[d]
                 PROVE  task[<<d, result'[d][k]>>] = "done"
      BY <1>6 DEF Yield, YieldInv
    <3>1. CASE d = c
      <4>1. result'[c] = Append(result[c], NextEnded(c)) /\ result[c] \in Seq(Items)
        BY <1>6, <1>t DEF Yield, TypeOK
      <4>2. task[<<c, NextEnded(c)>>] = "done"
        BY <1>6 DEF Yield
      <4>3. CASE k \in DOMAIN result[c]
        <5>1. result'[c][k] = result[c][k]
          BY <4>1, <4>3
        <5> QED
          BY <3>1, <4>3, <5>1 DEF FanInv, YieldInv
      <4>4. CASE k \notin DOMAIN result[c]
        <5>1. result'[c][k] = NextEnded(c)
          BY <3>1, <4>1, <4>4
        <5> QED
          BY <3>1, <4>2, <5>1
      <4> QED
        BY <4>3, <4>4
    <3>2. CASE d # c
      <4>1. result'[d] = result[d]
        BY <1>6, <1>t, <3>2 DEF Yield, TypeOK
      <4> QED
        BY <4>1 DEF FanInv, YieldInv
    <3> QED
      BY <3>1, <3>2
  <2> QED
    BY <1>6, <1>t, <2>1, FanMove DEF Yield, Over
<1>7. CASE StreamRaises(c)
  BY <1>7, FanLeave DEF StreamRaises
<1>8. CASE Resume(c)
  <2>1. PICK p \in {"returned", "waiting"} :
          call' = [call EXCEPT ![c] = p] /\ (p = "returned" => AllTaken(c))
    BY <1>8 DEF Resume
  <2>2. ASSUME p \in Over PROVE Live(c) = {}
    <3>1. ASSUME NEW i \in Items PROVE task[<<c, i>>] = "done"
      <4>1. PICK k \in DOMAIN result[c] : result[c][k] = i
        BY <2>1, <2>2 DEF AllTaken, Over
      <4> QED
        BY <4>1, <1>8 DEF FanInv, YieldInv, Resume
    <3> QED
      BY <3>1, LiveOf
  <2>3. YieldInv'
    BY <1>8 DEF Resume, FanInv, YieldInv
  <2> QED
    BY <1>8, <1>t, <2>1, <2>2, <2>3, FanMove DEF Resume
<1>9. CASE Close(c)
  BY <1>9, FanLeave DEF Close
<1>10. CASE CancelCaller(c)
  <2>1. CASE call[c] = "waiting" /\ helper = "stream"
    BY <1>10, <2>1, FanLeave DEF CancelCaller
  <2>2. CASE ~(call[c] = "waiting" /\ helper = "stream") /\ Live(c) = {}
    <3>1. YieldInv'
      BY <1>10, <2>2 DEF CancelCaller, FanInv, YieldInv
    <3> QED
      BY <1>10, <1>t, <2>2, <3>1, FanMove DEF CancelCaller
  <2>3. CASE ~(call[c] = "waiting" /\ helper = "stream") /\ Live(c) # {}
    <3>1. cancelling' = cancelling \cup Live(c) /\ call' = call /\ task' = task
          /\ result' = result
      BY <1>10, <2>3 DEF CancelCaller, Cancel
    <3> QED
      BY <1>t, <3>1 DEF FanInv, SeqInv, PhaseInv, Cleans, YieldInv, Sequential
  <2> QED
    BY <2>1, <2>2, <2>3
<1> QED
  BY <1>1, <1>2, <1>3, <1>4, <1>5, <1>6, <1>7, <1>8, <1>9, <1>10 DEF CallStep

LEMMA FanStep == FanInv /\ [Next]_vars => FanInv'
<1> SUFFICES ASSUME FanInv, [Next]_vars PROVE FanInv'
  OBVIOUS
<1>1. CASE UNCHANGED vars
  <2>1. TypeOK'
    BY <1>1 DEF vars, FanInv, TypeOK
  <2>2. SeqInv' /\ YieldInv'
    BY <1>1 DEF vars, FanInv, SeqInv, YieldInv, Sequential
  <2>3. PhaseInv'
    BY <1>1 DEF vars, FanInv, PhaseInv, Cleans
  <2> QED
    BY <2>1, <2>2, <2>3 DEF FanInv
<1> QED
  BY <1>1, FanTask, FanCall DEF Next

(* However run_ordered or stream is left, none of its tasks is still queued *)
(* or running.                                                              *)
THEOREM NothingRunsOn == Spec => []NothingLeftRunning
<1>1. FanInv => NothingLeftRunning
  BY LiveOf DEF FanInv, PhaseInv, NothingLeftRunning
<1> QED
  BY FanInit, FanStep, <1>1, PTL DEF Spec

Quiet ==
  Cleans => \A t \in Tasks : call[t[1]] \in Over \cup {"cleanup"} =>
    ~(task[t] # "running" /\ task'[t] = "running")

LEMMA QuietStep ==
  ASSUME FanInv, [Next]_vars
  PROVE  Quiet
<1> SUFFICES ASSUME Cleans, NEW t \in Tasks, call[t[1]] \in Over \cup {"cleanup"},
                    task[t] # "running", task'[t] = "running"
             PROVE  FALSE
  BY DEF Quiet
<1>1. t[1] \in Calls /\ t[2] \in Items /\ t = <<t[1], t[2]>>
  BY TaskPair
<1>0. helper' = helper
  BY DEF Next, vars
<1>2. ~(task[t] = "queued" /\ t \notin cancelling)
  BY <1>1 DEF FanInv, PhaseInv
<1>3. ASSUME NEW u \in Tasks, TaskStep(u) PROVE FALSE
  <2>1. PICK s : task' = [task EXCEPT ![u] = s]
    BY <1>0, <1>3, TaskChanges
  <2>2. u = t
    BY <2>1 DEF FanInv, TypeOK
  <2> QED
    BY <1>0, <1>2, <1>3, <2>2, TaskChanges
<1>4. ASSUME NEW c \in Calls, CallStep(c) \/ CancelCaller(c) PROVE FALSE
  <2>1. task' # task
    OBVIOUS
  <2>2. Start(c) \/ AwaitNext(c)
    BY <1>4, <2>1 DEF CallStep, CancelCaller, GatherRaises, GatherReturns, CleanedUp, Yield,
                      StreamRaises, Resume, Close, Leave
  <2>3. CASE Start(c)
    BY <2>3 DEF Start
  <2>4. CASE AwaitNext(c)
    <3>1. call[c] = "waiting" /\ \E i \in Items : task' = [task EXCEPT ![<<c, i>>] = "running"]
      BY <2>4 DEF AwaitNext
    <3>2. t[1] = c
      BY <3>1, <1>1 DEF FanInv, TypeOK, Tasks
    <3> QED
      BY <3>1, <3>2 DEF Over
  <2> QED
    BY <2>2, <2>3, <2>4
<1> QED
  BY <1>3, <1>4 DEF Next, vars

(* Once run_ordered or stream cleans up or is over, it starts no item. *)
THEOREM NothingStartsLate == Spec => NoLateStart
<1>1. FanInv /\ [Next]_vars => [Quiet]_vars
  BY QuietStep
<1>2. Spec => [][Quiet]_vars
  BY FanInit, FanStep, <1>1, PTL DEF Spec
<1> QED
  BY <1>2 DEF NoLateStart, Quiet

-----------------------------------------------------------------------------
(* The budget. *)

LEMMA TasksFinite == IsFiniteSet(Tasks)
<1>1. IsFiniteSet(Items)
  BY WidthNat, FS_Interval DEF Items
<1> QED
  BY <1>1, FanOutConstants, FS_Product DEF Tasks

LEMMA HoldersFinite ==
  ASSUME NEW c
  PROVE  IsFiniteSet(Holders(c)) /\ Cardinality(Holders(c)) \in Nat
  BY TasksFinite, FS_Subset, FS_CardinalityType DEF Holders

LEMMA BudgetTask ==
  ASSUME FanInv, WithinBudget, NEW t \in Tasks, TaskStep(t), helper' = helper
  PROVE  WithinBudget'
<1> SUFFICES ASSUME NEW c \in Calls PROVE Cardinality(Holders(c)') <= Limit
  BY DEF WithinBudget
<1>0. Limit \in Nat
  BY FanOutConstants
<1>1. \A u \in Tasks : u # t => task'[u] = task[u]
  BY TaskChanges DEF FanInv, TypeOK
<1>2. Holders(c)' \subseteq Holders(c) \cup {t}
  BY <1>1 DEF Holders, Sequential
<1>3. CASE t \notin Holders(c)'
  <2>1. Holders(c)' \subseteq Holders(c)
    BY <1>2, <1>3
  <2>2. Cardinality(Holders(c)') <= Cardinality(Holders(c)) /\ Cardinality(Holders(c)') \in Nat
    BY <2>1, HoldersFinite, FS_Subset, FS_CardinalityType
  <2> QED
    BY <1>0, <2>2, HoldersFinite DEF WithinBudget
<1>4. CASE t \in Holders(c)'
  <2>1. task'[t] = "running" /\ (t[1] = c \/ (Shared /\ ~Sequential))
    BY <1>4 DEF Holders, Sequential
  <2>2. Acquire(t)
    BY <2>1 DEF TaskStep, Acquire, Finish, Fail, Raise, Deliver, FanInv, TypeOK
  <2>3. Holders(t[1]) = Holders(c)
    BY <2>1 DEF Holders
  <2>4. Cardinality(Holders(c)) < Limit
    BY <2>2, <2>3 DEF Acquire, FreePermit
  <2>5. t \notin Holders(c)
    BY <2>2 DEF Acquire, Holders
  <2>6. Cardinality(Holders(c) \cup {t}) = Cardinality(Holders(c)) + 1
    BY <2>5, HoldersFinite, FS_AddElement
  <2>7. IsFiniteSet(Holders(c) \cup {t})
    BY HoldersFinite, FS_AddElement
  <2>8. Cardinality(Holders(c)') <= Cardinality(Holders(c) \cup {t})
    BY <1>2, <2>7, FS_Subset
  <2>9. Cardinality(Holders(c)') \in Nat
    BY <1>2, <2>7, FS_Subset, FS_CardinalityType
  <2> QED
    BY <1>0, <2>4, <2>6, <2>8, <2>9, HoldersFinite
<1> QED
  BY <1>3, <1>4

LEMMA BudgetCall ==
  ASSUME FanInv, WithinBudget, NEW c \in Calls, CallStep(c) \/ CancelCaller(c), helper' = helper
  PROVE  WithinBudget'
<1> SUFFICES ASSUME NEW d \in Calls PROVE Cardinality(Holders(d)') <= Limit
  BY DEF WithinBudget
<1>0. Limit \in Nat /\ Limit # 0
  BY FanOutConstants
<1>1. CASE AwaitNext(c)
  <2>1. Sequential
    BY <1>1 DEF AwaitNext, Sequential
  <2>2. PICK i \in Items :
          /\ task[<<c, i>>] = "none"
          /\ \A j \in 1 .. i - 1 : task[<<c, j>>] = "done"
          /\ task' = [task EXCEPT ![<<c, i>>] = "running"]
    BY <1>1 DEF AwaitNext
  <2>3. \A e \in Calls, j \in Items :
          task'[<<e, j>>] = IF e = c /\ j = i THEN "running" ELSE task[<<e, j>>]
    BY <2>2 DEF FanInv, TypeOK, Tasks
  <2>4. CASE d = c
    <3>1. ASSUME NEW j \in Items, task[<<c, j>>] = "running" PROVE FALSE
      <4>1. i < j \/ i = j \/ j < i
        BY ItemNat
      <4>2. CASE i < j
        <5>1. i \in 1 .. j - 1
          BY <4>2, ItemNat
        <5> QED
          BY <5>1, <3>1, <2>1, <2>2 DEF FanInv, SeqInv
      <4>3. CASE j < i
        <5>1. j \in 1 .. i - 1
          BY <4>3, ItemNat
        <5> QED
          BY <5>1, <3>1, <2>2
      <4> QED
        BY <4>1, <4>2, <4>3, <3>1, <2>2
    <3>2. ASSUME NEW t \in Holders(d)' PROVE t = <<c, i>>
      <4>1. t \in Tasks /\ t[1] = c /\ task'[t] = "running"
        BY <2>1, <2>4 DEF Holders, Sequential
      <4> QED
        BY <2>3, <3>1, <4>1, TaskPair
    <3>3. Holders(d)' \subseteq {<<c, i>>}
      BY <3>2
    <3>4. IsFiniteSet({<<c, i>>}) /\ Cardinality({<<c, i>>}) = 1
      BY FS_Singleton
    <3>5. Cardinality(Holders(d)') <= 1 /\ Cardinality(Holders(d)') \in Nat
      BY <3>3, <3>4, FS_Subset, FS_CardinalityType
    <3> QED
      BY <1>0, <3>5
  <2>5. CASE d # c
    <3>1. \A t \in Tasks : t[1] = d => task'[t] = task[t]
      BY <2>3, <2>5, TaskPair
    <3>2. Holders(d)' = Holders(d)
      BY <2>1, <3>1 DEF Holders, Sequential
    <3> QED
      BY <3>2 DEF WithinBudget
  <2> QED
    BY <2>4, <2>5
<1>2. CASE ~AwaitNext(c)
  <2>1. \A t \in Tasks : task'[t] = "running" => task[t] = "running"
    BY <1>2 DEF CallStep, CancelCaller, Start, GatherRaises, GatherReturns, CleanedUp, Yield,
                StreamRaises, Resume, Close, Leave
  <2>2. Holders(d)' \subseteq Holders(d)
    BY <2>1 DEF Holders, Sequential
  <2>3. Cardinality(Holders(d)') <= Cardinality(Holders(d)) /\ Cardinality(Holders(d)') \in Nat
    BY <2>2, HoldersFinite, FS_Subset, FS_CardinalityType
  <2> QED
    BY <1>0, <2>3, HoldersFinite DEF WithinBudget
<1> QED
  BY <1>1, <1>2

(* Over all calls that share a semaphore, or in each call with one of its   *)
(* own, no more items run at once than it has permits.                      *)
THEOREM BudgetKept == Spec => []WithinBudget
<1>1. Init => WithinBudget
  <2> SUFFICES ASSUME Init, NEW c \in Calls PROVE Cardinality(Holders(c)) <= Limit
    BY DEF WithinBudget
  <2>1. Holders(c) = {}
    BY DEF Init, Holders
  <2> QED
    <3>1. Cardinality(Holders(c)) = 0
      BY <2>1, FS_EmptySet
    <3>2. Limit \in Nat
      BY FanOutConstants
    <3> QED
      BY <3>1, <3>2
<1>2. FanInv /\ WithinBudget /\ [Next]_vars => WithinBudget'
  <2> SUFFICES ASSUME FanInv, WithinBudget, [Next]_vars PROVE WithinBudget'
    OBVIOUS
  <2>1. CASE UNCHANGED vars
    BY <2>1 DEF vars, WithinBudget, Holders, Sequential
  <2> QED
    BY <2>1, BudgetTask, BudgetCall DEF Next
<1> QED
  BY FanInit, FanStep, <1>1, <1>2, PTL DEF Spec

-----------------------------------------------------------------------------
(* The results. *)

Once(q) == \A k, l \in DOMAIN q : q[k] = q[l] => k = l

Collects == helper \in {"run_many", "run_many skip"}

(* What has been heard of the items of a call so far: a stream has taken    *)
(* the first to end, run_many's tasks have stored the results themselves,   *)
(* the others answer in one list at the end.                                *)
UnheardInv(c) ==
  call[c] = "idle" =>
    ended[c] = <<>> /\ result[c] = <<>> /\ \A i \in Items : task[<<c, i>>] = "none"

EndedInv(c) ==
  /\ Once(ended[c])
  /\ \A k \in DOMAIN ended[c] : task[<<c, ended[c][k]>>] \in {"done", "failed", "collected"}

StreamInv(c) ==
  helper = "stream" =>
    /\ Len(result[c]) <= Len(ended[c])
    /\ \A k \in DOMAIN result[c] : result[c][k] = ended[c][k]
    /\ call[c] = "returned" => AllTaken(c)

CollectInv(c) ==
  Collects =>
    /\ Once(result[c])
    /\ \A i \in Items : task[<<c, i>>] = "done" <=> \E k \in DOMAIN result[c] : result[c][k] = i

AnswerInv(c) ==
  /\ call[c] = "returned" =>
       /\ \A i \in Items : task[<<c, i>>] \in {"done", "collected"}
       /\ helper \in {"run_ordered", "one by one"} => result[c] = [i \in Items |-> i]
  /\ helper # "run_many skip" => \A i \in Items : task[<<c, i>>] # "collected"

HeardOf(c) == UnheardInv(c) /\ EndedInv(c) /\ StreamInv(c) /\ CollectInv(c) /\ AnswerInv(c)

ResultInv == \A c \in Calls : HeardOf(c)

LEMMA AppendOnce ==
  ASSUME NEW q \in Seq(Items), NEW i \in Items
  PROVE  /\ Append(q, i) \in Seq(Items) /\ Len(Append(q, i)) = Len(q) + 1
         /\ DOMAIN q = 1 .. Len(q) /\ DOMAIN Append(q, i) = 1 .. Len(q) + 1
         /\ \A k \in DOMAIN q : k \in DOMAIN Append(q, i) /\ Append(q, i)[k] = q[k]
         /\ Append(q, i)[Len(q) + 1] = i
         /\ \A k \in DOMAIN Append(q, i) : k \in DOMAIN q \/ k = Len(q) + 1
         /\ Once(q) /\ (\A k \in DOMAIN q : q[k] # i) => Once(Append(q, i))
<1>1. Len(Append(q, i)) = Len(q) + 1 /\ \A k \in 1 .. Len(q) : Append(q, i)[k] = q[k]
  OBVIOUS
<1>2. Append(q, i)[Len(q) + 1] = i /\ Append(q, i) \in Seq(Items)
  OBVIOUS
<1>3. DOMAIN q = 1 .. Len(q) /\ DOMAIN Append(q, i) = 1 .. Len(q) + 1 /\ Len(q) \in Nat
  BY <1>1, <1>2
<1>4. \A k \in DOMAIN Append(q, i) : k \in DOMAIN q \/ k = Len(q) + 1
  BY <1>3
<1>5. ASSUME Once(q), \A k \in DOMAIN q : q[k] # i PROVE Once(Append(q, i))
  BY <1>1, <1>2, <1>3, <1>4, <1>5 DEF Once
<1> QED
  BY <1>1, <1>2, <1>3, <1>4, <1>5

(* What a task step makes of its task, and what is heard of it. *)
LEMMA TaskEnds ==
  ASSUME FanInv, NEW t \in Tasks, TaskStep(t), helper' = helper
  PROVE  \E s \in {"running", "done", "failed", "collected", "cancelled"} :
           /\ task' = [task EXCEPT ![t] = s]
           /\ s = "collected" => helper = "run_many skip"
           /\ IF s \in {"running", "cancelled"} THEN ended' = ended
              ELSE ended' = [ended EXCEPT ![t[1]] = Append(@, t[2])]
           /\ IF s = "done" /\ Collects THEN result' = [result EXCEPT ![t[1]] = Append(@, t[2])]
              ELSE result' = result
<1>1. CASE Acquire(t)
  BY <1>1 DEF Acquire
<1>2. CASE Finish(t)
  BY <1>2 DEF Finish, Collects
<1>3. CASE Fail(t)
  <2>1. CASE helper = "run_many skip"
    BY <1>3, <2>1 DEF Fail, Raise
  <2>2. CASE helper # "run_many skip"
    BY <1>3, <2>2 DEF Fail, Raise
  <2> QED
    BY <2>1, <2>2
<1>4. CASE Deliver(t)
  BY <1>4 DEF Deliver
<1> QED
  BY <1>1, <1>2, <1>3, <1>4 DEF TaskStep

(* What has been heard of a call stays while its tasks and results do. *)
LEMMA HeardStays ==
  ASSUME FanInv, NEW c \in Calls, HeardOf(c), ended'[c] = ended[c], result'[c] = result[c],
         \A i \in Items : task'[<<c, i>>] = task[<<c, i>>], helper' = helper,
         call'[c] = call[c] \/ call'[c] \notin {"idle", "returned"}
  PROVE  HeardOf(c)'
<1>1. \A k \in DOMAIN ended[c] : ended[c][k] \in Items
  BY DEF FanInv, TypeOK
<1>2. EndedInv(c)
  BY DEF HeardOf
<1>3. EndedInv(c)'
  BY <1>1, <1>2 DEF EndedInv, Once
<1>4. AllTaken(c)' <=> AllTaken(c)
  BY DEF AllTaken
<1>5. UnheardInv(c)'
  BY DEF HeardOf, UnheardInv
<1>6. StreamInv(c)' /\ AnswerInv(c)'
  BY <1>4 DEF HeardOf, StreamInv, AnswerInv
<1>7. CollectInv(c)'
  <2>1. CollectInv(c)
    BY DEF HeardOf
  <2>2. Once(result[c]) => Once(result'[c])
    BY DEF Once
  <2>3. Collects' <=> Collects
    BY DEF Collects
  <2> QED
    BY <2>1, <2>2, <2>3 DEF CollectInv
<1> QED
  BY <1>3, <1>5, <1>6, <1>7 DEF HeardOf

LEMMA HeardTask ==
  ASSUME FanInv, ResultInv, NEW t \in Tasks, TaskStep(t), helper' = helper, NEW c \in Calls
  PROVE  HeardOf(c)'
<1>t. TypeOK /\ TypeOK'
  BY TypeTask DEF FanInv
<1>h. HeardOf(c)
  BY DEF ResultInv
<1>1. PICK s \in {"running", "done", "failed", "collected", "cancelled"} :
           /\ task' = [task EXCEPT ![t] = s]
           /\ s = "collected" => helper = "run_many skip"
           /\ IF s \in {"running", "cancelled"} THEN ended' = ended
              ELSE ended' = [ended EXCEPT ![t[1]] = Append(@, t[2])]
           /\ IF s = "done" /\ Collects THEN result' = [result EXCEPT ![t[1]] = Append(@, t[2])]
              ELSE result' = result
  BY TaskEnds
<1>2. t[1] \in Calls /\ t[2] \in Items /\ t = <<t[1], t[2]>> /\ task[t] \in {"queued", "running"}
  BY TaskPair, TaskChanges
<1>3. \A i \in Items : /\ <<c, i>> \in Tasks
                       /\ task'[<<c, i>>] = IF c = t[1] /\ i = t[2] THEN s ELSE task[<<c, i>>]
  <2>1. task'[t] = s /\ \A u \in Tasks : u # t => task'[u] = task[u]
    BY <1>1, <1>t DEF TypeOK
  <2>2. \A i \in Items : <<c, i>> \in Tasks /\ (<<c, i>> = t <=> c = t[1] /\ i = t[2])
    BY <1>2 DEF Tasks
  <2> QED
    BY <2>1, <2>2
<1>e. /\ Once(ended[c])
      /\ \A k \in DOMAIN ended[c] : task[<<c, ended[c][k]>>] \in {"done", "failed", "collected"}
  BY <1>h DEF HeardOf, EndedInv
<1>4. ended[c] \in Seq(Items) /\ result[c] \in Seq(Items)
  BY <1>t DEF TypeOK
<1>5. call'[c] = call[c] \/ (Sequential /\ call'[c] = "raised")
  BY <1>2, <1>t, TaskChanges DEF TypeOK
<1>6. CASE c # t[1]
  <2>1. ended'[c] = ended[c] /\ result'[c] = result[c]
    BY <1>1, <1>2, <1>6, <1>t DEF TypeOK
  <2>2. \A i \in Items : task'[<<c, i>>] = task[<<c, i>>]
    BY <1>3, <1>6
  <2> QED
    BY <1>h, <1>5, <2>1, <2>2, HeardStays
<1>7. CASE c = t[1]
  <2>1. task[<<c, t[2]>>] \in {"queued", "running"}
    BY <1>2, <1>7
  <2>2. call[c] # "idle" /\ call[c] # "returned" /\ call'[c] # "idle" /\ call'[c] # "returned"
    BY <1>2, <1>5, <1>h, <2>1 DEF HeardOf, UnheardInv, AnswerInv
  <2>3. \A k \in DOMAIN ended[c] : ended[c][k] \in Items /\ ended[c][k] # t[2]
    <3> SUFFICES ASSUME NEW k \in DOMAIN ended[c]
                 PROVE  ended[c][k] \in Items /\ ended[c][k] # t[2]
      OBVIOUS
    <3>1. task[<<c, ended[c][k]>>] \notin {"queued", "running"}
      BY <1>e
    <3> QED
      BY <1>4, <2>1, <3>1
  <2>4. \/ ended'[c] = ended[c] /\ s \in {"running", "cancelled"}
        \/ ended'[c] = Append(ended[c], t[2]) /\ s \in {"done", "failed", "collected"}
    BY <1>1, <1>2, <1>7, <1>t DEF TypeOK
  <2>5. /\ Once(ended'[c])
        /\ \A k \in DOMAIN ended'[c] : task'[<<c, ended'[c][k]>>] \in {"done", "failed", "collected"}
        /\ Len(ended[c]) <= Len(ended'[c])
        /\ \A k \in DOMAIN ended[c] : ended'[c][k] = ended[c][k]
    <3>1. CASE ended'[c] = ended[c]
      BY <1>3, <1>4, <1>e, <2>3, <3>1
    <3>2. CASE ended'[c] = Append(ended[c], t[2]) /\ s \in {"done", "failed", "collected"}
      <4>1. Once(ended'[c])
        BY <1>2, <1>4, <1>e, <2>3, <3>2, AppendOnce
      <4>2. ASSUME NEW k \in DOMAIN ended'[c]
            PROVE  task'[<<c, ended'[c][k]>>] \in {"done", "failed", "collected"}
        <5>1. CASE k \in DOMAIN ended[c]
          <6>1. ended'[c][k] = ended[c][k]
            BY <1>2, <1>4, <3>2, <5>1, AppendOnce
          <6>2. ended[c][k] \in Items /\ ended[c][k] # t[2]
                /\ task[<<c, ended[c][k]>>] \in {"done", "failed", "collected"}
            BY <1>e, <2>3, <5>1
          <6> QED
            BY <1>3, <6>1, <6>2
        <5>2. CASE k = Len(ended[c]) + 1
          <6>1. ended'[c][k] = t[2]
            BY <1>2, <1>4, <3>2, <5>2, AppendOnce
          <6> QED
            BY <1>2, <1>3, <1>7, <3>2, <6>1
        <5>3. k \in DOMAIN ended[c] \/ k = Len(ended[c]) + 1
          BY <1>2, <1>4, <3>2, AppendOnce
        <5> QED
          BY <5>1, <5>2, <5>3
      <4>3. /\ Len(ended[c]) <= Len(ended'[c])
            /\ \A k \in DOMAIN ended[c] : ended'[c][k] = ended[c][k]
        BY <1>2, <1>4, <3>2, AppendOnce
      <4> QED
        BY <4>1, <4>2, <4>3
    <3> QED
      BY <2>4, <3>1, <3>2
  <2>6. ASSUME helper = "stream"
        PROVE  /\ Len(result'[c]) <= Len(ended'[c])
               /\ \A k \in DOMAIN result'[c] : result'[c][k] = ended'[c][k]
    <3>1. result'[c] = result[c]
      BY <1>1, <2>6 DEF Collects
    <3>2. Len(result[c]) <= Len(ended[c]) /\ \A k \in DOMAIN result[c] : result[c][k] = ended[c][k]
      BY <1>h, <2>6 DEF HeardOf, StreamInv
    <3>3. DOMAIN result[c] \subseteq DOMAIN ended[c]
      BY <1>4, <3>2
    <3>4. Len(ended'[c]) \in Nat /\ Len(ended[c]) \in Nat /\ Len(result[c]) \in Nat
      BY <1>4, <1>t DEF TypeOK
    <3> QED
      BY <2>5, <3>1, <3>2, <3>3, <3>4
  <2>7. ASSUME Collects
        PROVE  /\ Once(result'[c])
               /\ \A i \in Items : task'[<<c, i>>] = "done"
                                     <=> \E k \in DOMAIN result'[c] : result'[c][k] = i
    <3>1. /\ Once(result[c])
          /\ \A i \in Items : task[<<c, i>>] = "done"
                                <=> \E k \in DOMAIN result[c] : result[c][k] = i
      BY <1>h, <2>7 DEF HeardOf, CollectInv
    <3>2. \A k \in DOMAIN result[c] : result[c][k] # t[2]
      BY <1>2, <2>1, <3>1
    <3>3. CASE s = "done"
      <4>1. result'[c] = Append(result[c], t[2])
        BY <1>1, <1>2, <1>7, <1>t, <2>7, <3>3 DEF TypeOK
      <4>2. Once(result'[c])
        BY <1>2, <1>4, <3>1, <3>2, <4>1, AppendOnce
      <4>3. ASSUME NEW i \in Items
            PROVE  task'[<<c, i>>] = "done" <=> \E k \in DOMAIN result'[c] : result'[c][k] = i
        <5>1. CASE i = t[2]
          BY <1>2, <1>3, <1>4, <1>7, <3>3, <4>1, <5>1, AppendOnce
        <5>2. CASE i # t[2]
          <6>1. (\E k \in DOMAIN result'[c] : result'[c][k] = i)
                  <=> \E k \in DOMAIN result[c] : result[c][k] = i
            BY <1>2, <1>4, <4>1, <5>2, AppendOnce
          <6> QED
            BY <1>3, <3>1, <5>2, <6>1
        <5> QED
          BY <5>1, <5>2
      <4> QED
        BY <4>2, <4>3
    <3>4. CASE s # "done"
      <4>1. result'[c] = result[c]
        BY <1>1, <3>4
      <4> QED
        BY <1>2, <1>3, <1>7, <2>1, <3>1, <3>4, <4>1
    <3> QED
      BY <3>3, <3>4
  <2>8. helper # "run_many skip" => \A i \in Items : task'[<<c, i>>] # "collected"
    <3>1. helper # "run_many skip" => \A i \in Items : task[<<c, i>>] # "collected"
      BY <1>h DEF HeardOf, AnswerInv
    <3> QED
      BY <1>1, <1>3, <3>1
  <2>9. UnheardInv(c)' /\ EndedInv(c)' /\ StreamInv(c)' /\ AnswerInv(c)'
    BY <2>2, <2>5, <2>6, <2>8 DEF UnheardInv, EndedInv, StreamInv, AnswerInv
  <2>10. CollectInv(c)'
    BY <2>7 DEF CollectInv, Collects
  <2> QED
    BY <2>9, <2>10 DEF HeardOf
<1> QED
  BY <1>6, <1>7

LEMMA HeardCall ==
  ASSUME FanInv, ResultInv, NEW d \in Calls, CallStep(d) \/ CancelCaller(d), helper' = helper,
         NEW c \in Calls
  PROVE  HeardOf(c)'
<1>t. TypeOK
  BY DEF FanInv
<1>h. HeardOf(c)
  BY DEF ResultInv
<1>1. ended[c] \in Seq(Items) /\ result[c] \in Seq(Items)
  BY <1>t DEF TypeOK
<1>2. \A i \in Items : <<c, i>> \in Tasks
  BY DEF Tasks
<1>3. CASE Leave(d)
  <2>1. call'[c] = call[c] \/ call'[c] = "cleanup"
    BY <1>3, <1>t DEF Leave, TypeOK
  <2> QED
    BY <1>3, <1>h, <2>1, HeardStays DEF Leave
<1>4. CASE Start(d)
  <2>1. CASE c # d
    <3>1. call'[c] = call[c] /\ \A i \in Items : task'[<<c, i>>] = task[<<c, i>>]
      BY <1>2, <1>4, <1>t, <2>1 DEF Start, TypeOK
    <3> QED
      BY <1>4, <1>h, <3>1, HeardStays DEF Start
  <2>2. CASE c = d
    <3>1. call'[c] = "waiting" /\ ended'[c] = <<>> /\ result'[c] = <<>>
      BY <1>4, <1>h, <1>t, <2>2 DEF Start, TypeOK, HeardOf, UnheardInv
    <3>2. \A i \in Items : task'[<<c, i>>] \in {"none", "queued"}
      BY <1>2, <1>4, <1>h, <2>2 DEF Start, HeardOf, UnheardInv
    <3>3. DOMAIN ended'[c] = {} /\ DOMAIN result'[c] = {} /\ Len(ended'[c]) = 0 /\ Len(result'[c]) = 0
      BY <3>1
    <3>4. UnheardInv(c)' /\ EndedInv(c)' /\ AnswerInv(c)'
      BY <3>1, <3>2, <3>3 DEF UnheardInv, EndedInv, AnswerInv, Once
    <3>5. StreamInv(c)'
      BY <3>1, <3>3 DEF StreamInv
    <3>6. CollectInv(c)'
      BY <3>2, <3>3 DEF CollectInv, Once
    <3> QED
      BY <3>4, <3>5, <3>6 DEF HeardOf
  <2> QED
    BY <2>1, <2>2
<1>5. CASE AwaitNext(d)
  <2>1. PICK i \in Items : task[<<d, i>>] = "none" /\ task' = [task EXCEPT ![<<d, i>>] = "running"]
    BY <1>5 DEF AwaitNext
  <2>2. \A j \in Items : task'[<<c, j>>] = IF c = d /\ j = i THEN "running" ELSE task[<<c, j>>]
    BY <1>2, <1>t, <2>1 DEF TypeOK
  <2>3. helper = "one by one" /\ call' = call /\ ended' = ended /\ result' = result
        /\ call[d] = "waiting"
    BY <1>5 DEF AwaitNext, Sequential
  <2>4. CASE c # d
    BY <1>h, <2>2, <2>3, <2>4, HeardStays
  <2>5. CASE c = d
    <3>1. EndedInv(c)'
      <4>1. ASSUME NEW k \in DOMAIN ended[c] PROVE task'[<<c, ended[c][k]>>] = task[<<c, ended[c][k]>>]
        <5>1. ended[c][k] \in Items
          BY <1>1
        <5>2. task[<<c, ended[c][k]>>] # "none"
          BY <1>h DEF HeardOf, EndedInv
        <5> QED
          BY <2>1, <2>2, <2>5, <5>1, <5>2
      <4>2. EndedInv(c)
        BY <1>h DEF HeardOf
      <4> QED
        BY <2>3, <4>1, <4>2 DEF EndedInv
    <3>2. AnswerInv(c)
      BY <1>h DEF HeardOf
    <3>3. AnswerInv(c)'
      BY <2>2, <2>3, <2>5, <3>2 DEF AnswerInv
    <3>4. UnheardInv(c)' /\ StreamInv(c)' /\ CollectInv(c)'
      BY <2>3, <2>5 DEF UnheardInv, StreamInv, CollectInv, Collects
    <3> QED
      BY <3>1, <3>3, <3>4 DEF HeardOf
  <2> QED
    BY <2>4, <2>5
<1>6. CASE GatherReturns(d)
  <2>1. task' = task /\ ended' = ended /\ call' = [call EXCEPT ![d] = "returned"]
        /\ helper # "stream"
    BY <1>6 DEF GatherReturns, Gathers
  <2>2. CASE c # d
    <3>1. call'[c] = call[c] /\ result'[c] = result[c]
      BY <1>6, <1>t, <2>1, <2>2 DEF GatherReturns, TypeOK
    <3> QED
      BY <1>h, <2>1, <3>1, HeardStays
  <2>3. CASE c = d
    <3>1. call'[c] = "returned" /\ \A i \in Items : task[<<c, i>>] \in {"done", "collected"}
      BY <1>6, <1>t, <2>1, <2>3 DEF GatherReturns, AllOver, TypeOK
    <3>2. EndedInv(c) /\ CollectInv(c) /\ AnswerInv(c)
      BY <1>h DEF HeardOf
    <3>3. EndedInv(c)'
      BY <2>1, <3>2 DEF EndedInv
    <3>4. Collects => result' = result
      BY <1>6 DEF GatherReturns, Cleans, Collects
    <3>5. CollectInv(c)'
      BY <2>1, <3>2, <3>4 DEF CollectInv, Collects
    <3>6. helper \in {"run_ordered", "one by one"} => result'[c] = [i \in Items |-> i]
      BY <1>6, <1>t, <2>3 DEF GatherReturns, Cleans, TypeOK
    <3>7. AnswerInv(c)'
      BY <2>1, <3>1, <3>2, <3>6 DEF AnswerInv
    <3>8. UnheardInv(c)' /\ StreamInv(c)'
      BY <2>1, <3>1 DEF UnheardInv, StreamInv
    <3> QED
      BY <3>3, <3>5, <3>7, <3>8 DEF HeardOf
  <2> QED
    BY <2>2, <2>3
<1>7. CASE Yield(d)
  <2>1. task' = task /\ ended' = ended /\ call' = [call EXCEPT ![d] = "holding"]
        /\ helper = "stream" /\ result' = [result EXCEPT ![d] = Append(@, NextEnded(d))]
    BY <1>7 DEF Yield, Arrived
  <2>2. call'[c] = call[c] \/ call'[c] = "holding"
    BY <1>t, <2>1 DEF TypeOK
  <2>3. CASE c # d
    <3>1. result'[c] = result[c]
      BY <1>t, <2>1, <2>3 DEF TypeOK
    <3> QED
      BY <1>h, <2>1, <2>2, <3>1, HeardStays
  <2>4. CASE c = d
    <3>1. /\ call'[c] = "holding" /\ result'[c] = Append(result[c], NextEnded(c))
          /\ Len(result[c]) < Len(ended[c])
      BY <1>7, <1>t, <2>1, <2>4 DEF Yield, Arrived, TypeOK
    <3>2. NextEnded(c) = ended[c][Len(result[c]) + 1]
      BY DEF NextEnded
    <3>3. Len(result[c]) + 1 \in 1 .. Len(ended[c])
      BY <1>1, <3>1
    <3>4. NextEnded(c) \in Items
      BY <1>1, <3>2, <3>3
    <3>5. EndedInv(c) /\ StreamInv(c) /\ AnswerInv(c)
      BY <1>h DEF HeardOf
    <3>6. StreamInv(c)'
      <4>1. \A k \in DOMAIN result[c] : result[c][k] = ended[c][k]
        BY <2>1, <3>5 DEF StreamInv
      <4>2. \A k \in DOMAIN result'[c] : result'[c][k] = ended[c][k]
        BY <1>1, <3>1, <3>2, <3>4, <4>1, AppendOnce
      <4>3. Len(result'[c]) = Len(result[c]) + 1
        BY <1>1, <3>1, <3>4, AppendOnce
      <4>4. Len(result'[c]) <= Len(ended[c])
        BY <1>1, <3>1, <4>3
      <4> QED
        BY <2>1, <3>1, <4>2, <4>4 DEF StreamInv
    <3>7. EndedInv(c)' /\ AnswerInv(c)' /\ UnheardInv(c)' /\ CollectInv(c)'
      BY <2>1, <3>1, <3>5 DEF EndedInv, AnswerInv, UnheardInv, CollectInv, Collects
    <3> QED
      BY <3>6, <3>7 DEF HeardOf
  <2> QED
    BY <2>3, <2>4
<1>8. CASE Resume(d)
  <2>1. /\ task' = task /\ ended' = ended /\ result' = result /\ helper = "stream"
        /\ call' = [call EXCEPT ![d] = IF AllTaken(d) THEN "returned" ELSE "waiting"]
        /\ call[d] = "holding"
    BY <1>8 DEF Resume
  <2>2. CASE c # d \/ ~AllTaken(d)
    <3>1. call'[c] = call[c] \/ call'[c] = "waiting"
      BY <1>t, <2>1, <2>2 DEF TypeOK
    <3> QED
      BY <1>h, <2>1, <3>1, HeardStays
  <2>3. CASE c = d /\ AllTaken(d)
    <3>1. call'[c] = "returned"
      BY <1>t, <2>1, <2>3 DEF TypeOK
    <3>2. ASSUME NEW i \in Items PROVE task[<<c, i>>] = "done"
      <4>1. PICK k \in DOMAIN result[c] : result[c][k] = i
        BY <2>3 DEF AllTaken
      <4> QED
        BY <2>1, <4>1 DEF FanInv, YieldInv
    <3>3. EndedInv(c) /\ StreamInv(c) /\ AnswerInv(c)
      BY <1>h DEF HeardOf
    <3>4. StreamInv(c)'
      BY <2>1, <2>3, <3>3 DEF StreamInv, AllTaken
    <3>5. AnswerInv(c)'
      BY <2>1, <3>2, <3>3 DEF AnswerInv
    <3>6. EndedInv(c)' /\ UnheardInv(c)' /\ CollectInv(c)'
      BY <2>1, <3>1, <3>3 DEF EndedInv, UnheardInv, CollectInv, Collects
    <3> QED
      BY <3>4, <3>5, <3>6 DEF HeardOf
  <2> QED
    BY <2>2, <2>3
<1>9. CASE /\ UNCHANGED <<task, ended, result>>
           /\ UNCHANGED call \/ call' = [call EXCEPT ![d] = "raised"]
  <2>1. call'[c] = call[c] \/ call'[c] = "raised"
    BY <1>9, <1>t DEF TypeOK
  <2> QED
    BY <1>9, <1>h, <2>1, HeardStays
<1> QED
  BY <1>3, <1>4, <1>5, <1>6, <1>7, <1>8, <1>9
     DEF CallStep, CancelCaller, GatherRaises, CleanedUp, StreamRaises, Close

LEMMA HeardStep == FanInv /\ ResultInv /\ [Next]_vars => ResultInv'
<1> SUFFICES ASSUME FanInv, ResultInv, [Next]_vars, NEW c \in Calls PROVE HeardOf(c)'
  BY DEF ResultInv
<1>1. CASE UNCHANGED vars
  BY <1>1, HeardStays DEF vars, ResultInv
<1> QED
  BY <1>1, HeardTask, HeardCall DEF Next

LEMMA HeardInit == Init => ResultInv
<1> SUFFICES ASSUME Init, NEW c \in Calls PROVE HeardOf(c)
  BY DEF ResultInv
<1>1. call[c] = "idle" /\ ended[c] = <<>> /\ result[c] = <<>> /\ \A i \in Items : task[<<c, i>>] = "none"
  BY DEF Init, Tasks
<1>2. DOMAIN ended[c] = {} /\ DOMAIN result[c] = {} /\ Len(ended[c]) = 0 /\ Len(result[c]) = 0
  BY <1>1
<1>3. UnheardInv(c) /\ EndedInv(c) /\ AnswerInv(c)
  BY <1>1, <1>2 DEF UnheardInv, EndedInv, AnswerInv, Once
<1>4. StreamInv(c)
  BY <1>1, <1>2 DEF StreamInv
<1>5. CollectInv(c)
  BY <1>1, <1>2 DEF CollectInv, Once
<1> QED
  BY <1>3, <1>4, <1>5 DEF HeardOf

(* A call that returns has heard of every item exactly once: its result, in *)
(* one list, or an error run_many collected; a cancelled item is never      *)
(* passed off as either.                                                    *)
THEOREM EveryItemIsHeardOf == Spec => []ReturnsAll
<1>1. FanInv /\ ResultInv => ReturnsAll
  <2> SUFFICES ASSUME FanInv, ResultInv, NEW c \in Calls, call[c] = "returned", NEW i \in Items
               PROVE  /\ Cardinality({k \in DOMAIN result[c] : result[c][k] = i})
                           = (IF task[<<c, i>>] = "done" THEN 1 ELSE 0)
                      /\ task[<<c, i>>] \in {"done", "collected"}
    BY DEF ReturnsAll
  <2>h. UnheardInv(c) /\ EndedInv(c) /\ StreamInv(c) /\ CollectInv(c) /\ AnswerInv(c)
    BY DEF ResultInv, HeardOf
  <2>1. task[<<c, i>>] \in {"done", "collected"}
    BY <2>h DEF AnswerInv
  <2>2. result[c] \in Seq(Items) /\ ended[c] \in Seq(Items) /\ helper \in Helpers
    BY DEF FanInv, TypeOK
  <2>3. Once(result[c]) /\ (task[<<c, i>>] = "done" <=> \E k \in DOMAIN result[c] : result[c][k] = i)
    <3>1. CASE Collects
      BY <2>h, <3>1 DEF CollectInv
    <3>2. CASE helper = "stream"
      <4>1. DOMAIN result[c] \subseteq DOMAIN ended[c]
        BY <2>2, <2>h, <3>2 DEF StreamInv
      <4>2. Once(result[c])
        BY <2>h, <3>2, <4>1 DEF StreamInv, EndedInv, Once
      <4>3. task[<<c, i>>] = "done"
        BY <2>1, <2>h, <3>2 DEF AnswerInv
      <4> QED
        BY <2>h, <3>2, <4>2, <4>3 DEF StreamInv, AllTaken
    <3>3. CASE helper \in {"run_ordered", "one by one"}
      <4>1. result[c] = [j \in Items |-> j]
        BY <2>h, <3>3 DEF AnswerInv
      <4>2. task[<<c, i>>] = "done"
        BY <2>1, <2>h, <3>3 DEF AnswerInv
      <4> QED
        BY <4>1, <4>2 DEF Once
    <3> QED
      BY <2>2, <3>1, <3>2, <3>3, FanOutConstants DEF Collects
  <2>4. CASE task[<<c, i>>] = "done"
    <3>1. PICK k \in DOMAIN result[c] : result[c][k] = i
      BY <2>3, <2>4
    <3>2. {l \in DOMAIN result[c] : result[c][l] = i} = {k}
      BY <2>3, <3>1 DEF Once
    <3> QED
      BY <2>1, <2>4, <3>2, FS_Singleton
  <2>5. CASE task[<<c, i>>] # "done"
    <3>1. {l \in DOMAIN result[c] : result[c][l] = i} = {}
      BY <2>3, <2>5
    <3> QED
      BY <2>1, <2>5, <3>1, FS_EmptySet
  <2> QED
    BY <2>4, <2>5
<1> QED
  BY FanInit, FanStep, HeardInit, HeardStep, <1>1, PTL DEF Spec

-----------------------------------------------------------------------------
(* Texts and batches *)

TextSet == [size : Nat, from : Seq(Nat), cut : BOOLEAN, parts : Nat \ {0}]

LEMMA TextFields ==
  ASSUME NEW t \in TextSet
  PROVE  t.size \in Nat /\ t.from \in Seq(Nat) /\ t.cut \in BOOLEAN /\ t.parts \in Nat /\ t.parts # 0
<1>1. t.size \in Nat /\ t.from \in Seq(Nat) /\ t.parts \in Nat \ {0}
  BY DEF TextSet
<1>2. t.cut \in BOOLEAN
  BY Zenon DEF TextSet
<1> QED
  BY <1>1, <1>2, Zenon

(* TokensOf is the last of the partial sums. *)
CountsBy(texts, u) ==
  /\ u[0] = 0 /\ u[Len(texts)] = TokensOf(texts)
  /\ \A n \in 1 .. Len(texts) : u[n] = u[n - 1] + texts[n].size

LEMMA Counted ==
  ASSUME NEW texts \in Seq(TextSet)
  PROVE  \E u \in [0 .. Len(texts) -> Nat] : CountsBy(texts, u)
<1> DEFINE L == Len(texts)
    T == [w \in Nat \X (1 .. L) |-> w[1] + texts[w[2]].size]
    Def(g) == g = [n \in 0 .. L |-> IF n = 0 THEN 0 ELSE g[n - 1] + texts[n].size]
    upTo == CHOOSE g : Def(g)
<1>1. L \in Nat /\ \A n \in 1 .. L : texts[n].size \in Nat
  <2>1. L \in Nat /\ \A n \in 1 .. L : texts[n] \in TextSet
    OBVIOUS
  <2> QED
    BY <2>1, TextFields
<1>2. StaysIn(T, Nat, L) /\ 0 \in Nat
  <2>1. ASSUME NEW w \in Nat \X (1 .. L) PROVE w[1] + texts[w[2]].size \in Nat
    BY <1>1
  <2> QED
    BY <2>1 DEF StaysIn
<1>3. PICK f \in [0 .. L -> Nat] : f[0] = 0 /\ \A n \in 1 .. L : f[n] = T[<<f[n - 1], n>>]
  <2> DEFINE X == Nat
  <2>1. StaysIn(T, X, L) /\ 0 \in X
    BY <1>2
  <2>2. \E f \in [0 .. L -> X] : f[0] = 0 /\ \A n \in 1 .. L : f[n] = T[<<f[n - 1], n>>]
    <3> HIDE DEF T, L, X
    <3> QED
      BY <1>1, <2>1, Iterated
  <2> QED
    BY <2>2
<1> HIDE DEF L
<1>4. \A n \in 1 .. L : f[n] = f[n - 1] + texts[n].size
  <2> SUFFICES ASSUME NEW n \in 1 .. L PROVE f[n] = f[n - 1] + texts[n].size
    OBVIOUS
  <2>1. f[n - 1] \in Nat
    BY <1>1
  <2> QED
    BY <1>3, <2>1
<1> HIDE DEF T
<1>5. Def(f)
  <2>1. f = [n \in 0 .. L |-> f[n]]
    OBVIOUS
  <2>2. \A n \in 0 .. L : f[n] = IF n = 0 THEN 0 ELSE f[n - 1] + texts[n].size
    BY <1>1, <1>3, <1>4
  <2> QED
    BY <2>1, <2>2
<1>6. Def(upTo)
  <2> HIDE DEF Def
  <2> QED
    BY <1>5
<1>7. TokensOf(texts) = upTo[L]
  BY Zenon DEF TokensOf, L
<1> HIDE DEF upTo
<1>8. \A n \in 0 .. L : upTo[n] = IF n = 0 THEN 0 ELSE upTo[n - 1] + texts[n].size
  BY <1>6
<1> DEFINE P == {n \in 0 .. L : upTo[n] = f[n]}
<1>9. 0 \in P
  BY <1>1, <1>3, <1>8
<1>10. \A n \in 1 .. L : n - 1 \in P => n \in P
  <2> SUFFICES ASSUME NEW n \in 1 .. L, n - 1 \in P PROVE n \in P
    OBVIOUS
  <2>1. n \in 0 .. L /\ n # 0 /\ upTo[n - 1] = f[n - 1]
    BY <1>1
  <2>2. upTo[n] = f[n]
    BY <1>4, <1>8, <2>1
  <2> QED
    BY <2>1, <2>2
<1>11. \A n \in 0 .. L : n \in P
  <2> HIDE DEF P
  <2> QED
    BY <1>1, <1>9, <1>10, UpTo
<1>12. f[L] = TokensOf(texts)
  <2>1. L \in 0 .. L
    BY <1>1
  <2>2. L \in P
    BY <1>11, <2>1, Zenon
  <2> QED
    BY <1>7, <2>2
<1>13. CountsBy(texts, f)
  BY <1>3, <1>4, <1>12 DEF CountsBy, L
<1> QED
  BY <1>13 DEF L

LEMMA TokensNone == TokensOf(<<>>) = 0
<1>1. <<>> \in Seq(TextSet) /\ Len(<<>>) = 0
  OBVIOUS
<1>2. PICK u \in [0 .. Len(<<>>) -> Nat] : CountsBy(<<>>, u)
  BY <1>1, Counted
<1> QED
  BY <1>1, <1>2, Zenon DEF CountsBy

LEMMA TokensAppend ==
  ASSUME NEW ts \in Seq(TextSet), NEW t \in TextSet
  PROVE  TokensOf(ts) \in Nat /\ TokensOf(Append(ts, t)) = TokensOf(ts) + t.size
<1> DEFINE L == Len(ts)
    us == Append(ts, t)
<1>1. /\ us \in Seq(TextSet) /\ Len(us) = L + 1 /\ us[L + 1] = t /\ L \in Nat
      /\ \A n \in 1 .. L : us[n] = ts[n]
  BY AppendFacts
<1>2. PICK f \in [0 .. Len(ts) -> Nat] : CountsBy(ts, f)
  BY Counted
<1> HIDE DEF us
<1>3. PICK g \in [0 .. Len(us) -> Nat] : CountsBy(us, g)
  BY <1>1, Counted
<1>4. /\ f[0] = 0 /\ f[L] = TokensOf(ts) /\ \A n \in 1 .. L : f[n] = f[n - 1] + ts[n].size
      /\ g[0] = 0 /\ g[L + 1] = TokensOf(us)
      /\ \A n \in 1 .. L + 1 : g[n] = g[n - 1] + us[n].size
  BY <1>1, <1>2, <1>3, Zenon DEF CountsBy
<1>5. f[L] \in Nat
  BY <1>1, <1>2
<1> HIDE DEF L
<1> DEFINE P == {n \in 0 .. L : f[n] = g[n]}
<1>6. 0 \in P
  BY <1>1, <1>4
<1>7. ASSUME NEW n \in 1 .. L, n - 1 \in P PROVE n \in P
  <2>1. f[n - 1] = g[n - 1]
    BY <1>7
  <2>2. n \in 1 .. L + 1 /\ n \in 0 .. L
    BY <1>1
  <2>3. f[n] = g[n]
    BY <1>1, <1>4, <2>1, <2>2, Zenon
  <2> QED
    BY <2>2, <2>3
<1>8. \A n \in 0 .. L : n \in P
  <2> HIDE DEF P
  <2> QED
    BY <1>1, <1>6, <1>7, UpTo
<1>9. f[L] = g[L]
  <2>1. L \in 0 .. L
    BY <1>1
  <2>2. L \in P
    BY <1>8, <2>1, Zenon
  <2> QED
    BY <2>2
<1>10. ASSUME NEW n \in 1 .. L + 1, n = L + 1 PROVE g[n] = g[L] + t.size
  <2>1. g[n] = g[n - 1] + us[n].size
    BY <1>4, Zenon
  <2>2. n - 1 = L
    BY <1>1, <1>10
  <2> QED
    BY <1>1, <1>10, <2>1, <2>2, Zenon
<1>11. g[L + 1] = g[L] + t.size
  <2>1. L + 1 \in 1 .. L + 1
    BY <1>1
  <2> QED
    BY <1>10, <2>1, Zenon
<1> QED
  BY <1>4, <1>5, <1>9, <1>11, Zenon DEF us

Froms(texts) == [i \in DOMAIN texts |-> texts[i].from]

LEMMA FromsAre ==
  ASSUME NEW ts \in Seq(TextSet)
  PROVE  /\ Froms(ts) \in Seq(Seq(Nat)) /\ Len(Froms(ts)) = Len(ts)
         /\ \A n \in 1 .. Len(ts) : Froms(ts)[n] = ts[n].from
<1>1. Len(ts) \in Nat /\ DOMAIN ts = 1 .. Len(ts) /\ \A n \in 1 .. Len(ts) : ts[n].from \in Seq(Nat)
  <2>1. Len(ts) \in Nat /\ DOMAIN ts = 1 .. Len(ts) /\ \A n \in 1 .. Len(ts) : ts[n] \in TextSet
    OBVIOUS
  <2> QED
    BY <2>1, TextFields
<1>2. Froms(ts) = [n \in 1 .. Len(ts) |-> ts[n].from]
  BY <1>1 DEF Froms
<1> DEFINE X == Seq(Nat)
<1>3. [n \in 1 .. Len(ts) |-> ts[n].from] \in [1 .. Len(ts) -> X]
  BY <1>1
<1> HIDE DEF X
<1>4. Froms(ts) \in Seq(X) /\ Len(Froms(ts)) = Len(ts)
  BY <1>1, <1>2, <1>3
<1> QED
  BY <1>2, <1>4 DEF X

LEMMA FromsAppend ==
  ASSUME NEW ts \in Seq(TextSet), NEW t \in TextSet
  PROVE  Froms(Append(ts, t)) = Append(Froms(ts), t.from)
<1> DEFINE us == Append(ts, t)
    L == Len(ts)
    X == Seq(Nat)
<1>1. /\ us \in Seq(TextSet) /\ DOMAIN us = 1 .. L + 1 /\ L \in Nat /\ us[L + 1] = t
      /\ \A n \in 1 .. L : us[n] = ts[n]
  BY AppendFacts
<1>2. Froms(ts) \in Seq(X) /\ Len(Froms(ts)) = L /\ \A n \in 1 .. L : Froms(ts)[n] = ts[n].from
  BY FromsAre
<1>3. t.from \in X
  BY TextFields
<1> DEFINE fs == Append(Froms(ts), t.from)
<1>4. /\ fs \in Seq(X) /\ Len(fs) = L + 1 /\ DOMAIN fs = 1 .. L + 1 /\ fs[L + 1] = t.from
      /\ \A n \in 1 .. L : fs[n] = Froms(ts)[n]
  <2> HIDE DEF X
  <2> QED
    BY <1>2, <1>3, AppendFacts
<1>5. fs = [n \in 1 .. L + 1 |-> fs[n]]
  <2> HIDE DEF fs, X, L
  <2> QED
    BY <1>4
<1> HIDE DEF us, fs, L, X
<1>6. ASSUME NEW n \in 1 .. L + 1 PROVE us[n].from = fs[n]
  <2>1. n \in 1 .. L \/ n = L + 1
    BY <1>1
  <2> QED
    BY <1>1, <1>2, <1>4, <2>1
<1>7. Froms(us) = [n \in 1 .. L + 1 |-> us[n].from]
  BY <1>1 DEF Froms
<1>8. Froms(us) = fs
  BY <1>5, <1>6, <1>7
<1> QED
  BY <1>8 DEF us, fs

FromOf(texts) == FlattenSeq(Froms(texts))

LEMMA FromOfAppend ==
  ASSUME NEW ts \in Seq(TextSet), NEW t \in TextSet
  PROVE  /\ FromOf(ts) \in Seq(Nat)
         /\ FromOf(Append(ts, t)) = FromOf(ts) \o t.from
<1>1. Froms(ts) \in Seq(Seq(Nat)) /\ t.from \in Seq(Nat)
  BY FromsAre, TextFields
<1>2. FlattenSeq(Append(Froms(ts), t.from)) = FlattenSeq(Froms(ts)) \o t.from
  BY <1>1, FlattenAppend
<1>3. FlattenSeq(Froms(ts)) \in Seq(Nat)
  BY <1>1, FlattenIn
<1> QED
  BY <1>2, <1>3, FromsAppend, Zenon DEF FromOf

LEMMA FromOfNone == FromOf(<<>>) = <<>>
<1>1. Froms(<<>>) = <<>>
  BY DEF Froms
<1> QED
  BY <1>1, FlattenNone, Zenon DEF FromOf

LEMMA FromOfOne ==
  ASSUME NEW t \in TextSet
  PROVE  FromOf(<<t>>) = t.from /\ TokensOf(<<t>>) = t.size
<1>1. <<>> \in Seq(TextSet) /\ <<t>> = Append(<<>>, t)
  OBVIOUS
<1>2. FromOf(<<t>>) = <<>> \o t.from
  BY <1>1, FromOfAppend, FromOfNone, Zenon
<1>3. t.from \in Seq(Nat) /\ t.size \in Nat
  BY TextFields
<1>4. <<>> \o t.from = t.from
  BY <1>3
<1>5. TokensOf(<<t>>) = 0 + t.size
  BY <1>1, TokensAppend, TokensNone, Zenon
<1> QED
  BY <1>2, <1>3, <1>4, <1>5

(* The texts of batches, joined. *)
Joined(bs) == [i \in DOMAIN bs |-> FromOf(bs[i])]

LEMMA JoinedAre ==
  ASSUME NEW bs \in Seq(Seq(TextSet))
  PROVE  /\ Joined(bs) \in Seq(Seq(Nat)) /\ Len(Joined(bs)) = Len(bs)
         /\ \A n \in 1 .. Len(bs) : Joined(bs)[n] = FromOf(bs[n])
<1>1. Len(bs) \in Nat /\ DOMAIN bs = 1 .. Len(bs) /\ \A n \in 1 .. Len(bs) : FromOf(bs[n]) \in Seq(Nat)
  <2>1. Len(bs) \in Nat /\ DOMAIN bs = 1 .. Len(bs) /\ \A n \in 1 .. Len(bs) : bs[n] \in Seq(TextSet)
    OBVIOUS
  <2>2. ASSUME NEW ts \in Seq(TextSet) PROVE FromOf(ts) \in Seq(Nat)
    BY FromsAre, FlattenIn DEF FromOf
  <2> QED
    BY <2>1, <2>2
<1>2. Joined(bs) = [n \in 1 .. Len(bs) |-> FromOf(bs[n])]
  BY <1>1 DEF Joined
<1> DEFINE X == Seq(Nat)
<1>3. [n \in 1 .. Len(bs) |-> FromOf(bs[n])] \in [1 .. Len(bs) -> X]
  BY <1>1
<1> HIDE DEF X
<1>4. Joined(bs) \in Seq(X) /\ Len(Joined(bs)) = Len(bs)
  <2> DEFINE L == Len(bs)
      js == Joined(bs)
  <2>1. js \in [1 .. L -> X] /\ L \in Nat
    BY <1>1, <1>2, <1>3, Zenon
  <2> HIDE DEF L, js
  <2>2. js \in Seq(X) /\ Len(js) = L
    BY <2>1
  <2> QED
    BY <2>2, Zenon DEF L, js
<1> QED
  BY <1>2, <1>4 DEF X

LEMMA JoinedAppend ==
  ASSUME NEW bs \in Seq(Seq(TextSet)), NEW b \in Seq(TextSet)
  PROVE  /\ FlattenSeq(Joined(bs)) \in Seq(Nat) /\ FromOf(b) \in Seq(Nat)
         /\ FlattenSeq(Joined(Append(bs, b))) = FlattenSeq(Joined(bs)) \o FromOf(b)
<1> DEFINE S == Seq(TextSet)
    X == Seq(Nat)
    cs == Append(bs, b)
    L == Len(bs)
<1>1. /\ cs \in Seq(S) /\ DOMAIN cs = 1 .. L + 1 /\ Len(cs) = L + 1 /\ L \in Nat /\ cs[L + 1] = b
      /\ \A n \in 1 .. L : cs[n] = bs[n]
  <2> HIDE DEF S
  <2>1. bs \in Seq(S) /\ b \in S
    BY DEF S
  <2> QED
    BY <2>1, AppendFacts
<1>2. /\ Joined(bs) \in Seq(X) /\ Len(Joined(bs)) = L
      /\ \A n \in 1 .. L : Joined(bs)[n] = FromOf(bs[n])
  BY JoinedAre
<1>3. /\ Joined(cs) \in Seq(X) /\ Len(Joined(cs)) = L + 1
      /\ \A n \in 1 .. L + 1 : Joined(cs)[n] = FromOf(cs[n])
  <2> HIDE DEF cs
  <2> QED
    BY <1>1, JoinedAre
<1>4. FromOf(b) \in X
  <2>1. L + 1 \in 1 .. L + 1
    BY <1>1
  <2>2. Joined(cs)[L + 1] \in X
    <3> HIDE DEF X, cs, L
    <3> QED
      BY <1>3, <2>1
  <2> QED
    BY <1>1, <1>3, <2>1, <2>2, Zenon
<1> DEFINE fs == Append(Joined(bs), FromOf(b))
<1>5. /\ fs \in Seq(X) /\ Len(fs) = L + 1 /\ fs[L + 1] = FromOf(b)
      /\ \A n \in 1 .. L : fs[n] = Joined(bs)[n]
  <2> HIDE DEF X
  <2> QED
    BY <1>2, <1>4, AppendFacts
<1>6. Joined(cs) = fs
  <2> HIDE DEF fs, cs, L, X
  <2>1. ASSUME NEW n \in 1 .. L + 1 PROVE Joined(cs)[n] = fs[n]
    <3>1. n \in 1 .. L \/ n = L + 1
      BY <1>1
    <3> QED
      BY <1>1, <1>2, <1>3, <1>5, <3>1
  <2>2. Joined(cs) = [n \in 1 .. L + 1 |-> Joined(cs)[n]] /\ fs = [n \in 1 .. L + 1 |-> fs[n]]
    BY <1>3, <1>5
  <2> QED
    BY <2>1, <2>2
<1>7. FlattenSeq(fs) = FlattenSeq(Joined(bs)) \o FromOf(b)
  BY <1>2, <1>4, FlattenAppend
<1>8. FlattenSeq(Joined(bs)) \in Seq(Nat)
  BY <1>2, FlattenIn
<1> QED
  BY <1>4, <1>6, <1>7, <1>8

-----------------------------------------------------------------------------
(* pack_summaries *)

SomeCut(bs) == \E i \in 1 .. Len(bs) : \E k \in 1 .. Len(bs[i]) : bs[i][k].cut

FitsBatch(b) == Len(b) > 0 /\ (Len(b) = 1 \/ TokensOf(b) <= MaxInput)

(* The batches have all the texts' tokens in order; one of two or more fits. *)
Packs(bs, from, cut) ==
  /\ \A i \in 1 .. Len(bs) : FitsBatch(bs[i])
  /\ FlattenSeq(Joined(bs)) = from
  /\ cut => SomeCut(bs)

LEMMA BatchesAppend ==
  ASSUME NEW bs \in Seq(Seq(TextSet)), NEW b \in Seq(TextSet)
  PROVE  /\ Append(bs, b) \in Seq(Seq(TextSet)) /\ Len(bs) \in Nat /\ Len(Append(bs, b)) = Len(bs) + 1
         /\ Append(bs, b)[Len(bs) + 1] = b
         /\ \A n \in 1 .. Len(bs) : Append(bs, b)[n] = bs[n] /\ bs[n] \in Seq(TextSet)
<1> DEFINE S == Seq(TextSet)
<1> HIDE DEF S
<1>1. bs \in Seq(S) /\ b \in S
  BY DEF S
<1> QED
  BY <1>1, AppendFacts DEF S

LEMMA CutAppend ==
  ASSUME NEW bs \in Seq(Seq(TextSet)), NEW b \in Seq(TextSet)
  PROVE  SomeCut(Append(bs, b)) <=> SomeCut(bs) \/ \E k \in 1 .. Len(b) : b[k].cut
<1> DEFINE cs == Append(bs, b)
    L == Len(bs)
<1>1. /\ Len(cs) = L + 1 /\ L \in Nat /\ cs[L + 1] = b
      /\ \A n \in 1 .. L : cs[n] = bs[n]
  BY BatchesAppend
<1>2. \A n \in 1 .. L + 1 : n \in 1 .. L \/ n = L + 1
  BY <1>1
<1>3. L + 1 \in 1 .. L + 1 /\ \A n \in 1 .. L : n \in 1 .. L + 1
  BY <1>1
<1> HIDE DEF cs, L
<1>4. ASSUME SomeCut(cs) PROVE SomeCut(bs) \/ \E k \in 1 .. Len(b) : b[k].cut
  <2>1. PICK i \in 1 .. L + 1 : \E k \in 1 .. Len(cs[i]) : cs[i][k].cut
    BY <1>1, <1>4, Zenon DEF SomeCut
  <2>2. CASE i \in 1 .. L
    BY <1>1, <2>1, <2>2, Zenon DEF SomeCut, L
  <2>3. CASE i = L + 1
    BY <1>1, <2>1, <2>3, Zenon
  <2> QED
    BY <1>2, <2>2, <2>3
<1>5. ASSUME SomeCut(bs) PROVE SomeCut(cs)
  <2>1. PICK i \in 1 .. L : \E k \in 1 .. Len(bs[i]) : bs[i][k].cut
    BY <1>5, Zenon DEF SomeCut, L
  <2>2. cs[i] = bs[i] /\ i \in 1 .. Len(cs)
    BY <1>1, <1>3
  <2> QED
    BY <2>1, <2>2, Zenon DEF SomeCut
<1>6. ASSUME \E k \in 1 .. Len(b) : b[k].cut PROVE SomeCut(cs)
  <2>1. cs[L + 1] = b /\ L + 1 \in 1 .. Len(cs)
    BY <1>1, <1>3
  <2> QED
    BY <1>6, <2>1, Zenon DEF SomeCut
<1> QED
  BY <1>4, <1>5, <1>6, Zenon DEF cs

LEMMA CutMore ==
  ASSUME NEW b \in Seq(TextSet), NEW s \in TextSet
  PROVE  (\E k \in 1 .. Len(Append(b, s)) : Append(b, s)[k].cut) <=> (\E k \in 1 .. Len(b) : b[k].cut) \/ s.cut
<1> DEFINE c == Append(b, s)
    L == Len(b)
<1>1. /\ Len(c) = L + 1 /\ L \in Nat /\ c[L + 1] = s
      /\ \A n \in 1 .. L : c[n] = b[n]
  BY AppendFacts
<1>2. \A n \in 1 .. L + 1 : n \in 1 .. L \/ n = L + 1
  BY <1>1
<1>3. L + 1 \in 1 .. L + 1 /\ \A n \in 1 .. L : n \in 1 .. L + 1
  BY <1>1
<1> HIDE DEF c, L
<1> QED
  BY <1>1, <1>2, <1>3, Zenon DEF c, L

(* A batch of its own. *)
LEMMA PacksNew ==
  ASSUME NEW bs \in Seq(Seq(TextSet)), NEW s \in TextSet, NEW from, NEW cut, Packs(bs, from, cut)
  PROVE  /\ Append(bs, <<s>>) \in Seq(Seq(TextSet))
         /\ Packs(Append(bs, <<s>>), from \o s.from, cut \/ s.cut)
<1>1. /\ <<s>> \in Seq(TextSet) /\ Len(<<s>>) = 1 /\ <<s>>[1] = s
  OBVIOUS
<1> DEFINE b == <<s>>
<1>2. FromOf(b) = s.from
  BY FromOfOne
<1>3. b \in Seq(TextSet) /\ FitsBatch(b)
  BY <1>1 DEF FitsBatch
<1>4. s.cut => \E k \in 1 .. Len(b) : b[k].cut
  <2>1. 1 \in 1 .. Len(b) /\ b[1] = s
    OBVIOUS
  <2> HIDE DEF b
  <2> QED
    BY <2>1, Zenon
<1> HIDE DEF b
<1> DEFINE cs == Append(bs, b)
<1>5. /\ cs \in Seq(Seq(TextSet)) /\ Len(bs) \in Nat /\ Len(cs) = Len(bs) + 1 /\ cs[Len(bs) + 1] = b
      /\ \A n \in 1 .. Len(bs) : cs[n] = bs[n]
  BY <1>3, BatchesAppend
<1>6. FlattenSeq(Joined(cs)) = from \o s.from
  BY <1>2, <1>3, JoinedAppend, Zenon DEF Packs
<1>7. cut \/ s.cut => SomeCut(cs)
  BY <1>3, <1>4, CutAppend, Zenon DEF Packs
<1> HIDE DEF cs
<1>8. ASSUME NEW i \in 1 .. Len(cs) PROVE FitsBatch(cs[i])
  <2>1. i \in 1 .. Len(bs) \/ i = Len(bs) + 1
    BY <1>5
  <2> QED
    BY <1>3, <1>5, <2>1 DEF Packs
<1>9. Packs(cs, from \o s.from, cut \/ s.cut)
  BY <1>6, <1>7, <1>8, Zenon DEF Packs
<1> QED
  BY <1>5, <1>9, Zenon DEF cs, b

(* One more in the last batch. *)
LEMMA PacksMore ==
  ASSUME NEW bs \in Seq(Seq(TextSet)), NEW b \in Seq(TextSet), NEW s \in TextSet, NEW from, NEW cut,
         Packs(Append(bs, b), from, cut), TokensOf(b) + s.size <= MaxInput
  PROVE  /\ Append(bs, Append(b, s)) \in Seq(Seq(TextSet))
         /\ Packs(Append(bs, Append(b, s)), from \o s.from, cut \/ s.cut)
<1> DEFINE c == Append(b, s)
    cs == Append(bs, c)
    as == Append(bs, b)
<1>1. c \in Seq(TextSet) /\ FromOf(c) = FromOf(b) \o s.from /\ s.from \in Seq(Nat)
      /\ Len(c) = Len(b) + 1 /\ Len(b) \in Nat
  BY FromOfAppend, AppendFacts, TextFields
<1>2. TokensOf(c) <= MaxInput
  BY TokensAppend
<1>3. FitsBatch(c)
  BY <1>1, <1>2 DEF FitsBatch
<1>4. (\E k \in 1 .. Len(c) : c[k].cut) <=> (\E k \in 1 .. Len(b) : b[k].cut) \/ s.cut
  BY CutMore
<1> HIDE DEF c
<1>5. /\ cs \in Seq(Seq(TextSet)) /\ Len(bs) \in Nat /\ Len(cs) = Len(bs) + 1 /\ cs[Len(bs) + 1] = c
      /\ \A n \in 1 .. Len(bs) : cs[n] = bs[n]
  BY <1>1, BatchesAppend
<1>6. /\ Len(as) = Len(bs) + 1
      /\ \A n \in 1 .. Len(bs) : as[n] = bs[n]
  BY BatchesAppend
<1>7. FlattenSeq(Joined(cs)) = from \o s.from
  <2>1. FlattenSeq(Joined(cs)) = FlattenSeq(Joined(bs)) \o (FromOf(b) \o s.from)
    BY <1>1, JoinedAppend, Zenon
  <2>2. from = FlattenSeq(Joined(bs)) \o FromOf(b)
    BY JoinedAppend, Zenon DEF Packs
  <2>3. FlattenSeq(Joined(bs)) \in Seq(Nat) /\ FromOf(b) \in Seq(Nat)
    BY JoinedAppend
  <2> DEFINE x == FlattenSeq(Joined(bs))
      y == FromOf(b)
      z == s.from
  <2>4. x \in Seq(Nat) /\ y \in Seq(Nat) /\ z \in Seq(Nat)
    BY <1>1, <2>3
  <2> HIDE DEF x, y, z
  <2>5. (x \o y) \o z = x \o (y \o z)
    BY <2>4
  <2> QED
    BY <2>1, <2>2, <2>5, Zenon DEF x, y, z
<1>8. cut \/ s.cut => SomeCut(cs)
  <2>1. SomeCut(cs) <=> SomeCut(bs) \/ \E k \in 1 .. Len(c) : c[k].cut
    BY <1>1, CutAppend
  <2>2. SomeCut(as) <=> SomeCut(bs) \/ \E k \in 1 .. Len(b) : b[k].cut
    BY CutAppend
  <2>3. cut => SomeCut(as)
    BY Zenon DEF Packs
  <2> HIDE DEF as, cs
  <2> QED
    BY <1>4, <2>1, <2>2, <2>3, Zenon
<1>9. \A n \in 1 .. Len(as) : FitsBatch(as[n])
  BY Zenon DEF Packs
<1> HIDE DEF cs, as
<1>10. ASSUME NEW i \in 1 .. Len(cs) PROVE FitsBatch(cs[i])
  <2>1. i \in 1 .. Len(bs) \/ i = Len(bs) + 1
    BY <1>5
  <2>2. i \in 1 .. Len(bs) => i \in 1 .. Len(as)
    BY <1>5, <1>6
  <2> QED
    BY <1>3, <1>5, <1>6, <1>9, <2>1, <2>2
<1>11. Packs(cs, from \o s.from, cut \/ s.cut)
  BY <1>7, <1>8, <1>10, Zenon DEF Packs
<1> QED
  BY <1>5, <1>11, Zenon DEF cs, c

LEMMA PackStep ==
  ASSUME NEW bs \in Seq(Seq(TextSet)), NEW s \in TextSet, NEW from, NEW cut, Packs(bs, from, cut)
  PROVE  /\ PackBatches(bs, s) \in Seq(Seq(TextSet))
         /\ Packs(PackBatches(bs, s), from \o s.from, cut \/ s.cut)
<1>1. CASE bs = <<>>
  <2>1. PackBatches(bs, s) = <<<<s>>>> /\ Append(bs, <<s>>) = <<<<s>>>>
    BY <1>1 DEF PackBatches
  <2>2. /\ Append(bs, <<s>>) \in Seq(Seq(TextSet))
        /\ Packs(Append(bs, <<s>>), from \o s.from, cut \/ s.cut)
    BY PacksNew
  <2> QED
    BY <2>1, <2>2, Zenon
<1>2. CASE bs # <<>>
  <2> DEFINE fr == Front(bs)
      b == Last(bs)
  <2>1. fr \in Seq(Seq(TextSet)) /\ b \in Seq(TextSet) /\ bs = Append(fr, b)
    <3> DEFINE S == Seq(TextSet)
    <3> HIDE DEF S
    <3>1. bs \in Seq(S)
      BY DEF S
    <3>2. Front(bs) \in Seq(S) /\ Last(bs) \in S /\ bs = Append(Front(bs), Last(bs))
      BY <1>2, <3>1, FrontLast
    <3> QED
      BY <3>2 DEF S
  <2>2. PackBatches(bs, s) = IF TokensOf(b) + s.size > MaxInput
                             THEN Append(bs, <<s>>) ELSE fr \o <<Append(b, s)>>
    BY <1>2, Zenon DEF PackBatches
  <2>3. TokensOf(b) \in Nat /\ s.size \in Nat /\ MaxInput \in Nat
    BY <2>1, TokensAppend, TextFields, FoldConstants
  <2>4. CASE TokensOf(b) + s.size > MaxInput
    <3>1. PackBatches(bs, s) = Append(bs, <<s>>)
      BY <2>2, <2>4
    <3>2. /\ Append(bs, <<s>>) \in Seq(Seq(TextSet))
          /\ Packs(Append(bs, <<s>>), from \o s.from, cut \/ s.cut)
      BY PacksNew
    <3> QED
      BY <3>1, <3>2, Zenon
  <2>5. CASE ~(TokensOf(b) + s.size > MaxInput)
    <3>1. TokensOf(b) + s.size <= MaxInput
      BY <2>3, <2>5
    <3>2. fr \o <<Append(b, s)>> = Append(fr, Append(b, s))
      <4> DEFINE c == Append(b, s)
          S == Seq(TextSet)
      <4>1. c \in S /\ fr \in Seq(S)
        BY <2>1, AppendFacts
      <4> HIDE DEF c, S, fr
      <4>2. fr \o <<c>> = Append(fr, c)
        BY <4>1
      <4> QED
        BY <4>2 DEF c
    <3>3. PackBatches(bs, s) = Append(fr, Append(b, s))
      BY <2>2, <2>5, <3>2
    <3>4. Packs(Append(fr, b), from, cut)
      BY <2>1, Zenon
    <3> HIDE DEF fr, b
    <3>5. /\ Append(fr, Append(b, s)) \in Seq(Seq(TextSet))
          /\ Packs(Append(fr, Append(b, s)), from \o s.from, cut \/ s.cut)
      BY <2>1, <3>1, <3>4, PacksMore
    <3> QED
      BY <3>3, <3>5, Zenon
  <2> QED
    BY <2>4, <2>5
<1> QED
  BY <1>1, <1>2

(* packed is a solution of its recursion. *)
PacksBy(ss, h) ==
  /\ h[0] = <<>> /\ h[Len(ss)] = PackSummaries(ss)
  /\ \A n \in 1 .. Len(ss) : h[n] = PackBatches(h[n - 1], ss[n])

LEMMA PackedBy ==
  ASSUME NEW ss \in Seq(TextSet)
  PROVE  \E h \in [0 .. Len(ss) -> Seq(Seq(TextSet))] : PacksBy(ss, h)
<1> DEFINE L == Len(ss)
    X == Seq(Seq(TextSet))
    T == [w \in X \X (1 .. L) |-> PackBatches(w[1], ss[w[2]])]
    Def(g) == g = [n \in 0 .. L |-> IF n = 0 THEN <<>> ELSE PackBatches(g[n - 1], ss[n])]
    packed == CHOOSE g : Def(g)
<1>1. L \in Nat /\ \A n \in 1 .. L : ss[n] \in TextSet
  OBVIOUS
<1>2. ASSUME NEW bs \in X, NEW s \in TextSet PROVE PackBatches(bs, s) \in X
  <2>1. CASE bs = <<>>
    <3>1. PackBatches(bs, s) = Append(bs, <<s>>) /\ <<s>> \in Seq(TextSet)
      BY <2>1 DEF PackBatches
    <3> QED
      BY <3>1, BatchesAppend
  <2>2. CASE bs # <<>>
    <3> DEFINE fr == Front(bs)
        b == Last(bs)
        S == Seq(TextSet)
    <3>1. fr \in Seq(S) /\ b \in S
      <4> HIDE DEF S
      <4>1. bs \in Seq(S)
        BY DEF S
      <4> QED
        BY <2>2, <4>1, FrontLast
    <3>2. PackBatches(bs, s) = IF TokensOf(b) + s.size > MaxInput
                               THEN Append(bs, <<s>>) ELSE fr \o <<Append(b, s)>>
      BY <2>2, Zenon DEF PackBatches
    <3>3. <<s>> \in Seq(TextSet)
      OBVIOUS
    <3>4. Append(bs, <<s>>) \in X
      BY <3>3, BatchesAppend
    <3>5. fr \o <<Append(b, s)>> \in X
      <4> DEFINE c == Append(b, s)
      <4>1. c \in S
        BY <3>1, AppendFacts
      <4> HIDE DEF c, S, fr
      <4>2. <<c>> \in Seq(S)
        BY <4>1
      <4>3. fr \o <<c>> \in Seq(S)
        BY <3>1, <4>2, Concatenated
      <4> QED
        BY <4>3 DEF c, S
    <3> QED
      BY <3>2, <3>4, <3>5
  <2> QED
    BY <2>1, <2>2
<1>3. StaysIn(T, X, L) /\ <<>> \in X
  <2>1. ASSUME NEW w \in X \X (1 .. L) PROVE PackBatches(w[1], ss[w[2]]) \in X
    <3>1. w[1] \in X /\ ss[w[2]] \in TextSet
      BY <1>1
    <3> HIDE DEF X
    <3> QED
      BY <1>2, <3>1
  <2>2. T \in [X \X (1 .. L) -> X]
    <3> HIDE DEF X, L
    <3> QED
      BY <2>1
  <2>3. <<>> \in X
    OBVIOUS
  <2> QED
    BY <2>2, <2>3 DEF StaysIn
<1> HIDE DEF X, L
<1>4. PICK f \in [0 .. L -> X] : f[0] = <<>> /\ \A n \in 1 .. L : f[n] = T[<<f[n - 1], n>>]
  <2> DEFINE none == <<>>
  <2>1. StaysIn(T, X, L) /\ none \in X
    BY <1>3, Zenon
  <2> HIDE DEF T, none
  <2>2. \E f \in [0 .. L -> X] : f[0] = none /\ \A n \in 1 .. L : f[n] = T[<<f[n - 1], n>>]
    BY <1>1, <2>1, Iterated
  <2> QED
    BY <2>2, Zenon DEF none
<1>5. \A n \in 1 .. L : f[n] = PackBatches(f[n - 1], ss[n])
  <2> SUFFICES ASSUME NEW n \in 1 .. L PROVE f[n] = PackBatches(f[n - 1], ss[n])
    OBVIOUS
  <2>1. f[n - 1] \in X
    BY <1>1
  <2> QED
    BY <1>4, <2>1
<1> HIDE DEF T
<1>6. Def(f)
  <2>1. f = [n \in 0 .. L |-> f[n]]
    OBVIOUS
  <2>2. \A n \in 0 .. L : f[n] = IF n = 0 THEN <<>> ELSE PackBatches(f[n - 1], ss[n])
    BY <1>1, <1>4, <1>5
  <2> QED
    BY <2>1, <2>2
<1>7. Def(packed)
  <2> HIDE DEF Def
  <2> QED
    BY <1>6
<1>8. PackSummaries(ss) = packed[L]
  BY Zenon DEF PackSummaries, L
<1> HIDE DEF packed
<1>9. \A n \in 0 .. L : packed[n] = IF n = 0 THEN <<>> ELSE PackBatches(packed[n - 1], ss[n])
  BY <1>7
<1> DEFINE P == {n \in 0 .. L : packed[n] = f[n]}
<1>10. 0 \in P
  BY <1>1, <1>4, <1>9
<1>11. \A n \in 1 .. L : n - 1 \in P => n \in P
  <2> SUFFICES ASSUME NEW n \in 1 .. L, n - 1 \in P PROVE n \in P
    OBVIOUS
  <2>1. n \in 0 .. L /\ n # 0 /\ packed[n - 1] = f[n - 1]
    BY <1>1
  <2>2. packed[n] = f[n]
    BY <1>5, <1>9, <2>1
  <2> QED
    BY <2>1, <2>2
<1>12. \A n \in 0 .. L : n \in P
  <2> HIDE DEF P
  <2> QED
    BY <1>1, <1>10, <1>11, UpTo
<1>13. f[L] = PackSummaries(ss)
  <2>1. L \in 0 .. L
    BY <1>1
  <2>2. L \in P
    BY <1>12, <2>1, Zenon
  <2> QED
    BY <1>8, <2>2
<1>14. PacksBy(ss, f)
  BY <1>4, <1>5, <1>13 DEF PacksBy, L
<1> QED
  BY <1>14 DEF L, X

(* Packing loses no token and no truncation, and exceeds no budget. *)
LEMMA Packed ==
  ASSUME NEW ss \in Seq(TextSet)
  PROVE  /\ PackSummaries(ss) \in Seq(Seq(TextSet))
         /\ Packs(PackSummaries(ss), FromOf(ss), \E k \in 1 .. Len(ss) : ss[k].cut)
<1> DEFINE L == Len(ss)
    X == Seq(Seq(TextSet))
    Cut(n) == \E k \in 1 .. n : ss[k].cut
<1>1. L \in Nat /\ \A n \in 1 .. L : ss[n] \in TextSet
  OBVIOUS
<1>2. PICK h \in [0 .. L -> X] : PacksBy(ss, h)
  BY PackedBy
<1>3. Froms(ss) \in Seq(Seq(Nat)) /\ Len(Froms(ss)) = L /\ \A n \in 1 .. L : Froms(ss)[n] = ss[n].from
  BY FromsAre
<1>4. PICK f \in [0 .. Len(Froms(ss)) -> Seq(Nat)] : FlattensBy(Froms(ss), f)
  BY <1>3, Flattened
<1>5. /\ h[0] = <<>> /\ h[L] = PackSummaries(ss) /\ f[0] = <<>> /\ f[L] = FromOf(ss)
      /\ \A n \in 1 .. L : h[n] = PackBatches(h[n - 1], ss[n]) /\ f[n] = f[n - 1] \o ss[n].from
  BY <1>2, <1>3, <1>4, Zenon DEF PacksBy, FlattensBy, FromOf
<1> HIDE DEF L, X
<1> DEFINE P == {n \in 0 .. L : Packs(h[n], f[n], Cut(n))}
<1>6. 0 \in P
  <2>1. 0 \in 0 .. L /\ ~Cut(0)
    BY <1>1
  <2>2. Joined(<<>>) = <<>>
    BY DEF Joined
  <2>3. \A i \in 1 .. Len(<<>>) : FitsBatch(<<>>[i])
    OBVIOUS
  <2>4. Packs(<<>>, <<>>, Cut(0))
    <3> HIDE DEF Cut
    <3> QED
      BY <2>1, <2>2, <2>3, FlattenNone, Zenon DEF Packs
  <2> HIDE DEF Cut
  <2>5. Packs(h[0], f[0], Cut(0))
    BY <1>5, <2>4, Zenon
  <2> QED
    BY <2>1, <2>5
<1>7. ASSUME NEW n \in 1 .. L, n - 1 \in P PROVE n \in P
  <2>1. n \in 0 .. L /\ n - 1 \in 0 .. L
    BY <1>1
  <2>2. Packs(h[n - 1], f[n - 1], Cut(n - 1))
    BY <1>7
  <2>3. h[n - 1] \in X /\ ss[n] \in TextSet
    BY <1>1, <2>1
  <2>4. Cut(n) => Cut(n - 1) \/ ss[n].cut
    <3>1. \A k \in 1 .. n : k \in 1 .. n - 1 \/ k = n
      BY <1>1
    <3> QED
      BY <3>1, Zenon
  <2> HIDE DEF Cut
  <2>5. Packs(PackBatches(h[n - 1], ss[n]), f[n - 1] \o ss[n].from, Cut(n - 1) \/ ss[n].cut)
    BY <2>2, <2>3, PackStep DEF X
  <2>6. Packs(h[n], f[n], Cut(n - 1) \/ ss[n].cut)
    BY <1>5, <2>5, Zenon
  <2>7. Packs(h[n], f[n], Cut(n))
    BY <2>4, <2>6, Zenon DEF Packs
  <2> QED
    BY <2>1, <2>7
<1>8. \A n \in 0 .. L : n \in P
  <2> HIDE DEF P
  <2> QED
    BY <1>1, <1>6, <1>7, UpTo
<1>9. L \in 0 .. L
  BY <1>1
<1>10. L \in P
  BY <1>8, <1>9, Zenon
<1>11. Packs(h[L], f[L], Cut(L))
  <2> HIDE DEF Cut
  <2> QED
    BY <1>10
<1>12. h[L] \in X
  BY <1>2, <1>9
<1> QED
  BY <1>5, <1>11, <1>12, Zenon DEF L, X

-----------------------------------------------------------------------------
(* The tree of tasks *)

TaskSet ==
  [state : {"queued", "reading", "calling", "mapping", "done"}, kind : {"doc", "batch"},
   text : TextSet, depth : Nat, parent : Nat]

(* t says no less of the document than was, but what was truncated. *)
Less(t, was) ==
  /\ t \in TextSet /\ PartOf(t.from, was.from)
  /\ was.cut => t.cut
  /\ ~t.cut => t.from = was.from

FitsCall(kind, t) == t.size <= MaxInput + Separators(t.parts) \/ (kind = "batch" /\ t.parts = 1)

ToCall(job) == job.state = "calling" \/ (job.state = "queued" /\ job.kind = "batch")

ToRead(job) == job.state = "reading" \/ (job.state = "queued" /\ job.kind = "doc")

Valid(job) ==
  /\ job \in TaskSet /\ Rising(job.text.from)
  /\ ToCall(job) => FitsCall(job.kind, job.text)
  /\ ToRead(job) => ~job.text.cut /\ job.text.size <= Len(job.text.from) + 1

TasksOK(fs) ==
  /\ fs = [q \in DOMAIN fs |-> fs[q]]
  /\ <<>> \in DOMAIN fs /\ DOMAIN fs \subseteq Seq(Nat)
  /\ \A p \in DOMAIN fs : Valid(fs[p])

(* The tasks that p awaits were given the texts was, which make up its own. *)
MappedTo(fs, p, was) ==
  /\ was \in Seq(TextSet) /\ Len(was) > 0
  /\ FromOf(was) = fs[p].text.from
  /\ fs[p].text.cut => \E i \in 1 .. Len(was) : was[i].cut
  /\ \A i \in Nat : Append(p, i) \in DOMAIN fs <=> i \in 1 .. Len(was)
  /\ \A i \in 1 .. Len(was) : Less(fs[Append(p, i)].text, was[i])

Tree(fs) ==
  /\ \A q \in DOMAIN fs : q # <<>> => Front(q) \in DOMAIN fs /\ fs[Front(q)].state = "mapping"
  /\ \A p \in DOMAIN fs : fs[p].state = "mapping" => \E was : MappedTo(fs, p, was)
  /\ Less(fs[<<>>].text, TheDocument)

LEMMA LessSelf ==
  ASSUME NEW t \in TextSet, Rising(t.from)
  PROVE  Less(t, t)
<1>1. PartOf(t.from, t.from)
  BY DEF PartOf
<1> QED
  BY <1>1, Zenon DEF Less

LEMMA LessLess ==
  ASSUME NEW s, NEW t, NEW u, Less(s, t), Less(t, u)
  PROVE  Less(s, u)
<1>1. PartOf(s.from, u.from)
  BY PartsOfParts, Zenon DEF Less
<1>2. (u.cut => s.cut) /\ (~s.cut => s.from = u.from)
  BY Zenon DEF Less
<1> QED
  BY <1>1, <1>2, Zenon DEF Less

LEMMA TaskFields ==
  ASSUME NEW job, Valid(job)
  PROVE  /\ job.state \in {"queued", "reading", "calling", "mapping", "done"}
         /\ job.kind \in {"doc", "batch"} /\ job.text \in TextSet /\ job.depth \in Nat /\ job.parent \in Nat
         /\ Rising(job.text.from)
<1>1. job \in TaskSet /\ Rising(job.text.from)
  BY Zenon DEF Valid
<1> DEFINE X == TextSet
<1> HIDE DEF X
<1>2. job \in [state : {"queued", "reading", "calling", "mapping", "done"}, kind : {"doc", "batch"},
                text : X, depth : Nat, parent : Nat]
  BY <1>1 DEF TaskSet, X
<1>3. job.text \in X
  BY <1>2
<1> QED
  BY <1>1, <1>2, <1>3 DEF X

LEMMA Paths ==
  ASSUME NEW p \in Seq(Nat), NEW i \in Nat
  PROVE  /\ Append(p, i) \in Seq(Nat) /\ Append(p, i) # <<>> /\ Append(p, i) # p
         /\ Front(Append(p, i)) = p /\ Last(Append(p, i)) = i
<1> DEFINE q == Append(p, i)
    L == Len(p)
<1>1. /\ q \in Seq(Nat) /\ Len(q) = L + 1 /\ L \in Nat /\ q[L + 1] = i
      /\ \A n \in 1 .. L : q[n] = p[n]
  BY AppendFacts
<1>2. Front(q) = SubSeq(q, 1, Len(q) - 1) /\ Last(q) = q[Len(q)]
  BY Zenon DEF Front, Last
<1> HIDE DEF q
<1>3. q # <<>> /\ q # p
  BY <1>1
<1>4. Last(q) = i
  BY <1>1, <1>2, Zenon
<1>5. Front(q) = p
  <2> DEFINE fr == SubSeq(q, 1, L)
  <2>1. L \in 0 .. Len(q) /\ Len(q) - 1 = L
    BY <1>1
  <2>2. fr \in Seq(Nat) /\ Len(fr) = L /\ \A n \in 1 .. L : fr[n] = q[n]
    BY <1>1, <2>1, Prefix
  <2> HIDE DEF fr
  <2>3. Front(q) = fr
    BY <1>2, <2>1, Zenon DEF fr
  <2>4. fr = p
    <3>1. \A n \in 1 .. L : fr[n] = p[n]
      BY <1>1, <2>2
    <3>2. Len(p) = L
      BY DEF L
    <3> QED
      BY <2>2, <3>1, <3>2, SeqsAgree
  <2> QED
    BY <2>3, <2>4
<1> QED
  BY <1>1, <1>3, <1>4, <1>5, Zenon DEF q

LEMMA PathEnds ==
  ASSUME NEW q \in Seq(Nat), q # <<>>
  PROVE  Front(q) \in Seq(Nat) /\ Last(q) \in Nat /\ q = Append(Front(q), Last(q))
  BY FrontLast

Kids(fs, p) == {q \in DOMAIN fs : q # <<>> /\ Front(q) = p}

(* From fs to gs: p becomes u, and awaits tasks instead of its children. *)
Grows(fs, gs, p, u, tasks) ==
  /\ gs = [q \in DOMAIN gs |-> gs[q]]
  /\ DOMAIN gs = (DOMAIN fs \ Kids(fs, p)) \cup {Append(p, i) : i \in 1 .. Len(tasks)}
  /\ gs[p] = u
  /\ \A q \in DOMAIN fs \ Kids(fs, p) : q # p => gs[q] = fs[q]
  /\ \A i \in 1 .. Len(tasks) : gs[Append(p, i)] = tasks[i]

(* The tasks are new, and their texts make up that of u. *)
Divides(u, tasks, was) ==
  /\ was \in Seq(TextSet) /\ Len(tasks) = Len(was)
  /\ \A i \in 1 .. Len(was) : Valid(tasks[i]) /\ tasks[i].state = "queued" /\ tasks[i].text = was[i]
  /\ u.state = "mapping" => /\ Len(was) > 0 /\ FromOf(was) = u.text.from
                            /\ u.text.cut => \E i \in 1 .. Len(was) : was[i].cut
  /\ u.state # "mapping" => Len(was) = 0

LEMMA TreeGrows ==
  ASSUME NEW fs, NEW gs, TasksOK(fs), Tree(fs), NEW p \in DOMAIN fs, NEW u, NEW tasks, NEW was,
         Grows(fs, gs, p, u, tasks), Divides(u, tasks, was),
         \A q \in Kids(fs, p) : fs[q].state = "done",
         Valid(u), Less(u.text, fs[p].text)
  PROVE  TasksOK(gs) /\ Tree(gs)
<1> DEFINE K == Kids(fs, p)
    D == DOMAIN fs \ K
    N == {Append(p, i) : i \in 1 .. Len(tasks)}
<1>1. /\ gs = [q \in DOMAIN gs |-> gs[q]]
      /\ DOMAIN gs = D \cup N /\ gs[p] = u
      /\ \A q \in D : q # p => gs[q] = fs[q]
      /\ \A i \in 1 .. Len(tasks) : gs[Append(p, i)] = tasks[i]
  BY Zenon DEF Grows
<1>2. /\ was \in Seq(TextSet) /\ Len(tasks) = Len(was) /\ Len(was) \in Nat
      /\ \A i \in 1 .. Len(was) : Valid(tasks[i]) /\ tasks[i].state = "queued" /\ tasks[i].text = was[i]
  BY DEF Divides
<1>3. <<>> \in DOMAIN fs /\ DOMAIN fs \subseteq Seq(Nat) /\ \A q \in DOMAIN fs : Valid(fs[q])
  BY Zenon DEF TasksOK
<1>4. \A q \in DOMAIN fs : q # <<>> => Front(q) \in DOMAIN fs /\ fs[Front(q)].state = "mapping"
  BY Zenon DEF Tree
<1>5. p \in Seq(Nat) /\ p \notin K
  <2>1. p \in Seq(Nat)
    BY <1>3
  <2>2. ASSUME p \in K PROVE FALSE
    <3>1. p # <<>> /\ Front(p) = p
      BY <2>2, Zenon DEF Kids
    <3>2. Last(p) \in Nat /\ p = Append(p, Last(p))
      BY <2>1, <3>1, PathEnds
    <3> QED
      BY <2>1, <3>2, Paths
  <2> QED
    BY <2>1, <2>2
<1>6. <<>> \in D
  BY <1>3, Zenon DEF Kids
<1>7. \A i \in 1 .. Len(was) : i \in Nat
  BY <1>2
<1>8. \A q \in D : q \in DOMAIN fs /\ q \in DOMAIN gs /\ (q # <<>> => Front(q) # p)
  BY <1>1, Zenon DEF Kids
<1>9. ASSUME NEW q \in DOMAIN gs PROVE q \in D \/ \E i \in 1 .. Len(was) : i \in Nat /\ q = Append(p, i)
  BY <1>1, <1>2, <1>7
<1>10. \A i \in Nat : Append(p, i) \in DOMAIN gs <=> i \in 1 .. Len(was)
  <2> SUFFICES ASSUME NEW i \in Nat PROVE Append(p, i) \in DOMAIN gs <=> i \in 1 .. Len(was)
    OBVIOUS
  <2>1. ASSUME i \in 1 .. Len(was) PROVE Append(p, i) \in DOMAIN gs
    BY <1>1, <1>2, <2>1
  <2>2. ASSUME Append(p, i) \in DOMAIN gs PROVE i \in 1 .. Len(was)
    <3>1. Append(p, i) \notin D
      BY <1>5, <1>8, Paths
    <3>2. PICK j \in 1 .. Len(was) : j \in Nat /\ Append(p, i) = Append(p, j)
      BY <1>9, <2>2, <3>1
    <3>3. Last(Append(p, i)) = i /\ Last(Append(p, j)) = j
      BY <1>5, <3>2, Paths
    <3> QED
      BY <3>2, <3>3
  <2> QED
    BY <2>1, <2>2
<1> HIDE DEF K, D, N
<1>11. \A q \in D : q \in Seq(Nat) /\ Valid(fs[q])
  BY <1>3, <1>8, Zenon
<1>12. TasksOK(gs)
  <2>1. ASSUME NEW q \in DOMAIN gs PROVE q \in Seq(Nat) /\ Valid(gs[q])
    <3>1. CASE q = p
      BY <1>1, <1>5, <3>1
    <3>2. CASE q \in D /\ q # p
      BY <1>1, <1>11, <3>2, Zenon
    <3>3. CASE \E i \in 1 .. Len(was) : i \in Nat /\ q = Append(p, i)
      <4>1. PICK i \in 1 .. Len(was) : i \in Nat /\ q = Append(p, i)
        BY <3>3
      <4>2. gs[q] = tasks[i]
        BY <1>1, <1>2, <4>1
      <4>3. q \in Seq(Nat)
        BY <1>5, <4>1, Paths
      <4> QED
        BY <1>2, <4>2, <4>3, Zenon
    <3> QED
      BY <1>9, <3>1, <3>2, <3>3
  <2>2. DOMAIN gs \subseteq Seq(Nat)
    BY <2>1
  <2>3. <<>> \in DOMAIN gs
    BY <1>6, <1>8
  <2> QED
    BY <1>1, <2>1, <2>2, <2>3, Zenon DEF TasksOK
<1>13. ASSUME NEW q \in DOMAIN gs, q # <<>>
       PROVE  Front(q) \in DOMAIN gs /\ gs[Front(q)].state = "mapping"
  <2>1. CASE \E i \in 1 .. Len(was) : i \in Nat /\ q = Append(p, i)
    <3>1. PICK i \in 1 .. Len(was) : i \in Nat /\ q = Append(p, i)
      BY <2>1
    <3>2. Front(q) = p
      BY <1>5, <3>1, Paths
    <3>3. u.state = "mapping"
      BY <1>2, <3>1 DEF Divides
    <3>4. p \in D
      BY <1>5, Zenon DEF D
    <3> QED
      BY <1>1, <1>8, <3>2, <3>3, <3>4, Zenon
  <2>2. CASE q \in D
    <3>1. Front(q) # p /\ Front(q) \in DOMAIN fs /\ fs[Front(q)].state = "mapping"
      BY <1>4, <1>8, <1>13, <2>2, Zenon
    <3>2. Front(q) \in D
      BY <3>1 DEF D, K
    <3> QED
      BY <1>1, <1>8, <3>1, <3>2, Zenon
  <2> QED
    BY <1>9, <2>1, <2>2
<1>14. ASSUME NEW q \in DOMAIN fs, q \in DOMAIN gs PROVE Less(gs[q].text, fs[q].text) \/ q \notin D
  <2>1. CASE q = p
    BY <1>1, <2>1
  <2>2. CASE q # p /\ q \in D
    <3>1. gs[q] = fs[q]
      BY <1>1, <2>2, Zenon
    <3>2. fs[q].text \in TextSet /\ Rising(fs[q].text.from)
      BY <1>11, <2>2, TaskFields
    <3> QED
      BY <3>1, <3>2, LessSelf
  <2> QED
    BY <2>1, <2>2
<1>15. ASSUME NEW q \in DOMAIN gs, gs[q].state = "mapping" PROVE \E w : MappedTo(gs, q, w)
  <2>1. CASE q = p
    <3>1. /\ Len(was) > 0 /\ FromOf(was) = u.text.from
          /\ u.text.cut => \E i \in 1 .. Len(was) : was[i].cut
      BY <1>1, <1>15, <2>1, Zenon DEF Divides
    <3>2. ASSUME NEW i \in 1 .. Len(was) PROVE Less(gs[Append(p, i)].text, was[i])
      <4>1. gs[Append(p, i)].text = was[i]
        BY <1>1, <1>2
      <4>2. was[i] \in TextSet /\ Rising(was[i].from)
        <5>1. Valid(tasks[i]) /\ tasks[i].text = was[i]
          BY <1>2
        <5> QED
          BY <5>1, TaskFields
      <4> QED
        BY <4>1, <4>2, LessSelf
    <3>3. MappedTo(gs, p, was)
      BY <1>1, <1>2, <1>10, <3>1, <3>2, Zenon DEF MappedTo
    <3> QED
      BY <2>1, <3>3
  <2>2. CASE q \in D /\ q # p
    <3>1. gs[q] = fs[q] /\ q \in DOMAIN fs /\ q \in Seq(Nat)
      BY <1>1, <1>8, <1>11, <2>2, Zenon
    <3>2. PICK w : MappedTo(fs, q, w)
      BY <1>15, <3>1, Zenon DEF Tree
    <3>3. /\ w \in Seq(TextSet) /\ Len(w) > 0
          /\ FromOf(w) = gs[q].text.from
          /\ gs[q].text.cut => \E i \in 1 .. Len(w) : w[i].cut
          /\ \A i \in Nat : Append(q, i) \in DOMAIN fs <=> i \in 1 .. Len(w)
          /\ \A i \in 1 .. Len(w) : Less(fs[Append(q, i)].text, w[i])
      BY <3>1, <3>2, Zenon DEF MappedTo
    <3>4. ASSUME NEW i \in Nat
          PROVE  /\ Append(q, i) \in DOMAIN gs <=> Append(q, i) \in DOMAIN fs
                 /\ Append(q, i) \in DOMAIN gs => Append(q, i) \in D
      <4>1. Front(Append(q, i)) = q /\ Append(q, i) # <<>>
        BY <3>1, Paths
      <4>2. Append(q, i) \in DOMAIN fs => Append(q, i) \in D
        BY <2>2, <4>1, Zenon DEF D, K, Kids
      <4>3. \A j \in 1 .. Len(was) : j \in Nat => Append(q, i) # Append(p, j)
        <5> SUFFICES ASSUME NEW j \in 1 .. Len(was), j \in Nat PROVE Append(q, i) # Append(p, j)
          OBVIOUS
        <5>1. Front(Append(p, j)) = p
          BY <1>5, Paths
        <5> QED
          BY <2>2, <4>1, <5>1
      <4> QED
        BY <1>8, <1>9, <4>2, <4>3, Zenon
    <3>5. \A i \in Nat : Append(q, i) \in DOMAIN gs <=> i \in 1 .. Len(w)
      BY <3>3, <3>4, Zenon
    <3>6. ASSUME NEW i \in 1 .. Len(w) PROVE Less(gs[Append(q, i)].text, w[i])
      <4>1. i \in Nat
        BY <3>3
      <4>2. Append(q, i) \in D /\ Append(q, i) \in DOMAIN gs /\ Append(q, i) \in DOMAIN fs
        BY <3>3, <3>4, <4>1, Zenon
      <4>3. Less(gs[Append(q, i)].text, fs[Append(q, i)].text)
        BY <1>14, <4>2, Zenon
      <4> QED
        BY <3>3, <4>3, LessLess, Zenon
    <3>7. MappedTo(gs, q, w)
      BY <3>3, <3>5, <3>6, Zenon DEF MappedTo
    <3> QED
      BY <3>7
  <2>3. CASE \E i \in 1 .. Len(was) : i \in Nat /\ q = Append(p, i)
    <3>1. PICK i \in 1 .. Len(was) : i \in Nat /\ q = Append(p, i)
      BY <2>3
    <3>2. gs[q].state = "queued"
      BY <1>1, <1>2, <3>1
    <3> QED
      BY <1>15, <3>2
  <2> QED
    BY <1>9, <2>1, <2>2, <2>3
<1>16. Less(gs[<<>>].text, TheDocument)
  <2>1. Less(gs[<<>>].text, fs[<<>>].text)
    BY <1>6, <1>8, <1>14, Zenon
  <2>2. Less(fs[<<>>].text, TheDocument)
    BY Zenon DEF Tree
  <2> QED
    BY <2>1, <2>2, LessLess, Zenon
<1>17. Tree(gs)
  BY <1>13, <1>15, <1>16, Zenon DEF Tree
<1> QED
  BY <1>12, <1>17

-----------------------------------------------------------------------------
(* The results of the tasks awaited *)

LEMMA TokensIn ==
  ASSUME NEW ts \in Seq(TextSet)
  PROVE  TokensOf(ts) \in Nat
<1>1. PICK u \in [0 .. Len(ts) -> Nat] : CountsBy(ts, u)
  BY Counted
<1>2. Len(ts) \in 0 .. Len(ts)
  OBVIOUS
<1>3. u[Len(ts)] \in Nat
  BY <1>1, <1>2
<1> QED
  BY <1>1, <1>3 DEF CountsBy

LEMMA SeparatorsIn ==
  ASSUME NEW parts \in Nat \ {0}
  PROVE  Separators(parts) \in Nat
<1>1. JoinTokens \in Nat
  BY FoldConstants
<1>2. \A a \in Nat, n \in Nat \ {0} : a * (n - 1) \in Nat
  OBVIOUS
<1> QED
  BY <1>1, <1>2 DEF Separators

LEMMA TextIs ==
  ASSUME NEW size \in Nat, NEW from \in Seq(Nat), NEW cut \in BOOLEAN, NEW parts \in Nat \ {0}, NEW t,
         t = [size |-> size, from |-> from, cut |-> cut, parts |-> parts]
  PROVE  t \in TextSet /\ t.size = size /\ t.from = from /\ t.parts = parts /\ t.cut = cut
<1>1. t.size = size /\ t.from = from /\ t.parts = parts
  OBVIOUS
<1>2. t.cut = cut
  BY Zenon
<1>3. t \in TextSet
  <2> DEFINE N == Nat \ {0}
      X == Seq(Nat)
  <2>1. parts \in N /\ from \in X
    OBVIOUS
  <2> HIDE DEF N, X
  <2>2. t \in [size : Nat, from : X, cut : BOOLEAN, parts : N]
    BY <2>1
  <2> QED
    BY <2>2, Zenon DEF TextSet, N, X
<1> QED
  BY <1>1, <1>2, <1>3, Zenon

LEMMA JoinFacts ==
  ASSUME NEW ts \in Seq(TextSet), Len(ts) > 0
  PROVE  /\ JoinTexts(ts) \in TextSet
         /\ JoinTexts(ts).size = TokensOf(ts) + Separators(Len(ts))
         /\ JoinTexts(ts).from = FromOf(ts) /\ JoinTexts(ts).parts = Len(ts)
         /\ JoinTexts(ts).cut <=> \E i \in 1 .. Len(ts) : ts[i].cut
<1> DEFINE size == TokensOf(ts) + Separators(Len(ts))
    cut == \E i \in 1 .. Len(ts) : ts[i].cut
    L == Len(ts)
<1>1. L \in Nat \ {0} /\ DOMAIN ts = 1 .. L
  OBVIOUS
<1>2. size \in Nat
  <2>1. TokensOf(ts) \in Nat /\ Separators(L) \in Nat
    BY <1>1, TokensIn, SeparatorsIn
  <2> QED
    BY <2>1
<1>3. FromOf(ts) \in Seq(Nat)
  BY FromsAre, FlattenIn DEF FromOf
<1>4. JoinTexts(ts) = [size |-> size, from |-> FromOf(ts), cut |-> cut, parts |-> L]
  BY <1>1, Zenon DEF JoinTexts, FromOf, Froms, size, cut, L
<1>5. cut \in BOOLEAN
  OBVIOUS
<1> HIDE DEF size, cut, L
<1>6. JoinTexts(ts) \in TextSet /\ JoinTexts(ts).size = size /\ JoinTexts(ts).from = FromOf(ts)
      /\ JoinTexts(ts).parts = L /\ JoinTexts(ts).cut = cut
  <2> DEFINE from == FromOf(ts)
      t == JoinTexts(ts)
  <2> HIDE DEF from, t
  <2>1. from \in Seq(Nat) /\ t = [size |-> size, from |-> from, cut |-> cut, parts |-> L]
    BY <1>3, <1>4, Zenon DEF from, t
  <2>2. t \in TextSet /\ t.size = size /\ t.from = from /\ t.parts = L /\ t.cut = cut
    BY <1>1, <1>2, <1>5, <2>1, TextIs
  <2> QED
    BY <2>2, Zenon DEF from, t
<1> QED
  BY <1>6, Zenon DEF size, cut, L

(* Each of rs says no less than its text of was: so does the joined text. *)
LEMMA JoinLess ==
  ASSUME NEW rs \in Seq(TextSet), NEW was \in Seq(TextSet), NEW t \in TextSet,
         Len(rs) = Len(was), Len(rs) > 0, \A i \in 1 .. Len(rs) : Less(rs[i], was[i]),
         FromOf(was) = t.from, Rising(t.from), t.cut => \E i \in 1 .. Len(was) : was[i].cut
  PROVE  Less(JoinTexts(rs), t)
<1>1. /\ Froms(rs) \in Seq(Seq(Nat)) /\ Len(Froms(rs)) = Len(rs)
      /\ \A n \in 1 .. Len(rs) : Froms(rs)[n] = rs[n].from
  BY FromsAre
<1>2. /\ Froms(was) \in Seq(Seq(Nat)) /\ Len(Froms(was)) = Len(rs)
      /\ \A n \in 1 .. Len(rs) : Froms(was)[n] = was[n].from
  BY FromsAre
<1>3. \A n \in 1 .. Len(rs) : PartOf(Froms(rs)[n], Froms(was)[n])
  BY <1>1, <1>2, Zenon DEF Less
<1>4. FlattenSeq(Froms(was)) = t.from
  BY Zenon DEF FromOf
<1>5. PartOf(FromOf(rs), t.from)
  <2>1. Rising(FlattenSeq(Froms(was)))
    BY <1>4, Zenon
  <2>2. PartOf(FlattenSeq(Froms(rs)), FlattenSeq(Froms(was)))
    BY <1>1, <1>2, <1>3, <2>1, FlattenParts
  <2> QED
    BY <1>4, <2>2, Zenon DEF FromOf
<1>6. /\ JoinTexts(rs) \in TextSet /\ JoinTexts(rs).from = FromOf(rs)
      /\ JoinTexts(rs).cut <=> \E i \in 1 .. Len(rs) : rs[i].cut
  BY JoinFacts
<1>7. t.cut => JoinTexts(rs).cut
  BY <1>6, Zenon DEF Less
<1>8. ASSUME ~JoinTexts(rs).cut PROVE FromOf(rs) = t.from
  <2>1. \A n \in 1 .. Len(rs) : Froms(rs)[n] = Froms(was)[n]
    BY <1>1, <1>2, <1>6, <1>8, Zenon DEF Less
  <2>2. Froms(rs) = Froms(was)
    <3> DEFINE X == Seq(Nat)
    <3>1. Froms(rs) \in Seq(X) /\ Froms(was) \in Seq(X)
      BY <1>1, <1>2
    <3> HIDE DEF X
    <3> QED
      BY <1>1, <1>2, <2>1, <3>1, SeqsAgree
  <2> QED
    BY <1>4, <2>2, Zenon DEF FromOf
<1> QED
  BY <1>5, <1>6, <1>7, <1>8, Zenon DEF Less

(* What run_ordered returned: a result for each of the texts it was given. *)
LEMMA ResultsAre ==
  ASSUME TasksOK(folds), NEW p \in DOMAIN folds, NEW was, MappedTo(folds, p, was)
  PROVE  /\ Results(p) \in Seq(TextSet) /\ Len(Results(p)) = Len(was)
         /\ \A i \in 1 .. Len(was) : Results(p)[i] = folds[Append(p, i)].text
<1> DEFINE L == Len(was)
    f == [i \in 1 .. L |-> Append(p, i)]
<1>1. /\ L \in Nat
      /\ \A i \in Nat : Append(p, i) \in DOMAIN folds <=> i \in 1 .. L
      /\ \A i \in 1 .. L : Less(folds[Append(p, i)].text, was[i])
  BY Zenon, LenProperties DEF MappedTo
<1>2. DOMAIN folds \subseteq Seq(Nat) /\ p \in Seq(Nat)
  BY Zenon DEF TasksOK
<1>3. \A i \in 1 .. L : i \in Nat
  BY <1>1
<1> HIDE DEF L
<1>4. ASSUME NEW i \in 1 .. L PROVE Append(p, i) \in Children(p)
  <2>1. Append(p, i) # <<>> /\ Front(Append(p, i)) = p
    BY <1>2, <1>3, Paths
  <2> QED
    BY <1>1, <1>3, <2>1, Zenon DEF Children
<1>5. ASSUME NEW q \in Children(p) PROVE \E i \in 1 .. L : q = Append(p, i)
  <2>1. q \in DOMAIN folds /\ q \in Seq(Nat) /\ q # <<>> /\ Front(q) = p
    BY <1>2, Zenon DEF Children
  <2>2. Last(q) \in Nat /\ q = Append(p, Last(q))
    BY <2>1, PathEnds
  <2> QED
    BY <1>1, <2>1, <2>2, Zenon
<1>6. f \in Bijection(1 .. L, Children(p))
  <2>1. f \in [1 .. L -> Children(p)]
    BY <1>4
  <2>2. \A i, j \in 1 .. L : f[i] = f[j] => i = j
    <3> SUFFICES ASSUME NEW i \in 1 .. L, NEW j \in 1 .. L, f[i] = f[j] PROVE i = j
      OBVIOUS
    <3>1. Last(Append(p, i)) = i /\ Last(Append(p, j)) = j
      BY <1>2, <1>3, Paths
    <3> QED
      BY <3>1
  <2>3. \A q \in Children(p) : \E i \in 1 .. L : f[i] = q
    BY <1>5
  <2> HIDE DEF f
  <2> QED
    BY <2>1, <2>2, <2>3, Zenon DEF Bijection, Injection, Surjection, IsInjective
<1>7. Cardinality(Children(p)) = L
  <2>1. IsFiniteSet(1 .. L) /\ Cardinality(1 .. L) = L
    BY <1>1, FS_Interval
  <2>2. ExistsBijection(1 .. L, Children(p))
    BY <1>6, Zenon DEF ExistsBijection
  <2> QED
    BY <2>1, <2>2, FS_Bijection
<1>8. Results(p) = [i \in 1 .. L |-> folds[Append(p, i)].text]
  BY <1>7, Zenon DEF Results
<1>9. \A i \in 1 .. L : folds[Append(p, i)].text \in TextSet
  BY <1>1, Zenon DEF Less
<1> DEFINE X == TextSet
<1> HIDE DEF X
<1>10. Results(p) \in Seq(X) /\ Len(Results(p)) = L
  <2>1. Results(p) \in [1 .. L -> X]
    BY <1>8, <1>9 DEF X
  <2> QED
    BY <1>1, <2>1
<1> QED
  BY <1>8, <1>10 DEF X, L

-----------------------------------------------------------------------------
(* The steps of the fold *)

(* fs without the children of p. *)
Without(fs, p) == [q \in DOMAIN fs \ Kids(fs, p) |-> fs[q]]

(* The function that Spawn makes of it. *)
LEMMA SpawnGrows ==
  ASSUME NEW fs, TasksOK(fs), NEW p \in DOMAIN fs, NEW as,
         as = Without(fs, p), NEW u,
         NEW tasks, Len(tasks) \in Nat, DOMAIN tasks = 1 .. Len(tasks)
  PROVE  /\ Grows(fs, Spawn([as EXCEPT ![p] = u], p, tasks), p, u, tasks)
         /\ Len(tasks) = 0 => Grows(fs, [as EXCEPT ![p] = u], p, u, tasks)
<1> DEFINE D == DOMAIN fs \ Kids(fs, p)
    N == {Append(p, i) : i \in 1 .. Len(tasks)}
    bs == [as EXCEPT ![p] = u]
    gs == Spawn(bs, p, tasks)
<1>1. p \in Seq(Nat) /\ \A i \in 1 .. Len(tasks) : i \in Nat
  BY DEF TasksOK
<1>2. p \in D
  <2>1. ASSUME p # <<>>, Front(p) = p PROVE FALSE
    <3>1. Last(p) \in Nat /\ p = Append(Front(p), Last(p))
      BY <1>1, <2>1, PathEnds
    <3> QED
      BY <1>1, <2>1, <3>1, Paths
  <2> QED
    BY <2>1 DEF Kids
<1>3. /\ DOMAIN bs = D /\ bs = [q \in D |-> bs[q]] /\ bs[p] = u
      /\ \A q \in D : q # p => bs[q] = fs[q]
  <2> HIDE DEF D
  <2>1. as = [q \in D |-> fs[q]]
    BY Zenon DEF D, Without
  <2> QED
    BY <1>2, <2>1
<1>4. gs = [q \in D \cup N |-> IF q \in D THEN bs[q] ELSE tasks[Last(q)]]
  <2> HIDE DEF bs, D
  <2>1. DOMAIN bs = D
    BY <1>3, Zenon
  <2> QED
    BY <2>1, Zenon DEF Spawn
<1>5. ASSUME NEW i \in 1 .. Len(tasks)
      PROVE  Append(p, i) \notin D /\ Last(Append(p, i)) = i /\ Append(p, i) \in N
  <2>1. Append(p, i) # <<>> /\ Front(Append(p, i)) = p /\ Last(Append(p, i)) = i
    BY <1>1, Paths
  <2>2. Append(p, i) \in N
    OBVIOUS
  <2> QED
    BY <2>1, <2>2, Zenon DEF Kids
<1> HIDE DEF D, N, bs, gs
<1>6. /\ gs = [q \in DOMAIN gs |-> gs[q]] /\ DOMAIN gs = D \cup N
      /\ \A q \in D : gs[q] = bs[q]
  BY <1>4
<1>7. \A i \in 1 .. Len(tasks) : gs[Append(p, i)] = tasks[i]
  BY <1>4, <1>5
<1>8. gs[p] = u /\ \A q \in D : q # p => gs[q] = fs[q]
  BY <1>2, <1>3, <1>6, Zenon
<1>9. Grows(fs, gs, p, u, tasks)
  BY <1>6, <1>7, <1>8, Zenon DEF Grows, D, N
<1>10. ASSUME Len(tasks) = 0 PROVE Grows(fs, bs, p, u, tasks)
  <2>1. N = {} /\ ~\E i \in 1 .. Len(tasks) : TRUE
    BY <1>10 DEF N
  <2>2. bs = [q \in DOMAIN bs |-> bs[q]] /\ DOMAIN bs = D \cup N
    BY <1>3, <2>1
  <2> QED
    BY <1>3, <2>1, <2>2, Zenon DEF Grows, D, N
<1> QED
  BY <1>9, <1>10, Zenon DEF bs, gs

(* A task that awaits none becomes u, and awaits none. *)
LEMMA TaskBecomes ==
  ASSUME NEW fs, TasksOK(fs), Tree(fs), NEW p \in DOMAIN fs, fs[p].state # "mapping", NEW u, u.state # "mapping",
         Valid(u), Less(u.text, fs[p].text)
  PROVE  TasksOK([fs EXCEPT ![p] = u]) /\ Tree([fs EXCEPT ![p] = u])
<1>1. Kids(fs, p) = {}
  BY Zenon DEF Kids, Tree
<1>2. fs = Without(fs, p)
  <2>1. DOMAIN fs \ Kids(fs, p) = DOMAIN fs
    BY <1>1
  <2>2. fs = [q \in DOMAIN fs |-> fs[q]]
    BY Zenon DEF TasksOK
  <2> QED
    BY <2>1, <2>2, Zenon DEF Without
<1>3. Len(<<>>) = 0 /\ <<>> \in Seq(TextSet) /\ DOMAIN <<>> = 1 .. 0 /\ 0 \in Nat
  OBVIOUS
<1> DEFINE gs == [fs EXCEPT ![p] = u]
<1>4. Grows(fs, gs, p, u, <<>>)
  <2> DEFINE none == <<>>
  <2>1. Len(none) \in Nat /\ DOMAIN none = 1 .. Len(none) /\ Len(none) = 0
    BY <1>3
  <2> HIDE DEF none
  <2>2. Grows(fs, gs, p, u, none)
    BY <1>2, <2>1, SpawnGrows
  <2> QED
    BY <2>2, Zenon DEF none
<1>5. Divides(u, <<>>, <<>>)
  BY <1>3 DEF Divides
<1> HIDE DEF gs
<1>6. \A q \in Kids(fs, p) : fs[q].state = "done"
  BY <1>1
<1>7. TasksOK(gs) /\ Tree(gs)
  BY <1>4, <1>5, <1>6, TreeGrows
<1> QED
  BY <1>7, Zenon DEF gs

(* Texts that a task of the kind may be given. *)
Ready(kind, texts) ==
  \A i \in 1 .. Len(texts) :
    /\ Rising(texts[i].from)
    /\ kind = "batch" => FitsCall(kind, texts[i])
    /\ kind = "doc" => ~texts[i].cut /\ texts[i].size <= Len(texts[i].from) + 1

Factories(kind, texts, depth, parent) ==
  [i \in DOMAIN texts |-> FoldTask(kind, texts[i], depth, parent)]

Queues(tasks, texts) ==
  /\ Len(tasks) = Len(texts) /\ DOMAIN tasks = 1 .. Len(tasks) /\ Len(tasks) \in Nat
  /\ \A i \in 1 .. Len(texts) : Valid(tasks[i]) /\ tasks[i].state = "queued" /\ tasks[i].text = texts[i]

(* One factory for each of the texts. *)
LEMMA FoldTasks ==
  ASSUME NEW texts \in Seq(TextSet), NEW kind \in {"doc", "batch"}, NEW depth \in Nat, NEW parent \in Nat,
         Ready(kind, texts), NEW tasks, tasks = Factories(kind, texts, depth, parent)
  PROVE  Queues(tasks, texts)
<1> DEFINE L == Len(texts)
    X == TextSet
<1>1. L \in Nat /\ DOMAIN texts = 1 .. L /\ \A i \in 1 .. L : texts[i] \in X
  OBVIOUS
<1> HIDE DEF X, L
<1>2. tasks = [i \in 1 .. L |-> FoldTask(kind, texts[i], depth, parent)]
  BY <1>1, Zenon DEF Factories
<1>3. ASSUME NEW i \in 1 .. L
      PROVE  /\ tasks[i] \in TaskSet /\ tasks[i].state = "queued" /\ tasks[i].kind = kind
             /\ tasks[i].text = texts[i]
  <2>1. tasks[i] = FoldTask(kind, texts[i], depth, parent)
    BY <1>2
  <2>2. texts[i] \in X
    BY <1>1
  <2> QED
    BY <2>1, <2>2 DEF FoldTask, TaskSet, X
<1>4. tasks \in Seq(TaskSet) /\ Len(tasks) = L /\ DOMAIN tasks = 1 .. L
  <2> DEFINE S == TaskSet
  <2>1. \A i \in 1 .. L : tasks[i] \in S
    BY <1>3
  <2> HIDE DEF S
  <2>2. tasks \in [1 .. L -> S]
    BY <1>2, <2>1
  <2>3. tasks \in Seq(S) /\ Len(tasks) = L /\ DOMAIN tasks = 1 .. L
    BY <1>1, <2>2
  <2> QED
    BY <2>3 DEF S
<1>5. ASSUME NEW i \in 1 .. L PROVE Valid(tasks[i])
  <2>1. /\ Rising(texts[i].from) /\ (kind = "batch" => FitsCall(kind, texts[i]))
        /\ kind = "doc" => ~texts[i].cut /\ texts[i].size <= Len(texts[i].from) + 1
    BY <1>5, Zenon DEF L, Ready
  <2> QED
    BY <1>3, <2>1, Zenon DEF Valid, ToCall, ToRead
<1> QED
  BY <1>1, <1>3, <1>4, <1>5, Zenon DEF L, Queues

(* What every state of a fold that has not failed satisfies: each task is  *)
(* given what its text says and says no less, all of it unless truncated.   *)
FoldInv ==
  /\ TasksOK(folds)
  /\ folded \in [state : {"none", "raised", "ok"}, text : TextSet]
  /\ folded.state # "raised" => Tree(folds)
  /\ folded.state = "ok" => Less(folded.text, TheDocument)

LEMMA TheDocumentIs ==
  /\ TheDocument \in TextSet /\ Rising(TheDocument.from) /\ ~TheDocument.cut
  /\ TheDocument.from = [i \in 1 .. DocumentTokens |-> i]
  /\ TheDocument.size <= Len(TheDocument.from) + 1
<1> DEFINE from == [i \in 1 .. DocumentTokens |-> i]
<1>1. DocumentTokens \in Nat
  BY FoldConstants
<1>2. from \in Seq(Nat) /\ Len(from) = DocumentTokens /\ Rising(from)
  <2>1. from \in [1 .. DocumentTokens -> Nat]
    BY <1>1
  <2>2. from \in Seq(Nat) /\ Len(from) = DocumentTokens
    BY <1>1, <2>1
  <2>3. Rising(from)
    BY <1>1, <2>2 DEF Rising
  <2> QED
    BY <2>2, <2>3
<1> HIDE DEF from
<1>3. TheDocument = [size |-> Len(from) + 0, from |-> from, cut |-> FALSE, parts |-> 1]
  BY Zenon DEF TheDocument, PieceText, from
<1>4. Len(from) + 0 \in Nat /\ 1 \in Nat \ {0}
  BY <1>2
<1>5. /\ TheDocument \in TextSet /\ TheDocument.from = from /\ TheDocument.cut = FALSE
      /\ TheDocument.size = Len(from) + 0
  <2> DEFINE size == Len(from) + 0
      cut == FALSE
      parts == 1
  <2>1. /\ size \in Nat /\ cut \in BOOLEAN /\ parts \in Nat \ {0}
        /\ TheDocument = [size |-> size, from |-> from, cut |-> cut, parts |-> parts]
    BY <1>3, <1>4
  <2> HIDE DEF size, cut, parts
  <2>2. TheDocument \in TextSet /\ TheDocument.size = size /\ TheDocument.from = from /\ TheDocument.cut = cut
    BY <1>2, <2>1, TextIs
  <2> QED
    BY <2>2, Zenon DEF size, cut
<1>6. TheDocument.size <= Len(TheDocument.from) + 1
  BY <1>2, <1>5
<1> QED
  BY <1>2, <1>5, <1>6, Zenon DEF from

(* The same task in another state, with another text. *)
LEMMA WithFields ==
  ASSUME NEW job, Valid(job), NEW state \in {"reading", "calling", "mapping", "done"}, NEW t \in TextSet,
         Rising(t.from), state = "calling" => FitsCall(job.kind, t),
         state = "reading" => ~t.cut /\ t.size <= Len(t.from) + 1,
         NEW u, u = With(job, state, t) \/ \E depth \in Nat : u = [With(job, state, t) EXCEPT !.depth = depth]
  PROVE  Valid(u) /\ u.state = state /\ u.text = t /\ u.kind = job.kind
<1> DEFINE X == TextSet
<1>1. job \in [state : {"queued", "reading", "calling", "mapping", "done"}, kind : {"doc", "batch"},
                text : X, depth : Nat, parent : Nat]
  BY Zenon DEF Valid, TaskSet
<1> HIDE DEF X
<1>2. t \in X
  BY DEF X
<1>3. u \in TaskSet /\ u.state = state /\ u.text = t /\ u.kind = job.kind
  BY <1>1, <1>2 DEF With, TaskSet, X
<1> QED
  BY <1>3, Zenon DEF Valid, ToCall, ToRead

LEMMA StartTaskStays ==
  ASSUME TasksOK(folds), Tree(folds), NEW p \in DOMAIN folds, StartTask(p)
  PROVE  TasksOK(folds') /\ Tree(folds')
<1> DEFINE job == folds[p]
    state == IF job.kind = "doc" THEN "reading" ELSE "calling"
    u == With(job, state, job.text)
<1>1. Valid(job) /\ job.state = "queued"
  BY Zenon DEF TasksOK, StartTask
<1>2. job.text \in TextSet /\ Rising(job.text.from) /\ job.kind \in {"doc", "batch"}
  BY <1>1, TaskFields
<1>3. folds' = [folds EXCEPT ![p] = u]
  BY Zenon DEF StartTask
<1>4. /\ state \in {"reading", "calling", "mapping", "done"}
      /\ state = "calling" => FitsCall(job.kind, job.text)
      /\ state = "reading" => ~job.text.cut /\ job.text.size <= Len(job.text.from) + 1
  <2>1. CASE job.kind = "doc"
    <3>1. state = "reading"
      BY <2>1
    <3>2. ~job.text.cut /\ job.text.size <= Len(job.text.from) + 1
      BY <1>1, <2>1, Zenon DEF Valid, ToRead
    <3> QED
      BY <3>1, <3>2
  <2>2. CASE job.kind = "batch"
    <3>1. state = "calling"
      BY <2>2
    <3>2. FitsCall(job.kind, job.text)
      BY <1>1, <2>2, Zenon DEF Valid, ToCall
    <3> QED
      BY <3>1, <3>2
  <2> QED
    BY <1>2, <2>1, <2>2
<1> HIDE DEF state
<1>5. Valid(u) /\ u.state = state /\ u.text = job.text
  BY <1>1, <1>2, <1>4, WithFields
<1>6. state # "mapping" /\ job.state # "mapping"
  BY <1>1 DEF state
<1>7. Less(u.text, job.text)
  BY <1>2, <1>5, LessSelf
<1> HIDE DEF u
<1> QED
  BY <1>3, <1>5, <1>6, <1>7, TaskBecomes

LEMMA AnswerCallStays ==
  ASSUME TasksOK(folds), Tree(folds), NEW p \in DOMAIN folds, AnswerCall(p)
  PROVE  TasksOK(folds') /\ Tree(folds')
<1> DEFINE job == folds[p]
<1>1. Valid(job) /\ job.state = "calling"
  BY Zenon DEF TasksOK, AnswerCall
<1>2. job.text \in TextSet /\ Rising(job.text.from)
  BY <1>1, TaskFields
<1>3. PICK n \in SummarySizes : folds' = [folds EXCEPT ![p] = With(job, "done", Answered(job.text, n))]
  BY Zenon DEF AnswerCall
<1> DEFINE t == Answered(job.text, n)
    u == With(job, "done", t)
<1>4. t \in TextSet /\ t.from = job.text.from
  <2>1. n \in Nat
    BY FoldConstants
  <2> DEFINE X == Seq(Nat)
      N == Nat \ {0}
      was == job.text
  <2>2. was \in [size : Nat, from : X, cut : BOOLEAN, parts : N] /\ 1 \in N
    <3>1. was \in [size : Nat, from : X, cut : BOOLEAN, parts : N]
      BY <1>2, Zenon DEF TextSet
    <3>2. 1 \in N
      OBVIOUS
    <3> QED
      BY <3>1, <3>2
  <2> HIDE DEF X, N, was
  <2>3. /\ Answered(was, n) \in [size : Nat, from : X, cut : BOOLEAN, parts : N]
        /\ Answered(was, n).from = was.from
    BY <2>1, <2>2 DEF Answered
  <2> QED
    BY <2>3, Zenon DEF TextSet, X, N, was
<1>5. t.cut = job.text.cut
  <2>1. job.text.cut \in BOOLEAN
    BY <1>2, TextFields
  <2> QED
    BY <1>2, Zenon DEF Answered, TextSet
<1> HIDE DEF t
<1>6. Less(t, job.text)
  <2>1. Less(job.text, job.text)
    BY <1>2, LessSelf
  <2> QED
    BY <1>4, <1>5, <2>1, Zenon DEF Less
<1>7. Valid(u) /\ u.state = "done" /\ u.text = t
  BY <1>1, <1>2, <1>4, WithFields
<1> HIDE DEF u
<1>8. Less(u.text, job.text) /\ u.state # "mapping" /\ job.state # "mapping"
  BY <1>1, <1>6, <1>7
<1>9. folds' = [folds EXCEPT ![p] = u]
  BY <1>3, Zenon DEF u, t
<1> QED
  BY <1>7, <1>8, <1>9, TaskBecomes

LEMMA RaiseFoldStays ==
  ASSUME FoldInv, RaiseFold
  PROVE  FoldInv'
<1>1. Valid(folds[<<>>])
  BY Zenon DEF FoldInv, TasksOK
<1>2. folds' = [q \in {<<>>} |-> folds[<<>>]]
  BY Zenon DEF RaiseFold, Only
<1> DEFINE v == folds[<<>>]
<1>3. TasksOK(folds')
  <2> HIDE DEF v
  <2> DEFINE fs == folds'
  <2>1. fs = [q \in {<<>>} |-> v] /\ Valid(v)
    BY <1>1, <1>2 DEF v
  <2> HIDE DEF fs
  <2>2. fs = [q \in DOMAIN fs |-> fs[q]] /\ DOMAIN fs = {<<>>} /\ fs[<<>>] = v
    BY <2>1
  <2>3. <<>> \in Seq(Nat)
    OBVIOUS
  <2>4. TasksOK(fs)
    BY <2>1, <2>2, <2>3 DEF TasksOK
  <2> QED
    BY <2>4, Zenon DEF fs
<1>4. folded' \in [state : {"none", "raised", "ok"}, text : TextSet] /\ folded'.state = "raised"
  <2> DEFINE X == TextSet
  <2>1. folded \in [state : {"none", "raised", "ok"}, text : X]
    BY DEF FoldInv
  <2> HIDE DEF X
  <2>2. folded' \in [state : {"none", "raised", "ok"}, text : X] /\ folded'.state = "raised"
    BY <2>1 DEF RaiseFold
  <2> QED
    BY <2>2 DEF X
<1> DEFINE fs == folds'
<1> HIDE DEF fs
<1>5. TasksOK(fs)
  BY <1>3, Zenon DEF fs
<1> QED
  BY <1>4, <1>5 DEF FoldInv, fs

LEMMA Truncated ==
  ASSUME NEW t \in TextSet, Rising(t.from), MaxInput <= Len(t.from)
  PROVE  /\ Truncate(t) \in TextSet /\ Truncate(t).size = MaxInput /\ Rising(Truncate(t).from)
         /\ Less(Truncate(t), t)
<1>1. MaxInput \in Nat
  BY FoldConstants
<1>2. t.from \in Seq(Nat) /\ t.parts \in Nat /\ t.parts # 0 /\ Len(t.from) \in Nat
  BY TextFields
<1> DEFINE from == SubSeq(t.from, 1, MaxInput)
    u == Truncate(t)
<1>3. MaxInput \in 0 .. Len(t.from)
  BY <1>1, <1>2
<1>4. from \in Seq(Nat) /\ Len(from) = MaxInput /\ \A i \in 1 .. MaxInput : from[i] = t.from[i]
  BY <1>2, <1>3, Prefix
<1> HIDE DEF from
<1>5. u \in TextSet /\ u.size = MaxInput /\ u.from = from /\ u.cut = TRUE
  <2> DEFINE X == Seq(Nat)
      N == Nat \ {0}
  <2>1. t \in [size : Nat, from : X, cut : BOOLEAN, parts : N]
    BY Zenon DEF TextSet
  <2>2. from \in X
    BY <1>4
  <2>3. u = [t EXCEPT !.size = MaxInput, !.from = from, !.cut = TRUE]
    <3>1. t.from = t.from
      OBVIOUS
    <3> QED
      BY <2>1 DEF Truncate, from
  <2> HIDE DEF X, N, u
  <2>4. u \in [size : Nat, from : X, cut : BOOLEAN, parts : N] /\ u.size = MaxInput /\ u.from = from
    BY <1>1, <2>1, <2>2, <2>3
  <2>5. u.cut = TRUE
    BY <2>1, <2>3, Zenon
  <2> QED
    BY <2>4, <2>5, Zenon DEF TextSet, X, N
<1>6. PartOf(from, t.from)
  <2>1. Rising(from)
    <3> SUFFICES ASSUME NEW i \in 1 .. Len(from), NEW j \in 1 .. Len(from), i < j PROVE from[i] < from[j]
      BY Zenon DEF Rising
    <3>1. i \in 1 .. Len(t.from) /\ j \in 1 .. Len(t.from) /\ from[i] = t.from[i] /\ from[j] = t.from[j]
      BY <1>1, <1>2, <1>3, <1>4
    <3> QED
      BY <3>1, Zenon DEF Rising
  <2>2. \A i \in 1 .. Len(from) : i \in 1 .. Len(t.from) /\ from[i] = t.from[i]
    BY <1>1, <1>2, <1>3, <1>4
  <2> QED
    BY <2>1, <2>2 DEF PartOf
<1> HIDE DEF u
<1>7. Less(u, t) /\ Rising(u.from)
  BY <1>5, <1>6, Zenon DEF Less, PartOf
<1> QED
  BY <1>5, <1>7, Zenon DEF u

LEMMA PieceIs ==
  ASSUME NEW from \in Seq(Nat), NEW extra \in {0, 1}
  PROVE  /\ PieceText(from, extra) \in TextSet /\ PieceText(from, extra).from = from
         /\ ~PieceText(from, extra).cut /\ PieceText(from, extra).size <= Len(from) + 1
<1> DEFINE size == Len(from) + extra
    cut == FALSE
    parts == 1
    t == PieceText(from, extra)
<1>1. size \in Nat /\ cut \in BOOLEAN /\ parts \in Nat \ {0} /\ size <= Len(from) + 1
  BY LenProperties
<1>2. t = [size |-> size, from |-> from, cut |-> cut, parts |-> parts]
  BY Zenon DEF PieceText
<1> HIDE DEF size, cut, parts, t
<1>3. t \in TextSet /\ t.size = size /\ t.from = from /\ t.cut = cut
  BY <1>1, <1>2, TextIs
<1> QED
  BY <1>1, <1>3, Zenon DEF t, cut

LEMMA FromOfTwo ==
  ASSUME NEW a \in TextSet, NEW b \in TextSet
  PROVE  FromOf(<<a, b>>) = a.from \o b.from
<1>1. <<a>> \in Seq(TextSet) /\ <<a, b>> = Append(<<a>>, b)
  OBVIOUS
<1>2. FromOf(<<a, b>>) = FromOf(<<a>>) \o b.from
  BY <1>1, FromOfAppend, Zenon
<1> QED
  BY <1>2, FromOfOne, Zenon

(* The pieces of the splitter, put together, are the text. *)
LEMMA SplitIs ==
  ASSUME NEW t \in TextSet, Rising(t.from), NEW pieces \in SplitTexts(t), ~(Len(pieces) <= 1)
  PROVE  /\ pieces \in Seq(TextSet) /\ Len(pieces) > 0 /\ FromOf(pieces) = t.from
         /\ \A i \in 1 .. Len(pieces) : /\ Rising(pieces[i].from) /\ ~pieces[i].cut
                                        /\ pieces[i].size <= Len(pieces[i].from) + 1
<1> DEFINE L == Len(t.from)
    a(k) == SubSeq(t.from, 1, k)
    b(k) == SubSeq(t.from, k + 1, L)
<1>1. t.from \in Seq(Nat) /\ L \in Nat
  BY TextFields
<1>2. PICK k \in 1 .. (L - 1), extra \in {0, 1} : pieces = <<PieceText(a(k), extra), PieceText(b(k), extra)>>
  <2>1. pieces # <<t>>
    <3> DEFINE one == <<t>>
    <3>1. Len(one) <= 1
      OBVIOUS
    <3> HIDE DEF one
    <3>2. pieces # one
      BY <3>1, Zenon
    <3> QED
      BY <3>2, Zenon DEF one
  <2>2. pieces \in {<<PieceText(SubSeq(t.from, 1, k), extra), PieceText(SubSeq(t.from, k + 1, Len(t.from)), extra)>> :
                      k \in 1 .. (Len(t.from) - 1), extra \in {0, 1}}
    BY <2>1 DEF SplitTexts
  <2> QED
    BY <2>2
<1>3. k \in 0 .. L
  BY <1>1
<1>4. a(k) \in Seq(Nat) /\ b(k) \in Seq(Nat) /\ a(k) \o b(k) = t.from
  BY <1>1, <1>3, Cuts
<1> DEFINE x == PieceText(a(k), extra)
    y == PieceText(b(k), extra)
<1> HIDE DEF a, b
<1>5. /\ x \in TextSet /\ x.from = a(k) /\ ~x.cut /\ x.size <= Len(a(k)) + 1
      /\ y \in TextSet /\ y.from = b(k) /\ ~y.cut /\ y.size <= Len(b(k)) + 1
  BY <1>4, PieceIs
<1>6. Rising(x.from) /\ Rising(y.from)
  <2>1. Rising(a(k) \o b(k))
    BY <1>4, Zenon
  <2>2. Rising(a(k)) /\ Rising(b(k))
    BY <1>4, <2>1, RisingParts
  <2> QED
    BY <1>5, <2>2, Zenon
<1>7. pieces = <<x, y>>
  BY <1>2
<1> HIDE DEF x, y
<1>8. FromOf(pieces) = t.from
  BY <1>4, <1>5, <1>7, FromOfTwo, Zenon
<1>9. pieces \in Seq(TextSet) /\ Len(pieces) = 2 /\ pieces[1] = x /\ pieces[2] = y
  <2> DEFINE X == TextSet
  <2>1. x \in X /\ y \in X
    BY <1>5
  <2> HIDE DEF X
  <2>2. <<x, y>> \in Seq(X) /\ Len(<<x, y>>) = 2 /\ <<x, y>>[1] = x /\ <<x, y>>[2] = y
    BY <2>1
  <2> QED
    BY <1>7, <2>2, Zenon DEF X
<1>10. \A i \in 1 .. Len(pieces) : pieces[i] = x \/ pieces[i] = y
  <2>1. \A i \in 1 .. Len(pieces) : i = 1 \/ i = 2
    BY <1>9
  <2> QED
    BY <1>9, <2>1, Zenon
<1>11. /\ Rising(x.from) /\ ~x.cut /\ x.size <= Len(x.from) + 1
       /\ Rising(y.from) /\ ~y.cut /\ y.size <= Len(y.from) + 1
  BY <1>5, <1>6, Zenon
<1>12. Len(pieces) > 0
  BY <1>9
<1> QED
  BY <1>8, <1>9, <1>10, <1>11, <1>12, Zenon

LEMMA FoldKeeps ==
  ASSUME FoldInv, UNCHANGED folded, TasksOK(folds'), Tree(folds')
  PROVE  FoldInv'
<1> DEFINE fs == folds'
<1>1. TasksOK(fs) /\ Tree(fs)
  OBVIOUS
<1> HIDE DEF fs
<1>2. /\ folded' \in [state : {"none", "raised", "ok"}, text : TextSet]
      /\ folded'.state = "ok" => Less(folded'.text, TheDocument)
  BY Zenon DEF FoldInv
<1> QED
  BY <1>1, <1>2, Zenon DEF FoldInv, fs

LEMMA CallingStays ==
  ASSUME TasksOK(folds), Tree(folds), NEW p \in DOMAIN folds, folds[p].state = "reading",
         NEW t, t \in TextSet, t.size <= MaxInput, Less(t, folds[p].text), Calling(p, t)
  PROVE  TasksOK(folds') /\ Tree(folds')
<1> DEFINE job == folds[p]
    u == With(job, "calling", t)
<1>1. Valid(job)
  BY Zenon DEF TasksOK
<1>2. Rising(t.from)
  BY Zenon DEF Less, PartOf
<1>3. FitsCall(job.kind, t)
  <2>1. t.size \in Nat /\ t.parts \in Nat \ {0}
    BY TextFields
  <2>2. Separators(t.parts) \in Nat
    BY <2>1, SeparatorsIn
  <2>3. MaxInput \in Nat
    BY FoldConstants
  <2>4. t.size <= MaxInput + Separators(t.parts)
    BY <2>1, <2>2, <2>3
  <2> QED
    BY <2>4, Zenon DEF FitsCall
<1>4. Valid(u) /\ u.state = "calling" /\ u.text = t
  BY <1>1, <1>2, <1>3, WithFields
<1>5. folds' = [folds EXCEPT ![p] = u]
  BY Zenon DEF Calling
<1> HIDE DEF u
<1>6. Less(u.text, job.text) /\ u.state # "mapping" /\ job.state # "mapping"
  BY <1>4
<1> QED
  BY <1>4, <1>5, <1>6, TaskBecomes

LEMMA SummarizeDocStays ==
  ASSUME FoldInv, folded.state = "none", NEW p \in DOMAIN folds, SummarizeDoc(p)
  PROVE  FoldInv'
<1> DEFINE job == folds[p]
    t == job.text
    n == t.size
<1>1. TasksOK(folds) /\ Tree(folds)
  BY Zenon DEF FoldInv
<1>2. Valid(job) /\ job.state = "reading"
  BY <1>1, Zenon DEF TasksOK, SummarizeDoc
<1>3. /\ t \in TextSet /\ Rising(t.from) /\ ~t.cut /\ n <= Len(t.from) + 1 /\ job.depth \in Nat
  BY <1>2, TaskFields DEF Valid, ToRead
<1>4. n \in Nat /\ Len(t.from) \in Nat /\ MaxInput \in Nat
  BY <1>3, TextFields, FoldConstants
<1>5. Less(t, t)
  BY <1>3, LessSelf
<1>6. CASE TooDeep(job.depth) /\ RaiseFold
  BY <1>6, RaiseFoldStays
<1>7. CASE /\ UNCHANGED folded
           /\ n <= MinTokens /\ folds' = [folds EXCEPT ![p] = With(job, "done", job.text)]
  <2> DEFINE u == With(job, "done", job.text)
  <2>1. Valid(u) /\ u.state = "done" /\ u.text = t
    BY <1>2, <1>3, WithFields
  <2>2. folds' = [folds EXCEPT ![p] = u]
    BY <1>7
  <2> HIDE DEF u
  <2>3. Less(u.text, job.text) /\ u.state # "mapping" /\ job.state # "mapping"
    BY <1>2, <1>5, <2>1
  <2>4. TasksOK(folds') /\ Tree(folds')
    BY <1>1, <2>1, <2>2, <2>3, TaskBecomes
  <2> QED
    BY <1>7, <2>4, FoldKeeps
<1>8. CASE UNCHANGED folded /\ n <= MaxInput /\ Calling(p, job.text)
  <2>1. TasksOK(folds') /\ Tree(folds')
    BY <1>1, <1>2, <1>3, <1>5, <1>8, CallingStays
  <2> QED
    BY <1>8, <2>1, FoldKeeps
<1>9. CASE UNCHANGED folded /\ n > MaxInput /\ Calling(p, Truncate(job.text))
  <2>1. MaxInput <= Len(t.from)
    BY <1>3, <1>4, <1>9
  <2>2. /\ Truncate(t) \in TextSet /\ Truncate(t).size = MaxInput /\ Less(Truncate(t), t)
    BY <1>3, <2>1, Truncated
  <2> DEFINE v == Truncate(t)
  <2>3. Calling(p, v)
    BY <1>9
  <2> HIDE DEF v
  <2>4. v \in TextSet /\ v.size <= MaxInput /\ Less(v, folds[p].text)
    BY <1>4, <2>2 DEF v
  <2>5. TasksOK(folds') /\ Tree(folds')
    BY <1>1, <1>2, <2>3, <2>4, CallingStays
  <2> QED
    BY <1>9, <2>5, FoldKeeps
<1>10. CASE /\ UNCHANGED folded
            /\ \E pieces \in SplitTexts(job.text) :
                 /\ ~(Len(pieces) <= 1)
                 /\ folds' = Spawn([folds EXCEPT ![p] = With(job, "mapping", job.text)], p,
                                   [i \in DOMAIN pieces |-> FoldTask("doc", pieces[i], job.depth + 1, n)])
  <2>1. PICK pieces \in SplitTexts(job.text) :
                 /\ ~(Len(pieces) <= 1)
                 /\ folds' = Spawn([folds EXCEPT ![p] = With(job, "mapping", job.text)], p,
                                   [i \in DOMAIN pieces |-> FoldTask("doc", pieces[i], job.depth + 1, n)])
    BY <1>10
  <2>2. /\ pieces \in Seq(TextSet) /\ Len(pieces) > 0 /\ FromOf(pieces) = t.from
        /\ \A i \in 1 .. Len(pieces) : /\ Rising(pieces[i].from) /\ ~pieces[i].cut
                                       /\ pieces[i].size <= Len(pieces[i].from) + 1
    BY <1>3, <2>1, SplitIs
  <2> DEFINE u == With(job, "mapping", t)
      kind == "doc"
      depth == job.depth + 1
      tasks == [i \in DOMAIN pieces |-> FoldTask(kind, pieces[i], depth, n)]
      gs == Spawn([folds EXCEPT ![p] = u], p, tasks)
  <2>3. Valid(u) /\ u.state = "mapping" /\ u.text = t
    BY <1>2, <1>3, WithFields
  <2>4. kind \in {"doc", "batch"} /\ depth \in Nat /\ kind # "batch"
    BY <1>3
  <2>5. folds' = gs
    BY <2>1
  <2> HIDE DEF u, kind, depth, n
  <2>6. /\ Len(tasks) = Len(pieces) /\ DOMAIN tasks = 1 .. Len(tasks) /\ Len(tasks) \in Nat
        /\ \A i \in 1 .. Len(pieces) : Valid(tasks[i]) /\ tasks[i].state = "queued" /\ tasks[i].text = pieces[i]
    <3>1. Ready(kind, pieces)
      BY <2>2, <2>4, Zenon DEF Ready
    <3>2. pieces \in Seq(TextSet) /\ tasks = Factories(kind, pieces, depth, n)
      BY <2>2, Zenon DEF Factories
    <3> HIDE DEF tasks
    <3>3. Queues(tasks, pieces)
      BY <1>4, <2>4, <3>1, <3>2, FoldTasks
    <3> QED
      BY <3>3, Zenon DEF Queues
  <2> HIDE DEF tasks
  <2>7. Kids(folds, p) = {}
    BY <1>1, <1>2, Zenon DEF Kids, Tree
  <2>8. folds = Without(folds, p)
    <3>1. DOMAIN folds \ Kids(folds, p) = DOMAIN folds
      BY <2>7
    <3>2. folds = [q \in DOMAIN folds |-> folds[q]]
      BY <1>1, Zenon DEF TasksOK
    <3> QED
      BY <3>1, <3>2, Zenon DEF Without
  <2>9. Grows(folds, gs, p, u, tasks)
    BY <1>1, <2>6, <2>8, SpawnGrows
  <2>10. Divides(u, tasks, pieces)
    BY <1>3, <2>2, <2>3, <2>6, Zenon DEF Divides
  <2> HIDE DEF gs
  <2>11. Less(u.text, folds[p].text) /\ \A q \in Kids(folds, p) : folds[q].state = "done"
    BY <1>5, <2>3, <2>7
  <2>12. TasksOK(gs) /\ Tree(gs)
    BY <1>1, <2>3, <2>9, <2>10, <2>11, TreeGrows
  <2> QED
    BY <1>10, <2>5, <2>12, FoldKeeps, Zenon
<1> QED
  BY <1>6, <1>7, <1>8, <1>9, <1>10, Zenon DEF SummarizeDoc

LEMMA PackedSome ==
  ASSUME NEW ss \in Seq(TextSet), Len(ss) > 0
  PROVE  Len(PackSummaries(ss)) > 0
<1> DEFINE L == Len(ss)
    S == Seq(TextSet)
<1>1. L \in 1 .. L /\ L - 1 \in 0 .. L /\ L \in Nat /\ L > 0 /\ ss[L] \in TextSet
  OBVIOUS
<1>2. PICK h \in [0 .. L -> Seq(S)] : PacksBy(ss, h)
  BY PackedBy
<1>3. PackSummaries(ss) = PackBatches(h[L - 1], ss[L]) /\ h[L - 1] \in Seq(S)
  <2> HIDE DEF S
  <2>1. h[L - 1] \in Seq(S)
    BY <1>1, <1>2
  <2>2. h[L] = PackSummaries(ss) /\ \A n \in 1 .. L : h[n] = PackBatches(h[n - 1], ss[n])
    BY <1>2, Zenon DEF PacksBy
  <2> QED
    BY <1>1, <2>1, <2>2, Zenon
<1> DEFINE acc == h[L - 1]
    s == ss[L]
<1>4. acc \in Seq(S) /\ s \in TextSet /\ PackSummaries(ss) = PackBatches(acc, s)
  BY <1>1, <1>3
<1> HIDE DEF acc, s
<1>5. CASE acc = <<>>
  <2>1. PackSummaries(ss) = <<<<s>>>>
    BY <1>4, <1>5 DEF PackBatches
  <2> QED
    BY <2>1
<1>6. CASE acc # <<>>
  <2>1. /\ Front(acc) \in Seq(S) /\ Last(acc) \in S
    <3> HIDE DEF S
    <3> QED
      BY <1>4, <1>6, FrontLast
  <2> DEFINE b == Append(Last(acc), s)
  <2>2. \/ PackSummaries(ss) = Append(acc, <<s>>)
        \/ PackSummaries(ss) = Front(acc) \o <<b>>
    BY <1>4, <1>6 DEF PackBatches
  <2>3. <<s>> \in S /\ b \in S
    BY <1>4, <2>1
  <2> HIDE DEF S, b
  <2>4. Len(Append(acc, <<s>>)) > 0 /\ Len(Front(acc) \o <<b>>) > 0
    <3>1. Len(Append(acc, <<s>>)) > 0
      BY <1>4, <2>3, AppendFacts
    <3>2. <<b>> \in Seq(S) /\ Len(<<b>>) = 1
      BY <2>3
    <3>3. Len(Front(acc) \o <<b>>) = Len(Front(acc)) + Len(<<b>>) /\ Len(Front(acc)) \in Nat
      BY <2>1, <3>2, Concatenated
    <3>4. Len(Front(acc) \o <<b>>) > 0
      BY <3>2, <3>3
    <3> QED
      BY <3>1, <3>4
  <2> QED
    BY <2>2, <2>4
<1> QED
  BY <1>5, <1>6

(* The batches, each of them joined. *)
LEMMA BatchesAre ==
  ASSUME NEW rs \in Seq(TextSet), Len(rs) > 0, Rising(FromOf(rs)), NEW ws,
         ws = [i \in DOMAIN PackSummaries(rs) |-> JoinTexts(PackSummaries(rs)[i])]
  PROVE  /\ ws \in Seq(TextSet) /\ Len(ws) > 0 /\ FromOf(ws) = FromOf(rs)
         /\ DOMAIN ws = DOMAIN PackSummaries(rs)
         /\ (\E i \in 1 .. Len(rs) : rs[i].cut) => \E i \in 1 .. Len(ws) : ws[i].cut
         /\ \A i \in 1 .. Len(ws) : Rising(ws[i].from) /\ FitsCall("batch", ws[i])
<1> DEFINE bs == PackSummaries(rs)
    L == Len(bs)
    S == Seq(TextSet)
    cut == \E i \in 1 .. Len(rs) : rs[i].cut
<1>1. bs \in Seq(S) /\ Packs(bs, FromOf(rs), cut) /\ Len(bs) > 0
  BY Packed, PackedSome
<1> HIDE DEF bs
<1>2. L \in Nat /\ L > 0 /\ DOMAIN bs = 1 .. L /\ \A i \in 1 .. L : bs[i] \in S
  <2> HIDE DEF S
  <2> QED
    BY <1>1
<1>3. /\ \A i \in 1 .. L : FitsBatch(bs[i])
      /\ FlattenSeq(Joined(bs)) = FromOf(rs)
      /\ cut => SomeCut(bs)
  <2> HIDE DEF cut
  <2> QED
    BY <1>1, Zenon DEF Packs
<1>4. ws = [i \in 1 .. L |-> JoinTexts(bs[i])]
  BY <1>2, Zenon DEF bs
<1>5. ASSUME NEW i \in 1 .. L
      PROVE  /\ ws[i] \in TextSet /\ ws[i].size = TokensOf(bs[i]) + Separators(Len(bs[i]))
             /\ ws[i].from = FromOf(bs[i]) /\ ws[i].parts = Len(bs[i])
             /\ ws[i].cut <=> \E k \in 1 .. Len(bs[i]) : bs[i][k].cut
             /\ FitsBatch(bs[i]) /\ bs[i] \in S
  <2>1. ws[i] = JoinTexts(bs[i])
    BY <1>4
  <2>2. bs[i] \in S /\ FitsBatch(bs[i]) /\ Len(bs[i]) > 0
    BY <1>2, <1>3 DEF FitsBatch
  <2>3. /\ JoinTexts(bs[i]) \in TextSet
        /\ JoinTexts(bs[i]).size = TokensOf(bs[i]) + Separators(Len(bs[i]))
        /\ JoinTexts(bs[i]).from = FromOf(bs[i]) /\ JoinTexts(bs[i]).parts = Len(bs[i])
        /\ JoinTexts(bs[i]).cut <=> \E k \in 1 .. Len(bs[i]) : bs[i][k].cut
    BY <2>2, JoinFacts
  <2> QED
    BY <2>1, <2>2, <2>3, Zenon
<1>6. ws \in Seq(TextSet) /\ Len(ws) = L /\ DOMAIN ws = 1 .. L
  <2> DEFINE X == TextSet
  <2>1. \A i \in 1 .. L : ws[i] \in X
    BY <1>5, Zenon
  <2> HIDE DEF X, L
  <2>2. ws \in [1 .. L -> X]
    BY <1>4, <2>1
  <2>3. ws \in Seq(X) /\ Len(ws) = L /\ DOMAIN ws = 1 .. L
    BY <1>2, <2>2
  <2> QED
    BY <2>3, Zenon DEF X
<1>7. FromOf(ws) = FromOf(rs)
  <2>1. /\ Froms(ws) \in Seq(Seq(Nat)) /\ Len(Froms(ws)) = L
        /\ \A n \in 1 .. L : Froms(ws)[n] = ws[n].from
    BY <1>6, FromsAre
  <2>2. /\ Joined(bs) \in Seq(Seq(Nat)) /\ Len(Joined(bs)) = L
        /\ \A n \in 1 .. L : Joined(bs)[n] = FromOf(bs[n])
    BY <1>1, JoinedAre
  <2>3. Froms(ws) = Joined(bs)
    <3> DEFINE X == Seq(Nat)
    <3>1. \A n \in 1 .. L : Froms(ws)[n] = Joined(bs)[n]
      BY <1>5, <2>1, <2>2, Zenon
    <3>2. Froms(ws) \in Seq(X) /\ Joined(bs) \in Seq(X)
      BY <2>1, <2>2
    <3> HIDE DEF X
    <3> QED
      BY <2>1, <2>2, <3>1, <3>2, SeqsAgree
  <2> QED
    BY <1>3, <2>3, Zenon DEF FromOf
<1>8. ASSUME cut PROVE \E i \in 1 .. Len(ws) : ws[i].cut
  <2>1. PICK i \in 1 .. Len(bs) : \E k \in 1 .. Len(bs[i]) : bs[i][k].cut
    <3> HIDE DEF cut
    <3> QED
      BY <1>3, <1>8, Zenon DEF SomeCut
  <2> QED
    BY <1>5, <1>6, <2>1, Zenon
<1>9. ASSUME NEW i \in 1 .. Len(ws) PROVE Rising(ws[i].from)
  <2>1. Froms(ws) \in Seq(Seq(Nat)) /\ Len(Froms(ws)) = L /\ \A n \in 1 .. L : Froms(ws)[n] = ws[n].from
    BY <1>6, FromsAre
  <2>2. Rising(FlattenSeq(Froms(ws)))
    BY <1>7, Zenon DEF FromOf
  <2>3. Rising(Froms(ws)[i])
    BY <1>6, <2>1, <2>2, RisingMembers
  <2> QED
    BY <1>6, <2>1, <2>3, Zenon
<1>10. ASSUME NEW i \in 1 .. Len(ws) PROVE FitsCall("batch", ws[i])
  <2>1. i \in 1 .. L
    BY <1>6
  <2>2. /\ ws[i] \in TextSet /\ ws[i].size = TokensOf(bs[i]) + Separators(Len(bs[i]))
        /\ ws[i].parts = Len(bs[i]) /\ FitsBatch(bs[i])
    BY <1>5, <2>1, Zenon
  <2>3. CASE Len(bs[i]) = 1
    BY <2>2, <2>3 DEF FitsCall
  <2>4. CASE TokensOf(bs[i]) <= MaxInput
    <3> DEFINE a == TokensOf(bs[i])
        c == Separators(Len(bs[i]))
    <3>1. a \in Nat
      BY <1>5, <2>1, TokensIn
    <3>2. c \in Nat
      <4>1. Len(bs[i]) \in Nat
        BY <1>5, <2>1
      <4>2. Len(bs[i]) > 0
        BY <2>2, Zenon DEF FitsBatch
      <4>3. Len(bs[i]) \in Nat \ {0}
        BY <4>1, <4>2
      <4> QED
        BY <4>3, SeparatorsIn
    <3>3. MaxInput \in Nat
      BY FoldConstants
    <3>4. ws[i].size = a + c /\ a <= MaxInput /\ Separators(ws[i].parts) = c
      BY <2>2, <2>4, Zenon
    <3> HIDE DEF a, c
    <3>5. ws[i].size <= MaxInput + Separators(ws[i].parts)
      BY <3>1, <3>2, <3>3, <3>4
    <3> QED
      BY <3>5, Zenon DEF FitsCall
  <2> QED
    BY <2>2, <2>3, <2>4, Zenon DEF FitsBatch
<1>11. Len(ws) > 0 /\ DOMAIN ws = DOMAIN bs
  BY <1>2, <1>6
<1> QED
  BY <1>6, <1>7, <1>8, <1>9, <1>10, <1>11, Zenon DEF bs, cut

LEMMA ReduceResultsStays ==
  ASSUME FoldInv, folded.state = "none", NEW p \in DOMAIN folds, ReduceResults(p)
  PROVE  FoldInv'
<1> DEFINE job == folds[p]
    rs == Results(p)
    joined == JoinTexts(rs)
    depth == job.depth + 1
    u(state) == [With(job, state, joined) EXCEPT !.depth = depth]
    ws == [i \in DOMAIN PackSummaries(rs) |-> JoinTexts(PackSummaries(rs)[i])]
    tasks == [i \in DOMAIN PackSummaries(rs) |-> FoldTask("batch", JoinTexts(PackSummaries(rs)[i]), depth, 0)]
<1>1. TasksOK(folds) /\ Tree(folds)
  BY Zenon DEF FoldInv
<1>2. Valid(job) /\ job.state = "mapping" /\ \A q \in Kids(folds, p) : folds[q].state = "done"
  BY <1>1, Zenon DEF TasksOK, ReduceResults, Children, Kids
<1>3. job.text \in TextSet /\ Rising(job.text.from) /\ job.depth \in Nat /\ depth \in Nat
  BY <1>2, TaskFields
<1>4. PICK was : MappedTo(folds, p, was)
  BY <1>1, <1>2, Zenon DEF Tree
<1>5. /\ was \in Seq(TextSet) /\ Len(was) > 0 /\ FromOf(was) = job.text.from
      /\ job.text.cut => \E i \in 1 .. Len(was) : was[i].cut
      /\ \A i \in 1 .. Len(was) : Less(folds[Append(p, i)].text, was[i])
  BY <1>4, Zenon DEF MappedTo
<1>6. rs \in Seq(TextSet) /\ Len(rs) = Len(was) /\ \A i \in 1 .. Len(was) : rs[i] = folds[Append(p, i)].text
  BY <1>1, <1>4, ResultsAre
<1>7. Len(rs) > 0 /\ \A i \in 1 .. Len(rs) : Less(rs[i], was[i])
  BY <1>5, <1>6, Zenon
<1> HIDE DEF rs, job
<1>8. Less(joined, job.text)
  BY <1>3, <1>5, <1>6, <1>7, JoinLess
<1>9. /\ joined \in TextSet /\ joined.from = FromOf(rs) /\ Rising(joined.from)
      /\ joined.cut <=> \E i \in 1 .. Len(rs) : rs[i].cut
  <2>1. /\ joined \in TextSet /\ joined.from = FromOf(rs)
        /\ joined.cut <=> \E i \in 1 .. Len(rs) : rs[i].cut
    BY <1>6, <1>7, JoinFacts
  <2> QED
    BY <1>8, <2>1, Zenon DEF Less, PartOf
<1> HIDE DEF joined, depth
<1>10. ASSUME NEW state \in {"reading", "calling", "mapping", "done"}, state # "reading",
              state = "calling" => joined.size <= MaxInput
       PROVE  Valid(u(state)) /\ u(state).state = state /\ u(state).text = joined
  <2>1. state = "calling" => FitsCall(job.kind, joined)
    <3>1. joined.size \in Nat /\ joined.parts \in Nat \ {0} /\ MaxInput \in Nat
      BY <1>9, TextFields, FoldConstants
    <3>2. Separators(joined.parts) \in Nat
      BY <3>1, SeparatorsIn
    <3>3. joined.size <= MaxInput => joined.size <= MaxInput + Separators(joined.parts)
      BY <3>1, <3>2
    <3> QED
      BY <1>10, <3>3, Zenon DEF FitsCall
  <2> DEFINE v == u(state)
  <2>2. \E d \in Nat : v = [With(job, state, joined) EXCEPT !.depth = d]
    BY <1>3, Zenon
  <2> HIDE DEF v
  <2>3. Valid(v) /\ v.state = state /\ v.text = joined
    BY <1>2, <1>9, <1>10, <2>1, <2>2, WithFields
  <2> QED
    BY <2>3, Zenon DEF v
<1>11. Alone(p) = Without(folds, p)
  BY Zenon DEF Alone, Without, Children, Kids
<1>12. CASE TooDeep(depth) /\ RaiseFold
  BY <1>12, RaiseFoldStays
<1>13. ASSUME NEW state \in {"calling", "done"}, UNCHANGED folded, folds' = [Alone(p) EXCEPT ![p] = u(state)],
              state = "calling" => joined.size <= MaxInput
       PROVE  FoldInv'
  <2> DEFINE v == u(state)
      none == <<>>
  <2>1. Valid(v) /\ v.state = state /\ v.text = joined /\ v.state # "mapping"
    BY <1>10, <1>13
  <2>2. Len(none) = 0 /\ Len(none) \in Nat /\ DOMAIN none = 1 .. Len(none) /\ none \in Seq(TextSet)
    OBVIOUS
  <2>3. folds' = [Alone(p) EXCEPT ![p] = v]
    BY <1>13
  <2> HIDE DEF v, none
  <2>4. Divides(v, none, none)
    BY <2>1, <2>2 DEF Divides
  <2> DEFINE gs == [Alone(p) EXCEPT ![p] = v]
  <2>5. Grows(folds, gs, p, v, none)
    BY <1>1, <1>11, <2>2, SpawnGrows
  <2> HIDE DEF gs
  <2>6. Less(v.text, folds[p].text)
    BY <1>8, <2>1, Zenon DEF job
  <2>7. TasksOK(gs) /\ Tree(gs)
    BY <1>1, <1>2, <2>1, <2>4, <2>5, <2>6, TreeGrows
  <2> QED
    BY <1>13, <2>3, <2>7, FoldKeeps, Zenon DEF gs
<1>14. CASE UNCHANGED folded /\ folds' = Spawn([Alone(p) EXCEPT ![p] = u("mapping")], p, tasks)
  <2> DEFINE v == u("mapping")
      kind == "batch"
      none == 0
  <2>1. Valid(v) /\ v.state = "mapping" /\ v.text = joined
    BY <1>10
  <2>2. /\ ws \in Seq(TextSet) /\ Len(ws) > 0 /\ FromOf(ws) = FromOf(rs)
        /\ DOMAIN ws = DOMAIN PackSummaries(rs)
        /\ (\E i \in 1 .. Len(rs) : rs[i].cut) => \E i \in 1 .. Len(ws) : ws[i].cut
        /\ \A i \in 1 .. Len(ws) : Rising(ws[i].from) /\ FitsCall("batch", ws[i])
    <3> HIDE DEF ws
    <3>1. Rising(FromOf(rs))
      BY <1>9, Zenon
    <3> QED
      BY <1>6, <1>7, <3>1, BatchesAre DEF ws
  <2>3. tasks = [i \in DOMAIN ws |-> FoldTask(kind, ws[i], depth, none)]
    BY <2>2
  <2> HIDE DEF ws, tasks, kind, none
  <2>4. kind \in {"doc", "batch"} /\ kind = "batch" /\ kind # "doc" /\ none \in Nat
    BY DEF kind, none
  <2>5. /\ Len(tasks) = Len(ws) /\ DOMAIN tasks = 1 .. Len(tasks) /\ Len(tasks) \in Nat
        /\ \A i \in 1 .. Len(ws) : Valid(tasks[i]) /\ tasks[i].state = "queued" /\ tasks[i].text = ws[i]
    <3>1. Ready(kind, ws)
      BY <2>2, <2>4, Zenon DEF Ready
    <3>2. tasks = Factories(kind, ws, depth, none)
      BY <2>3, Zenon DEF Factories
    <3>3. depth \in Nat /\ ws \in Seq(TextSet)
      BY <1>3, <2>2, Zenon
    <3>4. Queues(tasks, ws)
      BY <2>4, <3>1, <3>2, <3>3, FoldTasks
    <3> QED
      BY <3>4, Zenon DEF Queues
  <2> DEFINE gs == Spawn([Alone(p) EXCEPT ![p] = v], p, tasks)
  <2>6. folds' = gs
    BY <1>14
  <2> HIDE DEF v
  <2>7. Grows(folds, gs, p, v, tasks)
    BY <1>1, <1>11, <2>5, SpawnGrows
  <2> HIDE DEF gs
  <2>8. Divides(v, tasks, ws)
    BY <1>9, <2>1, <2>2, <2>5, Zenon DEF Divides
  <2>9. Less(v.text, folds[p].text)
    BY <1>8, <2>1, Zenon DEF job
  <2>10. TasksOK(gs) /\ Tree(gs)
    BY <1>1, <1>2, <2>1, <2>7, <2>8, <2>9, TreeGrows
  <2> QED
    BY <1>14, <2>6, <2>10, FoldKeeps, Zenon
<1>15. ASSUME UNCHANGED folded,
              folds' = CASE joined.size <= MinTokens -> [Alone(p) EXCEPT ![p] = u("done")]
                         [] MinTokens < joined.size /\ joined.size <= MaxInput ->
                              [Alone(p) EXCEPT ![p] = u("calling")]
                         [] OTHER -> Spawn([Alone(p) EXCEPT ![p] = u("mapping")], p, tasks)
       PROVE  FoldInv'
  <2>1. joined.size \in Nat /\ MinTokens \in Nat /\ MaxInput \in Nat
    BY <1>9, TextFields, FoldConstants
  <2> HIDE DEF u, tasks
  <2>2. CASE joined.size <= MinTokens
    <3>1. folds' = [Alone(p) EXCEPT ![p] = u("done")]
      BY <1>15, <2>1, <2>2
    <3> QED
      BY <1>13, <1>15, <3>1
  <2>3. CASE MinTokens < joined.size /\ joined.size <= MaxInput
    <3>1. folds' = [Alone(p) EXCEPT ![p] = u("calling")]
      BY <1>15, <2>1, <2>3
    <3> QED
      BY <1>13, <1>15, <2>3, <3>1
  <2>4. CASE ~(joined.size <= MinTokens) /\ ~(MinTokens < joined.size /\ joined.size <= MaxInput)
    <3>1. folds' = Spawn([Alone(p) EXCEPT ![p] = u("mapping")], p, tasks)
      BY <1>15, <2>4
    <3> QED
      BY <1>14, <1>15, <3>1
  <2> QED
    BY <2>2, <2>3, <2>4
<1>16. \/ TooDeep(depth) /\ RaiseFold
       \/ /\ UNCHANGED folded
          /\ folds' = CASE joined.size <= MinTokens -> [Alone(p) EXCEPT ![p] = u("done")]
                         [] MinTokens < joined.size /\ joined.size <= MaxInput ->
                              [Alone(p) EXCEPT ![p] = u("calling")]
                         [] OTHER -> Spawn([Alone(p) EXCEPT ![p] = u("mapping")], p, tasks)
  BY DEF ReduceResults, NextDepth, job, rs, joined, depth
<1> QED
  BY <1>12, <1>15, <1>16

LEMMA FoldStarts ==
  ASSUME FoldInit
  PROVE  FoldInv
<1> DEFINE job == FoldTask("doc", TheDocument, 0, 0)
    u == With(job, "reading", TheDocument)
<1>1. /\ TheDocument \in TextSet /\ Rising(TheDocument.from) /\ ~TheDocument.cut
      /\ TheDocument.size <= Len(TheDocument.from) + 1
  BY TheDocumentIs
<1>2. Valid(job)
  <2>1. job \in TaskSet /\ job.state = "queued" /\ job.kind = "doc" /\ job.text = TheDocument
    <3> DEFINE X == TextSet
        t == TheDocument
    <3>1. t \in X
      BY <1>1
    <3> HIDE DEF X, t
    <3>2. FoldTask("doc", t, 0, 0) \in [state : {"queued", "reading", "calling", "mapping", "done"},
                                        kind : {"doc", "batch"}, text : X, depth : Nat, parent : Nat]
      BY <3>1 DEF FoldTask
    <3>3. /\ FoldTask("doc", t, 0, 0).state = "queued" /\ FoldTask("doc", t, 0, 0).kind = "doc"
          /\ FoldTask("doc", t, 0, 0).text = t
      BY DEF FoldTask
    <3> QED
      BY <3>2, <3>3, Zenon DEF TaskSet, X, t
  <2> HIDE DEF job
  <2>2. ~ToCall(job)
    BY <2>1 DEF ToCall
  <2> QED
    BY <1>1, <2>1, <2>2, Zenon DEF Valid
<1> HIDE DEF job
<1>3. Valid(u) /\ u.state = "reading" /\ u.text = TheDocument
  BY <1>1, <1>2, WithFields
<1>4. folds = [q \in {<<>>} |-> u]
  BY Zenon DEF FoldInit, Only, u, job
<1> HIDE DEF u
<1>5. folds = [q \in DOMAIN folds |-> folds[q]] /\ DOMAIN folds = {<<>>} /\ folds[<<>>] = u
  BY <1>4
<1>6. <<>> \in Seq(Nat)
  OBVIOUS
<1>7. TasksOK(folds)
  BY <1>3, <1>5, <1>6 DEF TasksOK
<1>8. Less(folds[<<>>].text, TheDocument)
  BY <1>1, <1>3, <1>5, LessSelf, Zenon
<1>9. Tree(folds)
  BY <1>3, <1>5, <1>8 DEF Tree
<1>10. folded \in [state : {"none", "raised", "ok"}, text : TextSet] /\ folded.state = "none"
  <2> DEFINE X == TextSet
      t == TheDocument
  <2>1. t \in X /\ folded = [state |-> "none", text |-> t]
    BY <1>1 DEF FoldInit
  <2> HIDE DEF X, t
  <2>2. folded \in [state : {"none", "raised", "ok"}, text : X] /\ folded.state = "none"
    BY <2>1
  <2> QED
    BY <2>2, Zenon DEF X
<1> QED
  BY <1>7, <1>9, <1>10 DEF FoldInv

LEMMA WriteSummaryStays ==
  ASSUME FoldInv, WriteSummary
  PROVE  FoldInv'
<1> DEFINE t == folds[<<>>].text
    fs == folds'
<1>1. TasksOK(folds) /\ Tree(folds)
  BY Zenon DEF FoldInv, WriteSummary
<1>2. t \in TextSet /\ Less(t, TheDocument)
  BY <1>1, Zenon DEF Tree, Less
<1>3. folded' = [state |-> "ok", text |-> t] /\ fs = folds
  BY Zenon DEF WriteSummary
<1> HIDE DEF t, fs
<1>4. folded' \in [state : {"none", "raised", "ok"}, text : TextSet] /\ folded'.text = t
  <2> DEFINE X == TextSet
  <2>1. t \in X
    BY <1>2
  <2> HIDE DEF X
  <2>2. folded' \in [state : {"none", "raised", "ok"}, text : X] /\ folded'.text = t
    BY <1>3, <2>1
  <2> QED
    BY <2>2, Zenon DEF X
<1>5. TasksOK(fs) /\ Tree(fs) /\ Less(folded'.text, TheDocument)
  BY <1>1, <1>2, <1>3, <1>4, Zenon
<1> QED
  BY <1>4, <1>5, Zenon DEF FoldInv, fs

LEMMA FoldStep ==
  ASSUME FoldInv, [FoldNext]_foldVars
  PROVE  FoldInv'
<1>1. ASSUME UNCHANGED foldVars PROVE FoldInv'
  <2> DEFINE fs == folds'
      g == folded'
  <2>1. fs = folds /\ g = folded
    BY <1>1 DEF foldVars
  <2> HIDE DEF fs, g
  <2>2. /\ TasksOK(fs) /\ g \in [state : {"none", "raised", "ok"}, text : TextSet]
        /\ (g.state # "raised" => Tree(fs)) /\ (g.state = "ok" => Less(g.text, TheDocument))
    BY <2>1, Zenon DEF FoldInv
  <2> QED
    BY <2>2, Zenon DEF FoldInv, fs, g
<1>2. ASSUME folded.state = "none", NEW p \in DOMAIN folds,
             StartTask(p) \/ SummarizeDoc(p) \/ ReduceResults(p) \/ AnswerCall(p) \/ FailCall(p)
      PROVE  FoldInv'
  <2>1. TasksOK(folds) /\ Tree(folds)
    BY <1>2, Zenon DEF FoldInv
  <2>2. CASE StartTask(p)
    <3>1. TasksOK(folds') /\ Tree(folds') /\ UNCHANGED folded
      BY <2>1, <2>2, StartTaskStays DEF StartTask
    <3> QED
      BY <3>1, FoldKeeps
  <2>3. CASE SummarizeDoc(p)
    BY <1>2, <2>3, SummarizeDocStays
  <2>4. CASE ReduceResults(p)
    BY <1>2, <2>4, ReduceResultsStays
  <2>5. CASE AnswerCall(p)
    <3>1. TasksOK(folds') /\ Tree(folds') /\ UNCHANGED folded
      BY <2>1, <2>5, AnswerCallStays DEF AnswerCall
    <3> QED
      BY <3>1, FoldKeeps
  <2>6. CASE FailCall(p)
    <3>1. RaiseFold
      BY <2>6, Zenon DEF FailCall
    <3> QED
      BY <3>1, RaiseFoldStays
  <2> QED
    BY <1>2, <2>2, <2>3, <2>4, <2>5, <2>6
<1>3. CASE WriteSummary
  BY <1>3, WriteSummaryStays
<1> QED
  BY <1>1, <1>2, <1>3, Zenon DEF FoldNext

LEMMA FoldInvMeans ==
  ASSUME FoldInv
  PROVE  SummaryIsWhole
<1>1. CallsWithinInput
  <2>1. \A p \in DOMAIN folds : Valid(folds[p])
    BY Zenon DEF FoldInv, TasksOK
  <2> QED
    BY <2>1, Zenon DEF CallsWithinInput, Valid, ToCall, FitsCall
<1>2. WholeDocumentFolded
  <2> SUFFICES ASSUME folded.state = "ok" PROVE
                 /\ \A i, j \in DOMAIN folded.text.from : i < j => folded.text.from[i] < folded.text.from[j]
                 /\ ~folded.text.cut => folded.text.from = TheDocument.from
    BY Zenon DEF WholeDocumentFolded
  <2>1. Less(folded.text, TheDocument)
    BY Zenon DEF FoldInv
  <2>2. folded.text.from \in Seq(Nat)
    <3>1. folded.text \in TextSet
      BY <2>1, Zenon DEF Less
    <3> QED
      BY <3>1, TextFields
  <2>3. DOMAIN folded.text.from = 1 .. Len(folded.text.from)
    BY <2>2
  <2> QED
    BY <2>1, <2>3, Zenon DEF Less, PartOf, Rising
<1> QED
  BY <1>1, <1>2, Zenon DEF SummaryIsWhole

(* However the splitter cuts and the model answers, the summary speaks of  *)
(* every token of the document in order unless a text was truncated, and no *)
(* call is larger than the settings allow (DocumentSummarizerProcessor).    *)
THEOREM SummaryStaysWhole == FoldSpec => []SummaryIsWhole
<1>1. FoldInit => FoldInv
  BY FoldStarts
<1>2. FoldInv /\ [FoldNext]_foldVars => FoldInv'
  BY FoldStep
<1>3. FoldInv => SummaryIsWhole
  BY FoldInvMeans
<1> QED
  BY <1>1, <1>2, <1>3, PTL DEF FoldSpec

-----------------------------------------------------------------------------
(* The outline *)

HeadElement ==
  [name : Nat \ {0}, level : Nat, size : Nat, page : Nat, caps : BOOLEAN,
   centered : BOOLEAN, bold : BOOLEAN, worthy : BOOLEAN]

Ascending(es) == \A n, m \in 1 .. Len(es) : n < m => es[n].name < es[m].name

OutlineInv ==
  /\ outline \in Seq(HeadElement) /\ Ascending(outline)
  /\ options \in [title : BOOLEAN, before : BOOLEAN, shift : BOOLEAN]

(* The level of what has this name. *)
LevelIn(es, name) ==
  LET at == {n \in DOMAIN es : es[n].name = name}
  IN IF at = {} THEN 0 ELSE es[CHOOSE n \in at : TRUE].level

LEMMA HeadFields ==
  ASSUME NEW es \in Seq(HeadElement), NEW n \in 1 .. Len(es)
  PROVE  /\ es[n] \in HeadElement /\ n \in Nat /\ n # 0
         /\ es[n].name \in Nat \ {0} /\ es[n].level \in Nat /\ es[n].size \in Nat
<1>1. es[n] \in HeadElement /\ n \in Nat /\ n # 0
  OBVIOUS
<1> QED
  BY <1>1 DEF HeadElement

(* Names tell the elements apart. *)
LEMMA NamesDiffer ==
  ASSUME NEW es \in Seq(HeadElement), Ascending(es),
         NEW n \in 1 .. Len(es), NEW m \in 1 .. Len(es)
  PROVE  /\ n < m <=> es[n].name < es[m].name
         /\ n = m <=> es[n].name = es[m].name
<1>1. es[n].name \in Nat /\ es[m].name \in Nat /\ n \in Nat /\ m \in Nat
  BY HeadFields
<1>2. n < m => es[n].name < es[m].name
  BY DEF Ascending
<1>3. m < n => es[m].name < es[n].name
  BY DEF Ascending
<1> QED
  BY <1>1, <1>2, <1>3

LEMMA LevelOfName ==
  ASSUME NEW es \in Seq(HeadElement), Ascending(es), NEW n \in 1 .. Len(es)
  PROVE  LevelIn(es, es[n].name) = es[n].level
<1> DEFINE at == {m \in DOMAIN es : es[m].name = es[n].name}
<1>1. DOMAIN es = 1 .. Len(es)
  OBVIOUS
<1>2. n \in at
  BY <1>1
<1>3. \A m \in at : m = n
  BY <1>1, NamesDiffer
<1> HIDE DEF at
<1>4. (CHOOSE m \in at : TRUE) \in at
  BY <1>2, Zenon
<1>5. (CHOOSE m \in at : TRUE) = n
  BY <1>3, <1>4, Zenon
<1> QED
  BY <1>2, <1>5, Zenon DEF LevelIn, at

(* Elements that are only given levels stay in their order. *)
LEMMA Relabelled ==
  ASSUME NEW es \in Seq(HeadElement), Ascending(es), NEW fs \in Seq(HeadElement),
         Len(fs) = Len(es), \A n \in 1 .. Len(es) : fs[n].name = es[n].name
  PROVE  /\ Ascending(fs)
         /\ \A n \in 1 .. Len(es) : LevelIn(fs, es[n].name) = fs[n].level
<1>1. Ascending(fs)
  BY DEF Ascending
<1>2. ASSUME NEW n \in 1 .. Len(es) PROVE LevelIn(fs, es[n].name) = fs[n].level
  BY <1>1, LevelOfName
<1> QED
  BY <1>1, <1>2

(* What is left when the element at t is the title: who stays. *)
Stays(n, t, before, title) ==
  (n > t \/ (n = t /\ ~title)) \/ (n < t /\ ~before)

CutAt(es, t, before, title) ==
  SubSeq(es, IF before THEN t ELSE 1, t - 1)
    \o (IF title THEN <<>> ELSE <<es[t]>>)
    \o SubSeq(es, t + 1, Len(es))

(* Where what is at k in the cut comes from. *)
CutFrom(k, t, before, title) ==
  LET a == IF before THEN 0 ELSE t - 1
      b == IF title THEN 0 ELSE 1
  IN IF k <= a THEN k ELSE IF k <= a + b THEN t ELSE k - (a + b) + t

LEMMA CutIndices ==
  ASSUME NEW S, NEW es \in Seq(S), NEW t \in 1 .. Len(es), NEW before \in BOOLEAN, NEW title \in BOOLEAN
  PROVE  /\ CutAt(es, t, before, title) \in Seq(S)
         /\ Len(CutAt(es, t, before, title))
              = (IF before THEN 0 ELSE t - 1) + (IF title THEN 0 ELSE 1) + (Len(es) - t)
         /\ \A k \in 1 .. Len(CutAt(es, t, before, title)) :
              CutAt(es, t, before, title)[k] = es[CutFrom(k, t, before, title)]
<1> DEFINE x == SubSeq(es, IF before THEN t ELSE 1, t - 1)
    y == IF title THEN <<>> ELSE <<es[t]>>
    z == SubSeq(es, t + 1, Len(es))
    a == IF before THEN 0 ELSE t - 1
    b == IF title THEN 0 ELSE 1
    r == CutAt(es, t, before, title)
<1>1. x \in Seq(S) /\ Len(x) = a /\ \A k \in 1 .. a : x[k] = es[k]
  <2>1. CASE before
    <3>1. x = SubSeq(es, t, t - 1)
      BY <2>1
    <3>2. SubSeq(es, t, t - 1) \in Seq(S) /\ Len(SubSeq(es, t, t - 1)) = 0
      OBVIOUS
    <3> QED
      BY <2>1, <3>1, <3>2
  <2>2. CASE ~before
    <3>1. x = SubSeq(es, 1, t - 1)
      BY <2>2
    <3>2. /\ SubSeq(es, 1, t - 1) \in Seq(S) /\ Len(SubSeq(es, 1, t - 1)) = t - 1
          /\ \A k \in 1 .. t - 1 : SubSeq(es, 1, t - 1)[k] = es[k]
      OBVIOUS
    <3> QED
      BY <2>2, <3>1, <3>2
  <2> QED
    BY <2>1, <2>2
<1>2. y \in Seq(S) /\ Len(y) = b /\ \A k \in 1 .. b : y[k] = es[t]
  OBVIOUS
<1>3. z \in Seq(S) /\ Len(z) = Len(es) - t /\ \A k \in 1 .. Len(es) - t : z[k] = es[t + k]
  OBVIOUS
<1>4. r = x \o y \o z
  BY Zenon DEF CutAt
<1>5. a \in Nat /\ b \in Nat /\ Len(es) - t \in Nat /\ t \in Nat
  OBVIOUS
<1> HIDE DEF x, y, z, a, b, r
<1> DEFINE xy == x \o y
<1>6. xy \in Seq(S) /\ Len(xy) = a + b
  BY <1>1, <1>2, Concatenated
<1>7. ASSUME NEW k \in 1 .. a + b PROVE xy[k] = IF k <= a THEN es[k] ELSE es[t]
  BY <1>1, <1>2, <1>5
<1> HIDE DEF xy
<1>8. r \in Seq(S) /\ Len(r) = a + b + (Len(es) - t)
  <2>1. r = xy \o z
    BY <1>4, Zenon DEF xy
  <2>2. xy \o z \in Seq(S) /\ Len(xy \o z) = Len(xy) + Len(z)
    BY <1>3, <1>6, Concatenated
  <2> QED
    BY <1>3, <1>6, <2>1, <2>2, Zenon
<1>9. ASSUME NEW k \in 1 .. Len(r), k <= a + b PROVE r[k] = xy[k]
  BY <1>3, <1>4, <1>5, <1>6, <1>8, <1>9 DEF xy
<1>10. ASSUME NEW k \in 1 .. Len(r), ~(k <= a + b) PROVE r[k] = es[k - (a + b) + t]
  <2>1. r[k] = z[k - (a + b)] /\ k - (a + b) \in 1 .. Len(es) - t
    BY <1>3, <1>4, <1>5, <1>6, <1>8, <1>10 DEF xy
  <2>2. z[k - (a + b)] = es[t + (k - (a + b))] /\ t + (k - (a + b)) = k - (a + b) + t
    BY <1>3, <1>5, <2>1
  <2> QED
    BY <2>1, <2>2
<1>11. ASSUME NEW k \in 1 .. Len(r)
       PROVE  r[k] = es[IF k <= a THEN k ELSE IF k <= a + b THEN t ELSE k - (a + b) + t]
  <2>1. CASE k <= a
    BY <1>5, <1>7, <1>9, <2>1
  <2>2. CASE ~(k <= a) /\ k <= a + b
    BY <1>5, <1>7, <1>9, <2>2
  <2>3. CASE ~(k <= a + b)
    BY <1>5, <1>10, <2>3
  <2> QED
    BY <2>1, <2>2, <2>3
<1> QED
  BY <1>8, <1>11, Zenon DEF r, a, b, CutFrom

LEMMA CutIndex ==
  ASSUME NEW S, NEW es \in Seq(S), NEW t \in 1 .. Len(es), NEW before \in BOOLEAN, NEW title \in BOOLEAN,
         NEW k \in 1 .. Len(CutAt(es, t, before, title))
  PROVE  CutAt(es, t, before, title)[k] = es[CutFrom(k, t, before, title)]
  BY CutIndices

(* Those that stay, and no other, in their order. *)
LEMMA WhatIsCut ==
  ASSUME NEW es \in Seq(HeadElement), Ascending(es), NEW t \in 1 .. Len(es),
         NEW before \in BOOLEAN, NEW title \in BOOLEAN
  PROVE  LET r == CutAt(es, t, before, title)
         IN  /\ r \in Seq(HeadElement) /\ Ascending(r)
             /\ \A k \in 1 .. Len(r) :
                  \E n \in 1 .. Len(es) : Stays(n, t, before, title) /\ r[k] = es[n]
             /\ \A n \in 1 .. Len(es) : Stays(n, t, before, title) =>
                  \E k \in 1 .. Len(r) : r[k] = es[n]
<1> DEFINE a == IF before THEN 0 ELSE t - 1
    b == IF title THEN 0 ELSE 1
    r == CutAt(es, t, before, title)
    From(k) == IF k <= a THEN k ELSE IF k <= a + b THEN t ELSE k - (a + b) + t
<1>1. /\ r \in Seq(HeadElement) /\ Len(r) = a + b + (Len(es) - t)
      /\ \A k \in 1 .. Len(r) : r[k] = es[From(k)]
  <2>1. r \in Seq(HeadElement)
    BY CutIndices
  <2>2. Len(r) = (IF before THEN 0 ELSE t - 1) + (IF title THEN 0 ELSE 1) + (Len(es) - t)
    BY CutIndices
  <2>3. \A k \in 1 .. Len(r) : r[k] = es[CutFrom(k, t, before, title)]
    <3>1. ASSUME NEW k \in 1 .. Len(CutAt(es, t, before, title))
          PROVE  CutAt(es, t, before, title)[k] = es[CutFrom(k, t, before, title)]
      BY <3>1, CutIndex
    <3> QED
      BY <3>1, Zenon
  <2>4. \A k : CutFrom(k, t, before, title) = From(k)
    BY Zenon DEF CutFrom
  <2> HIDE DEF r, From
  <2> QED
    BY <2>1, <2>2, <2>3, <2>4, Zenon
<1> HIDE DEF r
<1>2. Len(es) \in Nat /\ t \in Nat
  OBVIOUS
<1>3. ASSUME NEW k \in 1 .. Len(r)
      PROVE  From(k) \in 1 .. Len(es) /\ Stays(From(k), t, before, title)
  <2>1. k \in Nat /\ k >= 1 /\ k <= a + b + (Len(es) - t)
    BY <1>1, <1>2
  <2>2. CASE k <= a
    <3>1. ~before /\ From(k) = k /\ k < t
      BY <1>2, <2>1, <2>2
    <3> QED
      BY <1>2, <2>1, <3>1 DEF Stays
  <2>3. CASE ~(k <= a) /\ k <= a + b
    <3>1. ~title /\ From(k) = t
      BY <1>2, <2>1, <2>3
    <3> QED
      BY <1>2, <3>1 DEF Stays
  <2>4. CASE ~(k <= a + b)
    <3>1. a \in Nat /\ b \in Nat
      BY <1>2
    <3>2. From(k) = k - (a + b) + t
      BY <1>2, <2>1, <2>4
    <3> HIDE DEF a, b, From
    <3>3. From(k) > t /\ From(k) <= Len(es) /\ From(k) \in Nat
      BY <1>2, <2>1, <2>4, <3>1, <3>2
    <3> QED
      BY <1>2, <3>3 DEF Stays
  <2> QED
    BY <2>2, <2>3, <2>4
<1>4. ASSUME NEW k \in 1 .. Len(r), NEW j \in 1 .. Len(r), k < j PROVE From(k) < From(j)
  BY <1>1, <1>2, <1>4
<1>5. ASSUME NEW n \in 1 .. Len(es), Stays(n, t, before, title)
      PROVE  \E k \in 1 .. Len(r) : From(k) = n
  <2>1. CASE n > t
    <3>1. n - t + (a + b) \in 1 .. Len(r) /\ From(n - t + (a + b)) = n
      BY <1>1, <1>2, <2>1
    <3> QED
      BY <3>1
  <2>2. CASE n = t
    <3>1. a + b \in 1 .. Len(r) /\ From(a + b) = n
      BY <1>1, <1>2, <1>5, <2>2 DEF Stays
    <3> QED
      BY <3>1
  <2>3. CASE n < t
    <3>1. n \in 1 .. Len(r) /\ From(n) = n
      BY <1>1, <1>2, <1>5, <2>3 DEF Stays
    <3> QED
      BY <3>1
  <2> QED
    BY <1>2, <2>1, <2>2, <2>3
<1> HIDE DEF From
<1>6. Ascending(r)
  BY <1>1, <1>3, <1>4 DEF Ascending
<1>7. ASSUME NEW k \in 1 .. Len(r)
      PROVE  \E n \in 1 .. Len(es) : Stays(n, t, before, title) /\ r[k] = es[n]
  BY <1>1, <1>3, Zenon
<1>8. ASSUME NEW n \in 1 .. Len(es), Stays(n, t, before, title)
      PROVE  \E k \in 1 .. Len(r) : r[k] = es[n]
  BY <1>1, <1>5, <1>8, Zenon
<1> QED
  BY <1>1, <1>6, <1>7, <1>8 DEF r

(* The candidate the title is taken from. *)
LEMMA BestCandidate ==
  ASSUME OutlineInv, TitleCandidates # {}
  PROVE  (CHOOSE n \in TitleCandidates : \A m \in TitleCandidates \ {n} : Outranks(n, m))
           \in 1 .. Len(outline)
<1> DEFINE c(k) == IF outline[k].centered THEN 1 ELSE 0
    R == {w \in (1 .. Len(outline)) \X (1 .. Len(outline)) : w[1] = w[2] \/ Outranks(w[1], w[2])}
<1>1. outline \in Seq(HeadElement)
  BY Zenon DEF OutlineInv
<1>2. Len(outline) \in Nat /\ DOMAIN outline = 1 .. Len(outline)
  BY <1>1
<1>3. TitleCandidates \subseteq 1 .. Len(outline)
  BY <1>2, Zenon DEF TitleCandidates
<1>4. ASSUME NEW n \in 1 .. Len(outline) PROVE outline[n].size \in Int /\ c(n) \in Int /\ n \in Int
  BY <1>1, HeadFields
<1>5. \A n, m : Outranks(n, m) <=>
        \/ outline[n].size > outline[m].size
        \/ outline[n].size = outline[m].size /\ c(n) > c(m)
        \/ outline[n].size = outline[m].size /\ c(n) = c(m) /\ n < m
  BY Zenon DEF Outranks
<1> HIDE DEF c
<1>6. ASSUME NEW n \in 1 .. Len(outline), NEW k \in 1 .. Len(outline)
      PROVE  n = k \/ Outranks(n, k) \/ Outranks(k, n)
  BY <1>4, <1>5
<1>7. ASSUME NEW n \in 1 .. Len(outline), NEW k \in 1 .. Len(outline), NEW j \in 1 .. Len(outline),
             Outranks(n, k), Outranks(k, j)
      PROVE  Outranks(n, j)
  <2>1. /\ outline[n].size \in Int /\ outline[k].size \in Int /\ outline[j].size \in Int
        /\ c(n) \in Int /\ c(k) \in Int /\ c(j) \in Int /\ n \in Int /\ k \in Int /\ j \in Int
    BY <1>4
  <2>2. \/ outline[n].size > outline[k].size
        \/ outline[n].size = outline[k].size /\ c(n) > c(k)
        \/ outline[n].size = outline[k].size /\ c(n) = c(k) /\ n < k
    BY <1>5, <1>7, Zenon
  <2>3. \/ outline[k].size > outline[j].size
        \/ outline[k].size = outline[j].size /\ c(k) > c(j)
        \/ outline[k].size = outline[j].size /\ c(k) = c(j) /\ k < j
    BY <1>5, <1>7, Zenon
  <2>4. \/ outline[n].size > outline[j].size
        \/ outline[n].size = outline[j].size /\ c(n) > c(j)
        \/ outline[n].size = outline[j].size /\ c(n) = c(j) /\ n < j
    BY <2>1, <2>2, <2>3
  <2> QED
    BY <1>5, <2>4, Zenon
<1>8. \A n, k \in 1 .. Len(outline) : <<n, k>> \in R <=> n = k \/ Outranks(n, k)
  OBVIOUS
<1> HIDE DEF R
<1>9. \E n \in TitleCandidates : \A k \in TitleCandidates : <<n, k>> \in R
  <2>1. \A n, k \in TitleCandidates : <<n, k>> \in R \/ <<k, n>> \in R
    BY <1>3, <1>6, <1>8
  <2>2. \A n, k, j \in TitleCandidates : <<n, k>> \in R /\ <<k, j>> \in R => <<n, j>> \in R
    BY <1>3, <1>7, <1>8
  <2>3. Orders(R, TitleCandidates)
    BY <2>1, <2>2, Zenon DEF Orders
  <2> QED
    BY <1>2, <1>3, <2>3, FirstInOrder
<1>10. \E n \in TitleCandidates : \A m \in TitleCandidates \ {n} : Outranks(n, m)
  BY <1>3, <1>8, <1>9
<1>11. (CHOOSE n \in TitleCandidates : \A m \in TitleCandidates \ {n} : Outranks(n, m))
         \in TitleCandidates
  BY <1>10, Zenon
<1> QED
  BY <1>3, <1>11, Zenon

LEMMA LevelOfAbsent ==
  ASSUME NEW es \in Seq(HeadElement), NEW name, \A n \in 1 .. Len(es) : es[n].name # name
  PROVE  LevelIn(es, name) = 0
<1>1. {n \in DOMAIN es : es[n].name = name} = {}
  OBVIOUS
<1> QED
  BY <1>1, Zenon DEF LevelIn

(* Other levels, in the same elements. *)
SameNames(es, fs) ==
  /\ fs \in Seq(HeadElement) /\ Len(fs) = Len(es)
  /\ \A n \in 1 .. Len(es) : fs[n].name = es[n].name

(* What a step of a processor does to the elements of the document. *)
Reworded(es, fs) == titled' = titled /\ SameNames(es, fs)

TitleTaken(es, fs) ==
  /\ titled = 0
  /\ \E t \in 1 .. Len(es) : \E gs \in Seq(HeadElement) :
       /\ titled' = es[t].name /\ SameNames(es, gs)
       /\ SameNames(CutAt(gs, t, options.before, options.title), fs)

Leveled(e, l) == [e EXCEPT !.level = l]

LEMMA WithLevel ==
  ASSUME NEW e \in HeadElement, NEW l \in Nat, NEW f, f = Leveled(e, l)
  PROVE  f \in HeadElement /\ f.level = l /\ f.name = e.name
  BY DEF HeadElement, Leveled

(* The same elements with these levels. *)
LabelledBy(es, fs, ls) ==
  /\ fs = [n \in DOMAIN es |-> fs[n]]
  /\ \A n \in 1 .. Len(es) :
       \/ fs[n] = es[n] /\ ls[n] = es[n].level
       \/ ls[n] \in Nat /\ fs[n] = Leveled(es[n], ls[n])

LEMMA AllWithLevels ==
  ASSUME NEW es \in Seq(HeadElement), NEW fs, NEW ls, LabelledBy(es, fs, ls)
  PROVE  SameNames(es, fs) /\ \A n \in 1 .. Len(es) : fs[n].level = ls[n]
<1>1. ASSUME NEW n \in 1 .. Len(es)
      PROVE  fs[n] \in HeadElement /\ fs[n].name = es[n].name /\ fs[n].level = ls[n]
  <2>1. es[n] \in HeadElement
    BY HeadFields
  <2> USE DEF LabelledBy
  <2>2. CASE fs[n] = es[n] /\ ls[n] = es[n].level
    BY <2>1, <2>2
  <2>3. CASE ls[n] \in Nat /\ fs[n] = Leveled(es[n], ls[n])
    BY <2>1, <2>3, WithLevel
  <2> QED
    BY <2>2, <2>3
<1>2. Len(es) \in Nat /\ DOMAIN es = 1 .. Len(es) /\ fs = [n \in DOMAIN es |-> fs[n]]
  BY DEF LabelledBy
<1>3. fs \in Seq(HeadElement) /\ Len(fs) = Len(es)
  <2>1. fs \in [1 .. Len(es) -> HeadElement]
    BY <1>1, <1>2
  <2> QED
    BY <1>2, <2>1
<1> QED
  BY <1>1, <1>3, Zenon DEF SameNames

LEMMA LeastLevel ==
  ASSUME NEW T, T \subseteq Nat, T # {}
  PROVE  Min(T) \in T /\ \A k \in T : Min(T) <= k
<1>1. \E n \in T : \A m \in T : n <= m
  BY LeastNat
<1> QED
  BY <1>1, Zenon DEF Min

LEMMA RecalculatedLevels ==
  ASSUME NEW es \in Seq(HeadElement)
  PROVE  /\ SameNames(es, Recalculated(es))
         /\ \E d \in Nat : \A n \in 1 .. Len(es) :
              IF es[n].level = 0 THEN Recalculated(es)[n].level = 0
              ELSE es[n].level > d /\ Recalculated(es)[n].level = es[n].level - d
         /\ LevelsOf(es) # {} => \E n \in 1 .. Len(es) : Recalculated(es)[n].level = 1
<1>1. DOMAIN es = 1 .. Len(es) /\ \A n \in 1 .. Len(es) : es[n].level \in Nat
  BY HeadFields
<1>2. /\ LevelsOf(es) \subseteq Nat /\ 0 \notin LevelsOf(es)
      /\ \A n \in 1 .. Len(es) : es[n].level # 0 => es[n].level \in LevelsOf(es)
      /\ \A l \in LevelsOf(es) : \E n \in 1 .. Len(es) : es[n].level = l
  BY <1>1 DEF LevelsOf
<1> DEFINE r == Recalculated(es)
    least == Min(LevelsOf(es))
<1>3. CASE LevelsOf(es) = {}
  <2>1. r = es
    BY <1>3 DEF Recalculated
  <2>2. \A n \in 1 .. Len(es) : es[n].level = 0
    BY <1>2, <1>3
  <2> HIDE DEF r
  <2>3. SameNames(es, r)
    BY <2>1 DEF SameNames
  <2>4. 0 \in Nat /\ \A n \in 1 .. Len(es) :
              IF es[n].level = 0 THEN r[n].level = 0
              ELSE es[n].level > 0 /\ r[n].level = es[n].level - 0
    BY <2>1, <2>2
  <2> QED
    BY <1>3, <2>3, <2>4, Zenon DEF r
<1>4. CASE LevelsOf(es) # {}
  <2>1. least \in LevelsOf(es) /\ least \in Nat /\ least # 0
        /\ \A l \in LevelsOf(es) : least <= l
    <3>1. least \in LevelsOf(es) /\ \A l \in LevelsOf(es) : least <= l
      BY <1>2, <1>4, LeastLevel, Zenon
    <3> QED
      BY <1>2, <3>1
  <2> HIDE DEF least
  <2> DEFINE d == least - 1
      ls == [n \in 1 .. Len(es) |-> IF es[n].level = 0 THEN 0 ELSE es[n].level - d]
  <2>2. d \in Nat
    BY <2>1
  <2>3. \A n \in 1 .. Len(es) : es[n].level # 0 => es[n].level > d /\ es[n].level - d \in Nat
                                                   /\ es[n].level - d >= 1
    BY <1>1, <1>2, <2>1
  <2>4. r = [n \in DOMAIN es |->
              IF es[n].level = 0 THEN es[n]
              ELSE [es[n] EXCEPT !.level = Max({1, es[n].level - d})]]
    BY <1>4, Zenon DEF Recalculated, least
  <2>5. \A n \in 1 .. Len(es) : es[n].level # 0 => Max({1, es[n].level - d}) = es[n].level - d
    <3> SUFFICES ASSUME NEW l \in Nat, l >= 1 PROVE Max({1, l}) = l
      BY <2>3
    <3>1. \A x \in {1, l} : l >= x
      OBVIOUS
    <3>2. \A x \in {1, l} : (\A y \in {1, l} : x >= y) => x = l
      OBVIOUS
    <3> QED
      BY <3>1, <3>2, Zenon DEF Max
  <2> HIDE DEF d
  <2>6. \A n \in 1 .. Len(es) :
           \/ r[n] = es[n] /\ ls[n] = es[n].level
           \/ ls[n] \in Nat /\ r[n] = Leveled(es[n], ls[n])
    <3> SUFFICES ASSUME NEW n \in 1 .. Len(es)
        PROVE  \/ r[n] = es[n] /\ ls[n] = es[n].level
               \/ ls[n] \in Nat /\ r[n] = Leveled(es[n], ls[n])
      OBVIOUS
    <3> HIDE DEF r
    <3>1. CASE es[n].level = 0
      BY <1>1, <2>4, <3>1
    <3>2. CASE es[n].level # 0
      <4>1. ls[n] = es[n].level - d /\ ls[n] \in Nat
        BY <2>3, <3>2
      <4> HIDE DEF ls
      <4>2. r[n] = [es[n] EXCEPT !.level = Max({1, es[n].level - d})]
        BY <1>1, <2>4, <3>2
      <4> QED
        BY <2>5, <3>2, <4>1, <4>2, Zenon DEF Leveled
    <3> QED
      BY <3>1, <3>2
  <2>7. r = [n \in DOMAIN es |-> r[n]]
    <3> HIDE DEF r
    <3> QED
      BY <2>4
  <2>8. \A n \in 1 .. Len(es) : IF es[n].level = 0 THEN ls[n] = 0 ELSE ls[n] = es[n].level - d
    OBVIOUS
  <2> HIDE DEF r, ls
  <2>9. SameNames(es, r) /\ \A n \in 1 .. Len(es) : r[n].level = ls[n]
    <3>1. LabelledBy(es, r, ls)
      BY <2>6, <2>7, Zenon DEF LabelledBy
    <3> QED
      BY <3>1, AllWithLevels
  <2>10. \A n \in 1 .. Len(es) :
              IF es[n].level = 0 THEN r[n].level = 0
              ELSE es[n].level > d /\ r[n].level = es[n].level - d
    BY <2>3, <2>8, <2>9, Zenon
  <2>11. PICK n \in 1 .. Len(es) : es[n].level = least
    BY <1>2, <2>1, Zenon
  <2>12. r[n].level = 1
    BY <2>1, <2>8, <2>9, <2>11 DEF d
  <2> QED
    BY <2>2, <2>9, <2>10, <2>12, Zenon DEF r
<1> QED
  BY <1>3, <1>4

-----------------------------------------------------------------------------
(* Counting *)

LEMMA CountLess ==
  ASSUME NEW B, IsFiniteSet(B), NEW A, A \subseteq B
  PROVE  /\ Cardinality(A) \in Nat /\ Cardinality(B) \in Nat /\ Cardinality(A) <= Cardinality(B)
         /\ A # {} => Cardinality(A) > 0
         /\ (\E x \in B : x \notin A) => Cardinality(A) < Cardinality(B)
<1>1. IsFiniteSet(A) /\ Cardinality(A) <= Cardinality(B) /\ (Cardinality(B) = Cardinality(A) => B = A)
  BY FS_Subset
<1>2. Cardinality(A) \in Nat /\ Cardinality(B) \in Nat
  BY <1>1, FS_CardinalityType
<1>3. A # {} => Cardinality(A) # 0
  BY <1>1, FS_EmptySet
<1> QED
  BY <1>1, <1>2, <1>3

LEMMA FiniteImage ==
  ASSUME NEW N \in Nat, NEW f
  PROVE  IsFiniteSet({f[n] : n \in 1 .. N})
<1> DEFINE T == {f[n] : n \in 1 .. N}
    g == [n \in 1 .. N |-> f[n]]
<1>1. g \in [1 .. N -> T] /\ \A t \in T : \E n \in 1 .. N : g[n] = t
  OBVIOUS
<1> HIDE DEF g, T
<1>2. g \in Surjection(1 .. N, T)
  BY <1>1, Zenon DEF Surjection
<1>3. IsFiniteSet(1 .. N)
  BY FS_Interval
<1>4. IsFiniteSet(T)
  BY <1>2, <1>3, FS_Surjection
<1> QED
  BY <1>4 DEF T

LEMMA LevelsFinite ==
  ASSUME NEW es \in Seq(HeadElement)
  PROVE  /\ IsFiniteSet(LevelsOf(es)) /\ LevelsOf(es) \subseteq Nat \ {0}
         /\ \A n \in 1 .. Len(es) : es[n].level # 0 => es[n].level \in LevelsOf(es)
         /\ \A l \in LevelsOf(es) : \E n \in 1 .. Len(es) : es[n].level = l
<1>1. DOMAIN es = 1 .. Len(es) /\ Len(es) \in Nat /\ \A n \in 1 .. Len(es) : es[n].level \in Nat
  BY HeadFields
<1> DEFINE f == [n \in 1 .. Len(es) |-> es[n].level]
    T == {f[n] : n \in 1 .. Len(es)}
<1>2. IsFiniteSet(T)
  <2> HIDE DEF f
  <2> QED
    BY <1>1, FiniteImage
<1>3. LevelsOf(es) \subseteq T
  BY <1>1 DEF LevelsOf
<1>4. IsFiniteSet(LevelsOf(es))
  <2> HIDE DEF T
  <2> QED
    BY <1>2, <1>3, FS_Subset
<1>5. LevelsOf(es) \subseteq Nat \ {0}
  BY <1>1 DEF LevelsOf
<1>6. \A n \in 1 .. Len(es) : es[n].level # 0 => es[n].level \in LevelsOf(es)
  BY <1>1 DEF LevelsOf
<1>7. \A l \in LevelsOf(es) : \E n \in 1 .. Len(es) : es[n].level = l
  BY <1>1 DEF LevelsOf
<1> QED
  BY <1>4, <1>5, <1>6, <1>7

(* Compacting keeps the order of the levels and leaves no gap. *)
LEMMA CompactLevels ==
  ASSUME OutlineInv
  PROVE  LET T == LevelsOf(outline)
             C == Cardinality(T)
         IN  /\ C \in Nat
             /\ \A l \in T : Compact(l) \in 1 .. C
             /\ \A l, k \in T : l < k => Compact(l) < Compact(k)
             /\ \A c \in 1 .. C : \E l \in T : Compact(l) = c
<1> DEFINE T == LevelsOf(outline)
    C == Cardinality(T)
    Upto(l) == {k \in T : k <= l}
<1>1. IsFiniteSet(T) /\ T \subseteq Nat \ {0}
  BY LevelsFinite DEF OutlineInv
<1>2. C \in Nat
  BY <1>1, FS_CardinalityType
<1>3. \A l : Compact(l) = Cardinality(Upto(l)) /\ Upto(l) \subseteq T
  BY DEF Compact
<1> HIDE DEF T
<1>4. ASSUME NEW l \in T PROVE Compact(l) \in 1 .. C
  <2>1. l \in Upto(l)
    BY <1>1
  <2> HIDE DEF Upto
  <2> QED
    BY <1>1, <1>2, <1>3, <2>1, CountLess
<1>5. ASSUME NEW l \in T, NEW k \in T, l < k PROVE Compact(l) < Compact(k)
  <2>1. Upto(l) \subseteq Upto(k)
    <3> SUFFICES ASSUME NEW j \in T, j <= l PROVE j <= k
      OBVIOUS
    <3> QED
      BY <1>1, <1>5
  <2>2. k \in Upto(k) /\ k \notin Upto(l)
    BY <1>1, <1>5
  <2> HIDE DEF Upto
  <2>3. IsFiniteSet(Upto(k))
    BY <1>1, <1>3, FS_Subset
  <2> QED
    BY <1>3, <2>1, <2>2, <2>3, CountLess
<1>6. ASSUME NEW c \in 1 .. C PROVE \E l \in T : Compact(l) = c
  <2> DEFINE f == [l \in T |-> Compact(l)]
  <2>1. f \in [T -> 1 .. C] /\ \A l \in T : f[l] = Compact(l)
    BY <1>4
  <2> HIDE DEF f
  <2>2. IsInjective(f)
    <3>1. DOMAIN f = T
      BY <2>1
    <3>2. ASSUME NEW l \in T, NEW k \in T, f[l] = f[k] PROVE l = k
      <4>1. l \in Nat /\ k \in Nat
        BY <1>1
      <4>2. ~(l < k) /\ ~(k < l)
        BY <1>2, <1>4, <1>5, <2>1, <3>2
      <4> QED
        BY <4>1, <4>2
    <3> QED
      BY <3>1, <3>2 DEF IsInjective
  <2>3. f \in Injection(T, 1 .. C)
    BY <2>1, <2>2, Zenon DEF Injection
  <2>4. IsFiniteSet(1 .. C) /\ Cardinality(1 .. C) = C
    BY <1>2, FS_Interval
  <2>5. f \in Surjection(T, 1 .. C)
    BY <2>3, <2>4, FS_Injection
  <2>6. \E l \in T : f[l] = c
    BY <2>5 DEF Surjection
  <2> QED
    BY <2>1, <2>6
<1> QED
  BY <1>2, <1>4, <1>5, <1>6 DEF T

-----------------------------------------------------------------------------
(* Levels by size *)

LEMMA SizeIsInt ==
  ASSUME OutlineInv, NEW n \in 1 .. Len(outline)
  PROVE  EffectiveSize(outline[n]) \in Int
<1>1. outline[n].size \in Nat
  BY HeadFields DEF OutlineInv
<1>2. \A x : Factor(x, 120) \in Nat /\ Factor(x, 110) \in Nat
  BY DEF Factor
<1> QED
  BY <1>1, <1>2 DEF EffectiveSize

LEMMA SizesFinite ==
  ASSUME OutlineInv
  PROVE  /\ IsFiniteSet(Sizes) /\ Sizes \subseteq Int \ {0}
         /\ \A n \in HeadIndices : EffectiveSize(outline[n]) # 0 => EffectiveSize(outline[n]) \in Sizes
<1>1. outline \in Seq(HeadElement)
  BY Zenon DEF OutlineInv
<1>2. DOMAIN outline = 1 .. Len(outline) /\ Len(outline) \in Nat
  BY <1>1
<1>3. HeadIndices \subseteq 1 .. Len(outline)
  BY <1>2, Zenon DEF HeadIndices
<1>4. \A n \in 1 .. Len(outline) : EffectiveSize(outline[n]) \in Int
  BY SizeIsInt
<1> DEFINE f == [n \in 1 .. Len(outline) |-> EffectiveSize(outline[n])]
    T == {f[n] : n \in 1 .. Len(outline)}
<1>5. IsFiniteSet(T)
  <2> HIDE DEF f
  <2> QED
    BY <1>2, FiniteImage
<1>6. Sizes \subseteq T
  BY <1>3 DEF Sizes
<1>7. IsFiniteSet(Sizes)
  <2> HIDE DEF T
  <2> QED
    BY <1>5, <1>6, FS_Subset
<1>8. Sizes \subseteq Int \ {0}
  BY <1>3, <1>4 DEF Sizes
<1>9. \A n \in HeadIndices : EffectiveSize(outline[n]) # 0 => EffectiveSize(outline[n]) \in Sizes
  BY DEF Sizes
<1> QED
  BY <1>7, <1>8, <1>9

(* The level of a size: within the limit, and deeper for the smaller. *)
LEMMA SizeLevels ==
  ASSUME OutlineInv, NEW big \in Sizes, NEW small \in Sizes, big >= small
  PROVE  /\ LevelOfSize(small) \in 1 .. MaxLevels
         /\ LevelOfSize(big) <= LevelOfSize(small)
         /\ big > small /\ Cardinality(Sizes) <= MaxLevels => LevelOfSize(big) < LevelOfSize(small)
<1> DEFINE C == Cardinality(Sizes)
    Above(size) == {s \in Sizes : s > size}
<1>1. IsFiniteSet(Sizes) /\ Sizes \subseteq Int \ {0}
  BY SizesFinite
<1>2. \A size : Rank(size) = Cardinality(Above(size)) /\ Above(size) \subseteq Sizes
  BY DEF Rank
<1>3. MaxLevels \in Nat \ {0}
  BY HeadingConstants
<1>4. ASSUME NEW size \in Sizes PROVE Rank(size) \in Nat /\ C \in Nat /\ Rank(size) < C
  <2>1. size \notin Above(size)
    BY <1>1
  <2> HIDE DEF Above
  <2> QED
    BY <1>1, <1>2, <2>1, CountLess
<1>5. Rank(big) <= Rank(small) /\ (big > small => Rank(big) < Rank(small))
  <2>1. Above(big) \subseteq Above(small)
    <3> SUFFICES ASSUME NEW s \in Sizes, s > big PROVE s > small
      OBVIOUS
    <3> QED
      BY <1>1
  <2>2. big > small => big \in Above(small) /\ big \notin Above(big)
    BY <1>1
  <2> HIDE DEF Above
  <2>3. IsFiniteSet(Above(small))
    BY <1>1, <1>2, FS_Subset
  <2> QED
    BY <1>2, <2>1, <2>2, <2>3, CountLess
<1> HIDE DEF Above, C
<1> DEFINE Raw(size) == (Rank(size) * MaxLevels) \div C + 1
<1>6. \A size : LevelOfSize(size) = IF C <= MaxLevels THEN Rank(size) + 1
                                    ELSE Min({Raw(size), MaxLevels})
  BY Zenon DEF LevelOfSize, C
<1>7. CASE C <= MaxLevels
  <2>1. LevelOfSize(big) = Rank(big) + 1 /\ LevelOfSize(small) = Rank(small) + 1
    BY <1>6, <1>7, Zenon
  <2> QED
    BY <1>3, <1>4, <1>5, <1>7, <2>1 DEF C
<1>8. CASE ~(C <= MaxLevels)
  <2>1. LevelOfSize(big) = Min({Raw(big), MaxLevels}) /\ LevelOfSize(small) = Min({Raw(small), MaxLevels})
    BY <1>6, <1>8, Zenon
  <2>2. Raw(big) \in Nat /\ Raw(small) \in Nat /\ Raw(big) >= 1 /\ Raw(small) >= 1
        /\ Raw(big) <= Raw(small)
    <3>1. Rank(big) \in Nat /\ Rank(small) \in Nat /\ C \in Nat \ {0} /\ Rank(big) <= Rank(small)
      BY <1>4, <1>5
    <3>2. Rank(big) * MaxLevels <= Rank(small) * MaxLevels
          /\ Rank(big) * MaxLevels \in Nat /\ Rank(small) * MaxLevels \in Nat
      BY <1>3, <3>1
    <3>3. \A a, b \in Nat : a <= b => a \div C <= b \div C /\ a \div C \in Nat /\ b \div C \in Nat
      BY <3>1
    <3> QED
      BY <3>2, <3>3
  <2> HIDE DEF Raw
  <2>3. ASSUME NEW a \in Nat PROVE Min({a, MaxLevels}) = IF a <= MaxLevels THEN a ELSE MaxLevels
    <3>1. {a, MaxLevels} \subseteq Nat /\ {a, MaxLevels} # {}
      BY <1>3
    <3>2. Min({a, MaxLevels}) \in {a, MaxLevels} /\ \A k \in {a, MaxLevels} : Min({a, MaxLevels}) <= k
      BY <3>1, LeastLevel
    <3> HIDE DEF Min
    <3> QED
      BY <1>3, <3>2
  <2> QED
    BY <1>3, <1>8, <2>1, <2>2, <2>3 DEF C
<1> QED
  BY <1>7, <1>8

-----------------------------------------------------------------------------
(* The processors *)

LEMMA OutlineTypes ==
  ASSUME OutlineInv
  PROVE  /\ outline \in Seq(HeadElement) /\ Ascending(outline) /\ Len(outline) \in Nat
         /\ DOMAIN outline = 1 .. Len(outline)
         /\ HeadIndices = {n \in 1 .. Len(outline) : outline[n].level > 0}
         /\ options.title \in BOOLEAN /\ options.before \in BOOLEAN /\ options.shift \in BOOLEAN
<1>1. outline \in Seq(HeadElement) /\ Ascending(outline)
      /\ options \in [title : BOOLEAN, before : BOOLEAN, shift : BOOLEAN]
  BY Zenon DEF OutlineInv
<1>2. Len(outline) \in Nat /\ DOMAIN outline = 1 .. Len(outline)
  BY <1>1
<1>3. options.title \in BOOLEAN /\ options.before \in BOOLEAN /\ options.shift \in BOOLEAN
  BY <1>1
<1> QED
  BY <1>1, <1>2, <1>3, Zenon DEF HeadIndices

(* The levels of RefineLevels. *)
LEMMA RefinedLevels ==
  ASSUME OutlineInv, ~trusted, RefineLevels
  PROVE  /\ SameNames(outline, outline')
         /\ \A n \in HeadIndices : EffectiveSize(outline[n]) # 0 =>
              outline'[n].level = LevelOfSize(EffectiveSize(outline[n]))
<1> DEFINE sized(n) == n \in HeadIndices /\ EffectiveSize(outline[n]) # 0
    ls == [n \in 1 .. Len(outline) |->
             IF sized(n) THEN LevelOfSize(EffectiveSize(outline[n])) ELSE outline[n].level]
<1>1. outline' = LevelsBySize
  BY Zenon DEF RefineLevels
<1>2. LevelsBySize = [n \in DOMAIN outline |->
        IF sized(n) THEN Leveled(outline[n], LevelOfSize(EffectiveSize(outline[n]))) ELSE outline[n]]
  BY Zenon DEF LevelsBySize, Leveled
<1>3. ASSUME NEW n \in 1 .. Len(outline), sized(n)
      PROVE  LevelOfSize(EffectiveSize(outline[n])) \in Nat
  <2>1. EffectiveSize(outline[n]) \in Sizes
    BY <1>3, SizesFinite
  <2>2. EffectiveSize(outline[n]) >= EffectiveSize(outline[n])
    BY <2>1, SizesFinite
  <2>3. LevelOfSize(EffectiveSize(outline[n])) \in 1 .. MaxLevels
    BY <2>1, <2>2, SizeLevels
  <2> QED
    BY <2>3
<1> HIDE DEF sized
<1>4. /\ LevelsBySize = [n \in DOMAIN outline |-> LevelsBySize[n]]
      /\ \A n \in DOMAIN outline : LevelsBySize[n] =
           IF sized(n) THEN Leveled(outline[n], LevelOfSize(EffectiveSize(outline[n]))) ELSE outline[n]
  BY <1>2
<1>5. \A n \in 1 .. Len(outline) :
        ls[n] = IF sized(n) THEN LevelOfSize(EffectiveSize(outline[n])) ELSE outline[n].level
  OBVIOUS
<1> HIDE DEF ls
<1>6. LabelledBy(outline, LevelsBySize, ls)
  BY <1>3, <1>4, <1>5, OutlineTypes, Zenon DEF LabelledBy
<1>7. SameNames(outline, LevelsBySize) /\ \A n \in 1 .. Len(outline) : LevelsBySize[n].level = ls[n]
  BY <1>6, OutlineTypes, AllWithLevels
<1>8. \A n \in HeadIndices : n \in 1 .. Len(outline) /\ (EffectiveSize(outline[n]) # 0 => sized(n))
  BY OutlineTypes DEF sized
<1> QED
  BY <1>1, <1>5, <1>7, <1>8, Zenon

(* The levels of Normalize. *)
LEMMA NormalizedLevels ==
  ASSUME OutlineInv, Normalize
  PROVE  /\ SameNames(outline, outline')
         /\ \A n \in 1 .. Len(outline) :
              outline'[n].level = IF outline[n].level = 0 THEN 0 ELSE Compact(outline[n].level)
<1> DEFINE ls == [n \in 1 .. Len(outline) |->
                    IF outline[n].level = 0 THEN 0 ELSE Compact(outline[n].level)]
<1>1. outline' = [n \in DOMAIN outline |->
        IF outline[n].level = 0 THEN outline[n] ELSE Leveled(outline[n], Compact(outline[n].level))]
  BY Zenon DEF Normalize, Leveled
<1>2. ASSUME NEW n \in 1 .. Len(outline), outline[n].level # 0 PROVE Compact(outline[n].level) \in Nat
  <2>1. outline[n].level \in LevelsOf(outline)
    BY <1>2, LevelsFinite, OutlineTypes
  <2>2. Compact(outline[n].level) \in 1 .. Cardinality(LevelsOf(outline))
    BY <2>1, CompactLevels, Zenon
  <2> QED
    BY <2>2
<1> DEFINE fs == outline'
<1>3. /\ fs = [n \in DOMAIN outline |-> fs[n]]
      /\ \A n \in DOMAIN outline : fs[n] =
           IF outline[n].level = 0 THEN outline[n] ELSE Leveled(outline[n], Compact(outline[n].level))
  BY <1>1
<1>4. \A n \in 1 .. Len(outline) :
        ls[n] = IF outline[n].level = 0 THEN 0 ELSE Compact(outline[n].level)
  OBVIOUS
<1> HIDE DEF ls, fs
<1>5. LabelledBy(outline, fs, ls)
  BY <1>2, <1>3, <1>4, OutlineTypes, Zenon DEF LabelledBy
<1>6. SameNames(outline, fs) /\ \A n \in 1 .. Len(outline) : fs[n].level = ls[n]
  BY <1>5, OutlineTypes, AllWithLevels
<1> QED
  BY <1>4, <1>6, Zenon DEF fs

(* What DetectTitle does when it finds a title. *)
LEMMA DetectedTitle ==
  ASSUME OutlineInv, DetectTitle, ~(titled # 0 \/ TitleCandidates = {})
  PROVE  \E t \in 1 .. Len(outline) :
           LET cut == CutAt(outline, t, options.before, options.title)
           IN  /\ titled' = outline[t].name
               /\ outline' = IF options.title /\ options.shift THEN Recalculated(cut) ELSE cut
<1> DEFINE best == CHOOSE n \in TitleCandidates : \A m \in TitleCandidates \ {n} : Outranks(n, m)
<1>1. best \in 1 .. Len(outline)
  BY BestCandidate
<1>2. titled' = outline[best].name
      /\ outline' = IF options.title /\ options.shift THEN Recalculated(WithoutTitle(best))
                                                     ELSE WithoutTitle(best)
  BY Zenon DEF DetectTitle
<1> HIDE DEF best
<1>3. WithoutTitle(best) = CutAt(outline, best, options.before, options.title)
  BY Zenon DEF WithoutTitle, CutAt
<1> QED
  BY <1>1, <1>2, <1>3, Zenon

LEMMA ItsOwnNames ==
  ASSUME NEW es \in Seq(HeadElement)
  PROVE  SameNames(es, es)
  BY DEF SameNames

(* The elements of LLMHeadingResolver. *)
LEMMA JudgedNames ==
  ASSUME OutlineInv, NEW verdict \in [HeadIndices -> VerdictKinds]
  PROVE  SameNames(outline, Applied(verdict))
<1>1. ASSUME NEW e \in HeadElement, NEW v \in VerdictKinds
      PROVE  Judged(e, v) \in HeadElement /\ Judged(e, v).name = e.name
  <2>1. v.what \in {"title", "none", "unsure", "level"} /\ v.level \in Nat
    BY DEF VerdictKinds
  <2>2. CASE v.what = "none"
    <3>1. Judged(e, v) = [[e EXCEPT !.level = 0] EXCEPT !.page = 0]
      BY <2>2 DEF Judged
    <3> DEFINE f == [e EXCEPT !.level = 0]
    <3>2. f \in HeadElement /\ f.name = e.name
      BY DEF HeadElement
    <3> HIDE DEF f
    <3>3. [f EXCEPT !.page = 0] \in HeadElement /\ [f EXCEPT !.page = 0].name = f.name
      BY <3>2 DEF HeadElement
    <3> QED
      BY <3>1, <3>2, <3>3, Zenon DEF f
  <2>3. CASE v.what = "level"
    <3>1. Judged(e, v) = Leveled(e, v.level)
      BY <2>3 DEF Judged, Leveled
    <3> QED
      BY <2>1, <3>1, WithLevel
  <2>4. CASE v.what # "none" /\ v.what # "level"
    <3>1. Judged(e, v) = e
      BY <2>4 DEF Judged
    <3> QED
      BY <3>1
  <2> QED
    BY <2>2, <2>3, <2>4
<1>2. ASSUME NEW n \in 1 .. Len(outline)
      PROVE  /\ Applied(verdict)[n] \in HeadElement
             /\ Applied(verdict)[n].name = outline[n].name
  <2>1. outline[n] \in HeadElement
    BY HeadFields, OutlineTypes
  <2>2. Applied(verdict)[n] = IF n \in HeadIndices THEN Judged(outline[n], verdict[n]) ELSE outline[n]
    BY OutlineTypes DEF Applied
  <2> QED
    BY <1>1, <2>1, <2>2
<1>3. DOMAIN Applied(verdict) = 1 .. Len(outline)
      /\ Applied(verdict) = [n \in 1 .. Len(outline) |-> Applied(verdict)[n]]
  BY OutlineTypes DEF Applied
<1> DEFINE fs == Applied(verdict)
<1> HIDE DEF fs
<1>4. fs \in [1 .. Len(outline) -> HeadElement]
  BY <1>2, <1>3 DEF fs
<1>5. fs \in Seq(HeadElement) /\ Len(fs) = Len(outline)
  BY <1>4, OutlineTypes
<1> QED
  BY <1>2, <1>5, Zenon DEF SameNames, fs

LEMMA StepShape ==
  ASSUME OutlineInv, [HeadingsNext]_headingVars
  PROVE  /\ options' = options
         /\ Reworded(outline, outline') \/ TitleTaken(outline, outline')
<1>1. CASE RefineLevels
  <2>1. titled' = titled /\ options' = options
    BY <1>1, Zenon DEF RefineLevels
  <2>2. SameNames(outline, outline')
    <3>1. CASE trusted
      <4>1. outline' = outline
        BY <1>1, <3>1 DEF RefineLevels
      <4> QED
        BY <4>1, ItsOwnNames, OutlineTypes
    <3>2. CASE ~trusted
      BY <1>1, <3>2, RefinedLevels
    <3> QED
      BY <3>1, <3>2
  <2> QED
    BY <2>1, <2>2, Zenon DEF Reworded
<1>2. CASE DetectTitle
  <2>1. options' = options
    BY <1>2, Zenon DEF DetectTitle
  <2>2. CASE titled # 0 \/ TitleCandidates = {}
    <3>1. outline' = outline /\ titled' = titled
      BY <1>2, <2>2, Zenon DEF DetectTitle
    <3>2. SameNames(outline, outline')
      BY <3>1, ItsOwnNames, OutlineTypes
    <3> QED
      BY <2>1, <3>1, <3>2, Zenon DEF Reworded
  <2>3. CASE ~(titled # 0 \/ TitleCandidates = {})
    <3>1. PICK t \in 1 .. Len(outline) :
           LET cut == CutAt(outline, t, options.before, options.title)
           IN  /\ titled' = outline[t].name
               /\ outline' = IF options.title /\ options.shift THEN Recalculated(cut) ELSE cut
      BY <1>2, <2>3, DetectedTitle
    <3> DEFINE cut == CutAt(outline, t, options.before, options.title)
    <3>2. cut \in Seq(HeadElement)
      BY OutlineTypes, WhatIsCut
    <3>3. titled' = outline[t].name /\ (outline' = Recalculated(cut) \/ outline' = cut)
      BY <3>1, Zenon
    <3> HIDE DEF cut
    <3>4. SameNames(cut, outline')
      BY <3>2, <3>3, ItsOwnNames, RecalculatedLevels
    <3>5. SameNames(outline, outline)
      BY ItsOwnNames, OutlineTypes
    <3> QED
      BY <2>1, <2>3, <3>3, <3>4, <3>5, OutlineTypes, Zenon DEF TitleTaken, cut
  <2> QED
    BY <2>2, <2>3
<1>3. CASE ResolveLevels
  <2>1. PICK verdict \in [HeadIndices -> VerdictKinds] :
          /\ outline' = AfterModel(verdict)
          /\ titled' = IF ChosenTitle(verdict) = 0 THEN titled ELSE outline[ChosenTitle(verdict)].name
    BY <1>3, Zenon DEF ResolveLevels
  <2>2. options' = options
    BY <1>3, Zenon DEF ResolveLevels
  <2> DEFINE es == Applied(verdict)
      t == ChosenTitle(verdict)
  <2>3. SameNames(outline, es)
    BY JudgedNames
  <2>4. CASE t = 0
    <3>1. outline' = es /\ titled' = titled
      BY <2>1, <2>4, Zenon DEF AfterModel
    <3> QED
      BY <2>2, <2>3, <3>1, Zenon DEF Reworded
  <2>5. CASE t # 0
    <3>1. outline' = CutAt(es, t, options.before, options.title) /\ titled' = outline[t].name
      BY <2>1, <2>5, Zenon DEF AfterModel, CutAt
    <3>2. titled = 0 /\ t \in 1 .. Len(outline)
      <4> DEFINE named == {n \in HeadIndices : verdict[n].what = "title"}
      <4>1. titled = 0 /\ named # {} /\ t = Min(named)
        BY <2>5, Zenon DEF ChosenTitle
      <4>2. named \subseteq 1 .. Len(outline) /\ named \subseteq Nat
        BY OutlineTypes
      <4> HIDE DEF named, t
      <4>3. t \in named
        BY <4>1, <4>2, LeastLevel
      <4> QED
        BY <4>1, <4>2, <4>3
    <3> HIDE DEF es, t
    <3>3. es \in Seq(HeadElement) /\ Len(es) = Len(outline) /\ Ascending(es)
      BY <2>3, OutlineTypes, Relabelled, Zenon DEF SameNames
    <3>4. CutAt(es, t, options.before, options.title) \in Seq(HeadElement)
      BY <3>2, <3>3, OutlineTypes, WhatIsCut
    <3>5. SameNames(CutAt(es, t, options.before, options.title), outline')
      BY <3>1, <3>4, ItsOwnNames
    <3> QED
      BY <2>2, <2>3, <3>1, <3>2, <3>3, <3>5, Zenon DEF TitleTaken
  <2> QED
    BY <2>4, <2>5
<1>4. CASE Normalize
  <2>1. titled' = titled /\ options' = options
    BY <1>4, Zenon DEF Normalize
  <2>2. SameNames(outline, outline')
    BY <1>4, NormalizedLevels
  <2> QED
    BY <2>1, <2>2, Zenon DEF Reworded
<1>5. CASE UNCHANGED headingVars
  <2>1. titled' = titled /\ options' = options /\ outline' = outline
    BY <1>5 DEF headingVars
  <2>2. SameNames(outline, outline')
    BY <2>1, ItsOwnNames, OutlineTypes
  <2> QED
    BY <2>1, <2>2, Zenon DEF Reworded
<1> QED
  BY <1>1, <1>2, <1>3, <1>4, <1>5 DEF HeadingsNext

(* The elements after a title was taken, by who stays. *)
LEMMA TakenNames ==
  ASSUME OutlineInv, NEW t \in 1 .. Len(outline), NEW gs, SameNames(outline, gs), NEW fs,
         SameNames(CutAt(gs, t, options.before, options.title), fs)
  PROVE  /\ fs \in Seq(HeadElement) /\ Ascending(fs)
         /\ \A k \in 1 .. Len(fs) : \E n \in 1 .. Len(outline) :
              Stays(n, t, options.before, options.title) /\ fs[k].name = outline[n].name
         /\ \A n \in 1 .. Len(outline) : Stays(n, t, options.before, options.title) =>
              \E k \in 1 .. Len(fs) : fs[k].name = outline[n].name
<1> DEFINE cut == CutAt(gs, t, options.before, options.title)
<1>1. gs \in Seq(HeadElement) /\ Len(gs) = Len(outline)
      /\ \A n \in 1 .. Len(outline) : gs[n].name = outline[n].name
  BY Zenon DEF SameNames
<1>2. Ascending(gs)
  BY <1>1, OutlineTypes, Relabelled
<1>3. /\ cut \in Seq(HeadElement) /\ Ascending(cut)
      /\ \A k \in 1 .. Len(cut) :
           \E n \in 1 .. Len(gs) : Stays(n, t, options.before, options.title) /\ cut[k] = gs[n]
      /\ \A n \in 1 .. Len(gs) : Stays(n, t, options.before, options.title) =>
           \E k \in 1 .. Len(cut) : cut[k] = gs[n]
  <2>1. t \in 1 .. Len(gs)
    BY <1>1
  <2>2. options.before \in BOOLEAN /\ options.title \in BOOLEAN
    BY OutlineTypes
  <2> QED
    BY <1>1, <1>2, <2>1, <2>2, WhatIsCut
<1> HIDE DEF cut
<1>4. fs \in Seq(HeadElement) /\ Len(fs) = Len(cut) /\ \A k \in 1 .. Len(cut) : fs[k].name = cut[k].name
  BY Zenon DEF SameNames, cut
<1>5. Ascending(fs)
  BY <1>3, <1>4, Relabelled
<1>6. ASSUME NEW k \in 1 .. Len(fs)
      PROVE  \E n \in 1 .. Len(outline) :
               Stays(n, t, options.before, options.title) /\ fs[k].name = outline[n].name
  <2>1. k \in 1 .. Len(cut)
    BY <1>4
  <2>2. PICK n \in 1 .. Len(gs) : Stays(n, t, options.before, options.title) /\ cut[k] = gs[n]
    BY <1>3, <2>1, Zenon
  <2>3. n \in 1 .. Len(outline)
    BY <1>1
  <2> QED
    BY <1>1, <1>4, <2>1, <2>2, <2>3, Zenon
<1>7. ASSUME NEW n \in 1 .. Len(outline), Stays(n, t, options.before, options.title)
      PROVE  \E k \in 1 .. Len(fs) : fs[k].name = outline[n].name
  <2>1. n \in 1 .. Len(gs)
    BY <1>1
  <2>2. PICK k \in 1 .. Len(cut) : cut[k] = gs[n]
    BY <1>3, <1>7, <2>1, Zenon
  <2>3. k \in 1 .. Len(fs)
    BY <1>4
  <2> QED
    BY <1>1, <1>4, <2>2, <2>3, Zenon
<1> QED
  BY <1>4, <1>5, <1>6, <1>7

LEMMA OutlineStep == OutlineInv /\ [HeadingsNext]_headingVars => OutlineInv'
<1> SUFFICES ASSUME OutlineInv, [HeadingsNext]_headingVars PROVE OutlineInv'
  OBVIOUS
<1>1. options' = options /\ (Reworded(outline, outline') \/ TitleTaken(outline, outline'))
  BY StepShape
<1> DEFINE fs == outline'
<1>2. fs \in Seq(HeadElement) /\ Ascending(fs)
  <2>1. CASE Reworded(outline, fs)
    <3>1. fs \in Seq(HeadElement) /\ Len(fs) = Len(outline)
          /\ \A n \in 1 .. Len(outline) : fs[n].name = outline[n].name
      BY <2>1, Zenon DEF Reworded, SameNames
    <3> HIDE DEF fs
    <3> QED
      BY <3>1, OutlineTypes, Relabelled
  <2>2. CASE TitleTaken(outline, fs)
    <3>1. PICK t \in 1 .. Len(outline) : \E gs \in Seq(HeadElement) :
            /\ SameNames(outline, gs)
            /\ SameNames(CutAt(gs, t, options.before, options.title), fs)
      BY <2>2, Zenon DEF TitleTaken
    <3> HIDE DEF fs
    <3> QED
      BY <3>1, TakenNames, Zenon
  <2> QED
    BY <1>1, <2>1, <2>2
<1> QED
  BY <1>1, <1>2 DEF OutlineInv, Ascending

LEMMA OutlineStarts == HeadingsInit => OutlineInv
<1> SUFFICES ASSUME HeadingsInit PROVE OutlineInv
  OBVIOUS
<1>1. PICK count \in 0 .. MaxHeads : \E looks \in [1 .. count -> Looks] :
        outline = [n \in 1 .. count |-> ParsedAs(n, looks[n])]
  BY Zenon DEF HeadingsInit
<1>2. PICK looks \in [1 .. count -> Looks] : outline = [n \in 1 .. count |-> ParsedAs(n, looks[n])]
  BY <1>1
<1>3. count \in Nat
  BY HeadingConstants
<1>4. ASSUME NEW n \in 1 .. count PROVE ParsedAs(n, looks[n]) \in HeadElement /\ ParsedAs(n, looks[n]).name = n
  <2>1. looks[n] \in [level : 0 .. 6, size : Nat, page : Nat, caps : BOOLEAN,
                      centered : BOOLEAN, bold : BOOLEAN, worthy : BOOLEAN]
    BY HeadingConstants
  <2>2. looks[n].level \in Nat /\ looks[n].size \in Nat /\ looks[n].page \in Nat /\ n \in Nat \ {0}
    BY <1>3, <2>1
  <2>3. looks[n].caps \in BOOLEAN /\ looks[n].centered \in BOOLEAN /\ looks[n].bold \in BOOLEAN
        /\ looks[n].worthy \in BOOLEAN
    BY <2>1
  <2> QED
    BY <2>2, <2>3, Zenon DEF ParsedAs, HeadElement
<1>5. outline \in Seq(HeadElement) /\ Len(outline) = count
      /\ \A n \in 1 .. count : outline[n].name = n
  <2>1. outline \in [1 .. count -> HeadElement]
    BY <1>2, <1>4
  <2>2. \A n \in 1 .. count : outline[n].name = n
    BY <1>2, <1>4
  <2> QED
    BY <1>3, <2>1, <2>2
<1>6. Ascending(outline)
  BY <1>3, <1>5 DEF Ascending
<1>7. options \in [title : BOOLEAN, before : BOOLEAN, shift : BOOLEAN]
  BY HeadingConstants, Zenon DEF HeadingsInit
<1> QED
  BY <1>5, <1>6, <1>7, Zenon DEF OutlineInv

(* The title, once there is one, stays, and so do the elements. *)
LEMMA TitleStays ==
  ASSUME OutlineInv, [HeadingsNext]_headingVars, titled # 0
  PROVE  titled' = titled /\ NamesOf(outline') = NamesOf(outline)
<1>1. Reworded(outline, outline')
  BY StepShape DEF TitleTaken
<1>2. titled' = titled /\ outline' \in Seq(HeadElement) /\ Len(outline') = Len(outline)
      /\ \A n \in 1 .. Len(outline) : outline'[n].name = outline[n].name
  BY <1>1, Zenon DEF Reworded, SameNames
<1>3. DOMAIN outline' = 1 .. Len(outline) /\ DOMAIN outline = 1 .. Len(outline)
  BY <1>2, OutlineTypes
<1> QED
  BY <1>2, <1>3 DEF NamesOf

(* What is left when the title is found. *)
LEMMA LeftWithTitle ==
  ASSUME OutlineInv, [HeadingsNext]_headingVars, titled = 0
  PROVE  /\ \A n, m \in DOMAIN outline' : n < m => outline'[n].name < outline'[m].name
         /\ {outline'[n].name : n \in DOMAIN outline'} =
            {outline[n].name : n \in {k \in DOMAIN outline :
               \/ titled' = 0
               \/ IF outline[k].name = titled' THEN ~options.title
                  ELSE outline[k].name > titled' \/ ~options.before}}
<1> DEFINE fs == outline'
    Left(k) == \/ titled' = 0
               \/ IF outline[k].name = titled' THEN ~options.title
                  ELSE outline[k].name > titled' \/ ~options.before
<1>1. Reworded(outline, outline') \/ TitleTaken(outline, outline')
  BY StepShape
<1>2. /\ fs \in Seq(HeadElement) /\ Ascending(fs)
      /\ \A k \in 1 .. Len(fs) : \E n \in 1 .. Len(outline) : Left(n) /\ fs[k].name = outline[n].name
      /\ \A n \in 1 .. Len(outline) : Left(n) => \E k \in 1 .. Len(fs) : fs[k].name = outline[n].name
  <2>1. CASE Reworded(outline, fs)
    <3>1. fs \in Seq(HeadElement) /\ Len(fs) = Len(outline) /\ titled' = 0
          /\ \A n \in 1 .. Len(outline) : fs[n].name = outline[n].name
      BY <2>1, Zenon DEF Reworded, SameNames
    <3>2. \A n : Left(n)
      BY <3>1
    <3> HIDE DEF fs, Left
    <3>3. Ascending(fs)
      BY <3>1, OutlineTypes, Relabelled
    <3> QED
      BY <3>1, <3>2, <3>3
  <2>2. CASE TitleTaken(outline, fs)
    <3>1. PICK t \in 1 .. Len(outline) : titled' = outline[t].name /\ \E gs \in Seq(HeadElement) :
            /\ SameNames(outline, gs)
            /\ SameNames(CutAt(gs, t, options.before, options.title), fs)
      BY <2>2, Zenon DEF TitleTaken
    <3>2. ASSUME NEW n \in 1 .. Len(outline)
          PROVE  Left(n) <=> Stays(n, t, options.before, options.title)
      <4>1. /\ outline[n].name \in Nat \ {0} /\ outline[t].name \in Nat \ {0}
            /\ n \in Nat /\ t \in Nat
            /\ n < t <=> outline[n].name < outline[t].name
            /\ n = t <=> outline[n].name = outline[t].name
        BY OutlineTypes, HeadFields, NamesDiffer
      <4> QED
        BY <3>1, <4>1 DEF Stays
    <3> HIDE DEF fs, Left
    <3>3. /\ fs \in Seq(HeadElement) /\ Ascending(fs)
          /\ \A k \in 1 .. Len(fs) : \E n \in 1 .. Len(outline) :
               Stays(n, t, options.before, options.title) /\ fs[k].name = outline[n].name
          /\ \A n \in 1 .. Len(outline) : Stays(n, t, options.before, options.title) =>
               \E k \in 1 .. Len(fs) : fs[k].name = outline[n].name
      BY <3>1, TakenNames
    <3> QED
      BY <3>2, <3>3, Zenon
  <2> QED
    BY <1>1, <2>1, <2>2
<1> HIDE DEF fs, Left
<1>3. DOMAIN fs = 1 .. Len(fs) /\ DOMAIN outline = 1 .. Len(outline)
  BY <1>2, OutlineTypes
<1>4. \A n, m \in DOMAIN fs : n < m => fs[n].name < fs[m].name
  BY <1>2, <1>3 DEF Ascending
<1>5. {fs[n].name : n \in DOMAIN fs} = {outline[n].name : n \in {k \in DOMAIN outline : Left(k)}}
  <2> DEFINE old == {k \in DOMAIN outline : Left(k)}
  <2>1. ASSUME NEW n \in DOMAIN fs PROVE \E k \in old : fs[n].name = outline[k].name
    BY <1>2, <1>3, Zenon
  <2>2. ASSUME NEW k \in old PROVE \E n \in DOMAIN fs : fs[n].name = outline[k].name
    BY <1>2, <1>3, Zenon
  <2> HIDE DEF old
  <2>3. {fs[n].name : n \in DOMAIN fs} = {outline[n].name : n \in old}
    BY <2>1, <2>2
  <2> QED
    BY <2>3 DEF old
<1> QED
  BY <1>4, <1>5, Zenon DEF fs, Left

LEMMA LevelsNow ==
  ASSUME OutlineInv, SameNames(outline, outline')
  PROVE  \A n \in 1 .. Len(outline) : LevelNow(outline[n]) = outline'[n].level
<1> DEFINE fs == outline'
<1>1. \A e : LevelNow(e) = LevelIn(fs, e.name)
  BY Zenon DEF LevelNow, LevelIn
<1>2. fs \in Seq(HeadElement) /\ Len(fs) = Len(outline)
      /\ \A n \in 1 .. Len(outline) : fs[n].name = outline[n].name
  BY Zenon DEF SameNames
<1> HIDE DEF fs
<1>3. \A n \in 1 .. Len(outline) : LevelIn(fs, outline[n].name) = fs[n].level
  BY <1>2, OutlineTypes, Relabelled
<1> QED
  BY <1>1, <1>3, Zenon DEF fs

(* Sizes decide. *)
LEMMA RefinedBySize ==
  ASSUME OutlineInv, RefineLevels, ~trusted, NEW n \in HeadIndices, NEW m \in HeadIndices,
         NEW big, big = EffectiveSize(outline[n]), NEW small, small = EffectiveSize(outline[m]),
         big >= small, small > 0
  PROVE  /\ LevelNow(outline[n]) <= LevelNow(outline[m])
         /\ LevelNow(outline[m]) \in 1 .. MaxLevels
         /\ big = small => LevelNow(outline[n]) = LevelNow(outline[m])
         /\ big > small /\ Cardinality(Sizes) <= MaxLevels =>
              LevelNow(outline[n]) < LevelNow(outline[m])
<1>1. n \in 1 .. Len(outline) /\ m \in 1 .. Len(outline)
  BY OutlineTypes
<1>2. small \in Int /\ big \in Int
  <2>1. \A k \in 1 .. Len(outline) : EffectiveSize(outline[k]) \in Int
    BY SizeIsInt
  <2> QED
    BY <1>1, <2>1
<1>3. small # 0 /\ big # 0
  BY <1>2
<1>4. small \in Sizes /\ big \in Sizes
  BY <1>3, SizesFinite
<1>5. LevelNow(outline[n]) = LevelOfSize(big) /\ LevelNow(outline[m]) = LevelOfSize(small)
  BY <1>1, <1>3, RefinedLevels, LevelsNow
<1> QED
  BY <1>4, <1>5, SizeLevels, Zenon

LEMMA NormalizedHierarchy ==
  ASSUME OutlineInv, Normalize
  PROVE  /\ \A n, m \in HeadIndices :
              outline[n].level < outline[m].level <=> LevelNow(outline[n]) < LevelNow(outline[m])
         /\ LevelsOf(outline') = 1 .. Cardinality(LevelsOf(outline))
<1> DEFINE fs == outline'
    T == LevelsOf(outline)
    C == Cardinality(T)
<1>1. /\ C \in Nat
      /\ \A l \in T : Compact(l) \in 1 .. C
      /\ \A l, k \in T : l < k => Compact(l) < Compact(k)
      /\ \A c \in 1 .. C : \E l \in T : Compact(l) = c
  BY CompactLevels, Zenon
<1>2. /\ SameNames(outline, fs)
      /\ \A n \in 1 .. Len(outline) :
           fs[n].level = IF outline[n].level = 0 THEN 0 ELSE Compact(outline[n].level)
  BY NormalizedLevels
<1>3. fs \in Seq(HeadElement) /\ Len(fs) = Len(outline)
  BY <1>2, Zenon DEF SameNames
<1>4. \A n \in 1 .. Len(outline) : LevelNow(outline[n]) = fs[n].level
  BY <1>2, LevelsNow
<1>5. /\ T \subseteq Nat \ {0}
      /\ \A n \in 1 .. Len(outline) : outline[n].level # 0 => outline[n].level \in T
      /\ \A l \in T : \E n \in 1 .. Len(outline) : outline[n].level = l
  BY LevelsFinite, OutlineTypes
<1>6. /\ \A n \in 1 .. Len(outline) : fs[n].level # 0 => fs[n].level \in LevelsOf(fs)
      /\ \A l \in LevelsOf(fs) : l # 0 /\ \E n \in 1 .. Len(outline) : fs[n].level = l
  <2> HIDE DEF fs
  <2> QED
    BY <1>3, LevelsFinite
<1> HIDE DEF fs, T, C
<1>7. ASSUME NEW n \in HeadIndices, NEW m \in HeadIndices
      PROVE  outline[n].level < outline[m].level <=> LevelNow(outline[n]) < LevelNow(outline[m])
  <2>1. n \in 1 .. Len(outline) /\ m \in 1 .. Len(outline)
        /\ outline[n].level # 0 /\ outline[m].level # 0
    BY OutlineTypes
  <2>2. outline[n].level \in T /\ outline[m].level \in T
    BY <1>5, <2>1
  <2>3. LevelNow(outline[n]) = Compact(outline[n].level) /\ LevelNow(outline[m]) = Compact(outline[m].level)
    BY <1>2, <1>4, <2>1
  <2>4. \A l \in T : l \in Nat /\ Compact(l) \in Nat
    <3> SUFFICES ASSUME NEW l \in T PROVE l \in Nat /\ Compact(l) \in Nat
      OBVIOUS
    <3>1. l \in Nat
      BY <1>5
    <3>2. Compact(l) \in 1 .. C
      BY <1>1, Zenon
    <3> QED
      BY <3>1, <3>2
  <2>5. \A l, k \in T : l < k <=> Compact(l) < Compact(k)
    <3> SUFFICES ASSUME NEW l \in T, NEW k \in T PROVE l < k <=> Compact(l) < Compact(k)
      OBVIOUS
    <3>1. l < k => Compact(l) < Compact(k)
      BY <1>1, Zenon
    <3>2. k < l => Compact(k) < Compact(l)
      BY <1>1, Zenon
    <3>3. l \in Nat /\ k \in Nat /\ Compact(l) \in Nat /\ Compact(k) \in Nat
      BY <2>4, Zenon
    <3>4. l = k => Compact(l) = Compact(k)
      OBVIOUS
    <3> QED
      BY <3>1, <3>2, <3>3, <3>4
  <2> QED
    BY <2>2, <2>3, <2>5
<1>8. LevelsOf(fs) = 1 .. C
  <2>1. ASSUME NEW l \in LevelsOf(fs) PROVE l \in 1 .. C
    <3>1. PICK n \in 1 .. Len(outline) : fs[n].level = l
      BY <1>6
    <3>2. outline[n].level # 0 /\ l = Compact(outline[n].level)
      BY <1>2, <1>6, <3>1
    <3> QED
      BY <1>1, <1>5, <3>2
  <2>2. ASSUME NEW c \in 1 .. C PROVE c \in LevelsOf(fs)
    <3>1. PICK l \in T : Compact(l) = c
      BY <1>1
    <3>2. PICK n \in 1 .. Len(outline) : outline[n].level = l
      BY <1>5
    <3>3. c # 0 /\ l # 0
      BY <1>1, <1>5
    <3>4. fs[n].level = c
      BY <1>2, <3>1, <3>2, <3>3, Zenon
    <3> QED
      BY <1>6, <3>3, <3>4
  <2> QED
    BY <2>1, <2>2
<1> QED
  BY <1>7, <1>8 DEF fs, T, C

LEMMA DetectedHierarchy ==
  ASSUME OutlineInv, DetectTitle
  PROVE  /\ \A n, m \in HeadIndices :
              LevelNow(outline[n]) # 0 /\ LevelNow(outline[m]) # 0 =>
                (outline[n].level < outline[m].level <=> LevelNow(outline[n]) < LevelNow(outline[m]))
         /\ titled # titled' /\ options.title /\ options.shift =>
              LevelsOf(outline') = {} \/ 1 \in LevelsOf(outline')
<1> DEFINE fs == outline'
<1>1. \A e : LevelNow(e) = LevelIn(fs, e.name)
  BY Zenon DEF LevelNow, LevelIn
<1>2. CASE titled # 0 \/ TitleCandidates = {}
  <2>1. outline' = outline /\ titled' = titled
    BY <1>2, Zenon DEF DetectTitle
  <2>2. SameNames(outline, outline')
    BY <2>1, ItsOwnNames, OutlineTypes
  <2>3. \A n \in 1 .. Len(outline) : LevelNow(outline[n]) = outline[n].level
    BY <2>1, <2>2, LevelsNow
  <2>4. HeadIndices \subseteq 1 .. Len(outline)
    BY OutlineTypes
  <2> QED
    BY <2>1, <2>3, <2>4, Zenon
<1>3. CASE ~(titled # 0 \/ TitleCandidates = {})
  <2>1. PICK t \in 1 .. Len(outline) :
          LET cut == CutAt(outline, t, options.before, options.title)
          IN  /\ titled' = outline[t].name
              /\ outline' = IF options.title /\ options.shift THEN Recalculated(cut) ELSE cut
    BY <1>3, DetectedTitle
  <2> DEFINE cut == CutAt(outline, t, options.before, options.title)
  <2>2. /\ cut \in Seq(HeadElement) /\ Ascending(cut)
        /\ \A k \in 1 .. Len(cut) : \E n \in 1 .. Len(outline) :
             Stays(n, t, options.before, options.title) /\ cut[k] = outline[n]
    BY OutlineTypes, WhatIsCut
  <2>3. fs = IF options.title /\ options.shift THEN Recalculated(cut) ELSE cut
    BY <2>1, Zenon
  <2> HIDE DEF cut
  <2>4. /\ SameNames(cut, fs)
        /\ \E d \in Nat : \A k \in 1 .. Len(cut) :
             IF cut[k].level = 0 THEN fs[k].level = 0
             ELSE cut[k].level > d /\ fs[k].level = cut[k].level - d
        /\ options.title /\ options.shift /\ LevelsOf(cut) # {} =>
             \E k \in 1 .. Len(cut) : fs[k].level = 1
    <3>1. CASE options.title /\ options.shift
      BY <2>2, <2>3, <3>1, RecalculatedLevels
    <3>2. CASE ~(options.title /\ options.shift)
      <4>1. fs = cut
        BY <2>3, <3>2
      <4>2. SameNames(cut, fs)
        BY <2>2, <4>1, ItsOwnNames
      <4>3. \A k \in 1 .. Len(cut) : cut[k].level \in Nat
        BY <2>2, HeadFields
      <4>4. 0 \in Nat /\ \A k \in 1 .. Len(cut) :
              IF cut[k].level = 0 THEN fs[k].level = 0
              ELSE cut[k].level > 0 /\ fs[k].level = cut[k].level - 0
        <5> HIDE DEF fs
        <5> QED
          BY <4>1, <4>3
      <4> QED
        BY <3>2, <4>2, <4>4, Zenon
    <3> QED
      BY <3>1, <3>2
  <2>5. fs \in Seq(HeadElement) /\ Len(fs) = Len(cut)
        /\ \A k \in 1 .. Len(cut) : fs[k].name = cut[k].name
    BY <2>4, Zenon DEF SameNames
  <2> HIDE DEF fs
  <2>6. \A k \in 1 .. Len(cut) : LevelIn(fs, cut[k].name) = fs[k].level
    BY <2>2, <2>5, Relabelled
  <2>7. PICK d \in Nat : \A k \in 1 .. Len(cut) :
             IF cut[k].level = 0 THEN fs[k].level = 0
             ELSE cut[k].level > d /\ fs[k].level = cut[k].level - d
    BY <2>4
  <2>8. ASSUME NEW n \in HeadIndices, LevelNow(outline[n]) # 0
        PROVE  /\ outline[n].level \in Nat /\ outline[n].level > d
               /\ LevelNow(outline[n]) = outline[n].level - d
    <3>1. n \in 1 .. Len(outline) /\ outline[n].level # 0 /\ outline[n].level \in Nat
      BY OutlineTypes, HeadFields
    <3>2. PICK k \in 1 .. Len(fs) : fs[k].name = outline[n].name
      <4>1. LevelIn(fs, outline[n].name) # 0
        BY <1>1, <2>8
      <4> QED
        BY <2>5, <4>1, LevelOfAbsent
    <3>3. k \in 1 .. Len(cut) /\ cut[k].name = outline[n].name
      BY <2>5, <3>2
    <3>4. PICK m \in 1 .. Len(outline) : cut[k] = outline[m]
      BY <2>2, <3>3
    <3>5. m = n
      BY <3>1, <3>3, <3>4, NamesDiffer, OutlineTypes
    <3>6. LevelNow(outline[n]) = fs[k].level
      BY <1>1, <2>6, <3>3, Zenon
    <3> QED
      BY <2>7, <3>1, <3>3, <3>4, <3>5, <3>6
  <2>9. ASSUME NEW n \in HeadIndices, NEW m \in HeadIndices,
               LevelNow(outline[n]) # 0, LevelNow(outline[m]) # 0
        PROVE  outline[n].level < outline[m].level <=> LevelNow(outline[n]) < LevelNow(outline[m])
    BY <2>8, <2>9
  <2>10. ASSUME options.title, options.shift
         PROVE  LevelsOf(fs) = {} \/ 1 \in LevelsOf(fs)
    <3>1. /\ \A n \in 1 .. Len(fs) : fs[n].level # 0 => fs[n].level \in LevelsOf(fs)
          /\ \A l \in LevelsOf(fs) : l # 0 /\ \E n \in 1 .. Len(fs) : fs[n].level = l
      BY <2>5, LevelsFinite
    <3>2. CASE LevelsOf(cut) # {}
      BY <2>4, <2>5, <2>10, <3>1, <3>2
    <3>3. CASE LevelsOf(cut) = {}
      <4>1. \A k \in 1 .. Len(cut) : cut[k].level = 0
        BY <2>2, <3>3, LevelsFinite
      <4> QED
        BY <2>5, <2>7, <3>1, <4>1
    <3> QED
      BY <3>2, <3>3
  <2> QED
    BY <2>9, <2>10 DEF fs
<1> QED
  BY <1>2, <1>3

(* The processors in any order, on any document, leave an outline that is   *)
(* that of the document: sizes decide, the title is final and taken out     *)
(* alone, and no heading changes sides with another (processing/heading.py, *)
(* heading_llm.py).                                                         *)
THEOREM OutlineStaysKept == HeadingsSpec => OutlineKept
<1>1. ASSUME OutlineInv, [HeadingsNext]_headingVars
      PROVE  [RefineLevels /\ ~trusted => \A n, m \in HeadIndices :
       LET big == EffectiveSize(outline[n])  small == EffectiveSize(outline[m])
       IN big >= small /\ small > 0 =>
            /\ LevelNow(outline[n]) <= LevelNow(outline[m])
            /\ LevelNow(outline[m]) \in 1 .. MaxLevels
            /\ big = small => LevelNow(outline[n]) = LevelNow(outline[m])
            /\ big > small /\ Cardinality(Sizes) <= MaxLevels =>
                 LevelNow(outline[n]) < LevelNow(outline[m])]_headingVars
  BY <1>1, RefinedBySize, Zenon
<1>2. ASSUME OutlineInv, [HeadingsNext]_headingVars
      PROVE  [titled # 0 => titled' = titled /\ NamesOf(outline') = NamesOf(outline)]_headingVars
  BY <1>2, TitleStays, Zenon
<1>3. ASSUME OutlineInv, [HeadingsNext]_headingVars
      PROVE  [titled = 0 =>
       /\ \A n, m \in DOMAIN outline' : n < m => outline'[n].name < outline'[m].name
       /\ {outline'[n].name : n \in DOMAIN outline'} =
            {outline[n].name : n \in {k \in DOMAIN outline :
               \/ titled' = 0
               \/ IF outline[k].name = titled' THEN ~options.title
                  ELSE outline[k].name > titled' \/ ~options.before}}]_headingVars
  BY <1>3, LeftWithTitle, Zenon
<1>4. ASSUME OutlineInv, [HeadingsNext]_headingVars
      PROVE  [DetectTitle \/ Normalize =>
       /\ \A n, m \in HeadIndices :
            LevelNow(outline[n]) # 0 /\ LevelNow(outline[m]) # 0 =>
              (outline[n].level < outline[m].level <=> LevelNow(outline[n]) < LevelNow(outline[m]))
       /\ Normalize => LevelsOf(outline') = 1 .. Cardinality(LevelsOf(outline))
       /\ DetectTitle /\ titled # titled' /\ options.title /\ options.shift =>
            LevelsOf(outline') = {} \/ 1 \in LevelsOf(outline')]_headingVars
  BY <1>4, NormalizedHierarchy, DetectedHierarchy, Zenon
<1> QED
  BY OutlineStarts, OutlineStep, <1>1, <1>2, <1>3, <1>4, PTL
     DEF HeadingsSpec, OutlineKept, SizesDecide, TitleIsFinal, OnlyTitleRemoved, HierarchyKept

-----------------------------------------------------------------------------
(* The refs of footnotes *)

(* A total order of different members. *)
Precedes(R, U) ==
  /\ \A n, k \in U : n # k => <<n, k>> \in R \/ <<k, n>> \in R
  /\ \A n, k, j \in U : <<n, k>> \in R /\ <<k, j>> \in R => <<n, j>> \in R
  /\ \A n \in U : <<n, n>> \notin R

(* s lists the members of U, each pair in the order R. *)
IsSorting(s, U, R) ==
  /\ s \in [1 .. Cardinality(U) -> U]
  /\ Range(s) = U
  /\ \A j, k \in 1 .. Cardinality(U) : j < k => <<s[j], s[k]>> \in R

(* Each set of them has a first member. *)
HasFirst(R, U) == \A V \in SUBSET U : V # {} => \E m \in V : \A k \in V : k # m => <<m, k>> \in R

(* A total order of numbers up to L has first members. *)
LEMMA FirstOfAll ==
  ASSUME NEW L \in Nat, NEW R, NEW U, U \subseteq 1 .. L, Precedes(R, U)
  PROVE  HasFirst(R, U)
<1> SUFFICES ASSUME NEW V \in SUBSET U, V # {}
             PROVE  \E m \in V : \A k \in V : k # m => <<m, k>> \in R
  BY DEF HasFirst
<1> DEFINE Q == R \cup {<<n, n>> : n \in U}
<1>0. /\ \A n, k \in U : n # k => <<n, k>> \in R \/ <<k, n>> \in R
      /\ \A n, k, j \in U : <<n, k>> \in R /\ <<k, j>> \in R => <<n, j>> \in R
      /\ \A n \in U : <<n, n>> \notin R
  BY Zenon DEF Precedes
<1>1. \A n, k \in U : <<n, k>> \in Q <=> n = k \/ <<n, k>> \in R
  OBVIOUS
<1> HIDE DEF Q
<1>2. Orders(Q, V)
  <2>1. \A n, k \in V : <<n, k>> \in Q \/ <<k, n>> \in Q
    BY <1>0, <1>1
  <2>2. \A n, k, j \in V : <<n, k>> \in Q /\ <<k, j>> \in Q => <<n, j>> \in Q
    BY <1>0, <1>1
  <2> QED
    BY <2>1, <2>2 DEF Orders
<1>3. V \subseteq 1 .. L
  OBVIOUS
<1>4. \E m \in V : \A k \in V : <<m, k>> \in Q
  BY <1>2, <1>3, FirstInOrder
<1> QED
  BY <1>1, <1>4

(* sorted sorts: there is a list in order, and CHOOSE finds one. *)
LEMMA Sortable ==
  ASSUME NEW L \in Nat, NEW R, NEW U, U \subseteq 1 .. L, Precedes(R, U)
  PROVE  /\ IsFiniteSet(U) /\ Cardinality(U) \in Nat
         /\ IsSorting(SortedBy(U, R), U, R)
<1>0. \A V \in SUBSET U : V # {} => \E m \in V : \A k \in V : k # m => <<m, k>> \in R
  <2>1. HasFirst(R, U)
    BY FirstOfAll
  <2> QED
    BY <2>1 DEF HasFirst
<1>1. IsFiniteSet(1 .. L) /\ IsFiniteSet(U) /\ Cardinality(U) \in Nat
  <2>1. IsFiniteSet(1 .. L)
    BY FS_Interval
  <2>2. IsFiniteSet(U)
    BY <2>1, FS_Subset
  <2> QED
    BY <2>1, <2>2, FS_CardinalityType
<1> DEFINE C == Cardinality(U)
    P == {n \in 0 .. C : \A V \in SUBSET U : Cardinality(V) = n => \E s : IsSorting(s, V, R)}
<1>2. 0 \in P
  <2> SUFFICES ASSUME NEW V \in SUBSET U, Cardinality(V) = 0 PROVE \E s : IsSorting(s, V, R)
    BY <1>1
  <2>1. V = {}
    BY <1>1, FS_Subset, FS_EmptySet
  <2>2. IsSorting(<<>>, V, R)
    <3>1. <<>> \in [1 .. 0 -> V] /\ Range(<<>>) = {}
      BY DEF Range
    <3> QED
      BY <2>1, <3>1 DEF IsSorting
  <2> QED
    BY <2>2
<1>3. ASSUME NEW n \in 1 .. C, n - 1 \in P PROVE n \in P
  <2> SUFFICES ASSUME NEW V \in SUBSET U, Cardinality(V) = n PROVE \E s : IsSorting(s, V, R)
    BY <1>1
  <2>1. IsFiniteSet(V)
    BY <1>1, FS_Subset
  <2>2. V # {}
    BY <1>1, FS_EmptySet
  <2>3. PICK m \in V : \A k \in V : k # m => <<m, k>> \in R
    BY <1>0, <2>2
  <2> DEFINE W == V \ {m}
  <2>4. Cardinality(W) = n - 1 /\ n \in Nat /\ n >= 1 /\ n <= C
    <3>1. Cardinality(W) = Cardinality(V) - 1
      BY <2>1, FS_RemoveElement
    <3> QED
      BY <1>1, <3>1
  <2>5. PICK t : IsSorting(t, W, R)
    BY <1>3, <2>4
  <2>6. /\ t \in [1 .. n - 1 -> W] /\ Range(t) = W
        /\ \A j, k \in 1 .. n - 1 : j < k => <<t[j], t[k]>> \in R
    BY <2>4, <2>5 DEF IsSorting
  <2> DEFINE s == [j \in 1 .. n |-> IF j = 1 THEN m ELSE t[j - 1]]
  <2>7. \A j \in 1 .. n : j # 1 => j - 1 \in 1 .. n - 1
    BY <2>4
  <2>8. s \in [1 .. n -> V]
    BY <2>6, <2>7
  <2>9. \A j, k \in 1 .. n : j < k => <<s[j], s[k]>> \in R
    <3> SUFFICES ASSUME NEW j \in 1 .. n, NEW k \in 1 .. n, j < k PROVE <<s[j], s[k]>> \in R
      OBVIOUS
    <3>1. k # 1 /\ s[k] = t[k - 1] /\ k - 1 \in 1 .. n - 1
      BY <2>4, <2>7
    <3>2. CASE j = 1
      <4>1. t[k - 1] \in W
        BY <2>6, <3>1
      <4> QED
        BY <2>3, <3>1, <3>2, <4>1
    <3>3. CASE j # 1
      <4>1. s[j] = t[j - 1] /\ j - 1 \in 1 .. n - 1 /\ j - 1 < k - 1
        BY <2>4, <2>7, <3>3
      <4> QED
        BY <2>6, <3>1, <4>1
    <3> QED
      BY <3>2, <3>3
  <2>10. Range(s) = V
    <3>1. \A j \in 1 .. n : s[j] \in V
      BY <2>8
    <3>2. ASSUME NEW v \in V PROVE \E j \in 1 .. n : s[j] = v
      <4>1. CASE v = m
        <5>1. 1 \in 1 .. n /\ s[1] = m
          BY <2>4
        <5> QED
          BY <4>1, <5>1
      <4>2. CASE v # m
        <5>1. PICK j \in 1 .. n - 1 : t[j] = v
          BY <2>6, <4>2 DEF Range
        <5>2. j + 1 \in 1 .. n /\ j + 1 # 1 /\ s[j + 1] = t[j]
          BY <2>4
        <5> QED
          BY <5>1, <5>2
      <4> QED
        BY <4>1, <4>2
    <3>3. DOMAIN s = 1 .. n
      OBVIOUS
    <3> HIDE DEF s
    <3> QED
      BY <3>1, <3>2, <3>3 DEF Range
  <2> HIDE DEF s
  <2>11. IsSorting(s, V, R)
    BY <2>8, <2>9, <2>10 DEF IsSorting
  <2> QED
    BY <2>11
<1> HIDE DEF P
<1>4. \A n \in 0 .. C : n \in P
  BY <1>1, <1>2, <1>3, UpTo
<1>5. \E s : IsSorting(s, U, R)
  BY <1>1, <1>4 DEF P
<1>6. SortedBy(U, R) = CHOOSE s \in [1 .. C -> U] :
          Range(s) = U /\ \A j, k \in 1 .. C : j < k => <<s[j], s[k]>> \in R
  BY DEF SortedBy
<1>7. \E s \in [1 .. C -> U] : Range(s) = U /\ \A j, k \in 1 .. C : j < k => <<s[j], s[k]>> \in R
  BY <1>5 DEF IsSorting
<1> HIDE DEF C
<1>8. /\ SortedBy(U, R) \in [1 .. C -> U] /\ Range(SortedBy(U, R)) = U
      /\ \A j, k \in 1 .. C : j < k => <<SortedBy(U, R)[j], SortedBy(U, R)[k]>> \in R
  BY <1>6, <1>7
<1> QED
  BY <1>1, <1>8 DEF IsSorting, C

(* -- A tag in the place of some symbols. -- *)
Spliced(h, a, b, m) == SubSeq(h, 1, a - 1) \o RefTag(m) \o SubSeq(h, b + 1, Len(h))

(* g is h with the tag of m in the place of a .. b. *)
IsSpliced(g, h, a, b, m) ==
  /\ g \in Seq(Symbols)
  /\ Len(g) = (a + 2) + (IF b <= Len(h) THEN Len(h) - b ELSE 0)
  /\ \A p \in 1 .. a - 1 : g[p] = h[p]
  /\ g[a] = "<" /\ g[a + 1] = Marks[m] /\ g[a + 2] = ">"
  /\ \A p \in 1 .. Len(g) : p > a + 2 => p - (a + 2) + b \in 1 .. Len(h) /\ g[p] = h[p - (a + 2) + b]

(* A mark is no bracket, and a tag is three symbols. *)
LEMMA MarkFacts ==
  ASSUME NEW m \in DOMAIN Marks
  PROVE  /\ Marks[m] \in Symbols /\ Marks[m] # "<" /\ Marks[m] # ">" /\ "<" # ">"
         /\ "<" \in Symbols /\ ">" \in Symbols /\ RefTag(m) \in Seq(Symbols)
         /\ Len(RefTag(m)) = 3 /\ RefTag(m)[1] = "<" /\ RefTag(m)[2] = Marks[m] /\ RefTag(m)[3] = ">"
<1>1. Marks[m] \in Range(Marks) /\ "<" # ">"
  BY DEF Range
<1>2. Marks[m] \in Symbols /\ Marks[m] # "<" /\ Marks[m] # ">" /\ "<" \in Symbols /\ ">" \in Symbols
  BY <1>1, FootnoteConstants DEF Symbols
<1> HIDE DEF Symbols
<1>3. RefTag(m) \in Seq(Symbols) /\ Len(RefTag(m)) = 3
      /\ RefTag(m)[1] = "<" /\ RefTag(m)[2] = Marks[m] /\ RefTag(m)[3] = ">"
  BY <1>2 DEF RefTag
<1> QED
  BY <1>1, <1>2, <1>3

(* What a splice makes of a text, symbol by symbol. *)
LEMMA SpliceIs ==
  ASSUME NEW h \in Seq(Symbols), NEW m \in DOMAIN Marks, NEW a \in Nat \ {0}, NEW b \in Nat,
         a <= b, a <= Len(h) + 1
  PROVE  IsSpliced(Spliced(h, a, b, m), h, a, b, m)
<1> DEFINE x == SubSeq(h, 1, a - 1)
    y == RefTag(m)
    z == SubSeq(h, b + 1, Len(h))
    xy == x \o y
    g == xy \o z
    r == IF b <= Len(h) THEN Len(h) - b ELSE 0
<1>1. y \in Seq(Symbols) /\ Len(y) = 3 /\ y[1] = "<" /\ y[2] = Marks[m] /\ y[3] = ">"
  BY MarkFacts
<1>2. x \in Seq(Symbols) /\ Len(x) = a - 1 /\ \A p \in 1 .. a - 1 : x[p] = h[p]
  <2>1. a - 1 \in 0 .. Len(h)
    OBVIOUS
  <2> HIDE DEF y
  <2> QED
    BY <2>1, Prefix
<1>3. z \in Seq(Symbols) /\ Len(z) = r /\ r \in Nat
      /\ \A p \in 1 .. r : b + p \in 1 .. Len(h) /\ z[p] = h[b + p]
  <2> HIDE DEF Symbols
  <2>1. CASE b <= Len(h)
    <3>1. r = Len(h) - b /\ r \in Nat
      BY <2>1
    <3>2. z \in Seq(Symbols) /\ Len(z) = r /\ \A p \in 1 .. r : b + p \in 1 .. Len(h) /\ z[p] = h[b + p]
      BY <2>1
    <3> QED
      BY <3>1, <3>2
  <2>2. CASE ~(b <= Len(h))
    <3>1. z = <<>> /\ r = 0
      BY <2>2
    <3> QED
      BY <3>1
  <2> QED
    BY <2>1, <2>2
<1> HIDE DEF x, y, z, r, Symbols
<1>4. /\ xy \in Seq(Symbols) /\ Len(xy) = a + 2 /\ \A p \in 1 .. a - 1 : xy[p] = x[p]
      /\ xy[a] = y[1] /\ xy[a + 1] = y[2] /\ xy[a + 2] = y[3]
  <2>1. /\ xy \in Seq(Symbols) /\ Len(xy) = Len(x) + Len(y)
        /\ \A p \in 1 .. Len(x) : xy[p] = x[p]
        /\ \A k \in 1 .. Len(xy) : k \notin 1 .. Len(x) =>
             k - Len(x) \in 1 .. Len(y) /\ xy[k] = y[k - Len(x)]
    <3>1. x \in Seq(Symbols) /\ y \in Seq(Symbols)
      BY <1>1, <1>2
    <3> QED
      BY <3>1, Concatenated
  <2> HIDE DEF xy
  <2>2. Len(xy) = a + 2
    BY <1>1, <1>2, <2>1
  <2>3. xy[a] = y[a - (a - 1)] /\ xy[a + 1] = y[(a + 1) - (a - 1)] /\ xy[a + 2] = y[(a + 2) - (a - 1)]
    <3>1. a \in 1 .. Len(xy) /\ a + 1 \in 1 .. Len(xy) /\ a + 2 \in 1 .. Len(xy)
      BY <2>2
    <3>2. a \notin 1 .. Len(x) /\ a + 1 \notin 1 .. Len(x) /\ a + 2 \notin 1 .. Len(x)
      BY <1>2
    <3> QED
      BY <1>2, <2>1, <3>1, <3>2
  <2>4. a - (a - 1) = 1 /\ (a + 1) - (a - 1) = 2 /\ (a + 2) - (a - 1) = 3
    OBVIOUS
  <2> QED
    BY <1>2, <2>1, <2>2, <2>3, <2>4
<1> HIDE DEF xy
<1>5. /\ g \in Seq(Symbols) /\ Len(g) = (a + 2) + r /\ \A p \in 1 .. a + 2 : g[p] = xy[p]
      /\ \A p \in 1 .. Len(g) : p > a + 2 => p - (a + 2) \in 1 .. r /\ g[p] = z[p - (a + 2)]
  <2>1. /\ g \in Seq(Symbols) /\ Len(g) = Len(xy) + Len(z)
        /\ \A p \in 1 .. Len(xy) : g[p] = xy[p]
        /\ \A k \in 1 .. Len(g) : k \notin 1 .. Len(xy) =>
             k - Len(xy) \in 1 .. Len(z) /\ g[k] = z[k - Len(xy)]
    <3>1. xy \in Seq(Symbols) /\ z \in Seq(Symbols)
      BY <1>3, <1>4
    <3> QED
      BY <3>1, Concatenated
  <2> HIDE DEF g
  <2> QED
    BY <1>3, <1>4, <2>1
<1>6. g = Spliced(h, a, b, m)
  BY DEF Spliced, x, y, z, xy
<1> HIDE DEF g
<1>7. \A p \in 1 .. a - 1 : g[p] = h[p]
  BY <1>2, <1>4, <1>5
<1>8. g[a] = "<" /\ g[a + 1] = Marks[m] /\ g[a + 2] = ">"
  <2>1. a \in 1 .. a + 2 /\ a + 1 \in 1 .. a + 2 /\ a + 2 \in 1 .. a + 2
    OBVIOUS
  <2> QED
    BY <1>1, <1>4, <1>5, <2>1
<1>9. \A p \in 1 .. Len(g) : p > a + 2 => p - (a + 2) + b \in 1 .. Len(h) /\ g[p] = h[p - (a + 2) + b]
  <2> SUFFICES ASSUME NEW p \in 1 .. Len(g), p > a + 2
               PROVE  p - (a + 2) + b \in 1 .. Len(h) /\ g[p] = h[p - (a + 2) + b]
    OBVIOUS
  <2>1. p - (a + 2) \in 1 .. r /\ g[p] = z[p - (a + 2)]
    BY <1>5
  <2>2. b + (p - (a + 2)) \in 1 .. Len(h) /\ z[p - (a + 2)] = h[b + (p - (a + 2))]
    BY <1>3, <2>1
  <2>3. b + (p - (a + 2)) = p - (a + 2) + b
    <3>1. p \in Int
      OBVIOUS
    <3> QED
      BY <3>1
  <2> QED
    BY <2>1, <2>2, <2>3
<1>10. IsSpliced(g, h, a, b, m)
  <2>1. Len(g) = (a + 2) + (IF b <= Len(h) THEN Len(h) - b ELSE 0)
    BY <1>5 DEF r
  <2> QED
    BY <1>5, <1>7, <1>8, <1>9, <2>1 DEF IsSpliced
<1> QED
  BY <1>6, <1>10

(* What an intact tag is, symbol by symbol. *)
LEMMA IntactIs ==
  ASSUME NEW h \in Seq(Symbols), NEW n \in DOMAIN Marks, NEW p \in DOMAIN h
  PROVE  Intact(h, n, p) <=> p + 2 <= Len(h) /\ h[p] = "<" /\ h[p + 1] = Marks[n] /\ h[p + 2] = ">"
<1> DEFINE s == SubSeq(h, p, p + 2)
    t == RefTag(n)
<1>1. p \in 1 .. Len(h) /\ Len(h) \in Nat
  OBVIOUS
<1>2. t \in Seq(Symbols) /\ Len(t) = 3 /\ t[1] = "<" /\ t[2] = Marks[n] /\ t[3] = ">"
  BY MarkFacts
<1>3. p + 2 <= Len(h) => s \in Seq(Symbols) /\ Len(s) = 3 /\ s[1] = h[p] /\ s[2] = h[p + 1] /\ s[3] = h[p + 2]
  <2> HIDE DEF Symbols
  <2> SUFFICES ASSUME p + 2 <= Len(h)
               PROVE  s \in Seq(Symbols) /\ Len(s) = 3 /\ s[1] = h[p] /\ s[2] = h[p + 1] /\ s[3] = h[p + 2]
    OBVIOUS
  <2> HIDE DEF t
  <2>1. s \in Seq(Symbols) /\ Len(s) = p + 2 - p + 1 /\ \A k \in 1 .. p + 2 - p + 1 : s[k] = h[p + k - 1]
    BY <1>1
  <2>2. p + 2 - p + 1 = 3 /\ p + 1 - 1 = p /\ p + 2 - 1 = p + 1 /\ p + 3 - 1 = p + 2
    BY <1>1
  <2> HIDE DEF s
  <2> QED
    BY <2>1, <2>2
<1> HIDE DEF s, t, Symbols
<1>4. ASSUME p + 2 <= Len(h), s[1] = t[1], s[2] = t[2], s[3] = t[3] PROVE s = t
  <2>1. \A k \in 1 .. 3 : s[k] = t[k]
    BY <1>4
  <2>2. s \in Seq(Symbols) /\ t \in Seq(Symbols) /\ Len(s) = 3 /\ Len(t) = 3
    BY <1>2, <1>3, <1>4
  <2> QED
    BY <2>1, <2>2, SeqsAgree
<1>5. Intact(h, n, p) <=> p + 2 <= Len(h) /\ s = t
  BY DEF Intact, s, t
<1> QED
  BY <1>2, <1>3, <1>4, <1>5

(* The intact tags afterwards: the new one, and what was intact before. *)
LEMMA PlacesSpliced ==
  ASSUME NEW h \in Seq(Symbols), NEW g, NEW m \in DOMAIN Marks, NEW a \in Nat \ {0}, NEW b \in Nat,
         a <= b, a <= Len(h) + 1, IsSpliced(g, h, a, b, m),
         NEW n \in DOMAIN Marks, NEW x \in DOMAIN g, Intact(g, n, x)
  PROVE  \/ n = m /\ x = a
         \/ x + 2 < a /\ x \in DOMAIN h /\ Intact(h, n, x)
         \/ x > a + 2 /\ x - (a + 2) + b \in DOMAIN h /\ Intact(h, n, x - (a + 2) + b)
<1>1. /\ g \in Seq(Symbols)
      /\ \A p \in 1 .. a - 1 : g[p] = h[p]
      /\ g[a] = "<" /\ g[a + 1] = Marks[m] /\ g[a + 2] = ">"
      /\ \A p \in 1 .. Len(g) : p > a + 2 => p - (a + 2) + b \in 1 .. Len(h) /\ g[p] = h[p - (a + 2) + b]
  BY Zenon DEF IsSpliced
<1>2. x + 2 <= Len(g) /\ g[x] = "<" /\ g[x + 1] = Marks[n] /\ g[x + 2] = ">"
  BY <1>1, IntactIs
<1>3. /\ Marks[n] # "<" /\ Marks[n] # ">" /\ Marks[m] # "<" /\ Marks[m] # ">" /\ "<" # ">"
      /\ Marks[m] = Marks[n] => m = n
  <2>1. Marks[n] # "<" /\ Marks[n] # ">" /\ Marks[m] # "<" /\ Marks[m] # ">" /\ "<" # ">"
    BY MarkFacts
  <2>2. Marks[m] = Marks[n] => m = n
    BY FootnoteConstants
  <2> QED
    BY <2>1, <2>2
<1>4. x \in Nat /\ x >= 1 /\ x <= Len(g) /\ Len(g) \in Nat /\ DOMAIN h = 1 .. Len(h) /\ Len(h) \in Nat
  BY <1>1
<1>5. x # a - 2 /\ x # a - 1 /\ x # a + 1 /\ x # a + 2
  <2>1. CASE x = a - 2
    <3>1. x + 2 = a
      BY <2>1
    <3> QED
      BY <1>1, <1>2, <1>3, <3>1
  <2>2. CASE x = a - 1
    <3>1. x + 1 = a
      BY <2>2
    <3> QED
      BY <1>1, <1>2, <1>3, <3>1
  <2>3. CASE x = a + 1
    BY <1>1, <1>2, <1>3, <2>3
  <2>4. CASE x = a + 2
    BY <1>1, <1>2, <1>3, <2>4
  <2> QED
    BY <2>1, <2>2, <2>3, <2>4
<1>6. CASE x = a
  BY <1>1, <1>2, <1>3, <1>6
<1>7. CASE x + 2 < a
  <2>1. x \in 1 .. a - 1 /\ x + 1 \in 1 .. a - 1 /\ x + 2 \in 1 .. a - 1
    BY <1>4, <1>7
  <2>2. h[x] = "<" /\ h[x + 1] = Marks[n] /\ h[x + 2] = ">"
    BY <1>1, <1>2, <2>1
  <2>3. x \in DOMAIN h /\ x + 2 <= Len(h)
    BY <1>4, <1>7
  <2>4. Intact(h, n, x)
    BY <2>2, <2>3, IntactIs
  <2> QED
    BY <1>7, <2>3, <2>4
<1>8. CASE x > a + 2
  <2> DEFINE y == x - (a + 2) + b
  <2>1. x \in 1 .. Len(g) /\ x + 1 \in 1 .. Len(g) /\ x + 2 \in 1 .. Len(g)
    BY <1>2, <1>4
  <2>2. x + 1 > a + 2 /\ x + 2 > a + 2
    BY <1>4, <1>8
  <2>2a. x + 1 - (a + 2) + b = y + 1 /\ x + 2 - (a + 2) + b = y + 2 /\ y \in Int
    BY <1>4
  <2> DEFINE u == x + 1
      v == x + 2
  <2> HIDE DEF y
  <2>3. x - (a + 2) + b \in 1 .. Len(h) /\ g[x] = h[x - (a + 2) + b]
    BY <1>1, <1>8, <2>1
  <2>4. u - (a + 2) + b \in 1 .. Len(h) /\ g[u] = h[u - (a + 2) + b]
    <3>1. u \in 1 .. Len(g) /\ u > a + 2
      BY <2>1, <2>2
    <3> HIDE DEF u
    <3> QED
      BY <1>1, <3>1
  <2>5. v - (a + 2) + b \in 1 .. Len(h) /\ g[v] = h[v - (a + 2) + b]
    <3>1. v \in 1 .. Len(g) /\ v > a + 2
      BY <2>1, <2>2
    <3> HIDE DEF v
    <3> QED
      BY <1>1, <3>1
  <2>6. /\ y \in DOMAIN h /\ y + 2 \in 1 .. Len(h)
        /\ h[y] = "<" /\ h[y + 1] = Marks[n] /\ h[y + 2] = ">"
    <3>1. y \in 1 .. Len(h) /\ h[y] = g[x]
      BY <2>3 DEF y
    <3>2. y + 1 \in 1 .. Len(h) /\ h[y + 1] = g[x + 1]
      <4>1. u - (a + 2) + b = y + 1 /\ x + 1 = u
        BY <1>4, <2>2a
      <4> HIDE DEF u
      <4> QED
        BY <2>4, <4>1
    <3>3. y + 2 \in 1 .. Len(h) /\ h[y + 2] = g[x + 2]
      <4>1. v - (a + 2) + b = y + 2 /\ x + 2 = v
        BY <1>4, <2>2a
      <4> HIDE DEF v
      <4> QED
        BY <2>5, <4>1
    <3> QED
      BY <1>2, <1>4, <3>1, <3>2, <3>3
  <2>7. y + 2 <= Len(h)
    BY <1>4, <2>6
  <2>8. Intact(h, n, y)
    BY <2>6, <2>7, IntactIs
  <2> QED
    BY <1>8, <2>6, <2>8 DEF y
<1>9. x = a \/ x + 2 < a \/ x > a + 2
  BY <1>4, <1>5
<1> QED
  BY <1>6, <1>7, <1>8, <1>9

(* No part of a tag from a to b. *)
Untagged(h, a, b) == \A p \in a .. b : ~InTag(h, p)

(* If only text gives way, all tags stay. *)
LEMMA TagsStay ==
  ASSUME NEW h \in Seq(Symbols), NEW g, NEW m \in DOMAIN Marks, NEW a \in Nat \ {0}, NEW b \in Nat,
         a <= b, b <= Len(h), IsSpliced(g, h, a, b, m), Untagged(h, a, b),
         NEW n \in DOMAIN Marks, NEW x \in DOMAIN h, Intact(h, n, x)
  PROVE  \E y \in DOMAIN g : Intact(g, n, y)
<1>1. /\ g \in Seq(Symbols)
      /\ Len(g) = (a + 2) + (IF b <= Len(h) THEN Len(h) - b ELSE 0)
      /\ \A p \in 1 .. a - 1 : g[p] = h[p]
      /\ \A p \in 1 .. Len(g) : p > a + 2 => p - (a + 2) + b \in 1 .. Len(h) /\ g[p] = h[p - (a + 2) + b]
  BY Zenon DEF IsSpliced
<1>2. x + 2 <= Len(h) /\ h[x] = "<" /\ h[x + 1] = Marks[n] /\ h[x + 2] = ">"
  BY IntactIs
<1>3. Marks[n] # ">" /\ "<" # ">"
  BY MarkFacts
<1>4. x \in Nat /\ x >= 1 /\ Len(h) \in Nat /\ Len(g) = (a + 2) + (Len(h) - b) /\ Len(g) \in Nat
  BY <1>1
<1>5. \A p \in x .. x + 2 : InTag(h, p)
  <2> SUFFICES ASSUME NEW p \in x .. x + 2 PROVE InTag(h, p)
    OBVIOUS
  <2>1. p = x \/ p = x + 1 \/ p = x + 2
    BY <1>4
  <2>2. x \in 1 .. p
    BY <1>4
  <2>3. \A r \in x .. p - 1 : r = x \/ r = x + 1
    BY <1>4, <2>1
  <2>4. \A r \in x .. p - 1 : h[r] # ">"
    BY <1>2, <1>3, <2>3
  <2> QED
    BY <1>2, <2>2, <2>4 DEF InTag
<1>6. \A p \in x .. x + 2 : ~(a <= p /\ p <= b)
  <2> SUFFICES ASSUME NEW p \in x .. x + 2, a <= p, p <= b PROVE FALSE
    OBVIOUS
  <2>1. p \in a .. b
    BY <1>4
  <2> QED
    BY <1>5, <2>1 DEF Untagged
<1>7. x + 2 < a \/ x > b
  <2>1. x \in x .. x + 2 /\ x + 1 \in x .. x + 2 /\ x + 2 \in x .. x + 2
    BY <1>4
  <2>2. ~(a <= x /\ x <= b) /\ ~(a <= x + 1 /\ x + 1 <= b) /\ ~(a <= x + 2 /\ x + 2 <= b)
    BY <1>6, <2>1
  <2> QED
    BY <1>4, <2>2
<1>8. CASE x + 2 < a
  <2>1. x \in 1 .. a - 1 /\ x + 1 \in 1 .. a - 1 /\ x + 2 \in 1 .. a - 1
    BY <1>4, <1>8
  <2>2. g[x] = "<" /\ g[x + 1] = Marks[n] /\ g[x + 2] = ">"
    BY <1>1, <1>2, <2>1
  <2>3. x \in DOMAIN g /\ x + 2 <= Len(g)
    BY <1>1, <1>4, <1>8
  <2>4. Intact(g, n, x)
    BY <1>1, <2>2, <2>3, IntactIs
  <2> QED
    BY <2>3, <2>4
<1>9. CASE x > b
  <2> DEFINE y == x - b + (a + 2)
  <2>1. y \in 1 .. Len(g) /\ y + 1 \in 1 .. Len(g) /\ y + 2 \in 1 .. Len(g)
        /\ y > a + 2 /\ y + 1 > a + 2 /\ y + 2 > a + 2
    BY SMTT(30), <1>2, <1>4, <1>9
  <2>2. y - (a + 2) + b = x /\ y + 1 - (a + 2) + b = x + 1 /\ y + 2 - (a + 2) + b = x + 2
    BY <1>4
  <2> HIDE DEF y
  <2>3. g[y] = h[y - (a + 2) + b] /\ g[y + 1] = h[y + 1 - (a + 2) + b] /\ g[y + 2] = h[y + 2 - (a + 2) + b]
    BY <1>1, <2>1
  <2>4. g[y] = "<" /\ g[y + 1] = Marks[n] /\ g[y + 2] = ">"
    BY <1>2, <2>2, <2>3
  <2>5. y \in DOMAIN g /\ y + 2 <= Len(g)
    BY <1>1, <2>1
  <2>6. Intact(g, n, y)
    BY <1>1, <2>4, <2>5, IntactIs
  <2> QED
    BY <2>5, <2>6
<1> QED
  BY <1>7, <1>8, <1>9

(* Tag or text: as before, and the new tag is one. *)
LEMMA TaggedAfter ==
  ASSUME NEW h \in Seq(Symbols), NEW g, NEW m \in DOMAIN Marks, NEW a \in Nat \ {0}, NEW b \in Nat,
         a <= b, b <= Len(h), IsSpliced(g, h, a, b, m), Untagged(h, a, b), NEW p \in 1 .. Len(g)
  PROVE  /\ p < a => (InTag(g, p) <=> InTag(h, p))
         /\ a <= p /\ p <= a + 2 => InTag(g, p)
         /\ p > a + 2 => (InTag(g, p) <=> InTag(h, p - (a + 2) + b))
<1>1. /\ g \in Seq(Symbols)
      /\ Len(g) = (a + 2) + (IF b <= Len(h) THEN Len(h) - b ELSE 0)
      /\ \A q \in 1 .. a - 1 : g[q] = h[q]
      /\ g[a] = "<" /\ g[a + 1] = Marks[m] /\ g[a + 2] = ">"
      /\ \A q \in 1 .. Len(g) : q > a + 2 => q - (a + 2) + b \in 1 .. Len(h) /\ g[q] = h[q - (a + 2) + b]
  BY Zenon DEF IsSpliced
<1>2. Marks[m] # ">" /\ "<" # ">"
  BY MarkFacts
<1>3. p \in Nat /\ p >= 1 /\ Len(h) \in Nat /\ Len(g) = (a + 2) + (Len(h) - b) /\ Len(g) \in Nat /\ p <= Len(g)
  BY <1>1
<1>4. ASSUME p < a PROVE InTag(g, p) <=> InTag(h, p)
  <2>1. \A q \in 1 .. p : g[q] = h[q]
    BY <1>1, <1>3, <1>4
  <2>2. \A q \in 1 .. p : \A r \in q .. p - 1 : r \in 1 .. p
    BY <1>3
  <2> QED
    BY <2>1, <2>2 DEF InTag
<1>5. ASSUME a <= p, p <= a + 2 PROVE InTag(g, p)
  <2>1. a \in 1 .. p
    BY <1>3, <1>5
  <2>2. \A r \in a .. p - 1 : r = a \/ r = a + 1
    BY <1>3, <1>5
  <2>3. \A r \in a .. p - 1 : g[r] # ">"
    BY <1>1, <1>2, <2>2
  <2> QED
    BY <1>1, <2>1, <2>3 DEF InTag
<1>6. ASSUME p > a + 2 PROVE InTag(g, p) <=> InTag(h, p - (a + 2) + b)
  <2> DEFINE s == p - (a + 2) + b
  <2>1. s \in 1 .. Len(h) /\ s > b /\ s \in Nat
    BY <1>3, <1>6
  <2>2. ASSUME InTag(g, p) PROVE InTag(h, s)
    <3>1. PICK q \in 1 .. p : g[q] = "<" /\ \A r \in q .. p - 1 : g[r] # ">"
      BY <2>2 DEF InTag
    <3>2. q > a + 2
      <4> SUFFICES ASSUME q <= a + 2 PROVE FALSE
        BY <1>3
      <4>1. q # a + 2
        BY <1>1, <1>2, <3>1
      <4>2. a + 2 \in q .. p - 1
        BY <1>3, <1>6, <4>1
      <4> QED
        BY <1>1, <3>1, <4>2
    <3> DEFINE u == q - (a + 2) + b
    <3>3. q \in 1 .. Len(g) /\ u \in 1 .. s
      BY <1>3, <3>2
    <3>4. h[u] = "<"
      BY <1>1, <3>1, <3>2, <3>3
    <3>5. ASSUME NEW r \in u .. s - 1 PROVE h[r] # ">"
      <4> DEFINE t == r - b + (a + 2)
      <4>1. t \in q .. p - 1 /\ t \in 1 .. Len(g) /\ t > a + 2 /\ t - (a + 2) + b = r
        BY <1>3, <3>2
      <4> HIDE DEF t
      <4>2. g[t] = h[t - (a + 2) + b]
        BY <1>1, <4>1
      <4> QED
        BY <3>1, <4>1, <4>2
    <3> HIDE DEF u, s
    <3> QED
      BY <3>3, <3>4, <3>5 DEF InTag
  <2>3. ASSUME InTag(h, s) PROVE InTag(g, p)
    <3>1. PICK q \in 1 .. s : h[q] = "<" /\ \A r \in q .. s - 1 : h[r] # ">"
      BY <2>3 DEF InTag
    <3>2. q > b
      <4> SUFFICES ASSUME q <= b PROVE FALSE
        BY <2>1
      <4>1. CASE q < a
        <5>1. q \in 1 .. a
          BY <4>1
        <5>2. \A r \in q .. a - 1 : r \in q .. s - 1
          BY <2>1, <4>1
        <5>3. InTag(h, a)
          BY <3>1, <5>1, <5>2 DEF InTag
        <5>4. a \in a .. b
          OBVIOUS
        <5> QED
          BY <5>3, <5>4 DEF Untagged
      <4>2. CASE ~(q < a)
        <5>1. q \in a .. b /\ q \in 1 .. q /\ \A r \in q .. q - 1 : FALSE
          BY <4>2
        <5>2. InTag(h, q)
          BY <3>1, <5>1 DEF InTag
        <5> QED
          BY <5>1, <5>2 DEF Untagged
      <4> QED
        BY <4>1, <4>2
    <3> DEFINE u == q - b + (a + 2)
    <3>3. u \in 1 .. p /\ u \in 1 .. Len(g) /\ u > a + 2 /\ u - (a + 2) + b = q
      BY <1>3, <2>1, <3>2
    <3> HIDE DEF u
    <3>4. g[u] = h[u - (a + 2) + b]
      BY <1>1, <3>3
    <3>5. ASSUME NEW r \in u .. p - 1 PROVE g[r] # ">"
      <4>1. r \in 1 .. Len(g) /\ r > a + 2 /\ r - (a + 2) + b \in q .. s - 1
        BY <1>3, <2>1, <3>3
      <4>2. g[r] = h[r - (a + 2) + b]
        BY <1>1, <4>1
      <4> QED
        BY <3>1, <4>1, <4>2
    <3>6. g[u] = "<"
      BY <3>1, <3>3, <3>4
    <3> QED
      BY <3>3, <3>5, <3>6 DEF InTag
  <2> QED
    BY <2>2, <2>3
<1> QED
  BY <1>4, <1>5, <1>6

(* -- What is found. -- *)
(* All matches begin at first at the earliest. *)
Matched(x, h, first, last, digits) ==
  \E p \in first .. last : \E e \in MatchEnds(h, p, last, digits) : x = <<p, e>>

(* What finditer returns are matches, and there is one if any place matches. *)
LEMMA FindAllIs ==
  ASSUME NEW h, NEW first \in Nat \ {0}, NEW last \in Nat, NEW digits
  PROVE  /\ \A x \in FindAll(h, first, last, digits) : Matched(x, h, first, last, digits)
         /\ \A p \in first .. last : MatchEnds(h, p, last, digits) # {} => FindAll(h, first, last, digits) # {}
<1> DEFINE X == SUBSET (Nat \X Nat)
    New(before, p) == {<<p, e>> : e \in IF \E m \in before : p <= m[2] THEN {}
                                        ELSE MatchEnds(h, p, last, digits)}
    Then(g, p) == IF p < first THEN {} ELSE g[p - 1] \cup New(g[p - 1], p)
    T == [w \in X \X (1 .. last) |-> IF w[2] < first THEN {} ELSE w[1] \cup New(w[1], w[2])]
    Solves(g) == g = [p \in 0 .. last |-> Then(g, p)]
    none == {}
<1>1. \A p \in 1 .. last : \A e \in MatchEnds(h, p, last, digits) : e \in p .. last /\ e \in Nat /\ p \in Nat
  BY DEF MatchEnds
<1>2. none \in X
  OBVIOUS
<1>3. StaysIn(T, X, last)
  <2>1. ASSUME NEW before \in X, NEW p \in 1 .. last PROVE New(before, p) \in X
    BY <1>1
  <2>2. ASSUME NEW w \in X \X (1 .. last)
        PROVE  (IF w[2] < first THEN {} ELSE w[1] \cup New(w[1], w[2])) \in X
    <3>1. w[1] \in X /\ w[2] \in 1 .. last
      OBVIOUS
    <3>2. New(w[1], w[2]) \in X
      BY <2>1, <3>1
    <3> HIDE DEF New
    <3> QED
      BY <3>1, <3>2
  <2> HIDE DEF X, New
  <2> QED
    BY <2>2 DEF StaysIn
<1>4. PICK f \in [0 .. last -> X] : f[0] = none /\ \A n \in 1 .. last : f[n] = T[<<f[n - 1], n>>]
  <2> HIDE DEF X, T, none
  <2> QED
    BY <1>2, <1>3, Iterated
<1> HIDE DEF none
<1>5. ASSUME NEW n \in 1 .. last
      PROVE  f[n] = IF n < first THEN {} ELSE f[n - 1] \cup New(f[n - 1], n)
  <2>1. f[n - 1] \in X
    <3>1. n - 1 \in 0 .. last
      OBVIOUS
    <3> HIDE DEF X
    <3> QED
      BY <3>1
  <2>2. T[<<f[n - 1], n>>] = IF n < first THEN {} ELSE f[n - 1] \cup New(f[n - 1], n)
    <3> HIDE DEF X, New
    <3> QED
      BY <2>1
  <2> QED
    BY <1>4, <2>2, Zenon
<1> HIDE DEF New
<1>6. Solves(f)
  <2>1. f = [n \in 0 .. last |-> f[n]]
    <3> HIDE DEF X
    <3> QED
      OBVIOUS
  <2>2. ASSUME NEW n \in 0 .. last PROVE f[n] = Then(f, n)
    <3>1. CASE n = 0
      <4>1. 0 < first
        OBVIOUS
      <4> QED
        BY <1>4, <3>1, <4>1 DEF none
    <3>2. CASE n # 0
      <4>1. n \in 1 .. last
        BY <3>2
      <4> QED
        BY <1>5, <4>1
    <3> QED
      BY <3>1, <3>2
  <2> HIDE DEF Then
  <2> QED
    BY <2>1, <2>2
<1> DEFINE g == CHOOSE g : Solves(g)
<1>7. Solves(g)
  <2> HIDE DEF Solves
  <2> QED
    BY <1>6
<1>8. FindAll(h, first, last, digits) = g[last]
  BY Zenon DEF FindAll, New
<1> HIDE DEF g
<1>9. \A n \in 0 .. last : g[n] = Then(g, n)
  <2> HIDE DEF Then
  <2> QED
    BY <1>7
<1>9a. \A n \in 0 .. last : n < first => g[n] = {}
  <2> SUFFICES ASSUME NEW n \in 0 .. last, n < first PROVE g[n] = {}
    OBVIOUS
  <2>1. g[n] = Then(g, n)
    BY <1>9
  <2>2. Then(g, n) = {}
    OBVIOUS
  <2> QED
    BY <2>1, <2>2
<1>9b. \A n \in 0 .. last : ~(n < first) => g[n] = g[n - 1] \cup New(g[n - 1], n)
  <2> SUFFICES ASSUME NEW n \in 0 .. last, ~(n < first) PROVE g[n] = g[n - 1] \cup New(g[n - 1], n)
    OBVIOUS
  <2>1. g[n] = Then(g, n)
    BY <1>9
  <2>2. Then(g, n) = g[n - 1] \cup New(g[n - 1], n)
    OBVIOUS
  <2> QED
    BY <2>1, <2>2
<1> HIDE DEF Then, T, X, Solves
<1> DEFINE Fine(n) == /\ \A x \in g[n] : Matched(x, h, first, last, digits)
                      /\ \A p \in first .. n : MatchEnds(h, p, last, digits) # {} => g[n] # {}
    P == {n \in 0 .. last : Fine(n)}
<1>10. 0 \in P
  <2>1. 0 \in 0 .. last /\ 0 < first
    OBVIOUS
  <2>2. g[0] = {} /\ first > 0
    BY <1>9a, <2>1
  <2> QED
    BY <2>1, <2>2
<1>11. ASSUME NEW n \in 1 .. last, n - 1 \in P PROVE n \in P
  <2>1. CASE n < first
    <3>1. g[n] = {}
      BY <1>9a, <2>1
    <3> QED
      BY <2>1, <3>1
  <2>2. CASE ~(n < first)
    <3>1. n - 1 \in 0 .. last /\ n \in 0 .. last /\ n \in first .. last
      BY <2>2
    <3>2. g[n] = g[n - 1] \cup New(g[n - 1], n)
      BY <1>9b, <2>2
    <3>3. ASSUME NEW x \in g[n] PROVE Matched(x, h, first, last, digits)
      <4>1. CASE x \in g[n - 1]
        BY <1>11, <4>1
      <4>2. CASE x \in New(g[n - 1], n)
        <5>1. \E e \in MatchEnds(h, n, last, digits) : x = <<n, e>>
          BY <4>2 DEF New
        <5> QED
          BY <3>1, <5>1 DEF Matched
      <4> QED
        BY <3>2, <4>1, <4>2
    <3>4. ASSUME NEW p \in first .. n, MatchEnds(h, p, last, digits) # {} PROVE g[n] # {}
      <4>1. CASE p = n
        <5>1. PICK e : e \in MatchEnds(h, n, last, digits)
          BY <3>4, <4>1
        <5>2. \/ \E m \in g[n - 1] : n <= m[2]
              \/ <<n, e>> \in New(g[n - 1], n)
          BY <5>1 DEF New
        <5> QED
          BY <3>2, <5>2
      <4>2. CASE p # n
        <5>1. p \in first .. n - 1
          BY <4>2
        <5>2. g[n - 1] # {}
          BY <1>11, <3>4, <5>1
        <5> QED
          BY <3>2, <5>2
      <4> QED
        BY <4>1, <4>2
    <3> QED
      BY <3>1, <3>3, <3>4
  <2> QED
    BY <2>1, <2>2
<1>12. \A n \in 0 .. last : n \in P
  <2> HIDE DEF P
  <2> QED
    BY <1>10, <1>11, UpTo
<1> QED
  BY <1>8, <1>12

(* A match in the text, at most the end behind it. *)
Loose(h, p, e, digits) ==
  /\ p \in 1 .. Len(h) /\ e \in p .. Len(h)
  /\ Untagged(h, p, e)
  /\ ReadsAs(SubSeq(h, p, e), digits)
  /\ e < Len(h) => h[e + 1] \notin Digits /\ h[e + 1] # "<"

(* The text node around some text. *)
LEMMA NodeAround ==
  ASSUME NEW h \in Seq(Symbols), NEW p \in 1 .. Len(h), NEW e \in p .. Len(h), Untagged(h, p, e)
  PROVE  \E s \in TextNodes(h) : s[1] <= p /\ e <= s[2]
<1> DEFINE L == Len(h)
    From == {x \in 1 .. p : Untagged(h, x, p)}
    To == {x \in 0 .. L : e + x <= L /\ Untagged(h, e, e + x)}
    Tail_ == {L - x : x \in To}
<1>1. L \in Nat /\ p \in Nat /\ e \in Nat /\ 1 <= p /\ p <= e /\ e <= L /\ DOMAIN h = 1 .. L
  OBVIOUS
<1> HIDE DEF L
<1>2. p \in From
  <2>1. \A q \in p .. p : q \in p .. e
    BY <1>1
  <2> QED
    BY <1>1, <2>1 DEF Untagged
<1>3. PICK a \in From : \A x \in From : a <= x
  <2>1. From \subseteq Nat /\ From # {}
    BY <1>2
  <2> HIDE DEF From
  <2> QED
    BY <2>1, LeastNat
<1>4. PICK c \in Tail_ : \A x \in Tail_ : c <= x
  <2>1. 0 \in To
    <3>1. \A q \in e .. e + 0 : q \in p .. e
      BY <1>1
    <3> QED
      BY <1>1, <3>1 DEF Untagged
  <2>2. Tail_ \subseteq Nat
    BY <1>1
  <2>3. Tail_ # {}
    BY <2>1
  <2> HIDE DEF Tail_
  <2> QED
    BY <2>2, <2>3, LeastNat
<1>5. PICK d \in To : c = L - d
  BY <1>4
<1>6. \A x \in To : x <= d
  <2> SUFFICES ASSUME NEW x \in To PROVE x <= d
    OBVIOUS
  <2>1. c <= L - x
    BY <1>4
  <2> QED
    BY <1>1, <1>5, <2>1
<1>7. /\ a \in 1 .. p /\ Untagged(h, a, p) /\ d \in Nat /\ e + d <= L /\ Untagged(h, e, e + d)
  BY <1>1, <1>3, <1>5
<1> DEFINE b == e + d
<1>8. \A q \in a .. b : ~InTag(h, q)
  <2> SUFFICES ASSUME NEW q \in a .. b PROVE ~InTag(h, q)
    OBVIOUS
  <2>1. q \in a .. p \/ q \in p .. e \/ q \in e .. b
    BY <1>1, <1>7
  <2> QED
    BY <1>7, <2>1 DEF Untagged
<1>9. a = 1 \/ InTag(h, a - 1)
  <2> SUFFICES ASSUME a # 1, ~InTag(h, a - 1) PROVE FALSE
    OBVIOUS
  <2>1. a - 1 \in 1 .. p /\ a - 1 < a
    BY <1>7, <1>1
  <2>2. \A q \in a - 1 .. p : q = a - 1 \/ q \in a .. p
    BY <1>7, <1>1
  <2>3. Untagged(h, a - 1, p)
    BY <1>7, <2>2 DEF Untagged
  <2>4. a - 1 \in From
    BY <2>1, <2>3
  <2>5. a <= a - 1
    BY <1>3, <2>4
  <2> QED
    BY <1>7, <2>5
<1>10. b = L \/ InTag(h, b + 1)
  <2> SUFFICES ASSUME b # L, ~InTag(h, b + 1) PROVE FALSE
    OBVIOUS
  <2>1. d + 1 \in 0 .. L /\ e + (d + 1) <= L
    BY <1>7, <1>1
  <2>2. \A q \in e .. e + (d + 1) : q = b + 1 \/ q \in e .. b
    BY <1>7, <1>1
  <2>3. Untagged(h, e, e + (d + 1))
    BY <1>7, <2>2 DEF Untagged
  <2>4. d + 1 \in To
    BY <2>1, <2>3
  <2>5. d + 1 <= d
    BY <1>6, <2>4
  <2> QED
    BY <1>7, <2>5
<1>11. a \in DOMAIN h /\ b \in DOMAIN h /\ a <= b /\ a <= p /\ e <= b
  BY <1>1, <1>7
<1> HIDE DEF b
<1> DEFINE s == <<a, b>>
<1>12. s[1] = a /\ s[2] = b /\ s \in (DOMAIN h) \X (DOMAIN h)
  BY <1>11
<1> HIDE DEF s
<1>13. s \in TextNodes(h)
  BY <1>8, <1>9, <1>10, <1>11, <1>12 DEF TextNodes, L
<1> QED
  BY <1>11, <1>12, <1>13

(* What is found is a match in the text, unless a tag follows; and if there *)
(* is a match, something is found.                                          *)
LEMMA SpotIs ==
  ASSUME NEW h \in Seq(Symbols), NEW digits, NEW x \in Spots(h, digits)
  PROVE  \E p \in 1 .. Len(h) : \E e \in p .. Len(h) :
           /\ x[2] = <<p, e>> /\ Untagged(h, p, e)
           /\ Loose(h, p, e, digits) \/ (e < Len(h) /\ h[e + 1] = "<")
<1>1. Len(h) \in Nat /\ DOMAIN h = 1 .. Len(h)
  OBVIOUS
<1>2. PICK s \in TextNodes(h) : \E m \in FindAll(h, s[1], s[2], digits) : x = <<s, m>>
  BY DEF Spots
<1>3. PICK m \in FindAll(h, s[1], s[2], digits) : x = <<s, m>>
  BY <1>2
<1> DEFINE a == s[1]
    b == s[2]
<1>4. /\ a \in 1 .. Len(h) /\ b \in 1 .. Len(h) /\ a <= b
      /\ \A q \in a .. b : ~InTag(h, q)
      /\ b = Len(h) \/ InTag(h, b + 1)
      /\ a \in Nat /\ b \in Nat /\ 1 <= a /\ b <= Len(h)
  BY <1>1 DEF TextNodes
<1>5. Matched(m, h, a, b, digits)
  <2>1. a \in Nat \ {0} /\ b \in Nat
    BY <1>4
  <2>2. m \in FindAll(h, a, b, digits)
    OBVIOUS
  <2> HIDE DEF a, b
  <2> QED
    BY <2>1, <2>2, FindAllIs
<1> HIDE DEF a, b
<1>6. PICK p \in a .. b : \E e \in MatchEnds(h, p, b, digits) : m = <<p, e>>
  BY <1>5 DEF Matched
<1>7. PICK e \in MatchEnds(h, p, b, digits) : m = <<p, e>>
  BY <1>6
<1>8. e \in p .. b /\ ReadsAs(SubSeq(h, p, e), digits) /\ (e < b => h[e + 1] \notin Digits)
  BY <1>7 DEF MatchEnds
<1>9. /\ p \in Nat /\ e \in Nat /\ a <= p /\ p <= e /\ e <= b
      /\ p \in 1 .. Len(h) /\ e \in p .. Len(h) /\ \A q \in p .. e : q \in a .. b
  <2>1. p \in a .. b /\ e \in p .. b /\ a \in Nat /\ b \in Nat /\ 1 <= a /\ b <= Len(h) /\ Len(h) \in Nat
    BY <1>1, <1>4, <1>8
  <2>2. p \in Nat /\ e \in Nat /\ a <= p /\ p <= e /\ e <= b
    BY <2>1
  <2> QED
    BY <2>1, <2>2
<1>10. Untagged(h, p, e)
  BY <1>4, <1>9 DEF Untagged
<1>11. x[2] = <<p, e>>
  BY <1>3, <1>7
<1>12. CASE e < b
  <2>1. e + 1 \in a .. b /\ e + 1 \in 1 .. e + 1
    BY <1>4, <1>9, <1>12
  <2>2. ~InTag(h, e + 1)
    BY <1>4, <2>1
  <2>3. \A r \in e + 1 .. e + 1 - 1 : FALSE
    BY <1>9
  <2>4. h[e + 1] # "<"
    BY <2>1, <2>2, <2>3 DEF InTag
  <2>5. Loose(h, p, e, digits)
    BY <1>8, <1>9, <1>10, <1>12, <2>4 DEF Loose
  <2> QED
    BY <1>9, <1>10, <1>11, <2>5
<1>13. CASE ~(e < b)
  <2>1. e = b
    BY <1>4, <1>9, <1>13
  <2>2. CASE b = Len(h)
    <3>1. ~(e < Len(h))
      BY <1>1, <2>1, <2>2
    <3>2. Loose(h, p, e, digits)
      BY <1>8, <1>9, <1>10, <3>1 DEF Loose
    <3> QED
      BY <1>9, <1>10, <1>11, <3>2
  <2>3. CASE InTag(h, b + 1) /\ b # Len(h)
    <3>1. PICK q \in 1 .. b + 1 : h[q] = "<" /\ \A r \in q .. (b + 1) - 1 : h[r] # ">"
      <4>1. InTag(h, b + 1)
        BY <2>3
      <4> QED
        BY <4>1 DEF InTag
    <3>2. CASE q = b + 1
      <4>1. e < Len(h) /\ h[e + 1] = "<"
        BY <1>4, <2>1, <2>3, <3>1, <3>2
      <4> QED
        BY <1>9, <1>10, <1>11, <4>1
    <3>3. CASE q # b + 1
      <4>1. q \in 1 .. b /\ \A r \in q .. b - 1 : r \in q .. (b + 1) - 1
        BY <1>4, <3>3
      <4>2. InTag(h, b)
        BY <3>1, <4>1 DEF InTag
      <4>3. b \in a .. b
        BY <1>4
      <4> QED
        BY <1>4, <4>2, <4>3
    <3> QED
      BY <3>2, <3>3
  <2> QED
    BY <1>4, <2>2, <2>3
<1> QED
  BY <1>12, <1>13

(* A match in the text is in some text node, so something is found there. *)
LEMMA LooseFound ==
  ASSUME NEW h \in Seq(Symbols), NEW digits, NEW p, NEW e, Loose(h, p, e, digits)
  PROVE  Spots(h, digits) # {}
<1>1. /\ p \in 1 .. Len(h) /\ e \in p .. Len(h) /\ Untagged(h, p, e) /\ ReadsAs(SubSeq(h, p, e), digits)
      /\ e < Len(h) => h[e + 1] \notin Digits
  BY DEF Loose
<1>2. PICK s \in TextNodes(h) : s[1] <= p /\ e <= s[2]
  BY <1>1, NodeAround
<1> DEFINE a == s[1]
    b == s[2]
<1>3. Len(h) \in Nat /\ DOMAIN h = 1 .. Len(h)
  OBVIOUS
<1>4. a \in 1 .. Len(h) /\ b \in 1 .. Len(h) /\ a <= p /\ e <= b
  BY <1>2, <1>3 DEF TextNodes
<1> HIDE DEF a, b
<1>5. e \in p .. b /\ (e < b => e < Len(h)) /\ p \in a .. b /\ a \in Nat \ {0} /\ b \in Nat
  BY <1>1, <1>3, <1>4
<1>6. e \in MatchEnds(h, p, b, digits)
  BY <1>1, <1>5 DEF MatchEnds
<1>7. FindAll(h, a, b, digits) # {}
  <2>1. MatchEnds(h, p, b, digits) # {}
    BY <1>6
  <2> QED
    BY <1>5, <2>1, FindAllIs
<1>8. PICK m : m \in FindAll(h, s[1], s[2], digits)
  BY <1>7 DEF a, b
<1>9. <<s, m>> \in Spots(h, digits)
  BY <1>8 DEF Spots
<1> QED
  BY <1>9

(* Equal symbols are equal texts. *)
LEMMA Shifted ==
  ASSUME NEW h \in Seq(Symbols), NEW g \in Seq(Symbols), NEW p \in 1 .. Len(g), NEW e \in p .. Len(g),
         NEW q \in 1 .. Len(h), NEW f \in q .. Len(h), f - q = e - p,
         \A k \in 0 .. e - p : g[p + k] = h[q + k]
  PROVE  SubSeq(g, p, e) = SubSeq(h, q, f)
<1> DEFINE L == e - p + 1
    x == SubSeq(g, p, e)
    y == SubSeq(h, q, f)
<1>1. Len(g) \in Nat /\ Len(h) \in Nat /\ p \in Nat /\ e \in Nat /\ q \in Nat /\ f \in Nat /\ L \in Nat
      /\ f - q + 1 = L /\ p <= e /\ q <= f
  OBVIOUS
<1> HIDE DEF Symbols
<1>2. x = [k \in 1 .. L |-> g[p + k - 1]]
  OBVIOUS
<1>3. y = [k \in 1 .. f - q + 1 |-> h[q + k - 1]]
  OBVIOUS
<1>4. \A k \in 1 .. L : g[p + k - 1] = h[q + k - 1]
  <2> SUFFICES ASSUME NEW k \in 1 .. L PROVE g[p + k - 1] = h[q + k - 1]
    OBVIOUS
  <2> DEFINE j == k - 1
  <2>1. j \in 0 .. e - p /\ p + k - 1 = p + j /\ q + k - 1 = q + j
    BY <1>1
  <2> HIDE DEF j
  <2> QED
    BY <2>1
<1> HIDE DEF L
<1>5. [k \in 1 .. L |-> g[p + k - 1]] = [k \in 1 .. L |-> h[q + k - 1]]
  BY <1>4
<1> QED
  BY <1>1, <1>2, <1>3, <1>5

(* No match comes up but before a tag. *)
LEMMA LooseBefore ==
  ASSUME NEW h \in Seq(Symbols), NEW g, NEW m \in DOMAIN Marks, NEW a \in Nat \ {0}, NEW b \in Nat,
         a <= b, b <= Len(h), IsSpliced(g, h, a, b, m), Untagged(h, a, b),
         NEW digits, NEW p, NEW e, Loose(g, p, e, digits)
  PROVE  \E q, f : Loose(h, q, f, digits)
<1>1. /\ g \in Seq(Symbols)
      /\ Len(g) = (a + 2) + (IF b <= Len(h) THEN Len(h) - b ELSE 0)
      /\ \A x \in 1 .. a - 1 : g[x] = h[x]
      /\ g[a] = "<" /\ g[a + 1] = Marks[m] /\ g[a + 2] = ">"
      /\ \A x \in 1 .. Len(g) : x > a + 2 => x - (a + 2) + b \in 1 .. Len(h) /\ g[x] = h[x - (a + 2) + b]
  BY Zenon DEF IsSpliced
<1>2. /\ p \in 1 .. Len(g) /\ e \in p .. Len(g) /\ Untagged(g, p, e) /\ ReadsAs(SubSeq(g, p, e), digits)
      /\ e < Len(g) => g[e + 1] \notin Digits /\ g[e + 1] # "<"
  BY DEF Loose
<1>3. Len(g) = (a + 2) + (Len(h) - b) /\ Len(g) \in Nat /\ Len(h) \in Nat
      /\ p \in Nat /\ e \in Nat /\ 1 <= p /\ p <= e /\ e <= Len(g)
  BY <1>1, <1>2
<1>4. \A x \in 1 .. Len(g) : /\ x < a => (InTag(g, x) <=> InTag(h, x))
                             /\ a <= x /\ x <= a + 2 => InTag(g, x)
                             /\ x > a + 2 => (InTag(g, x) <=> InTag(h, x - (a + 2) + b))
  BY TaggedAfter
<1>5. e < a \/ p > a + 2
  <2> SUFFICES ASSUME e >= a, p <= a + 2 PROVE FALSE
    BY <1>3
  <2> DEFINE x == IF p <= a THEN a ELSE p
  <2>1. x \in p .. e /\ x \in 1 .. Len(g) /\ a <= x /\ x <= a + 2
    BY <1>3
  <2> HIDE DEF x
  <2> QED
    BY <1>2, <1>4, <2>1 DEF Untagged
<1>6. CASE e < a
  <2>1. p \in 1 .. Len(h) /\ e \in p .. Len(h)
    BY <1>3, <1>6
  <2>2. Untagged(h, p, e)
    <3>1. ASSUME NEW x \in p .. e PROVE ~InTag(h, x)
      <4>1. x \in 1 .. Len(g) /\ x < a
        BY <1>3, <1>6
      <4> QED
        BY <1>2, <1>4, <4>1 DEF Untagged
    <3> QED
      BY <3>1 DEF Untagged
  <2>3. SubSeq(g, p, e) = SubSeq(h, p, e)
    <3>1. \A k \in 0 .. e - p : g[p + k] = h[p + k]
      <4> SUFFICES ASSUME NEW k \in 0 .. e - p PROVE g[p + k] = h[p + k]
        OBVIOUS
      <4>1. p + k \in 1 .. a - 1
        BY <1>3, <1>6
      <4> QED
        BY <1>1, <4>1
    <3>2. e - p = e - p /\ p \in 1 .. Len(g) /\ e \in p .. Len(g) /\ g \in Seq(Symbols)
      BY <1>1, <1>2
    <3> QED
      BY <2>1, <3>1, <3>2, Shifted
  <2>4. h[e + 1] \notin Digits /\ h[e + 1] # "<"
    <3>1. e < Len(g)
      BY <1>3, <1>6
    <3>2. e + 1 # a
      BY <1>1, <1>2, <3>1
    <3>3. e + 1 \in 1 .. a - 1
      BY <1>3, <1>6, <3>2
    <3>4. g[e + 1] = h[e + 1]
      BY <1>1, <3>3
    <3> QED
      BY <1>2, <3>1, <3>4
  <2>5. Loose(h, p, e, digits)
    BY <1>2, <2>1, <2>2, <2>3, <2>4 DEF Loose
  <2> QED
    BY <2>5
<1>7. CASE p > a + 2
  <2> DEFINE q == p - (a + 2) + b
      f == e - (a + 2) + b
  <2>1. q \in 1 .. Len(h) /\ f \in q .. Len(h) /\ f - q = e - p
    BY <1>3, <1>7
  <2>2. Untagged(h, q, f)
    <3>1. ASSUME NEW x \in q .. f PROVE ~InTag(h, x)
      <4> DEFINE y == x - b + (a + 2)
      <4>1. y \in p .. e /\ y \in 1 .. Len(g) /\ y > a + 2 /\ y - (a + 2) + b = x
        BY <1>3, <1>7
      <4> HIDE DEF y
      <4> QED
        BY <1>2, <1>4, <4>1 DEF Untagged
    <3> QED
      BY <3>1 DEF Untagged
  <2>3. SubSeq(g, p, e) = SubSeq(h, q, f)
    <3>1. p \in 1 .. Len(g) /\ e \in p .. Len(g)
      BY <1>2
    <3>2. \A k \in 0 .. e - p : g[p + k] = h[q + k]
      <4> SUFFICES ASSUME NEW k \in 0 .. e - p PROVE g[p + k] = h[q + k]
        OBVIOUS
      <4> DEFINE y == p + k
      <4>1. y \in 1 .. Len(g) /\ y > a + 2 /\ y - (a + 2) + b = q + k
        BY <1>3, <1>7
      <4> HIDE DEF y, q
      <4>2. g[y] = h[y - (a + 2) + b]
        BY <1>1, <4>1
      <4> QED
        BY <4>1, <4>2 DEF y
    <3> HIDE DEF q, f
    <3>3. g \in Seq(Symbols) /\ h \in Seq(Symbols)
      BY <1>1
    <3> QED
      BY <2>1, <3>1, <3>2, <3>3, Shifted
  <2>4. f < Len(h) => h[f + 1] \notin Digits /\ h[f + 1] # "<"
    <3> SUFFICES ASSUME f < Len(h) PROVE h[f + 1] \notin Digits /\ h[f + 1] # "<"
      OBVIOUS
    <3> DEFINE y == e + 1
    <3>1. e < Len(g) /\ y \in 1 .. Len(g) /\ y > a + 2 /\ y - (a + 2) + b = f + 1
      BY <1>3, <1>7
    <3>2. g[y] \notin Digits /\ g[y] # "<"
      BY <1>2, <3>1
    <3> HIDE DEF y, f
    <3>3. g[y] = h[y - (a + 2) + b]
      BY <1>1, <3>1
    <3> QED
      BY <3>1, <3>2, <3>3
  <2> HIDE DEF q, f
  <2>5. Loose(h, q, f, digits)
    BY <1>2, <2>1, <2>2, <2>3, <2>4 DEF Loose
  <2> QED
    BY <2>5
<1> QED
  BY <1>5, <1>6, <1>7

(* -- The places of one element, from right to left. -- *)
(* g[j] is the element with the first j of its C places replaced. *)
Chain(g, h, C, A, B, M) ==
  /\ h \in Seq(Symbols) /\ C \in Nat
  /\ g[0] = h
  /\ \A j \in 1 .. C : /\ A[j] \in Nat \ {0} /\ B[j] \in Nat /\ A[j] <= B[j] /\ B[j] <= Len(h)
                       /\ M[j] \in DOMAIN Marks
                       /\ A[j] <= Len(g[j - 1]) + 1 => g[j] = Spliced(g[j - 1], A[j], B[j], M[j])
  /\ \A j, k \in 1 .. C : j < k => A[k] <= A[j]

(* What is left of the places yet to come is as it was. *)
Left(g, h, C, A, j) ==
  /\ g[j] \in Seq(Symbols)
  /\ \A k \in 1 .. C : k > j => A[k] <= Len(g[j]) /\ \A p \in 1 .. A[k] - 1 : g[j][p] = h[p]

(* Along a chain each splice has the text left of its place as it was at first. *)
LEMMA ChainIs ==
  ASSUME NEW g, NEW h, NEW C, NEW A, NEW B, NEW M, Chain(g, h, C, A, B, M)
  PROVE  /\ \A j \in 0 .. C : Left(g, h, C, A, j)
         /\ \A j \in 1 .. C : /\ g[j] = Spliced(g[j - 1], A[j], B[j], M[j])
                              /\ IsSpliced(g[j], g[j - 1], A[j], B[j], M[j])
<1>1. /\ h \in Seq(Symbols) /\ C \in Nat /\ g[0] = h
      /\ \A j \in 1 .. C : /\ A[j] \in Nat \ {0} /\ B[j] \in Nat /\ A[j] <= B[j] /\ B[j] <= Len(h)
                           /\ M[j] \in DOMAIN Marks
                           /\ A[j] <= Len(g[j - 1]) + 1 => g[j] = Spliced(g[j - 1], A[j], B[j], M[j])
      /\ \A j, k \in 1 .. C : j < k => A[k] <= A[j]
  BY Zenon DEF Chain
<1> HIDE DEF Symbols
<1>2. ASSUME NEW j \in 1 .. C, Left(g, h, C, A, j - 1)
      PROVE  g[j] = Spliced(g[j - 1], A[j], B[j], M[j]) /\ IsSpliced(g[j], g[j - 1], A[j], B[j], M[j])
  <2> DEFINE x == g[j - 1]
  <2>1. j > j - 1
    OBVIOUS
  <2>2. x \in Seq(Symbols) /\ A[j] <= Len(x)
    BY <1>2, <2>1 DEF Left
  <2>3. Len(x) \in Nat /\ A[j] \in Nat \ {0} /\ B[j] \in Nat /\ A[j] <= B[j] /\ M[j] \in DOMAIN Marks
    BY <1>1, <2>2
  <2>4. A[j] <= Len(x) + 1
    BY <2>2, <2>3
  <2>5. g[j] = Spliced(x, A[j], B[j], M[j])
    BY <1>1, <2>4
  <2> HIDE DEF x
  <2>6. IsSpliced(Spliced(x, A[j], B[j], M[j]), x, A[j], B[j], M[j])
    BY <2>2, <2>3, <2>4, SpliceIs
  <2> QED
    BY <2>5, <2>6 DEF x
<1> DEFINE P == {j \in 0 .. C : Left(g, h, C, A, j)}
<1>3. 0 \in P
  <2>1. ASSUME NEW k \in 1 .. C PROVE A[k] <= Len(h)
    <3>1. Len(h) \in Nat /\ A[k] \in Nat /\ B[k] \in Nat /\ A[k] <= B[k] /\ B[k] <= Len(h)
      BY SMTT(30), <1>1
    <3> QED
      BY <3>1
  <2>2. Left(g, h, C, A, 0)
    BY <1>1, <2>1 DEF Left
  <2> QED
    BY <1>1, <2>2
<1>4. ASSUME NEW j \in 1 .. C, j - 1 \in P PROVE j \in P
  <2> DEFINE x == g[j - 1]
      y == g[j]
      a == A[j]
      b == B[j]
  <2>1. Left(g, h, C, A, j - 1)
    BY <1>4
  <2>2. IsSpliced(y, x, a, b, M[j])
    BY <1>2, <2>1
  <2>3. /\ x \in Seq(Symbols)
        /\ \A k \in 1 .. C : k > j - 1 => A[k] <= Len(x) /\ \A p \in 1 .. A[k] - 1 : x[p] = h[p]
    BY <2>1 DEF Left
  <2>3a. Len(x) \in Nat
    BY <2>3
  <2>4. a \in Nat /\ b \in Nat /\ a >= 1
    BY <1>1
  <2> HIDE DEF x, y, b
  <2>5. /\ y \in Seq(Symbols) /\ Len(y) = (a + 2) + (IF b <= Len(x) THEN Len(x) - b ELSE 0)
        /\ \A p \in 1 .. a - 1 : y[p] = x[p]
    BY Zenon, <2>2 DEF IsSpliced
  <2>6. Len(y) >= a + 2
    BY <2>3a, <2>4, <2>5
  <2>7. ASSUME NEW k \in 1 .. C, k > j PROVE A[k] <= Len(y) /\ \A p \in 1 .. A[k] - 1 : y[p] = h[p]
    <3>1. A[k] <= a /\ A[k] \in Nat /\ k > j - 1
      BY <1>1, <2>7
    <3>2. Len(y) \in Nat
      BY <2>5
    <3>3. A[k] <= Len(y)
      BY <2>4, <2>6, <3>1, <3>2
    <3>4. \A p \in 1 .. A[k] - 1 : p \in 1 .. a - 1
      BY <2>4, <3>1
    <3> QED
      BY <2>3, <2>5, <3>1, <3>3, <3>4
  <2>8. Left(g, h, C, A, j)
    BY <2>5, <2>7 DEF Left, y
  <2> QED
    BY <2>8
<1> HIDE DEF P
<1>5. \A j \in 0 .. C : j \in P
  BY <1>1, <1>3, <1>4, UpTo
<1>6. \A j \in 0 .. C : Left(g, h, C, A, j)
  BY <1>5 DEF P
<1>7. \A j \in 1 .. C : j - 1 \in 0 .. C
  BY <1>1
<1> QED
  BY <1>2, <1>6, <1>7

(* -- No footnote gets a second tag. -- *)
OnlyOne(h, n) == \A x, y \in DOMAIN h : Intact(h, n, x) /\ Intact(h, n, y) => x = y
(* The text has the tag of n. *)
Has(h, n) == \E x \in DOMAIN h : Intact(h, n, x)

(* Different tags that the text does not have are each put there once at most. *)
LEMMA ChainOnce ==
  ASSUME NEW g, NEW h, NEW C, NEW A, NEW B, NEW M, Chain(g, h, C, A, B, M),
         \A j, k \in 1 .. C : M[j] = M[k] => j = k,
         \A j \in 1 .. C : ~Has(h, M[j])
  PROVE  \A n \in DOMAIN Marks : /\ OnlyOne(h, n) => OnlyOne(g[C], n)
                                 /\ Has(g[C], n) => Has(h, n) \/ \E k \in 1 .. C : M[k] = n
<1>1. h \in Seq(Symbols) /\ C \in Nat /\ g[0] = h
  BY Zenon DEF Chain
<1>2. \A j \in 1 .. C : A[j] \in Nat \ {0} /\ B[j] \in Nat /\ A[j] <= B[j] /\ M[j] \in DOMAIN Marks
  BY Zenon DEF Chain
<1>3. /\ \A j \in 0 .. C : Left(g, h, C, A, j)
      /\ \A j \in 1 .. C : IsSpliced(g[j], g[j - 1], A[j], B[j], M[j])
  BY ChainIs
<1> HIDE DEF Symbols
<1> DEFINE Fine(j) == \A n \in DOMAIN Marks :
                        /\ OnlyOne(h, n) => OnlyOne(g[j], n)
                        /\ Has(g[j], n) => Has(h, n) \/ \E k \in 1 .. j : M[k] = n
    P == {j \in 0 .. C : Fine(j)}
<1>4. 0 \in P
  BY <1>1
<1>5. ASSUME NEW j \in 1 .. C, j - 1 \in P PROVE j \in P
  <2> DEFINE x == g[j - 1]
      y == g[j]
      a == A[j]
      b == B[j]
      m == M[j]
  <2>1. \A n \in DOMAIN Marks : (OnlyOne(h, n) => OnlyOne(x, n)) /\ (Has(x, n) => Has(h, n) \/ \E k \in 1 .. j - 1 : M[k] = n)
    BY <1>5
  <2>2. /\ x \in Seq(Symbols) /\ a \in Nat \ {0} /\ b \in Nat /\ a <= b /\ m \in DOMAIN Marks
        /\ IsSpliced(y, x, a, b, m) /\ a <= Len(x) /\ j \in 0 .. C
    <3>1. j - 1 \in 0 .. C /\ j > j - 1 /\ j \in 0 .. C
      BY <1>1
    <3>2. Left(g, h, C, A, j - 1)
      BY <1>3, <3>1
    <3>3. x \in Seq(Symbols) /\ a <= Len(x)
      BY <3>1, <3>2 DEF Left
    <3> QED
      BY <1>2, <1>3, <3>1, <3>3
  <2>3. Len(x) \in Nat /\ a <= Len(x) + 1
    BY <2>2
  <2>4. ~Has(x, m)
    <3>1. \A k \in 1 .. j - 1 : k \in 1 .. C /\ k # j
      BY <1>1
    <3> QED
      BY <2>1, <2>2, <3>1
  <2> HIDE DEF x, y, a, b, m
  <2>5. ASSUME NEW n \in DOMAIN Marks, NEW p \in DOMAIN y, Intact(y, n, p)
        PROVE  \/ n = m /\ p = a
               \/ p + 2 < a /\ p \in DOMAIN x /\ Intact(x, n, p)
               \/ p > a + 2 /\ p - (a + 2) + b \in DOMAIN x /\ Intact(x, n, p - (a + 2) + b)
    BY <2>2, <2>3, <2>5, PlacesSpliced
  <2>6. DOMAIN y \subseteq Nat /\ DOMAIN x \subseteq Nat
    <3>1. y \in Seq(Symbols)
      BY <2>2 DEF IsSpliced
    <3> QED
      BY <2>2, <3>1
  <2>7. ASSUME NEW n \in DOMAIN Marks, OnlyOne(h, n) PROVE OnlyOne(y, n)
    <3> SUFFICES ASSUME NEW p \in DOMAIN y, NEW q \in DOMAIN y, Intact(y, n, p), Intact(y, n, q) PROVE p = q
      BY DEF OnlyOne
    <3> DEFINE s == p - (a + 2) + b
        t == q - (a + 2) + b
    <3>1. \/ n = m /\ p = a
          \/ p + 2 < a /\ p \in DOMAIN x /\ Intact(x, n, p)
          \/ p > a + 2 /\ s \in DOMAIN x /\ Intact(x, n, s)
      BY <2>5
    <3>2. \/ n = m /\ q = a
          \/ q + 2 < a /\ q \in DOMAIN x /\ Intact(x, n, q)
          \/ q > a + 2 /\ t \in DOMAIN x /\ Intact(x, n, t)
      BY <2>5
    <3>3. /\ p \in Nat /\ q \in Nat /\ a \in Nat /\ b \in Nat /\ a <= b
          /\ (s = t => p = q)
          /\ (p + 2 < a /\ q > a + 2 => p # t)
          /\ (q + 2 < a /\ p > a + 2 => q # s)
      <4>1. p \in Nat /\ q \in Nat /\ a \in Nat /\ b \in Nat /\ a <= b
        BY <2>2, <2>6
      <4> QED
        BY <4>1
    <3> HIDE DEF s, t
    <3>4. \A u, v \in DOMAIN x : Intact(x, n, u) /\ Intact(x, n, v) => u = v
      BY <2>1, <2>7 DEF OnlyOne
    <3>5. CASE n = m
      BY <2>4, <3>1, <3>2, <3>5 DEF Has
    <3>6. CASE n # m
      BY <3>1, <3>2, <3>3, <3>4, <3>6
    <3> QED
      BY <3>5, <3>6
  <2>8. ASSUME NEW n \in DOMAIN Marks, Has(y, n) PROVE Has(h, n) \/ \E k \in 1 .. j : M[k] = n
    <3>1. PICK p \in DOMAIN y : Intact(y, n, p)
      BY <2>8 DEF Has
    <3>2. n = m \/ Has(x, n)
      BY <2>5, <3>1 DEF Has
    <3>3. j \in 1 .. j /\ \A k \in 1 .. j - 1 : k \in 1 .. j
      BY <1>1
    <3> QED
      BY <2>1, <3>2, <3>3 DEF m
  <2>9. Fine(j)
    BY <2>7, <2>8 DEF y
  <2> QED
    BY <2>2, <2>9
<1> HIDE DEF P
<1>6. \A j \in 0 .. C : j \in P
  BY <1>1, <1>4, <1>5, UpTo
<1>7. C \in P
  BY <1>1, <1>6
<1> QED
  BY <1>7 DEF P

(* -- As long as the places are apart. -- *)
Apart(C, A, B) == \A j, k \in 1 .. C : j < k => B[k] < A[j]

(* Where places do not overlap, each is still there when its turn comes. *)
LEMMA PlacesAreText ==
  ASSUME NEW g, NEW h, NEW C, NEW A, NEW B, NEW M, Chain(g, h, C, A, B, M), Apart(C, A, B),
         NEW j \in 1 .. C, Untagged(h, A[j], B[j])
  PROVE  /\ B[j] <= Len(g[j - 1]) /\ Untagged(g[j - 1], A[j], B[j])
         /\ \A p \in 1 .. B[j] : p \in 1 .. Len(g[j - 1]) /\ g[j - 1][p] = h[p]
<1>1. /\ h \in Seq(Symbols) /\ C \in Nat /\ g[0] = h
      /\ \A k \in 1 .. C : A[k] \in Nat \ {0} /\ B[k] \in Nat /\ A[k] <= B[k] /\ B[k] <= Len(h)
  BY Zenon DEF Chain
<1>2. /\ \A k \in 0 .. C : Left(g, h, C, A, k)
      /\ \A k \in 1 .. C : IsSpliced(g[k], g[k - 1], A[k], B[k], M[k])
  BY ChainIs
<1> HIDE DEF Symbols
<1> DEFINE x == g[j - 1]
    b == B[j]
<1>3. b \in Nat /\ A[j] \in Nat /\ A[j] >= 1 /\ A[j] <= b
  BY <1>1
<1>4. b <= Len(x) /\ Len(x) \in Nat /\ \A p \in 1 .. b : x[p] = h[p]
  <2>1. CASE j = 1
    <3>1. x = h
      BY <1>1, <2>1
    <3> QED
      BY <1>1, <3>1
  <2>2. CASE j # 1
    <3> DEFINE i == j - 1
        w == g[i - 1]
        a == A[i]
    <3>1. i \in 1 .. C /\ i - 1 \in 0 .. C /\ i > i - 1 /\ i < j
      BY <1>1, <2>2
    <3> HIDE DEF i
    <3>2. b < a /\ a \in Nat /\ a >= 1
      BY <1>1, <3>1 DEF Apart
    <3>3. w \in Seq(Symbols) /\ \A p \in 1 .. a - 1 : w[p] = h[p]
      BY <1>2, <3>1 DEF Left
    <3>4. IsSpliced(g[i], w, a, B[i], M[i])
      BY <1>2, <3>1
    <3>5. x = g[i]
      BY DEF i
    <3> HIDE DEF w, x, a
    <3>6. /\ x \in Seq(Symbols) /\ Len(x) = (a + 2) + (IF B[i] <= Len(w) THEN Len(w) - B[i] ELSE 0)
          /\ \A p \in 1 .. a - 1 : x[p] = w[p]
      BY Zenon, <3>4, <3>5 DEF IsSpliced
    <3>7. Len(w) \in Nat /\ B[i] \in Nat /\ Len(x) \in Nat
      BY <1>1, <3>1, <3>3, <3>6
    <3>8. Len(x) >= a + 2
      BY <3>2, <3>6, <3>7
    <3>9. \A p \in 1 .. b : p \in 1 .. a - 1
      BY <1>3, <3>2
    <3> QED
      BY <1>3, <3>2, <3>3, <3>6, <3>7, <3>8, <3>9
  <2> QED
    BY <2>1, <2>2
<1> HIDE DEF x
<1>5. Untagged(x, A[j], b)
  <2> SUFFICES ASSUME NEW p \in A[j] .. b PROVE ~InTag(x, p)
    BY DEF Untagged
  <2>1. ~InTag(h, p)
    BY DEF Untagged
  <2>2. \A q \in 1 .. p : x[q] = h[q]
    BY <1>3, <1>4
  <2>3. \A q \in 1 .. p : \A r \in q .. p - 1 : r \in 1 .. p
    BY <1>3
  <2> QED
    BY <2>1, <2>2, <2>3 DEF InTag
<1>6. \A p \in 1 .. b : p \in 1 .. Len(x)
  BY <1>3, <1>4
<1> QED
  BY <1>4, <1>5, <1>6 DEF x

(* If they do not overlap, tags stay, and a loose number was one before. *)
LEMMA ChainStays ==
  ASSUME NEW g, NEW h, NEW C, NEW A, NEW B, NEW M, Chain(g, h, C, A, B, M), Apart(C, A, B),
         \A j \in 1 .. C : Untagged(h, A[j], B[j])
  PROVE  /\ \A n \in DOMAIN Marks : Has(h, n) \/ (\E k \in 1 .. C : M[k] = n) => Has(g[C], n)
         /\ \A digits, p, e : Loose(g[C], p, e, digits) => \E q, f : Loose(h, q, f, digits)
<1>1. /\ h \in Seq(Symbols) /\ C \in Nat /\ g[0] = h
      /\ \A j \in 1 .. C : A[j] \in Nat \ {0} /\ B[j] \in Nat /\ A[j] <= B[j] /\ M[j] \in DOMAIN Marks
  BY Zenon DEF Chain
<1>2. /\ \A j \in 0 .. C : Left(g, h, C, A, j)
      /\ \A j \in 1 .. C : IsSpliced(g[j], g[j - 1], A[j], B[j], M[j])
  BY ChainIs
<1> HIDE DEF Symbols
<1> DEFINE Fine(j) == /\ \A n \in DOMAIN Marks : Has(h, n) \/ (\E k \in 1 .. j : M[k] = n) => Has(g[j], n)
                      /\ \A digits, p, e : Loose(g[j], p, e, digits) => \E q, f : Loose(h, q, f, digits)
    P == {j \in 0 .. C : Fine(j)}
<1>3. 0 \in P
  BY <1>1
<1>4. ASSUME NEW j \in 1 .. C, j - 1 \in P PROVE j \in P
  <2> DEFINE x == g[j - 1]
      y == g[j]
      a == A[j]
      b == B[j]
      m == M[j]
  <2>0. Fine(j - 1)
    BY <1>4
  <2>1. b <= Len(x) /\ Untagged(x, a, b)
    BY PlacesAreText
  <2>2. /\ x \in Seq(Symbols) /\ y \in Seq(Symbols) /\ a \in Nat \ {0} /\ b \in Nat /\ a <= b /\ m \in DOMAIN Marks
        /\ IsSpliced(y, x, a, b, m) /\ j \in 0 .. C
    <3>1. j - 1 \in 0 .. C /\ j \in 0 .. C
      BY <1>1
    <3>2. x \in Seq(Symbols) /\ y \in Seq(Symbols)
      BY <1>2, <3>1 DEF Left
    <3> QED
      BY <1>1, <1>2, <3>1, <3>2
  <2>3. \A n \in DOMAIN Marks : Has(h, n) \/ (\E k \in 1 .. j - 1 : M[k] = n) => Has(x, n)
    BY <2>0
  <2>4. \A digits, p, e : Loose(x, p, e, digits) => \E q, f : Loose(h, q, f, digits)
    BY <2>0
  <2> HIDE DEF x, y, a, b
  <2>5. ASSUME NEW n \in DOMAIN Marks, Has(x, n) PROVE Has(y, n)
    <3>1. PICK p \in DOMAIN x : Intact(x, n, p)
      BY <2>5 DEF Has
    <3>2. \E q \in DOMAIN y : Intact(y, n, q)
      BY <2>1, <2>2, <3>1, TagsStay
    <3> QED
      BY <3>2 DEF Has
  <2>6. Has(y, m)
    <3>1. Len(y) = (a + 2) + (IF b <= Len(x) THEN Len(x) - b ELSE 0) /\ y[a] = "<" /\ y[a + 1] = Marks[m] /\ y[a + 2] = ">"
      BY Zenon, <2>2 DEF IsSpliced
    <3>2. Len(y) \in Nat /\ Len(x) \in Nat /\ a \in Nat /\ a >= 1 /\ b \in Nat
      BY <2>2
    <3>3. a + 2 <= Len(y) /\ a \in 1 .. Len(y) /\ DOMAIN y = 1 .. Len(y)
      BY <2>1, <2>2, <3>1, <3>2
    <3>4. Intact(y, m, a)
      BY <2>2, <3>1, <3>3, IntactIs
    <3> QED
      BY <3>3, <3>4 DEF Has
  <2>7. ASSUME NEW n \in DOMAIN Marks, Has(h, n) \/ \E k \in 1 .. j : M[k] = n PROVE Has(y, n)
    <3>1. \A k \in 1 .. j : k \in 1 .. j - 1 \/ k = j
      OBVIOUS
    <3>2. n = m \/ Has(x, n)
      BY <2>3, <2>7, <3>1
    <3> QED
      BY <2>5, <2>6, <3>2
  <2>8. ASSUME NEW digits, NEW p, NEW e, Loose(y, p, e, digits) PROVE \E q, f : Loose(h, q, f, digits)
    <3>1. \E q, f : Loose(x, q, f, digits)
      BY <2>1, <2>2, <2>8, LooseBefore
    <3> QED
      BY <2>4, <3>1
  <2>9. Fine(j)
    BY <2>7, <2>8 DEF y
  <2> QED
    BY <2>2, <2>9
<1> HIDE DEF P
<1>5. C \in P
  <2>1. \A j \in 0 .. C : j \in P
    BY <1>1, <1>3, <1>4, UpTo
  <2> QED
    BY <1>1, <2>1
<1> QED
  BY <1>5 DEF P

(* -- Nothing else changes. -- *)
LEMMA FirstAndRest ==
  ASSUME NEW S, NEW t \in Seq(S), NEW p \in 1 .. Len(t)
  PROVE  /\ SubSeq(t, p, Len(t)) \in Seq(S) /\ SubSeq(t, p + 1, Len(t)) \in Seq(S) /\ <<t[p]>> \in Seq(S)
         /\ SubSeq(t, p, Len(t)) = <<t[p]>> \o SubSeq(t, p + 1, Len(t))
<1> DEFINE L == Len(t)
    x == SubSeq(t, p, L)
    y == SubSeq(t, p + 1, L)
    one == <<t[p]>>
    z == one \o y
<1>1. L \in Nat /\ p \in Nat /\ 1 <= p /\ p <= L /\ t[p] \in S
  OBVIOUS
<1>2. x \in Seq(S) /\ Len(x) = L - p + 1 /\ \A k \in 1 .. L - p + 1 : x[k] = t[p + k - 1]
  BY <1>1
<1>3. y \in Seq(S) /\ Len(y) = L - p /\ \A k \in 1 .. L - p : y[k] = t[p + k]
  <2>1. CASE p = L
    <3>1. y = <<>>
      BY <1>1, <2>1
    <3> QED
      BY <1>1, <2>1, <3>1
  <2>2. CASE p < L
    <3>1. y \in Seq(S) /\ Len(y) = L - (p + 1) + 1 /\ \A k \in 1 .. L - (p + 1) + 1 : y[k] = t[(p + 1) + k - 1]
      BY <1>1, <2>2
    <3>2. L - (p + 1) + 1 = L - p /\ \A k \in 1 .. L - p : (p + 1) + k - 1 = p + k
      BY <1>1
    <3> HIDE DEF y
    <3> QED
      BY <3>1, <3>2
  <2> QED
    BY <1>1, <2>1, <2>2
<1>4. one \in Seq(S) /\ Len(one) = 1 /\ one[1] = t[p]
  BY <1>1
<1> HIDE DEF x, y, one
<1>5. /\ z \in Seq(S) /\ Len(z) = 1 + (L - p)
      /\ \A k \in 1 .. 1 : z[k] = one[k]
      /\ \A k \in 1 .. Len(z) : k \notin 1 .. 1 => k - 1 \in 1 .. L - p /\ z[k] = y[k - 1]
  <2>1. /\ z \in Seq(S) /\ Len(z) = Len(one) + Len(y)
        /\ \A k \in 1 .. Len(one) : z[k] = one[k]
        /\ \A k \in 1 .. Len(z) : k \notin 1 .. Len(one) => k - Len(one) \in 1 .. Len(y) /\ z[k] = y[k - Len(one)]
    <3>1. one \in Seq(S) /\ y \in Seq(S)
      BY <1>3, <1>4
    <3> QED
      BY <3>1, Concatenated
  <2>2. Len(one) = 1 /\ Len(y) = L - p
    BY <1>3, <1>4
  <2> HIDE DEF z
  <2> QED
    BY <2>1, <2>2
<1> HIDE DEF z, L
<1>6. Len(x) = 1 + (L - p) /\ \A k \in 1 .. 1 + (L - p) : x[k] = z[k]
  <2>1. L - p + 1 = 1 + (L - p)
    BY <1>1
  <2> SUFFICES ASSUME NEW k \in 1 .. 1 + (L - p) PROVE x[k] = z[k]
    BY <1>2, <2>1
  <2>2. CASE k = 1
    <3>1. p + 1 - 1 = p /\ 1 \in 1 .. L - p + 1
      BY <1>1
    <3>2. x[1] = t[p]
      BY <1>2, <3>1
    <3> QED
      BY <1>4, <1>5, <2>2, <3>2
  <2>3. CASE k # 1
    <3> DEFINE j == k - 1
    <3>1. k \notin 1 .. 1 /\ j \in 1 .. L - p /\ p + k - 1 = p + j /\ k \in 1 .. L - p + 1
      BY <1>1, <2>3
    <3>2. z[k] = y[j]
      BY <1>5, <3>1
    <3> HIDE DEF j
    <3> QED
      BY <1>2, <1>3, <3>1, <3>2
  <2> QED
    BY <2>2, <2>3
<1>7. x = z
  BY <1>2, <1>5, <1>6, SeqsAgree
<1> QED
  BY <1>2, <1>3, <1>4, <1>7 DEF x, y, z, one, L

(* The pieces from p on. *)
FromOn(t, p) == FlattenSeq(SubSeq(t, p, Len(t)))

(* The rest of a flattened sequence is a piece and the rest behind it. *)
LEMMA FromOnIs ==
  ASSUME NEW S, NEW t \in Seq(Seq(S)), NEW p \in 1 .. Len(t)
  PROVE  FromOn(t, p) = t[p] \o FromOn(t, p + 1) /\ t[p] \in Seq(S) /\ FromOn(t, p + 1) \in Seq(S)
<1> DEFINE x == SubSeq(t, p, Len(t))
    y == SubSeq(t, p + 1, Len(t))
    one == <<t[p]>>
<1>1. x \in Seq(Seq(S)) /\ y \in Seq(Seq(S)) /\ one \in Seq(Seq(S)) /\ x = one \o y
  BY FirstAndRest
<1>2. t[p] \in Seq(S)
  OBVIOUS
<1>3. FlattenSeq(one) = t[p]
  BY <1>2, FlattenOne
<1> HIDE DEF x, y, one
<1>4. FlattenSeq(one \o y) = FlattenSeq(one) \o FlattenSeq(y)
  BY <1>1, FlattenJoined
<1>5. FlattenSeq(y) \in Seq(S)
  BY <1>1, FlattenIn
<1>6. FlattenSeq(x) = t[p] \o FlattenSeq(y)
  BY <1>1, <1>3, <1>4
<1> QED
  BY <1>2, <1>5, <1>6 DEF FromOn, x, y

(* Its ends. *)
LEMMA FromOnEnds ==
  ASSUME NEW S, NEW t \in Seq(Seq(S))
  PROVE  /\ FromOn(t, Len(t) + 1) = <<>> /\ FromOn(t, 1) = FlattenSeq(t)
         /\ \A p \in 1 .. Len(t) + 1 : FromOn(t, p) \in Seq(S)
<1>1. SubSeq(t, Len(t) + 1, Len(t)) = <<>> /\ SubSeq(t, 1, Len(t)) = t
  OBVIOUS
<1>2. FromOn(t, Len(t) + 1) = <<>>
  BY <1>1, FlattenNone DEF FromOn
<1>3. ASSUME NEW p \in 1 .. Len(t) + 1 PROVE FromOn(t, p) \in Seq(S)
  <2>1. CASE p = Len(t) + 1
    <3>1. <<>> \in Seq(S)
      OBVIOUS
    <3> QED
      BY <1>2, <2>1, <3>1
  <2>2. CASE p # Len(t) + 1
    <3>1. p \in 1 .. Len(t)
      BY <2>2
    <3>2. FromOn(t, p) = t[p] \o FromOn(t, p + 1) /\ t[p] \in Seq(S) /\ FromOn(t, p + 1) \in Seq(S)
      BY <3>1, FromOnIs
    <3> QED
      BY <3>2, JoinedIn
  <2> QED
    BY <2>1, <2>2
<1> QED
  BY <1>1, <1>2, <1>3 DEF FromOn

(* Empty pieces add nothing. *)
LEMMA FromOnSkips ==
  ASSUME NEW S, NEW t \in Seq(Seq(S)), NEW p \in 1 .. Len(t) + 1, NEW q \in p .. Len(t) + 1,
         \A r \in p .. q - 1 : t[r] = <<>>
  PROVE  FromOn(t, p) = FromOn(t, q)
<1> DEFINE P == {d \in 0 .. q - p : FromOn(t, q - d) = FromOn(t, q)}
<1>1. p \in Nat /\ q \in Nat /\ p <= q /\ 1 <= p /\ q <= Len(t) + 1 /\ Len(t) \in Nat /\ q - p \in Nat
  OBVIOUS
<1>2. 0 \in P
  BY <1>1
<1>3. ASSUME NEW d \in 1 .. q - p, d - 1 \in P PROVE d \in P
  <2> DEFINE r == q - d
  <2>1. r \in p .. q - 1 /\ r \in 1 .. Len(t) /\ r + 1 = q - (d - 1) /\ d \in 0 .. q - p
    BY <1>1
  <2>2. FromOn(t, q - (d - 1)) = FromOn(t, q)
    BY <1>3
  <2> HIDE DEF r
  <2>3. FromOn(t, r) = t[r] \o FromOn(t, r + 1) /\ FromOn(t, r + 1) \in Seq(S)
    BY <2>1, FromOnIs
  <2>4. t[r] = <<>>
    BY <2>1
  <2>5. FromOn(t, r) = FromOn(t, r + 1)
    BY <2>3, <2>4, JoinedNothing
  <2> QED
    BY <2>1, <2>2, <2>5 DEF r
<1>4. \A d \in 0 .. q - p : d \in P
  <2> HIDE DEF P
  <2> QED
    BY <1>1, <1>2, <1>3, UpTo
<1>5. q - p \in P
  <2>1. q - p \in 0 .. q - p
    BY <1>1
  <2> HIDE DEF P
  <2> QED
    BY <1>4, <2>1
<1> QED
  BY <1>1, <1>5

(* A joined sequence cut where it was joined, or before. *)
LEMMA JoinedCuts ==
  ASSUME NEW S, NEW u \in Seq(S), NEW v \in Seq(S), NEW k \in 0 .. Len(u)
  PROVE  SubSeq(u \o v, 1, k) = SubSeq(u, 1, k) /\ SubSeq(u \o v, Len(u) + 1, Len(u \o v)) = v
<1> DEFINE x == u \o v
    y == SubSeq(x, Len(u) + 1, Len(x))
<1>1. /\ x \in Seq(S) /\ Len(u) \in Nat /\ Len(x) = Len(u) + Len(v) /\ Len(v) \in Nat
      /\ \A j \in 1 .. Len(u) : x[j] = u[j]
      /\ \A j \in 1 .. Len(x) : j \notin 1 .. Len(u) => j - Len(u) \in 1 .. Len(v) /\ x[j] = v[j - Len(u)]
  BY Concatenated
<1> HIDE DEF x
<1>2. k \in 0 .. Len(x)
  BY <1>1
<1>3. SubSeq(x, 1, k) \in Seq(S) /\ Len(SubSeq(x, 1, k)) = k /\ \A n \in 1 .. k : SubSeq(x, 1, k)[n] = x[n]
  BY <1>1, <1>2, Prefix
<1>4. SubSeq(u, 1, k) \in Seq(S) /\ Len(SubSeq(u, 1, k)) = k /\ \A n \in 1 .. k : SubSeq(u, 1, k)[n] = u[n]
  BY Prefix
<1>5. \A n \in 1 .. k : SubSeq(x, 1, k)[n] = SubSeq(u, 1, k)[n]
  BY <1>1, <1>3, <1>4
<1>6. SubSeq(x, 1, k) = SubSeq(u, 1, k)
  BY <1>3, <1>4, <1>5, SeqsAgree
<1>7. y \in Seq(S) /\ Len(y) = Len(v) /\ \A n \in 1 .. Len(v) : y[n] = x[Len(u) + n]
  <2>1. CASE Len(v) = 0
    <3>1. y = <<>>
      BY <1>1, <2>1
    <3>2. \A n \in 1 .. Len(v) : FALSE
      BY <2>1
    <3> HIDE DEF y
    <3> QED
      BY <2>1, <3>1, <3>2
  <2>2. CASE Len(v) # 0
    <3> DEFINE a == Len(u) + 1
        b == Len(x)
        w == SubSeq(x, a, b)
    <3>1. a \in 1 .. Len(x) /\ b \in 1 .. Len(x) /\ a <= b /\ b - a + 1 = Len(v)
      BY <1>1, <2>2
    <3>2. \A n \in 1 .. Len(v) : a + n - 1 = Len(u) + n
      BY <1>1
    <3> HIDE DEF a, b
    <3>3. w \in Seq(S) /\ Len(w) = b - a + 1 /\ \A n \in 1 .. b - a + 1 : w[n] = x[a + n - 1]
      BY <1>1, <3>1
    <3>4. y = w
      BY DEF a, b
    <3> HIDE DEF y, w
    <3> QED
      BY <3>1, <3>2, <3>3, <3>4
  <2> QED
    BY <2>1, <2>2
<1> HIDE DEF y
<1>8. \A n \in 1 .. Len(v) : y[n] = v[n]
  <2> SUFFICES ASSUME NEW n \in 1 .. Len(v) PROVE y[n] = v[n]
    OBVIOUS
  <2> DEFINE j == Len(u) + n
  <2>1. j \in 1 .. Len(x) /\ j \notin 1 .. Len(u) /\ j - Len(u) = n
    BY <1>1
  <2> HIDE DEF j
  <2>2. x[j] = v[n]
    BY <1>1, <2>1
  <2> QED
    BY <1>7, <2>2 DEF j
<1>9. y = v
  BY <1>7, <1>8, SeqsAgree
<1> QED
  BY <1>6, <1>9 DEF x, y

(* What the symbols of h become. *)
Becomes(t, h, C, A, B, M) ==
  /\ t \in Seq(Seq(Symbols)) /\ Len(t) = Len(h)
  /\ \A j \in 1 .. C : t[A[j]] = RefTag(M[j]) /\ \A p \in A[j] + 1 .. B[j] : t[p] = <<>>
  /\ \A p \in 1 .. Len(h) : (\A j \in 1 .. C : p < A[j] \/ p > B[j]) => t[p] = <<h[p]>>

(* The chain ends with the flattened pieces. *)
LEMMA ChainBecomes ==
  ASSUME NEW g, NEW h, NEW C, NEW A, NEW B, NEW M, Chain(g, h, C, A, B, M), Apart(C, A, B),
         NEW t, Becomes(t, h, C, A, B, M)
  PROVE  g[C] = FlattenSeq(t)
<1>1. /\ h \in Seq(Symbols) /\ C \in Nat /\ g[0] = h
      /\ \A j \in 1 .. C : A[j] \in Nat \ {0} /\ B[j] \in Nat /\ A[j] <= B[j] /\ B[j] <= Len(h) /\ M[j] \in DOMAIN Marks
      /\ \A j, k \in 1 .. C : j < k => A[k] <= A[j]
  BY Zenon DEF Chain
<1>2. /\ t \in Seq(Seq(Symbols)) /\ Len(t) = Len(h)
      /\ \A j \in 1 .. C : t[A[j]] = RefTag(M[j]) /\ \A p \in A[j] + 1 .. B[j] : t[p] = <<>>
      /\ \A p \in 1 .. Len(h) : (\A j \in 1 .. C : p < A[j] \/ p > B[j]) => t[p] = <<h[p]>>
  BY Zenon DEF Becomes
<1>3. \A j \in 1 .. C : g[j] = Spliced(g[j - 1], A[j], B[j], M[j])
  BY ChainIs
<1> HIDE DEF Symbols
<1> DEFINE L == Len(h)
    At(j, p) == (j = 0 \/ A[j] >= p) /\ (j = C \/ B[j + 1] < p)
    Cut(j, p) == g[j] = SubSeq(h, 1, p - 1) \o FromOn(t, p)
    P == {d \in 0 .. L : \A e \in 0 .. d : \A j \in 0 .. C : At(j, L + 1 - e) => Cut(j, L + 1 - e)}
<1>4. L \in Nat /\ Len(t) = L
  BY <1>1, <1>2
<1>5. /\ FromOn(t, L + 1) = <<>> /\ FromOn(t, 1) = FlattenSeq(t)
      /\ \A p \in 1 .. L + 1 : FromOn(t, p) \in Seq(Symbols)
  <2>1. /\ FromOn(t, Len(t) + 1) = <<>> /\ FromOn(t, 1) = FlattenSeq(t)
        /\ \A p \in 1 .. Len(t) + 1 : FromOn(t, p) \in Seq(Symbols)
    BY <1>2, FromOnEnds
  <2> QED
    BY <1>4, <2>1
<1>6. \A p \in 1 .. L : /\ FromOn(t, p) = t[p] \o FromOn(t, p + 1)
                        /\ t[p] \in Seq(Symbols) /\ FromOn(t, p + 1) \in Seq(Symbols)
  <2> SUFFICES ASSUME NEW p \in 1 .. L
               PROVE  /\ FromOn(t, p) = t[p] \o FromOn(t, p + 1)
                      /\ t[p] \in Seq(Symbols) /\ FromOn(t, p + 1) \in Seq(Symbols)
    OBVIOUS
  <2>1. p \in 1 .. Len(t)
    BY <1>4
  <2> QED
    BY <1>2, <2>1, FromOnIs
<1>7. 0 \in P
  <2> SUFFICES \A j \in 0 .. C : At(j, L + 1) => Cut(j, L + 1)
    <3> HIDE DEF At, Cut
    <3>1. \A e \in 0 .. 0 : L + 1 - e = L + 1
      BY <1>4
    <3> QED
      BY <1>4, <3>1
  <2> SUFFICES ASSUME NEW j \in 0 .. C, At(j, L + 1) PROVE Cut(j, L + 1)
    OBVIOUS
  <2>1. j = 0
    <3> SUFFICES ASSUME j # 0 PROVE FALSE
      OBVIOUS
    <3>1. j \in 1 .. C /\ A[j] >= L + 1
      BY <1>1
    <3>2. A[j] \in Nat /\ B[j] \in Nat /\ A[j] <= B[j] /\ B[j] <= L
      BY <1>1, <3>1
    <3> QED
      BY <1>4, <3>1, <3>2
  <2>2. SubSeq(h, 1, (L + 1) - 1) = h
    BY <1>1
  <2>3. h \o <<>> = h
    BY <1>1, JoinedNothing
  <2> QED
    BY <1>1, <1>5, <2>1, <2>2, <2>3
<1>8. ASSUME NEW d \in 1 .. L, d - 1 \in P PROVE d \in P
  <2> DEFINE p == L + 1 - d
  <2>1. /\ p \in 1 .. L /\ p \in Nat /\ p + 1 \in 1 .. L + 1 /\ d - 1 \in 0 .. d - 1
        /\ p + 1 = L + 1 - (d - 1) /\ d \in 0 .. L
    BY <1>4
  <2>2. \A e \in 0 .. d - 1 : \A j \in 0 .. C : At(j, L + 1 - e) => Cut(j, L + 1 - e)
    BY <1>8
  <2>3. ASSUME NEW q \in p + 1 .. L + 1, NEW j \in 0 .. C, At(j, q) PROVE Cut(j, q)
    <3> DEFINE e == L + 1 - q
    <3>1. e \in 0 .. d - 1 /\ L + 1 - e = q
      BY <1>4, <2>1
    <3> HIDE DEF e, At, Cut
    <3>2. At(j, L + 1 - e)
      BY <2>3, <3>1
    <3>3. Cut(j, L + 1 - e)
      BY <2>2, <3>1, <3>2
    <3> QED
      BY <3>1, <3>3
  <2> HIDE DEF p
  <2> DEFINE u == SubSeq(h, 1, p - 1)
  <2>4. u \in Seq(Symbols) /\ Len(u) = p - 1 /\ \A k \in 1 .. p - 1 : u[k] = h[k]
    <3>1. p - 1 \in 0 .. Len(h)
      BY <1>4, <2>1
    <3> QED
      BY <1>1, <3>1, Prefix
  <2>5. ASSUME NEW j \in 0 .. C, At(j, p) PROVE Cut(j, p)
    <3>1. CASE j # 0 /\ A[j] = p
      <4> DEFINE b == B[j]
          v == SubSeq(h, 1, b)
          z == FromOn(t, b + 1)
          tag == RefTag(M[j])
      <4>1. j \in 1 .. C /\ j - 1 \in 0 .. C /\ (j - 1) + 1 = j /\ j - 1 # C /\ j - 1 < j
        BY <1>1, <3>1
      <4>2. b \in Nat /\ p <= b /\ b <= L /\ M[j] \in DOMAIN Marks
        BY <1>1, <3>1, <4>1
      <4>3. b + 1 \in p + 1 .. L + 1 /\ (b + 1) - 1 = b /\ b \in 0 .. Len(h)
        BY <1>4, <2>1, <4>2
      <4>4. At(j - 1, b + 1)
        <5>1. j - 1 = 0 \/ A[j - 1] >= b + 1
          <6> SUFFICES ASSUME j - 1 # 0 PROVE A[j - 1] >= b + 1
            OBVIOUS
          <6>1. j - 1 \in 1 .. C
            BY <4>1
          <6>2. b < A[j - 1] /\ A[j - 1] \in Nat
            BY <1>1, <4>1, <6>1 DEF Apart
          <6> QED
            BY <4>2, <6>2
        <5>2. B[(j - 1) + 1] < b + 1
          <6>1. B[(j - 1) + 1] = b
            BY <4>1
          <6> HIDE DEF b
          <6> QED
            BY <4>2, <6>1
        <5> QED
          BY <5>1, <5>2
      <4>5. g[j - 1] = v \o z
        <5>1. Cut(j - 1, b + 1)
          <6> HIDE DEF b, At, Cut
          <6> QED
            BY <2>3, <4>1, <4>3, <4>4
        <5> HIDE DEF b, z
        <5> QED
          BY <4>3, <5>1 DEF z
      <4>6. g[j] = Spliced(g[j - 1], p, b, M[j])
        BY <1>3, <3>1, <4>1
      <4>7. v \in Seq(Symbols) /\ Len(v) = b /\ \A k \in 1 .. b : v[k] = h[k]
        <5> HIDE DEF b
        <5> QED
          BY <1>1, <4>3, Prefix
      <4>8. z \in Seq(Symbols)
        <5> HIDE DEF b
        <5>1. b + 1 \in 1 .. L + 1
          BY <2>1, <4>3
        <5> QED
          BY <1>5, <5>1
      <4>9. tag \in Seq(Symbols)
        BY <4>2, MarkFacts
      <4>10. FromOn(t, p) = tag \o z
        <5>1. t[p] = tag /\ \A q \in p + 1 .. b : t[q] = <<>>
          BY <1>2, <3>1, <4>1
        <5>2. FromOn(t, p + 1) = z
          <6> HIDE DEF b, tag
          <6>1. p + 1 \in 1 .. Len(t) + 1 /\ b + 1 \in p + 1 .. Len(t) + 1
            BY <1>4, <2>1, <4>3
          <6>2. \A r \in p + 1 .. (b + 1) - 1 : t[r] = <<>>
            BY <4>3, <5>1
          <6> QED
            BY <1>2, <6>1, <6>2, FromOnSkips DEF z
        <5> QED
          BY <1>6, <2>1, <5>1, <5>2
      <4> DEFINE x == g[j - 1]
      <4> HIDE DEF b, z, tag
      <4>11. SubSeq(v \o z, 1, p - 1) = SubSeq(v, 1, p - 1) /\ SubSeq(v \o z, Len(v) + 1, Len(v \o z)) = z
        <5>1. p - 1 \in 0 .. Len(v)
          BY <2>1, <4>2, <4>7
        <5> HIDE DEF v
        <5> QED
          BY <4>7, <4>8, <5>1, JoinedCuts
      <4>12. SubSeq(v, 1, p - 1) = u
        <5>1. p - 1 \in 0 .. Len(v)
          BY <2>1, <4>2, <4>7
        <5> HIDE DEF v
        <5>2. SubSeq(v, 1, p - 1) \in Seq(Symbols) /\ Len(SubSeq(v, 1, p - 1)) = p - 1
              /\ \A k \in 1 .. p - 1 : SubSeq(v, 1, p - 1)[k] = v[k]
          BY <4>7, <5>1, Prefix
        <5>3. \A k \in 1 .. p - 1 : k \in 1 .. b
          BY <2>1, <4>2
        <5>4. \A k \in 1 .. p - 1 : SubSeq(v, 1, p - 1)[k] = u[k]
          BY <2>4, <4>7, <5>2, <5>3
        <5> HIDE DEF u
        <5> QED
          BY <2>4, <5>2, <5>4, SeqsAgree
      <4>13. Spliced(x, p, b, M[j]) = SubSeq(x, 1, p - 1) \o tag \o SubSeq(x, b + 1, Len(x))
        BY DEF Spliced, tag
      <4>14. g[j] = (u \o tag) \o z
        <5> HIDE DEF u, v
        <5>1. x = v \o z
          BY <4>5
        <5>2. SubSeq(x, 1, p - 1) = u /\ SubSeq(x, b + 1, Len(x)) = z
          BY <4>7, <4>11, <4>12, <5>1
        <5> HIDE DEF x
        <5>3. g[j] = Spliced(x, p, b, M[j])
          BY <4>6 DEF x
        <5> QED
          BY <4>13, <5>2, <5>3
      <4>15. (u \o tag) \o z = u \o (tag \o z)
        <5> HIDE DEF u
        <5> QED
          BY SMTT(30), <2>4, <4>8, <4>9, JoinedTwice
      <4> QED
        BY <4>10, <4>14, <4>15
    <3>2. CASE ~(j # 0 /\ A[j] = p)
      <4> DEFINE c == h[p]
          v == SubSeq(h, 1, p)
          z == FromOn(t, p + 1)
      <4>1. j = 0 \/ (j \in 1 .. C /\ A[j] \in Nat /\ A[j] >= p + 1)
        <5> SUFFICES ASSUME j # 0 PROVE j \in 1 .. C /\ A[j] \in Nat /\ A[j] >= p + 1
          OBVIOUS
        <5>1. j \in 1 .. C /\ A[j] >= p /\ A[j] # p
          BY <1>1, <2>5, <3>2
        <5>2. A[j] \in Nat
          BY <1>1, <5>1
        <5> QED
          BY <2>1, <5>1, <5>2
      <4>2. j = C \/ (j + 1 \in 1 .. C /\ B[j + 1] \in Nat /\ B[j + 1] < p)
        <5> SUFFICES ASSUME j # C PROVE j + 1 \in 1 .. C /\ B[j + 1] \in Nat /\ B[j + 1] < p
          OBVIOUS
        <5>1. j + 1 \in 1 .. C
          BY <1>1
        <5> QED
          BY <1>1, <2>5, <5>1
      <4>3. At(j, p + 1)
        BY <2>1, <4>1, <4>2
      <4>4. Cut(j, p + 1)
        <5>1. p + 1 \in p + 1 .. L + 1
          BY <1>4, <2>1
        <5> HIDE DEF At, Cut
        <5> QED
          BY <2>3, <4>3, <5>1
      <4>5. ASSUME NEW k \in 1 .. C PROVE p < A[k] \/ p > B[k]
        <5>1. A[k] \in Nat /\ B[k] \in Nat /\ A[k] <= B[k] /\ k \in Nat /\ C \in Nat /\ j \in Nat
          BY <1>1
        <5>2. CASE k <= j
          <6>1. j \in 1 .. C /\ A[j] \in Nat /\ A[j] >= p + 1
            BY <4>1, <5>1, <5>2
          <6>2. A[j] <= A[k]
            BY <1>1, <5>1, <5>2, <6>1
          <6> QED
            BY <2>1, <5>1, <6>1, <6>2
        <5>3. CASE k > j
          <6> DEFINE i == j + 1
          <6>1. i \in 1 .. C /\ B[i] \in Nat /\ B[i] < p /\ i <= k
            BY <4>2, <5>1, <5>3
          <6> HIDE DEF i
          <6>2. CASE i = k
            BY <6>1, <6>2
          <6>3. CASE i # k
            <7>1. i < k
              BY <5>1, <6>1, <6>3
            <7>2. B[k] < A[i] /\ A[i] \in Nat /\ A[i] <= B[i]
              BY <1>1, <6>1, <7>1 DEF Apart
            <7> QED
              BY <2>1, <5>1, <6>1, <7>2
          <6> QED
            BY <6>2, <6>3
        <5> QED
          BY <5>1, <5>2, <5>3
      <4>6. t[p] = <<c>>
        BY <1>2, <2>1, <4>5
      <4>7. c \in Symbols /\ v \in Seq(Symbols) /\ Len(v) = p /\ \A k \in 1 .. p : v[k] = h[k]
        <5>1. p \in 0 .. Len(h)
          BY <1>4, <2>1
        <5> QED
          BY <1>1, <2>1, <5>1, Prefix
      <4> DEFINE one == <<c>>
          w == u \o one
      <4> HIDE DEF v, c, z
      <4>8. one \in Seq(Symbols) /\ Len(one) = 1 /\ one[1] = c
        BY <4>7
      <4> HIDE DEF one
      <4>9. w = v
        <5> HIDE DEF u
        <5>1. /\ w \in Seq(Symbols) /\ Len(w) = Len(u) + Len(one)
              /\ \A k \in 1 .. Len(u) : w[k] = u[k]
              /\ \A k \in 1 .. Len(w) : k \notin 1 .. Len(u) =>
                   k - Len(u) \in 1 .. Len(one) /\ w[k] = one[k - Len(u)]
          <6>1. u \in Seq(Symbols) /\ one \in Seq(Symbols)
            BY <2>4, <4>8
          <6> QED
            BY <6>1, Concatenated
        <5> HIDE DEF w
        <5>2. Len(w) = p
          BY <2>1, <2>4, <4>8, <5>1
        <5>3. ASSUME NEW k \in 1 .. p PROVE w[k] = v[k]
          <6>1. CASE k \in 1 .. p - 1
            BY <2>4, <4>7, <5>1, <6>1
          <6>2. CASE k \notin 1 .. p - 1
            <7>1. k = p /\ k - (p - 1) = 1
              BY <2>1, <6>2
            <7>2. w[k] = one[1]
              BY <2>4, <5>1, <5>2, <6>2, <7>1
            <7> QED
              BY <4>7, <4>8, <7>1, <7>2 DEF c
          <6> QED
            BY <6>1, <6>2
        <5> QED
          BY <4>7, <5>1, <5>2, <5>3, SeqsAgree
      <4>10. z \in Seq(Symbols) /\ FromOn(t, p) = one \o z
        BY <1>6, <2>1, <4>6 DEF z, one
      <4>11. g[j] = w \o z
        <5>1. (p + 1) - 1 = p
          BY <2>1
        <5>2. g[j] = SubSeq(h, 1, (p + 1) - 1) \o FromOn(t, p + 1)
          BY <4>4
        <5> QED
          BY <4>9, <5>1, <5>2 DEF v, z
      <4>12. w \o z = u \o (one \o z)
        <5> HIDE DEF u
        <5>1. u \in Seq(Symbols) /\ one \in Seq(Symbols) /\ z \in Seq(Symbols)
          BY <2>4, <4>8, <4>10
        <5> QED
          BY <5>1, JoinedTwice
      <4> QED
        BY <4>10, <4>11, <4>12
    <3> QED
      BY <3>1, <3>2
  <2>6. ASSUME NEW e \in 0 .. d, NEW j \in 0 .. C, At(j, L + 1 - e) PROVE Cut(j, L + 1 - e)
    <3>1. CASE e = d
      <4> HIDE DEF At, Cut
      <4>1. At(j, p)
        BY <2>6, <3>1 DEF p
      <4>2. Cut(j, p)
        BY <2>5, <4>1
      <4> QED
        BY <3>1, <4>2 DEF p
    <3>2. CASE e # d
      <4>1. e \in 0 .. d - 1
        BY <3>2
      <4> HIDE DEF At, Cut
      <4> QED
        BY <2>2, <2>6, <4>1
    <3> QED
      BY <3>1, <3>2
  <2> HIDE DEF At, Cut
  <2> QED
    BY <2>1, <2>6
<1>9. \A d \in 0 .. L : d \in P
  <2> HIDE DEF P
  <2> QED
    BY <1>4, <1>7, <1>8, UpTo
<1>10. Cut(C, 1)
  <2>1. L \in 0 .. L /\ L + 1 - L = 1 /\ C \in 0 .. C
    BY <1>1, <1>4
  <2>2. At(C, 1)
    <3>1. C = 0 \/ A[C] >= 1
      <4>1. C # 0 => C \in 1 .. C
        BY <1>1
      <4>2. C # 0 => A[C] \in Nat \ {0}
        BY <1>1, <4>1
      <4> QED
        BY <4>2
    <3> QED
      BY <3>1
  <2> HIDE DEF At, Cut
  <2> QED
    BY <1>9, <2>1, <2>2
<1>11. SubSeq(h, 1, 1 - 1) = <<>>
  BY <1>1
<1>12. <<>> \o FromOn(t, 1) = FromOn(t, 1)
  <2>1. 1 \in 1 .. L + 1
    BY <1>4
  <2>2. FromOn(t, 1) \in Seq(Symbols)
    BY <1>5, <2>1
  <2> QED
    BY <2>2, JoinedNothing
<1> QED
  BY <1>5, <1>10, <1>11, <1>12

(* -- The invariant. -- *)
HtmlOf(i) == bodies[i].html

(* A patch is for an orphaned footnote, at a place in the text of an element. *)
Sound(k) ==
  /\ patches[k].note \in DOMAIN notes /\ \A n : n = patches[k].note => OrphanedNotes(n)
  /\ patches[k].at \in DOMAIN bodies
  /\ patches[k].from \in Nat \ {0} /\ patches[k].to \in Nat /\ patches[k].from <= patches[k].to
  /\ patches[k].to <= Len(HtmlOf(patches[k].at))
  /\ Untagged(HtmlOf(patches[k].at), patches[k].from, patches[k].to)
  /\ patches[k].least \in Nat

(* The types of what is patched. *)
Texts ==
  /\ DOMAIN bodies = 1 .. Len(bodies) /\ Len(bodies) \in Nat
  /\ \A i \in DOMAIN bodies : /\ bodies[i] \in [page : Nat, html : Seq(Symbols)]
                              /\ HtmlOf(i) \in Seq(Symbols)
  /\ notes \in Seq([page : Nat, number : 0 .. 99]) /\ DOMAIN notes \subseteq DOMAIN Marks
  /\ DOMAIN patches = 1 .. Len(patches) /\ Len(patches) \in Nat

(* The C patches of element i in order o: from A to B, tag M. *)
InPlaces(i, C, o, A, B, M) ==
  /\ IsSorting(o, PatchesOf(i), {kl \in PatchesOf(i) \X PatchesOf(i) : RightToLeft(kl[1], kl[2])})
  /\ C = Cardinality(PatchesOf(i)) /\ C \in Nat
  /\ A = [j \in 1 .. C |-> patches[o[j]].from]
  /\ B = [j \in 1 .. C |-> patches[o[j]].to]
  /\ M = [j \in 1 .. C |-> patches[o[j]].note]

(* They can be listed so, and sorted does it. *)
LEMMA PatchesOrdered ==
  ASSUME Texts, \A k \in DOMAIN patches : Sound(k), NEW i \in DOMAIN bodies
  PROVE  \E C, o, A, B, M : InPlaces(i, C, o, A, B, M)
                            /\ o = SortedBy(PatchesOf(i), {kl \in PatchesOf(i) \X PatchesOf(i) : RightToLeft(kl[1], kl[2])})
<1> DEFINE U == PatchesOf(i)
    R == {kl \in U \X U : RightToLeft(kl[1], kl[2])}
    o == SortedBy(U, R)
    C == Cardinality(U)
<1>1. U \subseteq 1 .. Len(patches) /\ Len(patches) \in Nat
  BY DEF PatchesOf, Texts
<1>2. \A k \in U : patches[k].from \in Nat /\ k \in Nat
  BY <1>1 DEF Sound, Texts
<1>3. \A k, l \in U : <<k, l>> \in R <=>
        patches[k].from > patches[l].from \/ (patches[k].from = patches[l].from /\ k < l)
  BY DEF RightToLeft
<1> HIDE DEF R, U
<1>4. Precedes(R, U)
  <2>1. \A n, k \in U : n # k => <<n, k>> \in R \/ <<k, n>> \in R
    BY <1>2, <1>3
  <2>2. \A n, k, j \in U : <<n, k>> \in R /\ <<k, j>> \in R => <<n, j>> \in R
    BY <1>2, <1>3
  <2>3. \A n \in U : <<n, n>> \notin R
    BY <1>2, <1>3
  <2> QED
    BY <2>1, <2>2, <2>3 DEF Precedes
<1>5. C \in Nat /\ IsSorting(o, U, R)
  BY <1>1, <1>4, Sortable
<1> HIDE DEF o, C
<1> DEFINE A == [j \in 1 .. C |-> patches[o[j]].from]
    B == [j \in 1 .. C |-> patches[o[j]].to]
    M == [j \in 1 .. C |-> patches[o[j]].note]
<1>6. InPlaces(i, C, o, A, B, M)
  <2> HIDE DEF A, B, M
  <2>1. IsSorting(o, PatchesOf(i), {kl \in PatchesOf(i) \X PatchesOf(i) : RightToLeft(kl[1], kl[2])})
    BY <1>5 DEF R, U
  <2>2. C = Cardinality(PatchesOf(i))
    BY DEF C, U
  <2> QED
    BY Zenon, <1>5, <2>1, <2>2 DEF InPlaces, A, B, M
<1>7. o = SortedBy(PatchesOf(i), {kl \in PatchesOf(i) \X PatchesOf(i) : RightToLeft(kl[1], kl[2])})
  BY DEF o, R, U
<1> QED
  BY Zenon, <1>6, <1>7

(* What is known of the patches in that order. *)
LEMMA InPlacesIs ==
  ASSUME Texts, \A k \in DOMAIN patches : Sound(k), NEW i \in DOMAIN bodies,
         NEW C, NEW o, NEW A, NEW B, NEW M, InPlaces(i, C, o, A, B, M)
  PROVE  /\ C \in Nat /\ o \in [1 .. C -> PatchesOf(i)] /\ HtmlOf(i) \in Seq(Symbols)
         /\ \A j \in 1 .. C : /\ o[j] \in DOMAIN patches /\ patches[o[j]].at = i
                              /\ A[j] = patches[o[j]].from /\ B[j] = patches[o[j]].to /\ M[j] = patches[o[j]].note
                              /\ A[j] \in Nat \ {0} /\ B[j] \in Nat /\ A[j] <= B[j] /\ B[j] <= Len(HtmlOf(i))
                              /\ Untagged(HtmlOf(i), A[j], B[j])
                              /\ M[j] \in DOMAIN notes /\ M[j] \in DOMAIN Marks /\ OrphanedNotes(M[j])
         /\ \A j, k \in 1 .. C : j < k => RightToLeft(o[j], o[k]) /\ A[k] <= A[j]
         /\ \A k \in DOMAIN patches : patches[k].at = i => \E j \in 1 .. C : o[j] = k
<1> DEFINE U == PatchesOf(i)
    R == {kl \in U \X U : RightToLeft(kl[1], kl[2])}
<1>1. C \in Nat /\ o \in [1 .. C -> U] /\ Range(o) = U /\ \A j, k \in 1 .. C : j < k => <<o[j], o[k]>> \in R
  <2>1. IsSorting(o, U, R) /\ C = Cardinality(U) /\ C \in Nat
    BY DEF InPlaces
  <2> HIDE DEF U, R
  <2> QED
    BY <2>1 DEF IsSorting
<1>2. /\ A = [j \in 1 .. C |-> patches[o[j]].from] /\ B = [j \in 1 .. C |-> patches[o[j]].to]
      /\ M = [j \in 1 .. C |-> patches[o[j]].note]
  BY DEF InPlaces
<1>3. HtmlOf(i) \in Seq(Symbols) /\ DOMAIN notes \subseteq DOMAIN Marks
  BY DEF Texts
<1>4. \A k \in U : k \in DOMAIN patches /\ patches[k].at = i
  BY DEF PatchesOf
<1>5. ASSUME NEW j \in 1 .. C
      PROVE  /\ o[j] \in DOMAIN patches /\ patches[o[j]].at = i
             /\ A[j] = patches[o[j]].from /\ B[j] = patches[o[j]].to /\ M[j] = patches[o[j]].note
             /\ A[j] \in Nat \ {0} /\ B[j] \in Nat /\ A[j] <= B[j] /\ B[j] <= Len(HtmlOf(i))
             /\ Untagged(HtmlOf(i), A[j], B[j])
             /\ M[j] \in DOMAIN notes /\ M[j] \in DOMAIN Marks /\ OrphanedNotes(M[j])
  <2>1. o[j] \in U
    BY <1>1
  <2>2. o[j] \in DOMAIN patches /\ patches[o[j]].at = i
    BY <1>4, <2>1
  <2>3. A[j] = patches[o[j]].from /\ B[j] = patches[o[j]].to /\ M[j] = patches[o[j]].note
    BY <1>2
  <2>4. Sound(o[j])
    BY <2>2
  <2> QED
    BY <1>3, <2>2, <2>3, <2>4 DEF Sound
<1>6. ASSUME NEW j \in 1 .. C, NEW k \in 1 .. C, j < k PROVE RightToLeft(o[j], o[k]) /\ A[k] <= A[j]
  <2>1. <<o[j], o[k]>> \in R
    BY <1>1, <1>6
  <2>2. RightToLeft(o[j], o[k])
    BY <2>1
  <2>3. A[j] \in Nat /\ A[k] \in Nat /\ A[j] = patches[o[j]].from /\ A[k] = patches[o[k]].from
    BY <1>5
  <2> QED
    BY <2>2, <2>3 DEF RightToLeft
<1>7. ASSUME NEW k \in DOMAIN patches, patches[k].at = i PROVE \E j \in 1 .. C : o[j] = k
  <2>1. k \in U
    BY <1>7 DEF PatchesOf
  <2>2. DOMAIN o = 1 .. C
    BY <1>1
  <2> HIDE DEF U, R
  <2> QED
    BY <1>1, <2>1, <2>2 DEF Range
<1> QED
  BY <1>1, <1>3, <1>5, <1>6, <1>7

(* apply_ref_patches is a chain of splices. *)
LEMMA PatchedIs ==
  ASSUME Texts, \A k \in DOMAIN patches : Sound(k), NEW i \in DOMAIN bodies
  PROVE  \E C, o, A, B, M, g : /\ InPlaces(i, C, o, A, B, M) /\ Chain(g, HtmlOf(i), C, A, B, M)
                               /\ Patched(i) = g[C]
<1>1. PICK C, o, A, B, M : InPlaces(i, C, o, A, B, M)
         /\ o = SortedBy(PatchesOf(i), {kl \in PatchesOf(i) \X PatchesOf(i) : RightToLeft(kl[1], kl[2])})
  BY PatchesOrdered
<1> DEFINE h == HtmlOf(i)
    X == Seq(Symbols)
    Then(g, j) == IF j = 0 THEN h ELSE Splice(g[j - 1], patches[o[j]])
    Solves(g) == g = [j \in 0 .. C |-> Then(g, j)]
    T == [w \in X \X (1 .. C) |->
            IF A[w[2]] <= Len(w[1]) + 1 THEN Spliced(w[1], A[w[2]], B[w[2]], M[w[2]]) ELSE w[1]]
<1>2. /\ C \in Nat /\ o \in [1 .. C -> PatchesOf(i)] /\ h \in X
      /\ \A j \in 1 .. C : /\ A[j] = patches[o[j]].from /\ B[j] = patches[o[j]].to /\ M[j] = patches[o[j]].note
                           /\ A[j] \in Nat \ {0} /\ B[j] \in Nat /\ A[j] <= B[j] /\ B[j] <= Len(h)
                           /\ M[j] \in DOMAIN Marks
      /\ \A j, k \in 1 .. C : j < k => A[k] <= A[j]
  <2>1. InPlaces(i, C, o, A, B, M)
    BY <1>1
  <2> QED
    BY <2>1, InPlacesIs
<1> HIDE DEF h, X
<1>3. StaysIn(T, X, C)
  <2>1. ASSUME NEW x \in X, NEW j \in 1 .. C, A[j] <= Len(x) + 1 PROVE Spliced(x, A[j], B[j], M[j]) \in X
    <3>1. x \in Seq(Symbols) /\ A[j] \in Nat \ {0} /\ B[j] \in Nat /\ A[j] <= B[j] /\ M[j] \in DOMAIN Marks
      BY <1>2 DEF X
    <3>2. IsSpliced(Spliced(x, A[j], B[j], M[j]), x, A[j], B[j], M[j])
      BY <2>1, <3>1, SpliceIs
    <3> QED
      BY <3>2 DEF IsSpliced, X
  <2>2. ASSUME NEW w \in X \X (1 .. C)
        PROVE  (IF A[w[2]] <= Len(w[1]) + 1 THEN Spliced(w[1], A[w[2]], B[w[2]], M[w[2]]) ELSE w[1]) \in X
    <3>1. w[1] \in X /\ w[2] \in 1 .. C
      OBVIOUS
    <3> QED
      BY <2>1, <3>1
  <2> QED
    BY <2>2 DEF StaysIn
<1>4. PICK f \in [0 .. C -> X] : f[0] = h /\ \A j \in 1 .. C : f[j] = T[<<f[j - 1], j>>]
  <2> HIDE DEF T
  <2> QED
    BY <1>2, <1>3, Iterated
<1>5. ASSUME NEW j \in 1 .. C, A[j] <= Len(f[j - 1]) + 1 PROVE f[j] = Spliced(f[j - 1], A[j], B[j], M[j])
  <2>1. f[j - 1] \in X
    <3>1. j - 1 \in 0 .. C
      BY <1>2
    <3> QED
      BY <3>1
  <2>2. T[<<f[j - 1], j>>] = Spliced(f[j - 1], A[j], B[j], M[j])
    BY <1>5, <2>1
  <2> QED
    BY <1>4, <2>2, Zenon
<1> HIDE DEF T
<1>6. Chain(f, h, C, A, B, M)
  BY <1>2, <1>4, <1>5 DEF Chain, X
<1>7. \A j \in 1 .. C : f[j] = Spliced(f[j - 1], A[j], B[j], M[j])
  <2>1. \A j \in 1 .. C : /\ f[j] = Spliced(f[j - 1], A[j], B[j], M[j])
                          /\ IsSpliced(f[j], f[j - 1], A[j], B[j], M[j])
    BY Zenon, <1>6, ChainIs
  <2> QED
    BY <2>1
<1>8. \A j \in 1 .. C : \A x : Splice(x, patches[o[j]]) = Spliced(x, A[j], B[j], M[j])
  BY Zenon, <1>2 DEF Splice, Spliced
<1>9. Solves(f)
  <2>1. f = [j \in 0 .. C |-> f[j]]
    OBVIOUS
  <2>2. ASSUME NEW j \in 0 .. C PROVE f[j] = Then(f, j)
    <3>1. CASE j = 0
      BY <1>4, <3>1
    <3>2. CASE j # 0
      <4>1. j \in 1 .. C
        BY <3>2
      <4> QED
        BY <1>7, <1>8, <3>2, <4>1
    <3> QED
      BY <3>1, <3>2
  <2> HIDE DEF Then
  <2> QED
    BY <2>1, <2>2
<1> DEFINE g == CHOOSE g : Solves(g)
<1>10. Solves(g)
  <2> HIDE DEF Solves
  <2> QED
    BY <1>9
<1>11. Patched(i) = g[C]
  <2>1. Len(o) = C
    <3>1. o = [j \in 1 .. C |-> o[j]]
      BY <1>2
    <3>2. Len([j \in 1 .. C |-> o[j]]) = C
      BY <1>2
    <3> QED
      BY <3>1, <3>2
  <2>2. Patched(i) = (CHOOSE g_ : g_ = [j \in 0 .. Len(o) |-> Then(g_, j)])[Len(o)]
    BY Zenon, <1>1 DEF Patched, h, HtmlOf
  <2> QED
    BY Zenon, <2>1, <2>2
<1> HIDE DEF g
<1>12. \A j \in 0 .. C : g[j] = Then(g, j)
  <2> HIDE DEF Then
  <2> QED
    BY <1>10
<1>13. g[0] = h
  <2>1. 0 \in 0 .. C
    BY <1>2
  <2> QED
    BY <1>12, <2>1
<1>14. ASSUME NEW j \in 1 .. C PROVE g[j] = Spliced(g[j - 1], A[j], B[j], M[j])
  <2>1. j \in 0 .. C /\ j # 0
    BY <1>2
  <2>2. g[j] = Splice(g[j - 1], patches[o[j]])
    BY <1>12, <2>1
  <2> QED
    BY <1>8, <2>2
<1> HIDE DEF Then, Solves
<1>15. Chain(g, h, C, A, B, M)
  BY <1>2, <1>13, <1>14 DEF Chain, X
<1>16. InPlaces(i, C, o, A, B, M)
  BY <1>1
<1> QED
  BY Zenon, <1>11, <1>15, <1>16 DEF h

(* RefsTo, for any texts. *)
RefsIn(texts, n) ==
  UNION {{<<i, p>> : p \in {p \in DOMAIN texts[i].html : Intact(texts[i].html, n, p)}} :
           i \in DOMAIN texts}

(* All patches are sound, one for each footnote. *)
PatchesSound ==
  /\ \A k \in DOMAIN patches : Sound(k)
  /\ \A k, l \in DOMAIN patches : patches[k].note = patches[l].note => k = l

(* A ref is a position of a text where the tag is whole. *)
LEMMA RefsAt ==
  ASSUME NEW texts, NEW n
  PROVE  \A x : x \in RefsIn(texts, n) <=>
           \E i \in DOMAIN texts : \E p \in DOMAIN texts[i].html : x = <<i, p>> /\ Intact(texts[i].html, n, p)
  BY DEF RefsIn

(* An orphaned footnote has its tag in no text. *)
LEMMA OrphanedIs ==
  ASSUME NEW n PROVE OrphanedNotes(n) <=> \A i \in DOMAIN bodies : ~Has(HtmlOf(i), n)
<1>1. \A x : x \in RefsTo(n) <=>
        \E i \in DOMAIN bodies : \E p \in DOMAIN bodies[i].html : x = <<i, p>> /\ Intact(bodies[i].html, n, p)
  BY RefsAt DEF RefsTo, RefsIn
<1> QED
  BY <1>1 DEF OrphanedNotes, Has, HtmlOf

(* At most one ref: in one text and once. *)
LEMMA OneIs ==
  ASSUME NEW n, AtMostOne(n), NEW i \in DOMAIN bodies
  PROVE  OnlyOne(HtmlOf(i), n) /\ \A j \in DOMAIN bodies : Has(HtmlOf(i), n) /\ Has(HtmlOf(j), n) => i = j
<1>1. \A x : x \in RefsTo(n) <=>
        \E j \in DOMAIN bodies : \E p \in DOMAIN bodies[j].html : x = <<j, p>> /\ Intact(bodies[j].html, n, p)
  BY RefsAt DEF RefsTo, RefsIn
<1>2. \A x, y \in RefsTo(n) : x = y
  BY DEF AtMostOne
<1>3. ASSUME NEW p \in DOMAIN HtmlOf(i), NEW j \in DOMAIN bodies, NEW q \in DOMAIN HtmlOf(j),
             Intact(HtmlOf(i), n, p), Intact(HtmlOf(j), n, q)
      PROVE  i = j /\ p = q
  <2>1. <<i, p>> \in RefsTo(n) /\ <<j, q>> \in RefsTo(n)
    BY <1>1, <1>3 DEF HtmlOf
  <2>2. <<i, p>> = <<j, q>>
    BY <1>2, <2>1
  <2> QED
    BY <2>2
<1> QED
  BY <1>3 DEF OnlyOne, Has

(* Patching an element puts no second tag of a footnote there. *)
LEMMA PatchedOnce ==
  ASSUME Texts, PatchesSound, NEW i \in DOMAIN bodies, NEW n \in DOMAIN Marks
  PROVE  /\ OnlyOne(HtmlOf(i), n) => OnlyOne(Patched(i), n)
         /\ Has(Patched(i), n) => \/ Has(HtmlOf(i), n)
                                  \/ \E k \in DOMAIN patches : patches[k].at = i /\ patches[k].note = n
<1>0. \A k \in DOMAIN patches : Sound(k)
  BY DEF PatchesSound
<1>1. PICK C, o, A, B, M, g : /\ InPlaces(i, C, o, A, B, M) /\ Chain(g, HtmlOf(i), C, A, B, M)
                              /\ Patched(i) = g[C]
  BY <1>0, PatchedIs
<1>2. /\ C \in Nat
      /\ \A j \in 1 .. C : /\ o[j] \in DOMAIN patches /\ patches[o[j]].at = i /\ M[j] = patches[o[j]].note
                           /\ OrphanedNotes(M[j])
      /\ \A j, k \in 1 .. C : j < k => RightToLeft(o[j], o[k])
  BY <1>0, <1>1, InPlacesIs
<1>3. \A j, k \in 1 .. C : M[j] = M[k] => j = k
  <2> SUFFICES ASSUME NEW j \in 1 .. C, NEW k \in 1 .. C, M[j] = M[k], j < k PROVE FALSE
    <3>1. \A j, k \in 1 .. C : j = k \/ j < k \/ k < j
      BY <1>2
    <3> QED
      BY <3>1
  <2>1. o[j] = o[k]
    BY <1>2 DEF PatchesSound
  <2>2. RightToLeft(o[j], o[k])
    BY <1>2
  <2>3. patches[o[j]].from \in Nat /\ o[j] \in Nat
    <3>1. o[j] \in DOMAIN patches
      BY <1>2
    <3> QED
      BY <1>0, <3>1 DEF Sound, Texts
  <2> QED
    BY <2>1, <2>2, <2>3 DEF RightToLeft
<1>4. \A j \in 1 .. C : ~Has(HtmlOf(i), M[j])
  BY <1>2, OrphanedIs
<1>6. \A m \in DOMAIN Marks : /\ OnlyOne(HtmlOf(i), m) => OnlyOne(g[C], m)
                              /\ Has(g[C], m) => Has(HtmlOf(i), m) \/ \E k \in 1 .. C : M[k] = m
  BY <1>1, <1>3, <1>4, ChainOnce
<1> QED
  BY <1>1, <1>2, <1>6

(* In order and without overlap, each place ends before the one on its right. *)
LEMMA NoClash ==
  ASSUME Texts, PatchesSound, NEW i \in DOMAIN bodies,
         NEW C, NEW o, NEW A, NEW B, NEW M, InPlaces(i, C, o, A, B, M),
         ~ \E k, l \in DOMAIN patches : patches[k].at = i /\ Clash(k, l)
  PROVE  Apart(C, A, B)
<1>0. \A k \in DOMAIN patches : Sound(k)
  BY DEF PatchesSound
<1>2. /\ C \in Nat
      /\ \A j \in 1 .. C : /\ o[j] \in DOMAIN patches /\ patches[o[j]].at = i
                           /\ A[j] = patches[o[j]].from /\ B[j] = patches[o[j]].to
                           /\ A[j] \in Nat \ {0} /\ B[j] \in Nat /\ A[j] <= B[j]
      /\ \A j, k \in 1 .. C : j < k => RightToLeft(o[j], o[k]) /\ A[k] <= A[j]
  BY <1>0, InPlacesIs
<1> SUFFICES ASSUME NEW j \in 1 .. C, NEW k \in 1 .. C, j < k PROVE B[k] < A[j]
  BY DEF Apart
<1>3. /\ o[j] \in DOMAIN patches /\ o[k] \in DOMAIN patches /\ patches[o[j]].at = i /\ patches[o[k]].at = i
      /\ A[j] = patches[o[j]].from /\ B[j] = patches[o[j]].to
      /\ A[k] = patches[o[k]].from /\ B[k] = patches[o[k]].to
      /\ A[j] \in Nat /\ B[j] \in Nat /\ A[k] \in Nat /\ B[k] \in Nat /\ A[j] <= B[j] /\ A[k] <= A[j]
  BY <1>2
<1>4. o[j] # o[k]
  <2>1. RightToLeft(o[j], o[k]) /\ o[j] \in Nat
    BY <1>2, <1>3 DEF Texts
  <2> QED
    BY <1>3, <2>1 DEF RightToLeft
<1>5. ~Clash(o[j], o[k])
  BY <1>3
<1>6. ~(A[j] <= B[k] /\ A[k] <= B[j])
  BY <1>3, <1>4, <1>5 DEF Clash
<1> QED
  BY <1>3, <1>6

(* Without overlap all patches of the element become tags, and numbers only go. *)
LEMMA PatchedStays ==
  ASSUME Texts, PatchesSound, NEW i \in DOMAIN bodies,
         ~ \E k, l \in DOMAIN patches : patches[k].at = i /\ Clash(k, l)
  PROVE  /\ \A n \in DOMAIN Marks :
              Has(HtmlOf(i), n) \/ (\E k \in DOMAIN patches : patches[k].at = i /\ patches[k].note = n) => Has(Patched(i), n)
         /\ \A digits, p, e : Loose(Patched(i), p, e, digits) => \E q, f : Loose(HtmlOf(i), q, f, digits)
<1>0. \A k \in DOMAIN patches : Sound(k)
  BY DEF PatchesSound
<1>1. PICK C, o, A, B, M, g : /\ InPlaces(i, C, o, A, B, M) /\ Chain(g, HtmlOf(i), C, A, B, M)
                              /\ Patched(i) = g[C]
  BY <1>0, PatchedIs
<1>2. /\ \A j \in 1 .. C : M[j] = patches[o[j]].note /\ Untagged(HtmlOf(i), A[j], B[j])
      /\ \A k \in DOMAIN patches : patches[k].at = i => \E j \in 1 .. C : o[j] = k
  BY <1>0, <1>1, InPlacesIs
<1>3. Apart(C, A, B)
  BY <1>1, NoClash
<1>4. \A n \in DOMAIN Marks : Has(HtmlOf(i), n) \/ (\E k \in 1 .. C : M[k] = n) => Has(g[C], n)
  BY <1>1, <1>2, <1>3, ChainStays
<1>5. \A digits, p, e : Loose(g[C], p, e, digits) => \E q, f : Loose(HtmlOf(i), q, f, digits)
  BY <1>1, <1>2, <1>3, ChainStays
<1>6. \A n \in DOMAIN Marks :
        Has(HtmlOf(i), n) \/ (\E k \in DOMAIN patches : patches[k].at = i /\ patches[k].note = n) => Has(g[C], n)
  BY <1>2, <1>4
<1> QED
  BY <1>1, <1>5, <1>6

(* Without overlap a patched element is what was intended. *)
LEMMA PatchedIntended ==
  ASSUME Texts, PatchesSound, NEW i \in DOMAIN bodies,
         ~ \E k, l \in DOMAIN patches : patches[k].at = i /\ Clash(k, l)
  PROVE  Patched(i) = Intended(i)
<1>0. \A k \in DOMAIN patches : Sound(k)
  BY DEF PatchesSound
<1>1. PICK C, o, A, B, M, g : /\ InPlaces(i, C, o, A, B, M) /\ Chain(g, HtmlOf(i), C, A, B, M)
                              /\ Patched(i) = g[C]
  BY <1>0, PatchedIs
<1>2. /\ C \in Nat /\ HtmlOf(i) \in Seq(Symbols)
      /\ \A j \in 1 .. C : /\ o[j] \in DOMAIN patches /\ patches[o[j]].at = i
                           /\ A[j] = patches[o[j]].from /\ B[j] = patches[o[j]].to /\ M[j] = patches[o[j]].note
                           /\ A[j] \in Nat \ {0} /\ B[j] \in Nat /\ A[j] <= B[j] /\ B[j] <= Len(HtmlOf(i))
                           /\ M[j] \in DOMAIN Marks
      /\ \A k \in DOMAIN patches : patches[k].at = i => \E j \in 1 .. C : o[j] = k
  <2>1. InPlaces(i, C, o, A, B, M)
    BY <1>1
  <2>2. C \in Nat /\ HtmlOf(i) \in Seq(Symbols)
    BY <1>0, <2>1, InPlacesIs
  <2>3. ASSUME NEW j \in 1 .. C
        PROVE  /\ o[j] \in DOMAIN patches /\ patches[o[j]].at = i
               /\ A[j] = patches[o[j]].from /\ B[j] = patches[o[j]].to /\ M[j] = patches[o[j]].note
    BY <1>0, <2>1, InPlacesIs
  <2>4. ASSUME NEW j \in 1 .. C
        PROVE  /\ A[j] \in Nat \ {0} /\ B[j] \in Nat /\ A[j] <= B[j] /\ B[j] <= Len(HtmlOf(i))
               /\ M[j] \in DOMAIN Marks
    BY <1>0, <2>1, InPlacesIs
  <2>5. \A k \in DOMAIN patches : patches[k].at = i => \E j \in 1 .. C : o[j] = k
    BY <1>0, <2>1, InPlacesIs
  <2> QED
    BY <2>2, <2>3, <2>4, <2>5
<1>3. Apart(C, A, B)
  BY <1>1, NoClash
<1> DEFINE here == PatchesOf(i)
    h == HtmlOf(i)
    Piece(p) == IF \E k \in here : patches[k].from = p
                THEN RefTag(patches[CHOOSE k \in here : patches[k].from = p].note)
                ELSE IF \E k \in here : p \in patches[k].from .. patches[k].to THEN <<>> ELSE <<h[p]>>
    t == [p \in DOMAIN h |-> Piece(p)]
<1>4. Intended(i) = FlattenSeq(t)
  BY Zenon DEF Intended, HtmlOf
<1>5. \A k : k \in here <=> k \in DOMAIN patches /\ patches[k].at = i
  BY DEF PatchesOf
<1>6. \A k \in here : patches[k].from \in Nat \ {0} /\ patches[k].to \in Nat /\ patches[k].from <= patches[k].to
                      /\ patches[k].note \in DOMAIN Marks
  BY <1>0, <1>5 DEF Sound, Texts
<1>7. \A j \in 1 .. C : o[j] \in here
  BY <1>2, <1>5
<1>8. \A k \in here : \E j \in 1 .. C : o[j] = k
  BY <1>2, <1>5
<1>9. \A k, l \in here : k # l => ~(patches[k].from <= patches[l].to /\ patches[l].from <= patches[k].to)
  BY <1>5 DEF Clash
<1> HIDE DEF here, h
<1>10. h \in Seq(Symbols) /\ Len(h) \in Nat /\ DOMAIN h = 1 .. Len(h)
  BY <1>2 DEF h
<1> HIDE DEF Symbols
<1>11. ASSUME NEW j \in 1 .. C PROVE Piece(A[j]) = RefTag(M[j])
  <2>1. o[j] \in here /\ patches[o[j]].from = A[j] /\ M[j] = patches[o[j]].note
    BY <1>2, <1>7
  <2> DEFINE k == CHOOSE k \in here : patches[k].from = A[j]
  <2>2. k \in here /\ patches[k].from = A[j]
    BY <2>1
  <2> HIDE DEF k
  <2>3. k = o[j]
    <3>1. /\ patches[k].from \in Nat /\ patches[k].to \in Nat /\ patches[k].from <= patches[k].to
          /\ patches[o[j]].to \in Nat /\ patches[o[j]].from <= patches[o[j]].to
      BY <1>6, <2>1, <2>2
    <3>2. patches[k].from <= patches[o[j]].to /\ patches[o[j]].from <= patches[k].to
      BY <2>1, <2>2, <3>1
    <3> QED
      BY <1>9, <2>1, <2>2, <3>2
  <2>4. Piece(A[j]) = RefTag(patches[k].note)
    BY Zenon, <2>1 DEF k
  <2> QED
    BY <2>1, <2>3, <2>4
<1>12. ASSUME NEW j \in 1 .. C, NEW p \in A[j] + 1 .. B[j] PROVE Piece(p) = <<>>
  <2>1. /\ o[j] \in here /\ patches[o[j]].from = A[j] /\ patches[o[j]].to = B[j]
        /\ A[j] \in Nat /\ B[j] \in Nat /\ p \in Nat /\ p \in A[j] .. B[j] /\ A[j] < p /\ p <= B[j]
    BY <1>2, <1>7
  <2>2. ASSUME NEW k \in here, patches[k].from = p PROVE FALSE
    <3>1. patches[k].from \in Nat /\ patches[k].to \in Nat /\ patches[k].from <= patches[k].to
      BY <1>6
    <3>2. k # o[j]
      BY <2>1, <2>2
    <3>3. patches[k].from <= patches[o[j]].to /\ patches[o[j]].from <= patches[k].to
      BY <2>1, <2>2, <3>1
    <3> QED
      BY <1>9, <2>1, <3>2, <3>3
  <2>3. \E k \in here : p \in patches[k].from .. patches[k].to
    BY <2>1
  <2> QED
    BY Zenon, <2>2, <2>3
<1>13. ASSUME NEW p \in 1 .. Len(h), \A j \in 1 .. C : p < A[j] \/ p > B[j] PROVE Piece(p) = <<h[p]>>
  <2>1. ASSUME NEW k \in here, p \in patches[k].from .. patches[k].to PROVE FALSE
    <3>1. PICK j \in 1 .. C : o[j] = k
      BY <1>8
    <3>2. A[j] = patches[k].from /\ B[j] = patches[k].to /\ A[j] \in Nat /\ B[j] \in Nat
      BY <1>2, <3>1
    <3>3. A[j] <= p /\ p <= B[j] /\ p \in Nat
      BY <2>1, <3>2
    <3> QED
      BY <1>13, <3>2, <3>3
  <2>2. ASSUME NEW k \in here, patches[k].from = p PROVE FALSE
    <3>1. p \in patches[k].from .. patches[k].to
      BY <1>6, <2>2
    <3> QED
      BY <2>1, <3>1
  <2> QED
    BY Zenon, <2>1, <2>2
<1>14. \A p \in 1 .. Len(h) : Piece(p) \in Seq(Symbols)
  <2> SUFFICES ASSUME NEW p \in 1 .. Len(h) PROVE Piece(p) \in Seq(Symbols)
    OBVIOUS
  <2>1. CASE \E j \in 1 .. C : A[j] = p
    <3>1. PICK j \in 1 .. C : A[j] = p
      BY <2>1
    <3>2. RefTag(M[j]) \in Seq(Symbols)
      BY <1>2, MarkFacts
    <3>3. Piece(p) = RefTag(M[j])
      BY <1>11, <3>1
    <3> HIDE DEF Piece
    <3> QED
      BY <3>2, <3>3
  <2>2. CASE \E j \in 1 .. C : p \in A[j] + 1 .. B[j]
    <3>1. Piece(p) = <<>>
      BY <1>12, <2>2
    <3> HIDE DEF Piece
    <3> QED
      BY <3>1
  <2>3. CASE ~(\E j \in 1 .. C : A[j] = p) /\ ~(\E j \in 1 .. C : p \in A[j] + 1 .. B[j])
    <3>1. \A j \in 1 .. C : p < A[j] \/ p > B[j]
      BY <1>2, <2>3
    <3>2. Piece(p) = <<h[p]>>
      BY <1>13, <3>1
    <3>3. h[p] \in Symbols
      BY <1>10
    <3> HIDE DEF Piece
    <3> QED
      BY <3>2, <3>3
  <2> QED
    BY <2>1, <2>2, <2>3
<1> HIDE DEF Piece
<1>15. t \in Seq(Seq(Symbols)) /\ Len(t) = Len(h) /\ \A p \in 1 .. Len(h) : t[p] = Piece(p)
  <2>1. t = [p \in 1 .. Len(h) |-> Piece(p)]
    BY <1>10
  <2> HIDE DEF t
  <2> QED
    BY <1>10, <1>14, <2>1
<1> HIDE DEF t
<1>16. Becomes(t, h, C, A, B, M)
  <2>1. ASSUME NEW j \in 1 .. C PROVE A[j] \in 1 .. Len(h) /\ \A p \in A[j] + 1 .. B[j] : p \in 1 .. Len(h)
    <3>1. A[j] \in Nat \ {0} /\ B[j] \in Nat /\ A[j] <= B[j] /\ B[j] <= Len(h)
      BY <1>2 DEF h
    <3> QED
      BY <1>10, <3>1
  <2>2. ASSUME NEW j \in 1 .. C PROVE t[A[j]] = RefTag(M[j]) /\ \A p \in A[j] + 1 .. B[j] : t[p] = <<>>
    BY <1>11, <1>12, <1>15, <2>1
  <2>3. ASSUME NEW p \in 1 .. Len(h), \A j \in 1 .. C : p < A[j] \/ p > B[j] PROVE t[p] = <<h[p]>>
    BY <1>13, <1>15, <2>3
  <2> QED
    BY <1>15, <2>2, <2>3 DEF Becomes
<1>17. Chain(g, h, C, A, B, M)
  BY <1>1 DEF h
<1>18. g[C] = FlattenSeq(t)
  BY <1>3, <1>16, <1>17, ChainBecomes
<1> QED
  BY <1>1, <1>4, <1>18

(* -- Candidates and picks. -- *)
OnPage(i, n) == SamePage => bodies[i].page = notes[n].page

(* Candidates, of texts in general. *)
CandidatesIn(texts, sheet, digits) ==
  UNION {{[at |-> i, node |-> x[1], from |-> x[2][1], to |-> x[2][2]] : x \in Spots(texts[i].html, digits)} :
         i \in {i \in DOMAIN texts : SamePage => texts[i].page = sheet}}

(* A candidate, in any texts: a place outside tags, loose or right before a tag. *)
LEMMA CandidateIn ==
  ASSUME NEW texts, NEW L \in Nat, DOMAIN texts = 1 .. L, \A i \in DOMAIN texts : texts[i].html \in Seq(Symbols),
         NEW sheet, NEW digits, NEW c \in CandidatesIn(texts, sheet, digits)
  PROVE  /\ c.at \in DOMAIN texts /\ (SamePage => texts[c.at].page = sheet) /\ c # None0
         /\ c.from \in Nat \ {0} /\ c.to \in Nat /\ c.from <= c.to /\ c.to <= Len(texts[c.at].html)
         /\ Untagged(texts[c.at].html, c.from, c.to)
         /\ \/ Loose(texts[c.at].html, c.from, c.to, digits)
            \/ c.to < Len(texts[c.at].html) /\ texts[c.at].html[c.to + 1] = "<"
<1>1. PICK i \in {i \in DOMAIN texts : SamePage => texts[i].page = sheet} :
         \E x \in Spots(texts[i].html, digits) :
           c = [at |-> i, node |-> x[1], from |-> x[2][1], to |-> x[2][2]]
  BY Zenon DEF CandidatesIn
<1>2. PICK x \in Spots(texts[i].html, digits) :
         c = [at |-> i, node |-> x[1], from |-> x[2][1], to |-> x[2][2]]
  BY <1>1
<1> DEFINE h == texts[i].html
<1>3. h \in Seq(Symbols) /\ i \in DOMAIN texts
  BY <1>1
<1>4. x \in Spots(h, digits)
  OBVIOUS
<1> HIDE DEF h, Symbols
<1>5. PICK p \in 1 .. Len(h) : \E e \in p .. Len(h) :
        /\ x[2] = <<p, e>> /\ Untagged(h, p, e)
        /\ Loose(h, p, e, digits) \/ (e < Len(h) /\ h[e + 1] = "<")
  BY <1>3, <1>4, SpotIs
<1>6. PICK e \in p .. Len(h) :
        /\ x[2] = <<p, e>> /\ Untagged(h, p, e)
        /\ Loose(h, p, e, digits) \/ (e < Len(h) /\ h[e + 1] = "<")
  BY <1>5
<1>7. c.at = i /\ c.from = p /\ c.to = e
  BY <1>2, <1>6
<1>8. p \in Nat /\ p # 0 /\ e \in Nat /\ p <= e /\ e <= Len(h)
  BY <1>3
<1>9. c # None0
  <2>1. c.at # 0
    BY <1>3, <1>7
  <2> QED
    BY <2>1 DEF None0
<1> QED
  BY <1>1, <1>3, <1>6, <1>7, <1>8, <1>9 DEF h

(* The same of the candidates of a footnote. *)
LEMMA CandidateIs ==
  ASSUME Texts, NEW n, NEW c \in Candidates(n)
  PROVE  /\ c.at \in DOMAIN bodies /\ OnPage(c.at, n) /\ c # None0
         /\ c.from \in Nat \ {0} /\ c.to \in Nat /\ c.from <= c.to /\ c.to <= Len(HtmlOf(c.at))
         /\ Untagged(HtmlOf(c.at), c.from, c.to)
<1>1. c \in CandidatesIn(bodies, notes[n].page, DigitsOf(notes[n].number))
  BY DEF Candidates, CandidatesIn
<1>2. DOMAIN bodies = 1 .. Len(bodies) /\ Len(bodies) \in Nat /\ \A i \in DOMAIN bodies : bodies[i].html \in Seq(Symbols)
  BY DEF Texts, HtmlOf
<1> HIDE DEF Symbols
<1>3. /\ c.at \in DOMAIN bodies /\ (SamePage => bodies[c.at].page = notes[n].page) /\ c # None0
      /\ c.from \in Nat \ {0} /\ c.to \in Nat /\ c.from <= c.to /\ c.to <= Len(bodies[c.at].html)
      /\ Untagged(bodies[c.at].html, c.from, c.to)
  BY <1>1, <1>2, CandidateIn
<1> QED
  BY <1>3 DEF OnPage, HtmlOf

(* A loose number on the page makes for a candidate. *)
LEMMA LooseCandidate ==
  ASSUME Texts, NEW n, NEW i \in DOMAIN bodies, OnPage(i, n), NEW p, NEW e,
         Loose(HtmlOf(i), p, e, DigitsOf(notes[n].number))
  PROVE  Candidates(n) # {}
<1>1. HtmlOf(i) \in Seq(Symbols)
  BY DEF Texts
<1>2. PICK x : x \in Spots(HtmlOf(i), DigitsOf(notes[n].number))
  BY <1>1, LooseFound
<1>3. [at |-> i, node |-> x[1], from |-> x[2][1], to |-> x[2][2]] \in Candidates(n)
  <2>1. i \in {j \in DOMAIN bodies : SamePage => bodies[j].page = notes[n].page}
    BY DEF OnPage
  <2>2. x \in Spots(bodies[i].html, DigitsOf(notes[n].number))
    BY <1>2 DEF HtmlOf
  <2> QED
    BY <2>1, <2>2 DEF Candidates
<1> QED
  BY <1>3

(* What a resolver picks, and when it picks none. *)
LEMMA PickIs ==
  ASSUME NEW cs, NEW least \in Nat, None0 \notin cs, \A c \in cs : c.at \in Nat,
         NEW best \in Picks(cs, least)
  PROVE  /\ best = None0 \/ best \in cs
         /\ resolver = "simple" /\ best = None0 => cs = {}
         /\ resolver = "llm" /\ best # None0 => best.at >= least \/ \A c \in cs : c.at < least
<1>1. CASE cs = {}
  <2>1. best = None0
    BY <1>1 DEF Picks
  <2> QED
    BY <1>1, <2>1
<1>2. CASE cs # {} /\ resolver = "simple"
  <2>1. best \in SimpleChoice(cs, least)
    BY <1>2 DEF Picks
  <2>2. best \in cs
    BY <2>1 DEF SimpleChoice
  <2>3. best # None0 /\ "simple" # "llm"
    BY <2>2
  <2> QED
    BY <1>2, <2>2, <2>3
<1>3. CASE cs # {} /\ resolver # "simple"
  <2> DEFINE ps == Preferred(cs, least)
  <2>1. best \in ps \/ best = None0
    <3>1. Picks(cs, least) = IF Cardinality(ps) = 1 THEN ps ELSE ps \cup {None0}
      BY <1>3 DEF Picks
    <3> HIDE DEF ps
    <3> QED
      BY <3>1
  <2>2. ps \subseteq cs /\ \A c \in ps : c.at >= least \/ \A d \in cs : d.at < least
    BY DEF Preferred
  <2> HIDE DEF ps
  <2> QED
    BY <1>3, <2>1, <2>2
<1> QED
  BY <1>1, <1>2, <1>3

(* -- The inductive invariant. -- *)
Places == [note : Nat, at : Nat, from : Nat, to : Nat, least : Nat]

(* The types. *)
RefsTyped ==
  /\ bodies \in Seq([page : Nat, html : Seq(Symbols)])
  /\ notes \in Seq([page : Nat, number : 0 .. 99]) /\ Len(notes) <= Len(Marks)
  /\ patches \in Seq(Places) /\ queue \in Seq(Nat) /\ lastAt \in Nat

(* What a footnote still without a ref is waiting for. *)
Pending(n) ==
  \/ \E j \in DOMAIN queue : queue[j] = n
  \/ \E k \in DOMAIN patches : patches[k].note = n
  \/ Candidates(n) = {}

(* While a run is under way: the queue, the patches, and who is left out by rules. *)
Underway ==
  /\ \A j \in DOMAIN queue : \A n : n = queue[j] => n \in DOMAIN notes /\ OrphanedNotes(n)
  /\ \A j, k \in DOMAIN queue : queue[j] = queue[k] => j = k
  /\ \A j \in DOMAIN queue : \A k \in DOMAIN patches : queue[j] # patches[k].note
  /\ PatchesSound
  /\ resolver = "simple" => \A n \in DOMAIN notes : OrphanedNotes(n) => Pending(n)

(* The inductive invariant. *)
RefsInv == RefsTyped /\ InOrder /\ (resolving => Underway)

(* The types of what is patched follow. *)
LEMMA TypedTexts == ASSUME RefsTyped PROVE Texts
<1>1. /\ bodies \in Seq([page : Nat, html : Seq(Symbols)]) /\ patches \in Seq(Places)
      /\ notes \in Seq([page : Nat, number : 0 .. 99]) /\ Len(notes) <= Len(Marks)
  BY DEF RefsTyped
<1>2. Marks \in Seq(STRING)
  BY FootnoteConstants
<1> HIDE DEF Symbols, Places
<1>3. DOMAIN notes \subseteq DOMAIN Marks
  BY <1>1, <1>2
<1>4. DOMAIN bodies = 1 .. Len(bodies) /\ Len(bodies) \in Nat /\ DOMAIN patches = 1 .. Len(patches) /\ Len(patches) \in Nat
  BY <1>1
<1>5. ASSUME NEW i \in DOMAIN bodies
      PROVE  bodies[i] \in [page : Nat, html : Seq(Symbols)] /\ HtmlOf(i) \in Seq(Symbols)
  <2> DEFINE Body == [page : Nat, html : Seq(Symbols)]
  <2>1. bodies[i] \in Body
    <3>1. bodies \in Seq(Body)
      BY <1>1
    <3> HIDE DEF Body
    <3> QED
      BY <3>1
  <2> QED
    BY <2>1 DEF HtmlOf
<1> QED
  BY <1>1, <1>3, <1>4, <1>5 DEF Texts

(* What depends on the texts and the footnotes alone. *)
LEMMA TextsKept ==
  ASSUME UNCHANGED <<bodies, notes>>
  PROVE  \A n : /\ Candidates(n)' = Candidates(n)
                /\ (OrphanedNotes(n)' <=> OrphanedNotes(n)) /\ (AtMostOne(n)' <=> AtMostOne(n))
<1>1. \A n : Candidates(n)' = Candidates(n)
  BY DEF Candidates
<1>2. \A n : RefsTo(n)' = RefsTo(n)
  BY DEF RefsTo, RefsIn
<1> QED
  BY <1>1, <1>2 DEF OrphanedNotes, AtMostOne

(* It holds at first. *)
LEMMA RefsFirst == FootnotesInit => RefsInv
<1> SUFFICES ASSUME FootnotesInit PROVE RefsInv
  OBVIOUS
<1>1. bodies \in Pages /\ notes \in NoteLists /\ queue = <<>> /\ patches = <<>> /\ lastAt = 0 /\ resolving = FALSE
  BY DEF FootnotesInit
<1>2. RefsTyped
  <2>1. /\ bodies \in Seq([page : Nat, html : Seq(Symbols)])
        /\ notes \in Seq([page : Nat, number : 0 .. 99]) /\ Len(notes) <= Len(Marks)
    BY <1>1, FootnoteConstants
  <2>2. <<>> \in Seq(Places) /\ <<>> \in Seq(Nat) /\ 0 \in Nat
    OBVIOUS
  <2> QED
    BY Zenon, <1>1, <2>1, <2>2 DEF RefsTyped
<1>4. InOrder
  BY <1>1 DEF InOrder
<1> QED
  BY <1>1, <1>2, <1>4 DEF RefsInv

(* It holds when a run has begun. *)
LEMMA RefsBegin == ASSUME RefsInv, Begin PROVE RefsInv'
<1> DEFINE U == {n \in DOMAIN notes : OrphanedNotes(n)}
    R == {nm \in (DOMAIN notes) \X (DOMAIN notes) : ByNumber(nm[1], nm[2])}
    C == Cardinality(U)
<1>1. /\ queue' = SortedBy(U, R) /\ patches' = <<>> /\ lastAt' = 0 /\ resolving' = TRUE
      /\ UNCHANGED <<bodies, notes, resolver>>
  BY DEF Begin
<1>2. RefsTyped
  BY DEF RefsInv
<1>3. DOMAIN notes = 1 .. Len(notes) /\ Len(notes) \in Nat /\ \A n \in DOMAIN notes : notes[n].number \in Nat
  <2> DEFINE Note == [page : Nat, number : 0 .. 99]
  <2>1. notes \in Seq(Note)
    BY <1>2 DEF RefsTyped
  <2>2. \A x \in Note : x.number \in Nat
    OBVIOUS
  <2> HIDE DEF Note
  <2> QED
    BY <2>1, <2>2
<1>4. U \subseteq 1 .. Len(notes) /\ \A n \in U : n \in DOMAIN notes /\ n \in Nat
  BY <1>3
<1>5. \A n, m \in U : <<n, m>> \in R <=>
        notes[n].number < notes[m].number \/ (notes[n].number = notes[m].number /\ n < m)
  BY DEF ByNumber
<1>6. \A n : n \in U <=> n \in DOMAIN notes /\ OrphanedNotes(n)
  OBVIOUS
<1> HIDE DEF U, R
<1>7. Precedes(R, U)
  <2>1. \A n, k \in U : n # k => <<n, k>> \in R \/ <<k, n>> \in R
    BY <1>3, <1>4, <1>5
  <2>2. \A n, k, j \in U : <<n, k>> \in R /\ <<k, j>> \in R => <<n, j>> \in R
    BY <1>3, <1>4, <1>5
  <2>3. \A n \in U : <<n, n>> \notin R
    BY <1>3, <1>4, <1>5
  <2> QED
    BY <2>1, <2>2, <2>3 DEF Precedes
<1>8. C \in Nat /\ IsSorting(queue', U, R)
  BY <1>1, <1>3, <1>4, <1>7, Sortable
<1>9. /\ queue' \in [1 .. C -> U] /\ Range(queue') = U
      /\ \A j, k \in 1 .. C : j < k => <<queue'[j], queue'[k]>> \in R
  BY <1>8 DEF IsSorting
<1> HIDE DEF C
<1>10. DOMAIN queue' = 1 .. C /\ queue' \in Seq(Nat)
  <2>1. queue' \in [1 .. C -> Nat]
    BY <1>4, <1>9
  <2> QED
    BY <1>8, <2>1
<1>11. \A j \in DOMAIN queue' : queue'[j] \in U
  BY <1>9, <1>10
<1>12. \A j, k \in DOMAIN queue' : queue'[j] = queue'[k] => j = k
  <2> SUFFICES ASSUME NEW j \in 1 .. C, NEW k \in 1 .. C, queue'[j] = queue'[k], j # k PROVE FALSE
    BY <1>10
  <2>1. <<queue'[j], queue'[k]>> \in R \/ <<queue'[k], queue'[j]>> \in R
    BY <1>8, <1>9
  <2> QED
    BY <1>7, <1>10, <1>11, <2>1 DEF Precedes
<1>13. \A n \in U : \E j \in DOMAIN queue' : queue'[j] = n
  BY <1>9 DEF Range
<1>14. RefsTyped'
  <2>1. <<>> \in Seq(Places) /\ 0 \in Nat
    OBVIOUS
  <2> QED
    BY Zenon, <1>1, <1>2, <1>10, <2>1 DEF RefsTyped
<1>15. DOMAIN patches' = {}
  BY <1>1
<1>16. InOrder'
  BY <1>15 DEF InOrder
<1>17. \A n : OrphanedNotes(n)' <=> OrphanedNotes(n)
  BY <1>1, TextsKept
<1>18. Underway'
  <2>1. \A j \in DOMAIN queue' : \A n : n = queue'[j] => n \in DOMAIN notes' /\ OrphanedNotes(n)'
    BY <1>1, <1>6, <1>11, <1>17
  <2>2. PatchesSound'
    BY <1>15 DEF PatchesSound
  <2>3. \A n \in DOMAIN notes' : OrphanedNotes(n)' => Pending(n)'
    BY <1>1, <1>6, <1>13, <1>17 DEF Pending
  <2> QED
    BY <1>12, <1>15, <2>1, <2>2, <2>3 DEF Underway
<1> QED
  BY <1>14, <1>16, <1>18 DEF RefsInv

(* The queue without its head. *)
LEMMA QueueTail ==
  ASSUME NEW q \in Seq(Nat), q # <<>>
  PROVE  /\ Tail(q) \in Seq(Nat) /\ Head(q) = q[1] /\ 1 \in DOMAIN q
         /\ \A j \in DOMAIN Tail(q) : j + 1 \in DOMAIN q /\ j + 1 # 1 /\ Tail(q)[j] = q[j + 1] /\ j \in Nat
         /\ \A j \in DOMAIN q : j # 1 => j - 1 \in DOMAIN Tail(q) /\ Tail(q)[j - 1] = q[j]
  OBVIOUS

(* It holds after a footnote was resolved, or not. *)
LEMMA RefsResolve == ASSUME RefsInv, ResolveFootnote PROVE RefsInv'
<1> DEFINE m == Head(queue)
<1>1. /\ resolving /\ queue # <<>> /\ queue' = Tail(queue)
      /\ UNCHANGED <<bodies, notes, resolver, resolving>>
  BY DEF ResolveFootnote
<1>2. PICK best \in Picks(Candidates(m), lastAt) :
        IF best = None0 THEN UNCHANGED <<patches, lastAt>>
        ELSE /\ patches' = Append(patches, [note |-> m, at |-> best.at,
                  from |-> best.from, to |-> best.to, least |-> lastAt])
             /\ lastAt' = IF parallel THEN 0 ELSE best.at
  BY DEF ResolveFootnote
<1>3. RefsTyped /\ InOrder /\ Underway
  BY <1>1 DEF RefsInv
<1>4. Texts
  BY <1>3, TypedTexts
<1>5. queue \in Seq(Nat) /\ patches \in Seq(Places) /\ lastAt \in Nat
  BY <1>3 DEF RefsTyped
<1>6. /\ Tail(queue) \in Seq(Nat) /\ m = queue[1] /\ 1 \in DOMAIN queue
      /\ \A j \in DOMAIN Tail(queue) : j + 1 \in DOMAIN queue /\ j + 1 # 1 /\ Tail(queue)[j] = queue[j + 1] /\ j \in Nat
      /\ \A j \in DOMAIN queue : j # 1 => j - 1 \in DOMAIN Tail(queue) /\ Tail(queue)[j - 1] = queue[j]
  BY <1>1, <1>5, QueueTail
<1>7. \A n : (Candidates(n)' = Candidates(n)) /\ (OrphanedNotes(n)' <=> OrphanedNotes(n))
  BY <1>1, TextsKept
<1>8. m \in DOMAIN notes /\ OrphanedNotes(m) /\ m \in Nat
  BY <1>3, <1>5, <1>6 DEF Underway
<1>9. /\ None0 \notin Candidates(m)
      /\ \A c \in Candidates(m) : c.at \in Nat
  BY <1>4, CandidateIs DEF Texts
<1>10. /\ best = None0 \/ best \in Candidates(m)
       /\ resolver = "simple" /\ best = None0 => Candidates(m) = {}
       /\ resolver = "llm" /\ best # None0 =>
            best.at >= lastAt \/ \A c \in Candidates(m) : c.at < lastAt
  BY <1>2, <1>5, <1>9, PickIs
<1>11. /\ \A j \in DOMAIN queue' : \A n : n = queue'[j] => n \in DOMAIN notes' /\ OrphanedNotes(n)'
       /\ \A j, k \in DOMAIN queue' : queue'[j] = queue'[k] => j = k
       /\ \A j \in DOMAIN queue' : \A k \in DOMAIN patches : queue'[j] # patches[k].note
       /\ \A j \in DOMAIN queue' : queue'[j] # m
       /\ \A j \in DOMAIN queue : queue[j] # m => \E k \in DOMAIN queue' : queue'[k] = queue[j]
  <2>1. \A j \in DOMAIN queue' : \A n : n = queue'[j] => n \in DOMAIN notes' /\ OrphanedNotes(n)'
    BY <1>1, <1>3, <1>6, <1>7 DEF Underway
  <2>2. ASSUME NEW j \in DOMAIN queue', NEW k \in DOMAIN queue', queue'[j] = queue'[k] PROVE j = k
    <3>1. /\ j + 1 \in DOMAIN queue /\ k + 1 \in DOMAIN queue /\ queue[j + 1] = queue[k + 1]
          /\ j \in Nat /\ k \in Nat
      BY <1>1, <1>6, <2>2
    <3>2. j + 1 = k + 1
      BY <1>3, <3>1 DEF Underway
    <3> QED
      BY <3>1, <3>2
  <2>3. \A j \in DOMAIN queue' : \A k \in DOMAIN patches : queue'[j] # patches[k].note
    BY <1>1, <1>3, <1>6 DEF Underway
  <2>4. \A j \in DOMAIN queue' : queue'[j] # m
    BY <1>1, <1>3, <1>6 DEF Underway
  <2>5. \A j \in DOMAIN queue : queue[j] # m => \E k \in DOMAIN queue' : queue'[k] = queue[j]
    BY <1>1, <1>6
  <2> QED
    BY <2>1, <2>2, <2>3, <2>4, <2>5
<1>12. CASE best = None0
  <2>1. patches' = patches /\ lastAt' = lastAt
    BY <1>2, <1>12
  <2>2. RefsTyped'
    BY Zenon, <1>1, <1>3, <1>6, <2>1 DEF RefsTyped
  <2>3. InOrder'
    BY <1>1, <1>3, <2>1 DEF InOrder, Candidates
  <2>4. PatchesSound'
    <3>1. PatchesSound
      BY <1>3 DEF Underway
    <3>2. \A k \in DOMAIN patches' : Sound(k)'
      BY <1>1, <1>7, <2>1, <3>1 DEF PatchesSound, Sound, HtmlOf
    <3> QED
      BY <2>1, <3>1, <3>2 DEF PatchesSound
  <2>5. ASSUME resolver' = "simple", NEW n \in DOMAIN notes', OrphanedNotes(n)' PROVE Pending(n)'
    <3>1. Pending(n)
      BY <1>1, <1>3, <1>7, <2>5 DEF Underway
    <3>2. CASE n = m
      BY <1>1, <1>7, <1>10, <1>12, <2>5, <3>2 DEF Pending
    <3>3. CASE n # m
      BY <1>7, <1>11, <2>1, <3>1, <3>3 DEF Pending
    <3> QED
      BY <3>2, <3>3
  <2>6. Underway'
    BY <1>11, <2>1, <2>4, <2>5 DEF Underway
  <2> QED
    BY <2>2, <2>3, <2>6 DEF RefsInv
<1>13. CASE best # None0
  <2> DEFINE new == [note |-> m, at |-> best.at, from |-> best.from, to |-> best.to, least |-> lastAt]
      K == Len(patches) + 1
  <2>1. patches' = Append(patches, new) /\ lastAt' = IF parallel THEN 0 ELSE best.at
    BY <1>2, <1>13
  <2>2. best \in Candidates(m)
    BY <1>10, <1>13
  <2>3. /\ best.at \in DOMAIN bodies
        /\ best.from \in Nat \ {0} /\ best.to \in Nat /\ best.from <= best.to /\ best.to <= Len(HtmlOf(best.at))
        /\ Untagged(HtmlOf(best.at), best.from, best.to)
    BY <1>4, <2>2, CandidateIs
  <2>4. best.at \in Nat /\ lastAt' \in Nat
    BY <1>4, <2>1, <2>3 DEF Texts
  <2>5. new \in Places
    BY <1>5, <1>8, <2>3, <2>4 DEF Places
  <2>6. new.note = m /\ new.at = best.at /\ new.from = best.from /\ new.to = best.to /\ new.least = lastAt
    OBVIOUS
  <2> HIDE DEF new
  <2>7. /\ patches' \in Seq(Places) /\ DOMAIN patches = 1 .. Len(patches) /\ DOMAIN patches' = 1 .. K
        /\ K \in Nat /\ Len(patches) \in Nat /\ patches'[K] = new
        /\ \A k \in 1 .. Len(patches) : patches'[k] = patches[k]
    <3>1. /\ Append(patches, new) \in Seq(Places) /\ Len(patches) \in Nat
          /\ DOMAIN patches = 1 .. Len(patches) /\ DOMAIN Append(patches, new) = 1 .. Len(patches) + 1
          /\ Append(patches, new)[Len(patches) + 1] = new
          /\ \A k \in 1 .. Len(patches) : Append(patches, new)[k] = patches[k]
      BY <1>5, <2>5, AppendFacts
    <3>2. Len(patches) + 1 \in Nat
      BY <3>1
    <3> QED
      BY <2>1, <3>1, <3>2
  <2> HIDE DEF K
  <2>8. \A k \in DOMAIN patches' : (k \in DOMAIN patches /\ patches'[k] = patches[k]) \/ (k = K /\ patches'[k] = new)
    BY <2>7 DEF K
  <2>8a. \A k \in DOMAIN patches : k \in DOMAIN patches' /\ patches'[k] = patches[k]
    BY <2>7 DEF K
  <2>8b. K \in DOMAIN patches'
    BY <2>7 DEF K
  <2>9. RefsTyped'
    <3>1. queue' \in Seq(Nat)
      BY <1>1, <1>6
    <3> QED
      BY Zenon, <1>1, <1>3, <2>4, <2>7, <3>1 DEF RefsTyped
  <2>10. InOrder'
    <3> SUFFICES ASSUME resolver' = "llm", NEW k \in DOMAIN patches'
                 PROVE  (\/ patches[k].at >= patches[k].least
                         \/ \A c \in Candidates(patches[k].note) : c.at < patches[k].least)'
      BY DEF InOrder
    <3>1. \A n : n = patches'[k].note => Candidates(patches[k].note)' = Candidates(n)
      BY <1>1 DEF Candidates
    <3>2. CASE k \in DOMAIN patches /\ patches'[k] = patches[k]
      <4>1. \/ patches[k].at >= patches[k].least
            \/ \A c \in Candidates(patches[k].note) : c.at < patches[k].least
        BY <1>1, <1>3, <3>2 DEF InOrder
      <4> QED
        BY <3>1, <3>2, <4>1
    <3>3. CASE k = K /\ patches'[k] = new
      <4>1. Candidates(patches[k].note)' = Candidates(m)
        BY <2>6, <3>1, <3>3
      <4> QED
        BY <1>1, <1>10, <1>13, <2>6, <3>3, <4>1
    <3> QED
      BY <2>8, <3>2, <3>3
  <2>11. PatchesSound'
    <3>1. PatchesSound
      BY <1>3 DEF Underway
    <3>2. ASSUME NEW k \in DOMAIN patches' PROVE Sound(k)'
      <4>1. CASE k \in DOMAIN patches /\ patches'[k] = patches[k]
        <5>1. Sound(k)
          BY <3>1, <4>1 DEF PatchesSound
        <5> QED
          BY <1>1, <1>7, <4>1, <5>1 DEF Sound, HtmlOf
      <4>2. CASE k = K /\ patches'[k] = new
        BY <1>1, <1>5, <1>7, <1>8, <2>3, <2>6, <4>2 DEF Sound, HtmlOf
      <4> QED
        BY <2>8, <4>1, <4>2
    <3>3. \A k \in DOMAIN patches : patches[k].note # m
      BY <1>3, <1>6 DEF Underway
    <3>4. ASSUME NEW k \in DOMAIN patches', NEW l \in DOMAIN patches', patches'[k].note = patches'[l].note PROVE k = l
      BY <2>6, <2>8, <3>1, <3>3, <3>4 DEF PatchesSound
    <3> QED
      BY <3>2, <3>4 DEF PatchesSound
  <2>12. ASSUME resolver' = "simple", NEW n \in DOMAIN notes', OrphanedNotes(n)' PROVE Pending(n)'
    <3>1. Pending(n)
      BY <1>1, <1>3, <1>7, <2>12 DEF Underway
    <3>2. CASE n = m
      <4>1. patches'[K].note = n
        BY <2>6, <2>7, <3>2
      <4> QED
        BY <2>8b, <4>1 DEF Pending
    <3>3. CASE n # m
      BY <1>7, <1>11, <2>8a, <3>1, <3>3 DEF Pending
    <3> QED
      BY <3>2, <3>3
  <2>13. \A j \in DOMAIN queue' : \A k \in DOMAIN patches' : queue'[j] # patches'[k].note
    BY <1>11, <2>6, <2>8
  <2>14. Underway'
    BY <1>11, <2>11, <2>12, <2>13 DEF Underway
  <2> QED
    BY <2>9, <2>10, <2>14 DEF RefsInv
<1> QED
  BY <1>12, <1>13

(* A patched text is a text. *)
LEMMA PatchedIn ==
  ASSUME Texts, PatchesSound, NEW i \in DOMAIN bodies PROVE Patched(i) \in Seq(Symbols)
<1>0. \A k \in DOMAIN patches : Sound(k)
  BY DEF PatchesSound
<1>1. PICK C, o, A, B, M, g : /\ InPlaces(i, C, o, A, B, M) /\ Chain(g, HtmlOf(i), C, A, B, M)
                              /\ Patched(i) = g[C]
  BY <1>0, PatchedIs
<1>2. C \in Nat
  BY <1>1 DEF Chain
<1>3. Left(g, HtmlOf(i), C, A, C)
  BY <1>1, <1>2, ChainIs
<1> QED
  BY <1>1, <1>3 DEF Left

(* The texts afterwards. *)
LEMMA TextsPatched ==
  ASSUME RefsTyped, PatchesSound, ApplyPatches
  PROVE  /\ Texts /\ bodies' \in Seq([page : Nat, html : Seq(Symbols)])
         /\ DOMAIN bodies' = DOMAIN bodies
         /\ \A i \in DOMAIN bodies : HtmlOf(i)' = Patched(i) /\ bodies'[i].page = bodies[i].page
                                     /\ Patched(i) \in Seq(Symbols)
<1>1. Texts /\ bodies' = [i \in DOMAIN bodies |-> [bodies[i] EXCEPT !.html = Patched(i)]]
  BY TypedTexts DEF ApplyPatches
<1> DEFINE Text == Seq(Symbols)
    Body == [page : Nat, html : Text]
<1>2. /\ DOMAIN bodies = 1 .. Len(bodies) /\ Len(bodies) \in Nat
      /\ \A i \in DOMAIN bodies : bodies[i] \in Body
  BY <1>1 DEF Texts
<1>3. \A i \in DOMAIN bodies : Patched(i) \in Text
  BY <1>1, PatchedIn
<1> HIDE DEF Text
<1>4. ASSUME NEW b \in Body, NEW t \in Text
      PROVE  [b EXCEPT !.html = t] \in Body /\ [b EXCEPT !.html = t].html = t /\ [b EXCEPT !.html = t].page = b.page
  OBVIOUS
<1> HIDE DEF Body
<1>5. bodies' = [i \in 1 .. Len(bodies) |-> [bodies[i] EXCEPT !.html = Patched(i)]]
  BY <1>1, <1>2
<1>6. \A i \in 1 .. Len(bodies) : [bodies[i] EXCEPT !.html = Patched(i)] \in Body
  BY <1>2, <1>3, <1>4
<1>7. bodies' \in [1 .. Len(bodies) -> Body]
  BY <1>5, <1>6
<1>8. bodies' \in Seq(Body) /\ DOMAIN bodies' = DOMAIN bodies
  BY <1>2, <1>7
<1>9. \A i \in DOMAIN bodies : bodies'[i].html = Patched(i) /\ bodies'[i].page = bodies[i].page
  BY <1>2, <1>3, <1>4, <1>5
<1> QED
  BY <1>1, <1>3, <1>8, <1>9 DEF HtmlOf, Body, Text

(* It holds after the patches were applied. *)
LEMMA RefsApply == ASSUME RefsInv, ApplyPatches PROVE RefsInv'
<1>1. RefsTyped /\ Underway
  BY DEF RefsInv, ApplyPatches
<1>2. PatchesSound
  BY <1>1 DEF Underway
<1>3. /\ Texts /\ bodies' \in Seq([page : Nat, html : Seq(Symbols)])
      /\ DOMAIN bodies' = DOMAIN bodies
      /\ \A i \in DOMAIN bodies : HtmlOf(i)' = Patched(i)
  BY <1>1, <1>2, TextsPatched
<1>4. /\ UNCHANGED <<notes, resolver, queue, patches, lastAt>> /\ resolving' = FALSE
  BY DEF ApplyPatches
<1>5. RefsTyped'
  BY Zenon, <1>1, <1>3, <1>4 DEF RefsTyped
<1>6. InOrder'
  BY <1>4 DEF InOrder
<1> QED
  BY <1>4, <1>5, <1>6 DEF RefsInv

(* Applying patches gives no footnote a second ref. *)
LEMMA OnceStep == ASSUME RefsInv, ApplyPatches, NEW n \in DOMAIN notes, AtMostOne(n) PROVE AtMostOne(n)'
<1>1. RefsTyped /\ Underway
  BY DEF RefsInv, ApplyPatches
<1>2. PatchesSound
  BY <1>1 DEF Underway
<1>3. /\ Texts /\ n \in DOMAIN Marks
      /\ DOMAIN bodies' = DOMAIN bodies
      /\ \A i \in DOMAIN bodies : HtmlOf(i)' = Patched(i)
  <2>1. /\ Texts /\ DOMAIN bodies' = DOMAIN bodies
        /\ \A i \in DOMAIN bodies : HtmlOf(i)' = Patched(i)
    BY <1>1, <1>2, TextsPatched
  <2> QED
    BY <2>1 DEF Texts
<1> SUFFICES ASSUME NEW x \in RefsTo(n)', NEW y \in RefsTo(n)' PROVE x = y
  BY DEF AtMostOne
<1>4. \A z : z \in RefsTo(n)' <=>
        \E i \in DOMAIN bodies : \E p \in DOMAIN Patched(i) : z = <<i, p>> /\ Intact(Patched(i), n, p)
  <2>1. RefsTo(n)' = RefsIn(bodies', n)
    BY DEF RefsTo, RefsIn
  <2>2. \A z : z \in RefsIn(bodies', n) <=>
          \E i \in DOMAIN bodies' : \E p \in DOMAIN bodies'[i].html : z = <<i, p>> /\ Intact(bodies'[i].html, n, p)
    BY RefsAt
  <2>3. DOMAIN bodies' = DOMAIN bodies /\ \A i \in DOMAIN bodies : bodies'[i].html = Patched(i)
    BY <1>3 DEF HtmlOf
  <2> HIDE DEF Patched
  <2>4. ASSUME NEW z
        PROVE  (\E i \in DOMAIN bodies' : \E p \in DOMAIN bodies'[i].html : z = <<i, p>> /\ Intact(bodies'[i].html, n, p))
               <=> \E i \in DOMAIN bodies : \E p \in DOMAIN Patched(i) : z = <<i, p>> /\ Intact(Patched(i), n, p)
    BY <2>3
  <2> QED
    BY <2>1, <2>2, <2>4
<1>5. PICK i \in DOMAIN bodies : \E p \in DOMAIN Patched(i) : x = <<i, p>> /\ Intact(Patched(i), n, p)
  BY <1>4
<1>6. PICK j \in DOMAIN bodies : \E p \in DOMAIN Patched(j) : y = <<j, p>> /\ Intact(Patched(j), n, p)
  BY <1>4
<1>7. Has(Patched(i), n) /\ Has(Patched(j), n)
  BY <1>5, <1>6 DEF Has
<1>8. /\ Has(HtmlOf(i), n) \/ \E k \in DOMAIN patches : patches[k].at = i /\ patches[k].note = n
      /\ Has(HtmlOf(j), n) \/ \E k \in DOMAIN patches : patches[k].at = j /\ patches[k].note = n
      /\ OnlyOne(HtmlOf(i), n) => OnlyOne(Patched(i), n)
  BY <1>2, <1>3, <1>7, PatchedOnce
<1>9. ASSUME NEW k \in DOMAIN patches, patches[k].note = n PROVE ~Has(HtmlOf(i), n) /\ ~Has(HtmlOf(j), n)
  <2>1. OrphanedNotes(n)
    BY <1>2, <1>9 DEF PatchesSound, Sound
  <2> QED
    BY <2>1, OrphanedIs
<1>10. i = j
  <2>1. CASE Has(HtmlOf(i), n) /\ Has(HtmlOf(j), n)
    BY <2>1, OneIs
  <2>2. CASE ~(Has(HtmlOf(i), n) /\ Has(HtmlOf(j), n))
    <3>1. PICK k \in DOMAIN patches : patches[k].note = n
      BY <1>8, <2>2
    <3>2. ~Has(HtmlOf(i), n) /\ ~Has(HtmlOf(j), n)
      BY <1>9, <3>1
    <3> QED
      BY <1>2, <1>8, <3>2 DEF PatchesSound
  <2> QED
    BY <2>1, <2>2
<1>11. OnlyOne(HtmlOf(i), n)
  BY OneIs
<1> QED
  BY <1>5, <1>6, <1>8, <1>10, <1>11 DEF OnlyOne

(* Every step keeps the invariant. *)
LEMMA RefsStep == RefsInv /\ [FootnotesNext]_footnoteVars => RefsInv'
<1> SUFFICES ASSUME RefsInv, [FootnotesNext]_footnoteVars PROVE RefsInv'
  OBVIOUS
<1>1. CASE Begin
  BY <1>1, RefsBegin
<1>2. CASE ResolveFootnote
  BY <1>2, RefsResolve
<1>3. CASE ApplyPatches
  BY <1>3, RefsApply
<1>4. CASE UNCHANGED footnoteVars
  <2>1. UNCHANGED <<bodies, notes, resolver, queue, patches, lastAt, resolving>>
    BY <1>4 DEF footnoteVars
  <2>2. \A n : (Candidates(n)' = Candidates(n)) /\ (OrphanedNotes(n)' <=> OrphanedNotes(n))
    BY <2>1, TextsKept
  <2>4. RefsTyped' <=> RefsTyped
    BY <2>1 DEF RefsTyped
  <2>5. InOrder => InOrder'
    BY <2>1 DEF InOrder, Candidates
  <2>6. PatchesSound => PatchesSound'
    BY <2>1, <2>2 DEF PatchesSound, Sound, HtmlOf
  <2>7. Underway => Underway'
    BY <2>1, <2>2, <2>6 DEF Underway, Pending
  <2> QED
    BY <2>1, <2>4, <2>5, <2>7 DEF RefsInv
<1> QED
  BY <1>1, <1>2, <1>3, <1>4 DEF FootnotesNext

(* An element becomes what was intended, unless places overlap. *)
LEMMA NoDriftStep ==
  ASSUME RefsInv, ApplyPatches, NEW i \in DOMAIN bodies
  PROVE  \/ \E k, l \in DOMAIN patches : patches[k].at = i /\ Clash(k, l)
         \/ bodies'[i].html = Intended(i)
<1>1. RefsTyped /\ PatchesSound
  BY DEF RefsInv, ApplyPatches, Underway
<1>2. Texts /\ HtmlOf(i)' = Patched(i)
  BY <1>1, TextsPatched
<1>3. (~ \E k, l \in DOMAIN patches : patches[k].at = i /\ Clash(k, l)) => Patched(i) = Intended(i)
  BY <1>1, <1>2, PatchedIntended
<1> QED
  BY <1>2, <1>3 DEF HtmlOf

(* What a run by rules leaves to find is right before a ref. *)
LEMMA NothingLeftStep ==
  ASSUME RefsInv, ApplyPatches, resolver = "simple", \A k, l \in DOMAIN patches : ~Clash(k, l),
         NEW n \in DOMAIN notes, OrphanedNotes(n)', NEW c \in Candidates(n)'
  PROVE  Freed(c)'
<1>1. OrphanedNotes(n) => Pending(n)
  BY DEF RefsInv, ApplyPatches, Underway
<1>2. RefsTyped /\ PatchesSound /\ queue = <<>> /\ notes' = notes /\ patches' = patches
  BY DEF RefsInv, ApplyPatches, Underway
<1>3. /\ Texts
      /\ DOMAIN bodies' = DOMAIN bodies
      /\ \A i \in DOMAIN bodies : HtmlOf(i)' = Patched(i) /\ bodies'[i].page = bodies[i].page
                                  /\ Patched(i) \in Seq(Symbols)
  BY <1>2, TextsPatched
<1>4. ASSUME NEW i \in DOMAIN bodies
      PROVE  /\ Has(HtmlOf(i), n) \/ (\E k \in DOMAIN patches : patches[k].at = i /\ patches[k].note = n) =>
                  Has(Patched(i), n)
             /\ \A digits, p, e : Loose(Patched(i), p, e, digits) => \E q, f : Loose(HtmlOf(i), q, f, digits)
  <2>1. ~ \E k, l \in DOMAIN patches : patches[k].at = i /\ Clash(k, l)
    OBVIOUS
  <2>2. n \in DOMAIN Marks
    BY <1>3 DEF Texts
  <2> QED
    BY <1>2, <1>3, <2>1, <2>2, PatchedStays
<1>5. \A i \in DOMAIN bodies : ~Has(Patched(i), n)
  <2>1. RefsIn(bodies', n) = {}
    BY DEF OrphanedNotes, RefsTo, RefsIn
  <2>2. \A z : z \in RefsIn(bodies', n) <=>
          \E i \in DOMAIN bodies' : \E p \in DOMAIN bodies'[i].html : z = <<i, p>> /\ Intact(bodies'[i].html, n, p)
    BY RefsAt
  <2>3. \A i \in DOMAIN bodies' : ~Has(bodies'[i].html, n)
    BY <2>1, <2>2 DEF Has
  <2> QED
    BY <1>3, <2>3 DEF HtmlOf
<1>6. OrphanedNotes(n) /\ \A k \in DOMAIN patches : patches[k].note # n
  <2>1. \A i \in DOMAIN bodies : ~Has(HtmlOf(i), n)
    BY <1>4, <1>5
  <2>2. OrphanedNotes(n)
    BY <2>1, OrphanedIs
  <2>3. ASSUME NEW k \in DOMAIN patches, patches[k].note = n PROVE FALSE
    <3>1. patches[k].at \in DOMAIN bodies
      BY <1>2 DEF PatchesSound, Sound
    <3> QED
      BY <1>4, <1>5, <2>3, <3>1
  <2> QED
    BY <2>2, <2>3
<1>7. Candidates(n) = {}
  BY <1>1, <1>2, <1>6 DEF Pending
<1> DEFINE texts == bodies'
    digits == DigitsOf(notes[n].number)
    sheet == notes[n].page
<1>8. /\ DOMAIN texts = 1 .. Len(bodies) /\ Len(bodies) \in Nat
      /\ \A i \in DOMAIN texts : texts[i].html \in Seq(Symbols)
  <2>1. DOMAIN bodies = 1 .. Len(bodies) /\ Len(bodies) \in Nat
    BY <1>3 DEF Texts
  <2>2. \A i \in DOMAIN bodies : bodies'[i].html = Patched(i) /\ Patched(i) \in Seq(Symbols)
    BY <1>3 DEF HtmlOf
  <2> QED
    BY <1>3, <2>1, <2>2
<1>9. c \in CandidatesIn(texts, sheet, digits)
  BY <1>2 DEF Candidates, CandidatesIn
<1>10. c.at \in DOMAIN bodies /\ DOMAIN texts = DOMAIN bodies /\ texts[c.at].html = Patched(c.at) /\ texts[c.at].page = bodies[c.at].page
       /\ (SamePage => texts[c.at].page = sheet)
       /\ \/ Loose(texts[c.at].html, c.from, c.to, digits)
          \/ c.to < Len(texts[c.at].html) /\ texts[c.at].html[c.to + 1] = "<"
  <2> HIDE DEF texts, digits, sheet, Symbols
  <2>1. /\ c.at \in DOMAIN texts /\ (SamePage => texts[c.at].page = sheet)
        /\ \/ Loose(texts[c.at].html, c.from, c.to, digits)
           \/ c.to < Len(texts[c.at].html) /\ texts[c.at].html[c.to + 1] = "<"
    BY <1>8, <1>9, CandidateIn
  <2> QED
    BY <1>3, <2>1 DEF texts, HtmlOf
<1>11. ~Loose(texts[c.at].html, c.from, c.to, digits)
  <2> SUFFICES ASSUME Loose(Patched(c.at), c.from, c.to, digits) PROVE FALSE
    BY <1>10
  <2> HIDE DEF texts
  <2>1. OnPage(c.at, n)
    BY <1>10 DEF OnPage
  <2>2. PICK q, f : Loose(HtmlOf(c.at), q, f, digits)
    BY <1>4, <1>10
  <2> QED
    BY <1>3, <1>7, <1>10, <2>1, <2>2, LooseCandidate
<1> QED
  BY <1>10, <1>11 DEF Freed

(* The refs of footnotes are put where they were found, once and in order,  *)
(* nothing else changes, and rules leave nothing to find.                   *)
THEOREM RefsStayExact == FootnotesSpec => RefsAreExact
<1>1. RefsInv => InOrder
  BY DEF RefsInv
<1>2. RefsInv /\ [FootnotesNext]_footnoteVars =>
        [ApplyPatches => \A i \in DOMAIN bodies :
           \/ \E k, l \in DOMAIN patches : patches[k].at = i /\ Clash(k, l)
           \/ bodies'[i].html = Intended(i)]_footnoteVars
  BY NoDriftStep
<1>3. RefsInv /\ [FootnotesNext]_footnoteVars =>
        [ApplyPatches /\ resolver = "simple" /\ (\A k, l \in DOMAIN patches : ~Clash(k, l)) =>
           \A n \in DOMAIN notes : OrphanedNotes(n)' => \A c \in Candidates(n)' : Freed(c)']_footnoteVars
  BY NothingLeftStep
<1>4. RefsInv /\ [FootnotesNext]_footnoteVars =>
        [\A n \in DOMAIN notes : AtMostOne(n) => AtMostOne(n)']_footnoteVars
  <2> SUFFICES ASSUME RefsInv, [FootnotesNext]_footnoteVars, NEW n \in DOMAIN notes, AtMostOne(n)
               PROVE  AtMostOne(n)'
    OBVIOUS
  <2>1. CASE ApplyPatches
    BY <2>1, OnceStep
  <2>2. CASE ~ApplyPatches
    <3>1. UNCHANGED <<bodies, notes>>
      BY <2>2 DEF FootnotesNext, Begin, ResolveFootnote, footnoteVars
    <3> QED
      BY <3>1, TextsKept
  <2> QED
    BY <2>1, <2>2
<1>5. FootnotesSpec => []RefsInv
  BY RefsFirst, RefsStep, PTL DEF FootnotesSpec
<1> QED
  BY <1>1, <1>2, <1>3, <1>4, <1>5, PTL DEF FootnotesSpec, RefsAreExact, OneRefEach, NoDrift, NothingLeftToFind
=============================================================================
