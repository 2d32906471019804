-------------------------- MODULE SyncStreamProofs --------------------------
(***************************************************************************)
(* Proofs about SyncStream: the bound on what is held in memory, what a     *)
(* run leaves running, what it reports, and what it deletes.                *)
(***************************************************************************)
EXTENDS SyncStream, FiniteSetTheorems, TLAPS

-----------------------------------------------------------------------------
(* Counting. *)

LEMMA AskFinite == IsFiniteSet(Ask)
<1>1. IsFiniteSet(1 .. MaxCopies)
  BY FS_Interval, StreamConstants
<1>2. QED
  BY <1>1, FS_Product, StreamConstants DEF Ask

(* Sets of tasks are finite. *)
LEMMA Counted ==
  ASSUME NEW S, S \subseteq Ask
  PROVE  IsFiniteSet(S) /\ Cardinality(S) \in Nat
BY AskFinite, FS_Subset, FS_CardinalityType

(* Adding one task to a set. *)
LEMMA OneMore ==
  ASSUME NEW S, S \subseteq Ask, NEW a, a \notin S
  PROVE  Cardinality(S \cup {a}) = Cardinality(S) + 1
BY Counted, FS_AddElement

LEMMA AtMostOneMore ==
  ASSUME NEW S, IsFiniteSet(S), NEW a
  PROVE  /\ IsFiniteSet(S \cup {a})
         /\ Cardinality(S \cup {a}) \in Nat
         /\ Cardinality(S \cup {a}) <= Cardinality(S) + 1
<1>1. IsFiniteSet(S \cup {a}) /\ Cardinality(S) \in Nat
  BY FS_AddElement, FS_CardinalityType
<1>2. Cardinality(S \cup {a}) = IF a \in S THEN Cardinality(S) ELSE Cardinality(S) + 1
  BY FS_AddElement
<1>3. QED
  BY <1>1, <1>2

LEMMA MentionsType ==
  ASSUME NEW S, S \subseteq Ask, NEW s
  PROVE  Mentions(S, s) \in Nat
<1>1. {a \in S : a[1] = s} \subseteq Ask
  OBVIOUS
<1>2. QED
  BY <1>1, Counted DEF Mentions

(* One more outcome is one more mention of its source. *)
LEMMA MentionsAdd ==
  ASSUME NEW S, S \subseteq Ask, NEW b \in Ask, b \notin S, NEW s
  PROVE  Mentions(S \cup {b}, s) = Mentions(S, s) + (IF b[1] = s THEN 1 ELSE 0)
<1> DEFINE M == {a \in S : a[1] = s}
           N == {a \in S \cup {b} : a[1] = s}
<1>0. Mentions(S, s) = Cardinality(M) /\ Mentions(S \cup {b}, s) = Cardinality(N)
  BY DEF Mentions
<1>1. M \subseteq Ask /\ b \notin M
  OBVIOUS
<1>2. CASE b[1] = s
  <2>1. N = M \cup {b}
    BY <1>2
  <2>2. Cardinality(M \cup {b}) = Cardinality(M) + 1
    BY <1>1, OneMore
  <2> HIDE DEF M, N
  <2>3. QED
    BY <2>1, <2>2, <1>2, <1>0
<1>3. CASE b[1] # s
  <2>1. N = M
    BY <1>3
  <2>2. Cardinality(M) \in Nat
    BY <1>1, Counted
  <2> HIDE DEF M, N
  <2>3. QED
    BY <2>1, <2>2, <1>3, <1>0
<1>4. QED
  BY <1>2, <1>3

(* The names of a request are those that are tasks and the others. *)
LEMMA MentionsSplit ==
  ASSUME NEW S, S \subseteq Ask, NEW T, T \subseteq S, NEW s
  PROVE  Mentions(S \ T, s) + Mentions(T, s) = Mentions(S, s)
<1> DEFINE M == {a \in S \ T : a[1] = s}
           N == {a \in T : a[1] = s}
           L == {a \in S : a[1] = s}
<1>1. M \subseteq Ask /\ N \subseteq Ask
  OBVIOUS
<1>2. L = M \cup N /\ M \cap N = {}
  OBVIOUS
<1>3. IsFiniteSet(M) /\ IsFiniteSet(N) /\ Cardinality(M) \in Nat /\ Cardinality(N) \in Nat
  BY <1>1, Counted
<1>4. Cardinality(M \cup N) = Cardinality(M) + Cardinality(N) - Cardinality(M \cap N)
  BY <1>3, FS_Union
<1>5. Cardinality(M \cap N) = 0
  BY <1>2, FS_EmptySet
<1>6. /\ Mentions(S \ T, s) = Cardinality(M)
      /\ Mentions(T, s) = Cardinality(N)
      /\ Mentions(S, s) = Cardinality(L)
  BY DEF Mentions
<1> HIDE DEF M, N, L
<1>7. QED
  BY <1>2, <1>3, <1>4, <1>5, <1>6

-----------------------------------------------------------------------------
(* Types. *)

LEMMA RequestType ==
  ASSUME TypeOK, asked' \subseteq Ask, NEW names, NEW alive \in SUBSET Sources,
         NEW field, Request(names, alive, field)
  PROVE  TypeOK'
<1>1. \A s \in Sources : Mentions(asked' \ names, s) \in Nat
  BY MentionsType
<1>2. result' \in [Fields -> [Sources -> Nat]]
  BY <1>1 DEF Request
<1>3. QED
  BY <1>2 DEF Request, TypeOK

LEMMA CountType ==
  ASSUME TypeOK, NEW field \in Fields, NEW s \in Sources, Count(field, s)
  PROVE  result' \in [Fields -> [Sources -> Nat]]
<1>1. result \in [Fields -> [Sources -> Nat]]
  BY DEF TypeOK
<1> QED
  BY <1>1 DEF Count

LEMMA HeldIsTask ==
  ASSUME TypeOK, QueueInv, phase = "holding"
  PROVE  held \in Ask /\ held[1] \in Sources
BY DEF TypeOK, QueueInv, Ask, Done

LEMMA TypeStep ==
  ASSUME TypeOK, QueueInv, [Next]_vars
  PROVE  TypeOK'
<1>1. CASE NextRun
  BY <1>1 DEF TypeOK, NextRun
<1>2. CASE ResolvePaths
  <2>1. PICK requested \in SUBSET Sources : \E hashed \in SUBSET requested :
          asked' = requested \X {1} /\ Request(hashed \X {1}, requested, "errors")
    BY <1>2 DEF ResolvePaths
  <2>2. asked' \subseteq Ask
    BY <2>1, StreamConstants DEF Ask
  <2>3. QED
    BY <2>1, <2>2, RequestType
<1>3. CASE ResolveDocuments
  <2>1. PICK names \in SUBSET Ask, documents \in SUBSET Sources :
          /\ asked' = names
          /\ Request({a \in names : a[1] \in documents}, documents, "skipped")
    BY <1>3 DEF ResolveDocuments
  <2>2. asked' \subseteq Ask
    BY <2>1
  <2>3. QED
    BY <2>1, <2>2, RequestType
<1>4. CASE \E a \in Ask : TaskStep(a) \/ Die(a)
  <2>1. PICK a \in Ask : Acquire(a) \/ Evaluate(a) \/ Put(a) \/ Deliver(a) \/ Die(a)
    BY <1>4 DEF TaskStep
  <2>2. PICK t \in Running \cup {"done", "dead", "cancelled"} :
          task' = [task EXCEPT ![a] = t]
    BY <2>1 DEF Acquire, Evaluate, Put, Deliver, Die, Become, Running
  <2>3. outcome' \in [Ask -> {"none", "skipped", "changed", "error", "late error"}]
    BY <2>1 DEF TypeOK, Acquire, Evaluate, Put, Deliver, Die
  <2>4. /\ handoff' \in SUBSET Ask /\ cancelling' \in SUBSET Ask
        /\ fatal' \in BOOLEAN
    BY <2>1 DEF TypeOK, Acquire, Evaluate, Put, Deliver, Die
  <2>5. UNCHANGED <<phase, asked, live, known, held, taken, orphans, result>>
    BY <2>1 DEF Acquire, Evaluate, Put, Deliver, Die, requestVars
  <2>6. QED
    BY <2>2, <2>3, <2>4, <2>5 DEF TypeOK
<1>5. CASE ConsumerStep
  <2>1. CASE List
    BY <1>5, <2>1 DEF TypeOK, Running, List
  <2>2. CASE Take
    <3>1. PICK a \in handoff : held' = a /\ handoff' = handoff \ {a}
      BY <2>2 DEF Take
    <3>2. held' \in Ask /\ handoff' \in SUBSET Ask /\ taken' \in Nat
      <4>1. handoff \in SUBSET Ask /\ taken \in Nat
        BY DEF TypeOK
      <4>2. taken' = taken + 1
        BY <2>2 DEF Take
      <4> QED
        BY <3>1, <4>1, <4>2
    <3>3. UNCHANGED <<orphans, result, task, outcome, fatal, cancelling, asked, live, known>>
          /\ phase' = "holding"
      BY <2>2 DEF Take, requestVars
    <3>4. QED
      BY <3>2, <3>3 DEF TypeOK
  <2>3. CASE Dismiss \/ Write
    <3>1. PICK field \in Fields : Count(field, held[1])
      BY <2>3 DEF Dismiss, Write, Fields
    <3>2. phase = "holding"
      BY <2>3 DEF Dismiss, Write
    <3>3. result' \in [Fields -> [Sources -> Nat]]
      BY <3>1, <3>2, HeldIsTask, CountType
    <3>4. QED
      BY <2>3, <3>3 DEF TypeOK, Dismiss, Write, Release, requestVars, tasksVars
  <2>4. CASE StreamOver \/ RunOver
    BY <2>4 DEF TypeOK, StreamOver, RunOver, requestVars, tasksVars
  <2>5. CASE \E s \in Sources : DeleteOrphan(s)
    <3>1. PICK s \in Sources : DeleteOrphan(s)
      BY <2>5
    <3>2. result' \in [Fields -> [Sources -> Nat]]
      BY <3>1, CountType DEF DeleteOrphan, Fields
    <3>3. QED
      BY <3>1, <3>2 DEF TypeOK, DeleteOrphan, requestVars, tasksVars
  <2>6. CASE Abort \/ CleanedUp
    BY <2>6 DEF TypeOK, Abort, CleanedUp, CancelTasks, Alive, requestVars, tasksVars
  <2>7. QED
    BY <1>5, <2>1, <2>2, <2>3, <2>4, <2>5, <2>6 DEF ConsumerStep
<1>6. CASE Cancel \/ Interrupt
  BY <1>6 DEF TypeOK, Cancel, Interrupt, CancelTasks, Alive, requestVars, tasksVars
<1>7. CASE UNCHANGED vars
  BY <1>7 DEF TypeOK, vars
<1>8. QED
  BY <1>1, <1>2, <1>3, <1>4, <1>5, <1>6, <1>7 DEF Next

-----------------------------------------------------------------------------
(* The semaphore, the queue and the cancellations. *)

(* Only Acquire takes a permit. *)
LEMMA SlotsKept ==
  ASSUME Slots <= Limit,
         \A a \in Ask : task'[a] \in {"evaluating", "putting"} =>
                          task[a] \in {"evaluating", "putting"}
  PROVE  Slots' <= Limit
<1> DEFINE S == {a \in Ask : task[a] \in {"evaluating", "putting"}}
           T == {a \in Ask : task'[a] \in {"evaluating", "putting"}}
<1>1. S \subseteq Ask /\ T \subseteq S
  OBVIOUS
<1>2. Slots = Cardinality(S) /\ Slots' = Cardinality(T)
  BY DEF Slots
<1> HIDE DEF S, T
<1>3. T \in SUBSET S
  BY <1>1
<1>4. Cardinality(T) <= Cardinality(S)
  BY <1>1, <1>3, Counted, FS_Subset
<1>5. Cardinality(T) \in Nat /\ Cardinality(S) \in Nat
  BY <1>1, Counted
<1>6. QED
  BY <1>2, <1>4, <1>5, StreamConstants

LEMMA SlotTaken ==
  ASSUME TypeOK, NEW a \in Ask, Acquire(a)
  PROVE  Slots' <= Limit
<1> DEFINE S == {b \in Ask : task[b] \in {"evaluating", "putting"}}
           T == {b \in Ask : task'[b] \in {"evaluating", "putting"}}
<1>1. S \subseteq Ask /\ a \notin S /\ T = S \cup {a}
  BY DEF TypeOK, Acquire, Become
<1>2. Slots = Cardinality(S) /\ Slots' = Cardinality(T) /\ Slots < Limit
  BY DEF Slots, Acquire
<1> HIDE DEF S, T
<1>3. Cardinality(S \cup {a}) = Cardinality(S) + 1 /\ Cardinality(S) \in Nat
  BY <1>1, Counted, OneMore
<1>4. QED
  BY <1>1, <1>2, <1>3, StreamConstants

(* What a step of a task does to its own state and to no other. *)
LEMMA TaskChange ==
  ASSUME TypeOK, QueueInv, NEW a \in Ask, TaskStep(a) \/ Die(a)
  PROVE  /\ task[a] \in Running
         /\ \A b \in Ask \ {a} : task'[b] = task[b]
         /\ UNCHANGED <<phase, asked, live, known, held, taken, orphans, result>>
         /\ \/ Put(a) /\ task'[a] = "done"
            \/ /\ ~Put(a)
               /\ task'[a] \in {"evaluating", "putting", "dead", "cancelled"}
               /\ handoff' = handoff
         /\ \/ task'[a] \in Running /\ cancelling' \subseteq cancelling
            \/ cancelling' = cancelling \ {a}
            \/ a \notin cancelling /\ cancelling' = cancelling
<1>1. CASE Acquire(a) \/ Evaluate(a)
  BY <1>1 DEF TypeOK, Acquire, Evaluate, Put, Become, Running, requestVars
<1>2. CASE Put(a)
  BY <1>2 DEF TypeOK, Put, Become, Running, requestVars
<1>3. CASE Deliver(a)
  <2>1. task[a] \in Running
    BY <1>3 DEF Deliver, QueueInv, Alive
  <2>2. ~Put(a)
    BY <1>3 DEF Deliver, Put
  <2>3. task'[a] \in {"putting", "cancelled"} /\ \A b \in Ask \ {a} : task'[b] = task[b]
    BY <1>3 DEF Deliver, Become, TypeOK
  <2>4. QED
    BY <1>3, <2>1, <2>2, <2>3 DEF Deliver, requestVars
<1>4. CASE Die(a)
  BY <1>4 DEF TypeOK, Die, Put, Become, Running, requestVars
<1>5. QED
  BY <1>1, <1>2, <1>3, <1>4 DEF TaskStep

(* Both resolutions make a Request. *)
LEMMA Resolved ==
  ASSUME ResolvePaths \/ ResolveDocuments
  PROVE  \E names \in SUBSET Ask, alive \in SUBSET Sources, field \in {"errors", "skipped"} :
           names \subseteq asked' /\ asked' \subseteq Ask /\ Request(names, alive, field)
<1>1. CASE ResolvePaths
  <2>1. PICK requested \in SUBSET Sources : \E hashed \in SUBSET requested :
          asked' = requested \X {1} /\ Request(hashed \X {1}, requested, "errors")
    BY <1>1 DEF ResolvePaths
  <2>2. PICK hashed \in SUBSET requested :
          asked' = requested \X {1} /\ Request(hashed \X {1}, requested, "errors")
    BY <2>1
  <2>3. /\ hashed \X {1} \in SUBSET Ask
        /\ hashed \X {1} \subseteq asked'
        /\ asked' \subseteq Ask
    BY <2>2, StreamConstants DEF Ask
  <2>4. QED
    BY <2>2, <2>3
<1>2. CASE ResolveDocuments
  <2>1. PICK names \in SUBSET Ask, documents \in SUBSET Sources :
          /\ asked' = names
          /\ Request({a \in names : a[1] \in documents}, documents, "skipped")
    BY <1>2 DEF ResolveDocuments
  <2>2. {a \in names : a[1] \in documents} \in SUBSET Ask
    OBVIOUS
  <2>3. QED
    BY <2>1, <2>2
<1>3. QED
  BY <1>1, <1>2

LEMMA QueueStep ==
  ASSUME TypeOK, TypeOK', QueueInv, PhaseInv, [Next]_vars
  PROVE  QueueInv'
<1>1. CASE NextRun
  <2>1. \A a \in Ask : task'[a] = "none"
    BY <1>1 DEF NextRun
  <2>2. Slots' <= Limit
    BY <2>1, SlotsKept DEF QueueInv
  <2>3. QED
    BY <1>1, <2>2 DEF NextRun, QueueInv
<1>2. CASE ResolvePaths \/ ResolveDocuments
  <2>1. PICK names, alive, field : Request(names, alive, field)
    BY <1>2, Resolved
  <2>2. \A a \in Ask : task'[a] \in {"named", "none"}
    BY <2>1 DEF Request
  <2>3. Slots' <= Limit
    BY <2>2, SlotsKept DEF QueueInv
  <2>4. handoff = {} /\ held = NoTask /\ cancelling = {}
    BY <2>1 DEF Request, QueueInv, PhaseInv, Ended
  <2>5. QED
    BY <2>1, <2>3, <2>4 DEF Request, QueueInv
<1>3. CASE \E a \in Ask : TaskStep(a) \/ Die(a)
  <2>1. PICK a \in Ask : TaskStep(a) \/ Die(a)
    BY <1>3
  <2>2. Slots' <= Limit
    <3>1. CASE Acquire(a)
      BY <3>1, SlotTaken
    <3>2. CASE ~Acquire(a)
      <4>1. task'[a] \in {"evaluating", "putting"} => task[a] \in {"evaluating", "putting"}
        BY <2>1, <3>2 DEF TaskStep, Evaluate, Put, Deliver, Die, Become, TypeOK, QueueInv,
                          Alive
      <4>2. QED
        BY <4>1, <2>1, TaskChange, SlotsKept DEF QueueInv
    <3>3. QED
      BY <3>1, <3>2
  <2>3. \A b \in Done : b \in Done' /\ b # a
    BY <2>1, TaskChange DEF Done, Running
  <2>4. (\A b, c \in handoff : b = c)' /\ (handoff \subseteq Done)'
    <3>1. CASE Put(a)
      BY <3>1 DEF Put, Done, Become, TypeOK
    <3>2. CASE ~Put(a)
      BY <2>1, <2>3, <3>2, TaskChange DEF QueueInv
    <3>3. QED
      BY <3>1, <3>2
  <2>5. (held # NoTask => held \in Done \ handoff)'
    <3>1. handoff' \subseteq handoff \cup {a} /\ held' = held
      BY <2>1, TaskChange DEF Put
    <3>2. QED
      BY <2>3, <3>1 DEF QueueInv
  <2>6. (cancelling \subseteq Alive)'
    BY <2>1, TaskChange DEF QueueInv, Alive
  <2>7. (phase = "holding" <=> held # NoTask)'
    BY <2>1, TaskChange DEF QueueInv
  <2>8. QED
    BY <2>2, <2>4, <2>5, <2>6, <2>7 DEF QueueInv
<1>4. CASE List
  <2>1. \A a \in Ask : task'[a] \in {"waiting", "none"}
    BY <1>4 DEF List
  <2>2. Slots' <= Limit
    BY <2>1, SlotsKept DEF QueueInv
  <2>3. handoff = {} /\ held = NoTask /\ cancelling = {}
    BY <1>4 DEF List, QueueInv, PhaseInv
  <2>4. QED
    BY <1>4, <2>2, <2>3 DEF List, QueueInv
<1>5. CASE Take
  <2>1. UNCHANGED <<task, cancelling>> /\ Slots' = Slots
    BY <1>5 DEF Take, Slots
  <2>2. PICK a \in handoff : held' = a /\ handoff' = handoff \ {a}
    BY <1>5 DEF Take
  <2>3. a \in Done /\ a # NoTask
    BY <2>2, StreamConstants DEF QueueInv, Done
  <2>4. QED
    BY <1>5, <2>1, <2>2, <2>3 DEF Take, QueueInv, Done, Alive
<1>6. CASE Dismiss \/ Write
  <2>1. UNCHANGED <<task, handoff, cancelling>> /\ held' = NoTask /\ phase' = "streaming"
    BY <1>6 DEF Dismiss, Write, Release, tasksVars
  <2>2. QED
    BY <2>1 DEF QueueInv, Slots, Done, Alive
<1>7. CASE \/ StreamOver \/ RunOver \/ CleanedUp \/ Interrupt
           \/ \E s \in Sources : DeleteOrphan(s)
  <2>1. /\ UNCHANGED <<task, handoff, cancelling, held>>
        /\ phase # "holding" /\ phase' # "holding"
    BY <1>7 DEF StreamOver, RunOver, CleanedUp, Interrupt, DeleteOrphan, tasksVars
  <2>2. QED
    BY <2>1 DEF QueueInv, Slots, Done, Alive
<1>8. CASE Abort \/ Cancel
  <2>1. /\ UNCHANGED <<task, handoff>> /\ cancelling' = Alive
        /\ held' = NoTask /\ phase' = "cleanup"
    BY <1>8 DEF Abort, Cancel, CancelTasks
  <2>2. QED
    BY <2>1 DEF QueueInv, Slots, Done, Alive
<1>9. CASE UNCHANGED vars
  BY <1>9 DEF QueueInv, Slots, Done, Alive, vars
<1>10. QED
  BY <1>1, <1>2, <1>3, <1>4, <1>5, <1>6, <1>7, <1>8, <1>9 DEF Next, ConsumerStep

(* However many sources there are, at most Limit + 2 outcomes are in hand. *)
LEMMA Bounded ==
  ASSUME TypeOK, QueueInv
  PROVE  AliveBound
<1> DEFINE S == {a \in Ask : task[a] \in {"evaluating", "putting"}}
           H == held
<1>1. /\ S \subseteq Ask /\ handoff \subseteq Ask /\ {H} \ {NoTask} \subseteq Ask
      /\ IsFiniteSet(S) /\ Cardinality(S) \in Nat /\ Cardinality(S) <= Limit
  BY Counted DEF TypeOK, QueueInv, Slots
<1> HIDE DEF S, H
<1>2. \E x : handoff \subseteq {x}
  BY DEF QueueInv
<1>3. PICK x : handoff \subseteq {x}
  BY <1>2
<1>4. /\ IsFiniteSet(S \cup {x})
      /\ Cardinality(S \cup {x}) \in Nat
      /\ Cardinality(S \cup {x}) <= Cardinality(S) + 1
  BY <1>1, AtMostOneMore
<1>5. /\ IsFiniteSet((S \cup {x}) \cup {H})
      /\ Cardinality((S \cup {x}) \cup {H}) \in Nat
      /\ Cardinality((S \cup {x}) \cup {H}) <= Cardinality(S \cup {x}) + 1
  BY <1>4, AtMostOneMore
<1>6. InHand = S \cup handoff \cup ({H} \ {NoTask})
  BY DEF InHand, S, H
<1>7. InHand \in SUBSET ((S \cup {x}) \cup {H})
  BY <1>3, <1>6
<1>8. Cardinality(InHand) <= Cardinality((S \cup {x}) \cup {H})
  BY <1>5, <1>7, FS_Subset
<1>9. Cardinality(InHand) \in Nat
  BY <1>5, <1>7, FS_Subset, FS_CardinalityType
<1>10. QED
  BY <1>1, <1>4, <1>5, <1>8, <1>9, StreamConstants DEF AliveBound

-----------------------------------------------------------------------------
(* Each outcome is put once and taken once, so the stream is over exactly   *)
(* when every task is done.                                                 *)

(* The steps that touch neither the tasks nor the queue. *)
LEMMA QuietSteps ==
  ASSUME \/ Dismiss \/ Write \/ StreamOver \/ RunOver \/ CleanedUp \/ Interrupt
         \/ Abort \/ Cancel \/ UNCHANGED vars
         \/ \E s \in Sources : DeleteOrphan(s)
  PROVE  UNCHANGED <<task, handoff, taken, asked, live, known>>
BY DEF Dismiss, Write, Release, StreamOver, RunOver, CleanedUp, Interrupt, Abort, Cancel,
       CancelTasks, DeleteOrphan, vars, tasksVars, requestVars

LEMMA CountStep ==
  ASSUME TypeOK, QueueInv, PhaseInv, CountInv, [Next]_vars
  PROVE  CountInv'
<1> DEFINE D == Done
<1>1. CASE NextRun
  <2>1. Done' = {} /\ handoff' = {} /\ taken' = 0
    BY <1>1 DEF NextRun, Done
  <2>2. QED
    BY <2>1, FS_EmptySet DEF CountInv
<1>2. CASE ResolvePaths \/ ResolveDocuments
  <2>1. PICK names, alive, field : Request(names, alive, field)
    BY <1>2, Resolved
  <2>2. Done' = {} /\ UNCHANGED <<handoff, taken>>
    BY <2>1 DEF Request, Done
  <2>3. Done = {}
    BY <2>1 DEF Request, PhaseInv
  <2>4. QED
    BY <2>2, <2>3 DEF CountInv
<1>3. CASE \E a \in Ask : TaskStep(a) \/ Die(a)
  <2>1. PICK a \in Ask : TaskStep(a) \/ Die(a)
    BY <1>3
  <2>2. a \notin Done /\ D \subseteq Ask /\ taken' = taken
    BY <2>1, TaskChange DEF Done, Running
  <2>3. CASE Put(a)
    <3>1. handoff = {} /\ handoff' = {a} /\ Done' = D \cup {a}
      BY <2>3 DEF Put, Become, Done, TypeOK
    <3>2. Cardinality(Done') = Cardinality(Done) + 1
      <4> HIDE DEF D
      <4>1. Cardinality(D \cup {a}) = Cardinality(D) + 1
        BY <2>2, OneMore DEF D
      <4>2. QED
        BY <3>1, <4>1 DEF D
    <3>3. Cardinality(handoff) = 0 /\ Cardinality(handoff') = 1
      BY <3>1, FS_EmptySet, FS_Singleton
    <3>4. taken \in Nat /\ taken + Cardinality(handoff) = Cardinality(Done)
      BY DEF CountInv, TypeOK
    <3>5. QED
      BY <2>2, <3>2, <3>3, <3>4 DEF CountInv
  <2>4. CASE ~Put(a)
    <3>1. Done' = Done /\ handoff' = handoff
      BY <2>1, <2>2, <2>4, TaskChange DEF Done
    <3>2. QED
      BY <2>2, <3>1 DEF CountInv
  <2>5. QED
    BY <2>3, <2>4
<1>4. CASE List
  <2>1. Done' = Done /\ UNCHANGED <<handoff, taken>>
    BY <1>4 DEF List, PhaseInv, Done
  <2>2. QED
    BY <2>1 DEF CountInv
<1>5. CASE Take
  <2>1. PICK a \in handoff : handoff' = handoff \ {a}
    BY <1>5 DEF Take
  <2>2. handoff = {a} /\ handoff' = {}
    BY <2>1 DEF QueueInv
  <2>3. taken' = taken + 1 /\ Done' = Done
    BY <1>5 DEF Take, Done
  <2>4. Cardinality(handoff) = 1 /\ Cardinality(handoff') = 0
    BY <2>2, FS_EmptySet, FS_Singleton
  <2>5. taken \in Nat /\ taken + Cardinality(handoff) = Cardinality(Done)
    BY DEF CountInv, TypeOK
  <2>6. QED
    BY <2>3, <2>4, <2>5 DEF CountInv
<1>6. CASE UNCHANGED <<task, handoff, taken>>
  BY <1>6 DEF CountInv, Done
<1>7. QED
  BY <1>1, <1>2, <1>3, <1>4, <1>5, <1>6, QuietSteps DEF Next, ConsumerStep

LEMMA StreamDrained ==
  ASSUME TypeOK, QueueInv, CountInv, taken = Cardinality(Tasks)
  PROVE  handoff = {} /\ Tasks = Done
<1> DEFINE D == Done
           T == Tasks
<1>1. D \subseteq T /\ T \subseteq Ask
  BY DEF Done, Tasks
<1>2. handoff \subseteq Ask
  BY DEF TypeOK
<1>3. taken + Cardinality(handoff) = Cardinality(D) /\ taken = Cardinality(T)
  BY DEF CountInv
<1> HIDE DEF D, T
<1>4. /\ IsFiniteSet(handoff) /\ Cardinality(handoff) \in Nat
      /\ IsFiniteSet(T) /\ Cardinality(T) \in Nat /\ Cardinality(D) \in Nat
  BY <1>1, <1>2, Counted
<1>5. D \in SUBSET T
  BY <1>1
<1>6. Cardinality(D) <= Cardinality(T) /\ (Cardinality(T) = Cardinality(D) => T = D)
  BY <1>4, <1>5, FS_Subset
<1>7. Cardinality(handoff) = 0 /\ Cardinality(D) = Cardinality(T)
  BY <1>3, <1>4, <1>6
<1>8. QED
  BY <1>4, <1>6, <1>7, FS_EmptySet DEF D, T

LEMMA PhaseStep ==
  ASSUME TypeOK, TypeOK', QueueInv, PhaseInv, CountInv, [Next]_vars
  PROVE  PhaseInv'
<1>1. CASE NextRun
  BY <1>1 DEF NextRun, PhaseInv, Tasks, Alive, Done, Running
<1>2. CASE ResolvePaths \/ ResolveDocuments
  <2>1. PICK names \in SUBSET Ask, alive \in SUBSET Sources, field \in {"errors", "skipped"} :
          names \subseteq asked' /\ Request(names, alive, field)
    BY <1>2, Resolved
  <2>2. /\ \A a \in Ask : task'[a] = IF a \in names THEN "named" ELSE "none"
        /\ phase' = "listing"
    BY <2>1 DEF Request
  <2>3. QED
    BY <2>1, <2>2 DEF PhaseInv, Tasks, Alive, Done, Running
<1>3. CASE \E a \in Ask : TaskStep(a) \/ Die(a)
  <2>1. PICK a \in Ask : TaskStep(a) \/ Die(a)
    BY <1>3
  <2>2. /\ task[a] \in Running /\ \A b \in Ask \ {a} : task'[b] = task[b]
        /\ UNCHANGED <<phase, asked>>
    BY <2>1, TaskChange
  <2>3. phase \notin Ended \cup {"listing", "orphans"}
    BY <2>2 DEF PhaseInv, Alive
  <2>4. Tasks' \subseteq asked'
    BY <2>2 DEF PhaseInv, Tasks, Running
  <2>5. QED
    BY <2>2, <2>3, <2>4 DEF PhaseInv, Ended
<1>4. CASE List
  <2>1. Tasks' = Tasks /\ phase' = "streaming" /\ asked' = asked
    BY <1>4 DEF List, Tasks
  <2>2. QED
    BY <2>1 DEF PhaseInv, Ended
<1>5. CASE Take
  <2>1. UNCHANGED <<task, asked>> /\ phase' = "holding"
    BY <1>5 DEF Take, requestVars
  <2>2. QED
    BY <2>1 DEF PhaseInv, Ended, Tasks
<1>6. CASE StreamOver
  <2>1. Tasks = Done
    BY <1>6, StreamDrained DEF StreamOver
  <2>2. UNCHANGED <<task, asked>> /\ phase' = "orphans"
    BY <1>6 DEF StreamOver, tasksVars, requestVars
  <2>3. Alive = {}
    BY <2>1 DEF Alive, Tasks, Done, Running
  <2>4. QED
    BY <2>1, <2>2, <2>3 DEF PhaseInv, Tasks, Alive, Done
<1>7. CASE \/ Dismiss \/ Write \/ RunOver \/ CleanedUp \/ Interrupt \/ Abort \/ Cancel
           \/ UNCHANGED vars \/ \E s \in Sources : DeleteOrphan(s)
  <2>1. UNCHANGED <<task, asked>>
    BY <1>7, QuietSteps
  <2>2. \/ phase' \in {"streaming", "cleanup"}
        \/ phase' = "raised" /\ (phase \in {"listing", "orphans"} \/ Alive = {})
        \/ phase' = phase
        \/ phase' = "done" /\ phase = "orphans"
    BY <1>7 DEF Dismiss, Write, Release, RunOver, CleanedUp, Interrupt, Abort, Cancel,
                CancelTasks, DeleteOrphan, vars
  <2>3. UNCHANGED <<Tasks, Alive, Done>>
    BY <2>1 DEF Tasks, Alive, Done
  <2>4. QED
    BY <2>1, <2>2, <2>3 DEF PhaseInv, Ended
<1>8. QED
  BY <1>1, <1>2, <1>3, <1>4, <1>5, <1>6, <1>7 DEF Next, ConsumerStep

-----------------------------------------------------------------------------
(* Orphans. *)

Safe(s) == s \in known \ live /\ \A a \in Tasks : task[a] = "done"

LEMMA OrphanStep ==
  ASSUME TypeOK, TypeOK', QueueInv, PhaseInv, CountInv, OrphanInv, [Next]_vars
  PROVE  OrphanInv'
<1>1. CASE NextRun
  BY <1>1 DEF NextRun, OrphanInv, Fields
<1>2. CASE ResolvePaths \/ ResolveDocuments
  <2>1. PICK names \in SUBSET Ask, alive \in SUBSET Sources, field \in {"errors", "skipped"} :
          Request(names, alive, field)
    BY <1>2, Resolved
  <2>2. orphans = {} /\ orphans' = {} /\ phase' = "listing"
    BY <2>1 DEF Request, OrphanInv
  <2>3. \A s \in Sources : result'["deleted"][s] = 0
    BY <2>1 DEF Request, Fields
  <2>4. QED
    BY <2>2, <2>3 DEF OrphanInv
<1>3. CASE \E a \in Ask : TaskStep(a) \/ Die(a)
  <2>1. UNCHANGED <<phase, known, live, orphans, result>>
    BY <1>3, TaskChange
  <2>2. QED
    BY <2>1 DEF OrphanInv
<1>4. CASE List \/ Take
  <2>1. UNCHANGED <<orphans, result>> /\ phase \in {"listing", "streaming"}
    BY <1>4 DEF List, Take
  <2>2. QED
    BY <2>1 DEF OrphanInv
<1>5. CASE Dismiss \/ Write
  <2>1. PICK field \in {"processed", "skipped", "errors"} : Count(field, held[1])
    BY <1>5 DEF Dismiss, Write
  <2>2. result'["deleted"] = result["deleted"]
    BY <2>1 DEF Count, TypeOK, Fields
  <2>3. UNCHANGED <<orphans, known, live>> /\ phase = "holding" /\ phase' = "streaming"
    BY <1>5 DEF Dismiss, Write, Release, requestVars
  <2>4. QED
    BY <2>2, <2>3 DEF OrphanInv
<1>6. CASE StreamOver
  BY <1>6 DEF StreamOver, OrphanInv, requestVars
<1>7. CASE \E s \in Sources : DeleteOrphan(s)
  BY <1>7 DEF DeleteOrphan, OrphanInv, requestVars
<1>8. CASE RunOver \/ CleanedUp \/ Interrupt \/ Abort \/ Cancel \/ UNCHANGED vars
  <2>1. UNCHANGED <<orphans, known, live, result>>
    BY <1>8 DEF RunOver, CleanedUp, Interrupt, Abort, Cancel, CancelTasks, vars, requestVars
  <2>2. \/ phase' = "raised"
        \/ phase' = "done" /\ phase = "orphans" /\ orphans = {}
        \/ phase' = "cleanup" /\ phase \in {"streaming", "holding", "cleanup"}
        \/ phase' = phase
    BY <1>8 DEF RunOver, CleanedUp, Interrupt, Abort, Cancel, CancelTasks, vars
  <2>3. QED
    BY <2>1, <2>2 DEF OrphanInv
<1>9. QED
  BY <1>1, <1>2, <1>3, <1>4, <1>5, <1>6, <1>7, <1>8 DEF Next, ConsumerStep

LEMMA DeletedStep ==
  ASSUME TypeOK, TypeOK', QueueInv, PhaseInv, OrphanInv, OrphanInv', OnlyOrphansDeleted,
         [Next]_vars
  PROVE  OnlyOrphansDeleted'
<1>1. CASE phase' \notin {"orphans", "done", "raised"}
  BY <1>1 DEF OrphanInv, OnlyOrphansDeleted
<1>2. CASE phase' \in {"orphans", "done", "raised"}
  <2>1. SUFFICES ASSUME NEW s \in Sources, result'["deleted"][s] > 0
                 PROVE  Safe(s)'
    BY DEF OnlyOrphansDeleted, Safe
  <2>2. /\ ~NextRun /\ ~ResolvePaths /\ ~ResolveDocuments /\ ~List /\ ~Take
        /\ ~Dismiss /\ ~Write /\ ~Abort /\ ~Cancel
    BY <1>2, Resolved DEF NextRun, Request, List, Take, Dismiss, Write, Release, Abort,
                          Cancel, CancelTasks
  <2>3. CASE \E a \in Ask : TaskStep(a) \/ Die(a)
    <3>1. PICK a \in Ask : TaskStep(a) \/ Die(a)
      BY <2>3
    <3>2. task[a] \in Running /\ UNCHANGED <<phase, result>>
      BY <3>1, TaskChange
    <3>3. FALSE
      BY <1>2, <3>2 DEF PhaseInv, Alive, Ended
    <3>4. QED
      BY <3>3
  <2>4. CASE \E r \in Sources : DeleteOrphan(r)
    <3>1. PICK r \in Sources : DeleteOrphan(r)
      BY <2>4
    <3>2. UNCHANGED <<task, asked, known, live>>
      BY <3>1 DEF DeleteOrphan, requestVars, tasksVars
    <3>3. s = r \/ result'["deleted"][s] = result["deleted"][s]
      <4>1. PICK field \in {"deleted", "errors"} : Count(field, r)
        BY <3>1 DEF DeleteOrphan
      <4>2. result \in [Fields -> [Sources -> Nat]]
        BY DEF TypeOK
      <4> QED
        BY <4>1, <4>2 DEF Count, Fields
    <3>4. r \in orphans /\ phase = "orphans"
      BY <3>1 DEF DeleteOrphan
    <3>5. s \in known \ live
      BY <2>1, <3>3, <3>4 DEF OrphanInv, OnlyOrphansDeleted
    <3>6. \A a \in Tasks : task[a] = "done"
      BY <3>4 DEF PhaseInv, Done
    <3>7. QED
      BY <3>2, <3>5, <3>6 DEF Safe, Tasks
  <2>5. CASE StreamOver \/ RunOver \/ CleanedUp \/ Interrupt \/ UNCHANGED vars
    <3>1. UNCHANGED <<task, asked, known, live>>
      BY <2>5, QuietSteps
    <3>2. result' = result
      BY <2>5 DEF StreamOver, RunOver, CleanedUp, Interrupt, vars
    <3>3. Safe(s)
      BY <2>1, <3>2 DEF OnlyOrphansDeleted, Safe
    <3>4. QED
      BY <3>1, <3>3 DEF Safe, Tasks
  <2>6. QED
    BY <2>2, <2>3, <2>4, <2>5 DEF Next, ConsumerStep
<1>3. QED
  BY <1>1, <1>2

-----------------------------------------------------------------------------
(* What is reported. *)

LEMMA CountReports ==
  ASSUME TypeOK, NEW field \in Fields, NEW q \in Sources, Count(field, q)
  PROVE  \A s \in Sources :
           /\ Reports(s) \in Nat
           /\ Reports(s)' = Reports(s) + (IF s = q THEN 1 ELSE 0)
<1> TAKE s \in Sources
<1> DEFINE R(f) == result[f][s]
           One == IF s = q THEN 1 ELSE 0
<1>a. result \in [Fields -> [Sources -> Nat]]
  BY DEF TypeOK
<1>1. \A f \in Fields : R(f) \in Nat
  BY <1>a
<1>2. \A f \in Fields : R(f)' = R(f) + (IF f = field THEN One ELSE 0)
  BY <1>a DEF Count
<1>3. /\ Reports(s) = R("processed") + R("skipped") + R("errors") + R("deleted")
      /\ Reports(s)' = R("processed")' + R("skipped")' + R("errors")' + R("deleted")'
  BY DEF Reports
<1>4. One \in Nat /\ {"processed", "skipped", "errors", "deleted"} = Fields
  BY DEF Fields
<1> HIDE DEF R, One
<1>5. CASE field = "processed"
  BY <1>1, <1>2, <1>3, <1>4, <1>5 DEF One
<1>6. CASE field = "skipped"
  BY <1>1, <1>2, <1>3, <1>4, <1>6 DEF One
<1>7. CASE field = "errors"
  BY <1>1, <1>2, <1>3, <1>4, <1>7 DEF One
<1>8. CASE field = "deleted"
  BY <1>1, <1>2, <1>3, <1>4, <1>8 DEF One
<1>9. QED
  BY <1>4, <1>5, <1>6, <1>7, <1>8

LEMMA NoMentions ==
  ASSUME NEW s
  PROVE  Mentions({}, s) = 0
<1>1. {a \in {} : a[1] = s} = {}
  OBVIOUS
<1>2. QED
  BY <1>1, FS_EmptySet DEF Mentions

(* The first half of AccountInv, and the second with its choice named. *)
StreamAccount ==
  \A s \in Sources : Reports(s) = Mentions(asked \ Tasks, s) + Mentions(Handled, s)

SweptAccount(swept) ==
  /\ swept \in {{}, known \ live}
  /\ orphans \subseteq swept
  /\ \A s \in Sources :
       Reports(s) = Mentions(asked, s) + (IF s \in swept \ orphans THEN 1 ELSE 0)

LEMMA AccountForm ==
  AccountInv <=>
    /\ phase \in {"listing", "streaming", "holding"} => StreamAccount
    /\ phase \in {"orphans", "done"} => \E swept : SweptAccount(swept)
BY DEF AccountInv, StreamAccount, SweptAccount

LEMMA AccountFormPrime ==
  AccountInv' <=>
    /\ phase' \in {"listing", "streaming", "holding"} => StreamAccount'
    /\ phase' \in {"orphans", "done"} => \E swept : SweptAccount(swept)'
BY DEF AccountInv, StreamAccount, SweptAccount

LEMMA RequestAccount ==
  ASSUME NEW names, NEW alive, NEW field \in {"errors", "skipped"},
         Request(names, alive, field), names \subseteq asked', asked' \subseteq Ask
  PROVE  StreamAccount'
<1>1. Tasks' = names /\ Done' = {}
  BY DEF Request, Tasks, Done
<1>2. Handled' = {}
  BY <1>1 DEF Handled
<1> SUFFICES ASSUME NEW s \in Sources
             PROVE  Reports(s)' = Mentions(asked' \ Tasks', s) + Mentions(Handled', s)
  BY DEF StreamAccount, Mentions
<1> DEFINE N == Mentions(asked' \ names, s)
<1>3. N \in Nat
  BY MentionsType
<1>4. \A f \in Fields : result'[f][s] = IF f = field THEN N ELSE 0
  BY DEF Request
<1> HIDE DEF N
<1>5. Reports(s)' = N
  BY <1>3, <1>4 DEF Reports, Fields
<1>6. Mentions(Handled', s) = 0
  BY <1>2, NoMentions
<1>7. Mentions(asked' \ Tasks', s) = N
  BY <1>1 DEF N
<1>8. QED
  BY <1>3, <1>5, <1>6, <1>7

(* The tasks and the queue move on, what has been dealt with stays. *)
LEMMA HandledKept ==
  ASSUME TypeOK, QueueInv, NEW a \in Ask, TaskStep(a) \/ Die(a)
  PROVE  Tasks' = Tasks /\ Handled' = Handled
<1>1. a \notin Done /\ a \in Tasks
  BY TaskChange DEF Done, Tasks, Running
<1>2. Tasks' = Tasks
  BY <1>1, TaskChange DEF Tasks
<1>3. CASE Put(a)
  <2>1. handoff = {} /\ handoff' = {a} /\ Done' = Done \cup {a} /\ held' = held
    BY <1>3 DEF Put, Become, Done, TypeOK
  <2>2. QED
    BY <1>1, <1>2, <2>1 DEF Handled
<1>4. CASE ~Put(a)
  <2>1. handoff' = handoff /\ Done' = Done /\ held' = held
    BY <1>1, <1>4, TaskChange DEF Done
  <2>2. QED
    BY <1>2, <2>1 DEF Handled
<1>5. QED
  BY <1>3, <1>4

(* A dismissed or written outcome is reported once. *)
LEMMA HeldAccount ==
  ASSUME TypeOK, QueueInv, StreamAccount, Dismiss \/ Write
  PROVE  StreamAccount'
<1>1. PICK field \in Fields : Count(field, held[1])
  BY DEF Dismiss, Write, Fields
<1>2. phase = "holding"
  BY DEF Dismiss, Write
<1>3. held \in Ask /\ held[1] \in Sources
  BY <1>2, HeldIsTask
<1>4. UNCHANGED <<task, handoff, asked>> /\ held' = NoTask
  BY DEF Dismiss, Write, Release, tasksVars, requestVars
<1>5. held \in Done \ handoff /\ held \notin Handled /\ Handled \subseteq Ask
  BY <1>2 DEF QueueInv, Handled, Done
<1>6. Handled' = Handled \cup {held}
  BY <1>4, <1>5, StreamConstants DEF Handled, Done
<1>7. Tasks' = Tasks /\ asked' = asked
  BY <1>4 DEF Tasks
<1> SUFFICES ASSUME NEW s \in Sources
             PROVE  Reports(s)' = Mentions(asked' \ Tasks', s) + Mentions(Handled', s)
  BY DEF StreamAccount, Mentions
<1>8. Reports(s) \in Nat /\ Reports(s)' = Reports(s) + (IF s = held[1] THEN 1 ELSE 0)
  BY <1>1, <1>3, CountReports
<1>9. Mentions(Handled \cup {held}, s) = Mentions(Handled, s) + (IF held[1] = s THEN 1 ELSE 0)
  BY <1>3, <1>5, MentionsAdd
<1>10. Mentions(Handled', s) = Mentions(Handled, s) + (IF held[1] = s THEN 1 ELSE 0)
  BY <1>6, <1>9
<1>11. Mentions(asked' \ Tasks', s) = Mentions(asked \ Tasks, s)
  BY <1>7
<1>12. Reports(s) = Mentions(asked \ Tasks, s) + Mentions(Handled, s)
  BY DEF StreamAccount
<1>13. asked \ Tasks \subseteq Ask
  BY DEF TypeOK
<1>14. Mentions(asked \ Tasks, s) \in Nat /\ Mentions(Handled, s) \in Nat
  BY <1>5, <1>13, MentionsType
<1>15. QED
  BY <1>8, <1>10, <1>11, <1>12, <1>14

(* When the stream is over every name of the request has been reported. *)
LEMMA OverAccount ==
  ASSUME TypeOK, QueueInv, CountInv, PhaseInv, StreamAccount, StreamOver
  PROVE  \E swept : SweptAccount(swept)'
<1>1. handoff = {} /\ Tasks = Done
  BY StreamDrained DEF StreamOver
<1>2. held = NoTask
  BY DEF StreamOver, QueueInv
<1>3. Handled = Tasks
  BY <1>1, <1>2, StreamConstants DEF Handled, Done
<1>4. UNCHANGED <<asked, known, live, result>> /\ orphans' \in {{}, known \ live}
  BY DEF StreamOver, requestVars
<1>5. ASSUME NEW s \in Sources
      PROVE  Reports(s)' = Mentions(asked', s)
  <2>1. Mentions(asked \ Tasks, s) + Mentions(Tasks, s) = Mentions(asked, s)
    BY MentionsSplit DEF PhaseInv, TypeOK
  <2>2. Reports(s) = Mentions(asked \ Tasks, s) + Mentions(Handled, s)
    BY DEF StreamAccount
  <2>3. Reports(s)' = Reports(s)
    BY <1>4 DEF Reports
  <2>4. QED
    BY <1>3, <1>4, <2>1, <2>2, <2>3
<1>6. \A s \in Sources : Mentions(asked', s) \in Nat
  BY <1>4, MentionsType DEF TypeOK
<1>7. PICK swept \in {{}, known \ live} : orphans' = swept
  BY <1>4
<1>8. SweptAccount(swept)'
  BY <1>4, <1>5, <1>6, <1>7 DEF SweptAccount
<1>9. QED
  BY <1>8

LEMMA DeleteAccount ==
  ASSUME TypeOK, NEW swept, SweptAccount(swept), NEW r \in Sources, DeleteOrphan(r)
  PROVE  SweptAccount(swept)'
<1>1. PICK field \in Fields : Count(field, r)
  BY DEF DeleteOrphan, Fields
<1>2. /\ UNCHANGED <<asked, known, live>> /\ r \in orphans /\ orphans' = orphans \ {r}
  BY DEF DeleteOrphan, requestVars
<1>3. ASSUME NEW s \in Sources
      PROVE  Reports(s)' = Mentions(asked', s) + (IF s \in swept \ orphans' THEN 1 ELSE 0)
  <2>1. Reports(s) \in Nat /\ Reports(s)' = Reports(s) + (IF s = r THEN 1 ELSE 0)
    BY <1>1, CountReports
  <2>2. Reports(s) = Mentions(asked, s) + (IF s \in swept \ orphans THEN 1 ELSE 0)
    BY DEF SweptAccount
  <2>3. Mentions(asked', s) = Mentions(asked, s) /\ Mentions(asked, s) \in Nat
    BY <1>2, MentionsType DEF TypeOK
  <2>4. r \in swept
    BY <1>2 DEF SweptAccount
  <2>5. QED
    BY <1>2, <2>1, <2>2, <2>3, <2>4
<1>4. QED
  BY <1>2, <1>3 DEF SweptAccount

LEMMA AccountStep ==
  ASSUME TypeOK, TypeOK', QueueInv, CountInv, PhaseInv, OrphanInv, AccountInv, [Next]_vars
  PROVE  AccountInv'
<1>1. CASE phase' \in {"idle", "cleanup", "raised"}
  BY <1>1, AccountFormPrime
<1>2. CASE ResolvePaths \/ ResolveDocuments
  <2>1. PICK names \in SUBSET Ask, alive \in SUBSET Sources, field \in {"errors", "skipped"} :
          names \subseteq asked' /\ asked' \subseteq Ask /\ Request(names, alive, field)
    BY <1>2, Resolved
  <2>2. StreamAccount'
    BY <2>1, RequestAccount
  <2>3. phase' = "listing"
    BY <2>1 DEF Request
  <2>4. QED
    BY <2>2, <2>3, AccountFormPrime
<1>3. CASE \E a \in Ask : TaskStep(a) \/ Die(a)
  <2>1. PICK a \in Ask : TaskStep(a) \/ Die(a)
    BY <1>3
  <2>2. Tasks' = Tasks /\ Handled' = Handled
    BY <2>1, HandledKept
  <2>3. UNCHANGED <<phase, asked, known, live, orphans, result>>
    BY <2>1, TaskChange
  <2>4. \A s \in Sources : Reports(s)' = Reports(s)
    BY <2>3 DEF Reports
  <2>5. QED
    BY <2>2, <2>3, <2>4 DEF AccountInv
<1>4. CASE List \/ Take
  <2>1. UNCHANGED <<asked, result>> /\ phase \in {"listing", "streaming"}
        /\ phase' \in {"streaming", "holding"}
    BY <1>4 DEF List, Take, requestVars
  <2>2. Tasks' = Tasks
    BY <1>4 DEF List, Take, Tasks
  <2>3. Handled' = Handled
    <3>1. CASE List
      <4>1. Done = {} /\ Done' = {}
        BY <3>1 DEF List, PhaseInv, Done
      <4>2. QED
        BY <4>1 DEF Handled
    <3>2. CASE Take
      <4>1. PICK a \in handoff : held' = a /\ handoff' = handoff \ {a}
        BY <3>2 DEF Take
      <4>2. held = NoTask /\ Done' = Done
        BY <3>2 DEF Take, QueueInv, Done
      <4>3. QED
        BY <4>1, <4>2, StreamConstants DEF Handled, Done
    <3>3. QED
      BY <1>4, <3>1, <3>2
  <2>4. \A s \in Sources : Reports(s)' = Reports(s)
    BY <2>1 DEF Reports
  <2>5. QED
    BY <2>1, <2>2, <2>3, <2>4 DEF AccountInv
<1>5. CASE Dismiss \/ Write
  <2>1. phase = "holding" /\ phase' = "streaming"
    BY <1>5 DEF Dismiss, Write, Release
  <2>2. StreamAccount'
    BY <1>5, <2>1, HeldAccount, AccountForm
  <2>3. QED
    BY <2>1, <2>2, AccountFormPrime
<1>6. CASE StreamOver
  <2>1. phase = "streaming" /\ phase' = "orphans"
    BY <1>6 DEF StreamOver
  <2>2. \E swept : SweptAccount(swept)'
    BY <1>6, <2>1, OverAccount, AccountForm
  <2>3. QED
    BY <2>1, <2>2, AccountFormPrime
<1>7. CASE \E s \in Sources : DeleteOrphan(s)
  <2>1. PICK r \in Sources : DeleteOrphan(r)
    BY <1>7
  <2>2. phase = "orphans" /\ phase' = "orphans"
    BY <2>1 DEF DeleteOrphan
  <2>3. PICK swept : SweptAccount(swept)
    BY <2>2, AccountForm
  <2>4. SweptAccount(swept)'
    BY <2>1, <2>3, DeleteAccount
  <2>5. QED
    BY <2>2, <2>4, AccountFormPrime
<1>8. CASE RunOver \/ UNCHANGED vars
  <2>1. UNCHANGED <<asked, known, live, result, orphans, task, handoff, held>>
    BY <1>8 DEF RunOver, vars, requestVars, tasksVars
  <2>2. phase' = phase \/ (phase = "orphans" /\ phase' = "done")
    BY <1>8 DEF RunOver, vars
  <2>3. \A s \in Sources : Reports(s)' = Reports(s)
    BY <2>1 DEF Reports
  <2>4. UNCHANGED <<Tasks, Handled>>
    BY <2>1 DEF Tasks, Handled, Done
  <2>5. QED
    BY <2>1, <2>2, <2>3, <2>4 DEF AccountInv
<1>9. CASE NextRun \/ CleanedUp \/ Interrupt \/ Abort \/ Cancel
  <2>1. phase' \in {"idle", "cleanup", "raised"}
    BY <1>9 DEF NextRun, CleanedUp, Interrupt, Abort, Cancel, CancelTasks
  <2>2. QED
    BY <1>1, <2>1
<1>10. QED
  BY <1>2, <1>3, <1>4, <1>5, <1>6, <1>7, <1>8, <1>9 DEF Next, ConsumerStep

-----------------------------------------------------------------------------
(* The theorems. *)

LEMMA InitHolds == Init => StreamInv
<1> SUFFICES ASSUME Init PROVE StreamInv
  OBVIOUS
<1>1. TypeOK
  BY DEF Init, TypeOK
<1>2. Done = {} /\ Alive = {} /\ Tasks = {}
  BY DEF Init, Done, Alive, Tasks, Running
<1>3. {a \in Ask : task[a] \in {"evaluating", "putting"}} = {}
  BY DEF Init
<1>4. Slots <= Limit
  BY <1>3, FS_EmptySet, StreamConstants DEF Slots
<1>5. QueueInv
  BY <1>2, <1>4 DEF Init, QueueInv
<1>6. CountInv
  BY <1>2, FS_EmptySet DEF Init, CountInv
<1>7. PhaseInv /\ OrphanInv /\ AccountInv /\ OnlyOrphansDeleted
  BY <1>2 DEF Init, PhaseInv, OrphanInv, AccountInv, OnlyOrphansDeleted, Fields
<1>8. QED
  BY <1>1, <1>5, <1>6, <1>7 DEF StreamInv

(* The inductive invariant: where every task, outcome, cancellation and     *)
(* report of a run is in each phase of SyncEngine.run.                      *)
THEOREM StreamInductive == Spec => []StreamInv
<1>1. ASSUME StreamInv, [Next]_vars
      PROVE  StreamInv'
  <2>1. TypeOK'
    BY <1>1, TypeStep DEF StreamInv
  <2>2. QueueInv' /\ CountInv' /\ PhaseInv'
    BY <1>1, <2>1, QueueStep, CountStep, PhaseStep DEF StreamInv
  <2>3. OrphanInv'
    BY <1>1, <2>1, OrphanStep DEF StreamInv
  <2>4. OnlyOrphansDeleted'
    BY <1>1, <2>1, <2>3, DeletedStep DEF StreamInv
  <2>5. AccountInv'
    BY <1>1, <2>1, AccountStep DEF StreamInv
  <2>6. QED
    BY <2>1, <2>2, <2>3, <2>4, <2>5 DEF StreamInv
<1>2. QED
  BY <1>1, InitHolds, PTL DEF Spec

(* Every variable of the stream keeps its type. *)
THEOREM StreamTypeCorrect == Spec => []TypeOK
<1>1. StreamInv => TypeOK
  BY DEF StreamInv
<1>2. QED
  BY <1>1, StreamInductive, PTL

(* _stream: "at most concurrency + 2 outcomes exist at any time", for every *)
(* number of sources and every concurrency.                                 *)
THEOREM MemoryBounded == Spec => []AliveBound
<1>1. StreamInv => AliveBound
  BY Bounded DEF StreamInv
<1>2. QED
  BY <1>1, StreamInductive, PTL

(* "An early abort never abandons a running producer": run() neither        *)
(* returns nor raises, and deletes no orphan, while a task is left.         *)
THEOREM NoProducerAbandoned == Spec => []NoneLeftRunning
<1>1. StreamInv => NoneLeftRunning
  BY DEF StreamInv, PhaseInv, NoneLeftRunning
<1>2. QED
  BY <1>1, StreamInductive, PTL

(* UpdateResult accounts for each name of the request and for each orphan   *)
(* that was to be deleted, once.                                            *)
THEOREM AllAccountedFor == Spec => []EveryNameReportedOnce
<1>1. StreamInv => EveryNameReportedOnce
  <2> SUFFICES ASSUME StreamInv, phase = "done"
               PROVE  \E swept \in {{}, known \ live} : \A s \in Sources :
                        Reports(s) = Mentions(asked, s) + (IF s \in swept THEN 1 ELSE 0)
    BY DEF EveryNameReportedOnce
  <2>1. orphans = {}
    BY DEF StreamInv, OrphanInv
  <2>2. PICK swept : SweptAccount(swept)
    BY AccountForm DEF StreamInv
  <2>3. QED
    BY <2>1, <2>2 DEF SweptAccount
<1>2. QED
  BY <1>1, StreamInductive, PTL

(* delete_orphans deletes what the store listed and nothing upstream has,   *)
(* after every source has been evaluated.                                   *)
THEOREM LiveSourcesSurvive == Spec => []OnlyOrphansDeleted
<1>1. StreamInv => OnlyOrphansDeleted
  BY DEF StreamInv
<1>2. QED
  BY <1>1, StreamInductive, PTL
=============================================================================
