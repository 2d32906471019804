---------------------------- MODULE PipelineProofs ----------------------------
(***************************************************************************)
(* What TLAPS proves about a vector store pipeline: which sources it reads  *)
(* and writes, and what becomes of a document it splits.                    *)
(*                                                                          *)
(* DirectSync: type correctness; that a run, and a plan with its            *)
(* applications, end alike; for a store that replaces sources and files     *)
(* that never get an old content back, that a source is skipped only if its *)
(* items are current and that a source is never emptied by an update; for   *)
(* one that does not, that the items of two versions never mix.             *)
(*                                                                          *)
(* DocumentSplit: whatever the tiers cut, halve, pack and slice, no token   *)
(* of a heading, of a root or of what a root refers to is dropped, and the  *)
(* parts of split_by_headings are the document, cut before headings.        *)
(***************************************************************************)
EXTENDS DirectSync, DocumentSplit, SequenceLemmas, SequenceTheorems, FiniteSetTheorems,
        TLAPS

(* A source whose call is under way was asked for. *)
AskedInv ==
  phase \in {"hashing", "streaming"} => \A s \in Sources : at[s] # "none" => s \in asked

TypeInv == TypeOK /\ AskedInv

LEMMA NothingTypes == Nothing \in Entry /\ NoChange \in Change
  BY DEF Entry, Change, Nothing, NoChange

LEMMA DisturbedTypes == Disturbed => base' \in [Sources -> Entry] /\ clean' = "none"
  BY NothingTypes DEF Disturbed

LEMMA SettleTypes ==
  ASSUME TypeOK, NEW s \in Sources, Settle(s)
  PROVE  /\ token' \in [Sources -> Nat]
         /\ change' \in [Sources -> Change]
         /\ at' = [at EXCEPT ![s] = "done"]
  BY NothingTypes DEF TypeOK, Settle, Reach

LEMMA ReturnTypes ==
  ASSUME Return
  PROVE  /\ phase' = "idle"
         /\ at' = [s \in Sources |-> "none"]
         /\ token' \in [Sources -> Nat]
         /\ seen' \in [Sources -> Entry]
         /\ change' \in [Sources -> Change]
         /\ orphans' = {}
  BY NothingTypes DEF Return

(* What a write can leave is a stored source. *)
LEMMA WriteTypes ==
  ASSUME TypeOK, NEW s \in Sources
  PROVE  /\ Target(s) \in Entry
         /\ Added(s) \subseteq Entry
         /\ LeftBy(s) \subseteq Entry
<1>1. stored[s] \in Entry /\ change[s] \in Change
  BY DEF TypeOK
<1>2. stored[s].tok \in Nat /\ change[s].tok \in Nat
  BY <1>1 DEF Entry, Change
<1>3. stored[s].data \subseteq Nat /\ change[s].data \subseteq Nat
  BY <1>1 DEF Entry, Change
<1>4. stored[s].data \cup change[s].data \in SUBSET Nat
  BY <1>3
<1>5. Target(s) \in Entry
  BY <1>2, <1>3 DEF Target, Entry, Nothing
<1>6. Reads(s) \subseteq Nat
  BY <1>2 DEF Reads
<1>7. Added(s) \subseteq Entry
  BY <1>1, <1>4, <1>6 DEF Added, Entry
<1>8. Mixed(s) \in Entry /\ Unstamped(s) \in Entry
  BY <1>3, <1>4 DEF Mixed, Unstamped, Entry
<1>9. LeftBy(s) \subseteq Entry
  BY <1>1, <1>5, <1>7, <1>8, NothingTypes DEF LeftBy
<1> QED
  BY <1>5, <1>7, <1>9

LEMMA TypeInit == Init => TypeInv
<1> SUFFICES ASSUME Init PROVE TypeInv
  OBVIOUS
<1>1. saved = NoPlan /\ DOMAIN saved.change = {} /\ saved.orphans = {}
  BY DEF Init, NoPlan
<1> QED
  BY <1>1, NothingTypes DEF Init, TypeInv, TypeOK, AskedInv

LEMMA TypeStep == TypeInv /\ [Next]_vars => TypeInv'
<1> SUFFICES ASSUME TypeInv, [Next]_vars PROVE TypeInv'
  OBVIOUS
<1> USE DirectConstants
<1>a. TypeOK /\ AskedInv /\ replaces' \in Stores
  BY DEF TypeInv, TypeOK, Next, vars
<1>1. ASSUME NEW s \in Sources, Edit(s) PROVE TypeInv'
  <2>1. PICK v \in Versions : /\ file' = [file EXCEPT ![s] = v]
                              /\ last' = [last EXCEPT ![s] = IF v > @ THEN v ELSE @]
    BY <1>1 DEF Edit
  <2>2. v \in Nat
    BY <2>1, DirectConstants DEF Versions
  <2>3. file' \in [Sources -> Nat] /\ last' \in [Sources -> Nat]
    BY <1>a, <2>1, <2>2 DEF TypeOK
  <2> QED
    BY <1>a, <1>1, <2>3, DisturbedTypes DEF TypeInv, TypeOK, AskedInv, Edit, requestVars
<1>2. ASSUME NEW s \in Sources, Vanish(s) PROVE TypeInv'
  BY <1>a, <1>2, DisturbedTypes DEF TypeInv, TypeOK, AskedInv, Vanish, requestVars
<1>3. ASSUME NEW method \in {"run", "plan"}, NEW corpus \in SUBSET Sources,
             NEW orphaned \in BOOLEAN, Start(method, corpus, orphaned)
      PROVE  TypeInv'
  BY <1>a, <1>3 DEF TypeInv, TypeOK, AskedInv, Start, filesVars
<1>4. ASSUME NEW s \in Sources, HashFile(s) PROVE TypeInv'
  BY <1>a, <1>4 DEF TypeInv, TypeOK, AskedInv, HashFile, Reach, filesVars, requestVars
<1>5. ASSUME NEW s \in Sources, HashFails(s) PROVE TypeInv'
  BY <1>a, <1>5, DisturbedTypes, SettleTypes
     DEF TypeInv, TypeOK, AskedInv, HashFails, filesVars, requestVars
<1>6. CASE List
  BY <1>a, <1>6 DEF TypeInv, TypeOK, AskedInv, List, filesVars, requestVars
<1>7. ASSUME NEW s \in Sources, Skip(s) PROVE TypeInv'
  BY <1>a, <1>7, SettleTypes DEF TypeInv, TypeOK, AskedInv, Skip, filesVars, requestVars
<1>8. ASSUME NEW s \in Sources, Produce(s) PROVE TypeInv'
  <2>1. Items(s) \in SUBSET Nat
    BY <1>a DEF Items, TypeOK
  <2>2. [tok |-> token[s], data |-> Items(s), new |-> seen[s].data = {}] \in Change
    BY <1>a, <2>1 DEF TypeOK, Change
  <2> QED
    BY <1>a, <1>8, <2>2 DEF TypeInv, TypeOK, AskedInv, Produce, Reach, filesVars, requestVars
<1>9. ASSUME NEW s \in Sources, ProduceFails(s) PROVE TypeInv'
  BY <1>a, <1>9, DisturbedTypes, SettleTypes
     DEF TypeInv, TypeOK, AskedInv, ProduceFails, filesVars, requestVars
<1>10. ASSUME NEW s \in Sources,
             WriteNew(s) \/ WriteUpdate(s) \/ DeleteFirst(s) \/ UpsertAfter(s) \/ WriteFails(s)
      PROVE  TypeInv'
  <2>1. PICK e \in Entry : Put(s, e)
    BY <1>a, <1>10, WriteTypes, NothingTypes
       DEF WriteNew, WriteUpdate, DeleteFirst, UpsertAfter, WriteFails
  <2>2. stored' \in [Sources -> Entry]
    BY <1>a, <2>1 DEF TypeOK, Put
  <2>3. at[s] \in {"changed", "halfway"}
    BY <1>10 DEF WriteNew, WriteUpdate, DeleteFirst, UpsertAfter, WriteFails, Writable
  <2>4. CASE WriteNew(s) \/ WriteUpdate(s) \/ UpsertAfter(s)
    BY <1>a, <2>2, <2>3, <2>4, SettleTypes DEF TypeInv, TypeOK, AskedInv, WriteNew, WriteUpdate,
       UpsertAfter, filesVars, requestVars
  <2>5. CASE DeleteFirst(s)
    BY <1>a, <2>2, <2>3, <2>5 DEF TypeInv, TypeOK, AskedInv, DeleteFirst, Reach, filesVars,
       requestVars
  <2>6. CASE WriteFails(s)
    BY <1>a, <2>2, <2>3, <2>6, SettleTypes, DisturbedTypes DEF TypeInv, TypeOK, AskedInv,
       WriteFails, filesVars, requestVars
  <2> QED
    BY <1>10, <2>4, <2>5, <2>6
<1>11. CASE StreamOver
  BY <1>a, <1>11 DEF TypeInv, TypeOK, AskedInv, StreamOver, Orphaned, filesVars, requestVars
<1>12. CASE PlanOver
  <2>1. /\ saved'.orphans = Orphaned
        /\ DOMAIN saved'.change = {r \in Sources : at[r] = "changed"}
        /\ \A s \in DOMAIN saved'.change : saved'.change[s] = change[s]
    BY <1>12 DEF PlanOver, Planned
  <2>2. /\ saved'.orphans \in SUBSET Sources
        /\ DOMAIN saved'.change \subseteq Sources \ saved'.orphans
    BY <1>a, <1>12, <2>1 DEF PlanOver, Orphaned, AskedInv
  <2>3. \A s \in DOMAIN saved'.change : saved'.change[s] \in Change
    BY <1>a, <2>1 DEF TypeOK
  <2> QED
    BY <1>a, <1>12, <2>2, <2>3, ReturnTypes DEF TypeInv, TypeOK, AskedInv, PlanOver, filesVars,
       requestVars
<1>13. CASE Apply
  <2>1. change' \in [Sources -> Change]
    BY <1>a, <1>13, NothingTypes DEF TypeOK, Apply
  <2>2. base' \in [Sources -> Entry] /\ clean' \in {"none", "run", "plan"}
    BY <1>a, <1>13, DisturbedTypes DEF TypeOK, Apply
  <2> QED
    BY <1>a, <1>13, <2>1, <2>2 DEF TypeInv, TypeOK, AskedInv, Apply, filesVars
<1>14. ASSUME NEW s \in Sources, DeleteOrphan(s) PROVE TypeInv'
  <2>1. stored' \in [Sources -> Entry]
    BY <1>a, <1>14, NothingTypes DEF TypeOK, DeleteOrphan, Put
  <2> QED
    BY <1>a, <1>14, <2>1 DEF TypeInv, TypeOK, AskedInv, DeleteOrphan, filesVars, requestVars
<1>15. ASSUME NEW s \in Sources, DeleteOrphanFails(s) PROVE TypeInv'
  BY <1>a, <1>15, DisturbedTypes
     DEF TypeInv, TypeOK, AskedInv, DeleteOrphanFails, filesVars, requestVars
<1>16. CASE WritesBegin
  BY <1>a, <1>16 DEF TypeInv, TypeOK, AskedInv, WritesBegin, filesVars, requestVars
<1>17. CASE RunOver
  BY <1>a, <1>17, ReturnTypes DEF TypeInv, TypeOK, AskedInv, RunOver, filesVars, requestVars
<1>18. CASE Abort
  BY <1>a, <1>18, ReturnTypes, DisturbedTypes
     DEF TypeInv, TypeOK, AskedInv, Abort, filesVars, requestVars
<1>19. CASE UNCHANGED vars
  BY <1>a, <1>19 DEF TypeInv, TypeOK, AskedInv, vars
<1>20. Files \in SUBSET Sources
  BY DEF Files
<1> QED
  BY <1>1, <1>2, <1>3, <1>4, <1>5, <1>6, <1>7, <1>8, <1>9, <1>10, <1>11, <1>12, <1>13,
     <1>14, <1>15, <1>16, <1>17, <1>18, <1>19, <1>20
     DEF Next, Sync, Disturb, StartFull

(* Every variable, the store, the change tokens and the saved plan included, *)
(* keeps its type, and a plan never both deletes and writes a source.        *)
THEOREM DirectTypeCorrect == Spec => []TypeOK
<1>1. TypeInv => TypeOK
  BY DEF TypeInv
<1> QED
  BY TypeInit, TypeStep, <1>1, PTL DEF Spec

-----------------------------------------------------------------------------
(* Files only move on, and nothing is newer than its file's newest version  *)
(* or older than the hash it carries.                                       *)

Between(low, items, high) == \A d \in items : low <= d /\ d <= high

FreshSource(s) ==
  /\ file[s] \in {0, last[s]}
  /\ token[s] <= last[s]
  /\ Between(stored[s].tok, stored[s].data, last[s])
  /\ stored[s].data = {} => stored[s].tok = 0
  /\ Between(change[s].tok, change[s].data, last[s])

FreshPlan == \A s \in DOMAIN saved.change :
  Between(saved.change[s].tok, saved.change[s].data, last[s])

FreshInv == (\A s \in Sources : FreshSource(s)) /\ FreshPlan

FreshStored(s, e) == Between(e.tok, e.data, last[s]) /\ (e.data = {} => e.tok = 0)

(* What a write can leave is no newer than the file and no older than its   *)
(* hash.                                                                    *)
LEMMA WriteFresh ==
  ASSUME TypeOK, replaces, NEW s \in Sources, FreshSource(s)
  PROVE  /\ FreshStored(s, Nothing)
         /\ FreshStored(s, Target(s))
         /\ \A e \in Added(s) : FreshStored(s, e)
         /\ \A e \in LeftBy(s) : FreshStored(s, e)
<1>1. /\ stored[s].tok \in Nat /\ stored[s].data \in SUBSET Nat
      /\ change[s].tok \in Nat /\ change[s].data \in SUBSET Nat
      /\ last[s] \in Nat
  BY DEF TypeOK, Entry, Change
<1>2. FreshStored(s, Nothing)
  BY DEF FreshStored, Between, Nothing
<1>3. FreshStored(s, stored[s])
  BY DEF FreshSource, FreshStored
<1>4. FreshStored(s, Target(s))
  BY <1>1, <1>2 DEF Target, FreshStored, FreshSource, Between
<1>5. ASSUME NEW e \in Added(s) PROVE FreshStored(s, e)
  <2>1. CASE change[s].data = {}
    BY <1>3, <1>5, <2>1 DEF Added
  <2>2. CASE change[s].data # {}
    <3>1. PICK h \in Reads(s) : e = [tok |-> h, data |-> stored[s].data \cup change[s].data]
      BY <1>5, <2>2 DEF Added
    <3>2. e.tok = h /\ e.data = stored[s].data \cup change[s].data
      BY <3>1
    <3>3. CASE stored[s].data = {} \/ stored[s].tok = change[s].tok
      <4>1. h = change[s].tok
        BY <3>1, <3>3 DEF Reads
      <4> QED
        BY <1>1, <2>2, <3>2, <3>3, <4>1 DEF FreshStored, FreshSource, Between
    <3>4. CASE ~(stored[s].data = {} \/ stored[s].tok = change[s].tok)
      <4>1. h = 0
        BY <3>1, <3>4 DEF Reads
      <4> QED
        BY <1>1, <2>2, <3>2, <4>1 DEF FreshStored, FreshSource, Between
    <3> QED
      BY <3>3, <3>4
  <2> QED
    BY <2>1, <2>2
<1>6. FreshStored(s, Mixed(s)) /\ FreshStored(s, Unstamped(s))
  BY <1>1 DEF Mixed, Unstamped, FreshStored, FreshSource, Between
<1>7. \A e \in LeftBy(s) : FreshStored(s, e)
  BY <1>2, <1>3, <1>4, <1>5, <1>6 DEF LeftBy
<1> QED
  BY <1>2, <1>4, <1>5, <1>7

LEMMA FreshInit == Init => FreshInv
<1> SUFFICES ASSUME Init PROVE FreshInv
  OBVIOUS
<1>1. saved = NoPlan /\ DOMAIN saved.change = {}
  BY DEF Init, NoPlan
<1>2. ASSUME NEW s \in Sources PROVE FreshSource(s)
  BY DEF Init, FreshSource, Between, Nothing, NoChange
<1> QED
  BY <1>1, <1>2 DEF FreshInv, FreshPlan

(* What a step does to one source, with what it needs of the others. *)
LEMMA FreshStep ==
  ASSUME Recurs = FALSE, Stores = {TRUE}
  PROVE  TypeInv /\ FreshInv /\ [Next]_vars => FreshInv'
<1> SUFFICES ASSUME TypeInv, FreshInv, [Next]_vars PROVE FreshInv'
  OBVIOUS
<1>a. TypeOK /\ TypeOK' /\ replaces
  BY TypeStep DEF TypeInv, TypeOK
<1>b. ASSUME NEW s \in Sources
      PROVE  /\ FreshSource(s)
             /\ last[s] \in Nat /\ file[s] \in Nat /\ token[s] \in Nat
             /\ stored[s].tok \in Nat /\ stored[s].data \in SUBSET Nat
             /\ change[s].tok \in Nat /\ change[s].data \in SUBSET Nat
  BY <1>a DEF FreshInv, TypeOK, Entry, Change
(* It is enough that the versions move on and that each part stays fresh. *)
<1>c. ASSUME \A s \in Sources : last[s] <= last'[s] /\ file'[s] \in {0, last'[s]},
             \A s \in Sources : token'[s] \in {0, token[s], file[s]},
             \A s \in Sources : FreshStored(s, stored'[s]),
             \A s \in Sources : Between(change'[s].tok, change'[s].data, last[s]),
             \A s \in DOMAIN saved'.change :
               Between(saved'.change[s].tok, saved'.change[s].data, last[s])
      PROVE  FreshInv'
  <2>1. ASSUME NEW s \in Sources PROVE FreshSource(s)'
    <3>1. last'[s] \in Nat /\ token'[s] \in Nat
      BY <1>a DEF TypeOK
    <3>2. /\ stored'[s].data \in SUBSET Nat /\ change'[s].data \in SUBSET Nat
      BY <1>a DEF TypeOK, Entry, Change
    <3>3. token'[s] <= last'[s]
      BY <1>b, <1>c, <3>1 DEF FreshSource
    <3>4. Between(stored'[s].tok, stored'[s].data, last'[s])
      BY <1>b, <1>c, <3>1, <3>2 DEF FreshStored, Between
    <3>5. Between(change'[s].tok, change'[s].data, last'[s])
      BY <1>b, <1>c, <3>1, <3>2 DEF Between
    <3> QED
      BY <1>c, <3>3, <3>4, <3>5 DEF FreshSource, FreshStored
  <2>2. ASSUME NEW s \in DOMAIN saved'.change
        PROVE  Between(saved'.change[s].tok, saved'.change[s].data, last'[s])
    <3>1. s \in Sources /\ saved'.change[s] \in Change
      BY <1>a DEF TypeOK
    <3>2. saved'.change[s].data \in SUBSET Nat
      BY <3>1 DEF Change
    <3>3. last'[s] \in Nat
      BY <1>a, <3>1 DEF TypeOK
    <3> QED
      BY <1>b, <1>c, <3>1, <3>2, <3>3 DEF Between
  <2> QED
    BY <2>1, <2>2 DEF FreshInv, FreshPlan
(* The parts that most steps leave alone. *)
<1>d. /\ \A s \in Sources : FreshStored(s, stored[s])
      /\ \A s \in Sources : Between(change[s].tok, change[s].data, last[s])
      /\ \A s \in Sources : Between(NoChange.tok, NoChange.data, last[s])
      /\ \A s \in DOMAIN saved.change :
           Between(saved.change[s].tok, saved.change[s].data, last[s])
      /\ \A s \in Sources : last[s] <= last[s] /\ file[s] \in {0, last[s]}
  BY <1>b DEF FreshSource, FreshStored, FreshInv, FreshPlan, Between, NoChange
<1>1. ASSUME NEW s \in Sources, Edit(s) \/ Vanish(s) PROVE FreshInv'
  <2>1. \A r \in Sources : last[r] <= last'[r] /\ file'[r] \in {0, last'[r]}
    <3>1. CASE Edit(s)
      <4>1. last[s] + 1 \in Nat /\ last[s] + 1 > last[s]
        BY <1>b
      <4>2. file' = [file EXCEPT ![s] = last[s] + 1] /\ last' = [last EXCEPT ![s] = last[s] + 1]
        BY <1>b, <3>1, <4>1 DEF Edit
      <4> QED
        BY <1>a, <1>b, <1>d, <4>1, <4>2 DEF TypeOK
    <3>2. CASE Vanish(s)
      BY <1>a, <1>d, <3>2 DEF Vanish, TypeOK
    <3> QED
      BY <1>1, <3>1, <3>2
  <2> QED
    BY <1>1, <1>c, <1>d, <2>1 DEF Edit, Vanish
<1>2. ASSUME NEW s \in Sources, HashFile(s) PROVE FreshInv'
  BY <1>2, <1>a, <1>c, <1>d DEF HashFile, filesVars, TypeOK
<1>3. ASSUME NEW s \in Sources, HashFails(s) \/ Skip(s) \/ ProduceFails(s) PROVE FreshInv'
  BY <1>3, <1>a, <1>c, <1>d DEF HashFails, Skip, ProduceFails, Settle, filesVars, TypeOK
<1>4. ASSUME NEW s \in Sources, Produce(s) PROVE FreshInv'
  <2>1. file[s] = last[s]
    BY <1>4, <1>b DEF Produce, FreshSource
  <2>2. /\ change'[s].tok = token[s] /\ change'[s].data \in {{}, {file[s]}}
        /\ \A r \in Sources \ {s} : change'[r] = change[r]
    BY <1>4, <1>a DEF Produce, Items, TypeOK
  <2>3. Between(change'[s].tok, change'[s].data, last[s])
    BY <1>b, <2>1, <2>2 DEF Between, FreshSource
  <2> QED
    BY <1>4, <1>c, <1>d, <2>2, <2>3 DEF Produce, filesVars
<1>5. ASSUME NEW s \in Sources,
             WriteNew(s) \/ WriteUpdate(s) \/ DeleteFirst(s) \/ UpsertAfter(s) \/ WriteFails(s)
      PROVE  FreshInv'
  <2>1. PICK e : Put(s, e) /\ FreshStored(s, e)
    BY <1>5, <1>a, <1>b, WriteFresh
       DEF WriteNew, WriteUpdate, DeleteFirst, UpsertAfter, WriteFails
  <2>2. \A r \in Sources : FreshStored(r, stored'[r])
    BY <1>a, <1>d, <2>1 DEF Put, TypeOK
  <2> QED
    BY <1>5, <1>a, <1>c, <1>d, <2>2 DEF WriteNew, WriteUpdate, DeleteFirst, UpsertAfter,
       WriteFails, Settle, filesVars, TypeOK
<1>6. CASE PlanOver
  <2>1. /\ DOMAIN saved'.change = {r \in Sources : at[r] = "changed"}
        /\ \A s \in DOMAIN saved'.change : saved'.change[s] = change[s]
    BY <1>6 DEF PlanOver, Planned
  <2>2. \A s \in DOMAIN saved'.change :
          Between(saved'.change[s].tok, saved'.change[s].data, last[s])
    BY <1>d, <2>1
  <2> QED
    BY <1>6, <1>c, <1>d, <2>2 DEF PlanOver, Return, filesVars
<1>7. CASE Apply
  BY <1>7, <1>a, <1>c, <1>d DEF Apply, filesVars, TypeOK
<1>8. ASSUME NEW s \in Sources, DeleteOrphan(s) PROVE FreshInv'
  <2>1. \A r \in Sources : FreshStored(r, stored'[r])
    BY <1>8, <1>a, <1>b, <1>d, WriteFresh DEF DeleteOrphan, Put, TypeOK
  <2> QED
    BY <1>8, <1>c, <1>d, <2>1 DEF DeleteOrphan, filesVars
<1>9. CASE RunOver \/ Abort
  BY <1>9, <1>c, <1>d DEF RunOver, Abort, Return, filesVars
<1>10. ASSUME NEW s \in Sources, DeleteOrphanFails(s) PROVE FreshInv'
  BY <1>10, <1>c, <1>d DEF DeleteOrphanFails, filesVars
<1>11. ASSUME NEW method, NEW corpus, NEW orphaned, Start(method, corpus, orphaned)
       PROVE  FreshInv'
  BY <1>11, <1>c, <1>d DEF Start, filesVars
<1>12. CASE List \/ StreamOver \/ WritesBegin \/ UNCHANGED vars
  BY <1>12, <1>c, <1>d DEF List, StreamOver, WritesBegin, vars, filesVars
<1> QED
  BY <1>1, <1>2, <1>3, <1>4, <1>5, <1>6, <1>7, <1>8, <1>9, <1>10, <1>11, <1>12
     DEF Next, Sync, Disturb, StartFull

(* A store that replaces sources, files that never get an old content back: *)
(* a source whose stored hash is its file's is skipped, and rightly so, its *)
(* items are those of the file.  The hash is taken before the file is       *)
(* parsed, and no write puts a hash on items older than it.                 *)
THEOREM SkippedIsCurrent ==
  ASSUME Recurs = FALSE, Stores = {TRUE}
  PROVE  Spec => []UnchangedIsCurrent
<1>1. TypeInv /\ FreshInv => UnchangedIsCurrent
  <2> SUFFICES ASSUME TypeInv, FreshInv, NEW s \in Sources, file[s] # 0, stored[s].tok = file[s]
               PROVE  stored[s].data = {file[s]}
    BY DEF UnchangedIsCurrent
  <2>1. FreshSource(s) /\ file[s] \in Nat /\ stored[s].data \in SUBSET Nat
    BY DEF TypeInv, TypeOK, Entry, FreshInv
  <2>2. file[s] = last[s] /\ stored[s].data # {}
    BY <2>1 DEF FreshSource
  <2>3. \A d \in stored[s].data : d = file[s]
    BY <2>1, <2>2 DEF FreshSource, Between
  <2> QED
    BY <2>2, <2>3
<1>2. TypeInv /\ FreshInv /\ [Next]_vars => (TypeInv /\ FreshInv)'
  BY TypeStep, FreshStep
<1>3. Init => TypeInv /\ FreshInv
  BY TypeInit, FreshInit
<1> QED
  BY <1>1, <1>2, <1>3, PTL DEF Spec

(* The items of a source are all gone at once only if it was an orphan or   *)
(* yields nothing now, on a store that replaces sources.                    *)
EmptiedOnPurpose(s) ==
  stored[s].data # {} /\ stored'[s].data = {} => s \in orphans \/ change[s].data = {}

LEMMA WriteKeeps ==
  ASSUME TypeOK, replaces, NEW s \in Sources, change[s].data # {}, at[s] # "halfway"
  PROVE  /\ Target(s).data # {}
         /\ \A e \in Added(s) : e.data # {}
         /\ \A e \in LeftBy(s) : e.data # {} \/ e = stored[s]
<1>1. Target(s).data # {} /\ Mixed(s).data # {} /\ Unstamped(s).data # {}
  BY DEF Target, Mixed, Unstamped
<1>2. \A e \in Added(s) : e.data # {}
  BY DEF Added
<1> QED
  BY <1>1, <1>2 DEF LeftBy, OneCall

(* A store that replaces sources is never halfway between a delete and an   *)
(* upsert.                                                                  *)
WholeInv == replaces => \A s \in Sources : at[s] # "halfway"

LEMMA WholeStep == TypeInv /\ WholeInv /\ [Next]_vars => WholeInv'
<1> SUFFICES ASSUME TypeInv, WholeInv, [Next]_vars, replaces PROVE WholeInv'
  BY DEF WholeInv, Next, vars
<1>a. at \in [Sources -> {"none", "asked", "hashed", "changed", "halfway", "done"}]
  BY DEF TypeInv, TypeOK
<1>1. ASSUME NEW s \in Sources,
             \/ HashFile(s) \/ HashFails(s) \/ Skip(s) \/ Produce(s) \/ ProduceFails(s)
             \/ WriteNew(s) \/ WriteUpdate(s) \/ UpsertAfter(s) \/ WriteFails(s)
      PROVE  WholeInv'
  BY <1>1, <1>a DEF WholeInv, HashFile, HashFails, Skip, Produce, ProduceFails, WriteNew,
     WriteUpdate, UpsertAfter, WriteFails, Reach, Settle
<1>2. ASSUME NEW s \in Sources, DeleteFirst(s) PROVE WholeInv'
  BY <1>2 DEF DeleteFirst, OneCall
<1>3. ASSUME NEW s \in Sources,
             Edit(s) \/ Vanish(s) \/ DeleteOrphan(s) \/ DeleteOrphanFails(s)
      PROVE  WholeInv'
  BY <1>3 DEF WholeInv, Edit, Vanish, DeleteOrphan, DeleteOrphanFails
<1>4. CASE List \/ StreamOver \/ WritesBegin \/ UNCHANGED vars
  BY <1>4 DEF WholeInv, List, StreamOver, WritesBegin, vars
<1>5. CASE PlanOver \/ RunOver \/ Abort
  BY <1>5 DEF WholeInv, PlanOver, RunOver, Abort, Return
<1>6. CASE Apply
  BY <1>6 DEF WholeInv, Apply
<1>7. ASSUME NEW method, NEW corpus, NEW orphaned, Start(method, corpus, orphaned)
      PROVE  WholeInv'
  BY <1>7 DEF WholeInv, Start
<1> QED
  BY <1>1, <1>2, <1>3, <1>4, <1>5, <1>6, <1>7 DEF Next, Sync, Disturb, StartFull

LEMMA EmptyStep ==
  TypeInv /\ WholeInv /\ [Next]_vars => (replaces => \A s \in Sources : EmptiedOnPurpose(s))
<1> SUFFICES ASSUME TypeInv, WholeInv, [Next]_vars, replaces, NEW r \in Sources
             PROVE  EmptiedOnPurpose(r)
  OBVIOUS
<1>a. TypeOK /\ stored \in [Sources -> Entry] /\ \A s \in Sources : at[s] # "halfway"
  BY DEF TypeInv, TypeOK, WholeInv
<1>1. ASSUME NEW s \in Sources,
             WriteNew(s) \/ WriteUpdate(s) \/ DeleteFirst(s) \/ UpsertAfter(s) \/ WriteFails(s)
      PROVE  EmptiedOnPurpose(r)
  <2>1. CASE change[s].data = {}
    BY <1>1, <1>a, <2>1 DEF WriteNew, WriteUpdate, DeleteFirst, UpsertAfter, WriteFails, Put,
       EmptiedOnPurpose
  <2>2. CASE change[s].data # {}
    <3>1. PICK e : Put(s, e) /\ (e.data # {} \/ e = stored[s])
      BY <1>1, <1>a, <2>2, WriteKeeps
         DEF WriteNew, WriteUpdate, DeleteFirst, UpsertAfter, WriteFails, OneCall
    <3> QED
      BY <1>a, <3>1 DEF Put, EmptiedOnPurpose
  <2> QED
    BY <2>1, <2>2
<1>2. ASSUME NEW s \in Sources, DeleteOrphan(s) PROVE EmptiedOnPurpose(r)
  BY <1>2, <1>a DEF DeleteOrphan, Put, EmptiedOnPurpose
<1>3. CASE stored' = stored
  BY <1>3 DEF EmptiedOnPurpose
<1>4. ASSUME NEW s \in Sources,
             \/ HashFile(s) \/ HashFails(s) \/ Skip(s) \/ Produce(s) \/ ProduceFails(s)
             \/ Edit(s) \/ Vanish(s) \/ DeleteOrphanFails(s)
      PROVE  stored' = stored
  BY <1>4 DEF HashFile, HashFails, Skip, Produce, ProduceFails, Edit, Vanish, DeleteOrphanFails
<1>5. CASE \/ List \/ StreamOver \/ WritesBegin \/ PlanOver \/ RunOver \/ Abort \/ Apply
           \/ UNCHANGED vars
  BY <1>3, <1>5 DEF List, StreamOver, WritesBegin, PlanOver, RunOver, Abort, Apply, vars
<1>6. ASSUME NEW method, NEW corpus, NEW orphaned, Start(method, corpus, orphaned)
      PROVE  stored' = stored
  BY <1>6 DEF Start
<1> QED
  BY <1>1, <1>2, <1>3, <1>4, <1>5, <1>6 DEF Next, Sync, Disturb, StartFull

(* On a store that replaces sources, no write, whether it succeeds, fails   *)
(* or lands in part, ever takes the last item of a source that has a new    *)
(* one: searches keep finding it.                                           *)
THEOREM UpdateNeverEmpties == Spec => NeverEmptied
<1>1. Init => TypeInv /\ WholeInv
  BY TypeInit DEF Init, WholeInv
<1>2. TypeInv /\ WholeInv /\ [Next]_vars => (TypeInv /\ WholeInv)'
  BY TypeStep, WholeStep
<1>3. TypeInv /\ WholeInv /\ [Next]_vars =>
        [replaces => \A s \in Sources :
           stored[s].data # {} /\ stored'[s].data = {} =>
             s \in orphans \/ change[s].data = {}]_vars
  BY EmptyStep DEF EmptiedOnPurpose
<1> QED
  BY <1>1, <1>2, <1>3, PTL DEF Spec, NeverEmptied

-----------------------------------------------------------------------------
(* What a run or a plan does, as long as nothing else happens. *)

(* A source without items has no hash. *)
Clear(e) == e.data = {} => e.tok = 0

PhaseInv(s) ==
  /\ Clear(stored[s]) /\ Clear(base[s])
  /\ phase \in {"hashing", "streaming"} => mode \in {"run", "plan"}
  /\ phase = "deleting" => mode \in {"run", "apply"}
  /\ phase = "writing" => mode = "apply"
  /\ at[s] = "halfway" => (phase = "streaming" /\ mode = "run") \/ phase = "writing"
  /\ clean # "none" => mode = clean \/ (clean = "plan" /\ mode = "apply")

(* The change that the files and the store before call for. *)
Wanted(s) == [tok |-> file[s], data |-> Items(s), new |-> base[s].data = {}]
ToWrite(s) == s \in asked /\ base[s].tok # file[s]
ToDelete(s) == s \notin asked /\ sweep /\ base[s].data # {}

HashingInv(s) ==
  clean # "none" /\ phase = "hashing" =>
    /\ stored[s] = base[s]
    /\ at[s] \in {"none", "asked", "hashed"}
    /\ s \in asked <=> at[s] # "none"
    /\ at[s] = "hashed" => token[s] = file[s] /\ file[s] # 0

StreamingInv(s) ==
  clean # "none" /\ phase = "streaming" =>
    /\ seen[s] = base[s]
    /\ at[s] # "asked"
    /\ s \in asked <=> at[s] # "none"
    /\ s \in asked => file[s] # 0
    /\ at[s] \in {"none", "hashed"} => stored[s] = base[s]
    /\ at[s] = "hashed" => token[s] = file[s]
    /\ at[s] = "changed" => ToWrite(s) /\ change[s] = Wanted(s) /\ stored[s] = base[s]
    /\ at[s] = "halfway" => ToWrite(s) /\ change[s] = Wanted(s) /\ stored[s] = Nothing
    /\ at[s] = "done" => stored[s] = Expected(s) /\ (mode = "plan" => ~ToWrite(s))

DeletingInv(s) ==
  clean # "none" /\ phase = "deleting" /\ mode = "run" =>
    IF s \in orphans THEN ToDelete(s) ELSE stored[s] = Expected(s)

(* A plan is what has to be done. *)
PlanInv(s) ==
  clean = "plan" /\ (phase = "idle" \/ mode = "apply") =>
    /\ s \in DOMAIN saved.change <=> ToWrite(s)
    /\ s \in DOMAIN saved.change => saved.change[s] = Wanted(s)
    /\ s \in saved.orphans <=> ToDelete(s)

IdleInv(s) ==
  clean # "none" /\ phase = "idle" =>
    stored[s] = IF mode = "plan" THEN base[s] ELSE Expected(s)

(* A plan may be applied twice: a source is as it was before, or as it will *)
(* be.                                                                      *)
ApplyInv(s) ==
  clean # "none" /\ phase \in {"deleting", "writing"} /\ mode = "apply" =>
    /\ s \in orphans => phase = "deleting" /\ ToDelete(s)
    /\ at[s] \in {"none", "changed", "halfway", "done"}
    /\ at[s] = "changed" => ToWrite(s) /\ change[s] = Wanted(s)
                            /\ stored[s] \in {base[s], Expected(s)}
    /\ at[s] = "halfway" => ToWrite(s) /\ change[s] = Wanted(s) /\ stored[s] = Nothing
    /\ at[s] \in {"none", "done"} /\ s \notin orphans => stored[s] = Expected(s)

EndSource(s) ==
  /\ PhaseInv(s) /\ HashingInv(s) /\ StreamingInv(s) /\ DeletingInv(s)
  /\ PlanInv(s) /\ IdleInv(s) /\ ApplyInv(s)

EndInv == \A s \in Sources : EndSource(s)

LEMMA ClearWrites ==
  ASSUME NEW s \in Sources, Clear(stored[s])
  PROVE  /\ Clear(Nothing) /\ Clear(Target(s))
         /\ \A e \in Added(s) : Clear(e)
         /\ \A e \in LeftBy(s) : Clear(e)
<1>1. Clear(Nothing) /\ Clear(Target(s))
  BY DEF Clear, Nothing, Target
<1>2. \A e \in Added(s) : Clear(e)
  BY DEF Clear, Added
<1>3. Clear(Mixed(s)) /\ Clear(Unstamped(s))
  BY DEF Clear, Mixed, Unstamped
<1> QED
  BY <1>1, <1>2, <1>3 DEF LeftBy

LEMMA DisturbedPhase ==
  ASSUME Disturbed, NEW s \in Sources
  PROVE  Clear(base'[s]) /\ clean' = "none"
  BY ClearWrites DEF Disturbed, Clear, Nothing

LEMMA PhaseStep ==
  ASSUME TypeInv, \A s \in Sources : PhaseInv(s), [Next]_vars, NEW r \in Sources
  PROVE  PhaseInv(r)'
<1>a. TypeOK /\ PhaseInv(r) /\ \A s \in Sources : Clear(stored[s])
  BY DEF TypeInv, PhaseInv
<1>1. ASSUME NEW s \in Sources, Edit(s) \/ Vanish(s) \/ DeleteOrphanFails(s) PROVE PhaseInv(r)'
  BY <1>1, <1>a, DisturbedPhase DEF PhaseInv, Edit, Vanish, DeleteOrphanFails, requestVars
<1>2. ASSUME NEW method \in {"run", "plan"}, NEW corpus, NEW orphaned,
             Start(method, corpus, orphaned)
      PROVE  PhaseInv(r)'
  BY <1>2, <1>a DEF PhaseInv, Start, filesVars
<1>3. ASSUME NEW s \in Sources, HashFile(s) \/ Skip(s) \/ Produce(s) PROVE PhaseInv(r)'
  BY <1>3, <1>a DEF PhaseInv, HashFile, Skip, Produce, Settle, Reach, requestVars, TypeOK
<1>4. ASSUME NEW s \in Sources, HashFails(s) \/ ProduceFails(s) PROVE PhaseInv(r)'
  BY <1>4, <1>a, DisturbedPhase
     DEF PhaseInv, HashFails, ProduceFails, Settle, Reach, requestVars, TypeOK
<1>5. ASSUME NEW s \in Sources,
             WriteNew(s) \/ WriteUpdate(s) \/ DeleteFirst(s) \/ UpsertAfter(s) \/ WriteFails(s)
      PROVE  PhaseInv(r)'
  <2>1. PICK e : Put(s, e) /\ Clear(e)
    BY <1>5, <1>a, ClearWrites DEF WriteNew, WriteUpdate, DeleteFirst, UpsertAfter, WriteFails
  <2>2. Clear(stored'[r])
    BY <1>a, <2>1 DEF Put, TypeOK
  <2>3. CASE WriteNew(s) \/ WriteUpdate(s) \/ UpsertAfter(s)
    BY <1>a, <2>2, <2>3
       DEF PhaseInv, WriteNew, WriteUpdate, UpsertAfter, Settle, Reach, requestVars, TypeOK
  <2>4. CASE DeleteFirst(s)
    BY <1>a, <2>2, <2>4 DEF PhaseInv, DeleteFirst, Writable, Reach, requestVars, TypeOK
  <2>5. CASE WriteFails(s)
    BY <1>a, <2>2, <2>5, DisturbedPhase DEF PhaseInv, WriteFails, Settle, Reach, requestVars, TypeOK
  <2> QED
    BY <1>5, <2>3, <2>4, <2>5
<1>6. CASE List \/ WritesBegin
  BY <1>6, <1>a DEF PhaseInv, List, WritesBegin, requestVars
<1>7. CASE StreamOver
  BY <1>7, <1>a DEF PhaseInv, StreamOver, Settled, requestVars
<1>8. CASE PlanOver \/ RunOver
  BY <1>8, <1>a DEF PhaseInv, PlanOver, RunOver, Return, requestVars
<1>9. CASE Abort
  BY <1>9, <1>a, DisturbedPhase DEF PhaseInv, Abort, Return, requestVars
<1>10. CASE Apply
  <2>1. clean' = "none" \/ (clean' = "plan" /\ clean = "plan")
    BY <1>10 DEF Apply, Disturbed
  <2>2. Clear(base'[r])
    BY <1>10, <1>a, DisturbedPhase DEF PhaseInv, Apply
  <2> QED
    BY <1>10, <1>a, <2>1, <2>2 DEF PhaseInv, Apply
<1>11. ASSUME NEW s \in Sources, DeleteOrphan(s) PROVE PhaseInv(r)'
  <2>1. Clear(stored'[r])
    BY <1>11, <1>a, ClearWrites DEF DeleteOrphan, Put, TypeOK
  <2> QED
    BY <1>11, <1>a, <2>1 DEF PhaseInv, DeleteOrphan, requestVars
<1>12. CASE UNCHANGED vars
  BY <1>12, <1>a DEF PhaseInv, vars
<1> QED
  BY <1>1, <1>2, <1>3, <1>4, <1>5, <1>6, <1>7, <1>8, <1>9, <1>10, <1>11, <1>12
     DEF Next, Sync, Disturb, StartFull

LEMMA NewOf == ASSUME NEW t, NEW d, NEW n, [tok |-> t, data |-> d, new |-> n].new PROVE n
  OBVIOUS

(* What has to be written is what the write of it comes to, on the store    *)
(* as it was, half written or written already.                              *)
LEMMA WriteEnds ==
  ASSUME NEW s \in Sources, base[s] \in Entry, Clear(base[s]), ToWrite(s), change[s] = Wanted(s)
  PROVE  /\ Target(s) = Expected(s)
         /\ change[s].new /\ stored[s] \in {base[s], Expected(s)} =>
              \A e \in Added(s) : e = Expected(s)
         /\ stored[s] = Nothing => \A e \in Added(s) : e = Expected(s)
<1>1. change[s].tok = file[s] /\ change[s].data = Items(s)
  BY DEF Wanted
<1>6. change[s].new => base[s].data = {}
  <2> SUFFICES ASSUME change[s].new PROVE base[s].data = {}
    OBVIOUS
  <2>1. [tok |-> file[s], data |-> Items(s), new |-> base[s].data = {}].new
    BY Zenon DEF Wanted
  <2> QED
    BY <2>1, NewOf, Zenon
<1>2. Expected(s) = IF Items(s) = {} THEN Nothing ELSE [tok |-> file[s], data |-> Items(s)]
  BY DEF Expected, ToWrite, Items
<1>3. Target(s) = Expected(s)
  BY <1>1, <1>2 DEF Target
<1>4. ASSUME stored[s] = Expected(s) \/ stored[s] = Nothing
      PROVE  \A e \in Added(s) : e = Expected(s)
  <2>1. CASE Items(s) = {}
    BY <1>1, <1>2, <1>4, <2>1 DEF Added
  <2>2. CASE Items(s) # {}
    <3>1. Reads(s) = {file[s]} /\ stored[s].data \cup Items(s) = Items(s)
      <4>1. CASE stored[s] = Nothing
        BY <1>1, <4>1 DEF Reads, Nothing
      <4>2. CASE stored[s] = Expected(s)
        BY <1>1, <1>2, <2>2, <4>2 DEF Reads
      <4> QED
        BY <1>4, <4>1, <4>2
    <3>2. Added(s) = {[tok |-> h, data |-> Items(s)] : h \in {file[s]}}
      BY <1>1, <2>2, <3>1 DEF Added
    <3> QED
      BY <1>2, <2>2, <3>2
  <2> QED
    BY <2>1, <2>2
<1>5. base[s].data = {} => base[s] = Nothing
  BY DEF Clear, Entry, Nothing
<1> QED
  BY <1>3, <1>4, <1>5, <1>6

(* A step that does not touch a source. *)
LEMMA UntouchedEnds ==
  ASSUME NEW r \in Sources, EndSource(r),
         UNCHANGED <<file, phase, mode, asked, sweep, base, clean, saved>>,
         stored'[r] = stored[r], token'[r] = token[r], seen'[r] = seen[r], at'[r] = at[r],
         change'[r] = change[r], r \in orphans' <=> r \in orphans
  PROVE  EndSource(r)'
<1> USE DEF EndSource
<1>1. /\ Expected(r)' = Expected(r) /\ Wanted(r)' = Wanted(r)
      /\ ToWrite(r)' = ToWrite(r) /\ ToDelete(r)' = ToDelete(r)
  BY DEF Expected, Wanted, Items, ToWrite, ToDelete
<1>2. PhaseInv(r)'
  BY DEF PhaseInv, Clear
<1>3. HashingInv(r)'
  BY DEF HashingInv
<1>4. StreamingInv(r)'
  BY <1>1 DEF StreamingInv
<1>5. DeletingInv(r)'
  BY <1>1 DEF DeletingInv
<1>6. PlanInv(r)'
  BY <1>1 DEF PlanInv
<1>7. IdleInv(r)'
  BY <1>1 DEF IdleInv
<1>8. ApplyInv(r)'
  BY <1>1 DEF ApplyInv
<1> QED
  BY <1>2, <1>3, <1>4, <1>5, <1>6, <1>7, <1>8

(* What a step does to the one source it is about. *)
LEMMA SourceEnds ==
  ASSUME TypeInv, NEW s \in Sources, EndSource(s), PhaseInv(s)', clean # "none",
         \/ HashFile(s) \/ Skip(s) \/ Produce(s)
         \/ WriteNew(s) \/ WriteUpdate(s) \/ DeleteFirst(s) \/ UpsertAfter(s)
         \/ DeleteOrphan(s)
  PROVE  EndSource(s)'
<1>a. TypeOK /\ base[s] \in Entry /\ Clear(base[s]) /\ PhaseInv(s)
  BY DEF TypeInv, TypeOK, EndSource, PhaseInv
<1>b. UNCHANGED <<file, phase, mode, asked, sweep, base, clean, saved, seen>>
  BY DEF HashFile, Skip, Produce, WriteNew, WriteUpdate, DeleteFirst, UpsertAfter, DeleteOrphan,
     filesVars, requestVars
<1>c. /\ Expected(s)' = Expected(s) /\ Wanted(s)' = Wanted(s)
      /\ ToWrite(s)' = ToWrite(s) /\ ToDelete(s)' = ToDelete(s)
  BY <1>b DEF Expected, Wanted, Items, ToWrite, ToDelete
<1>1. CASE HashFile(s)
  <2>1. phase = "hashing" /\ at'[s] = "hashed" /\ token'[s] = file[s] /\ file[s] # 0
    BY <1>1, <1>a DEF HashFile, Reach, TypeOK
  <2>2. HashingInv(s)'
    BY <1>1, <1>b, <2>1 DEF EndSource, HashingInv, HashFile
  <2> QED
    BY <1>a, <1>b, <2>1, <2>2
       DEF EndSource, PhaseInv, StreamingInv, DeletingInv, PlanInv, IdleInv, ApplyInv
<1>2. CASE Skip(s)
  <2>1. phase = "streaming" /\ at[s] = "hashed" /\ at'[s] = "done" /\ stored' = stored
    BY <1>2, <1>a DEF Skip, Settle, Reach, TypeOK
  <2>2. /\ seen[s] = base[s] /\ stored[s] = base[s] /\ s \in asked /\ token[s] = file[s]
        /\ file[s] # 0
    BY <2>1 DEF EndSource, StreamingInv
  <2>3. base[s].tok = file[s]
    BY <1>2, <2>2 DEF Skip, Unchanged
  <2>4. stored'[s] = Expected(s) /\ ~ToWrite(s)
    BY <2>1, <2>2, <2>3 DEF Expected, ToWrite
  <2>5. StreamingInv(s)'
    BY <1>b, <1>c, <2>1, <2>2, <2>4 DEF StreamingInv
  <2> QED
    BY <1>a, <1>b, <2>1, <2>5
       DEF EndSource, PhaseInv, HashingInv, DeletingInv, PlanInv, IdleInv, ApplyInv
<1>3. CASE Produce(s)
  <2>1. /\ phase = "streaming" /\ at[s] = "hashed" /\ at'[s] = "changed" /\ stored' = stored
        /\ file[s] # 0
    BY <1>3, <1>a DEF Produce, Reach, TypeOK
  <2>2. seen[s] = base[s] /\ stored[s] = base[s] /\ s \in asked /\ token[s] = file[s]
    BY <2>1 DEF EndSource, StreamingInv
  <2>3. base[s].tok # file[s]
    BY <1>3, <2>1, <2>2 DEF Produce, Unchanged
  <2>4. change'[s] = [tok |-> token[s], data |-> Items(s), new |-> seen[s].data = {}]
    BY <1>3, <1>a DEF Produce, TypeOK
  <2>5. change'[s] = Wanted(s)
    BY <2>2, <2>4, Zenon DEF Wanted
  <2>6. ToWrite(s)
    BY <2>2, <2>3 DEF ToWrite
  <2>7. StreamingInv(s)'
    BY <1>b, <1>c, <2>1, <2>2, <2>5, <2>6 DEF StreamingInv
  <2> QED
    BY <1>a, <1>b, <2>1, <2>7
       DEF EndSource, PhaseInv, HashingInv, DeletingInv, PlanInv, IdleInv, ApplyInv
<1>4. CASE WriteNew(s) \/ WriteUpdate(s) \/ UpsertAfter(s)
  <2>1. at'[s] = "done" /\ orphans' = orphans
    BY <1>4, <1>a DEF WriteNew, WriteUpdate, UpsertAfter, Settle, Reach, TypeOK
  <2>2. /\ at[s] \in {"changed", "halfway"}
        /\ (phase = "streaming" /\ mode = "run") \/ (phase = "writing" /\ mode = "apply")
    BY <1>4, <1>a DEF WriteNew, WriteUpdate, UpsertAfter, Writable, PhaseInv
  <2>3. /\ ToWrite(s) /\ change[s] = Wanted(s)
        /\ at[s] = "changed" => stored[s] \in {base[s], Expected(s)}
        /\ at[s] = "halfway" => stored[s] = Nothing
    BY <2>2 DEF EndSource, StreamingInv, ApplyInv
  <2>4. stored'[s] = Expected(s)
    <3>1. CASE WriteNew(s)
      BY <1>a, <2>3, <3>1, WriteEnds DEF WriteNew, Writable, Put, TypeOK
    <3>2. CASE WriteUpdate(s)
      BY <1>a, <2>3, <3>2, WriteEnds DEF WriteUpdate, Put, TypeOK
    <3>3. CASE UpsertAfter(s)
      BY <1>a, <2>3, <3>3, WriteEnds DEF UpsertAfter, Put, TypeOK
    <3> QED
      BY <1>4, <3>1, <3>2, <3>3
  <2>5. StreamingInv(s)'
    BY <1>b, <1>c, <2>1, <2>2, <2>3, <2>4 DEF EndSource, StreamingInv
  <2>6. ApplyInv(s)'
    BY <1>b, <1>c, <2>1, <2>4 DEF EndSource, ApplyInv
  <2>7. PlanInv(s)'
    BY <1>b, <1>c DEF EndSource, PlanInv
  <2> QED
    BY <1>b, <2>2, <2>5, <2>6, <2>7 DEF EndSource, HashingInv, DeletingInv, IdleInv
<1>5. CASE DeleteFirst(s)
  <2>1. /\ at'[s] = "halfway" /\ orphans' = orphans /\ change' = change
        /\ stored'[s] = Nothing
    BY <1>5, <1>a DEF DeleteFirst, Put, Reach, TypeOK
  <2>2. /\ at[s] = "changed"
        /\ (phase = "streaming" /\ mode = "run") \/ (phase = "writing" /\ mode = "apply")
    BY <1>5, <1>a DEF DeleteFirst, Writable, PhaseInv
  <2>3. ToWrite(s) /\ change[s] = Wanted(s)
    BY <2>2 DEF EndSource, StreamingInv, ApplyInv
  <2>5. StreamingInv(s)'
    BY <1>b, <1>c, <2>1, <2>2, <2>3 DEF EndSource, StreamingInv
  <2>6. ApplyInv(s)'
    BY <1>b, <1>c, <2>1, <2>3 DEF EndSource, ApplyInv
  <2>7. PlanInv(s)'
    BY <1>b, <1>c DEF EndSource, PlanInv
  <2> QED
    BY <1>b, <2>2, <2>5, <2>6, <2>7 DEF EndSource, HashingInv, DeletingInv, IdleInv
<1>6. CASE DeleteOrphan(s)
  <2>1. /\ phase = "deleting" /\ s \in orphans /\ stored'[s] = Nothing
        /\ s \notin orphans' /\ at' = at /\ change' = change
    BY <1>6, <1>a DEF DeleteOrphan, Put, TypeOK
  <2>2. ToDelete(s) /\ mode \in {"run", "apply"}
    BY <1>a, <2>1 DEF EndSource, PhaseInv, DeletingInv, ApplyInv
  <2>3. Expected(s) = Nothing /\ ~ToWrite(s)
    BY <2>2 DEF Expected, ToDelete, ToWrite
  <2>4. DeletingInv(s)'
    BY <1>b, <1>c, <2>1, <2>3 DEF DeletingInv
  <2>5. ApplyInv(s)'
    BY <1>b, <1>c, <2>1, <2>3 DEF EndSource, ApplyInv
  <2>6. PlanInv(s)'
    BY <1>b, <1>c DEF EndSource, PlanInv
  <2> QED
    BY <1>b, <2>1, <2>4, <2>5, <2>6 DEF EndSource, HashingInv, StreamingInv, IdleInv
<1> QED
  BY <1>1, <1>2, <1>3, <1>4, <1>5, <1>6

LEMMA EndInit == Init => EndInv
<1> SUFFICES ASSUME Init, NEW s \in Sources PROVE EndSource(s)
  BY DEF EndInv
<1>1. PhaseInv(s)
  BY DEF Init, PhaseInv, Clear, Nothing
<1> QED
  BY <1>1 DEF Init, EndSource, HashingInv, StreamingInv, DeletingInv, PlanInv, IdleInv, ApplyInv

(* The steps from one phase to the next. *)
LEMMA PhaseEnds ==
  ASSUME TypeInv, EndInv, NEW s \in Sources, PhaseInv(s)', clean' # "none",
         \/ \E method \in {"run", "plan"}, corpus \in SUBSET Sources, orphaned \in BOOLEAN :
              Start(method, corpus, orphaned)
         \/ List \/ StreamOver \/ PlanOver \/ Apply \/ WritesBegin \/ RunOver
  PROVE  EndSource(s)'
<1>a. TypeOK /\ base[s] \in Entry /\ Clear(base[s]) /\ PhaseInv(s) /\ EndSource(s)
  BY DEF TypeInv, TypeOK, EndInv, EndSource, PhaseInv
<1>b. base[s].data = {} => base[s] = Nothing
  BY <1>a DEF Clear, Entry, Nothing
<1>1. ASSUME NEW method \in {"run", "plan"}, NEW corpus \in SUBSET Sources,
             NEW orphaned \in BOOLEAN, Start(method, corpus, orphaned)
      PROVE  EndSource(s)'
  <2>1. /\ phase' = "hashing" /\ mode' \in {"run", "plan"} /\ base' = stored
        /\ stored' = stored /\ asked' = corpus
        /\ at'[s] = IF s \in corpus THEN "asked" ELSE "none"
    BY <1>1 DEF Start
  <2>2. HashingInv(s)'
    BY <2>1 DEF HashingInv
  <2> QED
    BY <1>a, <2>1, <2>2
       DEF EndSource, StreamingInv, DeletingInv, PlanInv, IdleInv, ApplyInv
<1>2. CASE List
  <2>0. UNCHANGED <<file, mode, asked, sweep, base, clean, saved, stored, token, at>>
    BY <1>2 DEF List, filesVars, requestVars
  <2>1. /\ phase = "hashing" /\ phase' = "streaming" /\ at[s] # "asked" /\ seen' = stored
        /\ mode \in {"run", "plan"}
    BY <1>2, <1>a DEF List, PhaseInv
  <2>2. StreamingInv(s)'
    BY <1>a, <2>0, <2>1 DEF EndSource, HashingInv, StreamingInv
  <2> QED
    BY <1>a, <2>0, <2>1, <2>2
       DEF EndSource, HashingInv, DeletingInv, PlanInv, IdleInv, ApplyInv
<1>3. CASE StreamOver
  <2>0. UNCHANGED <<file, mode, asked, sweep, base, clean, saved, stored, at>>
    BY <1>3 DEF StreamOver, filesVars, requestVars
  <2>1. /\ phase = "streaming" /\ phase' = "deleting" /\ mode = "run"
        /\ at[s] \in {"none", "done"} /\ orphans' = Orphaned
    BY <1>3 DEF StreamOver, Settled
  <2>2. /\ seen[s] = base[s]
        /\ s \in asked <=> at[s] # "none"
        /\ at[s] = "none" => stored[s] = base[s]
        /\ at[s] = "done" => stored[s] = Expected(s)
    BY <1>a, <2>0, <2>1 DEF EndSource, StreamingInv
  <2>3. Expected(s)' = Expected(s) /\ ToDelete(s)' = ToDelete(s)
    BY <2>0 DEF Expected, ToDelete
  <2>4. s \in orphans' <=> ToDelete(s)
    BY <2>1, <2>2 DEF Orphaned, ToDelete
  <2>5. ~ToDelete(s) => stored[s] = Expected(s)
    BY <1>b, <2>1, <2>2 DEF Expected, ToDelete
  <2>6. DeletingInv(s)'
    BY <2>0, <2>3, <2>4, <2>5 DEF DeletingInv
  <2> QED
    BY <1>a, <2>0, <2>1, <2>6
       DEF EndSource, PhaseInv, HashingInv, StreamingInv, PlanInv, IdleInv, ApplyInv
<1>4. CASE PlanOver
  <2>0. UNCHANGED <<file, mode, asked, sweep, base, clean, stored>>
    BY <1>4 DEF PlanOver, filesVars, requestVars
  <2>1. /\ phase = "streaming" /\ phase' = "idle" /\ mode = "plan"
        /\ at[s] \in {"none", "done", "changed"} /\ saved' = Planned
    BY <1>4 DEF PlanOver, Return, Settled
  <2>2. /\ seen[s] = base[s]
        /\ s \in asked <=> at[s] # "none"
        /\ at[s] = "none" => stored[s] = base[s]
        /\ at[s] = "changed" => ToWrite(s) /\ change[s] = Wanted(s) /\ stored[s] = base[s]
        /\ at[s] = "done" => stored[s] = Expected(s) /\ ~ToWrite(s)
    BY <1>a, <2>0, <2>1 DEF EndSource, StreamingInv
  <2>3. /\ Wanted(s)' = Wanted(s) /\ ToDelete(s)' = ToDelete(s) /\ ToWrite(s)' = ToWrite(s)
    BY <2>0 DEF Wanted, Items, ToDelete, ToWrite
  <2>4. s \in saved'.orphans <=> ToDelete(s)
    BY <2>1, <2>2 DEF Planned, Orphaned, ToDelete
  <2>5. s \in DOMAIN saved'.change <=> at[s] = "changed"
    BY <2>1 DEF Planned
  <2>6. at[s] = "changed" <=> ToWrite(s)
    BY <2>1, <2>2 DEF ToWrite
  <2>7. s \in DOMAIN saved'.change => saved'.change[s] = Wanted(s)
    BY <2>1, <2>2, <2>5 DEF Planned
  <2>8. PlanInv(s)'
    BY <2>3, <2>4, <2>5, <2>6, <2>7 DEF PlanInv
  <2>9. stored[s] = base[s]
    BY <2>1, <2>2 DEF Expected, ToWrite
  <2>10. IdleInv(s)'
    BY <2>0, <2>1, <2>9 DEF IdleInv
  <2> QED
    BY <1>a, <2>0, <2>1, <2>8, <2>10
       DEF EndSource, HashingInv, StreamingInv, DeletingInv, ApplyInv
<1>5. CASE Apply
  <2>0. UNCHANGED <<file, asked, sweep, base, clean, saved, stored>> /\ clean = "plan"
    BY <1>5, <1>a DEF Apply, filesVars, Disturbed, PhaseInv
  <2>1. /\ phase = "idle" /\ phase' = "deleting" /\ mode' = "apply"
        /\ orphans' = saved.orphans
        /\ at'[s] = IF s \in DOMAIN saved.change THEN "changed" ELSE "none"
        /\ s \in DOMAIN saved.change => change'[s] = saved.change[s]
    BY <1>5 DEF Apply
  <2>2. /\ s \in DOMAIN saved.change <=> ToWrite(s)
        /\ s \in DOMAIN saved.change => saved.change[s] = Wanted(s)
        /\ s \in saved.orphans <=> ToDelete(s)
    BY <1>a, <2>0, <2>1 DEF EndSource, PlanInv
  <2>3. stored[s] \in {base[s], Expected(s)}
    BY <1>a, <2>0, <2>1 DEF EndSource, IdleInv
  <2>4. /\ Expected(s)' = Expected(s) /\ Wanted(s)' = Wanted(s)
        /\ ToDelete(s)' = ToDelete(s) /\ ToWrite(s)' = ToWrite(s)
    BY <2>0 DEF Expected, Wanted, Items, ToDelete, ToWrite
  <2>5. ~ToWrite(s) /\ ~ToDelete(s) => stored[s] = Expected(s)
    BY <1>b, <2>3 DEF Expected, ToDelete, ToWrite
  <2>6. PlanInv(s)'
    BY <2>0, <2>2, <2>4 DEF PlanInv
  <2>7. ApplyInv(s)'
    BY <2>0, <2>1, <2>2, <2>3, <2>4, <2>5 DEF ApplyInv
  <2> QED
    BY <1>a, <2>1, <2>6, <2>7 DEF EndSource, HashingInv, StreamingInv, DeletingInv, IdleInv
<1>6. CASE WritesBegin
  <2>0. UNCHANGED <<file, mode, asked, sweep, base, clean, saved, stored, at, change, orphans>>
    BY <1>6 DEF WritesBegin, filesVars, requestVars
  <2>1. phase = "deleting" /\ phase' = "writing" /\ mode = "apply" /\ orphans = {}
    BY <1>6 DEF WritesBegin
  <2>2. /\ Expected(s)' = Expected(s) /\ Wanted(s)' = Wanted(s)
        /\ ToDelete(s)' = ToDelete(s) /\ ToWrite(s)' = ToWrite(s)
    BY <2>0 DEF Expected, Wanted, Items, ToDelete, ToWrite
  <2>3. PlanInv(s)'
    BY <1>a, <2>0, <2>1, <2>2 DEF EndSource, PlanInv
  <2>4. ApplyInv(s)'
    BY <1>a, <2>0, <2>1, <2>2 DEF EndSource, ApplyInv
  <2> QED
    BY <1>a, <2>1, <2>3, <2>4 DEF EndSource, HashingInv, StreamingInv, DeletingInv, IdleInv
<1>7. CASE RunOver
  <2>0. UNCHANGED <<file, mode, asked, sweep, base, clean, saved, stored>>
    BY <1>7 DEF RunOver, filesVars, requestVars
  <2>1. /\ phase' = "idle"
        /\ \/ phase = "deleting" /\ orphans = {} /\ mode = "run"
           \/ phase = "writing" /\ at[s] \in {"none", "done"} /\ mode = "apply"
    BY <1>7, <1>a DEF RunOver, Return, Settled, PhaseInv
  <2>2. /\ Expected(s)' = Expected(s) /\ Wanted(s)' = Wanted(s)
        /\ ToDelete(s)' = ToDelete(s) /\ ToWrite(s)' = ToWrite(s)
    BY <2>0 DEF Expected, Wanted, Items, ToDelete, ToWrite
  <2>3. stored[s] = Expected(s)
    BY <1>a, <2>0, <2>1 DEF EndSource, DeletingInv, ApplyInv
  <2>4. IdleInv(s)'
    BY <2>0, <2>1, <2>2, <2>3 DEF IdleInv
  <2>5. PlanInv(s)'
    BY <1>a, <2>0, <2>1, <2>2 DEF EndSource, PhaseInv, PlanInv
  <2> QED
    BY <1>a, <2>1, <2>4, <2>5
       DEF EndSource, HashingInv, StreamingInv, DeletingInv, ApplyInv
<1> QED
  BY <1>1, <1>2, <1>3, <1>4, <1>5, <1>6, <1>7

(* Once something else has happened nothing more is claimed. *)
LEMMA NothingClaimed ==
  ASSUME NEW s \in Sources, PhaseInv(s), clean = "none" PROVE EndSource(s)
  BY DEF EndSource, HashingInv, StreamingInv, DeletingInv, PlanInv, IdleInv, ApplyInv

LEMMA EndStep == TypeInv /\ EndInv /\ [Next]_vars => EndInv'
<1> SUFFICES ASSUME TypeInv, EndInv, [Next]_vars, NEW r \in Sources PROVE EndSource(r)'
  BY DEF EndInv
<1>a. TypeOK /\ EndSource(r) /\ \A s \in Sources : EndSource(s) /\ PhaseInv(s)
  BY DEF TypeInv, EndInv, EndSource
<1>b. PhaseInv(r)'
  BY <1>a, PhaseStep
<1>1. CASE clean' = "none"
  BY <1>1, <1>b, NothingClaimed
     DEF EndSource, HashingInv, StreamingInv, DeletingInv, PlanInv, IdleInv, ApplyInv
<1>2. ASSUME NEW s \in Sources, clean' # "none",
             \/ HashFile(s) \/ Skip(s) \/ Produce(s)
             \/ WriteNew(s) \/ WriteUpdate(s) \/ DeleteFirst(s) \/ UpsertAfter(s)
             \/ DeleteOrphan(s)
      PROVE  EndSource(r)'
  <2>1. UNCHANGED <<file, phase, mode, asked, sweep, base, clean, saved, seen>>
    BY <1>2 DEF HashFile, Skip, Produce, WriteNew, WriteUpdate, DeleteFirst, UpsertAfter,
       DeleteOrphan, filesVars, requestVars
  <2>2. CASE r = s
    BY <1>2, <1>a, <1>b, <2>1, <2>2, SourceEnds
  <2>3. CASE r # s
    <3>1. /\ stored'[r] = stored[r] /\ token'[r] = token[r] /\ at'[r] = at[r]
          /\ change'[r] = change[r] /\ (r \in orphans' <=> r \in orphans)
      BY <1>2, <1>a, <2>3 DEF HashFile, Skip, Produce, WriteNew, WriteUpdate, DeleteFirst,
         UpsertAfter, DeleteOrphan, Put, Settle, Reach, TypeOK
    <3> QED
      BY <1>a, <2>1, <3>1, UntouchedEnds
  <2> QED
    BY <2>2, <2>3
<1>3. CASE clean' # "none" /\
        (\/ \E method \in {"run", "plan"}, corpus \in SUBSET Sources, orphaned \in BOOLEAN :
              Start(method, corpus, orphaned)
         \/ List \/ StreamOver \/ PlanOver \/ Apply \/ WritesBegin \/ RunOver)
  BY <1>3, <1>b, PhaseEnds
<1>4. CASE UNCHANGED vars
  BY <1>4, <1>a, UntouchedEnds DEF vars
<1>5. ASSUME NEW s \in Sources,
             \/ Edit(s) \/ Vanish(s) \/ HashFails(s) \/ ProduceFails(s) \/ WriteFails(s)
             \/ DeleteOrphanFails(s)
      PROVE  clean' = "none"
  BY <1>5 DEF Edit, Vanish, HashFails, ProduceFails, WriteFails, DeleteOrphanFails, Disturbed
<1>6. Abort => clean' = "none"
  BY DEF Abort, Disturbed
<1>7. Files \in SUBSET Sources
  BY DEF Files
<1> QED
  BY <1>1, <1>2, <1>3, <1>4, <1>5, <1>6, <1>7 DEF Next, Sync, Disturb, StartFull

(* A run, and a plan with its applications, end alike: with what the files  *)
(* and the store before them call for, in every store, whatever contents    *)
(* the files had before, as long as nothing fails and no file changes.      *)
THEOREM RunIsPlanAndApply == Spec => []SameEndState
<1>1. Init => TypeInv /\ EndInv
  BY TypeInit, EndInit
<1>2. TypeInv /\ EndInv /\ [Next]_vars => (TypeInv /\ EndInv)'
  BY TypeStep, EndStep
<1>3. EndInv => SameEndState
  BY DEF EndInv, EndSource, IdleInv, SameEndState
<1> QED
  BY <1>1, <1>2, <1>3, PTL DEF Spec

-----------------------------------------------------------------------------
(* A store without replace_source: new items are added only to a source     *)
(* that has none but them, and every other write is preceded by a delete.   *)

Small(d) == \A a, b \in d : a = b

AddsTo(c, e) == c.new => e.data \subseteq c.data

MixSource(s) ==
  /\ Small(stored[s].data) /\ Small(change[s].data)
  /\ s \in DOMAIN saved.change => Small(saved.change[s].data)
  /\ at[s] = "changed" => AddsTo(change[s], stored[s])
  /\ at[s] = "halfway" => stored[s].data = {}
  /\ phase = "streaming" /\ at[s] \notin {"halfway", "done"} => seen[s] = stored[s]
  /\ clean = "plan" /\ (phase = "idle" \/ mode = "apply") /\ s \in DOMAIN saved.change =>
       AddsTo(saved.change[s], stored[s])
  /\ phase \in {"deleting", "writing"} /\ mode = "apply" /\ at[s] \in {"changed", "halfway"} =>
       s \in DOMAIN saved.change /\ change[s] = saved.change[s]

MixInv == ~replaces => \A s \in Sources : PhaseInv(s) /\ MixSource(s)

LEMMA MixUntouched ==
  ASSUME NEW r \in Sources, MixSource(r), UNCHANGED <<phase, mode, saved>>,
         clean' \in {clean, "none"}, stored'[r] = stored[r], seen'[r] = seen[r],
         at'[r] = at[r], change'[r] = change[r]
  PROVE  MixSource(r)'
  BY DEF MixSource

(* What a write can leave on such a store. *)
LEMMA WriteMixes ==
  ASSUME NEW s \in Sources, MixSource(s), ~replaces,
         NEW e, \/ at[s] = "changed" /\ change[s].new /\ e \in Added(s)
                \/ at[s] = "changed" /\ ~change[s].new /\ OneCall(s) /\ e = Target(s)
                \/ at[s] = "changed" /\ ~change[s].new /\ ~OneCall(s) /\ e = Nothing
                \/ at[s] = "halfway" /\ e \in Added(s)
                \/ at[s] \in {"changed", "halfway"} /\ e \in LeftBy(s)
  PROVE  e = stored[s] \/ e.data = {} \/ e.data = change[s].data
<1>1. \A x \in Added(s) : x = stored[s] \/ x.data = stored[s].data \cup change[s].data
  BY DEF Added
<1>2. Nothing.data = {}
  BY DEF Nothing
<1>3. OneCall(s) => Target(s) = Nothing
  BY DEF OneCall, Target
<1>4. at[s] = "halfway" => \A x \in Added(s) : x = stored[s] \/ x.data = change[s].data
  BY <1>1 DEF MixSource
<1>5. at[s] = "changed" /\ change[s].new =>
        \A x \in Added(s) : x = stored[s] \/ x.data = change[s].data
  BY <1>1 DEF MixSource, AddsTo
<1>6. CASE at[s] \in {"changed", "halfway"} /\ e \in LeftBy(s)
  BY <1>2, <1>3, <1>4, <1>5, <1>6 DEF LeftBy, OneCall
<1> QED
  BY <1>2, <1>3, <1>4, <1>5, <1>6

LEMMA MixStep ==
  ASSUME FALSE \notin OldPlans
  PROVE  TypeInv /\ MixInv /\ [Next]_vars => MixInv'
<1> SUFFICES ASSUME TypeInv, MixInv, [Next]_vars, ~replaces, NEW r \in Sources
             PROVE  PhaseInv(r)' /\ MixSource(r)'
  BY DEF MixInv, Next, vars
<1>a. TypeOK /\ MixSource(r) /\ \A s \in Sources : MixSource(s) /\ PhaseInv(s)
  BY DEF TypeInv, MixInv
<1>b. PhaseInv(r)'
  BY <1>a, PhaseStep
<1>c. Small({}) /\ NoChange.data = {} /\ \A e : AddsTo(NoChange, e)
  BY DEF Small, AddsTo, NoChange
<1>d. replaces = FALSE /\ replaces \notin OldPlans
  BY <1>a, DirectConstants DEF TypeOK
<1> SUFFICES MixSource(r)'
  BY <1>b
<1>1. ASSUME NEW s \in Sources,
             Edit(s) \/ Vanish(s) \/ DeleteOrphanFails(s)
      PROVE  MixSource(r)'
  BY <1>1, <1>a, MixUntouched
     DEF Edit, Vanish, DeleteOrphanFails, Disturbed, requestVars
<1>2. ASSUME NEW s \in Sources,
             \/ HashFile(s) \/ HashFails(s) \/ Skip(s) \/ Produce(s) \/ ProduceFails(s)
      PROVE  MixSource(r)'
  <2>1. /\ UNCHANGED <<phase, mode, saved, stored, seen>> /\ clean' \in {clean, "none"}
        /\ phase \in {"hashing", "streaming"} /\ mode \in {"run", "plan"}
    BY <1>2, <1>a DEF HashFile, HashFails, Skip, Produce, ProduceFails, Disturbed, requestVars,
       PhaseInv
  <2>2. CASE r # s
    <3>1. at'[r] = at[r] /\ change'[r] = change[r]
      BY <1>2, <1>a, <2>2 DEF HashFile, HashFails, Skip, Produce, ProduceFails, Settle, Reach,
         TypeOK
    <3> QED
      BY <1>a, <2>1, <3>1, MixUntouched
  <2>3. CASE r = s
    <3>1. CASE HashFile(s)
      <4>1. at'[s] = "hashed" /\ change' = change /\ phase = "hashing"
        BY <1>a, <3>1 DEF HashFile, Reach, TypeOK
      <4> QED
        BY <1>a, <2>1, <2>3, <4>1 DEF MixSource
    <3>2. CASE HashFails(s) \/ Skip(s) \/ ProduceFails(s)
      <4>1. at'[s] = "done" /\ change'[s] = NoChange
        BY <1>a, <3>2 DEF HashFails, Skip, ProduceFails, Settle, Reach, TypeOK
      <4> QED
        BY <1>a, <1>c, <2>1, <2>3, <4>1 DEF MixSource
    <3>3. CASE Produce(s)
      <4>1. /\ at[s] = "hashed" /\ at'[s] = "changed" /\ phase = "streaming"
            /\ change'[s] = [tok |-> token[s], data |-> Items(s), new |-> seen[s].data = {}]
        BY <1>a, <3>3 DEF Produce, Reach, TypeOK
      <4>2. Small(change'[s].data)
        BY <4>1 DEF Items, Small
      <4>3. seen[s] = stored[s]
        BY <1>a, <4>1 DEF MixSource
      <4>4. change'[s].new => seen[s].data = {}
        <5> SUFFICES ASSUME change'[s].new PROVE seen[s].data = {}
          OBVIOUS
        <5>1. [tok |-> token[s], data |-> Items(s), new |-> seen[s].data = {}].new
          BY <4>1, Zenon
        <5> QED
          BY <5>1, NewOf, Zenon
      <4>5. AddsTo(change'[s], stored[s])
        BY <4>3, <4>4 DEF AddsTo
      <4> QED
        BY <1>a, <2>1, <2>3, <4>1, <4>2, <4>3, <4>5 DEF MixSource, AddsTo
    <3> QED
      BY <1>2, <3>1, <3>2, <3>3
  <2> QED
    BY <2>2, <2>3
<1>3. ASSUME NEW s \in Sources,
             WriteNew(s) \/ WriteUpdate(s) \/ DeleteFirst(s) \/ UpsertAfter(s) \/ WriteFails(s)
      PROVE  MixSource(r)'
  <2>1. /\ UNCHANGED <<phase, mode, saved, seen>> /\ clean' \in {clean, "none"}
        /\ at[s] \in {"changed", "halfway"}
        /\ (phase = "streaming" /\ mode = "run") \/ (phase = "writing" /\ mode = "apply")
    BY <1>3, <1>a DEF WriteNew, WriteUpdate, DeleteFirst, UpsertAfter, WriteFails, Writable,
       Disturbed, requestVars, PhaseInv
  <2>2. CASE r # s
    <3>1. at'[r] = at[r] /\ change'[r] = change[r] /\ stored'[r] = stored[r]
      BY <1>3, <1>a, <2>2 DEF WriteNew, WriteUpdate, DeleteFirst, UpsertAfter, WriteFails, Put,
         Settle, Reach, TypeOK
    <3> QED
      BY <1>a, <2>1, <3>1, MixUntouched
  <2>3. CASE r = s
    <3>1. stored'[s] = stored[s] \/ stored'[s].data = {} \/ stored'[s].data = change[s].data
      <4>1. PICK e : Put(s, e) /\ (e = stored[s] \/ e.data = {} \/ e.data = change[s].data)
        BY <1>3, <1>a, <2>1, WriteMixes
           DEF WriteNew, WriteUpdate, DeleteFirst, UpsertAfter, WriteFails, Writable
      <4> QED
        BY <1>a, <4>1 DEF Put, TypeOK
    <3>2. /\ Small(stored'[s].data)
          /\ AddsTo(change[s], stored[s]) => AddsTo(change[s], stored'[s])
      BY <1>a, <1>c, <3>1 DEF MixSource, AddsTo
    <3>3. clean' = "plan" /\ mode = "apply" /\ s \in DOMAIN saved.change =>
            AddsTo(saved.change[s], stored'[s])
      <4>1. CASE phase = "writing"
        BY <1>a, <2>1, <3>2, <4>1 DEF MixSource
      <4> QED
        BY <2>1, <4>1
    <3>4. CASE DeleteFirst(s)
      <4>1. at'[s] = "halfway" /\ stored'[s].data = {} /\ change' = change
        BY <1>a, <3>4 DEF DeleteFirst, Put, Reach, TypeOK, Nothing
      <4> QED
        BY <1>a, <2>1, <2>3, <3>2, <3>3, <4>1 DEF MixSource
    <3>5. CASE ~DeleteFirst(s)
      <4>1. at'[s] = "done" /\ change'[s] = NoChange
        BY <1>3, <1>a, <3>5
           DEF WriteNew, WriteUpdate, UpsertAfter, WriteFails, Settle, Reach, TypeOK
      <4> QED
        BY <1>a, <1>c, <2>1, <2>3, <3>2, <3>3, <4>1 DEF MixSource
    <3> QED
      BY <3>4, <3>5
  <2> QED
    BY <2>2, <2>3
<1>4. ASSUME NEW s \in Sources, DeleteOrphan(s) PROVE MixSource(r)'
  <2>1. /\ UNCHANGED <<phase, mode, saved, seen, at, change, clean>> /\ phase = "deleting"
        /\ stored'[r] = stored[r] \/ stored'[r].data = {}
    BY <1>4, <1>a DEF DeleteOrphan, Put, TypeOK, Nothing, requestVars
  <2> QED
    BY <1>a, <1>c, <2>1 DEF MixSource, AddsTo
<1>5. CASE List
  <2>1. /\ UNCHANGED <<mode, saved, at, change, stored, clean>> /\ seen' = stored
        /\ phase' = "streaming" /\ mode \in {"run", "plan"}
    BY <1>5, <1>a DEF List, requestVars, PhaseInv
  <2> QED
    BY <1>a, <2>1 DEF MixSource
<1>6. CASE StreamOver
  <2>1. /\ UNCHANGED <<mode, saved, at, change, stored, clean, seen>>
        /\ phase' = "deleting" /\ mode = "run"
    BY <1>6 DEF StreamOver, requestVars
  <2> QED
    BY <1>a, <2>1 DEF MixSource
<1>7. CASE PlanOver
  <2>1. /\ UNCHANGED <<mode, stored, clean>> /\ phase' = "idle" /\ saved' = Planned
        /\ at'[r] = "none" /\ change'[r] = NoChange
    BY <1>7 DEF PlanOver, Return, requestVars
  <2>2. r \in DOMAIN saved'.change => at[r] = "changed" /\ saved'.change[r] = change[r]
    BY <2>1 DEF Planned
  <2> QED
    BY <1>a, <1>c, <2>1, <2>2 DEF MixSource
<1>8. CASE Apply
  <2>1. clean = "plan" /\ UNCHANGED <<clean, saved, stored>>
    BY <1>8, <1>d DEF Apply
  <2>2. /\ phase = "idle" /\ phase' = "deleting"
        /\ at'[r] = (IF r \in DOMAIN saved.change THEN "changed" ELSE "none")
        /\ change'[r] = (IF r \in DOMAIN saved.change THEN saved.change[r] ELSE NoChange)
    BY <1>8 DEF Apply
  <2>3. CASE r \in DOMAIN saved.change
    BY <1>a, <2>1, <2>2, <2>3 DEF MixSource
  <2>4. CASE r \notin DOMAIN saved.change
    BY <1>a, <1>c, <2>1, <2>2, <2>4 DEF MixSource
  <2> QED
    BY <2>3, <2>4
<1>9. CASE WritesBegin
  <2>1. /\ UNCHANGED <<mode, saved, at, change, stored, clean, seen>>
        /\ phase = "deleting" /\ phase' = "writing"
    BY <1>9 DEF WritesBegin, requestVars
  <2> QED
    BY <1>a, <2>1 DEF MixSource
<1>10. CASE RunOver \/ Abort
  <2>1. /\ UNCHANGED <<mode, stored, saved>> /\ phase' = "idle" /\ clean' \in {clean, "none"}
        /\ at'[r] = "none" /\ change'[r] = NoChange
    BY <1>10 DEF RunOver, Abort, Return, Disturbed, requestVars
  <2>2. clean' = "plan" => mode = "apply"
    BY <1>10, <1>a DEF RunOver, Abort, Disturbed, PhaseInv
  <2> QED
    BY <1>a, <1>c, <2>1, <2>2 DEF MixSource
<1>11. ASSUME NEW method \in {"run", "plan"}, NEW corpus, NEW orphaned,
              Start(method, corpus, orphaned)
       PROVE  MixSource(r)'
  <2>1. /\ UNCHANGED <<stored, saved, change>> /\ phase' = "hashing" /\ mode' = method
        /\ at'[r] \in {"asked", "none"}
    BY <1>11 DEF Start
  <2> QED
    BY <1>a, <2>1 DEF MixSource
<1>12. CASE UNCHANGED vars
  BY <1>12, <1>a, MixUntouched DEF vars
<1> QED
  BY <1>1, <1>2, <1>3, <1>4, <1>5, <1>6, <1>7, <1>8, <1>9, <1>10, <1>11, <1>12
     DEF Next, Sync, Disturb, StartFull

LEMMA MixInit == Init => MixInv
<1> SUFFICES ASSUME Init, NEW s \in Sources PROVE PhaseInv(s) /\ MixSource(s)
  BY DEF MixInv
<1>1. PhaseInv(s)
  BY EndInit DEF EndInv, EndSource
<1>2. saved = NoPlan /\ DOMAIN saved.change = {}
  BY DEF Init, NoPlan
<1> QED
  BY <1>1, <1>2 DEF Init, MixSource, Small, Nothing, NoChange

(* A store without replace_source holds items of one version of a source at *)
(* most, after every fault, cancellation and change of the files, if plans  *)
(* are applied only while nothing else has happened since they were made.   *)
THEOREM ItemsNeverMix ==
  ASSUME FALSE \notin OldPlans
  PROVE  Spec => []NoMixing
<1>1. Init => TypeInv /\ MixInv
  BY TypeInit, MixInit
<1>2. TypeInv /\ MixInv /\ [Next]_vars => (TypeInv /\ MixInv)'
  BY TypeStep, MixStep
<1>3. MixInv => NoMixing
  <2> SUFFICES ASSUME MixInv, ~replaces, NEW s \in Sources
               PROVE  Cardinality(stored[s].data) <= 1
    BY DEF NoMixing
  <2>1. Small(stored[s].data)
    BY DEF MixInv, MixSource
  <2>2. CASE stored[s].data = {}
    BY <2>2, FS_EmptySet
  <2>3. CASE stored[s].data # {}
    <3>1. PICK d \in stored[s].data : TRUE
      BY <2>3
    <3>2. stored[s].data = {d}
      BY <2>1, <3>1 DEF Small
    <3> QED
      BY <3>2, FS_Singleton
  <2> QED
    BY <2>2, <2>3
<1> QED
  BY <1>1, <1>2, <1>3, PTL DEF Spec

-----------------------------------------------------------------------------
(* Splitting: what elements and pieces render to *)

(* What a recursive function computes, step by step. *)
Follows(f, first, T, L) == f[0] = first /\ \A n \in 1 .. L : f[n] = T[<<f[n - 1], n>>]

LEMMA IteratedBy ==
  ASSUME NEW X, NEW first \in X, NEW L \in Nat, NEW T, StaysIn(T, X, L)
  PROVE  \E f \in [0 .. L -> X] : Follows(f, first, T, L)
BY Iterated DEF Follows

(* The equations of sum. *)
SumBy(s, f) ==
  /\ f[0] = 0 /\ f[Len(s)] = SumOf(s)
  /\ \A n \in 1 .. Len(s) : f[n] = f[n - 1] + s[n]

LEMMA SumByIs ==
  ASSUME NEW s \in Seq(Nat)
  PROVE  \E f \in [0 .. Len(s) -> Nat] : SumBy(s, f)
<1> DEFINE
    L == Len(s)
    X == Nat
    first == 0
    Step(x, n) == x + s[n]
    T == [w \in X \X (1 .. L) |-> Step(w[1], w[2])]
    Then(g, n) == IF n = 0 THEN 0 ELSE g[n - 1] + s[n]
    Solves(g) == g = [n \in 0 .. L |-> Then(g, n)]
<1>1. L \in Nat /\ 0 \in X
  OBVIOUS
<1>2. ASSUME NEW x \in X, NEW n \in 1 .. L PROVE Step(x, n) \in X
  OBVIOUS
<1> HIDE DEF L, X
<1>3. StaysIn(T, X, L)
  <2> HIDE DEF Step
  <2> QED
    BY <1>2 DEF StaysIn
<1>4. PICK f \in [0 .. L -> X] : f[0] = first /\ \A n \in 1 .. L : f[n] = T[<<f[n - 1], n>>]
  <2>1. L \in Nat /\ first \in X
    BY <1>1
  <2> HIDE DEF T, first
  <2>2. PICK h \in [0 .. L -> X] : Follows(h, first, T, L)
    BY <1>3, <2>1, IteratedBy
  <2>3. h[0] = first /\ \A n \in 1 .. L : h[n] = T[<<h[n - 1], n>>]
    BY <2>2, Zenon DEF Follows
  <2> QED
    BY <2>3, Zenon
<1>5. ASSUME NEW n \in 1 .. L PROVE f[n] = Step(f[n - 1], n)
  <2>1. f[n - 1] \in X
    BY <1>1
  <2>2. T[<<f[n - 1], n>>] = Step(f[n - 1], n)
    <3> HIDE DEF Step
    <3> QED
      BY <2>1
  <2> HIDE DEF Step, T
  <2> QED
    BY <1>4, <2>2, Zenon
<1>6. Solves(f)
  <2>1. f = [n \in 0 .. L |-> f[n]]
    OBVIOUS
  <2>2. ASSUME NEW n \in 0 .. L PROVE f[n] = Then(f, n)
    <3>1. CASE n = 0
      BY <1>4, <3>1, Zenon
    <3>2. CASE n # 0
      <4>1. n \in 1 .. L
        BY <1>1, <3>2
      <4>2. f[n] = Step(f[n - 1], n)
        BY <1>5, <4>1, Zenon
      <4> QED
        BY <3>2, <4>2, Zenon
    <3> QED
      BY <3>1, <3>2, Zenon
  <2> HIDE DEF Then
  <2> QED
    BY <2>1, <2>2
<1> DEFINE g == CHOOSE g : Solves(g)
<1>7. Solves(g)
  <2> HIDE DEF Solves
  <2> QED
    BY <1>6
<1>8. g[L] = SumOf(s)
  BY DEF SumOf, L
<1> HIDE DEF g
<1>9. /\ g = [n \in 0 .. L |-> g[n]] /\ g[0] = 0
      /\ \A n \in 1 .. L : g[n] = Step(g[n - 1], n)
  <2>1. g = [n \in 0 .. L |-> Then(g, n)]
    BY <1>7
  <2>2. \A n \in 0 .. L : g[n] = Then(g, n)
    <3> HIDE DEF Then
    <3> QED
      BY <2>1
  <2>3. \A n \in 1 .. L : n \in 0 .. L /\ n # 0
    BY <1>1
  <2>4. 0 \in 0 .. L
    BY <1>1
  <2>5. g[0] = 0
    BY <2>2, <2>4, Zenon
  <2>6. \A n \in 1 .. L : g[n] = Step(g[n - 1], n)
    BY <2>2, <2>3, Zenon
  <2>7. g = [n \in 0 .. L |-> g[n]]
    <3> HIDE DEF Then
    <3> QED
      BY <2>1, <2>2
  <2> QED
    BY <2>5, <2>6, <2>7
<1>10. g \in [0 .. L -> X]
  <2> HIDE DEF Step
  <2> DEFINE P == {n \in 0 .. L : g[n] \in X}
  <2>1. 0 \in P
    BY <1>1, <1>9
  <2>2. ASSUME NEW n \in 1 .. L, n - 1 \in P PROVE n \in P
    <3>1. g[n - 1] \in X /\ n \in 0 .. L
      BY <1>1, <2>2
    <3>2. Step(g[n - 1], n) \in X
      BY <1>2, <3>1
    <3>3. g[n] = Step(g[n - 1], n)
      BY <1>9
    <3> QED
      BY <3>1, <3>2, <3>3
  <2>3. \A n \in 0 .. L : n \in P
    <3> HIDE DEF P
    <3> QED
      BY <1>1, <2>1, <2>2, UpTo
  <2> QED
    BY <1>9, <2>3
<1> HIDE DEF Then, Solves, T
<1>11. SumBy(s, g)
  <2>1. \A n \in 1 .. Len(s) : g[n] = g[n - 1] + s[n]
    BY <1>9, Zenon DEF L
  <2>2. g[0] = 0 /\ g[Len(s)] = SumOf(s)
    BY <1>8, <1>9, Zenon DEF L
  <2> QED
    BY <2>1, <2>2, Zenon DEF SumBy
<1> QED
  BY <1>10, <1>11, Zenon DEF L, X

LEMMA SumOfAll ==
  ASSUME NEW s \in Seq(Nat)
  PROVE  SumOf(s) \in Nat
<1>1. PICK f \in [0 .. Len(s) -> Nat] : SumBy(s, f)
  BY SumByIs
<1> QED
  BY <1>1 DEF SumBy

LEMMA SumOfNone == SumOf(<<>>) = 0
<1>1. <<>> \in Seq(Nat) /\ Len(<<>>) = 0
  OBVIOUS
<1>2. PICK f \in [0 .. 0 -> Nat] : SumBy(<<>>, f)
  BY <1>1, SumByIs
<1> QED
  BY <1>1, <1>2 DEF SumBy

(* The sum of all but the last, and the last. *)
LEMMA SumOfNext ==
  ASSUME NEW k \in Nat \ {0}, NEW t, \A n \in 1 .. k : t[n] \in Nat
  PROVE  SumOf([n \in 1 .. k |-> t[n]]) = SumOf([n \in 1 .. k - 1 |-> t[n]]) + t[k]
<1> DEFINE a == [n \in 1 .. k |-> t[n]]
    b == [n \in 1 .. k - 1 |-> t[n]]
<1>1. /\ a \in Seq(Nat) /\ Len(a) = k /\ b \in Seq(Nat) /\ Len(b) = k - 1
      /\ (\A n \in 1 .. k : a[n] = t[n]) /\ \A n \in 1 .. k - 1 : b[n] = t[n]
  OBVIOUS
<1> HIDE DEF a, b
<1>2. PICK f \in [0 .. k -> Nat] : SumBy(a, f)
  BY <1>1, SumByIs
<1>3. PICK g \in [0 .. k - 1 -> Nat] : SumBy(b, g)
  BY <1>1, SumByIs
<1> DEFINE P == {n \in 0 .. k - 1 : f[n] = g[n]}
<1>4. 0 \in P
  BY <1>2, <1>3 DEF SumBy
<1>5. ASSUME NEW n \in 1 .. k - 1, n - 1 \in P PROVE n \in P
  <2>1. n \in 1 .. k /\ n - 1 \in 0 .. k - 1
    OBVIOUS
  <2>2. f[n] = f[n - 1] + a[n] /\ g[n] = g[n - 1] + b[n]
    BY <1>1, <1>2, <1>3, <2>1 DEF SumBy
  <2>3. a[n] = t[n] /\ b[n] = t[n]
    BY <1>1, <2>1, Zenon
  <2>4. f[n - 1] = g[n - 1]
    BY <1>5
  <2>5. f[n] = g[n]
    BY <2>2, <2>3, <2>4, Zenon
  <2> QED
    BY <2>5
<1>6. \A n \in 0 .. k - 1 : n \in P
  <2>1. k - 1 \in Nat
    OBVIOUS
  <2> HIDE DEF P
  <2> QED
    BY <1>4, <1>5, <2>1, UpTo
<1>7. f[k - 1] = g[k - 1]
  BY <1>6
<1>8. f[k] = f[k - 1] + a[k] /\ f[k] = SumOf(a) /\ g[k - 1] = SumOf(b)
  BY <1>1, <1>2, <1>3 DEF SumBy
<1> QED
  BY <1>1, <1>7, <1>8 DEF a, b

ElementsOk == elements \in Seq(Shapes)

RenderedUnits == [raw : Nat, size : Nat, refs : Seq(Nat \X Nat)]

LEMMA ElementIs ==
  ASSUME ElementsOk, NEW i \in DOMAIN elements
  PROVE  /\ elements[i] \in Shapes /\ elements[i].level \in 0 .. 6 /\ elements[i].header \in Nat
         /\ elements[i].units \in Seq(RenderedUnits) /\ elements[i].units # <<>>
         /\ Len(elements[i].units) \in Nat \ {0}
         /\ DOMAIN elements[i].units = 1 .. Len(elements[i].units)
         /\ \A k \in 1 .. Len(elements[i].units) :
              /\ elements[i].units[k].raw \in Nat /\ elements[i].units[k].size \in Nat
              /\ elements[i].units[k].refs \in Seq(Nat \X Nat)
<1>1. elements[i] \in Shapes
  BY DEF ElementsOk
<1>2. elements[i] \in Shape /\ elements[i].units # <<>>
  BY <1>1, SplitConstants
<1>3. /\ elements[i].level \in 0 .. 6 /\ elements[i].header \in Nat
      /\ elements[i].units \in Seq(RenderedUnits)
  BY <1>2 DEF Shape, RenderedUnits
<1> DEFINE us == elements[i].units
<1>4. /\ Len(us) \in Nat \ {0} /\ DOMAIN us = 1 .. Len(us)
      /\ \A k \in 1 .. Len(us) : us[k] \in RenderedUnits
  <2> HIDE DEF us
  <2>1. us \in Seq(RenderedUnits) /\ us # <<>>
    BY <1>2, <1>3 DEF us
  <2> QED
    BY <2>1
<1>5. \A u \in RenderedUnits : u.raw \in Nat /\ u.size \in Nat /\ u.refs \in Seq(Nat \X Nat)
  BY DEF RenderedUnits
<1> QED
  BY <1>1, <1>2, <1>3, <1>4, <1>5

LEMMA DomainIs ==
  ASSUME ElementsOk
  PROVE  DOMAIN elements = 1 .. Len(elements) /\ Len(elements) \in Nat
  BY DEF ElementsOk

(* A unit ends its size behind where the one before it ends. *)
LEMMA UnitEnds ==
  ASSUME ElementsOk, NEW i \in DOMAIN elements
  PROVE  /\ UnitEnd(i, 0) = elements[i].header
         /\ \A k \in 0 .. Len(elements[i].units) : UnitEnd(i, k) \in Nat
         /\ \A k \in 1 .. Len(elements[i].units) :
              UnitEnd(i, k) = UnitEnd(i, k - 1) + elements[i].units[k].size
         /\ Size(i) \in Nat /\ Size(i) = UnitEnd(i, Len(elements[i].units))
<1> DEFINE L == Len(elements[i].units)
    t == [n \in 1 .. L |-> elements[i].units[n].size]
<1>1. L \in Nat /\ elements[i].header \in Nat /\ \A n \in 1 .. L : t[n] \in Nat
  BY ElementIs
<1>2. \A k \in 0 .. L : UnitEnd(i, k) = elements[i].header + SumOf([n \in 1 .. k |-> t[n]])
  <2>1. ASSUME NEW k \in 0 .. L
        PROVE  [n \in 1 .. k |-> t[n]] = [n \in 1 .. k |-> elements[i].units[n].size]
    BY <1>1
  <2> QED
    BY <2>1 DEF UnitEnd
<1> HIDE DEF t, L
<1>3. ASSUME NEW k \in 0 .. L PROVE SumOf([n \in 1 .. k |-> t[n]]) \in Nat
  <2>1. [n \in 1 .. k |-> t[n]] \in Seq(Nat)
    BY <1>1
  <2> QED
    BY <2>1, SumOfAll
<1>4. ASSUME NEW k \in 1 .. L PROVE UnitEnd(i, k) = UnitEnd(i, k - 1) + t[k]
  <2>1. k \in Nat \ {0} /\ k \in 0 .. L /\ k - 1 \in 0 .. L /\ \A n \in 1 .. k : t[n] \in Nat
    BY <1>1
  <2>2. SumOf([n \in 1 .. k |-> t[n]]) = SumOf([n \in 1 .. k - 1 |-> t[n]]) + t[k]
    BY <2>1, SumOfNext
  <2>3. t[k] \in Nat
    BY <1>1
  <2> QED
    BY <1>1, <1>2, <1>3, <2>1, <2>2, <2>3
<1>5. UnitEnd(i, 0) = elements[i].header
  <2>1. [n \in 1 .. 0 |-> t[n]] = <<>> /\ 0 \in 0 .. L
    BY <1>1
  <2>2. UnitEnd(i, 0) = elements[i].header + SumOf([n \in 1 .. 0 |-> t[n]])
    BY <1>2, <2>1
  <2> QED
    BY <1>1, <2>1, <2>2, SumOfNone
<1>6. \A k \in 1 .. L : t[k] = elements[i].units[k].size
  BY DEF t
<1>7. ASSUME NEW k \in 0 .. L PROVE UnitEnd(i, k) \in Nat
  <2>1. UnitEnd(i, k) = elements[i].header + SumOf([n \in 1 .. k |-> t[n]])
    BY <1>2
  <2>2. SumOf([n \in 1 .. k |-> t[n]]) \in Nat
    BY <1>3
  <2> QED
    BY <1>1, <2>1, <2>2
<1>8. Size(i) = UnitEnd(i, L) /\ L \in 0 .. L
  BY <1>1 DEF Size, L
<1> QED
  BY <1>4, <1>5, <1>6, <1>7, <1>8 DEF L

Tokened == Nat \X Nat

LEMMA SpanIs ==
  ASSUME NEW i \in Nat, NEW a \in Nat, NEW b \in Nat, a <= b
  PROVE  /\ Span(i, a, b) \in Seq(Tokened) /\ Len(Span(i, a, b)) = b - a
         /\ ToSet(Span(i, a, b)) = {<<i, k>> : k \in a + 1 .. b}
<1> DEFINE s == [k \in 1 .. b - a |-> <<i, a + k>>]
<1>1. b - a \in Nat
  OBVIOUS
<1>2. \A k \in 1 .. b - a : <<i, a + k>> \in Tokened
  BY DEF Tokened
<1>3. s \in Seq(Tokened) /\ Len(s) = b - a /\ DOMAIN s = 1 .. b - a
  BY <1>1, <1>2
<1>4. ToSet(s) = {s[k] : k \in 1 .. b - a}
  BY <1>3 DEF ToSet
<1>5. \A k \in 1 .. b - a : s[k] = <<i, a + k>> /\ a + k \in a + 1 .. b
  OBVIOUS
<1>6. \A k \in a + 1 .. b : k - a \in 1 .. b - a /\ s[k - a] = <<i, k>>
  OBVIOUS
<1>7. Span(i, a, b) = s
  BY DEF Span
<1> HIDE DEF s
<1>8. ToSet(s) = {<<i, k>> : k \in a + 1 .. b}
  BY <1>4, <1>5, <1>6
<1> QED
  BY <1>3, <1>7, <1>8

(* The tokens of an element, and those of a unit. *)
OfElement(i) == ToSet(Span(i, 0, Size(i)))

LEMMA OfUnits ==
  ASSUME ElementsOk, NEW i \in DOMAIN elements
  PROVE  /\ OfElement(i) \subseteq Tokened
         /\ \A k \in 1 .. Len(elements[i].units) :
              /\ UnitTokens(i, k) = {<<i, m>> : m \in UnitEnd(i, k - 1) + 1 .. UnitEnd(i, k)}
              /\ UnitEnd(i, k - 1) <= UnitEnd(i, k)
         /\ OfElement(i) = {<<i, m>> : m \in 1 .. Size(i)}
<1>1. i \in Nat
  BY DomainIs
<1>2. Size(i) \in Nat /\ 0 <= Size(i)
  BY UnitEnds
<1>3. ASSUME NEW k \in 1 .. Len(elements[i].units)
      PROVE  /\ UnitTokens(i, k) = {<<i, m>> : m \in UnitEnd(i, k - 1) + 1 .. UnitEnd(i, k)}
             /\ UnitEnd(i, k - 1) <= UnitEnd(i, k)
  <2>1. k \in 0 .. Len(elements[i].units) /\ k - 1 \in 0 .. Len(elements[i].units)
    BY ElementIs
  <2>2. UnitEnd(i, k) \in Nat /\ UnitEnd(i, k - 1) \in Nat
    BY <2>1, UnitEnds
  <2>3. elements[i].units[k].size \in Nat
    BY ElementIs
  <2>4. UnitEnd(i, k) = UnitEnd(i, k - 1) + elements[i].units[k].size
    BY UnitEnds
  <2>5. UnitEnd(i, k - 1) <= UnitEnd(i, k)
    BY <2>2, <2>3, <2>4
  <2> QED
    BY <1>1, <2>2, <2>5, SpanIs DEF UnitTokens
<1>4. OfElement(i) = {<<i, m>> : m \in 0 + 1 .. Size(i)}
  BY <1>1, <1>2, SpanIs DEF OfElement
<1>5. 0 + 1 .. Size(i) = 1 .. Size(i)
  BY <1>2
<1>6. OfElement(i) \subseteq Tokened
  BY <1>1, <1>2, <1>4, <1>5 DEF Tokened
<1> QED
  BY <1>3, <1>4, <1>5, <1>6

(* A token of an element is one of its header or of a unit. *)
LEMMA HeaderOrUnit ==
  ASSUME ElementsOk, NEW i \in DOMAIN elements, NEW m \in 1 .. Size(i)
  PROVE  \/ m \in 1 .. elements[i].header
         \/ \E k \in 1 .. Len(elements[i].units) : <<i, m>> \in UnitTokens(i, k)
<1> DEFINE L == Len(elements[i].units)
    T == {k \in 0 .. L : m <= UnitEnd(i, k)}
<1>1. L \in Nat /\ L \in 0 .. L
  BY ElementIs
<1>2. L \in T
  BY <1>1, UnitEnds
<1>3. T \subseteq Nat /\ T # {}
  BY <1>1, <1>2
<1>4. PICK k \in T : \A n \in T : k <= n
  <2> HIDE DEF T
  <2> QED
    BY <1>3, LeastNat
<1>5. CASE k = 0
  BY <1>4, <1>5, UnitEnds
<1>6. CASE k # 0
  <2>1. k \in 1 .. L /\ k - 1 \in 0 .. L /\ ~(k <= k - 1)
    BY <1>1, <1>6
  <2>2. k - 1 \notin T
    BY <1>4, <2>1
  <2>3. ~(m <= UnitEnd(i, k - 1)) /\ UnitEnd(i, k - 1) \in Nat /\ UnitEnd(i, k) \in Nat
    BY <2>1, <2>2, UnitEnds
  <2>4. m \in UnitEnd(i, k - 1) + 1 .. UnitEnd(i, k)
    BY <1>4, <2>3
  <2>5. <<i, m>> \in UnitTokens(i, k)
    BY <2>1, <2>4, OfUnits
  <2> QED
    BY <2>1, <2>5
<1> QED
  BY <1>5, <1>6

Piece == [of : Int, toks : Seq(Tokened), raw : BOOLEAN]

RenderOf == [p \in Piece |-> (IF p.raw THEN Span(0, 0, Wrap) ELSE <<>>) \o p.toks]

LEMMA RenderedPiece ==
  ASSUME NEW p \in Piece
  PROVE  RenderOf[p] \in Seq(Tokened) /\ ToSet(p.toks) \subseteq ToSet(RenderOf[p])
<1> DEFINE w == IF p.raw THEN Span(0, 0, Wrap) ELSE <<>>
<1>1. Wrap \in Nat
  BY SplitConstants
<1>2. Span(0, 0, Wrap) \in Seq(Tokened)
  BY <1>1, SpanIs
<1>3. w \in Seq(Tokened) /\ p.toks \in Seq(Tokened)
  BY <1>2 DEF Piece
<1>4. RenderOf[p] = w \o p.toks
  BY DEF RenderOf
<1> HIDE DEF w
<1>5. w \o p.toks \in Seq(Tokened) /\ ToSet(w \o p.toks) = ToSet(w) \cup ToSet(p.toks)
  BY <1>3, JoinedMembers, JoinedIn
<1> QED
  BY <1>4, <1>5

LEMMA RenderIs ==
  ASSUME NEW ps \in Seq(Piece)
  PROVE  Render(ps) = FlattenSeq(Mapped(RenderOf, ps)) /\ Mapped(RenderOf, ps) \in Seq(Seq(Tokened))
<1>1. ASSUME NEW n \in DOMAIN ps
      PROVE  RenderOf[ps[n]] = (IF ps[n].raw THEN Span(0, 0, Wrap) ELSE <<>>) \o ps[n].toks
  <2>1. ps[n] \in Piece
    OBVIOUS
  <2> QED
    BY <2>1 DEF RenderOf
<1>2. Mapped(RenderOf, ps)
        = [n \in DOMAIN ps |-> (IF ps[n].raw THEN Span(0, 0, Wrap) ELSE <<>>) \o ps[n].toks]
  BY <1>1 DEF Mapped
<1>3. Render(ps) = FlattenSeq(Mapped(RenderOf, ps))
  BY <1>2 DEF Render
<1> DEFINE s == Mapped(RenderOf, ps)
<1>4. s = [n \in 1 .. Len(ps) |-> s[n]] /\ Len(ps) \in Nat
  BY DEF Mapped
<1>5. ASSUME NEW n \in 1 .. Len(ps) PROVE s[n] \in Seq(Tokened)
  <2>1. ps[n] \in Piece /\ n \in DOMAIN ps
    OBVIOUS
  <2>2. s[n] = RenderOf[ps[n]]
    BY <2>1 DEF Mapped
  <2> QED
    BY <2>1, <2>2, RenderedPiece
<1> HIDE DEF s
<1>6. s \in Seq(Seq(Tokened))
  BY <1>4, <1>5, SequenceIs
<1> QED
  BY <1>3, <1>6 DEF s

LEMMA RenderIn ==
  ASSUME NEW ps \in Seq(Piece)
  PROVE  Render(ps) \in Seq(Tokened) /\ Tokens(ps) \in Nat /\ Titled(ps) = Tokens(ps) + Title
<1>1. Render(ps) \in Seq(Tokened)
  BY RenderIs, FlattenIn
<1> QED
  BY <1>1 DEF Tokens, Titled

(* A token is rendered by a piece. *)
LEMMA RenderMembers ==
  ASSUME NEW ps \in Seq(Piece)
  PROVE  /\ \A x : x \in ToSet(Render(ps)) <=> \E n \in 1 .. Len(ps) : x \in ToSet(RenderOf[ps[n]])
         /\ \A n \in 1 .. Len(ps) : ToSet(ps[n].toks) \subseteq ToSet(Render(ps))
<1> DEFINE s == Mapped(RenderOf, ps)
<1>1. s \in Seq(Seq(Tokened)) /\ Render(ps) = FlattenSeq(s)
  BY RenderIs
<1>2. Len(s) = Len(ps) /\ \A n \in 1 .. Len(ps) : s[n] = RenderOf[ps[n]]
  BY MappedLen
<1> HIDE DEF s
<1>3. ASSUME NEW x
      PROVE  x \in ToSet(Render(ps)) <=> \E n \in 1 .. Len(ps) : x \in ToSet(RenderOf[ps[n]])
  <2>1. x \in ToSet(FlattenSeq(s)) <=> \E n \in 1 .. Len(s) : x \in ToSet(s[n])
    BY <1>1, FlattenMembers
  <2> QED
    BY <1>1, <1>2, <2>1
<1>4. ASSUME NEW n \in 1 .. Len(ps) PROVE ToSet(ps[n].toks) \subseteq ToSet(Render(ps))
  <2>1. ps[n] \in Piece
    OBVIOUS
  <2> QED
    BY <1>3, <2>1, RenderedPiece
<1> QED
  BY <1>3, <1>4

LEMMA RenderJoined ==
  ASSUME NEW ps \in Seq(Piece), NEW qs \in Seq(Piece)
  PROVE  /\ Render(ps \o qs) = Render(ps) \o Render(qs)
         /\ Tokens(ps \o qs) = Tokens(ps) + Tokens(qs)
         /\ ToSet(Render(ps \o qs)) = ToSet(Render(ps)) \cup ToSet(Render(qs))
         /\ ps \o qs \in Seq(Piece)
<1>1. ps \o qs \in Seq(Piece)
  BY JoinedIn
<1>2. /\ Mapped(RenderOf, ps) \in Seq(Seq(Tokened)) /\ Mapped(RenderOf, qs) \in Seq(Seq(Tokened))
      /\ Render(ps) = FlattenSeq(Mapped(RenderOf, ps)) /\ Render(qs) = FlattenSeq(Mapped(RenderOf, qs))
      /\ Render(ps \o qs) = FlattenSeq(Mapped(RenderOf, ps \o qs))
  BY <1>1, RenderIs
<1>3. Mapped(RenderOf, ps \o qs) = Mapped(RenderOf, ps) \o Mapped(RenderOf, qs)
  BY MappedJoined
<1>4. Render(ps \o qs) = Render(ps) \o Render(qs)
  <2> DEFINE a == Mapped(RenderOf, ps)
      b == Mapped(RenderOf, qs)
  <2>1. a \in Seq(Seq(Tokened)) /\ b \in Seq(Seq(Tokened))
    BY <1>2
  <2> HIDE DEF a, b
  <2>2. FlattenSeq(a \o b) = FlattenSeq(a) \o FlattenSeq(b)
    BY <2>1, FlattenJoined
  <2> QED
    BY <1>2, <1>3, <2>2, Zenon DEF a, b
<1>5. Render(ps) \in Seq(Tokened) /\ Render(qs) \in Seq(Tokened)
  BY RenderIn
<1>6. /\ Len(Render(ps) \o Render(qs)) = Len(Render(ps)) + Len(Render(qs))
      /\ ToSet(Render(ps) \o Render(qs)) = ToSet(Render(ps)) \cup ToSet(Render(qs))
  BY <1>5, Concatenated, JoinedMembers
<1> QED
  BY <1>1, <1>4, <1>6 DEF Tokens

LEMMA WholeIs ==
  ASSUME ElementsOk, NEW i \in DOMAIN elements
  PROVE  Whole(i) \in Piece /\ Whole(i).of = i /\ ToSet(Whole(i).toks) = OfElement(i)
         /\ RenderOf[Whole(i)] = Span(i, 0, Size(i))
<1>1. i \in Nat /\ Size(i) \in Nat /\ 0 <= Size(i)
  BY DomainIs, UnitEnds
<1>2. Span(i, 0, Size(i)) \in Seq(Tokened)
  BY <1>1, SpanIs
<1>3. Whole(i) \in Piece /\ Whole(i).toks = Span(i, 0, Size(i)) /\ Whole(i).raw = FALSE /\ Whole(i).of = i
  BY <1>1, <1>2 DEF Whole, Piece
<1>4. RenderOf[Whole(i)] = <<>> \o Whole(i).toks
  BY <1>3 DEF RenderOf
<1>5. <<>> \o Span(i, 0, Size(i)) = Span(i, 0, Size(i))
  BY <1>2, JoinedNothing
<1> QED
  BY <1>3, <1>4, <1>5 DEF OfElement

Wholes == [i \in DOMAIN elements |-> Whole(i)]

LEMMA PiecesAre ==
  ASSUME ElementsOk, NEW ids \in Seq(DOMAIN elements)
  PROVE  /\ Pieces(ids) \in Seq(Piece) /\ Pieces(ids) = Mapped(Wholes, ids)
         /\ Len(Pieces(ids)) = Len(ids) /\ \A n \in 1 .. Len(ids) : Pieces(ids)[n] = Whole(ids[n])
<1>1. \A n \in DOMAIN ids : ids[n] \in DOMAIN elements
  OBVIOUS
<1>2. Pieces(ids) = Mapped(Wholes, ids)
  BY <1>1 DEF Pieces, Mapped, Wholes
<1>3. /\ Pieces(ids) = [n \in 1 .. Len(ids) |-> Pieces(ids)[n]] /\ Len(ids) \in Nat
      /\ \A n \in 1 .. Len(ids) : Pieces(ids)[n] = Whole(ids[n])
  BY DEF Pieces
<1>4. \A n \in 1 .. Len(ids) : Pieces(ids)[n] \in Piece
  BY <1>1, <1>3, WholeIs
<1>5. Pieces(ids) \in Seq(Piece) /\ Len(Pieces(ids)) = Len(ids)
  BY <1>3, <1>4, SequenceIs
<1> QED
  BY <1>2, <1>3, <1>5

LEMMA PiecesJoined ==
  ASSUME ElementsOk, NEW a \in Seq(DOMAIN elements), NEW b \in Seq(DOMAIN elements)
  PROVE  Pieces(a \o b) = Pieces(a) \o Pieces(b) /\ a \o b \in Seq(DOMAIN elements)
<1>1. a \o b \in Seq(DOMAIN elements)
  BY JoinedIn
<1>2. Mapped(Wholes, a \o b) = Mapped(Wholes, a) \o Mapped(Wholes, b)
  BY MappedJoined
<1> QED
  BY <1>1, <1>2, PiecesAre

(* What elements render to. *)
ElementTokens(S) == UNION {OfElement(i) : i \in S}

LEMMA PiecesShow ==
  ASSUME ElementsOk, NEW ids \in Seq(DOMAIN elements)
  PROVE  ToSet(Render(Pieces(ids))) = ElementTokens(ToSet(ids))
<1>1. /\ Pieces(ids) \in Seq(Piece) /\ Len(Pieces(ids)) = Len(ids)
      /\ \A n \in 1 .. Len(ids) : Pieces(ids)[n] = Whole(ids[n])
  BY PiecesAre
<1>2. ASSUME NEW x
      PROVE  x \in ToSet(Render(Pieces(ids))) <=> \E n \in 1 .. Len(ids) : x \in OfElement(ids[n])
  <2>1. x \in ToSet(Render(Pieces(ids)))
          <=> \E n \in 1 .. Len(ids) : x \in ToSet(RenderOf[Pieces(ids)[n]])
    BY <1>1, RenderMembers
  <2>2. ASSUME NEW n \in 1 .. Len(ids) PROVE ToSet(RenderOf[Pieces(ids)[n]]) = OfElement(ids[n])
    <3>1. ids[n] \in DOMAIN elements
      OBVIOUS
    <3> QED
      BY <1>1, <3>1, WholeIs DEF OfElement
  <2> QED
    BY <2>1, <2>2
<1>3. ToSet(ids) = {ids[n] : n \in 1 .. Len(ids)}
  BY DEF ToSet
<1>4. ASSUME NEW x PROVE x \in ElementTokens(ToSet(ids)) <=> \E n \in 1 .. Len(ids) :
               x \in OfElement(ids[n])
  BY <1>3 DEF ElementTokens
<1> QED
  BY <1>2, <1>4

LEMMA RawTextIs ==
  ASSUME NEW toks \in Seq(Tokened)
  PROVE  RawText(toks) \in Piece /\ RawText(toks).of = 0 /\ RawText(toks).toks = toks
  BY DEF RawText, Piece

LEMMA ChunkIs ==
  ASSUME ElementsOk, NEW ctx \in Seq(DOMAIN elements), NEW toks \in Seq(Tokened)
  PROVE  /\ Chunk(ctx, toks) \in Seq(Piece) /\ Chunk(ctx, toks) = Pieces(ctx) \o <<RawText(toks)>>
         /\ ElementTokens(ToSet(ctx)) \subseteq ToSet(Render(Chunk(ctx, toks)))
         /\ ToSet(toks) \subseteq ToSet(Render(Chunk(ctx, toks)))
<1> DEFINE p == RawText(toks)
<1>1. p \in Piece /\ p.toks = toks
  BY RawTextIs
<1>2. Pieces(ctx) \in Seq(Piece) /\ ToSet(Render(Pieces(ctx))) = ElementTokens(ToSet(ctx))
  BY PiecesAre, PiecesShow
<1> HIDE DEF p
<1>3. <<p>> \in Seq(Piece) /\ Len(<<p>>) = 1 /\ <<p>>[1] = p
  BY <1>1
<1>4. Append(Pieces(ctx), p) = Pieces(ctx) \o <<p>>
  BY <1>1, <1>2
<1>5. /\ Pieces(ctx) \o <<p>> \in Seq(Piece)
      /\ ToSet(Render(Pieces(ctx) \o <<p>>)) = ToSet(Render(Pieces(ctx))) \cup ToSet(Render(<<p>>))
  BY <1>2, <1>3, RenderJoined
<1>6. ToSet(p.toks) \subseteq ToSet(Render(<<p>>))
  <2>1. 1 \in 1 .. Len(<<p>>)
    BY <1>3
  <2>2. ToSet(<<p>>[1].toks) \subseteq ToSet(Render(<<p>>))
    BY <1>3, <2>1, RenderMembers
  <2> QED
    BY <1>3, <2>2
<1>7. Chunk(ctx, toks) = Pieces(ctx) \o <<p>>
  BY <1>4 DEF Chunk, p
<1> QED
  BY <1>1, <1>2, <1>5, <1>6, <1>7 DEF p

(* What chunks render to; pieces of the tokens that all repeat the context. *)
ShownBy(chunks) == UNION {ToSet(Render(chunks[n])) : n \in DOMAIN chunks}

SplitInto(chunks, ctx, toks) ==
  /\ chunks \in Seq(Seq(Piece))
  /\ \A n \in DOMAIN chunks : ElementTokens(ToSet(ctx)) \subseteq ToSet(Render(chunks[n]))
  /\ toks \subseteq ShownBy(chunks)

LEMMA SplitIntoOne ==
  ASSUME NEW chunk \in Seq(Piece), NEW ctx, NEW toks,
         ElementTokens(ToSet(ctx)) \subseteq ToSet(Render(chunk)), toks \subseteq ToSet(Render(chunk))
  PROVE  SplitInto(<<chunk>>, ctx, toks) /\ <<chunk>> # <<>>
<1>1. <<chunk>> \in Seq(Seq(Piece)) /\ DOMAIN <<chunk>> = {1} /\ <<chunk>>[1] = chunk /\ <<chunk>> # <<>>
  OBVIOUS
<1>2. ShownBy(<<chunk>>) = ToSet(Render(chunk))
  BY <1>1 DEF ShownBy
<1> QED
  BY <1>1, <1>2 DEF SplitInto

LEMMA SplitIntoLess ==
  ASSUME NEW chunks, NEW ctx, NEW toks, NEW less, SplitInto(chunks, ctx, toks), less \subseteq toks
  PROVE  SplitInto(chunks, ctx, less)
  BY DEF SplitInto

(* Cuts of several texts, one after the other. *)
LEMMA SplitIntoJoined ==
  ASSUME NEW ctx, NEW cs \in Seq(Seq(Seq(Piece))), NEW T,
         \A n \in 1 .. Len(cs) : SplitInto(cs[n], ctx, T[n])
  PROVE  SplitInto(FlattenSeq(cs), ctx, UNION {T[n] : n \in 1 .. Len(cs)})
<1> DEFINE fs == FlattenSeq(cs)
<1>1. fs \in Seq(Seq(Piece))
  BY FlattenIn
<1>2. \A x : x \in ToSet(fs) <=> \E n \in 1 .. Len(cs) : x \in ToSet(cs[n])
  BY FlattenMembers
<1>3. \A n \in 1 .. Len(cs) : cs[n] \in Seq(Seq(Piece))
  OBVIOUS
<1> HIDE DEF fs
<1>4. ASSUME NEW k \in DOMAIN fs PROVE ElementTokens(ToSet(ctx)) \subseteq ToSet(Render(fs[k]))
  <2>1. fs[k] \in ToSet(fs)
    BY DEF ToSet
  <2>2. PICK n \in 1 .. Len(cs) : fs[k] \in ToSet(cs[n])
    BY <1>2, <2>1
  <2>3. PICK m \in DOMAIN cs[n] : fs[k] = cs[n][m]
    BY <2>2 DEF ToSet
  <2> QED
    BY <2>3 DEF SplitInto
<1>5. ASSUME NEW n \in 1 .. Len(cs), NEW x \in T[n] PROVE x \in ShownBy(fs)
  <2>1. x \in ShownBy(cs[n])
    BY DEF SplitInto
  <2>2. PICK m \in DOMAIN cs[n] : x \in ToSet(Render(cs[n][m]))
    BY <2>1 DEF ShownBy
  <2>3. cs[n][m] \in ToSet(cs[n])
    BY DEF ToSet
  <2>4. cs[n][m] \in ToSet(fs)
    BY <1>2, <2>3
  <2>5. PICK k \in DOMAIN fs : fs[k] = cs[n][m]
    BY <2>4 DEF ToSet
  <2> QED
    BY <2>2, <2>5 DEF ShownBy
<1> QED
  BY <1>1, <1>4, <1>5 DEF SplitInto, fs

-----------------------------------------------------------------------------
(* Splitting: token slices *)

(* The tokens of a slice. *)
LEMMA SliceIs ==
  ASSUME NEW toks \in Seq(Tokened), NEW start \in Nat, start < Len(toks),
         NEW end \in start + 1 .. Len(toks)
  PROVE  /\ SubSeq(toks, start + 1, end) \in Seq(Tokened)
         /\ \A k \in start + 1 .. end : toks[k] \in ToSet(SubSeq(toks, start + 1, end))
<1> DEFINE s == SubSeq(toks, start + 1, end)
<1>1. s \in Seq(Tokened) /\ Len(s) = end - start /\ Len(toks) \in Nat
      /\ \A k \in 1 .. end - start : s[k] = toks[start + k]
  OBVIOUS
<1> HIDE DEF s
<1>2. ASSUME NEW k \in start + 1 .. end PROVE toks[k] \in ToSet(s)
  <2>1. k - start \in 1 .. end - start /\ start + (k - start) = k
    BY <1>1
  <2>2. s[k - start] = toks[k] /\ k - start \in DOMAIN s
    BY <1>1, <2>1
  <2> QED
    BY <2>2 DEF ToSet
<1> QED
  BY <1>1, <1>2 DEF s

LEMMA EndIs ==
  ASSUME NEW toks \in Seq(Tokened), NEW start \in Nat, start < Len(toks), NEW window \in Nat \ {0}
  PROVE  SliceEndAt(toks, start, window) \in start + 1 .. Len(toks)
<1>1. Len(toks) \in Nat /\ start + window \in Int /\ start + window >= start + 1
  OBVIOUS
<1> QED
  BY <1>1 DEF SliceEndAt, MinOf

(* The window never shrinks to nothing. *)
LEMMA ShrunkIs ==
  ASSUME ElementsOk, NEW ctx \in Seq(DOMAIN elements), NEW toks \in Seq(Tokened),
         NEW start \in Nat, start < Len(toks), NEW window \in Nat \ {0}
  PROVE  Shrunk(ctx, toks, start, window) \in Nat \ {0}
<1> DEFINE chunk == Chunk(ctx, SubSeq(toks, start + 1, SliceEndAt(toks, start, window)))
    rendered == Titled(chunk)
<1>1. Budget \in Nat /\ Floor \in Nat \ {0} /\ Title \in Nat
  BY SplitConstants
<1>2. rendered \in Nat
  <2>1. SubSeq(toks, start + 1, SliceEndAt(toks, start, window)) \in Seq(Tokened)
    BY EndIs, SliceIs
  <2>2. chunk \in Seq(Piece)
    BY <2>1, ChunkIs
  <2> HIDE DEF chunk
  <2> QED
    BY <1>1, <2>2, RenderIn
<1>3. Shrunk(ctx, toks, start, window)
        = IF window <= Floor \/ rendered <= Budget THEN window
          ELSE MaxOf(Floor, MinOf(window - 1, (window * Budget) \div rendered))
  BY DEF Shrunk
<1> HIDE DEF rendered, chunk
<1>4. CASE window <= Floor \/ rendered <= Budget
  BY <1>3, <1>4
<1>5. CASE ~(window <= Floor \/ rendered <= Budget)
  <2>1. rendered > 0 /\ window - 1 \in Int
    BY <1>1, <1>2, <1>5
  <2>2. window * Budget \in Int
    BY <1>1
  <2> DEFINE q == (window * Budget) \div rendered
  <2>3. q \in Int
    BY <1>2, <2>1, <2>2
  <2> HIDE DEF q
  <2>4. MinOf(window - 1, q) \in Int
    BY <1>5, <2>1, <2>3 DEF MinOf
  <2>5. MaxOf(Floor, MinOf(window - 1, q)) >= Floor /\ MaxOf(Floor, MinOf(window - 1, q)) \in Int
    BY <1>1, <2>4 DEF MaxOf
  <2> QED
    BY <1>1, <1>3, <1>5, <2>5 DEF q
<1> QED
  BY <1>4, <1>5

(* The equations of the shrinking window. *)
WindowBy(ctx, toks, start, f) ==
  /\ f[0] = Budget - Overhead(ctx) /\ SliceEndAt(toks, start, f[Budget]) = SliceEnd(ctx, toks, start)
  /\ \A n \in 1 .. Budget : f[n] = Shrunk(ctx, toks, start, f[n - 1])

LEMMA WindowByIs ==
  ASSUME ElementsOk, NEW ctx \in Seq(DOMAIN elements), NEW toks \in Seq(Tokened),
         NEW start \in Nat, start < Len(toks), Budget - Overhead(ctx) \in Nat \ {0}
  PROVE  \E f \in [0 .. Budget -> Nat \ {0}] : WindowBy(ctx, toks, start, f)
<1> DEFINE
    L == Budget
    X == Nat \ {0}
    first == Budget - Overhead(ctx)
    Step(x, n) == Shrunk(ctx, toks, start, x)
    T == [w \in X \X (1 .. L) |-> Step(w[1], w[2])]
    Then(g, n) == IF n = 0 THEN Budget - Overhead(ctx) ELSE Shrunk(ctx, toks, start, g[n - 1])
    Solves(g) == g = [n \in 0 .. L |-> Then(g, n)]
<1>1. L \in Nat /\ Budget - Overhead(ctx) \in X
  BY SplitConstants
<1>2. ASSUME NEW x \in X, NEW n \in 1 .. L PROVE Step(x, n) \in X
  BY ShrunkIs
<1> HIDE DEF L, X
<1>3. StaysIn(T, X, L)
  <2> HIDE DEF Step
  <2> QED
    BY <1>2 DEF StaysIn
<1>4. PICK f \in [0 .. L -> X] : f[0] = first /\ \A n \in 1 .. L : f[n] = T[<<f[n - 1], n>>]
  <2>1. L \in Nat /\ first \in X
    BY <1>1
  <2> HIDE DEF T, first
  <2>2. PICK h \in [0 .. L -> X] : Follows(h, first, T, L)
    BY <1>3, <2>1, IteratedBy
  <2>3. h[0] = first /\ \A n \in 1 .. L : h[n] = T[<<h[n - 1], n>>]
    BY <2>2, Zenon DEF Follows
  <2> QED
    BY <2>3, Zenon
<1>5. ASSUME NEW n \in 1 .. L PROVE f[n] = Step(f[n - 1], n)
  <2>1. f[n - 1] \in X
    BY <1>1
  <2>2. T[<<f[n - 1], n>>] = Step(f[n - 1], n)
    <3> HIDE DEF Step
    <3> QED
      BY <2>1
  <2> HIDE DEF Step, T
  <2> QED
    BY <1>4, <2>2, Zenon
<1>6. Solves(f)
  <2>1. f = [n \in 0 .. L |-> f[n]]
    OBVIOUS
  <2>2. ASSUME NEW n \in 0 .. L PROVE f[n] = Then(f, n)
    <3>1. CASE n = 0
      BY <1>4, <3>1, Zenon
    <3>2. CASE n # 0
      <4>1. n \in 1 .. L
        BY <1>1, <3>2
      <4>2. f[n] = Step(f[n - 1], n)
        BY <1>5, <4>1, Zenon
      <4> QED
        BY <3>2, <4>2, Zenon
    <3> QED
      BY <3>1, <3>2, Zenon
  <2> HIDE DEF Then
  <2> QED
    BY <2>1, <2>2
<1> DEFINE g == CHOOSE g : Solves(g)
<1>7. Solves(g)
  <2> HIDE DEF Solves
  <2> QED
    BY <1>6
<1>8. SliceEndAt(toks, start, g[L]) = SliceEnd(ctx, toks, start)
  BY DEF SliceEnd, L
<1> HIDE DEF g
<1>9. /\ g = [n \in 0 .. L |-> g[n]] /\ g[0] = Budget - Overhead(ctx)
      /\ \A n \in 1 .. L : g[n] = Step(g[n - 1], n)
  <2>1. g = [n \in 0 .. L |-> Then(g, n)]
    BY <1>7
  <2>2. \A n \in 0 .. L : g[n] = Then(g, n)
    <3> HIDE DEF Then
    <3> QED
      BY <2>1
  <2>3. \A n \in 1 .. L : n \in 0 .. L /\ n # 0
    BY <1>1
  <2>4. 0 \in 0 .. L
    BY <1>1
  <2>5. g[0] = Budget - Overhead(ctx)
    BY <2>2, <2>4, Zenon
  <2>6. \A n \in 1 .. L : g[n] = Step(g[n - 1], n)
    BY <2>2, <2>3, Zenon
  <2>7. g = [n \in 0 .. L |-> g[n]]
    <3> HIDE DEF Then
    <3> QED
      BY <2>1, <2>2
  <2> QED
    BY <2>5, <2>6, <2>7
<1>10. g \in [0 .. L -> X]
  <2> HIDE DEF Step
  <2> DEFINE P == {n \in 0 .. L : g[n] \in X}
  <2>1. 0 \in P
    BY <1>1, <1>9
  <2>2. ASSUME NEW n \in 1 .. L, n - 1 \in P PROVE n \in P
    <3>1. g[n - 1] \in X /\ n \in 0 .. L
      BY <1>1, <2>2
    <3>2. Step(g[n - 1], n) \in X
      BY <1>2, <3>1
    <3>3. g[n] = Step(g[n - 1], n)
      BY <1>9
    <3> QED
      BY <3>1, <3>2, <3>3
  <2>3. \A n \in 0 .. L : n \in P
    <3> HIDE DEF P
    <3> QED
      BY <1>1, <2>1, <2>2, UpTo
  <2> QED
    BY <1>9, <2>3
<1> HIDE DEF Then, Solves, T
<1>11. WindowBy(ctx, toks, start, g)
  <2>1. \A n \in 1 .. Budget : g[n] = Shrunk(ctx, toks, start, g[n - 1])
    BY <1>9, Zenon DEF L
  <2>2. g[0] = Budget - Overhead(ctx) /\ SliceEndAt(toks, start, g[Budget]) = SliceEnd(ctx, toks, start)
    BY <1>8, <1>9, Zenon DEF L
  <2> QED
    BY <2>1, <2>2, Zenon DEF WindowBy
<1> QED
  BY <1>10, <1>11, Zenon DEF L, X

LEMMA SliceAdvances ==
  ASSUME ElementsOk, NEW ctx \in Seq(DOMAIN elements), NEW toks \in Seq(Tokened),
         NEW start \in Nat, start < Len(toks), Budget - Overhead(ctx) \in Nat \ {0}
  PROVE  SliceEnd(ctx, toks, start) \in start + 1 .. Len(toks)
<1>1. PICK f \in [0 .. Budget -> Nat \ {0}] : WindowBy(ctx, toks, start, f)
  BY WindowByIs
<1>2. Budget \in 0 .. Budget
  BY SplitConstants
<1>3. f[Budget] \in Nat \ {0}
  BY <1>1, <1>2
<1>4. SliceEndAt(toks, start, f[Budget]) = SliceEnd(ctx, toks, start)
  BY <1>1 DEF WindowBy
<1> QED
  BY <1>3, <1>4, EndIs

(* The slices so far hold all tokens before the next one. *)
SliceStates(ctx, toks) ==
  {st \in [chunks : Seq(Seq(Piece)), start : 0 .. Len(toks)] :
     SplitInto(st.chunks, ctx, {toks[k] : k \in 1 .. st.start})}

LEMMA SplitIntoMore ==
  ASSUME NEW chunks, NEW ctx, NEW toks, SplitInto(chunks, ctx, toks), NEW chunk \in Seq(Piece),
         ElementTokens(ToSet(ctx)) \subseteq ToSet(Render(chunk))
  PROVE  SplitInto(Append(chunks, chunk), ctx, toks \cup ToSet(Render(chunk)))
<1> DEFINE cs == Append(chunks, chunk)
<1>1. chunks \in Seq(Seq(Piece))
  BY DEF SplitInto
<1>2. /\ cs \in Seq(Seq(Piece)) /\ DOMAIN cs = 1 .. Len(chunks) + 1 /\ cs[Len(chunks) + 1] = chunk
      /\ DOMAIN chunks = 1 .. Len(chunks) /\ Len(chunks) \in Nat
      /\ \A n \in 1 .. Len(chunks) : cs[n] = chunks[n]
  BY <1>1, AppendFacts
<1> HIDE DEF cs
<1>3. \A n \in DOMAIN cs : n \in DOMAIN chunks \/ n = Len(chunks) + 1
  BY <1>2
<1>4. \A n \in DOMAIN cs : ElementTokens(ToSet(ctx)) \subseteq ToSet(Render(cs[n]))
  BY <1>2, <1>3 DEF SplitInto
<1>5. ShownBy(chunks) \subseteq ShownBy(cs)
  BY <1>2 DEF ShownBy
<1>6. ToSet(Render(chunk)) \subseteq ShownBy(cs)
  <2>1. Len(chunks) + 1 \in DOMAIN cs
    BY <1>2
  <2> QED
    BY <1>2, <2>1 DEF ShownBy
<1> QED
  BY <1>2, <1>4, <1>5, <1>6 DEF SplitInto, cs

LEMMA NextSliceIs ==
  ASSUME ElementsOk, NEW ctx \in Seq(DOMAIN elements), NEW toks \in Seq(Tokened),
         Budget - Overhead(ctx) \in Nat \ {0}, NEW overlap \in Nat, NEW st \in SliceStates(ctx, toks)
  PROVE  /\ NextSlice(ctx, toks, overlap, st) \in SliceStates(ctx, toks)
         /\ \/ NextSlice(ctx, toks, overlap, st).start >= st.start + 1
            \/ NextSlice(ctx, toks, overlap, st).start = Len(toks)
<1> DEFINE next == NextSlice(ctx, toks, overlap, st)
    end == SliceEnd(ctx, toks, st.start)
<1>1. /\ st.chunks \in Seq(Seq(Piece)) /\ st.start \in 0 .. Len(toks) /\ Len(toks) \in Nat
      /\ SplitInto(st.chunks, ctx, {toks[k] : k \in 1 .. st.start})
  BY DEF SliceStates
<1>2. CASE st.start >= Len(toks)
  <2>1. next = st
    BY <1>2 DEF NextSlice
  <2> QED
    BY <1>1, <1>2, <2>1
<1>3. CASE ~(st.start >= Len(toks))
  <2>1. st.start \in Nat /\ st.start < Len(toks)
    BY <1>1, <1>3
  <2>2. end \in st.start + 1 .. Len(toks)
    BY <2>1, SliceAdvances
  <2> DEFINE s == SubSeq(toks, st.start + 1, end)
      chunk == Chunk(ctx, s)
      start == IF end >= Len(toks) THEN end ELSE NextStart(st.start, end, overlap)
  <2>3. next = [chunks |-> Append(st.chunks, chunk), start |-> start]
    BY <1>3 DEF NextSlice
  <2> HIDE DEF end
  <2>4. start \in st.start + 1 .. end
    <3> DEFINE d == (end - st.start) \div 2
    <3>1. d \in Int /\ d >= 0
      BY <2>1, <2>2
    <3> HIDE DEF d
    <3>2. MinOf(overlap, d) \in Int /\ MinOf(overlap, d) >= 0
      BY <3>1 DEF MinOf
    <3>3. end - MinOf(overlap, d) \in Int /\ end - MinOf(overlap, d) <= end /\ st.start + 1 \in Int
      BY <2>1, <2>2, <3>2
    <3>4. /\ MaxOf(st.start + 1, end - MinOf(overlap, d)) >= st.start + 1
          /\ MaxOf(st.start + 1, end - MinOf(overlap, d)) <= end
          /\ MaxOf(st.start + 1, end - MinOf(overlap, d)) \in Int
      BY <2>1, <2>2, <3>3 DEF MaxOf
    <3> QED
      BY <2>1, <2>2, <3>4 DEF NextStart, d
  <2>5. /\ s \in Seq(Tokened)
        /\ \A k \in st.start + 1 .. end : toks[k] \in ToSet(s)
    BY <2>1, <2>2, SliceIs
  <2> HIDE DEF s, start
  <2>6. /\ chunk \in Seq(Piece) /\ ElementTokens(ToSet(ctx)) \subseteq ToSet(Render(chunk))
        /\ ToSet(s) \subseteq ToSet(Render(chunk))
    BY <2>5, ChunkIs
  <2> HIDE DEF chunk
  <2> DEFINE cs == Append(st.chunks, chunk)
  <2>7. SplitInto(cs, ctx, {toks[k] : k \in 1 .. st.start} \cup ToSet(Render(chunk)))
    BY <1>1, <2>6, SplitIntoMore
  <2>8. {toks[k] : k \in 1 .. start} \subseteq {toks[k] : k \in 1 .. st.start} \cup ToSet(Render(chunk))
    <3>1. ASSUME NEW k \in 1 .. start PROVE k \in 1 .. st.start \/ toks[k] \in ToSet(s)
      <4>1. k \in 1 .. st.start \/ k \in st.start + 1 .. end
        BY <2>1, <2>2, <2>4
      <4> QED
        BY <2>5, <4>1
    <3> QED
      BY <2>6, <3>1
  <2>9. SplitInto(cs, ctx, {toks[k] : k \in 1 .. start})
    BY <2>7, <2>8, SplitIntoLess
  <2>10. cs \in Seq(Seq(Piece)) /\ start \in 0 .. Len(toks)
    BY <1>1, <2>1, <2>2, <2>4, <2>6
  <2> HIDE DEF cs
  <2>11. next = [chunks |-> cs, start |-> start]
    BY <2>3 DEF cs
  <2> HIDE DEF next
  <2>12. next \in SliceStates(ctx, toks) /\ next.start = start
    BY <2>9, <2>10, <2>11 DEF SliceStates
  <2> QED
    BY <2>1, <2>2, <2>4, <2>12 DEF next
<1> QED
  BY <1>2, <1>3

LEMMA NoSlices ==
  ASSUME NEW ctx, NEW toks \in Seq(Tokened)
  PROVE  [chunks |-> <<>>, start |-> 0] \in SliceStates(ctx, toks)
<1>1. <<>> \in Seq(Seq(Piece)) /\ DOMAIN <<>> = {} /\ 0 \in 0 .. Len(toks) /\ 1 .. 0 = {}
  OBVIOUS
<1>2. SplitInto(<<>>, ctx, {toks[k] : k \in 1 .. 0})
  BY <1>1 DEF SplitInto
<1> QED
  BY <1>1, <1>2 DEF SliceStates

(* The equations of the slices. *)
SlicesBy(ctx, toks, overlap, f) ==
  /\ f[0] = [chunks |-> <<>>, start |-> 0] /\ f[Len(toks)].chunks = Slices(ctx, toks, overlap)
  /\ \A n \in 1 .. Len(toks) : f[n] = NextSlice(ctx, toks, overlap, f[n - 1])

LEMMA SlicesByIs ==
  ASSUME ElementsOk, NEW ctx \in Seq(DOMAIN elements), NEW toks \in Seq(Tokened),
         NEW overlap \in Nat, Budget - Overhead(ctx) \in Nat \ {0}
  PROVE  \E f \in [0 .. Len(toks) -> SliceStates(ctx, toks)] : SlicesBy(ctx, toks, overlap, f)
<1> DEFINE
    L == Len(toks)
    X == SliceStates(ctx, toks)
    first == [chunks |-> <<>>, start |-> 0]
    Step(x, n) == NextSlice(ctx, toks, overlap, x)
    T == [w \in X \X (1 .. L) |-> Step(w[1], w[2])]
    Then(g, n) == IF n = 0 THEN [chunks |-> <<>>, start |-> 0]
      ELSE NextSlice(ctx, toks, overlap, g[n - 1])
    Solves(g) == g = [n \in 0 .. L |-> Then(g, n)]
<1>1. L \in Nat /\ [chunks |-> <<>>, start |-> 0] \in X
  BY NoSlices
<1>2. ASSUME NEW x \in X, NEW n \in 1 .. L PROVE Step(x, n) \in X
  BY NextSliceIs
<1> HIDE DEF L, X
<1>3. StaysIn(T, X, L)
  <2> HIDE DEF Step
  <2> QED
    BY <1>2 DEF StaysIn
<1>4. PICK f \in [0 .. L -> X] : f[0] = first /\ \A n \in 1 .. L : f[n] = T[<<f[n - 1], n>>]
  <2>1. L \in Nat /\ first \in X
    BY <1>1
  <2> HIDE DEF T, first
  <2>2. PICK h \in [0 .. L -> X] : Follows(h, first, T, L)
    BY <1>3, <2>1, IteratedBy
  <2>3. h[0] = first /\ \A n \in 1 .. L : h[n] = T[<<h[n - 1], n>>]
    BY <2>2, Zenon DEF Follows
  <2> QED
    BY <2>3, Zenon
<1>5. ASSUME NEW n \in 1 .. L PROVE f[n] = Step(f[n - 1], n)
  <2>1. f[n - 1] \in X
    BY <1>1
  <2>2. T[<<f[n - 1], n>>] = Step(f[n - 1], n)
    <3> HIDE DEF Step
    <3> QED
      BY <2>1
  <2> HIDE DEF Step, T
  <2> QED
    BY <1>4, <2>2, Zenon
<1>6. Solves(f)
  <2>1. f = [n \in 0 .. L |-> f[n]]
    OBVIOUS
  <2>2. ASSUME NEW n \in 0 .. L PROVE f[n] = Then(f, n)
    <3>1. CASE n = 0
      BY <1>4, <3>1, Zenon
    <3>2. CASE n # 0
      <4>1. n \in 1 .. L
        BY <1>1, <3>2
      <4>2. f[n] = Step(f[n - 1], n)
        BY <1>5, <4>1, Zenon
      <4> QED
        BY <3>2, <4>2, Zenon
    <3> QED
      BY <3>1, <3>2, Zenon
  <2> HIDE DEF Then
  <2> QED
    BY <2>1, <2>2
<1> DEFINE g == CHOOSE g : Solves(g)
<1>7. Solves(g)
  <2> HIDE DEF Solves
  <2> QED
    BY <1>6
<1>8. g[L].chunks = Slices(ctx, toks, overlap)
  BY DEF Slices, L
<1> HIDE DEF g
<1>9. /\ g = [n \in 0 .. L |-> g[n]] /\ g[0] = [chunks |-> <<>>, start |-> 0]
      /\ \A n \in 1 .. L : g[n] = Step(g[n - 1], n)
  <2>1. g = [n \in 0 .. L |-> Then(g, n)]
    BY <1>7
  <2>2. \A n \in 0 .. L : g[n] = Then(g, n)
    <3> HIDE DEF Then
    <3> QED
      BY <2>1
  <2>3. \A n \in 1 .. L : n \in 0 .. L /\ n # 0
    BY <1>1
  <2>4. 0 \in 0 .. L
    BY <1>1
  <2>5. g[0] = [chunks |-> <<>>, start |-> 0]
    BY <2>2, <2>4, Zenon
  <2>6. \A n \in 1 .. L : g[n] = Step(g[n - 1], n)
    BY <2>2, <2>3, Zenon
  <2>7. g = [n \in 0 .. L |-> g[n]]
    <3> HIDE DEF Then
    <3> QED
      BY <2>1, <2>2
  <2> QED
    BY <2>5, <2>6, <2>7
<1>10. g \in [0 .. L -> X]
  <2> HIDE DEF Step
  <2> DEFINE P == {n \in 0 .. L : g[n] \in X}
  <2>1. 0 \in P
    BY <1>1, <1>9
  <2>2. ASSUME NEW n \in 1 .. L, n - 1 \in P PROVE n \in P
    <3>1. g[n - 1] \in X /\ n \in 0 .. L
      BY <1>1, <2>2
    <3>2. Step(g[n - 1], n) \in X
      BY <1>2, <3>1
    <3>3. g[n] = Step(g[n - 1], n)
      BY <1>9
    <3> QED
      BY <3>1, <3>2, <3>3
  <2>3. \A n \in 0 .. L : n \in P
    <3> HIDE DEF P
    <3> QED
      BY <1>1, <2>1, <2>2, UpTo
  <2> QED
    BY <1>9, <2>3
<1> HIDE DEF Then, Solves, T
<1>11. SlicesBy(ctx, toks, overlap, g)
  <2>1. \A n \in 1 .. Len(toks) : g[n] = NextSlice(ctx, toks, overlap, g[n - 1])
    BY <1>9, Zenon DEF L
  <2>2. g[0] = [chunks |-> <<>>, start |-> 0] /\ g[Len(toks)].chunks = Slices(ctx, toks, overlap)
    BY <1>8, <1>9, Zenon DEF L
  <2> QED
    BY <2>1, <2>2, Zenon DEF SlicesBy
<1> QED
  BY <1>10, <1>11, Zenon DEF L, X

(* Slices leave out no token, whatever they overlap by. *)
LEMMA SlicesHoldAll ==
  ASSUME ElementsOk, NEW ctx \in Seq(DOMAIN elements), NEW toks \in Seq(Tokened),
         NEW overlap \in Nat, Budget - Overhead(ctx) \in Nat \ {0}
  PROVE  SplitInto(Slices(ctx, toks, overlap), ctx, ToSet(toks))
<1> DEFINE L == Len(toks)
<1>1. PICK f \in [0 .. Len(toks) -> SliceStates(ctx, toks)] : SlicesBy(ctx, toks, overlap, f)
  BY SlicesByIs
<1>2. L \in Nat /\ ToSet(toks) = {toks[k] : k \in 1 .. L}
  BY DEF ToSet
<1>3. \A n \in 0 .. L : f[n] \in SliceStates(ctx, toks) /\ f[n].start \in 0 .. L
  BY <1>1 DEF SliceStates
<1> DEFINE P == {n \in 0 .. L : f[n].start >= n}
<1>4. 0 \in P
  BY <1>1, <1>2 DEF SlicesBy
<1>5. ASSUME NEW n \in 1 .. L, n - 1 \in P PROVE n \in P
  <2>1. n - 1 \in 0 .. L /\ n \in 0 .. L
    BY <1>2
  <2>2. f[n] = NextSlice(ctx, toks, overlap, f[n - 1])
    BY <1>1 DEF SlicesBy
  <2>3. f[n].start >= f[n - 1].start + 1 \/ f[n].start = L
    BY <1>3, <2>1, <2>2, NextSliceIs
  <2> QED
    BY <1>2, <1>3, <1>5, <2>1, <2>3
<1>6. \A n \in 0 .. L : n \in P
  <2> HIDE DEF P
  <2> QED
    BY <1>2, <1>4, <1>5, UpTo
<1>7. L \in 0 .. L
  BY <1>2
<1>8. f[L].start = L
  BY <1>2, <1>3, <1>6, <1>7
<1>9. SplitInto(f[L].chunks, ctx, {toks[k] : k \in 1 .. f[L].start})
  BY <1>3, <1>7 DEF SliceStates
<1>10. f[L].chunks = Slices(ctx, toks, overlap)
  BY <1>1 DEF SlicesBy
<1> QED
  BY <1>2, <1>8, <1>9, <1>10

(* The content without the elements of the context. *)
LEMMA TokenSliceHolds ==
  ASSUME ElementsOk, NEW ctx \in Seq(DOMAIN elements), NEW pieces \in Seq(Piece),
         NEW overlap \in Nat, Budget - Overhead(ctx) \in Nat \ {0}
  PROVE  \E rest \in Seq(Piece) :
           /\ rest = Among(pieces, {p \in ToSet(pieces) : p.of \notin ToSet(ctx)})
           /\ ToSet(rest) = {p \in ToSet(pieces) : p.of \notin ToSet(ctx)}
           /\ SplitInto(TokenSlice(ctx, pieces, overlap), ctx, ToSet(Render(rest)))
<1> DEFINE S == {p \in ToSet(pieces) : p.of \notin ToSet(ctx)}
    rest == Among(pieces, S)
<1>1. rest \in Seq(Piece) /\ ToSet(rest) = ToSet(pieces) \cap S
  BY AmongIn, AmongMembers
<1>2. ToSet(rest) = S
  BY <1>1
<1>3. TokenSlice(ctx, pieces, overlap) = Slices(ctx, Render(rest), overlap)
  BY DEF TokenSlice
<1> HIDE DEF rest
<1>4. Render(rest) \in Seq(Tokened)
  BY <1>1, RenderIn
<1>5. SplitInto(Slices(ctx, Render(rest), overlap), ctx, ToSet(Render(rest)))
  BY <1>4, SlicesHoldAll
<1> QED
  BY <1>1, <1>2, <1>3, <1>5 DEF rest

-----------------------------------------------------------------------------
(* Splitting: sentences *)

(* The tokens of texts. *)
TokenTexts == Seq(Tokened)

Holding(ss) == UNION {ToSet(ss[n]) : n \in DOMAIN ss}

LEMMA HoldingMore ==
  ASSUME NEW ss \in Seq(TokenTexts), NEW s \in TokenTexts
  PROVE  Append(ss, s) \in Seq(TokenTexts) /\ Holding(Append(ss, s)) = Holding(ss) \cup ToSet(s)
<1> DEFINE tt == Append(ss, s)
<1>1. /\ tt \in Seq(TokenTexts) /\ DOMAIN tt = 1 .. Len(ss) + 1 /\ tt[Len(ss) + 1] = s
      /\ DOMAIN ss = 1 .. Len(ss) /\ Len(ss) \in Nat
      /\ \A n \in 1 .. Len(ss) : tt[n] = ss[n]
  BY AppendFacts
<1> HIDE DEF tt
<1>2. ASSUME NEW x \in Holding(tt) PROVE x \in Holding(ss) \cup ToSet(s)
  <2>1. PICK n \in DOMAIN tt : x \in ToSet(tt[n])
    BY DEF Holding
  <2>2. n \in 1 .. Len(ss) \/ n = Len(ss) + 1
    BY <1>1
  <2> QED
    BY <1>1, <2>1, <2>2 DEF Holding
<1>3. ASSUME NEW x \in Holding(ss) PROVE x \in Holding(tt)
  <2>1. PICK n \in DOMAIN ss : x \in ToSet(ss[n])
    BY DEF Holding
  <2>2. n \in DOMAIN tt /\ tt[n] = ss[n]
    BY <1>1
  <2> QED
    BY <2>1, <2>2 DEF Holding
<1>4. ToSet(s) \subseteq Holding(tt)
  <2>1. Len(ss) + 1 \in DOMAIN tt
    BY <1>1
  <2> QED
    BY <1>1, <2>1 DEF Holding
<1> QED
  BY <1>1, <1>2, <1>3, <1>4 DEF tt

LEMMA AppendMembers ==
  ASSUME NEW S, NEW s \in Seq(S), NEW x \in S
  PROVE  Append(s, x) \in Seq(S) /\ ToSet(Append(s, x)) = ToSet(s) \cup {x}
<1> DEFINE t == Append(s, x)
<1>1. /\ t \in Seq(S) /\ DOMAIN t = 1 .. Len(s) + 1 /\ t[Len(s) + 1] = x /\ Len(s) \in Nat
      /\ DOMAIN s = 1 .. Len(s) /\ \A n \in 1 .. Len(s) : t[n] = s[n]
  BY AppendFacts
<1> HIDE DEF t
<1>2. \A n \in DOMAIN t : n \in DOMAIN s \/ n = Len(s) + 1
  BY <1>1
<1>3. Len(s) + 1 \in DOMAIN t /\ \A n \in DOMAIN s : n \in DOMAIN t
  BY <1>1
<1> QED
  BY <1>1, <1>2, <1>3 DEF ToSet, t

(* The last text of ss for another one. *)
LEMMA LastReplaced ==
  ASSUME NEW ss \in Seq(TokenTexts), ss # <<>>, NEW s \in TokenTexts, ToSet(Last(ss)) \subseteq ToSet(s)
  PROVE  /\ Front(ss) \o <<s>> \in Seq(TokenTexts)
         /\ Holding(ss) \cup ToSet(s) \subseteq Holding(Front(ss) \o <<s>>)
<1>1. Front(ss) \in Seq(TokenTexts) /\ Last(ss) \in TokenTexts /\ ss = Append(Front(ss), Last(ss))
  BY FrontLast
<1>2. Front(ss) \o <<s>> = Append(Front(ss), s)
  BY <1>1
<1>3. Holding(ss) = Holding(Front(ss)) \cup ToSet(Last(ss))
  BY <1>1, HoldingMore
<1>4. Append(Front(ss), s) \in Seq(TokenTexts)
        /\ Holding(Append(Front(ss), s)) = Holding(Front(ss)) \cup ToSet(s)
  BY <1>1, HoldingMore
<1> QED
  BY <1>2, <1>3, <1>4

LEMMA WithTokenIs ==
  ASSUME NEW ss \in Seq(TokenTexts), NEW tok \in Tokened
  PROVE  /\ WithToken(ss, tok) \in Seq(TokenTexts)
         /\ Holding(ss) \cup {tok} \subseteq Holding(WithToken(ss, tok))
<1>1. <<tok>> \in TokenTexts /\ ToSet(<<tok>>) = {tok}
  BY DEF TokenTexts, ToSet
<1>2. Append(ss, <<tok>>) \in Seq(TokenTexts) /\ Holding(Append(ss, <<tok>>)) = Holding(ss) \cup {tok}
  BY <1>1, HoldingMore
<1>3. CASE ss # <<>> /\ ~EndsSentence(Last(Last(ss)))
  <2>1. Last(ss) \in TokenTexts
    BY <1>3, FrontLast
  <2>2. /\ Append(Last(ss), tok) \in TokenTexts
        /\ ToSet(Append(Last(ss), tok)) = ToSet(Last(ss)) \cup {tok}
    BY <2>1, AppendMembers DEF TokenTexts
  <2>3. /\ Front(ss) \o <<Append(Last(ss), tok)>> \in Seq(TokenTexts)
        /\ Holding(ss) \cup ToSet(Append(Last(ss), tok))
             \subseteq Holding(Front(ss) \o <<Append(Last(ss), tok)>>)
    BY <1>3, <2>2, LastReplaced
  <2>4. WithToken(ss, tok) = Front(ss) \o <<Append(Last(ss), tok)>>
    BY <1>3 DEF WithToken
  <2> QED
    BY <2>2, <2>3, <2>4
<1>4. CASE ~(ss # <<>> /\ ~EndsSentence(Last(Last(ss))))
  <2>1. WithToken(ss, tok) = Append(ss, <<tok>>)
    BY <1>4, Zenon DEF WithToken
  <2> QED
    BY <1>2, <2>1
<1> QED
  BY <1>3, <1>4

(* The equations of the sentences. *)
SentencesBy(toks, f) ==
  /\ f[0] = <<>> /\ f[Len(toks)] = Sentences(toks)
  /\ \A n \in 1 .. Len(toks) : f[n] = WithToken(f[n - 1], toks[n])

LEMMA SentencesByIs ==
  ASSUME NEW toks \in TokenTexts
  PROVE  \E f \in [0 .. Len(toks) -> Seq(TokenTexts)] : SentencesBy(toks, f)
<1> DEFINE
    L == Len(toks)
    X == Seq(TokenTexts)
    first == <<>>
    Step(x, n) == WithToken(x, toks[n])
    T == [w \in X \X (1 .. L) |-> Step(w[1], w[2])]
    Then(g, n) == IF n = 0 THEN <<>> ELSE WithToken(g[n - 1], toks[n])
    Solves(g) == g = [n \in 0 .. L |-> Then(g, n)]
<1>1. L \in Nat /\ <<>> \in X
  BY DEF TokenTexts
<1>2. ASSUME NEW x \in X, NEW n \in 1 .. L PROVE Step(x, n) \in X
  <2>1. toks[n] \in Tokened
    BY DEF TokenTexts
  <2> QED
    BY <2>1, WithTokenIs
<1> HIDE DEF L, X
<1>3. StaysIn(T, X, L)
  <2> HIDE DEF Step
  <2> QED
    BY <1>2 DEF StaysIn
<1>4. PICK f \in [0 .. L -> X] : f[0] = first /\ \A n \in 1 .. L : f[n] = T[<<f[n - 1], n>>]
  <2>1. L \in Nat /\ first \in X
    BY <1>1
  <2> HIDE DEF T, first
  <2>2. PICK h \in [0 .. L -> X] : Follows(h, first, T, L)
    BY <1>3, <2>1, IteratedBy
  <2>3. h[0] = first /\ \A n \in 1 .. L : h[n] = T[<<h[n - 1], n>>]
    BY <2>2, Zenon DEF Follows
  <2> QED
    BY <2>3, Zenon
<1>5. ASSUME NEW n \in 1 .. L PROVE f[n] = Step(f[n - 1], n)
  <2>1. f[n - 1] \in X
    BY <1>1
  <2>2. T[<<f[n - 1], n>>] = Step(f[n - 1], n)
    <3> HIDE DEF Step
    <3> QED
      BY <2>1
  <2> HIDE DEF Step, T
  <2> QED
    BY <1>4, <2>2, Zenon
<1>6. Solves(f)
  <2>1. f = [n \in 0 .. L |-> f[n]]
    OBVIOUS
  <2>2. ASSUME NEW n \in 0 .. L PROVE f[n] = Then(f, n)
    <3>1. CASE n = 0
      BY <1>4, <3>1, Zenon
    <3>2. CASE n # 0
      <4>1. n \in 1 .. L
        BY <1>1, <3>2
      <4>2. f[n] = Step(f[n - 1], n)
        BY <1>5, <4>1, Zenon
      <4> QED
        BY <3>2, <4>2, Zenon
    <3> QED
      BY <3>1, <3>2, Zenon
  <2> HIDE DEF Then
  <2> QED
    BY <2>1, <2>2
<1> DEFINE g == CHOOSE g : Solves(g)
<1>7. Solves(g)
  <2> HIDE DEF Solves
  <2> QED
    BY <1>6
<1>8. g[L] = Sentences(toks)
  BY DEF Sentences, L
<1> HIDE DEF g
<1>9. /\ g = [n \in 0 .. L |-> g[n]] /\ g[0] = <<>>
      /\ \A n \in 1 .. L : g[n] = Step(g[n - 1], n)
  <2>1. g = [n \in 0 .. L |-> Then(g, n)]
    BY <1>7
  <2>2. \A n \in 0 .. L : g[n] = Then(g, n)
    <3> HIDE DEF Then
    <3> QED
      BY <2>1
  <2>3. \A n \in 1 .. L : n \in 0 .. L /\ n # 0
    BY <1>1
  <2>4. 0 \in 0 .. L
    BY <1>1
  <2>5. g[0] = <<>>
    BY <2>2, <2>4, Zenon
  <2>6. \A n \in 1 .. L : g[n] = Step(g[n - 1], n)
    BY <2>2, <2>3, Zenon
  <2>7. g = [n \in 0 .. L |-> g[n]]
    <3> HIDE DEF Then
    <3> QED
      BY <2>1, <2>2
  <2> QED
    BY <2>5, <2>6, <2>7
<1>10. g \in [0 .. L -> X]
  <2> HIDE DEF Step
  <2> DEFINE P == {n \in 0 .. L : g[n] \in X}
  <2>1. 0 \in P
    BY <1>1, <1>9
  <2>2. ASSUME NEW n \in 1 .. L, n - 1 \in P PROVE n \in P
    <3>1. g[n - 1] \in X /\ n \in 0 .. L
      BY <1>1, <2>2
    <3>2. Step(g[n - 1], n) \in X
      BY <1>2, <3>1
    <3>3. g[n] = Step(g[n - 1], n)
      BY <1>9
    <3> QED
      BY <3>1, <3>2, <3>3
  <2>3. \A n \in 0 .. L : n \in P
    <3> HIDE DEF P
    <3> QED
      BY <1>1, <2>1, <2>2, UpTo
  <2> QED
    BY <1>9, <2>3
<1> HIDE DEF Then, Solves, T
<1>11. SentencesBy(toks, g)
  <2>1. \A n \in 1 .. Len(toks) : g[n] = WithToken(g[n - 1], toks[n])
    BY <1>9, Zenon DEF L
  <2>2. g[0] = <<>> /\ g[Len(toks)] = Sentences(toks)
    BY <1>8, <1>9, Zenon DEF L
  <2> QED
    BY <2>1, <2>2, Zenon DEF SentencesBy
<1> QED
  BY <1>10, <1>11, Zenon DEF L, X

LEMMA SentencesHold ==
  ASSUME NEW toks \in TokenTexts
  PROVE  Sentences(toks) \in Seq(TokenTexts) /\ ToSet(toks) \subseteq Holding(Sentences(toks))
<1> DEFINE L == Len(toks)
<1>1. PICK f \in [0 .. Len(toks) -> Seq(TokenTexts)] : SentencesBy(toks, f)
  BY SentencesByIs
<1>2. L \in Nat /\ ToSet(toks) = {toks[k] : k \in 1 .. L} /\ \A n \in 1 .. L : toks[n] \in Tokened
  BY DEF ToSet, TokenTexts
<1> DEFINE P == {n \in 0 .. L : \A k \in 1 .. n : toks[k] \in Holding(f[n])}
<1>3. 0 \in P
  BY <1>2
<1>4. ASSUME NEW n \in 1 .. L, n - 1 \in P PROVE n \in P
  <2>1. f[n - 1] \in Seq(TokenTexts) /\ toks[n] \in Tokened /\ n \in 0 .. L
    BY <1>1, <1>2
  <2>2. f[n] = WithToken(f[n - 1], toks[n])
    BY <1>1 DEF SentencesBy
  <2>3. Holding(f[n - 1]) \cup {toks[n]} \subseteq Holding(f[n])
    BY <2>1, <2>2, WithTokenIs
  <2>4. \A k \in 1 .. n : k \in 1 .. n - 1 \/ k = n
    BY <1>2
  <2>5. \A k \in 1 .. n - 1 : toks[k] \in Holding(f[n - 1])
    BY <1>4
  <2>6. \A k \in 1 .. n : toks[k] \in Holding(f[n])
    BY <2>3, <2>4, <2>5
  <2> QED
    BY <2>1, <2>6
<1>5. \A n \in 0 .. L : n \in P
  <2> HIDE DEF P
  <2> QED
    BY <1>2, <1>3, <1>4, UpTo
<1>6. L \in 0 .. L
  BY <1>2
<1>7. f[L] = Sentences(toks) /\ f[L] \in Seq(TokenTexts)
  BY <1>1, <1>6 DEF SentencesBy
<1>8. \A k \in 1 .. L : toks[k] \in Holding(f[L])
  BY <1>5, <1>6
<1> QED
  BY <1>2, <1>7, <1>8

LEMMA WithSentenceIs ==
  ASSUME NEW texts \in Seq(TokenTexts), NEW s \in TokenTexts, NEW room
  PROVE  /\ WithSentence(texts, s, room) \in Seq(TokenTexts)
         /\ Holding(texts) \cup ToSet(s) \subseteq Holding(WithSentence(texts, s, room))
<1>1. Append(texts, s) \in Seq(TokenTexts) /\ Holding(Append(texts, s)) = Holding(texts) \cup ToSet(s)
  BY HoldingMore
<1>2. CASE texts # <<>> /\ Len(Last(texts)) + Len(s) <= room
  <2>1. Last(texts) \in TokenTexts
    BY <1>2, FrontLast
  <2>2. Last(texts) \o s \in TokenTexts /\ ToSet(Last(texts) \o s) = ToSet(Last(texts)) \cup ToSet(s)
    BY <2>1, JoinedIn, JoinedMembers DEF TokenTexts
  <2>3. /\ Front(texts) \o <<Last(texts) \o s>> \in Seq(TokenTexts)
        /\ Holding(texts) \cup ToSet(Last(texts) \o s)
             \subseteq Holding(Front(texts) \o <<Last(texts) \o s>>)
    BY <1>2, <2>2, LastReplaced
  <2>4. WithSentence(texts, s, room) = Front(texts) \o <<Last(texts) \o s>>
    BY <1>2 DEF WithSentence
  <2> QED
    BY <2>2, <2>3, <2>4
<1>3. CASE ~(texts # <<>> /\ Len(Last(texts)) + Len(s) <= room)
  <2>1. WithSentence(texts, s, room) = Append(texts, s)
    BY <1>3, Zenon DEF WithSentence
  <2> QED
    BY <1>1, <2>1
<1> QED
  BY <1>2, <1>3

(* The equations of the packed sentences. *)
PackBy(ss, room, f) ==
  /\ f[0] = <<>> /\ f[Len(ss)] = Pack(ss, room)
  /\ \A n \in 1 .. Len(ss) : f[n] = WithSentence(f[n - 1], ss[n], room)

LEMMA PackByIs ==
  ASSUME NEW ss \in Seq(TokenTexts), NEW room
  PROVE  \E f \in [0 .. Len(ss) -> Seq(TokenTexts)] : PackBy(ss, room, f)
<1> DEFINE
    L == Len(ss)
    X == Seq(TokenTexts)
    first == <<>>
    Step(x, n) == WithSentence(x, ss[n], room)
    T == [w \in X \X (1 .. L) |-> Step(w[1], w[2])]
    Then(g, n) == IF n = 0 THEN <<>> ELSE WithSentence(g[n - 1], ss[n], room)
    Solves(g) == g = [n \in 0 .. L |-> Then(g, n)]
<1>1. L \in Nat /\ <<>> \in X
  OBVIOUS
<1>2. ASSUME NEW x \in X, NEW n \in 1 .. L PROVE Step(x, n) \in X
  <2>1. ss[n] \in TokenTexts
    OBVIOUS
  <2> QED
    BY <2>1, WithSentenceIs
<1> HIDE DEF L, X
<1>3. StaysIn(T, X, L)
  <2> HIDE DEF Step
  <2> QED
    BY <1>2 DEF StaysIn
<1>4. PICK f \in [0 .. L -> X] : f[0] = first /\ \A n \in 1 .. L : f[n] = T[<<f[n - 1], n>>]
  <2>1. L \in Nat /\ first \in X
    BY <1>1
  <2> HIDE DEF T, first
  <2>2. PICK h \in [0 .. L -> X] : Follows(h, first, T, L)
    BY <1>3, <2>1, IteratedBy
  <2>3. h[0] = first /\ \A n \in 1 .. L : h[n] = T[<<h[n - 1], n>>]
    BY <2>2, Zenon DEF Follows
  <2> QED
    BY <2>3, Zenon
<1>5. ASSUME NEW n \in 1 .. L PROVE f[n] = Step(f[n - 1], n)
  <2>1. f[n - 1] \in X
    BY <1>1
  <2>2. T[<<f[n - 1], n>>] = Step(f[n - 1], n)
    <3> HIDE DEF Step
    <3> QED
      BY <2>1
  <2> HIDE DEF Step, T
  <2> QED
    BY <1>4, <2>2, Zenon
<1>6. Solves(f)
  <2>1. f = [n \in 0 .. L |-> f[n]]
    OBVIOUS
  <2>2. ASSUME NEW n \in 0 .. L PROVE f[n] = Then(f, n)
    <3>1. CASE n = 0
      BY <1>4, <3>1, Zenon
    <3>2. CASE n # 0
      <4>1. n \in 1 .. L
        BY <1>1, <3>2
      <4>2. f[n] = Step(f[n - 1], n)
        BY <1>5, <4>1, Zenon
      <4> QED
        BY <3>2, <4>2, Zenon
    <3> QED
      BY <3>1, <3>2, Zenon
  <2> HIDE DEF Then
  <2> QED
    BY <2>1, <2>2
<1> DEFINE g == CHOOSE g : Solves(g)
<1>7. Solves(g)
  <2> HIDE DEF Solves
  <2> QED
    BY <1>6
<1>8. g[L] = Pack(ss, room)
  BY DEF Pack, L
<1> HIDE DEF g
<1>9. /\ g = [n \in 0 .. L |-> g[n]] /\ g[0] = <<>>
      /\ \A n \in 1 .. L : g[n] = Step(g[n - 1], n)
  <2>1. g = [n \in 0 .. L |-> Then(g, n)]
    BY <1>7
  <2>2. \A n \in 0 .. L : g[n] = Then(g, n)
    <3> HIDE DEF Then
    <3> QED
      BY <2>1
  <2>3. \A n \in 1 .. L : n \in 0 .. L /\ n # 0
    BY <1>1
  <2>4. 0 \in 0 .. L
    BY <1>1
  <2>5. g[0] = <<>>
    BY <2>2, <2>4, Zenon
  <2>6. \A n \in 1 .. L : g[n] = Step(g[n - 1], n)
    BY <2>2, <2>3, Zenon
  <2>7. g = [n \in 0 .. L |-> g[n]]
    <3> HIDE DEF Then
    <3> QED
      BY <2>1, <2>2
  <2> QED
    BY <2>5, <2>6, <2>7
<1>10. g \in [0 .. L -> X]
  <2> HIDE DEF Step
  <2> DEFINE P == {n \in 0 .. L : g[n] \in X}
  <2>1. 0 \in P
    BY <1>1, <1>9
  <2>2. ASSUME NEW n \in 1 .. L, n - 1 \in P PROVE n \in P
    <3>1. g[n - 1] \in X /\ n \in 0 .. L
      BY <1>1, <2>2
    <3>2. Step(g[n - 1], n) \in X
      BY <1>2, <3>1
    <3>3. g[n] = Step(g[n - 1], n)
      BY <1>9
    <3> QED
      BY <3>1, <3>2, <3>3
  <2>3. \A n \in 0 .. L : n \in P
    <3> HIDE DEF P
    <3> QED
      BY <1>1, <2>1, <2>2, UpTo
  <2> QED
    BY <1>9, <2>3
<1> HIDE DEF Then, Solves, T
<1>11. PackBy(ss, room, g)
  <2>1. \A n \in 1 .. Len(ss) : g[n] = WithSentence(g[n - 1], ss[n], room)
    BY <1>9, Zenon DEF L
  <2>2. g[0] = <<>> /\ g[Len(ss)] = Pack(ss, room)
    BY <1>8, <1>9, Zenon DEF L
  <2> QED
    BY <2>1, <2>2, Zenon DEF PackBy
<1> QED
  BY <1>10, <1>11, Zenon DEF L, X

LEMMA PackHolds ==
  ASSUME NEW ss \in Seq(TokenTexts), NEW room
  PROVE  Pack(ss, room) \in Seq(TokenTexts) /\ Holding(ss) \subseteq Holding(Pack(ss, room))
<1> DEFINE L == Len(ss)
<1>1. PICK f \in [0 .. Len(ss) -> Seq(TokenTexts)] : PackBy(ss, room, f)
  BY PackByIs
<1>2. L \in Nat /\ DOMAIN ss = 1 .. L /\ \A n \in 1 .. L : ss[n] \in TokenTexts
  OBVIOUS
<1> DEFINE P == {n \in 0 .. L : \A k \in 1 .. n : ToSet(ss[k]) \subseteq Holding(f[n])}
<1>3. 0 \in P
  BY <1>2
<1>4. ASSUME NEW n \in 1 .. L, n - 1 \in P PROVE n \in P
  <2>1. f[n - 1] \in Seq(TokenTexts) /\ ss[n] \in TokenTexts /\ n \in 0 .. L
    BY <1>1, <1>2
  <2>2. f[n] = WithSentence(f[n - 1], ss[n], room)
    BY <1>1 DEF PackBy
  <2>3. Holding(f[n - 1]) \cup ToSet(ss[n]) \subseteq Holding(f[n])
    BY <2>1, <2>2, WithSentenceIs
  <2>4. \A k \in 1 .. n : k \in 1 .. n - 1 \/ k = n
    BY <1>2
  <2>5. \A k \in 1 .. n - 1 : ToSet(ss[k]) \subseteq Holding(f[n - 1])
    BY <1>4
  <2>6. \A k \in 1 .. n : ToSet(ss[k]) \subseteq Holding(f[n])
    BY <2>3, <2>4, <2>5
  <2> QED
    BY <2>1, <2>6
<1>5. \A n \in 0 .. L : n \in P
  <2> HIDE DEF P
  <2> QED
    BY <1>2, <1>3, <1>4, UpTo
<1>6. L \in 0 .. L
  BY <1>2
<1>7. f[L] = Pack(ss, room) /\ f[L] \in Seq(TokenTexts)
  BY <1>1, <1>6 DEF PackBy
<1>8. \A k \in 1 .. L : ToSet(ss[k]) \subseteq Holding(f[L])
  BY <1>5, <1>6
<1> QED
  BY <1>2, <1>7, <1>8 DEF Holding

LEMMA OverheadIs ==
  ASSUME ElementsOk, NEW ctx \in Seq(DOMAIN elements)
  PROVE  Overhead(ctx) \in Nat
<1>1. Title \in Nat
  BY SplitConstants
<1>2. Pieces(ctx) \in Seq(Piece)
  BY PiecesAre
<1> QED
  BY <1>1, <1>2, RenderIn DEF Overhead

(* A text, as it is or in slices, loses nothing. *)
LEMMA CheckedHolds ==
  ASSUME ElementsOk, NEW ctx \in Seq(DOMAIN elements), NEW text \in TokenTexts
  PROVE  SplitInto(Checked(ctx, text), ctx, ToSet(text))
<1> DEFINE chunk == Chunk(ctx, text)
    room == Budget - Overhead(ctx)
    overlap == MinOf(Overlap, room - (Room + 1))
<1>1. Overhead(ctx) \in Nat /\ Budget \in Nat /\ Room \in Nat /\ Overlap \in Nat
  BY OverheadIs, SplitConstants
<1>2. /\ chunk \in Seq(Piece) /\ chunk = Pieces(ctx) \o <<RawText(text)>>
      /\ ElementTokens(ToSet(ctx)) \subseteq ToSet(Render(chunk))
      /\ ToSet(text) \subseteq ToSet(Render(chunk))
  BY ChunkIs DEF TokenTexts
<1>3. CASE ~(Overhead(ctx) + Room < Budget) \/ Titled(chunk) <= Budget
  <2>1. Checked(ctx, text) = <<chunk>>
    BY <1>3 DEF Checked
  <2> HIDE DEF chunk
  <2> QED
    BY <1>2, <2>1, SplitIntoOne
<1>4. CASE ~(~(Overhead(ctx) + Room < Budget) \/ Titled(chunk) <= Budget)
  <2>1. Checked(ctx, text) = TokenSlice(ctx, chunk, overlap)
    BY <1>4 DEF Checked
  <2>2. room \in Nat \ {0} /\ overlap \in Nat
    BY <1>1, <1>4 DEF MinOf
  <2> HIDE DEF overlap, chunk
  <2>3. PICK rest \in Seq(Piece) :
          /\ ToSet(rest) = {p \in ToSet(chunk) : p.of \notin ToSet(ctx)}
          /\ SplitInto(TokenSlice(ctx, chunk, overlap), ctx, ToSet(Render(rest)))
    BY <1>2, <2>2, TokenSliceHolds
  <2>4. RawText(text) \in Piece /\ RawText(text).of = 0 /\ RawText(text).toks = text
    BY RawTextIs DEF TokenTexts
  <2>5. RawText(text) \in ToSet(chunk)
    <3>1. <<RawText(text)>> \in Seq(Piece) /\ ToSet(<<RawText(text)>>) = {RawText(text)}
      BY <2>4 DEF ToSet
    <3>2. ToSet(chunk) = ToSet(Pieces(ctx)) \cup ToSet(<<RawText(text)>>)
      <4>1. Pieces(ctx) \in Seq(Piece)
        BY PiecesAre
      <4> DEFINE raws == <<RawText(text)>>
      <4> HIDE DEF raws
      <4>2. raws \in Seq(Piece)
        BY <3>1 DEF raws
      <4>3. ToSet(Pieces(ctx) \o raws) = ToSet(Pieces(ctx)) \cup ToSet(raws)
        BY <4>1, <4>2, JoinedMembers
      <4> QED
        BY <1>2, <4>3, Zenon DEF raws
    <3> QED
      BY <3>1, <3>2
  <2>6. 0 \notin ToSet(ctx)
    <3>1. \A n \in DOMAIN ctx : ctx[n] \in 1 .. Len(elements)
      BY DomainIs
    <3> QED
      BY <3>1 DEF ToSet
  <2>7. RawText(text) \in ToSet(rest)
    BY <2>3, <2>4, <2>5, <2>6
  <2>8. PICK n \in 1 .. Len(rest) : rest[n] = RawText(text)
    BY <2>7 DEF ToSet
  <2>9. ToSet(text) \subseteq ToSet(Render(rest))
    <3>1. ToSet(rest[n].toks) \subseteq ToSet(Render(rest))
      BY RenderMembers
    <3> QED
      BY <2>4, <2>8, <3>1
  <2> QED
    BY <2>1, <2>3, <2>9, SplitIntoLess
<1> QED
  BY <1>3, <1>4

LEMMA SplitAtSentencesHolds ==
  ASSUME ElementsOk, NEW ctx \in Seq(DOMAIN elements), NEW pieces \in Seq(Piece)
  PROVE  \/ SplitAtSentences(pieces, ctx) = <<>>
         \/ SplitInto(SplitAtSentences(pieces, ctx), ctx, ToSet(Render(pieces)))
<1> DEFINE full == Pieces(ctx) \o pieces
    room == IF Overhead(ctx) < Budget THEN Budget - Overhead(ctx) ELSE 0
    texts == Pack(Sentences(Render(full)), room)
    cs == [n \in DOMAIN texts |-> Checked(ctx, texts[n])]
<1>1. /\ full \in Seq(Piece)
      /\ ToSet(Render(full)) = ToSet(Render(Pieces(ctx))) \cup ToSet(Render(pieces))
  BY PiecesAre, RenderJoined
<1>2. ToSet(Render(Pieces(ctx))) = ElementTokens(ToSet(ctx))
  BY PiecesShow
<1>3. SplitAtSentences(pieces, ctx)
        = IF Titled(full) <= Budget THEN <<full>> ELSE IF Len(texts) <= 1 THEN <<>> ELSE FlattenSeq(cs)
  BY DEF SplitAtSentences
<1> HIDE DEF full, room
<1>4. SplitInto(<<full>>, ctx, ToSet(Render(pieces)))
  BY <1>1, <1>2, SplitIntoOne
<1>5. texts \in Seq(TokenTexts) /\ ToSet(Render(full)) \subseteq Holding(texts)
  <2>1. Render(full) \in TokenTexts
    BY <1>1, RenderIn DEF TokenTexts
  <2>2. /\ Sentences(Render(full)) \in Seq(TokenTexts)
        /\ ToSet(Render(full)) \subseteq Holding(Sentences(Render(full)))
    BY <2>1, SentencesHold
  <2> QED
    BY <2>2, PackHolds
<1> HIDE DEF texts
<1> DEFINE T == [n \in 1 .. Len(texts) |-> ToSet(texts[n])]
<1>6. ASSUME NEW n \in 1 .. Len(texts) PROVE SplitInto(cs[n], ctx, T[n]) /\ cs[n] \in Seq(Seq(Piece))
  <2>1. texts[n] \in TokenTexts /\ n \in DOMAIN texts
    BY <1>5
  <2>2. SplitInto(Checked(ctx, texts[n]), ctx, ToSet(texts[n]))
    BY <2>1, CheckedHolds
  <2> QED
    BY <2>1, <2>2 DEF SplitInto
<1>7. cs = [n \in 1 .. Len(texts) |-> cs[n]] /\ Len(texts) \in Nat /\ DOMAIN texts = 1 .. Len(texts)
  BY <1>5
<1>8. Holding(texts) = UNION {T[n] : n \in 1 .. Len(texts)}
  BY <1>7 DEF Holding
<1> HIDE DEF cs, T
<1>9. cs \in Seq(Seq(Seq(Piece))) /\ Len(cs) = Len(texts)
  BY <1>6, <1>7, SequenceIs
<1>10. SplitInto(FlattenSeq(cs), ctx, UNION {T[n] : n \in 1 .. Len(cs)})
  <2>1. \A n \in 1 .. Len(cs) : SplitInto(cs[n], ctx, T[n])
    BY <1>6, <1>9
  <2> QED
    <3>1. \A t : (\A n \in 1 .. Len(cs) : SplitInto(cs[n], ctx, t[n]))
               => SplitInto(FlattenSeq(cs), ctx, UNION {t[n] : n \in 1 .. Len(cs)})
      BY <1>9, SplitIntoJoined
    <3> QED
      BY <2>1, <3>1
<1>11. SplitInto(FlattenSeq(cs), ctx, ToSet(Render(pieces)))
  BY <1>1, <1>5, <1>8, <1>9, <1>10, SplitIntoLess
<1> QED
  BY <1>3, <1>4, <1>11

-----------------------------------------------------------------------------
(* Splitting: the units of an element *)

(* Where units end rises. *)
LEMMA UnitEndsRise ==
  ASSUME ElementsOk, NEW i \in DOMAIN elements,
         NEW k \in 0 .. Len(elements[i].units), NEW m \in k .. Len(elements[i].units)
  PROVE  UnitEnd(i, k) <= UnitEnd(i, m)
<1> DEFINE L == Len(elements[i].units)
    P == {d \in 0 .. (L - k) : UnitEnd(i, k) <= UnitEnd(i, k + d)}
<1>1. L \in Nat /\ k \in Nat /\ L - k \in Nat
  BY ElementIs
<1>2. \A n \in 0 .. L : UnitEnd(i, n) \in Nat
  BY UnitEnds
<1>3. 0 \in P
  <2>1. k + 0 = k /\ 0 \in 0 .. (L - k)
    BY <1>1
  <2> QED
    BY <1>2, <2>1
<1>4. ASSUME NEW d \in 1 .. (L - k), d - 1 \in P PROVE d \in P
  <2>1. k + d \in 1 .. L /\ k + (d - 1) = (k + d) - 1 /\ (k + d) - 1 \in 0 .. L /\ k + d \in 0 .. L
        /\ d \in 0 .. (L - k)
    BY <1>1
  <2>2. UnitEnd(i, (k + d) - 1) <= UnitEnd(i, k + d)
    BY <2>1, OfUnits
  <2>3. UnitEnd(i, k) <= UnitEnd(i, (k + d) - 1)
    BY <1>4, <2>1
  <2>4. UnitEnd(i, k) \in Nat /\ UnitEnd(i, (k + d) - 1) \in Nat /\ UnitEnd(i, k + d) \in Nat
    BY <1>2, <2>1
  <2>5. UnitEnd(i, k) <= UnitEnd(i, k + d)
    BY <2>2, <2>3, <2>4
  <2> QED
    BY <2>1, <2>5
<1>5. \A d \in 0 .. (L - k) : d \in P
  <2> HIDE DEF P
  <2> QED
    BY <1>1, <1>3, <1>4, UpTo
<1>6. m - k \in 0 .. (L - k) /\ k + (m - k) = m
  BY <1>1
<1> QED
  BY <1>5, <1>6

(* The header of an element, with the units from a to b. *)
HeaderTokens(i) == ToSet(Span(i, 0, elements[i].header))

LEMMA FragmentIs ==
  ASSUME ElementsOk, NEW i \in DOMAIN elements, NEW a \in 1 .. Len(elements[i].units),
         NEW b \in a .. Len(elements[i].units)
  PROVE  /\ Fragment(i, a, b) \in Piece /\ Fragment(i, a, b).of = -1
         /\ HeaderTokens(i) \subseteq ToSet(Fragment(i, a, b).toks)
         /\ \A k \in a .. b : UnitTokens(i, k) \subseteq ToSet(Fragment(i, a, b).toks)
<1> DEFINE L == Len(elements[i].units)
    h == Span(i, 0, elements[i].header)
    u == Span(i, UnitEnd(i, a - 1), UnitEnd(i, b))
<1>1. i \in Nat /\ L \in Nat /\ elements[i].header \in Nat
  BY DomainIs, ElementIs
<1>2. a - 1 \in 0 .. L /\ b \in 0 .. L /\ b \in a - 1 .. L
  BY <1>1
<1>3. UnitEnd(i, a - 1) \in Nat /\ UnitEnd(i, b) \in Nat /\ UnitEnd(i, a - 1) <= UnitEnd(i, b)
  BY <1>2, UnitEnds, UnitEndsRise
<1>4. h \in Seq(Tokened)
  <2>1. 0 \in Nat /\ elements[i].header \in Nat /\ 0 <= elements[i].header /\ i \in Nat
    BY <1>1
  <2> QED
    BY <2>1, SpanIs
<1>5. u \in Seq(Tokened) /\ ToSet(u) = {<<i, m>> : m \in UnitEnd(i, a - 1) + 1 .. UnitEnd(i, b)}
  BY <1>1, <1>3, SpanIs
<1>6. Fragment(i, a, b) = [of |-> -1, toks |-> h \o u, raw |-> FALSE]
  BY DEF Fragment
<1>7. ASSUME NEW k \in a .. b PROVE UnitTokens(i, k) \subseteq ToSet(u)
  <2>1. k \in 1 .. L /\ k \in 0 .. L /\ k - 1 \in 0 .. L /\ k - 1 \in a - 1 .. L /\ b \in k .. L
    BY <1>1
  <2>2. UnitEnd(i, a - 1) <= UnitEnd(i, k - 1) /\ UnitEnd(i, k) <= UnitEnd(i, b)
    BY <1>2, <2>1, UnitEndsRise
  <2>3. UnitEnd(i, k - 1) \in Nat /\ UnitEnd(i, k) \in Nat
    BY <2>1, UnitEnds
  <2>4. UnitTokens(i, k) = {<<i, m>> : m \in UnitEnd(i, k - 1) + 1 .. UnitEnd(i, k)}
    BY <2>1, OfUnits
  <2>5. \A m \in UnitEnd(i, k - 1) + 1 .. UnitEnd(i, k) : m \in UnitEnd(i, a - 1) + 1 .. UnitEnd(i, b)
    BY <1>3, <2>2, <2>3
  <2> QED
    BY <1>5, <2>4, <2>5
<1> HIDE DEF h, u
<1>8. h \o u \in Seq(Tokened) /\ ToSet(h \o u) = ToSet(h) \cup ToSet(u)
  BY <1>4, <1>5, JoinedIn, JoinedMembers
<1>9. Fragment(i, a, b) \in Piece /\ Fragment(i, a, b).of = -1 /\ Fragment(i, a, b).toks = h \o u
  BY <1>6, <1>8 DEF Piece
<1>10. HeaderTokens(i) = ToSet(h)
  BY DEF HeaderTokens, h
<1> QED
  BY <1>7, <1>8, <1>9, <1>10

(* What a unit of element i refers to. *)
RefsOf(i, unit) == {i + unit.refs[n][2] - unit.refs[n][1] : n \in DOMAIN unit.refs}

LEMMA TargetsAre ==
  ASSUME NEW i \in Nat, NEW us \in Seq(RenderedUnits)
  PROVE  /\ Targets(i, us) \in Seq(Int)
         /\ ToSet(Targets(i, us)) = UNION {RefsOf(i, us[k]) : k \in 1 .. Len(us)}
<1> DEFINE s == [k \in DOMAIN us |-> [n \in DOMAIN us[k].refs |->
                   i + us[k].refs[n][2] - us[k].refs[n][1]]]
<1>1. Targets(i, us) = FlattenSeq(s)
  BY DEF Targets
<1>2. ASSUME NEW k \in 1 .. Len(us)
      PROVE  s[k] \in Seq(Int) /\ ToSet(s[k]) = RefsOf(i, us[k])
  <2> DEFINE rs == us[k].refs
      t == [n \in DOMAIN rs |-> i + rs[n][2] - rs[n][1]]
  <2>1. us[k] \in RenderedUnits
    OBVIOUS
  <2>2. rs \in Seq(Nat \X Nat)
    BY <2>1 DEF RenderedUnits
  <2>3. s[k] = t
    OBVIOUS
  <2>4. RefsOf(i, us[k]) = {i + rs[n][2] - rs[n][1] : n \in DOMAIN rs}
    BY DEF RefsOf
  <2> HIDE DEF rs
  <2>5. DOMAIN rs = 1 .. Len(rs) /\ Len(rs) \in Nat /\ \A n \in 1 .. Len(rs) : rs[n] \in Nat \X Nat
    BY <2>2
  <2>6. \A n \in 1 .. Len(rs) : t[n] \in Int
    BY <2>5
  <2>7. t = [n \in 1 .. Len(rs) |-> t[n]] /\ ToSet(t) = {t[n] : n \in DOMAIN rs}
    BY <2>5 DEF ToSet
  <2>8. {t[n] : n \in DOMAIN rs} = {i + rs[n][2] - rs[n][1] : n \in DOMAIN rs}
    OBVIOUS
  <2> HIDE DEF t
  <2>9. t \in Seq(Int)
    BY <2>5, <2>6, <2>7, SequenceIs
  <2> HIDE DEF s
  <2> QED
    BY <2>3, <2>4, <2>7, <2>8, <2>9
<1>3. s = [k \in 1 .. Len(us) |-> s[k]] /\ Len(us) \in Nat
  OBVIOUS
<1> HIDE DEF s
<1>4. s \in Seq(Seq(Int)) /\ Len(s) = Len(us)
  BY <1>2, <1>3, SequenceIs
<1>5. FlattenSeq(s) \in Seq(Int)
  BY <1>4, FlattenIn
<1>6. \A x : x \in ToSet(FlattenSeq(s)) <=> \E k \in 1 .. Len(s) : x \in ToSet(s[k])
  BY <1>4, FlattenMembers
<1>7. \A x : x \in ToSet(FlattenSeq(s)) <=> \E k \in 1 .. Len(us) : x \in RefsOf(i, us[k])
  BY <1>2, <1>4, <1>6
<1> QED
  BY <1>1, <1>5, <1>7

(* The equations of the distinct members. *)
DistinctBy(s, f) ==
  /\ f[0] = <<>> /\ f[Len(s)] = Distinct(s)
  /\ \A n \in 1 .. Len(s) : f[n] = (IF s[n] \in ToSet(f[n - 1]) THEN f[n - 1] ELSE Append(f[n - 1], s[n]))

LEMMA DistinctByIs ==
  ASSUME NEW s \in Seq(Int)
  PROVE  \E f \in [0 .. Len(s) -> Seq(Int)] : DistinctBy(s, f)
<1> DEFINE
    L == Len(s)
    X == Seq(Int)
    first == <<>>
    Step(x, n) == (IF s[n] \in ToSet(x) THEN x ELSE Append(x, s[n]))
    T == [w \in X \X (1 .. L) |-> Step(w[1], w[2])]
    Then(g, n) == IF n = 0 THEN <<>> ELSE (IF s[n] \in ToSet(g[n - 1]) THEN g[n - 1]
      ELSE Append(g[n - 1], s[n]))
    Solves(g) == g = [n \in 0 .. L |-> Then(g, n)]
<1>1. L \in Nat /\ <<>> \in X
  OBVIOUS
<1>2. ASSUME NEW x \in X, NEW n \in 1 .. L PROVE Step(x, n) \in X
  <2>1. s[n] \in Int
    OBVIOUS
  <2> QED
    BY <2>1
<1> HIDE DEF L, X
<1>3. StaysIn(T, X, L)
  <2> HIDE DEF Step
  <2> QED
    BY <1>2 DEF StaysIn
<1>4. PICK f \in [0 .. L -> X] : f[0] = first /\ \A n \in 1 .. L : f[n] = T[<<f[n - 1], n>>]
  <2>1. L \in Nat /\ first \in X
    BY <1>1
  <2> HIDE DEF T, first
  <2>2. PICK h \in [0 .. L -> X] : Follows(h, first, T, L)
    BY <1>3, <2>1, IteratedBy
  <2>3. h[0] = first /\ \A n \in 1 .. L : h[n] = T[<<h[n - 1], n>>]
    BY <2>2, Zenon DEF Follows
  <2> QED
    BY <2>3, Zenon
<1>5. ASSUME NEW n \in 1 .. L PROVE f[n] = Step(f[n - 1], n)
  <2>1. f[n - 1] \in X
    BY <1>1
  <2>2. T[<<f[n - 1], n>>] = Step(f[n - 1], n)
    <3> HIDE DEF Step
    <3> QED
      BY <2>1
  <2> HIDE DEF Step, T
  <2> QED
    BY <1>4, <2>2, Zenon
<1>6. Solves(f)
  <2>1. f = [n \in 0 .. L |-> f[n]]
    OBVIOUS
  <2>2. ASSUME NEW n \in 0 .. L PROVE f[n] = Then(f, n)
    <3>1. CASE n = 0
      BY <1>4, <3>1, Zenon
    <3>2. CASE n # 0
      <4>1. n \in 1 .. L
        BY <1>1, <3>2
      <4>2. f[n] = Step(f[n - 1], n)
        BY <1>5, <4>1, Zenon
      <4> QED
        BY <3>2, <4>2, Zenon
    <3> QED
      BY <3>1, <3>2, Zenon
  <2> HIDE DEF Then
  <2> QED
    BY <2>1, <2>2
<1> DEFINE g == CHOOSE g : Solves(g)
<1>7. Solves(g)
  <2> HIDE DEF Solves
  <2> QED
    BY <1>6
<1>8. g[L] = Distinct(s)
  BY DEF Distinct, L
<1> HIDE DEF g
<1>9. /\ g = [n \in 0 .. L |-> g[n]] /\ g[0] = <<>>
      /\ \A n \in 1 .. L : g[n] = Step(g[n - 1], n)
  <2>1. g = [n \in 0 .. L |-> Then(g, n)]
    BY <1>7
  <2>2. \A n \in 0 .. L : g[n] = Then(g, n)
    <3> HIDE DEF Then
    <3> QED
      BY <2>1
  <2>3. \A n \in 1 .. L : n \in 0 .. L /\ n # 0
    BY <1>1
  <2>4. 0 \in 0 .. L
    BY <1>1
  <2>5. g[0] = <<>>
    BY <2>2, <2>4, Zenon
  <2>6. \A n \in 1 .. L : g[n] = Step(g[n - 1], n)
    BY <2>2, <2>3, Zenon
  <2>7. g = [n \in 0 .. L |-> g[n]]
    <3> HIDE DEF Then
    <3> QED
      BY <2>1, <2>2
  <2> QED
    BY <2>5, <2>6, <2>7
<1>10. g \in [0 .. L -> X]
  <2> HIDE DEF Step
  <2> DEFINE P == {n \in 0 .. L : g[n] \in X}
  <2>1. 0 \in P
    BY <1>1, <1>9
  <2>2. ASSUME NEW n \in 1 .. L, n - 1 \in P PROVE n \in P
    <3>1. g[n - 1] \in X /\ n \in 0 .. L
      BY <1>1, <2>2
    <3>2. Step(g[n - 1], n) \in X
      BY <1>2, <3>1
    <3>3. g[n] = Step(g[n - 1], n)
      BY <1>9
    <3> QED
      BY <3>1, <3>2, <3>3
  <2>3. \A n \in 0 .. L : n \in P
    <3> HIDE DEF P
    <3> QED
      BY <1>1, <2>1, <2>2, UpTo
  <2> QED
    BY <1>9, <2>3
<1> HIDE DEF Then, Solves, T
<1>11. DistinctBy(s, g)
  <2>1. \A n \in 1 .. Len(s) : g[n] = (IF s[n] \in ToSet(g[n - 1]) THEN g[n - 1]
          ELSE Append(g[n - 1], s[n]))
    BY <1>9, Zenon DEF L
  <2>2. g[0] = <<>> /\ g[Len(s)] = Distinct(s)
    BY <1>8, <1>9, Zenon DEF L
  <2> QED
    BY <2>1, <2>2, Zenon DEF DistinctBy
<1> QED
  BY <1>10, <1>11, Zenon DEF L, X

LEMMA DistinctHolds ==
  ASSUME NEW s \in Seq(Int)
  PROVE  Distinct(s) \in Seq(Int) /\ ToSet(s) \subseteq ToSet(Distinct(s))
<1> DEFINE L == Len(s)
<1>1. PICK f \in [0 .. Len(s) -> Seq(Int)] : DistinctBy(s, f)
  BY DistinctByIs
<1>2. L \in Nat /\ ToSet(s) = {s[k] : k \in 1 .. L} /\ \A n \in 1 .. L : s[n] \in Int
  BY DEF ToSet
<1> DEFINE P == {n \in 0 .. L : \A k \in 1 .. n : s[k] \in ToSet(f[n])}
<1>3. 0 \in P
  BY <1>2
<1>4. ASSUME NEW n \in 1 .. L, n - 1 \in P PROVE n \in P
  <2>1. f[n - 1] \in Seq(Int) /\ s[n] \in Int /\ n \in 0 .. L
    BY <1>1, <1>2
  <2>2. f[n] = IF s[n] \in ToSet(f[n - 1]) THEN f[n - 1] ELSE Append(f[n - 1], s[n])
    BY <1>1 DEF DistinctBy
  <2>3. ToSet(Append(f[n - 1], s[n])) = ToSet(f[n - 1]) \cup {s[n]}
    BY <2>1, AppendMembers
  <2>4. ToSet(f[n - 1]) \cup {s[n]} \subseteq ToSet(f[n])
    BY <2>2, <2>3
  <2>5. \A k \in 1 .. n : k \in 1 .. n - 1 \/ k = n
    BY <1>2
  <2>6. \A k \in 1 .. n - 1 : s[k] \in ToSet(f[n - 1])
    BY <1>4
  <2>7. \A k \in 1 .. n : s[k] \in ToSet(f[n])
    BY <2>4, <2>5, <2>6
  <2> QED
    BY <2>1, <2>7
<1>5. \A n \in 0 .. L : n \in P
  <2> HIDE DEF P
  <2> QED
    BY <1>2, <1>3, <1>4, UpTo
<1>6. L \in 0 .. L
  BY <1>2
<1>7. f[L] = Distinct(s) /\ f[L] \in Seq(Int)
  BY <1>1, <1>6 DEF DistinctBy
<1>8. \A k \in 1 .. L : s[k] \in ToSet(f[L])
  BY <1>5, <1>6
<1> QED
  BY <1>2, <1>7, <1>8

(* A root with what it refers to, none of which is a heading. *)
GroupOk(group) ==
  /\ group.root \in DOMAIN elements /\ group.all \in Seq(DOMAIN elements)
  /\ group.all # <<>> /\ group.all[1] = group.root
  /\ ToSet(group.all) = {group.root} \cup ToSet(Tail(group.all))
  /\ ToSet(Tail(group.all)) \cap Headings = {}

LEMMA ExtraIs ==
  ASSUME ElementsOk, NEW group, GroupOk(group),
         NEW a \in 1 .. Len(elements[group.root].units), NEW b \in a .. Len(elements[group.root].units)
  PROVE  /\ Extra(group, a, b) \in Seq(DOMAIN elements)
         /\ \A k \in a .. b :
              RefsOf(group.root, elements[group.root].units[k]) \cap ToSet(Tail(group.all))
                                \subseteq ToSet(Extra(group, a, b))
         /\ ToSet(Extra(group, a, b)) \subseteq ToSet(Tail(group.all))
<1> DEFINE i == group.root
    us == SubSeq(elements[i].units, a, b)
    S == ToSet(Tail(group.all))
    d == Distinct(Targets(i, us))
    e == Among(d, S)
<1>1. i \in DOMAIN elements /\ i \in Nat /\ elements[i].units \in Seq(RenderedUnits)
      /\ Len(elements[i].units) \in Nat
  BY ElementIs, DomainIs DEF GroupOk
<1>2. /\ us \in Seq(RenderedUnits) /\ Len(us) = b - a + 1
      /\ \A k \in a .. b : k - a + 1 \in 1 .. Len(us) /\ us[k - a + 1] = elements[i].units[k]
  <2> DEFINE vs == elements[i].units
  <2>1. vs \in Seq(RenderedUnits) /\ Len(vs) \in Nat
    BY <1>1
  <2> HIDE DEF vs
  <2>2. SubSeq(vs, a, b) \in Seq(RenderedUnits) /\ Len(SubSeq(vs, a, b)) = b - a + 1
        /\ \A k \in a .. b : k - a + 1 \in 1 .. Len(SubSeq(vs, a, b))
                               /\ SubSeq(vs, a, b)[k - a + 1] = vs[k]
    BY <2>1 DEF vs
  <2> QED
    BY <2>2 DEF vs
<1>3. Extra(group, a, b) = e
  BY DEF Extra
<1> HIDE DEF us
<1>4. /\ Targets(i, us) \in Seq(Int)
      /\ ToSet(Targets(i, us)) = UNION {RefsOf(i, us[k]) : k \in 1 .. Len(us)}
  BY <1>1, <1>2, TargetsAre
<1>5. d \in Seq(Int) /\ ToSet(Targets(i, us)) \subseteq ToSet(d)
  BY <1>4, DistinctHolds
<1> HIDE DEF d, S
<1>6. e \in Seq(Int) /\ ToSet(e) = ToSet(d) \cap S
  BY <1>5, AmongIn, AmongMembers
<1> HIDE DEF e
<1>7. S \subseteq DOMAIN elements
  <2>1. S \subseteq ToSet(group.all) /\ group.all \in Seq(DOMAIN elements)
    BY DEF GroupOk, S
  <2> QED
    BY <2>1 DEF ToSet
<1>8. e \in Seq(DOMAIN elements)
  <2>1. e = [n \in 1 .. Len(e) |-> e[n]] /\ Len(e) \in Nat /\ DOMAIN e = 1 .. Len(e)
    BY <1>6
  <2>2. \A n \in 1 .. Len(e) : e[n] \in DOMAIN elements
    BY <1>6, <1>7, <2>1 DEF ToSet
  <2> QED
    BY <2>1, <2>2, SequenceIs
<1>9. ASSUME NEW k \in a .. b PROVE RefsOf(i, elements[i].units[k]) \subseteq ToSet(Targets(i, us))
  BY <1>2, <1>4
<1> QED
  BY <1>3, <1>5, <1>6, <1>8, <1>9 DEF S

(* What a fragment has to hold of a unit: the header, the unit, and what it  *)
(* refers to.                                                                *)
UnitOwes(group, k) ==
  HeaderTokens(group.root) \cup UnitTokens(group.root, k)
    \cup ElementTokens(RefsOf(group.root, elements[group.root].units[k]) \cap ToSet(Tail(group.all)))

UnitsOwe(group, a, b) == UNION {UnitOwes(group, k) : k \in a .. b}

LEMMA ContentIs ==
  ASSUME ElementsOk, NEW group, GroupOk(group),
         NEW a \in 1 .. Len(elements[group.root].units), NEW b \in a .. Len(elements[group.root].units)
  PROVE  /\ Content(group, a, b) \in Seq(Piece)
         /\ UnitsOwe(group, a, b) \subseteq ToSet(Render(Content(group, a, b)))
         /\ \A p \in ToSet(Content(group, a, b)) : p.of \notin Headings
<1> DEFINE i == group.root
    p == Fragment(i, a, b)
    e == Extra(group, a, b)
<1>1. i \in DOMAIN elements
  BY DEF GroupOk
<1>2. /\ p \in Piece /\ p.of = -1 /\ HeaderTokens(i) \subseteq ToSet(p.toks)
      /\ \A k \in a .. b : UnitTokens(i, k) \subseteq ToSet(p.toks)
  BY <1>1, FragmentIs
<1>3. /\ e \in Seq(DOMAIN elements) /\ ToSet(e) \subseteq ToSet(Tail(group.all))
      /\ \A k \in a .. b : RefsOf(i, elements[i].units[k]) \cap ToSet(Tail(group.all)) \subseteq ToSet(e)
  BY ExtraIs
<1>4. Content(group, a, b) = <<p>> \o Pieces(e)
  BY DEF Content
<1> HIDE DEF p, e
<1>5. Pieces(e) \in Seq(Piece) /\ ToSet(Render(Pieces(e))) = ElementTokens(ToSet(e))
      /\ Len(Pieces(e)) = Len(e) /\ \A n \in 1 .. Len(e) : Pieces(e)[n] = Whole(e[n])
  BY <1>3, PiecesAre, PiecesShow
<1>6. <<p>> \in Seq(Piece) /\ Len(<<p>>) = 1 /\ <<p>>[1] = p /\ ToSet(<<p>>) = {p}
  BY <1>2 DEF ToSet
<1>7. /\ <<p>> \o Pieces(e) \in Seq(Piece)
      /\ ToSet(Render(<<p>> \o Pieces(e))) = ToSet(Render(<<p>>)) \cup ToSet(Render(Pieces(e)))
      /\ ToSet(<<p>> \o Pieces(e)) = {p} \cup ToSet(Pieces(e))
  <2> DEFINE ps == Pieces(e)
      one == <<p>>
  <2>1. ps \in Seq(Piece) /\ one \in Seq(Piece)
    BY <1>5, <1>6
  <2> HIDE DEF ps, one
  <2>2. /\ one \o ps \in Seq(Piece)
        /\ ToSet(Render(one \o ps)) = ToSet(Render(one)) \cup ToSet(Render(ps))
    BY <2>1, RenderJoined
  <2>3. ToSet(one \o ps) = ToSet(one) \cup ToSet(ps)
    BY <2>1, JoinedMembers
  <2> QED
    BY <1>6, <2>2, <2>3, Zenon DEF one, ps
<1>8. ToSet(p.toks) \subseteq ToSet(Render(<<p>>))
  <2>1. 1 \in 1 .. Len(<<p>>)
    BY <1>6
  <2>2. ToSet(<<p>>[1].toks) \subseteq ToSet(Render(<<p>>))
    BY <1>6, <2>1, RenderMembers
  <2> QED
    BY <1>6, <2>2
<1>9. ASSUME NEW k \in a .. b PROVE UnitOwes(group, k) \subseteq ToSet(Render(<<p>> \o Pieces(e)))
  <2>1. ElementTokens(RefsOf(i, elements[i].units[k]) \cap ToSet(Tail(group.all)))
          \subseteq ElementTokens(ToSet(e))
    BY <1>3 DEF ElementTokens
  <2> QED
    BY <1>2, <1>5, <1>7, <1>8, <2>1 DEF UnitOwes
<1>10. ASSUME NEW q \in ToSet(Pieces(e)) PROVE q.of \notin Headings
  <2>1. PICK n \in 1 .. Len(e) : q = Whole(e[n])
    BY <1>5 DEF ToSet
  <2>2. e[n] \in DOMAIN elements /\ e[n] \in ToSet(e)
    BY <1>3 DEF ToSet
  <2>3. q.of = e[n]
    BY <2>1, <2>2, WholeIs
  <2> QED
    BY <1>3, <2>2, <2>3 DEF GroupOk
<1>11. -1 \notin Headings
  BY DomainIs DEF Headings
<1> QED
  BY <1>2, <1>4, <1>7, <1>9, <1>10, <1>11 DEF UnitsOwe

-----------------------------------------------------------------------------
(* Splitting: fragments *)

LEMMA SplitIntoTwo ==
  ASSUME NEW a, NEW b, NEW ctx, NEW A, NEW B, SplitInto(a, ctx, A), SplitInto(b, ctx, B)
  PROVE  SplitInto(a \o b, ctx, A \cup B)
<1> DEFINE c == a \o b
<1>1. a \in Seq(Seq(Piece)) /\ b \in Seq(Seq(Piece))
  BY DEF SplitInto
<1>2. c \in Seq(Seq(Piece)) /\ ToSet(c) = ToSet(a) \cup ToSet(b)
  BY <1>1, JoinedIn, JoinedMembers
<1> HIDE DEF c
<1>3. \A chunk \in ToSet(c) : ElementTokens(ToSet(ctx)) \subseteq ToSet(Render(chunk))
  <2>1. ASSUME NEW chunk \in ToSet(a) PROVE ElementTokens(ToSet(ctx)) \subseteq ToSet(Render(chunk))
    <3>1. PICK n \in DOMAIN a : chunk = a[n]
      BY DEF ToSet
    <3> QED
      BY <3>1 DEF SplitInto
  <2>2. ASSUME NEW chunk \in ToSet(b) PROVE ElementTokens(ToSet(ctx)) \subseteq ToSet(Render(chunk))
    <3>1. PICK n \in DOMAIN b : chunk = b[n]
      BY DEF ToSet
    <3> QED
      BY <3>1 DEF SplitInto
  <2> QED
    BY <1>2, <2>1, <2>2
<1>4. ASSUME NEW x \in A \cup B PROVE x \in ShownBy(c)
  <2>1. PICK chunk \in ToSet(c) : x \in ToSet(Render(chunk))
    <3>1. CASE x \in A
      <4>1. PICK n \in DOMAIN a : x \in ToSet(Render(a[n]))
        BY <3>1 DEF SplitInto, ShownBy
      <4>2. a[n] \in ToSet(a)
        BY DEF ToSet
      <4> QED
        BY <1>2, <4>1, <4>2
    <3>2. CASE x \in B
      <4>1. PICK n \in DOMAIN b : x \in ToSet(Render(b[n]))
        BY <3>2 DEF SplitInto, ShownBy
      <4>2. b[n] \in ToSet(b)
        BY DEF ToSet
      <4> QED
        BY <1>2, <4>1, <4>2
    <3> QED
      BY <3>1, <3>2
  <2> QED
    BY <2>1 DEF ShownBy, ToSet
<1>5. \A n \in DOMAIN c : c[n] \in ToSet(c)
  BY DEF ToSet
<1> QED
  BY <1>2, <1>3, <1>4, <1>5 DEF SplitInto, c

(* A rendering with the pieces of another one shows what that one shows. *)
LEMMA MorePiecesShowMore ==
  ASSUME NEW ps \in Seq(Piece), NEW qs \in Seq(Piece), ToSet(ps) \subseteq ToSet(qs)
  PROVE  ToSet(Render(ps)) \subseteq ToSet(Render(qs))
<1> SUFFICES ASSUME NEW x \in ToSet(Render(ps)) PROVE x \in ToSet(Render(qs))
  OBVIOUS
<1>1. PICK n \in 1 .. Len(ps) : x \in ToSet(RenderOf[ps[n]])
  BY RenderMembers
<1>2. ps[n] \in ToSet(qs)
  <2>1. n \in DOMAIN ps
    OBVIOUS
  <2>2. ps[n] \in ToSet(ps)
    BY <2>1 DEF ToSet
  <2> QED
    BY <2>2
<1>3. PICK m \in 1 .. Len(qs) : qs[m] = ps[n]
  BY <1>2 DEF ToSet
<1> QED
  BY <1>1, <1>3, RenderMembers

(* Content that has no heading is sliced under the headings of its context. *)
LEMMA SlicedHolds ==
  ASSUME ElementsOk, NEW ctx \in Seq(DOMAIN elements), ToSet(ctx) \subseteq Headings,
         NEW content \in Seq(Piece), \A p \in ToSet(content) : p.of \notin Headings,
         NEW overlap \in Nat, Budget - Overhead(ctx) \in Nat \ {0}
  PROVE  SplitInto(TokenSlice(ctx, Pieces(ctx) \o content, overlap), ctx, ToSet(Render(content)))
<1> DEFINE full == Pieces(ctx) \o content
<1>1. full \in Seq(Piece) /\ ToSet(full) = ToSet(Pieces(ctx)) \cup ToSet(content)
  <2>1. Pieces(ctx) \in Seq(Piece)
    BY PiecesAre
  <2> QED
    BY <2>1, JoinedIn, JoinedMembers
<1> HIDE DEF full
<1>2. PICK rest \in Seq(Piece) :
        /\ ToSet(rest) = {p \in ToSet(full) : p.of \notin ToSet(ctx)}
        /\ SplitInto(TokenSlice(ctx, full, overlap), ctx, ToSet(Render(rest)))
  BY <1>1, TokenSliceHolds
<1>3. ToSet(content) \subseteq ToSet(rest)
  BY <1>1, <1>2
<1>4. ToSet(Render(content)) \subseteq ToSet(Render(rest))
  BY <1>3, MorePiecesShowMore
<1> QED
  BY <1>2, <1>4, SplitIntoLess DEF full

(* The headings of a context that leaves room. *)
ContextOk(ctx) ==
  /\ ctx \in Seq(DOMAIN elements) /\ ToSet(ctx) \subseteq Headings
  /\ Budget - Overhead(ctx) \in Nat \ {0}

LEMMA WindowIs ==
  ASSUME ElementsOk, NEW i \in DOMAIN elements, NEW w \in UnitWindows(i)
  PROVE  /\ w[1] \in 1 .. Len(elements[i].units) /\ w[2] \in w[1] .. Len(elements[i].units)
         /\ w = <<w[1], w[2]>> /\ w[2] - w[1] \in Nat
<1>1. DOMAIN elements[i].units = 1 .. Len(elements[i].units) /\ Len(elements[i].units) \in Nat
  BY ElementIs
<1> QED
  BY <1>1 DEF UnitWindows

LEMMA WindowIn ==
  ASSUME ElementsOk, NEW i \in DOMAIN elements, NEW a \in 1 .. Len(elements[i].units),
         NEW b \in a .. Len(elements[i].units)
  PROVE  <<a, b>> \in UnitWindows(i)
<1>1. DOMAIN elements[i].units = 1 .. Len(elements[i].units) /\ Len(elements[i].units) \in Nat
  BY ElementIs
<1>2. a \in DOMAIN elements[i].units /\ b \in DOMAIN elements[i].units /\ a <= b
  BY <1>1
<1> QED
  BY <1>2 DEF UnitWindows

(* A window that is cut is cut into two smaller ones. *)
LEMMA HalvedIs ==
  ASSUME ElementsOk, NEW group, GroupOk(group), NEW ctx, ContextOk(ctx),
         NEW inner \in [UnitWindows(group.root) -> Seq(Seq(Piece))], NEW w \in UnitWindows(group.root)
  PROVE  /\ Halved(group, ctx, inner, w) \in Seq(Seq(Piece))
         /\ (\A v \in UnitWindows(group.root) :
               v[2] - v[1] < w[2] - w[1] => SplitInto(inner[v], ctx, UnitsOwe(group, v[1], v[2])))
            => SplitInto(Halved(group, ctx, inner, w), ctx, UnitsOwe(group, w[1], w[2]))
<1> DEFINE i == group.root
    L == Len(elements[i].units)
    a == w[1]
    b == w[2]
    content == Content(group, a, b)
    chunk == Pieces(ctx) \o content
    mid == (a - 1 + b) \div 2
    owed == UnitsOwe(group, a, b)
    sentences == SplitAtSentences(content, ctx)
    slices == TokenSlice(ctx, chunk, Overlap)
<1>1. i \in DOMAIN elements /\ L \in Nat
  BY ElementIs DEF GroupOk
<1>2. a \in 1 .. L /\ b \in a .. L
  BY <1>1, WindowIs
<1>3. /\ content \in Seq(Piece) /\ owed \subseteq ToSet(Render(content))
      /\ \A p \in ToSet(content) : p.of \notin Headings
  BY <1>2, ContentIs
<1>4. ctx \in Seq(DOMAIN elements) /\ ToSet(ctx) \subseteq Headings
      /\ Budget - Overhead(ctx) \in Nat \ {0} /\ Overlap \in Nat
  BY SplitConstants DEF ContextOk
<1>5. Halved(group, ctx, inner, w)
        = IF Titled(chunk) <= Budget THEN <<chunk>>
          ELSE IF b > a THEN inner[<<a, mid>>] \o inner[<<mid + 1, b>>]
          ELSE Else(sentences, slices)
  BY DEF Halved
<1> HIDE DEF content
<1>6. SplitInto(<<chunk>>, ctx, owed)
  <2>1. Pieces(ctx) \in Seq(Piece) /\ ToSet(Render(Pieces(ctx))) = ElementTokens(ToSet(ctx))
    BY <1>4, PiecesAre, PiecesShow
  <2>2. chunk \in Seq(Piece)
        /\ ToSet(Render(chunk)) = ToSet(Render(Pieces(ctx))) \cup ToSet(Render(content))
    BY <1>3, <2>1, RenderJoined
  <2> HIDE DEF chunk, owed
  <2> QED
    BY <1>3, <2>1, <2>2, SplitIntoOne
<1>7. SplitInto(Else(sentences, slices), ctx, owed)
  <2>1. sentences = <<>> \/ SplitInto(sentences, ctx, ToSet(Render(content)))
    BY <1>3, <1>4, SplitAtSentencesHolds
  <2>2. SplitInto(slices, ctx, ToSet(Render(content)))
    BY <1>3, <1>4, SlicedHolds
  <2> HIDE DEF sentences, slices
  <2>3. SplitInto(Else(sentences, slices), ctx, ToSet(Render(content)))
    BY <2>1, <2>2 DEF Else
  <2> HIDE DEF owed
  <2> QED
    BY <1>3, <2>3, SplitIntoLess
<1>8. CASE b > a
  <2>1. /\ mid \in a .. b - 1 /\ mid \in 1 .. L /\ mid \in a .. L /\ mid + 1 \in 1 .. L
        /\ b \in mid + 1 .. L /\ mid - a < b - a /\ b - (mid + 1) < b - a
    <3>1. a \in Int /\ b \in Int /\ L \in Int /\ 1 <= a /\ a < b /\ b <= L
      BY <1>1, <1>2, <1>8
    <3> HIDE DEF L, a, b
    <3>2. mid \in Int /\ a <= mid /\ mid < b
      BY <3>1
    <3> HIDE DEF mid
    <3> QED
      BY <3>1, <3>2
  <2> DEFINE v == <<a, mid>>
      u == <<mid + 1, b>>
  <2>2. v \in UnitWindows(i) /\ u \in UnitWindows(i)
    BY <1>1, <1>2, <2>1, WindowIn
  <2>3. v[1] = a /\ v[2] = mid /\ u[1] = mid + 1 /\ u[2] = b
    OBVIOUS
  <2>4. inner[v] \in Seq(Seq(Piece)) /\ inner[u] \in Seq(Seq(Piece))
    BY <2>2
  <2>5. inner[v] \o inner[u] \in Seq(Seq(Piece))
    BY <2>4, JoinedIn
  <2>6. owed = UnitsOwe(group, a, mid) \cup UnitsOwe(group, mid + 1, b)
    <3>1. \A k : k \in a .. b <=> k \in a .. mid \/ k \in mid + 1 .. b
      <4>1. a \in Int /\ b \in Int /\ mid \in Int /\ a <= mid /\ mid < b
        BY <1>2, <2>1
      <4> HIDE DEF a, b, mid
      <4> QED
        BY <4>1
    <3> QED
      BY <3>1 DEF UnitsOwe
  <2>7. ASSUME \A x \in UnitWindows(group.root) :
                 x[2] - x[1] < w[2] - w[1] => SplitInto(inner[x], ctx, UnitsOwe(group, x[1], x[2]))
        PROVE  SplitInto(inner[v] \o inner[u], ctx, owed)
    <3>1. v[2] - v[1] < w[2] - w[1] /\ u[2] - u[1] < w[2] - w[1]
      BY <2>1, <2>3
    <3>2. SplitInto(inner[v], ctx, UnitsOwe(group, v[1], v[2]))
          /\ SplitInto(inner[u], ctx, UnitsOwe(group, u[1], u[2]))
      <4> HIDE DEF v, u
      <4> QED
        BY <2>2, <2>7, <3>1
    <3>3. SplitInto(inner[v], ctx, UnitsOwe(group, a, mid))
          /\ SplitInto(inner[u], ctx, UnitsOwe(group, mid + 1, b))
      BY <2>3, <3>2, Zenon
    <3> HIDE DEF v, u, owed, mid
    <3> QED
      BY <2>6, <3>3, SplitIntoTwo
  <2>8. <<chunk>> \in Seq(Seq(Piece))
    BY <1>6, Zenon DEF SplitInto
  <2> HIDE DEF v, u, owed, chunk, sentences, slices
  <2>9. Halved(group, ctx, inner, w) \in {<<chunk>>, inner[v] \o inner[u]}
    BY <1>5, <1>8 DEF v, u
  <2> QED
    BY <1>6, <2>5, <2>7, <2>8, <2>9 DEF owed
<1>9. CASE ~(b > a)
  <2>1. Halved(group, ctx, inner, w) \in {<<chunk>>, Else(sentences, slices)}
    BY <1>5, <1>9
  <2> HIDE DEF owed, chunk, sentences, slices
  <2>2. SplitInto(Halved(group, ctx, inner, w), ctx, owed)
    BY <1>6, <1>7, <2>1
  <2> QED
    BY <2>2 DEF SplitInto, owed
<1> QED
  BY <1>8, <1>9

(* The equations of the halved windows. *)
EmitBy(group, ctx, f) ==
  /\ f[0] = [w \in UnitWindows(group.root) |-> <<>>]
       /\ \A a, b : Emit(group, ctx, a, b) = f[Len(elements[group.root].units)][<<a, b>>]
  /\ \A n \in 1 .. Len(elements[group.root].units) :
       f[n] = [w \in UnitWindows(group.root) |-> Halved(group, ctx, f[n - 1], w)]

LEMMA EmitByIs ==
  ASSUME ElementsOk, NEW group, GroupOk(group), NEW ctx, ContextOk(ctx)
  PROVE  \E f \in [0 .. Len(elements[group.root].units) -> [UnitWindows(group.root) -> Seq(Seq(Piece))]] :
           EmitBy(group, ctx, f)
<1> DEFINE
    L == Len(elements[group.root].units)
    X == [UnitWindows(group.root) -> Seq(Seq(Piece))]
    first == [w \in UnitWindows(group.root) |-> <<>>]
    Step(x, n) == [w \in UnitWindows(group.root) |-> Halved(group, ctx, x, w)]
    T == [w \in X \X (1 .. L) |-> Step(w[1], w[2])]
    Then(g, n) == IF n = 0 THEN [w \in UnitWindows(group.root) |-> <<>>]
      ELSE [w \in UnitWindows(group.root) |-> Halved(group, ctx, g[n - 1], w)]
    Solves(g) == g = [n \in 0 .. L |-> Then(g, n)]
<1>1. L \in Nat /\ [w \in UnitWindows(group.root) |-> <<>>] \in X
  BY ElementIs DEF GroupOk
<1>2. ASSUME NEW x \in X, NEW n \in 1 .. L PROVE Step(x, n) \in X
  BY HalvedIs
<1> HIDE DEF L, X
<1>3. StaysIn(T, X, L)
  <2> HIDE DEF Step
  <2> QED
    BY <1>2 DEF StaysIn
<1>4. PICK f \in [0 .. L -> X] : f[0] = first /\ \A n \in 1 .. L : f[n] = T[<<f[n - 1], n>>]
  <2>1. L \in Nat /\ first \in X
    BY <1>1
  <2> HIDE DEF T, first
  <2>2. PICK h \in [0 .. L -> X] : Follows(h, first, T, L)
    BY <1>3, <2>1, IteratedBy
  <2>3. h[0] = first /\ \A n \in 1 .. L : h[n] = T[<<h[n - 1], n>>]
    BY <2>2, Zenon DEF Follows
  <2> QED
    BY <2>3, Zenon
<1>5. ASSUME NEW n \in 1 .. L PROVE f[n] = Step(f[n - 1], n)
  <2>1. f[n - 1] \in X
    BY <1>1
  <2>2. T[<<f[n - 1], n>>] = Step(f[n - 1], n)
    <3> HIDE DEF Step
    <3> QED
      BY <2>1
  <2> HIDE DEF Step, T
  <2> QED
    BY <1>4, <2>2, Zenon
<1>6. Solves(f)
  <2>1. f = [n \in 0 .. L |-> f[n]]
    OBVIOUS
  <2>2. ASSUME NEW n \in 0 .. L PROVE f[n] = Then(f, n)
    <3>1. CASE n = 0
      BY <1>4, <3>1, Zenon
    <3>2. CASE n # 0
      <4>1. n \in 1 .. L
        BY <1>1, <3>2
      <4>2. f[n] = Step(f[n - 1], n)
        BY <1>5, <4>1, Zenon
      <4> QED
        BY <3>2, <4>2, Zenon
    <3> QED
      BY <3>1, <3>2, Zenon
  <2> HIDE DEF Then
  <2> QED
    BY <2>1, <2>2
<1> DEFINE g == CHOOSE g : Solves(g)
<1>7. Solves(g)
  <2> HIDE DEF Solves
  <2> QED
    BY <1>6
<1>8. \A a, b : Emit(group, ctx, a, b) = g[L][<<a, b>>]
  BY DEF Emit, L
<1> HIDE DEF g
<1>9. /\ g = [n \in 0 .. L |-> g[n]] /\ g[0] = [w \in UnitWindows(group.root) |-> <<>>]
      /\ \A n \in 1 .. L : g[n] = Step(g[n - 1], n)
  <2>1. g = [n \in 0 .. L |-> Then(g, n)]
    BY <1>7
  <2>2. \A n \in 0 .. L : g[n] = Then(g, n)
    <3> HIDE DEF Then
    <3> QED
      BY <2>1
  <2>3. \A n \in 1 .. L : n \in 0 .. L /\ n # 0
    BY <1>1
  <2>4. 0 \in 0 .. L
    BY <1>1
  <2>5. g[0] = [w \in UnitWindows(group.root) |-> <<>>]
    BY <2>2, <2>4, Zenon
  <2>6. \A n \in 1 .. L : g[n] = Step(g[n - 1], n)
    BY <2>2, <2>3, Zenon
  <2>7. g = [n \in 0 .. L |-> g[n]]
    <3> HIDE DEF Then
    <3> QED
      BY <2>1, <2>2
  <2> QED
    BY <2>5, <2>6, <2>7
<1>10. g \in [0 .. L -> X]
  <2> HIDE DEF Step
  <2> DEFINE P == {n \in 0 .. L : g[n] \in X}
  <2>1. 0 \in P
    BY <1>1, <1>9
  <2>2. ASSUME NEW n \in 1 .. L, n - 1 \in P PROVE n \in P
    <3>1. g[n - 1] \in X /\ n \in 0 .. L
      BY <1>1, <2>2
    <3>2. Step(g[n - 1], n) \in X
      BY <1>2, <3>1
    <3>3. g[n] = Step(g[n - 1], n)
      BY <1>9
    <3> QED
      BY <3>1, <3>2, <3>3
  <2>3. \A n \in 0 .. L : n \in P
    <3> HIDE DEF P
    <3> QED
      BY <1>1, <2>1, <2>2, UpTo
  <2> QED
    BY <1>9, <2>3
<1> HIDE DEF Then, Solves, T
<1>11. EmitBy(group, ctx, g)
  <2>1. \A n \in 1 .. Len(elements[group.root].units) :
          g[n] = [w \in UnitWindows(group.root) |-> Halved(group, ctx, g[n - 1], w)]
    BY <1>9, Zenon DEF L
  <2>2. g[0] = [w \in UnitWindows(group.root) |-> <<>>]
          /\ \A a, b : Emit(group, ctx, a, b) = g[Len(elements[group.root].units)][<<a, b>>]
    BY <1>8, <1>9, Zenon DEF L
  <2> QED
    BY <2>1, <2>2, Zenon DEF EmitBy
<1> QED
  BY <1>10, <1>11, Zenon DEF L, X

(* The chunks that units a .. b are cut into hold all they have to. *)
LEMMA EmitHolds ==
  ASSUME ElementsOk, NEW group, GroupOk(group), NEW ctx, ContextOk(ctx),
         NEW a \in 1 .. Len(elements[group.root].units), NEW b \in a .. Len(elements[group.root].units)
  PROVE  SplitInto(Emit(group, ctx, a, b), ctx, UnitsOwe(group, a, b))
<1> DEFINE i == group.root
    L == Len(elements[group.root].units)
    W == UnitWindows(i)
    Holds(chunks, w) == SplitInto(chunks[w], ctx, UnitsOwe(group, w[1], w[2]))
<1>1. PICK f \in [0 .. Len(elements[group.root].units) -> [UnitWindows(group.root) -> Seq(Seq(Piece))]] :
        EmitBy(group, ctx, f)
  BY EmitByIs
<1>2. i \in DOMAIN elements /\ L \in Nat
  BY ElementIs DEF GroupOk
<1> DEFINE P == {n \in 0 .. L : \A w \in W : w[2] - w[1] < n => Holds(f[n], w)}
<1>3. \A w \in W : w[2] - w[1] \in Nat /\ w[2] - w[1] < L
  <2> SUFFICES ASSUME NEW w \in W PROVE w[2] - w[1] \in Nat /\ w[2] - w[1] < L
    OBVIOUS
  <2>1. w[1] \in 1 .. L /\ w[2] \in w[1] .. L
    BY <1>2, WindowIs
  <2> HIDE DEF L
  <2> QED
    BY <1>2, <2>1
<1> HIDE DEF W
<1>4. 0 \in P
  <2>1. \A w \in W : ~(w[2] - w[1] < 0)
    BY <1>3
  <2>2. 0 \in 0 .. L
    BY <1>2
  <2> HIDE DEF Holds, L
  <2> QED
    BY <2>1, <2>2
<1>5. ASSUME NEW n \in 1 .. L, n - 1 \in P PROVE n \in P
  <2>1. n \in 0 .. L /\ n - 1 \in 0 .. L /\ n \in Int
    BY <1>2
  <2>2. f[n - 1] \in [W -> Seq(Seq(Piece))]
    BY <1>1, <2>1 DEF W
  <2>3. f[n] = [w \in W |-> Halved(group, ctx, f[n - 1], w)]
    BY <1>1 DEF EmitBy, W
  <2>4. ASSUME NEW w \in W, w[2] - w[1] < n PROVE Holds(f[n], w)
    <3>1. \A v \in W : v[2] - v[1] < w[2] - w[1] => Holds(f[n - 1], v)
      <4>1. \A v \in W : v[2] - v[1] < w[2] - w[1] => v[2] - v[1] < n - 1
        BY <1>3, <2>1, <2>4
      <4>2. \A v \in W : v[2] - v[1] < n - 1 => Holds(f[n - 1], v)
        BY <1>5
      <4> HIDE DEF Holds
      <4> QED
        BY <4>1, <4>2
    <3>2. SplitInto(Halved(group, ctx, f[n - 1], w), ctx, UnitsOwe(group, w[1], w[2]))
      BY <2>2, <3>1, HalvedIs DEF W
    <3>3. f[n][w] = Halved(group, ctx, f[n - 1], w)
      BY <2>3
    <3> QED
      BY <3>2, <3>3
  <2> HIDE DEF Holds
  <2> QED
    BY <2>1, <2>4
<1>6. \A n \in 0 .. L : n \in P
  <2> HIDE DEF P
  <2> QED
    BY <1>2, <1>4, <1>5, UpTo
<1>7. L \in 0 .. L
  BY <1>2
<1> DEFINE w == <<a, b>>
<1>8. w \in W /\ w[1] = a /\ w[2] = b
  BY <1>2, WindowIn DEF W
<1>9. Holds(f[L], w)
  <2> HIDE DEF Holds, L, w
  <2>1. w[2] - w[1] < L
    BY <1>3, <1>8
  <2> QED
    BY <1>6, <1>7, <1>8, <2>1
<1>10. Emit(group, ctx, a, b) = f[L][w]
  BY <1>1 DEF EmitBy
<1> QED
  BY <1>8, <1>9, <1>10, Zenon

-----------------------------------------------------------------------------
(* Splitting: runs of units *)

LEMMA EstimateIs ==
  ASSUME ElementsOk, NEW i \in DOMAIN elements, NEW n \in Nat
  PROVE  Estimate(i, n) \in Int
<1> DEFINE raws == [k \in DOMAIN elements[i].units |-> elements[i].units[k].raw]
    d == MaxOf(1, Raw(i))
    size == n * Size(i)
<1>1. DOMAIN elements[i].units = 1 .. Len(elements[i].units) /\ Len(elements[i].units) \in Nat
      /\ elements[i].header \in Nat
           /\ \A k \in 1 .. Len(elements[i].units) : elements[i].units[k].raw \in Nat
  BY ElementIs
<1>2. raws \in Seq(Nat)
  <2>1. raws = [k \in 1 .. Len(elements[i].units) |-> raws[k]]
        /\ \A k \in 1 .. Len(elements[i].units) : raws[k] \in Nat
    BY <1>1
  <2> HIDE DEF raws
  <2> QED
    BY <1>1, <2>1, SequenceIs
<1>3. SumOf(raws) \in Nat
  BY <1>2, SumOfAll
<1>4. Raw(i) \in Nat
  BY <1>1, <1>3 DEF Raw
<1>5. d \in Nat \ {0}
  BY <1>4 DEF MaxOf
<1>6. size \in Int
  <2>1. Size(i) \in Nat
    BY UnitEnds
  <2> QED
    BY <2>1
<1>7. Estimate(i, n) = (size + d - 1) \div d
  BY DEF Estimate, CeilDiv
<1> HIDE DEF size, d
<1> QED
  BY <1>5, <1>6, <1>7

PackStates == [runs : Seq(Nat \X Nat), used : Int]

(* The runs so far are windows on the first k units, and hold each of them. *)
RunsTo(windows, k) ==
  /\ \A n \in DOMAIN windows : windows[n][1] \in 1 .. k /\ windows[n][2] \in windows[n][1] .. k
  /\ \A j \in 1 .. k : \E n \in DOMAIN windows : j \in windows[n][1] .. windows[n][2]

LEMMA AddUnitIs ==
  ASSUME ElementsOk, NEW i \in DOMAIN elements, NEW room, NEW st \in PackStates,
         NEW k \in 1 .. Len(elements[i].units)
  PROVE  /\ AddUnit(i, room, st, k) \in PackStates
         /\ RunsTo(st.runs, k - 1) => RunsTo(AddUnit(i, room, st, k).runs, k)
<1> DEFINE m == Estimate(i, elements[i].units[k].raw)
    next == AddUnit(i, room, st, k)
<1>1. m \in Int
  <2>1. elements[i].units[k].raw \in Nat
    BY ElementIs
  <2> QED
    BY <2>1, EstimateIs
<1>2. k \in Nat \ {0}
  BY ElementIs
<1>3. st.runs \in Seq(Nat \X Nat) /\ st.used \in Int
  BY DEF PackStates
<1>4. next = IF st.runs # <<>> /\ ~(st.used + m > room)
             THEN [runs |-> Front(st.runs) \o <<<<Last(st.runs)[1], k>>>>, used |-> st.used + m]
             ELSE [runs |-> Append(st.runs, <<k, k>>), used |-> m]
  BY DEF AddUnit
<1> HIDE DEF m, next
<1>5. CASE st.runs # <<>> /\ ~(st.used + m > room)
  <2> DEFINE f == Front(st.runs)
      l == Last(st.runs)
      new == <<l[1], k>>
      windows == Append(f, new)
  <2>1. f \in Seq(Nat \X Nat) /\ l \in Nat \X Nat /\ st.runs = Append(f, l)
    BY <1>3, <1>5, FrontLast
  <2> HIDE DEF f, l
  <2>2. new \in Nat \X Nat /\ new[1] = l[1] /\ new[2] = k
    BY <1>2, <2>1
  <2> HIDE DEF new
  <2>3. f \o <<new>> = windows
    BY <2>1, <2>2
  <2>4. /\ windows \in Seq(Nat \X Nat) /\ DOMAIN windows = 1 .. Len(f) + 1 /\ windows[Len(f) + 1] = new
        /\ \A n \in 1 .. Len(f) : windows[n] = f[n]
        /\ Len(f) \in Nat
    BY <2>1, <2>2, AppendFacts
  <2>5. /\ DOMAIN st.runs = 1 .. Len(f) + 1 /\ st.runs[Len(f) + 1] = l
        /\ \A n \in 1 .. Len(f) : st.runs[n] = f[n] /\ f[n] \in Nat \X Nat
    BY <2>1, AppendFacts
  <2> HIDE DEF windows
  <2>6. next.runs = windows /\ next \in PackStates
    <3>1. next = [runs |-> f \o <<new>>, used |-> st.used + m]
      BY <1>4, <1>5, Zenon DEF f, l, new
    <3>2. next = [runs |-> windows, used |-> st.used + m]
      BY <2>3, <3>1
    <3>3. st.used + m \in Int
      BY <1>1, <1>3
    <3> QED
      BY <2>4, <3>2, <3>3 DEF PackStates
  <2>7. ASSUME RunsTo(st.runs, k - 1) PROVE RunsTo(windows, k)
    <3>1. /\ \A n \in 1 .. Len(f) + 1 : st.runs[n][1] \in 1 .. k - 1
               /\ st.runs[n][2] \in st.runs[n][1] .. k - 1
          /\ \A j \in 1 .. k - 1 : \E n \in 1 .. Len(f) + 1 : j \in st.runs[n][1] .. st.runs[n][2]
      BY <2>5, <2>7 DEF RunsTo
    <3>2. Len(f) + 1 \in 1 .. Len(f) + 1
      BY <2>4
    <3>3. l[1] \in 1 .. k - 1 /\ l[2] \in l[1] .. k - 1
      BY <2>5, <3>1, <3>2
    <3>4. ASSUME NEW n \in 1 .. Len(f) + 1
          PROVE  /\ windows[n][1] \in 1 .. k /\ windows[n][2] \in windows[n][1] .. k
                 /\ windows[n][1] = st.runs[n][1]
                      /\ \A j \in st.runs[n][1] .. st.runs[n][2] : j \in windows[n][1] .. windows[n][2]
      <4>1. CASE n = Len(f) + 1
        <5>1. windows[n] = new /\ st.runs[n] = l
          BY <2>4, <2>5, <4>1
        <5> QED
          BY <1>2, <2>2, <3>3, <5>1
      <4>2. CASE n # Len(f) + 1
        <5>1. n \in 1 .. Len(f)
          BY <2>4, <4>2
        <5>2. windows[n] = st.runs[n]
          BY <2>4, <2>5, <5>1
        <5>3. st.runs[n][1] \in 1 .. k - 1 /\ st.runs[n][2] \in st.runs[n][1] .. k - 1
          BY <3>1
        <5> QED
          BY <1>2, <5>2, <5>3
      <4> QED
        BY <4>1, <4>2
    <3>5. ASSUME NEW j \in 1 .. k PROVE \E n \in 1 .. Len(f) + 1 : j \in windows[n][1] .. windows[n][2]
      <4>1. CASE j = k
        <5>1. k \in new[1] .. new[2]
          BY <1>2, <2>2, <3>3
        <5> QED
          BY <2>4, <3>2, <4>1, <5>1
      <4>2. CASE j # k
        <5>1. j \in 1 .. k - 1
          BY <1>2, <4>2
        <5> QED
          BY <3>1, <3>4, <5>1
      <4> QED
        BY <4>1, <4>2
    <3> QED
      BY <2>4, <3>4, <3>5 DEF RunsTo
  <2> QED
    BY <2>6, <2>7 DEF next
<1>6. CASE ~(st.runs # <<>> /\ ~(st.used + m > room))
  <2> DEFINE new == <<k, k>>
      windows == Append(st.runs, new)
  <2>1. new \in Nat \X Nat /\ new[1] = k /\ new[2] = k
    BY <1>2
  <2> HIDE DEF new
  <2>2. /\ windows \in Seq(Nat \X Nat) /\ DOMAIN windows = 1 .. Len(st.runs) + 1
        /\ windows[Len(st.runs) + 1] = new /\ DOMAIN st.runs = 1 .. Len(st.runs)
        /\ \A n \in 1 .. Len(st.runs) : windows[n] = st.runs[n]
        /\ Len(st.runs) \in Nat
    BY <1>3, <2>1, AppendFacts
  <2> HIDE DEF windows
  <2>3. next.runs = windows /\ next \in PackStates
    BY <1>1, <1>4, <1>6, <2>2 DEF PackStates, windows, new
  <2>4. ASSUME RunsTo(st.runs, k - 1) PROVE RunsTo(windows, k)
    <3>1. \A n \in 1 .. Len(st.runs) : st.runs[n][1] \in 1 .. k - 1
            /\ st.runs[n][2] \in st.runs[n][1] .. k - 1
      BY <2>2, <2>4 DEF RunsTo
    <3>2. ASSUME NEW n \in 1 .. Len(st.runs) + 1
          PROVE  windows[n][1] \in 1 .. k /\ windows[n][2] \in windows[n][1] .. k
      <4>1. CASE n = Len(st.runs) + 1
        BY <1>2, <2>1, <2>2, <4>1
      <4>2. CASE n # Len(st.runs) + 1
        <5>1. n \in 1 .. Len(st.runs)
          <6> DEFINE count == Len(st.runs)
          <6>1. count \in Nat /\ n \in 1 .. count + 1 /\ n # count + 1
            BY <2>2, <4>2
          <6> HIDE DEF count
          <6>2. n \in 1 .. count
            BY <6>1
          <6> QED
            BY <6>2 DEF count
        <5>2. windows[n] = st.runs[n] /\ st.runs[n][1] \in 1 .. k - 1
                /\ st.runs[n][2] \in st.runs[n][1] .. k - 1
          BY <2>2, <3>1, <5>1
        <5> QED
          BY <1>2, <5>2
      <4> QED
        BY <4>1, <4>2
    <3>3. ASSUME NEW j \in 1 .. k
                   PROVE \E n \in 1 .. Len(st.runs) + 1 : j \in windows[n][1] .. windows[n][2]
      <4>1. CASE j = k
        <5>1. k \in new[1] .. new[2] /\ Len(st.runs) + 1 \in 1 .. Len(st.runs) + 1
          BY <1>2, <2>1, <2>2
        <5> QED
          BY <2>2, <4>1, <5>1
      <4>2. CASE j # k
        <5>1. j \in 1 .. k - 1
          BY <1>2, <4>2
        <5>2. PICK n \in 1 .. Len(st.runs) : j \in st.runs[n][1] .. st.runs[n][2]
          BY <2>2, <2>4, <5>1 DEF RunsTo
        <5>3. n \in 1 .. Len(st.runs) + 1 /\ windows[n] = st.runs[n]
          <6> DEFINE count == Len(st.runs)
          <6>1. count \in Nat /\ n \in 1 .. count /\ windows[n] = st.runs[n]
            BY <2>2
          <6> HIDE DEF count
          <6>2. n \in 1 .. count + 1
            BY <6>1
          <6> QED
            BY <6>1, <6>2 DEF count
        <5> QED
          BY <5>2, <5>3
      <4> QED
        BY <4>1, <4>2
    <3> QED
      BY <2>2, <3>2, <3>3 DEF RunsTo
  <2> QED
    BY <2>3, <2>4 DEF next
<1> QED
  BY <1>5, <1>6

(* The equations of the packed runs. *)
PackUnitsBy(i, room, f) ==
  /\ f[0] = [runs |-> <<>>, used |-> 0] /\ f[Len(elements[i].units)].runs = PackUnits(i, room)
  /\ \A n \in 1 .. Len(elements[i].units) : f[n] = AddUnit(i, room, f[n - 1], n)

LEMMA PackUnitsByIs ==
  ASSUME ElementsOk, NEW i \in DOMAIN elements, NEW room
  PROVE  \E f \in [0 .. Len(elements[i].units) -> PackStates] : PackUnitsBy(i, room, f)
<1> DEFINE
    L == Len(elements[i].units)
    X == PackStates
    first == [runs |-> <<>>, used |-> 0]
    Step(x, n) == AddUnit(i, room, x, n)
    T == [w \in X \X (1 .. L) |-> Step(w[1], w[2])]
    Then(g, n) == IF n = 0 THEN [runs |-> <<>>, used |-> 0] ELSE AddUnit(i, room, g[n - 1], n)
    Solves(g) == g = [n \in 0 .. L |-> Then(g, n)]
<1>1. L \in Nat /\ [runs |-> <<>>, used |-> 0] \in X
  BY ElementIs DEF PackStates
<1>2. ASSUME NEW x \in X, NEW n \in 1 .. L PROVE Step(x, n) \in X
  BY AddUnitIs
<1> HIDE DEF L, X
<1>3. StaysIn(T, X, L)
  <2> HIDE DEF Step
  <2> QED
    BY <1>2 DEF StaysIn
<1>4. PICK f \in [0 .. L -> X] : f[0] = first /\ \A n \in 1 .. L : f[n] = T[<<f[n - 1], n>>]
  <2>1. L \in Nat /\ first \in X
    BY <1>1
  <2> HIDE DEF T, first
  <2>2. PICK h \in [0 .. L -> X] : Follows(h, first, T, L)
    BY <1>3, <2>1, IteratedBy
  <2>3. h[0] = first /\ \A n \in 1 .. L : h[n] = T[<<h[n - 1], n>>]
    BY <2>2, Zenon DEF Follows
  <2> QED
    BY <2>3, Zenon
<1>5. ASSUME NEW n \in 1 .. L PROVE f[n] = Step(f[n - 1], n)
  <2>1. f[n - 1] \in X
    BY <1>1
  <2>2. T[<<f[n - 1], n>>] = Step(f[n - 1], n)
    <3> HIDE DEF Step
    <3> QED
      BY <2>1
  <2> HIDE DEF Step, T
  <2> QED
    BY <1>4, <2>2, Zenon
<1>6. Solves(f)
  <2>1. f = [n \in 0 .. L |-> f[n]]
    OBVIOUS
  <2>2. ASSUME NEW n \in 0 .. L PROVE f[n] = Then(f, n)
    <3>1. CASE n = 0
      BY <1>4, <3>1, Zenon
    <3>2. CASE n # 0
      <4>1. n \in 1 .. L
        BY <1>1, <3>2
      <4>2. f[n] = Step(f[n - 1], n)
        BY <1>5, <4>1, Zenon
      <4> QED
        BY <3>2, <4>2, Zenon
    <3> QED
      BY <3>1, <3>2, Zenon
  <2> HIDE DEF Then
  <2> QED
    BY <2>1, <2>2
<1> DEFINE g == CHOOSE g : Solves(g)
<1>7. Solves(g)
  <2> HIDE DEF Solves
  <2> QED
    BY <1>6
<1>8. g[L].runs = PackUnits(i, room)
  BY DEF PackUnits, L
<1> HIDE DEF g
<1>9. /\ g = [n \in 0 .. L |-> g[n]] /\ g[0] = [runs |-> <<>>, used |-> 0]
      /\ \A n \in 1 .. L : g[n] = Step(g[n - 1], n)
  <2>1. g = [n \in 0 .. L |-> Then(g, n)]
    BY <1>7
  <2>2. \A n \in 0 .. L : g[n] = Then(g, n)
    <3> HIDE DEF Then
    <3> QED
      BY <2>1
  <2>3. \A n \in 1 .. L : n \in 0 .. L /\ n # 0
    BY <1>1
  <2>4. 0 \in 0 .. L
    BY <1>1
  <2>5. g[0] = [runs |-> <<>>, used |-> 0]
    BY <2>2, <2>4, Zenon
  <2>6. \A n \in 1 .. L : g[n] = Step(g[n - 1], n)
    BY <2>2, <2>3, Zenon
  <2>7. g = [n \in 0 .. L |-> g[n]]
    <3> HIDE DEF Then
    <3> QED
      BY <2>1, <2>2
  <2> QED
    BY <2>5, <2>6, <2>7
<1>10. g \in [0 .. L -> X]
  <2> HIDE DEF Step
  <2> DEFINE P == {n \in 0 .. L : g[n] \in X}
  <2>1. 0 \in P
    BY <1>1, <1>9
  <2>2. ASSUME NEW n \in 1 .. L, n - 1 \in P PROVE n \in P
    <3>1. g[n - 1] \in X /\ n \in 0 .. L
      BY <1>1, <2>2
    <3>2. Step(g[n - 1], n) \in X
      BY <1>2, <3>1
    <3>3. g[n] = Step(g[n - 1], n)
      BY <1>9
    <3> QED
      BY <3>1, <3>2, <3>3
  <2>3. \A n \in 0 .. L : n \in P
    <3> HIDE DEF P
    <3> QED
      BY <1>1, <2>1, <2>2, UpTo
  <2> QED
    BY <1>9, <2>3
<1> HIDE DEF Then, Solves, T
<1>11. PackUnitsBy(i, room, g)
  <2>1. \A n \in 1 .. Len(elements[i].units) : g[n] = AddUnit(i, room, g[n - 1], n)
    BY <1>9, Zenon DEF L
  <2>2. g[0] = [runs |-> <<>>, used |-> 0] /\ g[Len(elements[i].units)].runs = PackUnits(i, room)
    BY <1>8, <1>9, Zenon DEF L
  <2> QED
    BY <2>1, <2>2, Zenon DEF PackUnitsBy
<1> QED
  BY <1>10, <1>11, Zenon DEF L, X

LEMMA PackUnitsHold ==
  ASSUME ElementsOk, NEW i \in DOMAIN elements, NEW room
  PROVE  PackUnits(i, room) \in Seq(Nat \X Nat) /\ RunsTo(PackUnits(i, room), Len(elements[i].units))
<1> DEFINE L == Len(elements[i].units)
<1>1. PICK f \in [0 .. Len(elements[i].units) -> PackStates] : PackUnitsBy(i, room, f)
  BY PackUnitsByIs
<1>2. L \in Nat
  BY ElementIs
<1> DEFINE P == {n \in 0 .. L : RunsTo(f[n].runs, n)}
<1>3. 0 \in P
  <2>1. f[0].runs = <<>> /\ DOMAIN <<>> = {} /\ 1 .. 0 = {} /\ 0 \in 0 .. L
    BY <1>1, <1>2 DEF PackUnitsBy
  <2>2. RunsTo(f[0].runs, 0)
    BY <2>1 DEF RunsTo
  <2> QED
    BY <2>1, <2>2
<1>4. ASSUME NEW n \in 1 .. L, n - 1 \in P PROVE n \in P
  <2>1. n \in 0 .. L /\ n - 1 \in 0 .. L
    BY <1>2
  <2>2. f[n - 1] \in PackStates /\ f[n] = AddUnit(i, room, f[n - 1], n)
    BY <1>1, <2>1 DEF PackUnitsBy
  <2> QED
    BY <1>4, <2>1, <2>2, AddUnitIs
<1>5. \A n \in 0 .. L : n \in P
  <2> HIDE DEF P
  <2> QED
    BY <1>2, <1>3, <1>4, UpTo
<1>6. L \in 0 .. L
  BY <1>2
<1>7. f[L] \in PackStates /\ f[L].runs = PackUnits(i, room)
  BY <1>1, <1>6 DEF PackUnitsBy
<1> QED
  BY <1>5, <1>6, <1>7 DEF PackStates

(* All the tokens of the root of a group, and of what it refers to. *)
RootOwes(group) ==
  OfElement(group.root) \cup ElementTokens(ToSet(InlineRefs(group.root)) \cap ToSet(Tail(group.all)))

LEMMA UnitsOweAll ==
  ASSUME ElementsOk, NEW group, GroupOk(group)
  PROVE  RootOwes(group) \subseteq UnitsOwe(group, 1, Len(elements[group.root].units))
<1> DEFINE i == group.root
    L == Len(elements[i].units)
    refs(k) == RefsOf(i, elements[i].units[k])
<1>1. i \in DOMAIN elements /\ L \in Nat \ {0} /\ elements[i].units \in Seq(RenderedUnits) /\ i \in Nat
      /\ elements[i].header \in Nat
  BY ElementIs, DomainIs DEF GroupOk
<1>2. \A k \in 1 .. L : UnitOwes(group, k) \subseteq UnitsOwe(group, 1, L)
  BY DEF UnitsOwe
<1>3. ASSUME NEW x \in OfElement(i) PROVE x \in UnitsOwe(group, 1, L)
  <2>1. PICK m \in 1 .. Size(i) : x = <<i, m>>
    BY <1>1, OfUnits
  <2>2. CASE m \in 1 .. elements[i].header
    <3>1. x \in HeaderTokens(i)
      <4>1. 0 \in Nat /\ 0 <= elements[i].header /\ m \in 0 + 1 .. elements[i].header
        BY <1>1, <2>2
      <4>2. ToSet(Span(i, 0, elements[i].header)) = {<<i, k>> : k \in 0 + 1 .. elements[i].header}
        BY <1>1, <4>1, SpanIs
      <4> QED
        BY <2>1, <4>1, <4>2 DEF HeaderTokens
    <3>2. 1 \in 1 .. L
      BY <1>1
    <3>3. x \in UnitOwes(group, 1)
      BY <3>1 DEF UnitOwes
    <3> QED
      BY <1>2, <3>2, <3>3
  <2>3. CASE \E k \in 1 .. L : <<i, m>> \in UnitTokens(i, k)
    <3>1. PICK k \in 1 .. L : <<i, m>> \in UnitTokens(i, k)
      BY <2>3
    <3>2. x \in UnitOwes(group, k)
      BY <2>1, <3>1 DEF UnitOwes
    <3> QED
      BY <1>2, <3>2
  <2> QED
    BY <1>1, <2>2, <2>3, HeaderOrUnit
<1>4. ASSUME NEW x \in ElementTokens(ToSet(InlineRefs(i)) \cap ToSet(Tail(group.all)))
      PROVE  x \in UnitsOwe(group, 1, L)
  <2>1. PICK r \in ToSet(InlineRefs(i)) \cap ToSet(Tail(group.all)) : x \in OfElement(r)
    BY DEF ElementTokens
  <2>2. ToSet(InlineRefs(i)) = UNION {refs(k) : k \in 1 .. L}
    BY <1>1, TargetsAre DEF InlineRefs
  <2>3. PICK k \in 1 .. L : r \in refs(k)
    BY <2>1, <2>2
  <2>4. x \in ElementTokens(refs(k) \cap ToSet(Tail(group.all)))
    BY <2>1, <2>3 DEF ElementTokens
  <2>5. x \in UnitOwes(group, k)
    BY <2>4 DEF UnitOwes
  <2> QED
    BY <1>2, <2>5
<1> QED
  BY <1>3, <1>4 DEF RootOwes

(* Splitting at the html loses nothing, or is of no use. *)
LEMMA SplitAtHtmlTagsHolds ==
  ASSUME ElementsOk, NEW group, GroupOk(group), NEW ctx, ContextOk(ctx)
  PROVE  \/ SplitAtHtmlTags(group, ctx) = <<>>
         \/ SplitInto(SplitAtHtmlTags(group, ctx), ctx, RootOwes(group))
<1> DEFINE i == group.root
    L == Len(elements[i].units)
    taken == Overhead(ctx) + Estimate(i, elements[i].header)
    windows == PackUnits(i, IF taken < Budget THEN Budget - taken ELSE 0)
    cs == [n \in DOMAIN windows |-> Emit(group, ctx, windows[n][1], windows[n][2])]
    T == [n \in 1 .. Len(windows) |-> UnitsOwe(group, windows[n][1], windows[n][2])]
<1>1. SplitAtHtmlTags(group, ctx) \in {<<>>, FlattenSeq(cs)}
  BY DEF SplitAtHtmlTags, Several
<1>2. i \in DOMAIN elements /\ L \in Nat
  BY ElementIs DEF GroupOk
<1>3. windows \in Seq(Nat \X Nat) /\ RunsTo(windows, L)
  <2> HIDE DEF taken
  <2> QED
    BY <1>2, PackUnitsHold
<1> HIDE DEF windows
<1>4. DOMAIN windows = 1 .. Len(windows) /\ Len(windows) \in Nat
  BY <1>3
<1>5. ASSUME NEW n \in 1 .. Len(windows) PROVE SplitInto(cs[n], ctx, T[n]) /\ cs[n] \in Seq(Seq(Piece))
  <2>1. windows[n][1] \in 1 .. L /\ windows[n][2] \in windows[n][1] .. L
    BY <1>3, <1>4 DEF RunsTo
  <2>2. SplitInto(Emit(group, ctx, windows[n][1], windows[n][2]), ctx, UnitsOwe(group, windows[n][1],
          windows[n][2]))
    BY <2>1, EmitHolds
  <2>3. cs[n] = Emit(group, ctx, windows[n][1], windows[n][2])
        /\ T[n] = UnitsOwe(group, windows[n][1], windows[n][2])
    BY <1>4
  <2> HIDE DEF cs, T
  <2>4. SplitInto(cs[n], ctx, T[n])
    BY <2>2, <2>3, Zenon
  <2> QED
    BY <2>4 DEF SplitInto
<1>6. cs = [n \in 1 .. Len(windows) |-> cs[n]]
  BY <1>4
<1>7. UnitsOwe(group, 1, L) \subseteq UNION {T[n] : n \in 1 .. Len(windows)}
  <2>1. ASSUME NEW k \in 1 .. L PROVE UnitOwes(group, k) \subseteq UNION {T[n] : n \in 1 .. Len(windows)}
    <3>1. PICK n \in 1 .. Len(windows) : k \in windows[n][1] .. windows[n][2]
      BY <1>3, <1>4 DEF RunsTo
    <3>2. UnitOwes(group, k) \subseteq T[n]
      BY <3>1 DEF UnitsOwe
    <3> HIDE DEF T
    <3> QED
      BY <3>2
  <2> QED
    BY <2>1 DEF UnitsOwe
<1> HIDE DEF cs, T
<1>8. cs \in Seq(Seq(Seq(Piece))) /\ Len(cs) = Len(windows)
  BY <1>4, <1>5, <1>6, SequenceIs
<1>9. SplitInto(FlattenSeq(cs), ctx, UNION {T[n] : n \in 1 .. Len(cs)})
  <2>1. \A n \in 1 .. Len(cs) : SplitInto(cs[n], ctx, T[n])
    BY <1>5, <1>8
  <2>2. \A t : (\A n \in 1 .. Len(cs) : SplitInto(cs[n], ctx, t[n]))
               => SplitInto(FlattenSeq(cs), ctx, UNION {t[n] : n \in 1 .. Len(cs)})
    BY <1>8, SplitIntoJoined
  <2> QED
    BY <2>1, <2>2
<1>10. RootOwes(group) \subseteq UNION {T[n] : n \in 1 .. Len(cs)}
  BY <1>7, <1>8, UnitsOweAll
<1>11. SplitInto(FlattenSeq(cs), ctx, RootOwes(group))
  BY <1>9, <1>10, SplitIntoLess
<1> QED
  BY <1>1, <1>11

-----------------------------------------------------------------------------
(* Splitting: an oversized group *)

LEMMA GroupShows ==
  ASSUME ElementsOk, NEW group, GroupOk(group)
  PROVE  RootOwes(group) \subseteq ElementTokens(ToSet(group.all))
BY DEF GroupOk, RootOwes, ElementTokens

(* Oversized content is refused, or every piece of it has the headings, and *)
(* there is one.                                                             *)
LEMMA SplitOversizedHolds ==
  ASSUME ElementsOk, NEW group, GroupOk(group), group.root \notin Headings,
         NEW ctx \in Seq(DOMAIN elements), ToSet(ctx) \subseteq Headings
  PROVE  \/ SplitOversized(ctx, group) = Refused
         \/ SplitInto(SplitOversized(ctx, group), ctx, RootOwes(group))
            /\ SplitOversized(ctx, group) # <<>>
<1> DEFINE all == group.all
    full == Pieces(ctx \o all)
    heads == Among(ctx \o all, Headings)
    tags == SplitAtHtmlTags(group, ctx)
    sentences == SplitAtSentences(Pieces(all), ctx)
    slices == TokenSlice(ctx, Pieces(ctx) \o Pieces(all), Overlap)
    owed == RootOwes(group)
<1>1. all \in Seq(DOMAIN elements) /\ \A n \in 1 .. Len(all) : all[n] \notin Headings
  <2>1. all \in Seq(DOMAIN elements) /\ ToSet(all) \cap Headings = {}
    BY DEF GroupOk
  <2> QED
    BY <2>1 DEF ToSet
<1>2. heads = ctx
  <2>1. heads = Among(ctx, Headings) \o Among(all, Headings)
    BY <1>1, AmongJoined
  <2>2. \A n \in 1 .. Len(ctx) : ctx[n] \in Headings
    BY DEF ToSet
  <2>3. Among(ctx, Headings) = ctx
    BY <2>2, AllAmong
  <2>4. Among(all, Headings) = <<>>
    BY <1>1, NoneAmong
  <2> QED
    BY <2>1, <2>3, <2>4, JoinedNothing
<1>3. full = Pieces(ctx) \o Pieces(all) /\ Pieces(ctx) \in Seq(Piece) /\ Pieces(all) \in Seq(Piece)
      /\ Pieces(heads \o all) = full
  BY <1>1, <1>2, PiecesJoined, PiecesAre
<1>4. SplitOversized(ctx, group)
        = IF Titled(full) <= Budget THEN <<full>>
          ELSE IF Budget <= Overhead(ctx) + Overlap + Room THEN Refused
          ELSE Else(tags, Else(sentences, slices))
  BY <1>2, <1>3 DEF SplitOversized
<1>5. ToSet(Render(Pieces(ctx))) = ElementTokens(ToSet(ctx))
        /\ ToSet(Render(Pieces(all))) = ElementTokens(ToSet(all))
      /\ owed \subseteq ElementTokens(ToSet(all))
  BY <1>1, PiecesShow, GroupShows
<1>6. \A p \in ToSet(Pieces(all)) : p.of \notin Headings
  <2> SUFFICES ASSUME NEW p \in ToSet(Pieces(all)) PROVE p.of \notin Headings
    OBVIOUS
  <2>1. PICK n \in 1 .. Len(all) : p = Whole(all[n])
    BY <1>1, PiecesAre DEF ToSet
  <2>2. all[n] \in DOMAIN elements
    BY <1>1
  <2>3. p.of = all[n]
    BY <2>1, <2>2, WholeIs
  <2> QED
    BY <1>1, <2>3
<1>7. full \in Seq(Piece)
        /\ ToSet(Render(full)) = ElementTokens(ToSet(ctx)) \cup ElementTokens(ToSet(all))
      /\ Tokens(full) = Tokens(Pieces(ctx)) + Tokens(Pieces(all))
  BY <1>3, <1>5, RenderJoined
<1> HIDE DEF full, heads
<1>8. CASE Titled(full) <= Budget
  <2>1. SplitInto(<<full>>, ctx, owed)
    <3> HIDE DEF owed
    <3> QED
      BY <1>5, <1>7, SplitIntoOne
  <2> QED
    BY <1>4, <1>8, <2>1
<1>9. CASE ~(Titled(full) <= Budget) /\ ~(Budget <= Overhead(ctx) + Overlap + Room)
  <2>1. Budget \in Nat /\ Overlap \in Nat /\ Room \in Nat /\ Overhead(ctx) \in Nat /\ Title \in Nat
    BY SplitConstants, OverheadIs
  <2>2. ContextOk(ctx)
    BY <1>9, <2>1 DEF ContextOk
  <2>3. tags = <<>> \/ SplitInto(tags, ctx, owed)
    BY <2>2, SplitAtHtmlTagsHolds
  <2>4. sentences = <<>> \/ SplitInto(sentences, ctx, ToSet(Render(Pieces(all))))
    BY <1>3, SplitAtSentencesHolds
  <2>5. SplitInto(slices, ctx, ToSet(Render(Pieces(all))))
    BY <1>3, <1>6, <2>1, <2>2, SlicedHolds DEF ContextOk
  <2>6. ToSet(Render(Pieces(all))) # {}
    <3>1. Titled(full) = Tokens(Pieces(ctx)) + Tokens(Pieces(all)) + Title
          /\ Overhead(ctx) = Tokens(Pieces(ctx)) + Title
          /\ Tokens(Pieces(all)) \in Nat /\ Tokens(Pieces(ctx)) \in Nat
      BY <1>3, <1>7, <2>1, RenderIn DEF Overhead
    <3>2. Tokens(Pieces(all)) > 0
      <4> DEFINE t == Tokens(Pieces(all))
          c == Tokens(Pieces(ctx))
      <4>1. /\ ~(c + t + Title <= Budget) /\ ~(Budget <= c + Title + Overlap + Room)
            /\ t \in Nat /\ c \in Nat
        BY <1>9, <3>1
      <4> HIDE DEF t, c
      <4>2. t > 0
        BY <2>1, <4>1
      <4> QED
        BY <4>2 DEF t
    <3>3. Render(Pieces(all)) \in Seq(Tokened) /\ Len(Render(Pieces(all))) > 0
      BY <1>3, <3>2, RenderIn DEF Tokens
    <3>4. 1 \in DOMAIN Render(Pieces(all))
      BY <3>3
    <3> QED
      BY <3>4 DEF ToSet
  <2>7. slices # <<>>
    <3>1. ShownBy(<<>>) = {}
      BY DEF ShownBy
    <3>2. ShownBy(slices) # {}
      BY <2>5, <2>6 DEF SplitInto
    <3> HIDE DEF slices
    <3> QED
      BY <3>1, <3>2
  <2> HIDE DEF tags, sentences, slices
  <2>8. Else(tags, Else(sentences, slices)) # <<>>
        /\ SplitInto(Else(tags, Else(sentences, slices)), ctx, owed)
    <3>1. sentences = <<>> \/ SplitInto(sentences, ctx, owed)
      BY <1>5, <2>4, SplitIntoLess
    <3>2. SplitInto(slices, ctx, owed)
      BY <1>5, <2>5, SplitIntoLess
    <3> HIDE DEF owed
    <3> QED
      BY <2>3, <2>7, <3>1, <3>2 DEF Else
  <2> QED
    BY <1>4, <1>9, <2>8
<1> QED
  BY <1>4, <1>8, <1>9

-----------------------------------------------------------------------------
(* Splitting: element groups *)

(* Nothing refers to a heading. *)
HeadingsFree == \A i \in DOMAIN elements : HeadingAt(i) => i \notin AllReferenced(Ids)

LEMMA FreeIs ==
  ASSUME ElementsOk, HeadingsFree, NEW i \in DOMAIN elements
  PROVE  /\ ToSet(InlineRefs(i)) \cap Headings = {}
         /\ (i \in Headings) <=> HeadingAt(i)
<1>1. i \in DOMAIN Ids /\ Ids[i] = i
  BY DEF Ids
<1>2. ToSet(InlineRefs(i)) \subseteq AllReferenced(Ids)
  BY <1>1 DEF AllReferenced
<1> QED
  BY <1>2 DEF HeadingsFree, Headings

LEMMA LastAmongIs ==
  ASSUME NEW M, NEW s \in Seq(M), NEW S
  PROVE  LastAmong(s, S) \in Seq(M) /\ ToSet(LastAmong(s, S)) = ToSet(s) \cap S
<1> DEFINE L == Len(s)
    latest == {n \in DOMAIN s : s[n] \in S /\ \A m \in n + 1 .. Len(s) : s[m] # s[n]}
    numbers == [n \in 1 .. L |-> n]
    ns == Among(numbers, latest)
    t == [k \in DOMAIN ns |-> s[ns[k]]]
<1>1. L \in Nat /\ DOMAIN s = 1 .. L
  OBVIOUS
<1>2. LastAmong(s, S) = t
  BY <1>1 DEF LastAmong
<1>3. numbers \in Seq(1 .. L) /\ ToSet(numbers) = 1 .. L
  <2>1. DOMAIN numbers = 1 .. L /\ \A n \in 1 .. L : numbers[n] = n
    OBVIOUS
  <2>2. numbers \in Seq(1 .. L)
    BY <1>1
  <2> QED
    BY <2>1, <2>2 DEF ToSet
<1> HIDE DEF numbers, latest
<1>4. ns \in Seq(1 .. L) /\ ToSet(ns) = (1 .. L) \cap latest
  BY <1>3, AmongIn, AmongMembers
<1> HIDE DEF ns
<1>5. DOMAIN ns = 1 .. Len(ns) /\ Len(ns) \in Nat /\ \A k \in 1 .. Len(ns) : ns[k] \in 1 .. L
  BY <1>4
<1>6. \A k \in 1 .. Len(ns) : t[k] = s[ns[k]] /\ t[k] \in M
  BY <1>1, <1>5
<1>7. t = [k \in 1 .. Len(ns) |-> t[k]] /\ DOMAIN t = 1 .. Len(ns)
  BY <1>5
<1> HIDE DEF t
<1>8. t \in Seq(M)
  BY <1>5, <1>6, <1>7, SequenceIs
<1>9. ASSUME NEW x \in ToSet(t) PROVE x \in ToSet(s) \cap S
  <2>1. PICK k \in 1 .. Len(ns) : x = s[ns[k]]
    BY <1>6, <1>7, <1>9 DEF ToSet
  <2>2. ns[k] \in ToSet(ns)
    BY <1>5 DEF ToSet
  <2>3. ns[k] \in 1 .. L /\ ns[k] \in latest
    BY <1>4, <2>2
  <2> QED
    BY <1>1, <2>1, <2>3 DEF latest, ToSet
<1>10. ASSUME NEW x \in ToSet(s) \cap S PROVE x \in ToSet(t)
  <2> DEFINE N == {n \in 1 .. L : s[n] = x}
  <2>1. N \subseteq 0 .. L /\ N # {}
    BY <1>1 DEF ToSet
  <2>2. PICK n \in N : \A m \in N : n >= m
    <3> HIDE DEF N
    <3> QED
      BY <1>1, <2>1, Extremes
  <2>3. n \in latest
    <3>1. \A m \in n + 1 .. Len(s) : m \notin N /\ m \in 1 .. L
      BY <1>1, <2>2
    <3> QED
      BY <1>1, <2>2, <3>1 DEF latest
  <2>4. n \in ToSet(ns)
    BY <1>4, <2>2, <2>3
  <2>5. PICK k \in 1 .. Len(ns) : ns[k] = n
    BY <1>5, <2>4 DEF ToSet
  <2>6. t[k] = x
    BY <1>6, <2>2, <2>5
  <2> QED
    BY <1>7, <2>6 DEF ToSet
<1> QED
  BY <1>2, <1>8, <1>9, <1>10

(* What may be reached in a document whose headings nothing refers to. *)
Reachable(ids) == SUBSET (ToSet(ids) \ Headings)

LEMMA ReachStep ==
  ASSUME ElementsOk, HeadingsFree, NEW ids \in Seq(DOMAIN elements), NEW x \in Reachable(ids)
  PROVE  x \cup UNION {ToSet(InlineRefs(i)) \cap ToSet(ids) : i \in x} \in Reachable(ids)
<1>1. ASSUME NEW i \in x PROVE ToSet(InlineRefs(i)) \cap ToSet(ids) \subseteq ToSet(ids) \ Headings
  <2>1. i \in DOMAIN elements
    BY DEF Reachable, ToSet
  <2> QED
    BY <2>1, FreeIs
<1> QED
  BY <1>1 DEF Reachable

(* The equations of what is reached. *)
ReachBy(root, ids, f) ==
  /\ f[0] = ToSet(InlineRefs(root)) \cap ToSet(ids) /\ f[Len(ids)] = ReachRefs(root, ids)
  /\ \A n \in 1 .. Len(ids) : f[n] = f[n - 1] \cup UNION {ToSet(InlineRefs(i)) \cap ToSet(ids) :
       i \in f[n - 1]}

LEMMA ReachByIs ==
  ASSUME ElementsOk, HeadingsFree, NEW root \in DOMAIN elements, NEW ids \in Seq(DOMAIN elements)
  PROVE  \E f \in [0 .. Len(ids) -> Reachable(ids)] : ReachBy(root, ids, f)
<1> DEFINE
    L == Len(ids)
    X == Reachable(ids)
    first == ToSet(InlineRefs(root)) \cap ToSet(ids)
    Step(x, n) == x \cup UNION {ToSet(InlineRefs(i)) \cap ToSet(ids) : i \in x}
    T == [w \in X \X (1 .. L) |-> Step(w[1], w[2])]
    Then(g, n) == IF n = 0 THEN ToSet(InlineRefs(root)) \cap ToSet(ids)
      ELSE g[n - 1] \cup UNION {ToSet(InlineRefs(i)) \cap ToSet(ids) : i \in g[n - 1]}
    Solves(g) == g = [n \in 0 .. L |-> Then(g, n)]
<1>1. L \in Nat /\ ToSet(InlineRefs(root)) \cap ToSet(ids) \in X
  BY FreeIs DEF Reachable
<1>2. ASSUME NEW x \in X, NEW n \in 1 .. L PROVE Step(x, n) \in X
  BY ReachStep
<1> HIDE DEF L, X
<1>3. StaysIn(T, X, L)
  <2> HIDE DEF Step
  <2> QED
    BY <1>2 DEF StaysIn
<1>4. PICK f \in [0 .. L -> X] : f[0] = first /\ \A n \in 1 .. L : f[n] = T[<<f[n - 1], n>>]
  <2>1. L \in Nat /\ first \in X
    BY <1>1
  <2> HIDE DEF T, first
  <2>2. PICK h \in [0 .. L -> X] : Follows(h, first, T, L)
    BY <1>3, <2>1, IteratedBy
  <2>3. h[0] = first /\ \A n \in 1 .. L : h[n] = T[<<h[n - 1], n>>]
    BY <2>2, Zenon DEF Follows
  <2> QED
    BY <2>3, Zenon
<1>5. ASSUME NEW n \in 1 .. L PROVE f[n] = Step(f[n - 1], n)
  <2>1. f[n - 1] \in X
    BY <1>1
  <2>2. T[<<f[n - 1], n>>] = Step(f[n - 1], n)
    <3> HIDE DEF Step
    <3> QED
      BY <2>1
  <2> HIDE DEF Step, T
  <2> QED
    BY <1>4, <2>2, Zenon
<1>6. Solves(f)
  <2>1. f = [n \in 0 .. L |-> f[n]]
    OBVIOUS
  <2>2. ASSUME NEW n \in 0 .. L PROVE f[n] = Then(f, n)
    <3>1. CASE n = 0
      BY <1>4, <3>1, Zenon
    <3>2. CASE n # 0
      <4>1. n \in 1 .. L
        BY <1>1, <3>2
      <4>2. f[n] = Step(f[n - 1], n)
        BY <1>5, <4>1, Zenon
      <4> QED
        BY <3>2, <4>2, Zenon
    <3> QED
      BY <3>1, <3>2, Zenon
  <2> HIDE DEF Then
  <2> QED
    BY <2>1, <2>2
<1> DEFINE g == CHOOSE g : Solves(g)
<1>7. Solves(g)
  <2> HIDE DEF Solves
  <2> QED
    BY <1>6
<1>8. g[L] = ReachRefs(root, ids)
  BY DEF ReachRefs, L
<1> HIDE DEF g
<1>9. /\ g = [n \in 0 .. L |-> g[n]] /\ g[0] = ToSet(InlineRefs(root)) \cap ToSet(ids)
      /\ \A n \in 1 .. L : g[n] = Step(g[n - 1], n)
  <2>1. g = [n \in 0 .. L |-> Then(g, n)]
    BY <1>7
  <2>2. \A n \in 0 .. L : g[n] = Then(g, n)
    <3> HIDE DEF Then
    <3> QED
      BY <2>1
  <2>3. \A n \in 1 .. L : n \in 0 .. L /\ n # 0
    BY <1>1
  <2>4. 0 \in 0 .. L
    BY <1>1
  <2>5. g[0] = ToSet(InlineRefs(root)) \cap ToSet(ids)
    BY <2>2, <2>4, Zenon
  <2>6. \A n \in 1 .. L : g[n] = Step(g[n - 1], n)
    BY <2>2, <2>3, Zenon
  <2>7. g = [n \in 0 .. L |-> g[n]]
    <3> HIDE DEF Then
    <3> QED
      BY <2>1, <2>2
  <2> QED
    BY <2>5, <2>6, <2>7
<1>10. g \in [0 .. L -> X]
  <2> HIDE DEF Step
  <2> DEFINE P == {n \in 0 .. L : g[n] \in X}
  <2>1. 0 \in P
    BY <1>1, <1>9
  <2>2. ASSUME NEW n \in 1 .. L, n - 1 \in P PROVE n \in P
    <3>1. g[n - 1] \in X /\ n \in 0 .. L
      BY <1>1, <2>2
    <3>2. Step(g[n - 1], n) \in X
      BY <1>2, <3>1
    <3>3. g[n] = Step(g[n - 1], n)
      BY <1>9
    <3> QED
      BY <3>1, <3>2, <3>3
  <2>3. \A n \in 0 .. L : n \in P
    <3> HIDE DEF P
    <3> QED
      BY <1>1, <2>1, <2>2, UpTo
  <2> QED
    BY <1>9, <2>3
<1> HIDE DEF Then, Solves, T
<1>11. ReachBy(root, ids, g)
  <2>1. \A n \in 1 .. Len(ids) : g[n] = g[n - 1] \cup UNION {ToSet(InlineRefs(i)) \cap ToSet(ids) :
          i \in g[n - 1]}
    BY <1>9, Zenon DEF L
  <2>2. g[0] = ToSet(InlineRefs(root)) \cap ToSet(ids) /\ g[Len(ids)] = ReachRefs(root, ids)
    BY <1>8, <1>9, Zenon DEF L
  <2> QED
    BY <2>1, <2>2, Zenon DEF ReachBy
<1> QED
  BY <1>10, <1>11, Zenon DEF L, X

(* What a root reaches holds all that it refers to itself. *)
LEMMA CollectRefsIs ==
  ASSUME ElementsOk, HeadingsFree, NEW root \in DOMAIN elements, NEW ids \in Seq(DOMAIN elements)
  PROVE  /\ CollectRefs(root, ids) \in Seq(DOMAIN elements)
         /\ ToSet(CollectRefs(root, ids)) \subseteq ToSet(ids) \ Headings
         /\ ToSet(InlineRefs(root)) \cap ToSet(ids) \subseteq ToSet(CollectRefs(root, ids))
<1> DEFINE L == Len(ids)
    direct == ToSet(InlineRefs(root)) \cap ToSet(ids)
<1>1. PICK f \in [0 .. Len(ids) -> Reachable(ids)] : ReachBy(root, ids, f)
  BY ReachByIs
<1>2. L \in Nat
  OBVIOUS
<1> DEFINE P == {n \in 0 .. L : direct \subseteq f[n]}
<1>3. 0 \in P
  BY <1>1, <1>2 DEF ReachBy
<1>4. ASSUME NEW n \in 1 .. L, n - 1 \in P PROVE n \in P
  <2>1. n \in 0 .. L /\ f[n - 1] \subseteq f[n]
    BY <1>1, <1>2 DEF ReachBy
  <2> QED
    BY <1>4, <2>1
<1>5. \A n \in 0 .. L : n \in P
  <2> HIDE DEF P
  <2> QED
    BY <1>2, <1>3, <1>4, UpTo
<1>6. L \in 0 .. L
  BY <1>2
<1>7. f[L] = ReachRefs(root, ids) /\ f[L] \in Reachable(ids) /\ direct \subseteq f[L]
  BY <1>1, <1>5, <1>6 DEF ReachBy
<1>8. CollectRefs(root, ids) \in Seq(DOMAIN elements)
      /\ ToSet(CollectRefs(root, ids)) = ToSet(ids) \cap ReachRefs(root, ids)
  BY LastAmongIs DEF CollectRefs
<1> QED
  BY <1>7, <1>8 DEF Reachable

(* An element before a sequence. *)
LEMMA Prepended ==
  ASSUME NEW S, NEW x \in S, NEW r \in Seq(S)
  PROVE  /\ <<x>> \o r \in Seq(S) /\ <<x>> \o r # <<>> /\ (<<x>> \o r)[1] = x
         /\ Tail(<<x>> \o r) = r /\ ToSet(<<x>> \o r) = {x} \cup ToSet(r)
<1> DEFINE one == <<x>>
    all == one \o r
<1>1. one \in Seq(S) /\ Len(one) = 1 /\ one[1] = x /\ ToSet(one) = {x}
  BY DEF ToSet
<1> HIDE DEF one
<1>2. /\ all \in Seq(S) /\ Len(all) = 1 + Len(r) /\ Len(r) \in Nat
      /\ \A k \in 1 .. Len(one) : all[k] = one[k]
      /\ \A k \in 1 .. Len(all) : k \notin 1 .. Len(one) => all[k] = r[k - Len(one)]
  BY <1>1, Concatenated
<1>3. ToSet(all) = {x} \cup ToSet(r)
  BY <1>1, JoinedMembers
<1> HIDE DEF all
<1>4. all # <<>> /\ Tail(all) \in Seq(S) /\ Len(Tail(all)) = Len(r)
      /\ \A k \in 1 .. Len(r) : Tail(all)[k] = all[k + 1]
  BY <1>2
<1>5. ASSUME NEW k \in 1 .. Len(r) PROVE Tail(all)[k] = r[k]
  <2>1. k + 1 \in 1 .. Len(all) /\ k + 1 \notin 1 .. Len(one) /\ (k + 1) - Len(one) = k
    BY <1>1, <1>2
  <2>2. all[k + 1] = r[k]
    BY <1>2, <2>1
  <2> QED
    BY <1>4, <2>2
<1>6. Tail(all) = r
  BY <1>4, <1>5, SeqsAgree
<1>7. all[1] = x
  <2>1. 1 \in 1 .. Len(one)
    BY <1>1
  <2> QED
    BY <1>1, <1>2, <2>1
<1> QED
  BY <1>2, <1>3, <1>4, <1>6, <1>7 DEF all, one

(* What is kept of ids as the root of a group. *)
Kept(ids) == Among(ids, Headings \cup (ToSet(ids) \ AllReferenced(ids)))

GroupOf(i, ids) ==
  [root |-> i, all |-> IF HeadingAt(i) THEN <<i>> ELSE <<i>> \o CollectRefs(i, ids)]

LEMMA GroupOfIs ==
  ASSUME ElementsOk, HeadingsFree, NEW ids \in Seq(DOMAIN elements), NEW i \in ToSet(ids)
  PROVE  /\ GroupOk(GroupOf(i, ids)) /\ GroupOf(i, ids).root = i
         /\ ToSet(GroupOf(i, ids).all) \subseteq ToSet(ids)
         /\ i \in Headings => GroupOf(i, ids).all = <<i>>
         /\ i \notin Headings =>
              ToSet(InlineRefs(i)) \cap ToSet(ids) \subseteq ToSet(Tail(GroupOf(i, ids).all))
<1> DEFINE g == GroupOf(i, ids)
    refs == CollectRefs(i, ids)
<1>1. i \in DOMAIN elements /\ (i \in Headings <=> HeadingAt(i))
  <2>1. i \in DOMAIN elements
    BY DEF ToSet
  <2> QED
    BY <2>1, FreeIs
<1>2. g.root = i /\ g.all = IF HeadingAt(i) THEN <<i>> ELSE <<i>> \o refs
  BY DEF GroupOf
<1>3. /\ refs \in Seq(DOMAIN elements) /\ ToSet(refs) \subseteq ToSet(ids) \ Headings
      /\ ToSet(InlineRefs(i)) \cap ToSet(ids) \subseteq ToSet(refs)
  BY <1>1, CollectRefsIs
<1> HIDE DEF g, refs
<1>4. <<i>> \in Seq(DOMAIN elements) /\ ToSet(<<i>>) = {i} /\ Tail(<<i>>) = <<>> /\ ToSet(<<>>) = {}
  BY <1>1 DEF ToSet
<1>5. CASE HeadingAt(i)
  <2>1. g.all = <<i>>
    BY <1>2, <1>5
  <2>2. Tail(g.all) = <<>> /\ g.all[1] = i /\ g.all # <<>>
    BY <2>1
  <2>3. GroupOk(g)
    BY <1>1, <1>2, <1>4, <2>1, <2>2 DEF GroupOk
  <2> QED
    BY <1>1, <1>2, <1>4, <1>5, <2>1, <2>3 DEF g
<1>6. CASE ~HeadingAt(i)
  <2> DEFINE all == <<i>> \o refs
  <2>1. /\ all \in Seq(DOMAIN elements) /\ all # <<>> /\ all[1] = i /\ Tail(all) = refs
        /\ ToSet(all) = {i} \cup ToSet(refs)
    BY <1>1, <1>3, Prepended
  <2> HIDE DEF all
  <2>2. g.all = all
    BY <1>2, <1>6 DEF all
  <2> QED
    BY <1>1, <1>2, <1>3, <1>6, <2>1, <2>2 DEF GroupOk, g
<1> QED
  BY <1>5, <1>6

LEMMA GroupsAre ==
  ASSUME ElementsOk, HeadingsFree, NEW ids \in Seq(DOMAIN elements)
  PROVE  /\ Kept(ids) \in Seq(DOMAIN elements) /\ Len(ElementGroups(ids)) = Len(Kept(ids))
         /\ Len(Kept(ids)) \in Nat /\ DOMAIN ElementGroups(ids) = 1 .. Len(Kept(ids))
         /\ \A n \in 1 .. Len(Kept(ids)) : /\ Kept(ids)[n] \in ToSet(ids)
                                           /\ ElementGroups(ids)[n] = GroupOf(Kept(ids)[n], ids)
         /\ \A i \in ToSet(ids) : i \in Headings \/ i \notin AllReferenced(ids) =>
              \E n \in 1 .. Len(Kept(ids)) : Kept(ids)[n] = i
<1> DEFINE kept == Kept(ids)
    S == Headings \cup (ToSet(ids) \ AllReferenced(ids))
    gs == [n \in DOMAIN kept |-> GroupOf(kept[n], ids)]
<1>1. kept \in Seq(DOMAIN elements) /\ ToSet(kept) = ToSet(ids) \cap S
  BY AmongIn, AmongMembers DEF Kept
<1>2. ElementGroups(ids) = gs
  BY DEF ElementGroups, Kept, GroupOf
<1> HIDE DEF kept
<1>3. DOMAIN kept = 1 .. Len(kept) /\ Len(kept) \in Nat
  BY <1>1
<1>4. \A n \in 1 .. Len(kept) : kept[n] \in ToSet(kept)
  BY <1>3 DEF ToSet
<1>5. \A i \in ToSet(kept) : \E n \in 1 .. Len(kept) : kept[n] = i
  BY <1>3 DEF ToSet
<1>6. DOMAIN gs = 1 .. Len(kept) /\ Len(gs) = Len(kept)
      /\ \A n \in 1 .. Len(kept) : gs[n] = GroupOf(kept[n], ids)
  BY <1>3
<1> HIDE DEF gs
<1> QED
  BY <1>1, <1>2, <1>3, <1>4, <1>5, <1>6 DEF kept

-----------------------------------------------------------------------------
(* Splitting: the greedy loop *)

LEMMA ShownByMembers ==
  ASSUME NEW chunks \in Seq(Seq(Piece))
  PROVE  ShownBy(chunks) = UNION {ToSet(Render(chunk)) : chunk \in ToSet(chunks)}
BY DEF ShownBy, ToSet

LEMMA ShownByJoined ==
  ASSUME NEW a \in Seq(Seq(Piece)), NEW b \in Seq(Seq(Piece))
  PROVE  a \o b \in Seq(Seq(Piece)) /\ ShownBy(a \o b) = ShownBy(a) \cup ShownBy(b)
<1>1. a \o b \in Seq(Seq(Piece)) /\ ToSet(a \o b) = ToSet(a) \cup ToSet(b)
  BY JoinedIn, JoinedMembers
<1> QED
  BY <1>1, ShownByMembers

LEMMA ShownByAppended ==
  ASSUME NEW a \in Seq(Seq(Piece)), NEW b \in Seq(Piece)
  PROVE  Append(a, b) \in Seq(Seq(Piece)) /\ ShownBy(Append(a, b)) = ShownBy(a) \cup ToSet(Render(b))
<1>1. Append(a, b) \in Seq(Seq(Piece)) /\ ToSet(Append(a, b)) = ToSet(a) \cup {b}
  BY AppendMembers
<1> QED
  BY <1>1, ShownByMembers

LEMMA TokensJoined ==
  ASSUME NEW S, NEW T
  PROVE  ElementTokens(S \cup T) = ElementTokens(S) \cup ElementTokens(T) /\ (S \subseteq T
           => ElementTokens(S) \subseteq ElementTokens(T))
BY DEF ElementTokens

(* A heading whose level is new is added to the context. *)
LEMMA WithHeadingIs ==
  ASSUME ElementsOk, NEW ctx \in Seq(DOMAIN elements), ToSet(ctx) \subseteq Headings, NEW h \in Headings
  PROVE  /\ WithHeading(ctx, h) \in Seq(DOMAIN elements) /\ ToSet(WithHeading(ctx, h)) \subseteq Headings
         /\ (\A x \in ToSet(ctx) : elements[x].level # elements[h].level)
              => WithHeading(ctx, h) = Append(ctx, h)
<1> DEFINE same == {n \in DOMAIN ctx : elements[ctx[n]].level = elements[h].level}
    t == [n \in DOMAIN ctx |-> IF n \in same THEN h ELSE ctx[n]]
<1>1. h \in DOMAIN elements
  BY DEF Headings
<1>2. Append(ctx, h) \in Seq(DOMAIN elements) /\ ToSet(Append(ctx, h)) = ToSet(ctx) \cup {h}
  BY <1>1, AppendMembers
<1>3. DOMAIN ctx = 1 .. Len(ctx) /\ Len(ctx) \in Nat
        /\ \A n \in 1 .. Len(ctx) : ctx[n] \in DOMAIN elements
  OBVIOUS
<1>4. WithHeading(ctx, h) = IF same = {} THEN Append(ctx, h) ELSE t
  BY DEF WithHeading
<1>5. (\A x \in ToSet(ctx) : elements[x].level # elements[h].level) => same = {}
  BY DEF ToSet
<1> HIDE DEF same
<1>6. t = [n \in 1 .. Len(ctx) |-> t[n]] /\ DOMAIN t = 1 .. Len(ctx)
      /\ \A n \in 1 .. Len(ctx) : t[n] = h \/ t[n] = ctx[n]
  BY <1>3
<1> HIDE DEF t
<1>7. t \in Seq(DOMAIN elements)
  BY <1>1, <1>3, <1>6, SequenceIs
<1>8. ToSet(t) \subseteq Headings
  BY <1>3, <1>6 DEF ToSet
<1> QED
  BY <1>2, <1>4, <1>5, <1>7, <1>8

LoopStates ==
  {st \in [result : Seq(Seq(Piece)), current : Seq(DOMAIN elements), used : Nat,
           ctx : Seq(DOMAIN elements), reseeded : BOOLEAN, failed : BOOLEAN] :
     ToSet(st.ctx) \subseteq Headings}

LEMMA FlushedIs ==
  ASSUME ElementsOk, NEW st \in LoopStates
  PROVE  /\ Flushed(st) \in Seq(Seq(Piece))
         /\ ShownBy(Flushed(st)) = ShownBy(st.result) \cup ElementTokens(ToSet(st.current))
<1>1. st.result \in Seq(Seq(Piece)) /\ st.current \in Seq(DOMAIN elements)
  BY DEF LoopStates
<1>2. Pieces(st.current) \in Seq(Piece)
        /\ ToSet(Render(Pieces(st.current))) = ElementTokens(ToSet(st.current))
  BY <1>1, PiecesAre, PiecesShow
<1>3. CASE st.current = <<>>
  <2>1. ToSet(st.current) = {}
    BY <1>3 DEF ToSet
  <2>2. ElementTokens(ToSet(st.current)) = {}
    BY <2>1 DEF ElementTokens
  <2> QED
    BY <1>1, <1>3, <2>2 DEF Flushed
<1>4. CASE st.current # <<>>
  BY <1>1, <1>2, <1>4, ShownByAppended DEF Flushed
<1> QED
  BY <1>3, <1>4

(* What the loop makes of a group while it has not failed: a heading joins the *)
(* current split; an oversized group may be refused, or flushes the split if   *)
(* it has content and is followed by the headings; another group may flush it  *)
(* as well; or joins it.                                                       *)
Heads(st, group, next) ==
  /\ group.root \in Headings /\ ~next.failed /\ next.result = st.result /\ ~next.reseeded
  /\ next.current = Append(st.current, group.root) /\ next.ctx = WithHeading(st.ctx, group.root)

PutsSplit(st, group, next) ==
  /\ ~next.failed /\ next.current = st.ctx /\ next.ctx = st.ctx
  /\ \E split : /\ SplitInto(split, st.ctx, RootOwes(group)) /\ split # <<>>
                /\ next.result = (IF Bodied(st.current) THEN Flushed(st) ELSE st.result) \o split

Flushes(st, group, next) ==
  /\ group.root \notin Headings /\ ~next.failed /\ ~next.reseeded /\ next.result = Flushed(st)
  /\ next.current = st.ctx \o group.all /\ next.ctx = st.ctx

Joins(st, group, next) ==
  /\ group.root \notin Headings /\ ~next.failed /\ ~next.reseeded /\ next.result = st.result
  /\ next.current = st.current \o group.all /\ next.ctx = st.ctx

LEMMA AddGroupIs ==
  ASSUME ElementsOk, NEW st \in LoopStates, NEW group, GroupOk(group)
  PROVE  /\ AddGroup(st, group) \in LoopStates
         /\ ~st.failed /\ ~AddGroup(st, group).failed =>
              \/ Heads(st, group, AddGroup(st, group)) \/ PutsSplit(st, group, AddGroup(st, group))
              \/ Flushes(st, group, AddGroup(st, group)) \/ Joins(st, group, AddGroup(st, group))
         /\ st.failed => AddGroup(st, group).failed
<1> DEFINE next == AddGroup(st, group)
    root == group.root
    all == group.all
    tokens == Tokens(Pieces(all))
    split == SplitOversized(st.ctx, group)
    done == IF Bodied(st.current) THEN Flushed(st) ELSE st.result
    pieces == IF split = Refused THEN <<>> ELSE split
    inctx == Tokens(Pieces(st.ctx))
<1>1. /\ st.result \in Seq(Seq(Piece)) /\ st.current \in Seq(DOMAIN elements) /\ st.used \in Nat
      /\ st.ctx \in Seq(DOMAIN elements) /\ ToSet(st.ctx) \subseteq Headings
      /\ st = [result |-> st.result, current |-> st.current, used |-> st.used, ctx |-> st.ctx,
               reseeded |-> st.reseeded, failed |-> st.failed]
  BY DEF LoopStates
<1>2. /\ root \in DOMAIN elements /\ all \in Seq(DOMAIN elements)
           /\ (HeadingAt(root) <=> root \in Headings)
  BY DEF GroupOk, Headings
<1>3. tokens \in Nat /\ inctx \in Nat
  BY <1>1, <1>2, PiecesAre, RenderIn
<1>4. next = IF st.failed THEN st
             ELSE IF HeadingAt(root)
             THEN [st EXCEPT !.current = Append(@, root), !.used = @ + tokens,
                             !.ctx = WithHeading(@, root), !.reseeded = FALSE]
             ELSE IF tokens > Budget THEN AddSplit(st, split)
             ELSE IF NoRoom(st, tokens)
             THEN [st EXCEPT !.result = Flushed(st), !.current = st.ctx \o all,
                             !.used = inctx + tokens, !.reseeded = FALSE]
             ELSE [st EXCEPT !.current = @ \o all, !.used = @ + tokens, !.reseeded = FALSE]
  BY DEF AddGroup
<1>5. Flushed(st) \in Seq(Seq(Piece)) /\ done \in Seq(Seq(Piece))
  BY <1>1, FlushedIs
<1>6. root \notin Headings =>
        split = Refused \/ (SplitInto(split, st.ctx, RootOwes(group)) /\ split # <<>>)
  BY <1>1, SplitOversizedHolds
<1>7. AddSplit(st, split) =
        [result |-> done \o pieces, current |-> st.ctx, used |-> inctx, ctx |-> st.ctx,
         reseeded |-> TRUE, failed |-> (split = Refused)]
  <2> DEFINE emitted == done \o pieces
      failed == split = Refused
  <2>1. AddSplit(st, split) =
          [st EXCEPT !.result = emitted, !.failed = failed, !.current = st.ctx, !.used = inctx,
                     !.reseeded = TRUE]
    <3> HIDE DEF split
    <3> QED
      BY Zenon DEF AddSplit
  <2> HIDE DEF emitted, failed, inctx, split
  <2>2. AddSplit(st, split) =
          [result |-> emitted, current |-> st.ctx, used |-> inctx, ctx |-> st.ctx,
           reseeded |-> TRUE, failed |-> failed]
    BY <1>1, <2>1
  <2> QED
    BY <2>2 DEF emitted, failed
<1> HIDE DEF tokens, split, next, inctx
<1>8. CASE st.failed
  <2>1. next = st
    BY <1>4, <1>8
  <2> QED
    BY <1>8, <2>1 DEF next
<1>9. CASE ~st.failed /\ HeadingAt(root)
  <2> DEFINE current == Append(st.current, root)
      ctx == WithHeading(st.ctx, root)
  <2>1. next = [result |-> st.result, current |-> current, used |-> st.used + tokens, ctx |-> ctx,
                reseeded |-> FALSE, failed |-> st.failed]
    <3>1. next = [st EXCEPT !.current = current, !.used = st.used + tokens, !.ctx = ctx, !.reseeded =
            FALSE]
      BY <1>4, <1>9
    <3> HIDE DEF current, ctx
    <3> QED
      BY <1>1, <3>1
  <2>2. current \in Seq(DOMAIN elements) /\ ctx \in Seq(DOMAIN elements) /\ ToSet(ctx) \subseteq Headings
        /\ st.used + tokens \in Nat
    BY <1>1, <1>2, <1>3, <1>9, WithHeadingIs
  <2>3. st.failed = FALSE
    BY <1>9 DEF LoopStates
  <2> HIDE DEF current, ctx
  <2>4. next \in LoopStates
    BY <1>1, <2>1, <2>2, <2>3 DEF LoopStates
  <2>5. Heads(st, group, next)
    BY <1>2, <1>9, <2>1 DEF Heads, current, ctx
  <2> QED
    BY <1>9, <2>4, <2>5 DEF next
<1>10. CASE ~st.failed /\ ~HeadingAt(root) /\ tokens > Budget
  <2>1. next = [result |-> done \o pieces, current |-> st.ctx, used |-> inctx, ctx |-> st.ctx,
                reseeded |-> TRUE, failed |-> (split = Refused)]
    BY <1>4, <1>7, <1>10
  <2>2. pieces \in Seq(Seq(Piece))
    BY <1>2, <1>6, <1>10 DEF SplitInto
  <2>3. done \o pieces \in Seq(Seq(Piece))
    BY <1>5, <2>2, ShownByJoined
  <2> DEFINE emitted == done \o pieces
      failed == split = Refused
  <2>4. failed \in BOOLEAN
    OBVIOUS
  <2>5. next \in LoopStates
    <3> HIDE DEF emitted, failed
    <3>1. next = [result |-> emitted, current |-> st.ctx, used |-> inctx, ctx |-> st.ctx,
                  reseeded |-> TRUE, failed |-> failed]
      BY <2>1 DEF emitted, failed
    <3>2. emitted \in Seq(Seq(Piece))
      BY <2>3 DEF emitted
    <3> QED
      BY <1>1, <1>3, <2>4, <3>1, <3>2 DEF LoopStates
  <2>6. ~next.failed => PutsSplit(st, group, next)
    <3> SUFFICES ASSUME ~next.failed PROVE PutsSplit(st, group, next)
      OBVIOUS
    <3>1. split # Refused
      BY <2>1
    <3>2. next.result = done \o split /\ next.current = st.ctx /\ next.ctx = st.ctx
      BY <2>1, <3>1
    <3>3. SplitInto(split, st.ctx, RootOwes(group)) /\ split # <<>>
      BY <1>2, <1>6, <1>10, <3>1
    <3> QED
      BY <3>2, <3>3 DEF PutsSplit
  <2> QED
    BY <1>10, <2>5, <2>6 DEF next
<1>11. CASE ~st.failed /\ ~HeadingAt(root) /\ ~(tokens > Budget) /\ NoRoom(st, tokens)
  <2> DEFINE current == st.ctx \o all
      emitted == Flushed(st)
  <2>1. next = [result |-> emitted, current |-> current, used |-> inctx + tokens, ctx |-> st.ctx,
                reseeded |-> FALSE, failed |-> st.failed]
    <3>1. next = [st EXCEPT !.result = emitted, !.current = current, !.used =
            inctx + tokens, !.reseeded = FALSE]
      BY <1>4, <1>11
    <3> HIDE DEF current, emitted
    <3> QED
      BY <1>1, <3>1
  <2>2. current \in Seq(DOMAIN elements) /\ emitted \in Seq(Seq(Piece)) /\ inctx + tokens \in Nat
    BY <1>1, <1>2, <1>3, <1>5, JoinedIn
  <2>3. st.failed = FALSE
    BY <1>11 DEF LoopStates
  <2> HIDE DEF current, emitted
  <2>4. next \in LoopStates
    BY <1>1, <2>1, <2>2, <2>3 DEF LoopStates
  <2>5. Flushes(st, group, next)
    BY <1>2, <1>11, <2>1 DEF Flushes, current, emitted
  <2> QED
    BY <1>11, <2>4, <2>5 DEF next
<1>12. CASE ~st.failed /\ ~HeadingAt(root) /\ ~(tokens > Budget) /\ ~NoRoom(st, tokens)
  <2> DEFINE current == st.current \o all
  <2>1. next = [result |-> st.result, current |-> current, used |-> st.used + tokens, ctx |-> st.ctx,
                reseeded |-> FALSE, failed |-> st.failed]
    <3>1. next = [st EXCEPT !.current = current, !.used = st.used + tokens, !.reseeded = FALSE]
      BY <1>4, <1>12
    <3> HIDE DEF current
    <3> QED
      BY <1>1, <3>1
  <2>2. current \in Seq(DOMAIN elements) /\ st.used + tokens \in Nat
    BY <1>1, <1>2, <1>3, JoinedIn
  <2>3. st.failed = FALSE
    BY <1>12 DEF LoopStates
  <2> HIDE DEF current
  <2>4. next \in LoopStates
    BY <1>1, <2>1, <2>2, <2>3 DEF LoopStates
  <2>5. Joins(st, group, next)
    BY <1>2, <1>12, <2>1 DEF Joins, current
  <2> QED
    BY <1>12, <2>4, <2>5 DEF next
<1> QED
  BY <1>8, <1>9, <1>10, <1>11, <1>12

(* The loop so far: what is owed is shown or in the current split, all of it *)
(* shown if only the headings were seeded again; the headings of the current *)
(* split are in the context, and that has only those seen.                   *)
LoopHolds(st, owed, met) ==
  ~st.failed =>
    /\ owed \subseteq ShownBy(st.result) \cup ElementTokens(ToSet(st.current))
    /\ st.reseeded => owed \subseteq ShownBy(st.result)
    /\ ToSet(st.current) \cap Headings \subseteq ToSet(st.ctx)
    /\ ToSet(st.ctx) \subseteq met

LEMMA AddGroupHolds ==
  ASSUME ElementsOk, NEW st \in LoopStates, NEW group, GroupOk(group), NEW owed, NEW met,
         LoopHolds(st, owed, met),
         group.root \in Headings =>
           group.all = <<group.root>> /\ \A x \in met : elements[x].level # elements[group.root].level
  PROVE  LoopHolds(AddGroup(st, group), owed \cup RootOwes(group), met \cup {group.root})
<1> DEFINE next == AddGroup(st, group)
    root == group.root
    all == group.all
    more == RootOwes(group)
<1>1. /\ next \in LoopStates
      /\ ~st.failed /\ ~next.failed =>
           \/ Heads(st, group, next) \/ PutsSplit(st, group, next)
           \/ Flushes(st, group, next) \/ Joins(st, group, next)
      /\ st.failed => next.failed
  BY AddGroupIs
<1> HIDE DEF next
<1> SUFFICES ASSUME ~next.failed
             PROVE  /\ owed \cup more
                         \subseteq ShownBy(next.result) \cup ElementTokens(ToSet(next.current))
                    /\ next.reseeded => owed \cup more \subseteq ShownBy(next.result)
                    /\ ToSet(next.current) \cap Headings \subseteq ToSet(next.ctx)
                    /\ ToSet(next.ctx) \subseteq met \cup {root}
  BY DEF LoopHolds, next
<1>2. ~st.failed
  BY <1>1
<1>3. /\ st.result \in Seq(Seq(Piece)) /\ st.current \in Seq(DOMAIN elements)
      /\ st.ctx \in Seq(DOMAIN elements) /\ ToSet(st.ctx) \subseteq Headings
  BY DEF LoopStates
<1>4. /\ owed \subseteq ShownBy(st.result) \cup ElementTokens(ToSet(st.current))
      /\ ToSet(st.current) \cap Headings \subseteq ToSet(st.ctx)
      /\ ToSet(st.ctx) \subseteq met
  BY <1>2 DEF LoopHolds
<1>5. /\ root \in DOMAIN elements /\ all \in Seq(DOMAIN elements) /\ more
           \subseteq ElementTokens(ToSet(all))
      /\ root \notin Headings => ToSet(all) \cap Headings = {}
  BY GroupShows DEF GroupOk
<1>6. /\ Flushed(st) \in Seq(Seq(Piece))
      /\ ShownBy(Flushed(st)) = ShownBy(st.result) \cup ElementTokens(ToSet(st.current))
  BY FlushedIs
<1> HIDE DEF more
<1>7. CASE Heads(st, group, next)
  <2>1. root \in Headings /\ next.result = st.result /\ ~next.reseeded
        /\ next.current = Append(st.current, root) /\ next.ctx = WithHeading(st.ctx, root)
    BY <1>7 DEF Heads
  <2>2. next.ctx = Append(st.ctx, root)
    <3>1. \A x \in ToSet(st.ctx) : elements[x].level # elements[root].level
      BY <1>4, <2>1
    <3> QED
      BY <1>3, <2>1, <3>1, WithHeadingIs
  <2>3. ToSet(next.ctx) = ToSet(st.ctx) \cup {root} /\ ToSet(next.current) = ToSet(st.current) \cup {root}
    BY <1>3, <1>5, <2>1, <2>2, AppendMembers
  <2>4. ToSet(all) = {root}
    <3>1. all = <<root>>
      BY <2>1
    <3> QED
      BY <3>1 DEF ToSet
  <2>5. ElementTokens(ToSet(next.current)) =
          ElementTokens(ToSet(st.current)) \cup ElementTokens(ToSet(all))
    BY <2>3, <2>4, TokensJoined
  <2> QED
    BY <1>4, <1>5, <2>1, <2>3, <2>5
<1>8. CASE PutsSplit(st, group, next)
  <2> DEFINE done == IF Bodied(st.current) THEN Flushed(st) ELSE st.result
  <2>1. next.current = st.ctx /\ next.ctx = st.ctx
    BY <1>8 DEF PutsSplit
  <2>2. PICK split : /\ SplitInto(split, st.ctx, more) /\ split # <<>> /\ next.result = done \o split
    BY <1>8 DEF PutsSplit, more
  <2>3. split \in Seq(Seq(Piece)) /\ more \subseteq ShownBy(split)
        /\ \A n \in DOMAIN split : ElementTokens(ToSet(st.ctx)) \subseteq ToSet(Render(split[n]))
    BY <2>2 DEF SplitInto
  <2>4. ElementTokens(ToSet(st.ctx)) \subseteq ShownBy(split)
    <3>1. 1 \in DOMAIN split
      BY <2>2, <2>3
    <3> QED
      BY <2>3, <3>1 DEF ShownBy
  <2>5. done \in Seq(Seq(Piece)) /\ owed \subseteq ShownBy(done) \cup ShownBy(split)
    <3>1. CASE Bodied(st.current)
      BY <1>4, <1>6, <3>1
    <3>2. CASE ~Bodied(st.current)
      <4>1. ToSet(st.current) \subseteq Headings
        BY <1>3, <3>2 DEF Bodied, ToSet, Headings
      <4>2. ElementTokens(ToSet(st.current)) \subseteq ElementTokens(ToSet(st.ctx))
        BY <1>4, <4>1, TokensJoined
      <4> QED
        BY <1>3, <1>4, <2>4, <3>2, <4>2
    <3> QED
      BY <3>1, <3>2
  <2> HIDE DEF done
  <2>6. ShownBy(next.result) = ShownBy(done) \cup ShownBy(split)
    BY <2>2, <2>3, <2>5, ShownByJoined
  <2> QED
    BY <1>4, <2>1, <2>3, <2>5, <2>6
<1>9. CASE Flushes(st, group, next)
  <2>1. root \notin Headings /\ ~next.reseeded /\ next.result = Flushed(st)
        /\ next.current = st.ctx \o all /\ next.ctx = st.ctx
    BY <1>9 DEF Flushes
  <2>2. ToSet(next.current) = ToSet(st.ctx) \cup ToSet(all)
    BY <1>3, <1>5, <2>1, JoinedMembers
  <2>3. ElementTokens(ToSet(next.current)) = ElementTokens(ToSet(st.ctx)) \cup ElementTokens(ToSet(all))
    BY <2>2, TokensJoined
  <2> QED
    BY <1>4, <1>5, <1>6, <2>1, <2>2, <2>3
<1>10. CASE Joins(st, group, next)
  <2>1. root \notin Headings /\ ~next.reseeded /\ next.result = st.result
        /\ next.current = st.current \o all /\ next.ctx = st.ctx
    BY <1>10 DEF Joins
  <2>2. ToSet(next.current) = ToSet(st.current) \cup ToSet(all)
    BY <1>3, <1>5, <2>1, JoinedMembers
  <2>3. ElementTokens(ToSet(next.current)) =
          ElementTokens(ToSet(st.current)) \cup ElementTokens(ToSet(all))
    BY <2>2, TokensJoined
  <2> QED
    BY <1>4, <1>5, <2>1, <2>2, <2>3
<1> QED
  BY <1>1, <1>2, <1>7, <1>8, <1>9, <1>10

(* Two elements whose levels are not the same one of S. *)
LevelsApart(S) ==
  {p \in (DOMAIN elements) \X (DOMAIN elements) :
     ~(elements[p[1]].level = elements[p[2]].level /\ elements[p[1]].level \in S)}

LEMMA ApartIs ==
  ASSUME ElementsOk, NEW ids \in Seq(DOMAIN elements), NEW S, S \subseteq 1 .. 6
  PROVE  Pairwise(ids, LevelsApart(S)) <=> SplitLevels(ids) \cap S = {}
<1>1. DOMAIN ids = 1 .. Len(ids) /\ Len(ids) \in Nat
        /\ \A n \in 1 .. Len(ids) : ids[n] \in DOMAIN elements
  OBVIOUS
<1>2. ASSUME SplitLevels(ids) \cap S = {}, NEW i \in 1 .. Len(ids), NEW j \in 1 .. Len(ids), i < j
      PROVE  <<ids[i], ids[j]>> \in LevelsApart(S)
  <2>1. SUFFICES ASSUME elements[ids[i]].level = elements[ids[j]].level, elements[ids[i]].level \in S
                 PROVE  FALSE
    BY <1>1 DEF LevelsApart
  <2>2. i # j /\ i \in DOMAIN ids /\ j \in DOMAIN ids
    BY <1>1, <1>2
  <2>3. elements[ids[i]].level \in SplitLevels(ids)
    BY <2>1, <2>2 DEF SplitLevels
  <2> QED
    BY <1>2, <2>1, <2>3
<1>3. ASSUME Pairwise(ids, LevelsApart(S)), NEW l \in SplitLevels(ids) \cap S PROVE FALSE
  <2>1. PICK m \in 1 .. Len(ids), n \in 1 .. Len(ids) :
          m # n /\ elements[ids[m]].level = l /\ elements[ids[n]].level = l
    BY <1>1 DEF SplitLevels
  <2>2. CASE m < n
    <3>1. <<ids[m], ids[n]>> \in LevelsApart(S)
      BY <1>3, <2>2 DEF Pairwise
    <3> QED
      BY <2>1, <3>1 DEF LevelsApart
  <2>3. CASE n < m
    <3>1. <<ids[n], ids[m]>> \in LevelsApart(S)
      BY <1>3, <2>3 DEF Pairwise
    <3> QED
      BY <2>1, <3>1 DEF LevelsApart
  <2> QED
    BY <2>1, <2>2, <2>3
<1> QED
  BY <1>2, <1>3 DEF Pairwise

(* The equations of the greedy loop. *)
AddGroupsBy(groups, f) ==
  /\ f[0] = NothingSplit /\ f[Len(groups)] = AddGroups(groups)
  /\ \A n \in 1 .. Len(groups) : f[n] = AddGroup(f[n - 1], groups[n])

LEMMA AddGroupsByIs ==
  ASSUME ElementsOk, NEW groups, Len(groups) \in Nat,
         \A n \in 1 .. Len(groups) : GroupOk(groups[n])
  PROVE  \E f \in [0 .. Len(groups) -> LoopStates] : AddGroupsBy(groups, f)
<1> DEFINE
    L == Len(groups)
    X == LoopStates
    first == NothingSplit
    Step(x, n) == AddGroup(x, groups[n])
    T == [w \in X \X (1 .. L) |-> Step(w[1], w[2])]
    Then(g, n) == IF n = 0 THEN NothingSplit ELSE AddGroup(g[n - 1], groups[n])
    Solves(g) == g = [n \in 0 .. L |-> Then(g, n)]
<1>1. L \in Nat /\ NothingSplit \in X
  <2>1. <<>> \in Seq(Seq(Piece)) /\ <<>> \in Seq(DOMAIN elements) /\ ToSet(<<>>) = {}
    BY DEF ToSet
  <2> QED
    BY <2>1 DEF NothingSplit, LoopStates
<1>2. ASSUME NEW x \in X, NEW n \in 1 .. L PROVE Step(x, n) \in X
  BY AddGroupIs
<1> HIDE DEF L, X
<1>3. StaysIn(T, X, L)
  <2> HIDE DEF Step
  <2> QED
    BY <1>2 DEF StaysIn
<1>4. PICK f \in [0 .. L -> X] : f[0] = first /\ \A n \in 1 .. L : f[n] = T[<<f[n - 1], n>>]
  <2>1. L \in Nat /\ first \in X
    BY <1>1
  <2> HIDE DEF T, first
  <2>2. PICK h \in [0 .. L -> X] : Follows(h, first, T, L)
    BY <1>3, <2>1, IteratedBy
  <2>3. h[0] = first /\ \A n \in 1 .. L : h[n] = T[<<h[n - 1], n>>]
    BY <2>2, Zenon DEF Follows
  <2> QED
    BY <2>3, Zenon
<1>5. ASSUME NEW n \in 1 .. L PROVE f[n] = Step(f[n - 1], n)
  <2>1. f[n - 1] \in X
    BY <1>1
  <2>2. T[<<f[n - 1], n>>] = Step(f[n - 1], n)
    <3> HIDE DEF Step
    <3> QED
      BY <2>1
  <2> HIDE DEF Step, T
  <2> QED
    BY <1>4, <2>2, Zenon
<1>6. Solves(f)
  <2>1. f = [n \in 0 .. L |-> f[n]]
    OBVIOUS
  <2>2. ASSUME NEW n \in 0 .. L PROVE f[n] = Then(f, n)
    <3>1. CASE n = 0
      BY <1>4, <3>1, Zenon
    <3>2. CASE n # 0
      <4>1. n \in 1 .. L
        BY <1>1, <3>2
      <4>2. f[n] = Step(f[n - 1], n)
        BY <1>5, <4>1, Zenon
      <4> QED
        BY <3>2, <4>2, Zenon
    <3> QED
      BY <3>1, <3>2, Zenon
  <2> HIDE DEF Then
  <2> QED
    BY <2>1, <2>2
<1> DEFINE g == CHOOSE g : Solves(g)
<1>7. Solves(g)
  <2> HIDE DEF Solves
  <2> QED
    BY <1>6
<1>8. g[L] = AddGroups(groups)
  BY DEF AddGroups, L
<1> HIDE DEF g
<1>9. /\ g = [n \in 0 .. L |-> g[n]] /\ g[0] = NothingSplit
      /\ \A n \in 1 .. L : g[n] = Step(g[n - 1], n)
  <2>1. g = [n \in 0 .. L |-> Then(g, n)]
    BY <1>7
  <2>2. \A n \in 0 .. L : g[n] = Then(g, n)
    <3> HIDE DEF Then
    <3> QED
      BY <2>1
  <2>3. \A n \in 1 .. L : n \in 0 .. L /\ n # 0
    BY <1>1
  <2>4. 0 \in 0 .. L
    BY <1>1
  <2>5. g[0] = NothingSplit
    BY <2>2, <2>4, Zenon
  <2>6. \A n \in 1 .. L : g[n] = Step(g[n - 1], n)
    BY <2>2, <2>3, Zenon
  <2>7. g = [n \in 0 .. L |-> g[n]]
    <3> HIDE DEF Then
    <3> QED
      BY <2>1, <2>2
  <2> QED
    BY <2>5, <2>6, <2>7
<1>10. g \in [0 .. L -> X]
  <2> HIDE DEF Step
  <2> DEFINE P == {n \in 0 .. L : g[n] \in X}
  <2>1. 0 \in P
    BY <1>1, <1>9
  <2>2. ASSUME NEW n \in 1 .. L, n - 1 \in P PROVE n \in P
    <3>1. g[n - 1] \in X /\ n \in 0 .. L
      BY <1>1, <2>2
    <3>2. Step(g[n - 1], n) \in X
      BY <1>2, <3>1
    <3>3. g[n] = Step(g[n - 1], n)
      BY <1>9
    <3> QED
      BY <3>1, <3>2, <3>3
  <2>3. \A n \in 0 .. L : n \in P
    <3> HIDE DEF P
    <3> QED
      BY <1>1, <2>1, <2>2, UpTo
  <2> QED
    BY <1>9, <2>3
<1> HIDE DEF Then, Solves, T
<1>11. AddGroupsBy(groups, g)
  <2>1. \A n \in 1 .. Len(groups) : g[n] = AddGroup(g[n - 1], groups[n])
    BY <1>9, Zenon DEF L
  <2>2. g[0] = NothingSplit /\ g[Len(groups)] = AddGroups(groups)
    BY <1>8, <1>9, Zenon DEF L
  <2> QED
    BY <2>1, <2>2, Zenon DEF AddGroupsBy
<1> QED
  BY <1>10, <1>11, Zenon DEF L, X

(* The loop over groups whose headings have levels of their own. *)
LEMMA AddGroupsHold ==
  ASSUME ElementsOk, NEW groups, Len(groups) \in Nat,
         \A n \in 1 .. Len(groups) :
           /\ GroupOk(groups[n])
           /\ groups[n].root \in Headings => groups[n].all = <<groups[n].root>>,
         \A m, n \in 1 .. Len(groups) :
           m < n /\ groups[n].root \in Headings =>
             elements[groups[m].root].level # elements[groups[n].root].level
  PROVE  LoopHolds(AddGroups(groups), UNION {RootOwes(groups[n]) : n \in 1 .. Len(groups)},
                   {groups[n].root : n \in 1 .. Len(groups)})
         /\ AddGroups(groups) \in LoopStates
<1> DEFINE L == Len(groups)
    owed(n) == UNION {RootOwes(groups[m]) : m \in 1 .. n}
    met(n) == {groups[m].root : m \in 1 .. n}
<1>1. PICK f \in [0 .. Len(groups) -> LoopStates] : AddGroupsBy(groups, f)
  BY AddGroupsByIs
<1> DEFINE P == {n \in 0 .. L : LoopHolds(f[n], owed(n), met(n))}
<1>2. 0 \in P
  <2>1. 1 .. 0 = {} /\ 0 \in 0 .. L
    OBVIOUS
  <2>2. f[0] = NothingSplit
    BY <1>1 DEF AddGroupsBy
  <2>3. ToSet(<<>>) = {}
    BY DEF ToSet
  <2>4. f[0].current = <<>> /\ f[0].ctx = <<>>
    BY <2>2 DEF NothingSplit
  <2>5. owed(0) = {}
    BY <2>1
  <2> HIDE DEF owed, met
  <2>6. LoopHolds(f[0], owed(0), met(0))
    BY <2>3, <2>4, <2>5 DEF LoopHolds
  <2> QED
    BY <2>1, <2>6
<1>3. ASSUME NEW n \in 1 .. L, n - 1 \in P PROVE n \in P
  <2> DEFINE g == groups[n]
      st == f[n - 1]
      o == owed(n - 1)
      s == met(n - 1)
  <2>1. n \in 0 .. L /\ n - 1 \in 0 .. L /\ \A m \in 1 .. n : m \in 1 .. n - 1 \/ m = n
    OBVIOUS
  <2>2. st \in LoopStates /\ f[n] = AddGroup(st, g)
    BY <1>1, <2>1 DEF AddGroupsBy
  <2>3. GroupOk(g) /\ (g.root \in Headings => g.all = <<g.root>>)
    OBVIOUS
  <2>4. g.root \in Headings => \A x \in s : elements[x].level # elements[g.root].level
    <3> SUFFICES ASSUME g.root \in Headings, NEW x \in s PROVE elements[x].level # elements[g.root].level
      OBVIOUS
    <3>1. PICK m \in 1 .. n - 1 : x = groups[m].root
      OBVIOUS
    <3>2. m \in 1 .. L /\ m < n
      OBVIOUS
    <3> QED
      BY <3>1, <3>2
  <2>5. LoopHolds(st, o, s)
    BY <1>3
  <2>6. owed(n) = o \cup RootOwes(g) /\ met(n) = s \cup {g.root}
    BY <2>1
  <2> HIDE DEF st, g, o, s
  <2>7. LoopHolds(AddGroup(st, g), o \cup RootOwes(g), s \cup {g.root})
    BY <2>2, <2>3, <2>4, <2>5, AddGroupHolds
  <2> HIDE DEF owed, met
  <2>8. LoopHolds(f[n], owed(n), met(n))
    BY <2>2, <2>6, <2>7
  <2> QED
    BY <2>1, <2>8
<1>4. \A n \in 0 .. L : n \in P
  <2> HIDE DEF P
  <2> QED
    BY <1>2, <1>3, UpTo
<1>5. L \in 0 .. L
  OBVIOUS
<1>6. f[L] = AddGroups(groups) /\ f[L] \in LoopStates
  BY <1>1, <1>5 DEF AddGroupsBy
<1>7. LoopHolds(f[L], owed(L), met(L))
  BY <1>4, <1>5
<1> HIDE DEF P
<1> QED
  BY <1>6, <1>7

(* The elements of ids that cannot be left out: headings, roots, and what the *)
(* roots refer to.                                                           *)
Owed(ids) ==
  {i \in ToSet(ids) :
     \/ i \in Headings \/ i \notin AllReferenced(ids)
     \/ \E r \in ToSet(ids) : r \notin Headings /\ r \notin AllReferenced(ids)
          /\ i \in ToSet(InlineRefs(r))}

LEMMA GroupsOwe ==
  ASSUME ElementsOk, HeadingsFree, NEW ids \in Seq(DOMAIN elements)
  PROVE  ElementTokens(Owed(ids))
           \subseteq UNION {RootOwes(ElementGroups(ids)[n]) : n \in 1 .. Len(ElementGroups(ids))}
<1> DEFINE kept == Kept(ids)
    gs == ElementGroups(ids)
    all == UNION {RootOwes(gs[n]) : n \in 1 .. Len(gs)}
<1>1. /\ Len(gs) = Len(kept)
      /\ \A n \in 1 .. Len(kept) : kept[n] \in ToSet(ids) /\ gs[n] = GroupOf(kept[n], ids)
      /\ \A i \in ToSet(ids) : i \in Headings \/ i \notin AllReferenced(ids) =>
           \E n \in 1 .. Len(kept) : kept[n] = i
  BY GroupsAre
<1> HIDE DEF gs, kept
<1>2. ASSUME NEW i \in ToSet(ids), i \in Headings \/ i \notin AllReferenced(ids)
      PROVE  OfElement(i) \subseteq all
  <2>1. PICK n \in 1 .. Len(kept) : kept[n] = i
    BY <1>1, <1>2
  <2>2. gs[n].root = i
    BY <1>1, <2>1, GroupOfIs
  <2> QED
    BY <1>1, <2>2 DEF RootOwes
<1>3. ASSUME NEW i \in ToSet(ids), NEW r \in ToSet(ids), r \notin Headings, r \notin AllReferenced(ids),
             i \in ToSet(InlineRefs(r))
      PROVE  OfElement(i) \subseteq all
  <2>1. PICK n \in 1 .. Len(kept) : kept[n] = r
    BY <1>1, <1>3
  <2>2. gs[n] = GroupOf(r, ids) /\ n \in 1 .. Len(gs)
    BY <1>1, <2>1
  <2>3. gs[n].root = r /\ i \in ToSet(Tail(gs[n].all))
    BY <1>3, <2>2, GroupOfIs
  <2>4. OfElement(i) \subseteq RootOwes(gs[n])
    BY <1>3, <2>3 DEF RootOwes, ElementTokens
  <2> QED
    BY <2>2, <2>4
<1> HIDE DEF all
<1>4. \A i \in Owed(ids) : OfElement(i) \subseteq all
  BY <1>2, <1>3 DEF Owed
<1> QED
  BY <1>4 DEF ElementTokens, all, gs

LEMMA RefusedIs == Refused \in Seq(Seq(Piece))
<1>1. <<>> \in Seq(Tokened)
  OBVIOUS
<1>2. RawText(<<>>) \in Piece
  BY <1>1, RawTextIs
<1> QED
  BY <1>2 DEF Refused

(* What the greedy split returns is a list of splits. *)
LEMMA SplitByElementsIn ==
  ASSUME ElementsOk, HeadingsFree, NEW ids \in Seq(DOMAIN elements)
  PROVE  SplitByElements(ids) \in Seq(Seq(Piece)) /\ <<Pieces(ids)>> \in Seq(Seq(Piece))
<1> DEFINE gs == ElementGroups(ids)
    st == AddGroups(gs)
    rest == Remainder(st)
<1>1. Len(gs) \in Nat /\ \A n \in 1 .. Len(gs) : GroupOk(gs[n])
  BY GroupsAre, GroupOfIs
<1> HIDE DEF gs
<1>2. PICK f \in [0 .. Len(gs) -> LoopStates] : AddGroupsBy(gs, f)
  BY <1>1, AddGroupsByIs
<1>3. st \in LoopStates
  <2>1. Len(gs) \in 0 .. Len(gs)
    BY <1>1
  <2> QED
    BY <1>2, <2>1 DEF AddGroupsBy
<1> HIDE DEF st
<1>4. rest \in Seq(Seq(Piece))
  BY <1>3, RefusedIs, FlushedIs DEF Remainder, LoopStates
<1>5. Pieces(ids) \in Seq(Piece)
  BY PiecesAre
<1>6. <<Pieces(ids)>> \in Seq(Seq(Piece))
  BY <1>5
<1> HIDE DEF rest
<1> QED
  BY <1>4, <1>6 DEF SplitByElements, Else, rest, st, gs

LEMMA WholeShows ==
  ASSUME ElementsOk, NEW ids \in Seq(DOMAIN elements)
  PROVE  ElementTokens(Owed(ids)) \subseteq ShownBy(<<Pieces(ids)>>)
<1> DEFINE p == Pieces(ids)
    one == <<p>>
<1>1. ToSet(Render(Pieces(ids))) = ElementTokens(ToSet(ids))
  BY PiecesShow
<1>2. ElementTokens(Owed(ids)) \subseteq ElementTokens(ToSet(ids))
  BY DEF Owed, ElementTokens
<1>3. DOMAIN one = {1} /\ one[1] = p
  OBVIOUS
<1> HIDE DEF one, p
<1>4. ShownBy(one) = ToSet(Render(p))
  BY <1>3 DEF ShownBy
<1> QED
  BY <1>1, <1>2, <1>4 DEF one, p

(* The greedy split of elements whose headings have levels of their own      *)
(* leaves out nothing it may not leave out.                                  *)
LEMMA SplitByElementsHolds ==
  ASSUME ElementsOk, HeadingsFree, NEW ids \in Seq(DOMAIN elements), SplitLevels(ids) = {}
  PROVE  \/ SplitByElements(ids) = Refused
         \/ ElementTokens(Owed(ids)) \subseteq ShownBy(SplitByElements(ids))
<1> DEFINE kept == Kept(ids)
    gs == ElementGroups(ids)
    owed == UNION {RootOwes(gs[n]) : n \in 1 .. Len(gs)}
    met == {gs[n].root : n \in 1 .. Len(gs)}
    st == AddGroups(gs)
    rest == Remainder(st)
<1>1. /\ kept \in Seq(DOMAIN elements) /\ Len(gs) = Len(kept) /\ Len(kept) \in Nat
      /\ \A n \in 1 .. Len(kept) : kept[n] \in ToSet(ids) /\ gs[n] = GroupOf(kept[n], ids)
  BY GroupsAre
<1>2. \A n \in 1 .. Len(gs) : /\ GroupOk(gs[n]) /\ gs[n].root = kept[n]
                              /\ gs[n].root \in Headings => gs[n].all = <<gs[n].root>>
  BY <1>1, GroupOfIs
<1>3. Pairwise(kept, LevelsApart(1 .. 6))
  <2>1. Pairwise(ids, LevelsApart(1 .. 6))
    BY ApartIs
  <2> QED
    BY <2>1, AmongPairwise DEF Kept
<1>4. ElementTokens(Owed(ids)) \subseteq owed
  BY GroupsOwe
<1> HIDE DEF gs, kept
<1>5. \A m, n \in 1 .. Len(gs) :
        m < n /\ gs[n].root \in Headings => elements[gs[m].root].level # elements[gs[n].root].level
  <2> SUFFICES ASSUME NEW m \in 1 .. Len(gs), NEW n \in 1 .. Len(gs), m < n, gs[n].root \in Headings,
                      elements[gs[m].root].level = elements[gs[n].root].level
               PROVE  FALSE
    OBVIOUS
  <2>1. <<kept[m], kept[n]>> \in LevelsApart(1 .. 6)
    BY <1>1, <1>3 DEF Pairwise
  <2>2. gs[m].root = kept[m] /\ gs[n].root = kept[n] /\ kept[n] \in DOMAIN elements
    BY <1>1, <1>2
  <2>3. elements[kept[n]].level \in 1 .. 6
    <3>1. elements[kept[n]].level \in 0 .. 6 /\ elements[kept[n]].level > 0
      BY <2>2, ElementIs DEF Headings, HeadingAt
    <3> QED
      BY <3>1
  <2> QED
    BY <2>1, <2>2, <2>3 DEF LevelsApart
<1>6. LoopHolds(st, owed, met) /\ st \in LoopStates
  BY <1>1, <1>2, <1>5, AddGroupsHold
<1> HIDE DEF st, owed, met
<1>7. rest = Refused \/ owed \subseteq ShownBy(rest)
  BY <1>6, FlushedIs DEF Remainder, LoopHolds
<1>8. ElementTokens(Owed(ids)) \subseteq ShownBy(<<Pieces(ids)>>)
  BY WholeShows
<1> DEFINE whole == <<Pieces(ids)>>
<1>9. SplitByElements(ids) \in {whole, Else(rest, whole)}
  BY DEF SplitByElements, rest, st, gs
<1>10. SplitByElements(ids) = whole \/ SplitByElements(ids) = rest
  BY <1>9 DEF Else
<1> HIDE DEF rest, whole
<1> QED
  BY <1>4, <1>7, <1>8, <1>10 DEF whole

-----------------------------------------------------------------------------
(* Splitting: the scan for headings of one level *)

LEMMA BeforeMembers ==
  ASSUME NEW S, NEW a \in Seq(S), NEW b \in Seq(S), NEW R
  PROVE  AllBefore(a, b, R) <=> \A x \in ToSet(a), y \in ToSet(b) : <<x, y>> \in R
<1>1. DOMAIN a = 1 .. Len(a) /\ DOMAIN b = 1 .. Len(b)
  OBVIOUS
<1>2. (\A x \in ToSet(a) : \E i \in 1 .. Len(a) : x = a[i]) /\ \A i \in 1 .. Len(a) : a[i] \in ToSet(a)
  BY <1>1 DEF ToSet
<1>3. (\A x \in ToSet(b) : \E i \in 1 .. Len(b) : x = b[i]) /\ \A i \in 1 .. Len(b) : b[i] \in ToSet(b)
  BY <1>1 DEF ToSet
<1> QED
  BY <1>2, <1>3 DEF AllBefore

(* Elements of other levels than S are apart from all. *)
LEMMA FreeOfLevels ==
  ASSUME NEW S, NEW s \in Seq(DOMAIN elements), \A x \in ToSet(s) : elements[x].level \notin S
  PROVE  /\ Pairwise(s, LevelsApart(S))
         /\ \A t \in Seq(DOMAIN elements) : AllBefore(s, t, LevelsApart(S))
              /\ AllBefore(t, s, LevelsApart(S))
<1>1. DOMAIN s = 1 .. Len(s) /\ \A n \in 1 .. Len(s) : s[n] \in DOMAIN elements
  OBVIOUS
<1>2. \A n \in 1 .. Len(s) : elements[s[n]].level \notin S
  BY <1>1 DEF ToSet
<1>3. Pairwise(s, LevelsApart(S))
  BY <1>1, <1>2 DEF Pairwise, LevelsApart
<1>4. ASSUME NEW t \in Seq(DOMAIN elements)
      PROVE  AllBefore(s, t, LevelsApart(S)) /\ AllBefore(t, s, LevelsApart(S))
  <2>1. \A x \in ToSet(s) : x \in DOMAIN elements
    BY <1>1 DEF ToSet
  <2>2. \A y \in ToSet(t) : y \in DOMAIN elements
    BY DEF ToSet
  <2>3. \A x \in ToSet(s), y \in ToSet(t) : <<x, y>> \in LevelsApart(S) /\ <<y, x>> \in LevelsApart(S)
    BY <2>1, <2>2 DEF LevelsApart
  <2> QED
    BY <2>3, BeforeMembers
<1> QED
  BY <1>3, <1>4

(* An element apart from all that come before it. *)
LEMMA ApartAppended ==
  ASSUME NEW S, NEW s \in Seq(DOMAIN elements), Pairwise(s, LevelsApart(S)), NEW i \in DOMAIN elements,
         \A x \in ToSet(s) : elements[x].level = elements[i].level => elements[x].level \notin S
  PROVE  Pairwise(s \o <<i>>, LevelsApart(S)) /\ Pairwise(Append(s, i), LevelsApart(S))
<1> DEFINE one == <<i>>
<1>1. one \in Seq(DOMAIN elements) /\ Len(one) = 1 /\ ToSet(one) = {i} /\ s \o one = Append(s, i)
  BY DEF ToSet
<1> HIDE DEF one
<1>2. Pairwise(one, LevelsApart(S))
  BY <1>1 DEF Pairwise
<1>3. \A x \in ToSet(s) : x \in DOMAIN elements
  BY DEF ToSet
<1>4. \A x \in ToSet(s), y \in ToSet(one) : <<x, y>> \in LevelsApart(S)
  BY <1>1, <1>3 DEF LevelsApart
<1>5. AllBefore(s, one, LevelsApart(S))
  BY <1>1, <1>4, BeforeMembers
<1>6. Pairwise(s \o one, LevelsApart(S))
  BY <1>1, <1>2, <1>5, PairwiseJoined
<1> QED
  BY <1>1, <1>6 DEF one

ScanStates ==
  {st \in [chunks : Seq([ids : Seq(DOMAIN elements), ctx : Seq(DOMAIN elements)]),
           parents : Seq(DOMAIN elements), preamble : Seq(DOMAIN elements)] :
     ToSet(st.parents) \subseteq Headings}

(* What the scan makes of a group: it begins a chunk; or the last chunk gets  *)
(* it; or no chunk has begun.  A higher heading becomes a parent.             *)
Begins(level, st, group, next) ==
  /\ elements[group.root].level = level /\ next.preamble = st.preamble
  /\ next.chunks = Append(st.chunks, [ids |-> group.all, ctx |-> st.parents])

Extends(level, st, group, next) ==
  /\ elements[group.root].level # level /\ next.preamble = st.preamble
  /\ st.chunks # <<>> /\ Len(next.chunks) = Len(st.chunks)
  /\ \A n \in 1 .. Len(st.chunks) :
       /\ next.chunks[n].ctx = st.chunks[n].ctx
       /\ next.chunks[n].ids =
            IF n = Len(st.chunks) THEN st.chunks[n].ids \o group.all ELSE st.chunks[n].ids

Waits(level, st, group, next) ==
  /\ elements[group.root].level # level /\ st.chunks = <<>> /\ next.chunks = <<>>
  /\ next.preamble = IF elements[group.root].level \in 1 .. level - 1 THEN st.preamble
                     ELSE st.preamble \o group.all

LEMMA ScanGroupIs ==
  ASSUME ElementsOk, NEW level \in 1 .. 6, NEW st \in ScanStates, NEW group, GroupOk(group)
  PROVE  /\ ScanGroup(level, st, group) \in ScanStates
         /\ ScanGroup(level, st, group).parents =
              IF elements[group.root].level \in 1 .. level - 1 THEN WithHeading(st.parents, group.root)
              ELSE st.parents
         /\ \/ Begins(level, st, group, ScanGroup(level, st, group))
            \/ Extends(level, st, group, ScanGroup(level, st, group))
            \/ Waits(level, st, group, ScanGroup(level, st, group))
<1> DEFINE next == ScanGroup(level, st, group)
    Chunks == [ids : Seq(DOMAIN elements), ctx : Seq(DOMAIN elements)]
    root == group.root
    all == group.all
    here == elements[root].level
    ending == Last(st.chunks)
    longer == [ending EXCEPT !.ids = @ \o all]
    extended == Front(st.chunks) \o <<longer>>
    parents == IF here > 0 /\ here < level THEN WithHeading(st.parents, root) ELSE st.parents
    chunks == IF st.chunks # <<>> THEN extended ELSE st.chunks
    preamble == IF st.chunks # <<>> \/ (here > 0 /\ here < level) THEN st.preamble ELSE st.preamble \o all
    new == [ids |-> all, ctx |-> st.parents]
<1>1. /\ st.chunks \in Seq(Chunks) /\ st.parents \in Seq(DOMAIN elements)
      /\ st.preamble \in Seq(DOMAIN elements) /\ ToSet(st.parents) \subseteq Headings
      /\ st = [chunks |-> st.chunks, parents |-> st.parents, preamble |-> st.preamble]
  BY DEF ScanStates
<1>2. root \in DOMAIN elements /\ all \in Seq(DOMAIN elements) /\ here \in 0 .. 6
  BY ElementIs DEF GroupOk
<1>3. next = IF here = level THEN [st EXCEPT !.chunks = Append(@, new)]
             ELSE [st EXCEPT !.parents = parents, !.chunks = chunks, !.preamble = preamble]
  BY DEF ScanGroup
<1>4. here \in 1 .. level - 1 <=> here > 0 /\ here < level
  BY <1>2
<1> HIDE DEF next
<1>5. CASE here = level
  <2> DEFINE cs == Append(st.chunks, new)
  <2>1. next = [chunks |-> cs, parents |-> st.parents, preamble |-> st.preamble]
    <3>1. next = [st EXCEPT !.chunks = cs]
      BY <1>3, <1>5
    <3> HIDE DEF cs
    <3> QED
      BY <1>1, <3>1
  <2>2. new \in Chunks
    BY <1>1, <1>2
  <2>3. cs \in Seq(Chunks)
    <3> HIDE DEF new, Chunks
    <3> QED
      BY <1>1, <2>2
  <2> HIDE DEF cs
  <2>4. next \in ScanStates /\ next.parents = st.parents
    BY <1>1, <2>1, <2>3 DEF ScanStates
  <2>5. Begins(level, st, group, next)
    BY <1>5, <2>1 DEF Begins, cs
  <2> QED
    BY <1>2, <1>5, <2>4, <2>5 DEF next
<1>6. CASE here # level
  <2>1. parents \in Seq(DOMAIN elements) /\ ToSet(parents) \subseteq Headings
    <3>1. CASE here > 0 /\ here < level
      <4>1. root \in Headings
        BY <1>2, <3>1 DEF Headings, HeadingAt
      <4> QED
        BY <1>1, <3>1, <4>1, WithHeadingIs
    <3>2. CASE ~(here > 0 /\ here < level)
      BY <1>1, <3>2
    <3> QED
      BY <3>1, <3>2
  <2>2. preamble \in Seq(DOMAIN elements)
    <3>1. st.preamble \o all \in Seq(DOMAIN elements)
      BY <1>1, <1>2, JoinedIn
    <3> QED
      BY <1>1, <3>1
  <2>3. next = [chunks |-> chunks, parents |-> parents, preamble |-> preamble]
    <3>1. next = [st EXCEPT !.parents = parents, !.chunks = chunks, !.preamble = preamble]
      BY <1>3, <1>6
    <3> HIDE DEF parents, chunks, preamble
    <3> QED
      BY <1>1, <3>1
  <2>4. next.parents = IF here \in 1 .. level - 1 THEN WithHeading(st.parents, root) ELSE st.parents
    BY <1>4, <2>3
  <2>5. CASE st.chunks = <<>>
    <3>1. chunks = <<>> /\ preamble = IF here \in 1 .. level - 1 THEN st.preamble ELSE st.preamble \o all
      BY <1>4, <2>5
    <3>2. <<>> \in Seq(Chunks)
      OBVIOUS
    <3> HIDE DEF parents, chunks, preamble, Chunks
    <3>3. next \in ScanStates
      BY <2>1, <2>2, <2>3, <3>1, <3>2 DEF ScanStates, Chunks
    <3>4. Waits(level, st, group, next)
      BY <1>6, <2>3, <2>5, <3>1 DEF Waits
    <3> QED
      BY <2>4, <3>3, <3>4 DEF next
  <2>6. CASE st.chunks # <<>>
    <3> DEFINE f == Front(st.chunks)
    <3>1. f \in Seq(Chunks) /\ ending \in Chunks /\ st.chunks = Append(f, ending)
      <4> HIDE DEF Chunks
      <4> QED
        BY <1>1, <2>6, FrontLast
    <3> HIDE DEF f, ending
    <3>2. longer \in Chunks /\ longer.ctx = ending.ctx /\ longer.ids = ending.ids \o all
      <4>1. ending.ids \o all \in Seq(DOMAIN elements)
        BY <1>2, <3>1, JoinedIn
      <4> DEFINE ids == ending.ids \o all
      <4>2. longer = [ending EXCEPT !.ids = ids]
        OBVIOUS
      <4> HIDE DEF longer, ids
      <4>3. longer = [ids |-> ids, ctx |-> ending.ctx]
        BY <3>1, <4>2
      <4> QED
        BY <3>1, <4>1, <4>3 DEF ids
    <3>3. chunks = f \o <<longer>> /\ preamble = st.preamble
      BY <2>6 DEF f
    <3> HIDE DEF longer, chunks, Chunks
    <3>4. chunks = Append(f, longer)
      BY <3>1, <3>2, <3>3
    <3>5. /\ chunks \in Seq(Chunks) /\ Len(chunks) = Len(f) + 1 /\ chunks[Len(f) + 1] = longer
          /\ \A n \in 1 .. Len(f) : chunks[n] = f[n]
          /\ Len(f) \in Nat
      BY <3>1, <3>2, <3>4, AppendFacts
    <3>6. /\ Len(st.chunks) = Len(f) + 1 /\ st.chunks[Len(f) + 1] = ending
          /\ \A n \in 1 .. Len(f) : st.chunks[n] = f[n]
      BY <3>1, AppendFacts
    <3> HIDE DEF parents, preamble
    <3>7. next \in ScanStates
      BY <2>1, <2>2, <2>3, <3>5 DEF ScanStates, Chunks
    <3>8. ASSUME NEW n \in 1 .. Len(st.chunks)
          PROVE  /\ chunks[n].ctx = st.chunks[n].ctx
                 /\ chunks[n].ids = IF n = Len(st.chunks) THEN st.chunks[n].ids \o all
                      ELSE st.chunks[n].ids
      <4>1. CASE n = Len(f) + 1
        BY <3>2, <3>5, <3>6, <4>1
      <4>2. CASE n # Len(f) + 1
        <5>1. n \in 1 .. Len(f)
          BY <3>5, <3>6, <4>2
        <5> QED
          BY <3>5, <3>6, <4>2, <5>1
      <4> QED
        BY <4>1, <4>2
    <3>9. Extends(level, st, group, next)
      BY <1>6, <2>3, <2>6, <3>3, <3>5, <3>6, <3>8 DEF Extends
    <3> QED
      BY <2>4, <3>7, <3>9 DEF next
  <2> QED
    BY <2>5, <2>6
<1> QED
  BY <1>5, <1>6

(* A group with a heading is that heading; the rest of a group has no level. *)
HeadingAlone(group) == group.root \in Headings => group.all = <<group.root>>

LEMMA GroupLevels ==
  ASSUME ElementsOk, NEW group, GroupOk(group), HeadingAlone(group)
  PROVE  /\ \A x \in ToSet(group.all) : x = group.root \/ elements[x].level = 0
         /\ elements[group.root].level > 0 => group.all = <<group.root>>
<1>1. \A x \in ToSet(group.all) : x \in DOMAIN elements
  BY DEF GroupOk, ToSet
<1>2. \A x \in DOMAIN elements : x \notin Headings => elements[x].level = 0
  BY ElementIs DEF Headings, HeadingAt
<1>3. \A x \in ToSet(group.all) : x = group.root \/ x \notin Headings
  BY DEF GroupOk
<1>4. elements[group.root].level > 0 => group.root \in Headings
  BY DEF GroupOk, Headings, HeadingAt
<1> QED
  BY <1>1, <1>2, <1>3, <1>4 DEF HeadingAlone

LEMMA ScanStateIs ==
  ASSUME NEW st \in ScanStates
  PROVE  /\ st.chunks \in Seq([ids : Seq(DOMAIN elements), ctx : Seq(DOMAIN elements)])
         /\ Len(st.chunks) \in Nat
         /\ \A n \in 1 .. Len(st.chunks) : /\ st.chunks[n].ctx \in Seq(DOMAIN elements)
                                           /\ st.chunks[n].ids \in Seq(DOMAIN elements)
         /\ st.parents \in Seq(DOMAIN elements) /\ st.preamble \in Seq(DOMAIN elements)
<1> DEFINE Chunks == [ids : Seq(DOMAIN elements), ctx : Seq(DOMAIN elements)]
<1>1. /\ st.chunks \in Seq(Chunks) /\ st.parents \in Seq(DOMAIN elements)
      /\ st.preamble \in Seq(DOMAIN elements)
  BY DEF ScanStates
<1>2. ASSUME NEW n \in 1 .. Len(st.chunks)
      PROVE  st.chunks[n].ctx \in Seq(DOMAIN elements) /\ st.chunks[n].ids \in Seq(DOMAIN elements)
  <2>1. st.chunks[n] \in Chunks
    <3> HIDE DEF Chunks
    <3> QED
      BY <1>1
  <2> QED
    BY <2>1
<1>3. Len(st.chunks) \in Nat
  <2> HIDE DEF Chunks
  <2> QED
    BY <1>1
<1> QED
  BY <1>1, <1>2, <1>3, Zenon

(* T is in one chunk, in the preamble or in what the first chunk has above it. *)
HeldBy(st, T) ==
  \/ T \subseteq ToSet(st.preamble)
  \/ st.chunks = <<>> /\ T \subseteq ToSet(st.parents)
  \/ st.chunks # <<>> /\ T \subseteq ToSet(st.chunks[1].ctx)
  \/ \E n \in 1 .. Len(st.chunks) : T \subseteq ToSet(st.chunks[n].ids)

(* The scan so far: no heading down to the level is twice in a chunk, all     *)
(* above the level have been seen, and each group is in one place.           *)
ParentsHold(level, st, met) ==
  /\ Pairwise(st.parents, LevelsApart(1 .. level))
  /\ \A x \in ToSet(st.parents) : elements[x].level \in 1 .. level - 1 /\ x \in met

ChunkHolds(level, chunk, met) ==
  /\ Pairwise(chunk.ctx \o chunk.ids, LevelsApart(1 .. level))
  /\ \A x \in ToSet(chunk.ctx) \cup ToSet(chunk.ids) : elements[x].level \in 1 .. level - 1 => x \in met

ScanHolds(level, st, met, held) ==
  /\ ParentsHold(level, st, met)
  /\ \A x \in ToSet(st.preamble) : elements[x].level \notin 1 .. level
  /\ \A n \in 1 .. Len(st.chunks) : ChunkHolds(level, st.chunks[n], met)
  /\ \A T \in held : HeldBy(st, T)

(* No heading seen has the level of the next one, if that is above the level. *)
Unseen(level, root, met) ==
  elements[root].level \in 1 .. level - 1 => \A x \in met : elements[x].level # elements[root].level

RaisedParents(level, st, root, next) ==
  next.parents = IF elements[root].level \in 1 .. level - 1 THEN WithHeading(st.parents, root)
                 ELSE st.parents

LEMMA ParentsKept ==
  ASSUME ElementsOk, NEW level \in 1 .. 6, NEW st \in ScanStates, NEW met, ParentsHold(level, st, met),
         NEW root \in DOMAIN elements, NEW next,
         RaisedParents(level, st, root, next), Unseen(level, root, met)
  PROVE  /\ ParentsHold(level, next, met \cup {root})
         /\ ToSet(st.parents) \subseteq ToSet(next.parents)
         /\ elements[root].level \in 1 .. level - 1 => root \in ToSet(next.parents)
<1>1. st.parents \in Seq(DOMAIN elements) /\ ToSet(st.parents) \subseteq Headings
  BY DEF ScanStates
<1>2. CASE elements[root].level \in 1 .. level - 1
  <2>1. root \in Headings
    BY <1>2 DEF Headings, HeadingAt
  <2>2. \A x \in ToSet(st.parents) : elements[x].level # elements[root].level
    BY <1>2 DEF ParentsHold, Unseen
  <2>3. next.parents = Append(st.parents, root)
    BY <1>1, <1>2, <2>1, <2>2, WithHeadingIs DEF RaisedParents
  <2>4. ToSet(next.parents) = ToSet(st.parents) \cup {root}
    <3>1. ToSet(Append(st.parents, root)) = ToSet(st.parents) \cup {root}
      BY <1>1, AppendMembers
    <3> QED
      BY <2>3, <3>1, Zenon
  <2>5. Pairwise(next.parents, LevelsApart(1 .. level))
    BY <1>1, <2>2, <2>3, ApartAppended DEF ParentsHold
  <2> QED
    BY <1>2, <2>4, <2>5 DEF ParentsHold
<1>3. CASE elements[root].level \notin 1 .. level - 1
  BY <1>3 DEF ParentsHold, RaisedParents
<1> QED
  BY <1>2, <1>3

(* A chunk and a group after it. *)
LEMMA ChunkKept ==
  ASSUME ElementsOk, NEW level \in 1 .. 6, NEW met, NEW chunk, NEW next, NEW group,
         chunk.ctx \in Seq(DOMAIN elements), chunk.ids \in Seq(DOMAIN elements),
         ChunkHolds(level, chunk, met), GroupOk(group), HeadingAlone(group),
         elements[group.root].level # level,
         Unseen(level, group.root, met),
         next.ctx = chunk.ctx, next.ids = chunk.ids \o group.all
  PROVE  ChunkHolds(level, next, met \cup {group.root})
<1> DEFINE root == group.root
    all == group.all
    before == chunk.ctx \o chunk.ids
<1>1. root \in DOMAIN elements /\ all \in Seq(DOMAIN elements) /\ elements[root].level \in 0 .. 6
  BY ElementIs DEF GroupOk
<1>2. before \in Seq(DOMAIN elements) /\ ToSet(before) = ToSet(chunk.ctx) \cup ToSet(chunk.ids)
  BY JoinedIn, JoinedMembers
<1>3. next.ctx \o next.ids = before \o all
  <2> DEFINE c == chunk.ctx
      d == chunk.ids
  <2>1. c \in Seq(DOMAIN elements) /\ d \in Seq(DOMAIN elements)
    OBVIOUS
  <2>2. next.ctx = c /\ next.ids = d \o all
    OBVIOUS
  <2>3. before = c \o d
    OBVIOUS
  <2> HIDE DEF c, d, all, before
  <2> DEFINE S == DOMAIN elements
  <2>4. c \in Seq(S) /\ d \in Seq(S) /\ all \in Seq(S)
    BY <1>1, <2>1
  <2> HIDE DEF S
  <2>5. \A s \in Seq(S) : c \o (d \o s) = (c \o d) \o s
    BY <2>4, JoinedTwice
  <2>6. c \o (d \o all) = (c \o d) \o all
    BY <2>4, <2>5, Zenon
  <2> QED
    BY <2>2, <2>3, <2>6, Zenon
<1>4. ToSet(next.ids) = ToSet(chunk.ids) \cup ToSet(all)
  BY <1>1, JoinedMembers
<1>5. Pairwise(before, LevelsApart(1 .. level))
  BY DEF ChunkHolds
<1>6. \A x \in ToSet(before) : elements[x].level \in 1 .. level - 1 => x \in met
  BY <1>2 DEF ChunkHolds
<1>7. \A x \in ToSet(all) : x = root \/ elements[x].level = 0
  BY GroupLevels
<1> HIDE DEF before
<1>8. Pairwise(before \o all, LevelsApart(1 .. level))
  <2>1. CASE elements[root].level \in 1 .. level - 1
    <3>1. all = <<root>>
      BY <2>1, GroupLevels
    <3>2. \A x \in ToSet(before) :
            elements[x].level = elements[root].level => elements[x].level \notin 1 .. level
      BY <1>6, <2>1 DEF Unseen
    <3> QED
      BY <1>1, <1>2, <1>5, <3>1, <3>2, ApartAppended
  <2>2. CASE elements[root].level \notin 1 .. level - 1
    <3>1. elements[root].level \notin 1 .. level
      BY <1>1, <2>2
    <3>2. \A x \in ToSet(all) : elements[x].level \notin 1 .. level
      BY <1>7, <3>1
    <3>3. Pairwise(all, LevelsApart(1 .. level)) /\ AllBefore(before, all, LevelsApart(1 .. level))
      BY <1>1, <1>2, <3>2, FreeOfLevels
    <3> QED
      BY <1>1, <1>2, <1>5, <3>3, PairwiseJoined
  <2> QED
    BY <2>1, <2>2
<1>9. \A x \in ToSet(next.ctx) \cup ToSet(next.ids) :
        elements[x].level \in 1 .. level - 1 => x \in met \cup {root}
  BY <1>2, <1>4, <1>6, <1>7
<1> QED
  BY <1>3, <1>8, <1>9 DEF ChunkHolds

LEMMA ScanGroupHolds ==
  ASSUME ElementsOk, NEW level \in 1 .. 6, NEW st \in ScanStates, NEW group, GroupOk(group),
         HeadingAlone(group), NEW met, NEW held, ScanHolds(level, st, met, held),
         Unseen(level, group.root, met)
  PROVE  /\ ScanHolds(level, ScanGroup(level, st, group), met \cup {group.root},
                      held \cup {ToSet(group.all)})
         /\ Len(ScanGroup(level, st, group).chunks)
              = IF elements[group.root].level = level THEN Len(st.chunks) + 1 ELSE Len(st.chunks)
<1> DEFINE next == ScanGroup(level, st, group)
    root == group.root
    all == group.all
    here == elements[root].level
    Chunks == [ids : Seq(DOMAIN elements), ctx : Seq(DOMAIN elements)]
<1>1. /\ next \in ScanStates
      /\ next.parents = IF here \in 1 .. level - 1 THEN WithHeading(st.parents, root) ELSE st.parents
      /\ Begins(level, st, group, next) \/ Extends(level, st, group, next) \/ Waits(level, st, group,
           next)
  BY ScanGroupIs
<1> HIDE DEF next
<1>2. /\ st.chunks \in Seq(Chunks) /\ Len(st.chunks) \in Nat
      /\ \A n \in 1 .. Len(st.chunks) : /\ st.chunks[n].ctx \in Seq(DOMAIN elements)
                                        /\ st.chunks[n].ids \in Seq(DOMAIN elements)
      /\ st.parents \in Seq(DOMAIN elements) /\ st.preamble \in Seq(DOMAIN elements)
  BY ScanStateIs
<1>3. root \in DOMAIN elements /\ all \in Seq(DOMAIN elements) /\ here \in 0 .. 6
  BY ElementIs DEF GroupOk
<1>4. \A x \in ToSet(all) : x = root \/ elements[x].level = 0
  BY GroupLevels
<1>5. here > 0 => all = <<root>> /\ ToSet(all) = {root}
  BY GroupLevels DEF ToSet
<1>6. /\ ParentsHold(level, st, met)
      /\ \A x \in ToSet(st.preamble) : elements[x].level \notin 1 .. level
      /\ \A n \in 1 .. Len(st.chunks) : ChunkHolds(level, st.chunks[n], met)
      /\ \A T \in held : HeldBy(st, T)
  BY DEF ScanHolds
<1>7. /\ ParentsHold(level, next, met \cup {root}) /\ ToSet(st.parents) \subseteq ToSet(next.parents)
      /\ here \in 1 .. level - 1 => root \in ToSet(next.parents)
  <2>1. RaisedParents(level, st, root, next)
    BY <1>1 DEF RaisedParents
  <2>2. ParentsHold(level, st, met) /\ Unseen(level, root, met)
    BY <1>6
  <2> HIDE DEF root
  <2> QED
    BY <1>3, <2>1, <2>2, ParentsKept
<1>8. \A n \in 1 .. Len(st.chunks) : ChunkHolds(level, st.chunks[n], met \cup {root})
  BY <1>6 DEF ChunkHolds
<1>9. CASE Begins(level, st, group, next)
  <2> DEFINE new == [ids |-> all, ctx |-> st.parents]
  <2>1. here = level /\ next.preamble = st.preamble /\ next.chunks = Append(st.chunks, new)
    BY <1>9 DEF Begins
  <2>2. new \in Chunks /\ new.ids = all /\ new.ctx = st.parents
    BY <1>2, <1>3
  <2> HIDE DEF new, Chunks
  <2>3. /\ Len(next.chunks) = Len(st.chunks) + 1 /\ next.chunks[Len(st.chunks) + 1] = new
        /\ \A n \in 1 .. Len(st.chunks) : next.chunks[n] = st.chunks[n]
    BY <1>2, <2>1, <2>2, AppendFacts
  <2>4. all = <<root>> /\ ToSet(all) = {root}
    BY <1>5, <2>1
  <2>5. ChunkHolds(level, new, met \cup {root})
    <3>1. Pairwise(st.parents, LevelsApart(1 .. level))
          /\ \A x \in ToSet(st.parents) : elements[x].level \in 1 .. level - 1 /\ x \in met
      BY <1>6 DEF ParentsHold
    <3>2. \A x \in ToSet(st.parents) : elements[x].level # elements[root].level
      BY <2>1, <3>1
    <3>3. Pairwise(st.parents \o <<root>>, LevelsApart(1 .. level))
      BY <1>2, <1>3, <3>1, <3>2, ApartAppended
    <3> QED
      BY <2>2, <2>4, <3>1, <3>3 DEF ChunkHolds
  <2>6. ASSUME NEW n \in 1 .. Len(next.chunks) PROVE ChunkHolds(level, next.chunks[n], met \cup {root})
    <3>1. n \in 1 .. Len(st.chunks) \/ n = Len(st.chunks) + 1
      BY <1>2, <2>3
    <3> QED
      BY <1>8, <2>3, <2>5, <3>1
  <2>7. Len(st.chunks) + 1 \in 1 .. Len(next.chunks) /\ next.chunks # <<>>
        /\ \A n \in 1 .. Len(st.chunks) : n \in 1 .. Len(next.chunks)
    <3>1. Len(next.chunks) # 0
      BY <1>2, <2>3
    <3> QED
      BY <1>2, <2>3, <3>1
  <2>8. ASSUME NEW T \in held PROVE HeldBy(next, T)
    <3>1. CASE T \subseteq ToSet(st.preamble)
      BY <2>1, <3>1 DEF HeldBy
    <3>2. CASE st.chunks = <<>> /\ T \subseteq ToSet(st.parents)
      <4>1. Len(st.chunks) + 1 = 1
        BY <3>2
      <4>2. next.chunks[1].ctx = st.parents
        BY <2>2, <2>3, <4>1
      <4> QED
        BY <2>7, <3>2, <4>2 DEF HeldBy
    <3>3. CASE st.chunks # <<>> /\ T \subseteq ToSet(st.chunks[1].ctx)
      <4>1. 1 \in 1 .. Len(st.chunks)
        BY <1>2, <3>3
      <4> QED
        BY <2>3, <2>7, <3>3, <4>1 DEF HeldBy
    <3>4. CASE \E n \in 1 .. Len(st.chunks) : T \subseteq ToSet(st.chunks[n].ids)
      BY <2>3, <2>7, <3>4 DEF HeldBy
    <3> QED
      BY <1>6, <3>1, <3>2, <3>3, <3>4 DEF HeldBy
  <2>9. HeldBy(next, ToSet(all))
    BY <2>2, <2>3, <2>7 DEF HeldBy
  <2>10. ScanHolds(level, next, met \cup {root}, held \cup {ToSet(all)})
    BY <1>6, <1>7, <2>1, <2>6, <2>8, <2>9 DEF ScanHolds
  <2> QED
    BY <2>1, <2>3, <2>10 DEF next
<1>10. CASE Extends(level, st, group, next)
  <2>1. /\ here # level /\ next.preamble = st.preamble /\ st.chunks # <<>>
        /\ Len(next.chunks) = Len(st.chunks)
        /\ \A n \in 1 .. Len(st.chunks) :
             /\ next.chunks[n].ctx = st.chunks[n].ctx
             /\ next.chunks[n].ids =
                  IF n = Len(st.chunks) THEN st.chunks[n].ids \o all ELSE st.chunks[n].ids
    BY <1>10 DEF Extends
  <2>2. Len(st.chunks) \in 1 .. Len(st.chunks) /\ 1 \in 1 .. Len(st.chunks) /\ next.chunks # <<>>
    <3>1. Len(st.chunks) # 0
      BY <1>2, <2>1
    <3>2. Len(next.chunks) # 0
      BY <2>1, <3>1
    <3> QED
      BY <1>2, <3>1, <3>2
  <2>3. ASSUME NEW n \in 1 .. Len(next.chunks) PROVE ChunkHolds(level, next.chunks[n], met \cup {root})
    <3>1. n \in 1 .. Len(st.chunks)
      BY <2>1
    <3>2. CASE n = Len(st.chunks)
      <4>1. next.chunks[n].ctx = st.chunks[n].ctx /\ next.chunks[n].ids = st.chunks[n].ids \o all
        BY <2>1, <3>1, <3>2
      <4> QED
        BY <1>2, <1>6, <2>1, <3>1, <4>1, ChunkKept
    <3>3. CASE n # Len(st.chunks)
      <4>1. next.chunks[n].ctx = st.chunks[n].ctx /\ next.chunks[n].ids = st.chunks[n].ids
        BY <2>1, <3>1, <3>3
      <4>2. ChunkHolds(level, st.chunks[n], met \cup {root})
        BY <1>8, <3>1
      <4> QED
        BY <4>1, <4>2 DEF ChunkHolds
    <3> QED
      BY <3>2, <3>3
  <2>4. \A n \in 1 .. Len(st.chunks) : ToSet(st.chunks[n].ids) \subseteq ToSet(next.chunks[n].ids)
    <3> SUFFICES ASSUME NEW n \in 1 .. Len(st.chunks)
                 PROVE  ToSet(st.chunks[n].ids) \subseteq ToSet(next.chunks[n].ids)
      OBVIOUS
    <3> DEFINE ids == st.chunks[n].ids
    <3>1. ids \in Seq(DOMAIN elements)
      BY <1>2
    <3>2. next.chunks[n].ids = ids \/ next.chunks[n].ids = ids \o all
      BY <2>1
    <3> HIDE DEF ids, all
    <3>3. ToSet(ids \o all) = ToSet(ids) \cup ToSet(all)
      BY <1>3, <3>1, JoinedMembers
    <3> QED
      BY <3>2, <3>3 DEF ids
  <2>5. ToSet(all) \subseteq ToSet(next.chunks[Len(st.chunks)].ids)
    <3> DEFINE ending == st.chunks[Len(st.chunks)].ids
    <3>1. ending \in Seq(DOMAIN elements)
      BY <1>2, <2>2
    <3>2. next.chunks[Len(st.chunks)].ids = ending \o all
      BY <2>1, <2>2
    <3> HIDE DEF ending, all
    <3>3. ToSet(ending \o all) = ToSet(ending) \cup ToSet(all)
      BY <1>3, <3>1, JoinedMembers
    <3> QED
      BY <3>2, <3>3
  <2>6. ASSUME NEW T \in held PROVE HeldBy(next, T)
    <3>1. CASE T \subseteq ToSet(st.preamble)
      BY <2>1, <3>1 DEF HeldBy
    <3>2. CASE T \subseteq ToSet(st.chunks[1].ctx)
      BY <2>1, <2>2, <3>2 DEF HeldBy
    <3>3. CASE \E n \in 1 .. Len(st.chunks) : T \subseteq ToSet(st.chunks[n].ids)
      <4>1. PICK n \in 1 .. Len(st.chunks) : T \subseteq ToSet(st.chunks[n].ids)
        BY <3>3
      <4>2. T \subseteq ToSet(next.chunks[n].ids) /\ n \in 1 .. Len(next.chunks)
        BY <2>1, <2>4, <4>1
      <4> QED
        BY <4>2 DEF HeldBy
    <3> QED
      BY <1>6, <2>1, <3>1, <3>2, <3>3 DEF HeldBy
  <2>7. HeldBy(next, ToSet(all))
    BY <2>1, <2>2, <2>5 DEF HeldBy
  <2>8. ScanHolds(level, next, met \cup {root}, held \cup {ToSet(all)})
    BY <1>6, <1>7, <2>1, <2>3, <2>6, <2>7 DEF ScanHolds
  <2> QED
    BY <2>1, <2>8 DEF next
<1>11. CASE Waits(level, st, group, next)
  <2>1. /\ here # level /\ st.chunks = <<>> /\ next.chunks = <<>>
        /\ next.preamble = IF here \in 1 .. level - 1 THEN st.preamble ELSE st.preamble \o all
    BY <1>11 DEF Waits
  <2>2. ToSet(st.preamble \o all) = ToSet(st.preamble) \cup ToSet(all)
    BY <1>2, <1>3, JoinedMembers
  <2>3. ToSet(st.preamble) \subseteq ToSet(next.preamble)
    BY <2>1, <2>2
  <2>4. 1 .. Len(<<>>) = {}
    OBVIOUS
  <2>5. \A x \in ToSet(next.preamble) : elements[x].level \notin 1 .. level
    <3>1. CASE here \in 1 .. level - 1
      BY <1>6, <2>1, <3>1
    <3>2. CASE here \notin 1 .. level - 1
      <4>1. here \notin 1 .. level
        BY <1>3, <2>1, <3>2
      <4>2. \A x \in ToSet(all) : elements[x].level \notin 1 .. level
        BY <1>4, <4>1
      <4> QED
        BY <1>6, <2>1, <2>2, <3>2, <4>2
    <3> QED
      BY <3>1, <3>2
  <2>6. ASSUME NEW T \in held PROVE HeldBy(next, T)
    BY <1>6, <1>7, <2>1, <2>3, <2>4 DEF HeldBy
  <2>7. HeldBy(next, ToSet(all))
    <3>1. CASE here \in 1 .. level - 1
      BY <1>5, <1>7, <2>1, <3>1 DEF HeldBy
    <3>2. CASE here \notin 1 .. level - 1
      BY <2>1, <2>2, <3>2 DEF HeldBy
    <3> QED
      BY <3>1, <3>2
  <2>8. ScanHolds(level, next, met \cup {root}, held \cup {ToSet(all)})
    BY <1>7, <2>1, <2>4, <2>5, <2>6, <2>7 DEF ScanHolds
  <2> QED
    BY <2>1, <2>8 DEF next
<1> QED
  BY <1>1, <1>9, <1>10, <1>11

(* Members outside S are in R with all. *)
LEMMA PairwiseOfAmong ==
  ASSUME NEW M, NEW R, NEW S, \A x, y \in M : x \notin S \/ y \notin S => <<x, y>> \in R,
         NEW t \in Seq(M), Pairwise(Among(t, S), R)
  PROVE  Pairwise(t, R)
<1> DEFINE P == {s \in Seq(M) : Pairwise(Among(s, S), R) => Pairwise(s, R)}
<1>1. <<>> \in P
  <2>1. Pairwise(<<>>, R) /\ <<>> \in Seq(M)
    BY DEF Pairwise
  <2> QED
    BY <2>1
<1>2. ASSUME NEW s \in Seq(M), NEW x \in M, s \in P PROVE Append(s, x) \in P
  <2>1. Append(s, x) \in Seq(M)
    OBVIOUS
  <2> SUFFICES ASSUME Pairwise(Among(Append(s, x), S), R) PROVE Pairwise(Append(s, x), R)
    BY <2>1
  <2> DEFINE one == <<x>>
      among == Among(s, S)
  <2>2. one \in Seq(M) /\ ToSet(one) = {x} /\ Append(s, x) = s \o one /\ Pairwise(one, R)
    BY DEF ToSet, Pairwise
  <2>3. among \in Seq(M) /\ ToSet(among) = ToSet(s) \cap S
    BY AmongIn, AmongMembers
  <2>4. \A y \in ToSet(s) : y \in M
    BY DEF ToSet
  <2>5. Among(Append(s, x), S) = IF x \in S THEN Append(among, x) ELSE among
    BY AmongAppended
  <2>6. Append(among, x) = among \o one
    BY <2>3
  <2> HIDE DEF one, among
  <2>7. Pairwise(among, R) /\ (x \in S => AllBefore(among, one, R))
    <3>1. CASE x \in S
      <4>1. Pairwise(among \o one, R)
        BY <2>5, <2>6, <3>1
      <4> QED
        BY <2>2, <2>3, <4>1, JoinedPairwise
    <3>2. CASE x \notin S
      BY <2>5, <3>2
    <3> QED
      BY <3>1, <3>2
  <2>8. Pairwise(s, R)
    BY <1>2, <2>7 DEF among
  <2>9. ASSUME NEW y \in ToSet(s), x \in S PROVE <<y, x>> \in R
    <3>1. CASE y \in S
      <4>1. \A u \in ToSet(among), v \in ToSet(one) : <<u, v>> \in R
        BY <2>2, <2>3, <2>7, <2>9, BeforeMembers
      <4> QED
        BY <2>2, <2>3, <3>1, <4>1
    <3>2. CASE y \notin S
      BY <2>4, <3>2
    <3> QED
      BY <3>1, <3>2
  <2>10. \A y \in ToSet(s), v \in ToSet(one) : <<y, v>> \in R
    BY <2>2, <2>4, <2>9
  <2>11. AllBefore(s, one, R)
    BY <2>2, <2>10, BeforeMembers
  <2>12. Pairwise(s \o one, R)
    BY <2>2, <2>8, <2>11, PairwiseJoined
  <2> QED
    BY <2>2, <2>12
<1>3. \A s \in Seq(M) : s \in P
  <2> HIDE DEF P
  <2> QED
    BY <1>1, <1>2, EverySequence
<1> QED
  BY <1>3

(* A level that repeats has two groups. *)
LEMMA TwoHeadings ==
  ASSUME ElementsOk, HeadingsFree, NEW ids \in Seq(DOMAIN elements), NEW level \in SplitLevels(ids)
  PROVE  \E m, n \in 1 .. Len(Kept(ids)) :
           /\ m < n /\ elements[Kept(ids)[m]].level = level /\ elements[Kept(ids)[n]].level = level
<1> DEFINE kept == Kept(ids)
    S == Headings \cup (ToSet(ids) \ AllReferenced(ids))
    R == LevelsApart({level})
<1>1. level \in 1 .. 6 /\ {level} \subseteq 1 .. 6
  BY DEF SplitLevels
<1>2. ~Pairwise(ids, R)
  BY <1>1, ApartIs
<1>3. \A x, y \in DOMAIN elements : x \notin S \/ y \notin S => <<x, y>> \in R
  <2>1. \A x \in DOMAIN elements : x \notin S => elements[x].level = 0
    BY ElementIs DEF Headings, HeadingAt
  <2> HIDE DEF S
  <2> QED
    BY <1>1, <2>1 DEF LevelsApart
<1>4. kept = Among(ids, S) /\ kept \in Seq(DOMAIN elements)
  BY GroupsAre DEF Kept
<1> HIDE DEF R, S, kept
<1>5. ~Pairwise(kept, R)
  BY <1>2, <1>3, <1>4, PairwiseOfAmong
<1>6. PICK m, n \in 1 .. Len(kept) : m < n /\ <<kept[m], kept[n]>> \notin R
  BY <1>5 DEF Pairwise
<1>7. kept[m] \in DOMAIN elements /\ kept[n] \in DOMAIN elements
  BY <1>4
<1>8. elements[kept[m]].level = level /\ elements[kept[n]].level = level
  BY <1>6, <1>7 DEF R, LevelsApart
<1> QED
  BY <1>6, <1>8 DEF kept

(* All that the scan holds is in U. *)
Within(st, U) ==
  /\ ToSet(st.parents) \subseteq U /\ ToSet(st.preamble) \subseteq U
  /\ \A n \in 1 .. Len(st.chunks) :
       ToSet(st.chunks[n].ctx) \subseteq U /\ ToSet(st.chunks[n].ids) \subseteq U

LEMMA ParentsWithin ==
  ASSUME ElementsOk, NEW level \in 1 .. 6, NEW st \in ScanStates, NEW met, ParentsHold(level, st, met),
         NEW root \in DOMAIN elements, NEW next,
         RaisedParents(level, st, root, next), Unseen(level, root, met),
         NEW U, ToSet(st.parents) \subseteq U, root \in U
  PROVE  ToSet(next.parents) \subseteq U
<1>1. st.parents \in Seq(DOMAIN elements) /\ ToSet(st.parents) \subseteq Headings
  BY DEF ScanStates
<1>2. CASE elements[root].level \in 1 .. level - 1
  <2>1. root \in Headings
    BY <1>2 DEF Headings, HeadingAt
  <2>2. \A x \in ToSet(st.parents) : elements[x].level # elements[root].level
    BY <1>2 DEF ParentsHold, Unseen
  <2>3. next.parents = Append(st.parents, root)
    BY <1>1, <1>2, <2>1, <2>2, WithHeadingIs DEF RaisedParents
  <2>4. ToSet(Append(st.parents, root)) = ToSet(st.parents) \cup {root}
    BY <1>1, AppendMembers
  <2> QED
    BY <2>3, <2>4
<1>3. CASE elements[root].level \notin 1 .. level - 1
  BY <1>3 DEF RaisedParents
<1> QED
  BY <1>2, <1>3

LEMMA ScanGroupWithin ==
  ASSUME ElementsOk, NEW level \in 1 .. 6, NEW st \in ScanStates, NEW group, GroupOk(group),
         NEW U, Within(st, U), ToSet(group.all) \subseteq U,
         NEW met, ParentsHold(level, st, met), Unseen(level, group.root, met)
  PROVE  Within(ScanGroup(level, st, group), U)
<1> DEFINE next == ScanGroup(level, st, group)
    root == group.root
    all == group.all
    here == elements[root].level
    Chunks == [ids : Seq(DOMAIN elements), ctx : Seq(DOMAIN elements)]
<1>1. /\ next \in ScanStates /\ RaisedParents(level, st, root, next)
      /\ Begins(level, st, group, next) \/ Extends(level, st, group, next) \/ Waits(level, st, group,
           next)
  BY ScanGroupIs DEF RaisedParents
<1> HIDE DEF next
<1>2. root \in DOMAIN elements /\ root \in ToSet(all) /\ all \in Seq(DOMAIN elements)
  BY DEF GroupOk
<1>3. /\ st.chunks \in Seq(Chunks) /\ Len(st.chunks) \in Nat
      /\ \A n \in 1 .. Len(st.chunks) : /\ st.chunks[n].ctx \in Seq(DOMAIN elements)
                                        /\ st.chunks[n].ids \in Seq(DOMAIN elements)
      /\ st.parents \in Seq(DOMAIN elements) /\ st.preamble \in Seq(DOMAIN elements)
  BY ScanStateIs
<1>4. ToSet(next.parents) \subseteq U
  <2>1. ToSet(st.parents) \subseteq U /\ root \in U /\ Unseen(level, root, met)
    BY <1>2 DEF Within
  <2> HIDE DEF root
  <2> QED
    BY <1>1, <1>2, <2>1, ParentsWithin
<1>5. CASE Begins(level, st, group, next)
  <2> DEFINE new == [ids |-> all, ctx |-> st.parents]
  <2>1. next.preamble = st.preamble /\ next.chunks = Append(st.chunks, new)
    BY <1>5 DEF Begins
  <2>2. new \in Chunks /\ new.ids = all /\ new.ctx = st.parents
    BY <1>2, <1>3
  <2> HIDE DEF new, Chunks
  <2>3. /\ Len(next.chunks) = Len(st.chunks) + 1 /\ next.chunks[Len(st.chunks) + 1] = new
        /\ \A n \in 1 .. Len(st.chunks) : next.chunks[n] = st.chunks[n]
    BY <1>3, <2>1, <2>2, AppendFacts
  <2>4. \A n \in 1 .. Len(next.chunks) : n \in 1 .. Len(st.chunks) \/ n = Len(st.chunks) + 1
    BY <1>3, <2>3
  <2> QED
    BY <1>4, <2>1, <2>2, <2>3, <2>4 DEF Within, next
<1>6. CASE Extends(level, st, group, next)
  <2>1. /\ next.preamble = st.preamble /\ Len(next.chunks) = Len(st.chunks)
        /\ \A n \in 1 .. Len(st.chunks) :
             /\ next.chunks[n].ctx = st.chunks[n].ctx
             /\ next.chunks[n].ids =
                  IF n = Len(st.chunks) THEN st.chunks[n].ids \o all ELSE st.chunks[n].ids
    BY <1>6 DEF Extends
  <2>2. ASSUME NEW n \in 1 .. Len(next.chunks)
        PROVE  ToSet(next.chunks[n].ctx) \subseteq U /\ ToSet(next.chunks[n].ids) \subseteq U
    <3> DEFINE ids == st.chunks[n].ids
    <3>1. n \in 1 .. Len(st.chunks) /\ ids \in Seq(DOMAIN elements)
      BY <1>3, <2>1
    <3>2. ToSet(st.chunks[n].ctx) \subseteq U /\ ToSet(ids) \subseteq U
      BY <3>1 DEF Within
    <3>3. next.chunks[n].ctx = st.chunks[n].ctx /\ next.chunks[n].ids \in {ids, ids \o all}
      BY <2>1, <3>1
    <3> HIDE DEF ids, all
    <3>4. ToSet(ids \o all) = ToSet(ids) \cup ToSet(all)
      BY <1>2, <3>1, JoinedMembers
    <3>5. ToSet(all) \subseteq U
      BY DEF all
    <3>6. next.chunks[n].ids = ids \/ next.chunks[n].ids = ids \o all
      BY <3>3
    <3>7. ToSet(next.chunks[n].ids) \subseteq U
      BY <3>2, <3>4, <3>5, <3>6
    <3> QED
      BY <3>2, <3>3, <3>7
  <2> QED
    BY <1>4, <2>1, <2>2 DEF Within, next
<1>7. CASE Waits(level, st, group, next)
  <2>1. /\ next.chunks = <<>>
        /\ next.preamble = st.preamble \/ next.preamble = st.preamble \o all
    BY <1>7 DEF Waits
  <2>2. ToSet(st.preamble \o all) = ToSet(st.preamble) \cup ToSet(all)
    BY <1>2, <1>3, JoinedMembers
  <2>3. ToSet(next.preamble) \subseteq U
    BY <2>1, <2>2 DEF Within
  <2>4. 1 .. Len(<<>>) = {}
    OBVIOUS
  <2> QED
    BY <1>4, <2>1, <2>3, <2>4 DEF Within, next
<1> QED
  BY <1>1, <1>5, <1>6, <1>7

NothingScanned == [chunks |-> <<>>, parents |-> <<>>, preamble |-> <<>>]

(* The equations of the scan. *)
ScannedBy(level, groups, f) ==
  /\ f[0] = NothingScanned /\ f[Len(groups)] = Scanned(level, groups)
  /\ \A n \in 1 .. Len(groups) : f[n] = ScanGroup(level, f[n - 1], groups[n])

LEMMA ScannedByIs ==
  ASSUME ElementsOk, NEW level \in 1 .. 6, NEW groups, Len(groups) \in Nat,
         \A n \in 1 .. Len(groups) : GroupOk(groups[n])
  PROVE  \E f \in [0 .. Len(groups) -> ScanStates] : ScannedBy(level, groups, f)
<1> DEFINE
    L == Len(groups)
    X == ScanStates
    first == NothingScanned
    Step(x, n) == ScanGroup(level, x, groups[n])
    T == [w \in X \X (1 .. L) |-> Step(w[1], w[2])]
    Then(g, n) == IF n = 0 THEN NothingScanned ELSE ScanGroup(level, g[n - 1], groups[n])
    Solves(g) == g = [n \in 0 .. L |-> Then(g, n)]
<1>1. L \in Nat /\ NothingScanned \in X
  <2>1. <<>> \in Seq([ids : Seq(DOMAIN elements), ctx : Seq(DOMAIN elements)])
        /\ <<>> \in Seq(DOMAIN elements) /\ ToSet(<<>>) = {}
    BY DEF ToSet
  <2> QED
    BY <2>1 DEF NothingScanned, ScanStates
<1>2. ASSUME NEW x \in X, NEW n \in 1 .. L PROVE Step(x, n) \in X
  BY ScanGroupIs
<1> HIDE DEF L, X
<1>3. StaysIn(T, X, L)
  <2> HIDE DEF Step
  <2> QED
    BY <1>2 DEF StaysIn
<1>4. PICK f \in [0 .. L -> X] : f[0] = first /\ \A n \in 1 .. L : f[n] = T[<<f[n - 1], n>>]
  <2>1. L \in Nat /\ first \in X
    BY <1>1
  <2> HIDE DEF T, first
  <2>2. PICK h \in [0 .. L -> X] : Follows(h, first, T, L)
    BY <1>3, <2>1, IteratedBy
  <2>3. h[0] = first /\ \A n \in 1 .. L : h[n] = T[<<h[n - 1], n>>]
    BY <2>2, Zenon DEF Follows
  <2> QED
    BY <2>3, Zenon
<1>5. ASSUME NEW n \in 1 .. L PROVE f[n] = Step(f[n - 1], n)
  <2>1. f[n - 1] \in X
    BY <1>1
  <2>2. T[<<f[n - 1], n>>] = Step(f[n - 1], n)
    <3> HIDE DEF Step
    <3> QED
      BY <2>1
  <2> HIDE DEF Step, T
  <2> QED
    BY <1>4, <2>2, Zenon
<1>6. Solves(f)
  <2>1. f = [n \in 0 .. L |-> f[n]]
    OBVIOUS
  <2>2. ASSUME NEW n \in 0 .. L PROVE f[n] = Then(f, n)
    <3>1. CASE n = 0
      BY <1>4, <3>1, Zenon
    <3>2. CASE n # 0
      <4>1. n \in 1 .. L
        BY <1>1, <3>2
      <4>2. f[n] = Step(f[n - 1], n)
        BY <1>5, <4>1, Zenon
      <4> QED
        BY <3>2, <4>2, Zenon
    <3> QED
      BY <3>1, <3>2, Zenon
  <2> HIDE DEF Then
  <2> QED
    BY <2>1, <2>2
<1> DEFINE g == CHOOSE g : Solves(g)
<1>7. Solves(g)
  <2> HIDE DEF Solves
  <2> QED
    BY <1>6
<1>8. g[L] = Scanned(level, groups)
  BY DEF Scanned, NothingScanned, L
<1> HIDE DEF g
<1>9. /\ g = [n \in 0 .. L |-> g[n]] /\ g[0] = NothingScanned
      /\ \A n \in 1 .. L : g[n] = Step(g[n - 1], n)
  <2>1. g = [n \in 0 .. L |-> Then(g, n)]
    BY <1>7
  <2>2. \A n \in 0 .. L : g[n] = Then(g, n)
    <3> HIDE DEF Then
    <3> QED
      BY <2>1
  <2>3. \A n \in 1 .. L : n \in 0 .. L /\ n # 0
    BY <1>1
  <2>4. 0 \in 0 .. L
    BY <1>1
  <2>5. g[0] = NothingScanned
    BY <2>2, <2>4, Zenon
  <2>6. \A n \in 1 .. L : g[n] = Step(g[n - 1], n)
    BY <2>2, <2>3, Zenon
  <2>7. g = [n \in 0 .. L |-> g[n]]
    <3> HIDE DEF Then
    <3> QED
      BY <2>1, <2>2
  <2> QED
    BY <2>5, <2>6, <2>7
<1>10. g \in [0 .. L -> X]
  <2> HIDE DEF Step
  <2> DEFINE P == {n \in 0 .. L : g[n] \in X}
  <2>1. 0 \in P
    BY <1>1, <1>9
  <2>2. ASSUME NEW n \in 1 .. L, n - 1 \in P PROVE n \in P
    <3>1. g[n - 1] \in X /\ n \in 0 .. L
      BY <1>1, <2>2
    <3>2. Step(g[n - 1], n) \in X
      BY <1>2, <3>1
    <3>3. g[n] = Step(g[n - 1], n)
      BY <1>9
    <3> QED
      BY <3>1, <3>2, <3>3
  <2>3. \A n \in 0 .. L : n \in P
    <3> HIDE DEF P
    <3> QED
      BY <1>1, <2>1, <2>2, UpTo
  <2> QED
    BY <1>9, <2>3
<1> HIDE DEF Then, Solves, T
<1>11. ScannedBy(level, groups, g)
  <2>1. \A n \in 1 .. Len(groups) : g[n] = ScanGroup(level, g[n - 1], groups[n])
    BY <1>9, Zenon DEF L
  <2>2. g[0] = NothingScanned /\ g[Len(groups)] = Scanned(level, groups)
    BY <1>8, <1>9, Zenon DEF L
  <2> QED
    BY <2>1, <2>2, Zenon DEF ScannedBy
<1> QED
  BY <1>10, <1>11, Zenon DEF L, X

(* No heading above the level has the level of one before it. *)
OncePerLevel(level, groups) ==
  \A m, n \in 1 .. Len(groups) :
    m < n /\ elements[groups[n].root].level \in 1 .. level - 1 =>
      elements[groups[m].root].level # elements[groups[n].root].level

(* At least as many chunks as there are groups with the level, up to two. *)
CountedTo(level, groups, n, chunks) ==
  \A m, k \in 1 .. n :
    /\ elements[groups[m].root].level = level /\ elements[groups[k].root].level = level
    => /\ Len(chunks) >= 1
       /\ m < k => Len(chunks) >= 2

ScannedTo(level, groups, U, n, st) ==
  /\ ScanHolds(level, st, {groups[m].root : m \in 1 .. n}, {ToSet(groups[m].all) : m \in 1 .. n})
  /\ Within(st, U) /\ CountedTo(level, groups, n, st.chunks)

LEMMA NothingScannedIs ==
  ASSUME ElementsOk, NEW level \in 1 .. 6, NEW groups, NEW U
  PROVE  ScannedTo(level, groups, U, 0, NothingScanned)
<1> DEFINE st == NothingScanned
<1>1. 1 .. 0 = {} /\ 1 .. Len(<<>>) = {} /\ ToSet(<<>>) = {} /\ <<>> \in Seq(DOMAIN elements)
  BY DEF ToSet
<1>2. st.chunks = <<>> /\ st.parents = <<>> /\ st.preamble = <<>>
  BY DEF NothingScanned
<1>3. Pairwise(<<>>, LevelsApart(1 .. level))
  BY DEF Pairwise
<1> HIDE DEF st
<1>4. /\ {groups[m].root : m \in 1 .. 0} = {} /\ {ToSet(groups[m].all) : m \in 1 .. 0} = {}
  BY <1>1
<1>5. ScanHolds(level, st, {}, {})
  BY <1>1, <1>2, <1>3 DEF ScanHolds, ParentsHold
<1>6. Within(st, U)
  BY <1>1, <1>2 DEF Within
<1>7. CountedTo(level, groups, 0, st.chunks)
  BY <1>1 DEF CountedTo
<1> QED
  BY <1>4, <1>5, <1>6, <1>7 DEF ScannedTo, st

LEMMA ScannedMore ==
  ASSUME ElementsOk, NEW level \in 1 .. 6, NEW groups, Len(groups) \in Nat, OncePerLevel(level, groups),
         NEW n \in 1 .. Len(groups), GroupOk(groups[n]), HeadingAlone(groups[n]),
         NEW U, ToSet(groups[n].all) \subseteq U, NEW st \in ScanStates,
         ScannedTo(level, groups, U, n - 1, st)
  PROVE  ScannedTo(level, groups, U, n, ScanGroup(level, st, groups[n]))
<1> DEFINE g == groups[n]
    s == {groups[m].root : m \in 1 .. n - 1}
    h == {ToSet(groups[m].all) : m \in 1 .. n - 1}
    next == ScanGroup(level, st, g)
<1>1. \A m \in 1 .. n : m \in 1 .. n - 1 \/ m = n
  OBVIOUS
<1>2. \A m \in 1 .. n - 1 : m \in 1 .. n /\ m \in 1 .. Len(groups) /\ m < n
  OBVIOUS
<1>3. n \in 1 .. n
  OBVIOUS
<1>4. {groups[m].root : m \in 1 .. n} = s \cup {g.root}
  BY <1>1, <1>2, <1>3
<1>5. {ToSet(groups[m].all) : m \in 1 .. n} = h \cup {ToSet(g.all)}
  BY <1>1, <1>2, <1>3
<1>6. Unseen(level, g.root, s)
  BY <1>2 DEF Unseen, OncePerLevel
<1>7. ScanHolds(level, st, s, h) /\ ParentsHold(level, st, s) /\ Within(st, U)
      /\ CountedTo(level, groups, n - 1, st.chunks)
  BY DEF ScannedTo, ScanHolds
<1>8. GroupOk(g) /\ HeadingAlone(g) /\ ToSet(g.all) \subseteq U
  OBVIOUS
<1> HIDE DEF s, h, next
<1>9. /\ ScanHolds(level, next, s \cup {g.root}, h \cup {ToSet(g.all)})
      /\ Len(next.chunks) = IF elements[g.root].level = level THEN Len(st.chunks) + 1 ELSE Len(st.chunks)
  <2> HIDE DEF g
  <2> QED
    BY <1>6, <1>7, <1>8, ScanGroupHolds DEF next
<1>10. Within(next, U)
  <2> HIDE DEF g
  <2> QED
    BY <1>6, <1>7, <1>8, ScanGroupWithin DEF next
<1>11. CountedTo(level, groups, n, next.chunks)
  <2>1. Len(st.chunks) \in Nat
    BY ScanStateIs
  <2>2. SUFFICES ASSUME NEW m \in 1 .. n, NEW k \in 1 .. n, elements[groups[m].root].level = level,
                        elements[groups[k].root].level = level
                 PROVE  Len(next.chunks) >= 1 /\ (m < k => Len(next.chunks) >= 2)
    BY DEF CountedTo
  <2>3. CASE k = n
    <3>1. Len(next.chunks) = Len(st.chunks) + 1
      BY <1>9, <2>2, <2>3
    <3>2. m < k => Len(st.chunks) >= 1
      <4> SUFFICES ASSUME m < k PROVE Len(st.chunks) >= 1
        OBVIOUS
      <4>1. m \in 1 .. n - 1
        BY <2>3
      <4> QED
        BY <1>7, <2>2, <4>1 DEF CountedTo
    <3> QED
      BY <2>1, <3>1, <3>2
  <2>4. CASE k # n /\ m = n
    <3>1. Len(next.chunks) = Len(st.chunks) + 1
      BY <1>9, <2>2, <2>4
    <3>2. ~(m < k)
      BY <2>4
    <3> QED
      BY <2>1, <3>1, <3>2
  <2>5. CASE k # n /\ m # n
    <3>1. k \in 1 .. n - 1 /\ m \in 1 .. n - 1
      BY <2>5
    <3>2. Len(st.chunks) >= 1 /\ (m < k => Len(st.chunks) >= 2)
      BY <1>7, <2>2, <3>1 DEF CountedTo
    <3>3. Len(next.chunks) \in {Len(st.chunks), Len(st.chunks) + 1}
      BY <1>9
    <3> QED
      BY <2>1, <3>2, <3>3
  <2> QED
    BY <2>3, <2>4, <2>5
<1>12. ScannedTo(level, groups, U, n, next)
  BY <1>4, <1>5, <1>9, <1>10, <1>11 DEF ScannedTo
<1> QED
  BY <1>12 DEF next

LEMMA ScannedHolds ==
  ASSUME ElementsOk, NEW level \in 1 .. 6, NEW groups, Len(groups) \in Nat, OncePerLevel(level, groups),
         \A n \in 1 .. Len(groups) : GroupOk(groups[n]) /\ HeadingAlone(groups[n]),
         NEW U, \A n \in 1 .. Len(groups) : ToSet(groups[n].all) \subseteq U
  PROVE  /\ Scanned(level, groups) \in ScanStates
         /\ ScannedTo(level, groups, U, Len(groups), Scanned(level, groups))
<1> DEFINE L == Len(groups)
<1>1. PICK f \in [0 .. Len(groups) -> ScanStates] : ScannedBy(level, groups, f)
  BY ScannedByIs
<1> DEFINE P == {n \in 0 .. L : ScannedTo(level, groups, U, n, f[n])}
<1>2. 0 \in P
  <2>1. f[0] = NothingScanned /\ 0 \in 0 .. L
    BY <1>1 DEF ScannedBy
  <2> QED
    BY <2>1, NothingScannedIs
<1>3. ASSUME NEW n \in 1 .. L, n - 1 \in P PROVE n \in P
  <2>1. n \in 0 .. L /\ n - 1 \in 0 .. L /\ ScannedTo(level, groups, U, n - 1, f[n - 1])
    BY <1>3
  <2>2. f[n - 1] \in ScanStates /\ f[n] = ScanGroup(level, f[n - 1], groups[n])
    BY <1>1, <2>1 DEF ScannedBy
  <2>3. GroupOk(groups[n]) /\ HeadingAlone(groups[n]) /\ ToSet(groups[n].all) \subseteq U
    OBVIOUS
  <2>4. ScannedTo(level, groups, U, n, f[n])
    BY <2>1, <2>2, <2>3, ScannedMore
  <2> QED
    BY <2>1, <2>4
<1>4. \A n \in 0 .. L : n \in P
  <2> HIDE DEF P
  <2> QED
    BY <1>2, <1>3, UpTo
<1>5. L \in 0 .. L
  OBVIOUS
<1>6. f[L] = Scanned(level, groups) /\ f[L] \in ScanStates
  BY <1>1, <1>5 DEF ScannedBy
<1> QED
  BY <1>4, <1>5, <1>6

-----------------------------------------------------------------------------
(* Splitting: the parts that the headings of one level make *)

LEMMA ReferencedFewer ==
  ASSUME NEW S, NEW ids \in Seq(S), NEW part \in Seq(S), ToSet(part) \subseteq ToSet(ids)
  PROVE  AllReferenced(part) \subseteq AllReferenced(ids)
<1>1. \A t \in Seq(S) : AllReferenced(t) = UNION {ToSet(InlineRefs(x)) : x \in ToSet(t)}
  BY DEF AllReferenced, ToSet
<1> QED
  BY <1>1

(* What a part has of what the whole may not leave out, it may not either. *)
LEMMA OwedByPart ==
  ASSUME NEW ids \in Seq(DOMAIN elements), NEW part \in Seq(DOMAIN elements),
         ToSet(part) \subseteq ToSet(ids), NEW i \in ToSet(part)
  PROVE  /\ i \in Headings \/ i \notin AllReferenced(ids) => i \in Owed(part)
         /\ \A r \in ToSet(part) :
              r \notin Headings /\ r \notin AllReferenced(ids) /\ i \in ToSet(InlineRefs(r))
                => i \in Owed(part)
<1>1. AllReferenced(part) \subseteq AllReferenced(ids)
  BY ReferencedFewer
<1> QED
  BY <1>1 DEF Owed

(* The groups of what repeats no level above the level. *)
LEMMA GroupsOncePerLevel ==
  ASSUME ElementsOk, HeadingsFree, NEW ids \in Seq(DOMAIN elements), NEW level \in 1 .. 6,
         \A l \in SplitLevels(ids) : level <= l
  PROVE  /\ Len(ElementGroups(ids)) = Len(Kept(ids)) /\ Len(Kept(ids)) \in Nat
         /\ OncePerLevel(level, ElementGroups(ids))
         /\ \A n \in 1 .. Len(Kept(ids)) :
              /\ GroupOk(ElementGroups(ids)[n]) /\ HeadingAlone(ElementGroups(ids)[n])
              /\ ElementGroups(ids)[n].root = Kept(ids)[n]
              /\ ToSet(ElementGroups(ids)[n].all) \subseteq ToSet(ids)
<1> DEFINE kept == Kept(ids)
    gs == ElementGroups(ids)
    R == LevelsApart(1 .. level - 1)
<1>1. /\ kept \in Seq(DOMAIN elements) /\ Len(gs) = Len(kept) /\ Len(kept) \in Nat
      /\ \A n \in 1 .. Len(kept) : kept[n] \in ToSet(ids) /\ gs[n] = GroupOf(kept[n], ids)
  BY GroupsAre
<1>2. Pairwise(kept, R)
  <2>1. 1 .. level - 1 \subseteq 1 .. 6 /\ SplitLevels(ids) \cap 1 .. level - 1 = {}
    BY DEF SplitLevels
  <2>2. Pairwise(ids, R)
    BY <2>1, ApartIs
  <2> QED
    BY <2>2, AmongPairwise DEF Kept
<1> HIDE DEF kept, gs
<1>3. \A n \in 1 .. Len(kept) : /\ GroupOk(gs[n]) /\ gs[n].root = kept[n]
                                /\ gs[n].root \in Headings => gs[n].all = <<gs[n].root>>
                                /\ ToSet(gs[n].all) \subseteq ToSet(ids)
  BY <1>1, GroupOfIs
<1>4. OncePerLevel(level, gs)
  <2> SUFFICES ASSUME NEW m \in 1 .. Len(gs), NEW n \in 1 .. Len(gs), m < n,
                      elements[gs[n].root].level \in 1 .. level - 1,
                      elements[gs[m].root].level = elements[gs[n].root].level
               PROVE  FALSE
    BY DEF OncePerLevel
  <2>1. <<kept[m], kept[n]>> \in R
    BY <1>1, <1>2 DEF Pairwise
  <2>2. gs[m].root = kept[m] /\ gs[n].root = kept[n]
    BY <1>1, <1>3
  <2> QED
    BY <2>1, <2>2 DEF LevelsApart
<1> QED
  BY <1>1, <1>3, <1>4 DEF kept, gs, HeadingAlone

(* The scan for the first level that repeats. *)
LEMMA ScanAtLevel ==
  ASSUME ElementsOk, HeadingsFree, NEW ids \in Seq(DOMAIN elements), SplitLevels(ids) # {}
  PROVE  LET level == Min(SplitLevels(ids))
             st == Scanned(level, ElementGroups(ids))
         IN  /\ level \in 1 .. 6 /\ st \in ScanStates /\ Len(st.chunks) >= 2
             /\ ScannedTo(level, ElementGroups(ids), ToSet(ids), Len(ElementGroups(ids)), st)
<1> DEFINE level == Min(SplitLevels(ids))
    gs == ElementGroups(ids)
    U == ToSet(ids)
    st == Scanned(level, gs)
    kept == Kept(ids)
<1>1. SplitLevels(ids) \subseteq 0 .. 6 /\ SplitLevels(ids) \subseteq 1 .. 6
  BY DEF SplitLevels
<1>2. level \in SplitLevels(ids) /\ \A l \in SplitLevels(ids) : level <= l
  BY <1>1, Extremes
<1>3. level \in 1 .. 6
  BY <1>1, <1>2
<1> HIDE DEF level
<1>4. /\ Len(gs) = Len(kept) /\ Len(kept) \in Nat /\ OncePerLevel(level, gs)
      /\ \A n \in 1 .. Len(kept) : /\ GroupOk(gs[n]) /\ HeadingAlone(gs[n]) /\ gs[n].root = kept[n]
                                   /\ ToSet(gs[n].all) \subseteq U
  BY <1>2, <1>3, GroupsOncePerLevel
<1>5. PICK m, n \in 1 .. Len(kept) : m < n /\ elements[kept[m]].level = level
             /\ elements[kept[n]].level = level
  BY <1>2, TwoHeadings
<1> HIDE DEF gs, kept, U, st
<1>6. st \in ScanStates /\ ScannedTo(level, gs, U, Len(gs), st)
  BY <1>3, <1>4, ScannedHolds DEF st
<1>7. Len(st.chunks) >= 2
  <2>1. CountedTo(level, gs, Len(gs), st.chunks)
    BY <1>6 DEF ScannedTo
  <2>2. elements[gs[m].root].level = level /\ elements[gs[n].root].level = level
    BY <1>4, <1>5
  <2> QED
    BY <1>4, <1>5, <2>1, <2>2 DEF CountedTo
<1> QED
  BY <1>3, <1>6, <1>7 DEF level, gs, U, st

(* A part: what its first heading has above it, the preamble, and the rest. *)
LEMMA PartIs ==
  ASSUME ElementsOk, NEW level \in 1 .. 6, NEW a \in Seq(DOMAIN elements), NEW b \in Seq(DOMAIN elements),
         NEW c \in Seq(DOMAIN elements), Pairwise(a \o c, LevelsApart(1 .. level)),
         \A x \in ToSet(b) : elements[x].level \notin 1 .. level
  PROVE  /\ a \o b \o c \in Seq(DOMAIN elements)
         /\ ToSet(a \o b \o c) = ToSet(a) \cup ToSet(b) \cup ToSet(c)
         /\ SplitLevels(a \o b \o c) \cap 1 .. level = {}
<1> DEFINE R == LevelsApart(1 .. level)
    ab == a \o b
<1>1. ab \in Seq(DOMAIN elements) /\ ToSet(ab) = ToSet(a) \cup ToSet(b)
  BY JoinedIn, JoinedMembers
<1>2. Pairwise(a, R) /\ Pairwise(c, R) /\ AllBefore(a, c, R)
  BY JoinedPairwise
<1>3. Pairwise(b, R) /\ AllBefore(a, b, R) /\ AllBefore(b, c, R)
  BY FreeOfLevels
<1>4. Pairwise(ab, R)
  BY <1>2, <1>3, PairwiseJoined
<1> HIDE DEF ab
<1>5. AllBefore(ab, c, R)
  <2>1. (\A x \in ToSet(a), y \in ToSet(c) : <<x, y>> \in R)
          /\ \A x \in ToSet(b), y \in ToSet(c) : <<x, y>> \in R
    BY <1>2, <1>3, BeforeMembers
  <2>2. \A x \in ToSet(ab), y \in ToSet(c) : <<x, y>> \in R
    BY <1>1, <2>1
  <2> QED
    BY <1>1, <2>2, BeforeMembers
<1>6. Pairwise(ab \o c, R)
  BY <1>1, <1>2, <1>4, <1>5, PairwiseJoined
<1>7. ab \o c \in Seq(DOMAIN elements) /\ ToSet(ab \o c) = ToSet(ab) \cup ToSet(c)
  BY <1>1, JoinedIn, JoinedMembers
<1>8. 1 .. level \subseteq 1 .. 6
  OBVIOUS
<1>9. SplitLevels(ab \o c) \cap 1 .. level = {}
  BY <1>6, <1>7, <1>8, ApartIs
<1> QED
  BY <1>1, <1>7, <1>9 DEF ab

(* The parts together leave out nothing that may not be left out, and the     *)
(* level they are made at repeats in none of them.                           *)
LEMMA PartsHold ==
  ASSUME ElementsOk, HeadingsFree, NEW ids \in Seq(DOMAIN elements), SplitLevels(ids) # {}
  PROVE  /\ SplitHierarchical(ids) \in Seq(Seq(DOMAIN elements)) /\ Len(SplitHierarchical(ids)) >= 2
         /\ \A n \in 1 .. Len(SplitHierarchical(ids)) :
              \A l \in SplitLevels(SplitHierarchical(ids)[n]) : l > Min(SplitLevels(ids))
         /\ \A i \in Owed(ids) : \E n \in 1 .. Len(SplitHierarchical(ids)) :
              i \in Owed(SplitHierarchical(ids)[n])
<1> DEFINE level == Min(SplitLevels(ids))
    gs == ElementGroups(ids)
    st == Scanned(level, gs)
    parts == SplitHierarchical(ids)
    pre(n) == IF TakesPreamble(n, st.chunks) THEN st.preamble ELSE <<>>
    part(n) == st.chunks[n].ctx \o pre(n) \o st.chunks[n].ids
    L == Len(st.chunks)
<1>1. /\ level \in 1 .. 6 /\ st \in ScanStates /\ Len(st.chunks) >= 2
      /\ ScannedTo(level, gs, ToSet(ids), Len(gs), st)
  BY ScanAtLevel
<1>2. parts = [n \in DOMAIN st.chunks |-> part(n)]
  BY DEF SplitHierarchical
<1>3. /\ st.chunks \in Seq([ids : Seq(DOMAIN elements), ctx : Seq(DOMAIN elements)]) /\ L \in Nat
      /\ \A n \in 1 .. L : st.chunks[n].ctx \in Seq(DOMAIN elements)
           /\ st.chunks[n].ids \in Seq(DOMAIN elements)
      /\ st.preamble \in Seq(DOMAIN elements)
  BY <1>1, ScanStateIs
<1> HIDE DEF level, gs, st, parts
<1>4. DOMAIN st.chunks = 1 .. L /\ st.chunks # <<>>
  <2>1. Len(st.chunks) # 0
    BY <1>1
  <2> QED
    BY <1>3, <2>1
<1>5. /\ \A x \in ToSet(st.preamble) : elements[x].level \notin 1 .. level
      /\ \A n \in 1 .. L : Pairwise(st.chunks[n].ctx \o st.chunks[n].ids, LevelsApart(1 .. level))
      /\ \A n \in 1 .. Len(gs) : HeldBy(st, ToSet(gs[n].all))
      /\ ToSet(st.preamble) \subseteq ToSet(ids)
      /\ \A n \in 1 .. L : ToSet(st.chunks[n].ctx) \subseteq ToSet(ids) /\ ToSet(st.chunks[n].ids)
           \subseteq ToSet(ids)
  BY <1>1 DEF ScannedTo, ScanHolds, ChunkHolds, Within
<1>6. ASSUME NEW n \in 1 .. L
      PROVE  /\ part(n) \in Seq(DOMAIN elements) /\ SplitLevels(part(n)) \cap 1 .. level = {}
             /\ ToSet(part(n)) \subseteq ToSet(ids)
             /\ ToSet(st.chunks[n].ctx) \subseteq ToSet(part(n)) /\ ToSet(st.chunks[n].ids)
                  \subseteq ToSet(part(n))
             /\ n = 1 => ToSet(st.preamble) \subseteq ToSet(part(n))
  <2> DEFINE a == st.chunks[n].ctx
      b == pre(n)
      c == st.chunks[n].ids
  <2>1. a \in Seq(DOMAIN elements) /\ c \in Seq(DOMAIN elements)
          /\ Pairwise(a \o c, LevelsApart(1 .. level))
        /\ ToSet(a) \subseteq ToSet(ids) /\ ToSet(c) \subseteq ToSet(ids)
    BY <1>3, <1>5
  <2>2. (b = st.preamble \/ b = <<>>) /\ (n = 1 => b = st.preamble)
    BY DEF TakesPreamble
  <2>3. <<>> \in Seq(DOMAIN elements) /\ ToSet(<<>>) = {}
    BY DEF ToSet
  <2> HIDE DEF a, b, c
  <2>4. b \in Seq(DOMAIN elements) /\ ToSet(b) \subseteq ToSet(ids)
        /\ \A x \in ToSet(b) : elements[x].level \notin 1 .. level
    BY <1>3, <1>5, <2>2, <2>3
  <2>5. /\ a \o b \o c \in Seq(DOMAIN elements)
        /\ ToSet(a \o b \o c) = ToSet(a) \cup ToSet(b) \cup ToSet(c)
        /\ SplitLevels(a \o b \o c) \cap 1 .. level = {}
    BY <1>1, <2>1, <2>4, PartIs
  <2>6. part(n) = a \o b \o c
    BY DEF a, b, c
  <2> HIDE DEF part
  <2> QED
    BY <2>1, <2>2, <2>4, <2>5, <2>6 DEF a, c
<1> HIDE DEF part
<1>7. parts \in Seq(Seq(DOMAIN elements)) /\ Len(parts) = L /\ \A n \in 1 .. L : parts[n] = part(n)
  <2> DEFINE S == Seq(DOMAIN elements)
  <2>1. parts = [n \in 1 .. L |-> part(n)]
    BY <1>2, <1>4
  <2>2. \A n \in 1 .. L : part(n) \in S
    BY <1>6
  <2>3. \A n \in 1 .. L : parts[n] = part(n)
    BY <2>1
  <2>4. parts = [n \in 1 .. L |-> parts[n]]
    BY <2>1
  <2>5. \A n \in 1 .. L : parts[n] \in S
    BY <2>2, <2>3
  <2>6. L \in Nat
    BY <1>3
  <2> HIDE DEF S, L
  <2>7. parts \in Seq(S) /\ Len(parts) = L
    BY <2>4, <2>5, <2>6, SequenceIs
  <2> QED
    BY <2>3, <2>7 DEF S
<1>8. ASSUME NEW T, HeldBy(st, T) PROVE \E n \in 1 .. L : T \subseteq ToSet(part(n))
  <2>1. 1 \in 1 .. L
    BY <1>1, <1>3
  <2> QED
    BY <1>4, <1>6, <1>8, <2>1 DEF HeldBy
<1>9. ASSUME NEW n \in 1 .. Len(parts), NEW l \in SplitLevels(parts[n]) PROVE l > level
  <2>1. parts[n] = part(n) /\ SplitLevels(part(n)) \cap 1 .. level = {}
    BY <1>6, <1>7
  <2>2. l \in 1 .. 6 /\ l \notin 1 .. level
    BY <2>1 DEF SplitLevels
  <2> QED
    BY <1>1, <2>2
<1>10. ASSUME NEW i \in Owed(ids) PROVE \E n \in 1 .. Len(parts) : i \in Owed(parts[n])
  <2>1. /\ Len(gs) = Len(Kept(ids))
        /\ \A n \in 1 .. Len(gs) : Kept(ids)[n] \in ToSet(ids) /\ gs[n] = GroupOf(Kept(ids)[n], ids)
        /\ \A x \in ToSet(ids) : x \in Headings \/ x \notin AllReferenced(ids) =>
             \E n \in 1 .. Len(gs) : Kept(ids)[n] = x
    BY GroupsAre DEF gs
  <2>2. ASSUME NEW x \in ToSet(ids), x \in Headings \/ x \notin AllReferenced(ids)
        PROVE  \E n \in 1 .. L : /\ x \in ToSet(part(n))
                                 /\ x \notin Headings
                                      => ToSet(InlineRefs(x)) \cap ToSet(ids) \subseteq ToSet(part(n))
    <3>1. PICK k \in 1 .. Len(gs) : Kept(ids)[k] = x
      BY <2>1, <2>2
    <3>2. gs[k] = GroupOf(x, ids)
      BY <2>1, <3>1
    <3>3. /\ GroupOk(gs[k]) /\ gs[k].root = x
          /\ x \notin Headings => ToSet(InlineRefs(x)) \cap ToSet(ids) \subseteq ToSet(Tail(gs[k].all))
      BY <3>2, GroupOfIs
    <3>4. ToSet(gs[k].all) = {x} \cup ToSet(Tail(gs[k].all))
      BY <3>3 DEF GroupOk
    <3>5. PICK n \in 1 .. L : ToSet(gs[k].all) \subseteq ToSet(part(n))
      BY <1>5, <1>8
    <3> QED
      BY <3>3, <3>4, <3>5
  <2>3. \A n \in 1 .. L : parts[n] = part(n) /\ part(n) \in Seq(DOMAIN elements) /\ ToSet(part(n))
          \subseteq ToSet(ids)
    BY <1>6, <1>7
  <2>4. i \in ToSet(ids)
    BY DEF Owed
  <2>5. CASE i \in Headings \/ i \notin AllReferenced(ids)
    <3>1. PICK n \in 1 .. L : i \in ToSet(part(n))
      BY <2>2, <2>4, <2>5
    <3>2. i \in Owed(part(n))
      BY <2>3, <2>5, <3>1, OwedByPart
    <3> QED
      BY <1>7, <2>3, <3>2
  <2>6. CASE ~(i \in Headings \/ i \notin AllReferenced(ids))
    <3>1. PICK r \in ToSet(ids) : r \notin Headings /\ r \notin AllReferenced(ids)
                 /\ i \in ToSet(InlineRefs(r))
      BY <2>6 DEF Owed
    <3>2. PICK n \in 1 .. L : r \in ToSet(part(n)) /\ ToSet(InlineRefs(r)) \cap ToSet(ids)
                 \subseteq ToSet(part(n))
      BY <2>2, <3>1
    <3>3. i \in ToSet(part(n))
      BY <2>4, <3>1, <3>2
    <3>4. i \in Owed(part(n))
      BY <2>3, <3>1, <3>2, <3>3, OwedByPart
    <3> QED
      BY <1>7, <2>3, <3>4
  <2> QED
    BY <2>5, <2>6
<1> QED
  BY <1>1, <1>7, <1>9, <1>10 DEF level, parts

-----------------------------------------------------------------------------
(* Splitting: the document *)

(* Nothing is left out, unless all is refused. *)
Covers(chunks, ids) == chunks = Refused \/ ElementTokens(Owed(ids)) \subseteq ShownBy(chunks)

Splitters == [Seq(DOMAIN elements) -> Seq(Seq(Piece))]

LEMMA SubdividedIs ==
  ASSUME ElementsOk, HeadingsFree, NEW inner \in Splitters, NEW ids \in Seq(DOMAIN elements)
  PROVE  /\ Subdivided(inner, ids) \in Seq(Seq(Piece))
         /\ \/ Subdivided(inner, ids) = <<Pieces(ids)>>
            \/ SplitLevels(ids) = {} /\ Subdivided(inner, ids) = SplitByElements(ids)
            \/ Subdivided(inner, ids) = Refused
            \/ SplitLevels(ids) # {}
               /\ \A n \in 1 .. Len(SplitHierarchical(ids)) :
                    /\ inner[SplitHierarchical(ids)[n]] # Refused
                    /\ ShownBy(inner[SplitHierarchical(ids)[n]]) \subseteq ShownBy(Subdivided(inner, ids))
<1> DEFINE parts == SplitHierarchical(ids)
    sub == [n \in DOMAIN parts |-> inner[parts[n]]]
    all == FlattenSeq(sub)
    C == Seq(Piece)
    whole == <<Pieces(ids)>>
<1>1. whole \in Seq(C) /\ SplitByElements(ids) \in Seq(C) /\ Refused \in Seq(C)
  BY SplitByElementsIn, RefusedIs
<1>2. Subdivided(inner, ids) =
        IF Titled(Pieces(ids)) <= Budget THEN whole
        ELSE IF Len(parts) = 1 THEN SplitByElements(ids)
        ELSE IF \E n \in DOMAIN parts : sub[n] = Refused THEN Refused ELSE all
  BY DEF Subdivided
<1>3. SplitLevels(ids) = {} => Len(parts) = 1
  <2> SUFFICES ASSUME SplitLevels(ids) = {} PROVE Len(parts) = 1
    OBVIOUS
  <2>1. parts = <<ids>>
    BY DEF SplitHierarchical
  <2>2. Len(<<ids>>) = 1
    OBVIOUS
  <2> HIDE DEF parts
  <2> QED
    BY <2>1, <2>2, Zenon
<1>4. SplitLevels(ids) # {} => parts \in Seq(Seq(DOMAIN elements)) /\ Len(parts) # 1
  <2> SUFFICES ASSUME SplitLevels(ids) # {} PROVE parts \in Seq(Seq(DOMAIN elements)) /\ Len(parts) # 1
    OBVIOUS
  <2>1. parts \in Seq(Seq(DOMAIN elements)) /\ Len(parts) >= 2
    BY PartsHold
  <2> DEFINE S == Seq(DOMAIN elements)
      L == Len(parts)
  <2> HIDE DEF parts
  <2>2. parts \in Seq(S)
    BY <2>1
  <2> HIDE DEF S
  <2>3. L \in Nat
    BY <2>2
  <2>4. L >= 2
    BY <2>1
  <2> HIDE DEF L
  <2>5. L # 1
    BY <2>3, <2>4
  <2> QED
    BY <2>1, <2>5 DEF L
<1> HIDE DEF whole
<1>5. ASSUME SplitLevels(ids) # {}
      PROVE  /\ all \in Seq(C) /\ DOMAIN parts = 1 .. Len(parts)
             /\ \A n \in 1 .. Len(parts) : sub[n] = inner[parts[n]] /\ ShownBy(sub[n])
                  \subseteq ShownBy(all)
  <2>1. parts \in Seq(Seq(DOMAIN elements))
    BY <1>4, <1>5
  <2> HIDE DEF parts
  <2>2. DOMAIN parts = 1 .. Len(parts) /\ Len(parts) \in Nat
    BY <2>1
  <2>3. \A n \in 1 .. Len(parts) : sub[n] = inner[parts[n]]
    BY <2>2
  <2>4. \A n \in 1 .. Len(parts) : inner[parts[n]] \in Seq(C)
    <3> SUFFICES ASSUME NEW n \in 1 .. Len(parts) PROVE inner[parts[n]] \in Seq(C)
      OBVIOUS
    <3>1. parts[n] \in Seq(DOMAIN elements)
      BY <2>1
    <3> QED
      BY <3>1 DEF Splitters
  <2>5. sub = [n \in 1 .. Len(parts) |-> sub[n]]
    BY <2>2
  <2>6. \A n \in 1 .. Len(parts) : sub[n] \in Seq(C)
    BY <2>3, <2>4
  <2> HIDE DEF sub, C
  <2>7. sub \in Seq(Seq(C)) /\ Len(sub) = Len(parts)
    <3> DEFINE S == Seq(C)
        L == Len(parts)
    <3>1. L \in Nat /\ sub = [n \in 1 .. L |-> sub[n]] /\ \A n \in 1 .. L : sub[n] \in S
      BY <2>2, <2>5, <2>6
    <3> HIDE DEF S, L
    <3>2. sub \in Seq(S) /\ Len(sub) = L
      BY <3>1, SequenceIs
    <3> QED
      BY <3>2 DEF S, L
  <2>8. all \in Seq(C)
    BY <2>7, FlattenIn
  <2>9. \A x : x \in ToSet(all) <=> \E n \in 1 .. Len(sub) : x \in ToSet(sub[n])
    BY <2>7, FlattenMembers
  <2> HIDE DEF all
  <2>10. \A t \in Seq(C) : ShownBy(t) = UNION {ToSet(Render(chunk)) : chunk \in ToSet(t)}
    BY ShownByMembers DEF C
  <2>11. ASSUME NEW n \in 1 .. Len(parts) PROVE ShownBy(sub[n]) \subseteq ShownBy(all)
    <3>1. ToSet(sub[n]) \subseteq ToSet(all)
      BY <2>7, <2>9
    <3>2. sub[n] \in Seq(C)
      BY <2>6
    <3> QED
      BY <2>8, <2>10, <3>1, <3>2
  <2> QED
    BY <2>2, <2>3, <2>8, <2>11
<1> HIDE DEF parts, sub, all, C
<1>6. CASE SplitLevels(ids) = {}
  <2>1. Subdivided(inner, ids) = whole \/ Subdivided(inner, ids) = SplitByElements(ids)
    BY <1>2, <1>3, <1>6
  <2> QED
    BY <1>1, <1>6, <2>1 DEF whole, C
<1>7. CASE SplitLevels(ids) # {}
  <2>1. \/ Subdivided(inner, ids) = whole \/ Subdivided(inner, ids) = Refused
        \/ Subdivided(inner, ids) = all /\ ~\E n \in DOMAIN parts : sub[n] = Refused
    BY <1>2, <1>4, <1>7
  <2>2. CASE Subdivided(inner, ids) = whole \/ Subdivided(inner, ids) = Refused
    BY <1>1, <2>2 DEF whole, C
  <2>3. CASE Subdivided(inner, ids) = all /\ ~\E n \in DOMAIN parts : sub[n] = Refused
    <3>1. \A n \in 1 .. Len(parts) :
            inner[parts[n]] # Refused /\ ShownBy(inner[parts[n]])
              \subseteq ShownBy(Subdivided(inner, ids))
      BY <1>5, <1>7, <2>3
    <3>2. Subdivided(inner, ids) \in Seq(C)
      BY <1>5, <1>7, <2>3
    <3> QED
      BY <1>7, <3>1, <3>2 DEF parts, C
  <2> QED
    BY <2>1, <2>2, <2>3
<1> QED
  BY <1>6, <1>7

(* All that repeats no level up to the level is covered. *)
CoversBelow(inner, level) ==
  \A part \in Seq(DOMAIN elements) : SplitLevels(part) \subseteq level + 1 .. 6
    => Covers(inner[part], part)

LEMMA SubdividedCovers ==
  ASSUME ElementsOk, HeadingsFree, NEW inner \in Splitters, NEW level \in 1 .. 6, CoversBelow(inner,
           level),
         NEW ids \in Seq(DOMAIN elements), SplitLevels(ids) \subseteq level .. 6
  PROVE  Covers(Subdivided(inner, ids), ids)
<1> DEFINE parts == SplitHierarchical(ids)
    sub == Subdivided(inner, ids)
    whole == <<Pieces(ids)>>
<1>1. \/ sub = whole
      \/ SplitLevels(ids) = {} /\ sub = SplitByElements(ids)
      \/ sub = Refused
      \/ SplitLevels(ids) # {}
         /\ \A n \in 1 .. Len(parts) : inner[parts[n]] # Refused /\ ShownBy(inner[parts[n]])
              \subseteq ShownBy(sub)
  BY SubdividedIs
<1>2. ElementTokens(Owed(ids)) \subseteq ShownBy(whole)
  BY WholeShows
<1>3. SplitLevels(ids) = {} => Covers(SplitByElements(ids), ids)
  BY SplitByElementsHolds DEF Covers
<1>4. SplitLevels(ids) # {} =>
        /\ parts \in Seq(Seq(DOMAIN elements))
        /\ \A n \in 1 .. Len(parts) : \A l \in SplitLevels(parts[n]) : l > Min(SplitLevels(ids))
        /\ \A i \in Owed(ids) : \E n \in 1 .. Len(parts) : i \in Owed(parts[n])
  BY PartsHold
<1>5. SplitLevels(ids) # {} => Min(SplitLevels(ids)) \in SplitLevels(ids)
  <2>1. SplitLevels(ids) \subseteq 0 .. 6
    BY DEF SplitLevels
  <2> QED
    BY <2>1, Extremes
<1> HIDE DEF parts, sub, whole
<1>6. CASE SplitLevels(ids) # {}
           /\ \A n \in 1 .. Len(parts) : inner[parts[n]] # Refused /\ ShownBy(inner[parts[n]])
                \subseteq ShownBy(sub)
  <2>1. ASSUME NEW n \in 1 .. Len(parts) PROVE ElementTokens(Owed(parts[n])) \subseteq ShownBy(sub)
    <3>1. parts[n] \in Seq(DOMAIN elements)
      BY <1>4, <1>6
    <3>2. SplitLevels(parts[n]) \subseteq level + 1 .. 6
      <4> SUFFICES ASSUME NEW l \in SplitLevels(parts[n]) PROVE l \in level + 1 .. 6
        OBVIOUS
      <4>1. l \in 1 .. 6
        BY DEF SplitLevels
      <4>2. l > Min(SplitLevels(ids)) /\ Min(SplitLevels(ids)) \in level .. 6
        BY <1>4, <1>5, <1>6
      <4> QED
        BY <4>1, <4>2
    <3>3. Covers(inner[parts[n]], parts[n])
      BY <3>1, <3>2 DEF CoversBelow
    <3> QED
      BY <1>6, <3>3 DEF Covers
  <2>2. \A i \in Owed(ids) : OfElement(i) \subseteq ShownBy(sub)
    BY <1>4, <1>6, <2>1 DEF ElementTokens
  <2>3. ElementTokens(Owed(ids)) \subseteq ShownBy(sub)
    BY <2>2 DEF ElementTokens
  <2> QED
    BY <2>3 DEF Covers, sub
<1>7. CASE sub = whole
  BY <1>2, <1>7 DEF Covers, sub
<1>8. CASE SplitLevels(ids) = {} /\ sub = SplitByElements(ids)
  BY <1>3, <1>8 DEF sub
<1>9. CASE sub = Refused
  BY <1>9 DEF Covers, sub
<1> QED
  BY <1>1, <1>6, <1>7, <1>8, <1>9

(* The equations of split_document. *)
DividedBy(f) ==
  /\ f[0] = [part \in Seq(DOMAIN elements) |-> SplitByElements(part)]
       /\ \A ids : SplitDocument(ids) = f[6][ids]
  /\ \A n \in 1 .. 6 : f[n] = [part \in Seq(DOMAIN elements) |-> Subdivided(f[n - 1], part)]

LEMMA DividedByIs ==
  ASSUME ElementsOk, HeadingsFree
  PROVE  \E f \in [0 .. 6 -> Splitters] : DividedBy(f)
<1> DEFINE
    L == 6
    X == Splitters
    first == [part \in Seq(DOMAIN elements) |-> SplitByElements(part)]
    Step(x, n) == [part \in Seq(DOMAIN elements) |-> Subdivided(x, part)]
    T == [w \in X \X (1 .. L) |-> Step(w[1], w[2])]
    Then(g, n) == IF n = 0 THEN [part \in Seq(DOMAIN elements) |-> SplitByElements(part)]
      ELSE [part \in Seq(DOMAIN elements) |-> Subdivided(g[n - 1], part)]
    Solves(g) == g = [n \in 0 .. L |-> Then(g, n)]
<1>1. L \in Nat /\ [part \in Seq(DOMAIN elements) |-> SplitByElements(part)] \in X
  <2>1. \A part \in Seq(DOMAIN elements) : SplitByElements(part) \in Seq(Seq(Piece))
    BY SplitByElementsIn
  <2> QED
    BY <2>1 DEF Splitters
<1>2. ASSUME NEW x \in X, NEW n \in 1 .. L PROVE Step(x, n) \in X
  <2>1. \A part \in Seq(DOMAIN elements) : Subdivided(x, part) \in Seq(Seq(Piece))
    BY SubdividedIs
  <2> QED
    BY <2>1 DEF Splitters
<1> HIDE DEF L, X
<1>3. StaysIn(T, X, L)
  <2> HIDE DEF Step
  <2> QED
    BY <1>2 DEF StaysIn
<1>4. PICK f \in [0 .. L -> X] : f[0] = first /\ \A n \in 1 .. L : f[n] = T[<<f[n - 1], n>>]
  <2>1. L \in Nat /\ first \in X
    BY <1>1
  <2> HIDE DEF T, first
  <2>2. PICK h \in [0 .. L -> X] : Follows(h, first, T, L)
    BY <1>3, <2>1, IteratedBy
  <2>3. h[0] = first /\ \A n \in 1 .. L : h[n] = T[<<h[n - 1], n>>]
    BY <2>2, Zenon DEF Follows
  <2> QED
    BY <2>3, Zenon
<1>5. ASSUME NEW n \in 1 .. L PROVE f[n] = Step(f[n - 1], n)
  <2>1. f[n - 1] \in X
    BY <1>1
  <2>2. T[<<f[n - 1], n>>] = Step(f[n - 1], n)
    <3> HIDE DEF Step
    <3> QED
      BY <2>1
  <2> HIDE DEF Step, T
  <2> QED
    BY <1>4, <2>2, Zenon
<1>6. Solves(f)
  <2>1. f = [n \in 0 .. L |-> f[n]]
    OBVIOUS
  <2>2. ASSUME NEW n \in 0 .. L PROVE f[n] = Then(f, n)
    <3>1. CASE n = 0
      BY <1>4, <3>1, Zenon
    <3>2. CASE n # 0
      <4>1. n \in 1 .. L
        BY <1>1, <3>2
      <4>2. f[n] = Step(f[n - 1], n)
        BY <1>5, <4>1, Zenon
      <4> QED
        BY <3>2, <4>2, Zenon
    <3> QED
      BY <3>1, <3>2, Zenon
  <2> HIDE DEF Then
  <2> QED
    BY <2>1, <2>2
<1> DEFINE g == CHOOSE g : Solves(g)
<1>7. Solves(g)
  <2> HIDE DEF Solves
  <2> QED
    BY <1>6
<1>8. \A ids : SplitDocument(ids) = g[L][ids]
  BY DEF SplitDocument, L
<1> HIDE DEF g
<1>9. /\ g = [n \in 0 .. L |-> g[n]] /\ g[0] = [part \in Seq(DOMAIN elements) |-> SplitByElements(part)]
      /\ \A n \in 1 .. L : g[n] = Step(g[n - 1], n)
  <2>1. g = [n \in 0 .. L |-> Then(g, n)]
    BY <1>7
  <2>2. \A n \in 0 .. L : g[n] = Then(g, n)
    <3> HIDE DEF Then
    <3> QED
      BY <2>1
  <2>3. \A n \in 1 .. L : n \in 0 .. L /\ n # 0
    BY <1>1
  <2>4. 0 \in 0 .. L
    BY <1>1
  <2>5. g[0] = [part \in Seq(DOMAIN elements) |-> SplitByElements(part)]
    BY <2>2, <2>4, Zenon
  <2>6. \A n \in 1 .. L : g[n] = Step(g[n - 1], n)
    BY <2>2, <2>3, Zenon
  <2>7. g = [n \in 0 .. L |-> g[n]]
    <3> HIDE DEF Then
    <3> QED
      BY <2>1, <2>2
  <2> QED
    BY <2>5, <2>6, <2>7
<1>10. g \in [0 .. L -> X]
  <2> HIDE DEF Step
  <2> DEFINE P == {n \in 0 .. L : g[n] \in X}
  <2>1. 0 \in P
    BY <1>1, <1>9
  <2>2. ASSUME NEW n \in 1 .. L, n - 1 \in P PROVE n \in P
    <3>1. g[n - 1] \in X /\ n \in 0 .. L
      BY <1>1, <2>2
    <3>2. Step(g[n - 1], n) \in X
      BY <1>2, <3>1
    <3>3. g[n] = Step(g[n - 1], n)
      BY <1>9
    <3> QED
      BY <3>1, <3>2, <3>3
  <2>3. \A n \in 0 .. L : n \in P
    <3> HIDE DEF P
    <3> QED
      BY <1>1, <2>1, <2>2, UpTo
  <2> QED
    BY <1>9, <2>3
<1> HIDE DEF Then, Solves, T
<1>11. DividedBy(g)
  <2>1. \A n \in 1 .. 6 : g[n] = [part \in Seq(DOMAIN elements) |-> Subdivided(g[n - 1], part)]
    BY <1>9, Zenon DEF L
  <2>2. g[0] = [part \in Seq(DOMAIN elements) |-> SplitByElements(part)]
          /\ \A ids : SplitDocument(ids) = g[6][ids]
    BY <1>8, <1>9, Zenon DEF L
  <2> QED
    BY <2>1, <2>2, Zenon DEF DividedBy
<1> QED
  BY <1>10, <1>11, Zenon DEF L, X

(* split_document leaves out nothing that it may not leave out. *)
LEMMA SplitDocumentCovers ==
  ASSUME ElementsOk, HeadingsFree, NEW ids \in Seq(DOMAIN elements)
  PROVE  Covers(SplitDocument(ids), ids)
<1>1. PICK f \in [0 .. 6 -> Splitters] : DividedBy(f)
  BY DividedByIs
<1> DEFINE P == {n \in 0 .. 6 : CoversBelow(f[n], 6 - n)}
<1>2. 0 \in P
  <2>1. f[0] = [part \in Seq(DOMAIN elements) |-> SplitByElements(part)]
    BY <1>1 DEF DividedBy
  <2>2. ASSUME NEW part \in Seq(DOMAIN elements), SplitLevels(part) \subseteq 6 + 1 .. 6
        PROVE  Covers(f[0][part], part)
    <3>1. SplitLevels(part) = {}
      BY <2>2
    <3>2. f[0][part] = SplitByElements(part)
      BY <2>1
    <3> QED
      BY <3>1, <3>2, SplitByElementsHolds DEF Covers
  <2>3. CoversBelow(f[0], 6)
    BY <2>2 DEF CoversBelow
  <2> QED
    BY <2>3
<1>3. ASSUME NEW n \in 1 .. 6, n - 1 \in P PROVE n \in P
  <2>1. f[n - 1] \in Splitters /\ f[n] = [part \in Seq(DOMAIN elements) |-> Subdivided(f[n - 1], part)]
    BY <1>1 DEF DividedBy
  <2> DEFINE level == 7 - n
  <2>2. level \in 1 .. 6 /\ 6 - (n - 1) = level /\ 6 - n = level - 1 /\ level - 1 + 1 = level
          /\ n \in 0 .. 6
    OBVIOUS
  <2>3. CoversBelow(f[n - 1], level)
    BY <1>3, <2>2
  <2> HIDE DEF level
  <2>4. ASSUME NEW part \in Seq(DOMAIN elements), SplitLevels(part) \subseteq level - 1 + 1 .. 6
        PROVE  Covers(f[n][part], part)
    <3>1. Covers(Subdivided(f[n - 1], part), part)
      BY <2>1, <2>2, <2>3, <2>4, SubdividedCovers
    <3>2. f[n][part] = Subdivided(f[n - 1], part)
      BY <2>1
    <3> QED
      BY <3>1, <3>2
  <2>5. CoversBelow(f[n], level - 1)
    BY <2>4 DEF CoversBelow
  <2> QED
    BY <2>2, <2>5
<1>4. \A n \in 0 .. 6 : n \in P
  <2> HIDE DEF P
  <2> QED
    BY <1>2, <1>3, UpTo
<1>5. CoversBelow(f[6], 0)
  <2>1. 6 \in P /\ 6 - 6 = 0
    BY <1>4
  <2> QED
    BY <2>1
<1>6. SplitLevels(ids) \subseteq 0 + 1 .. 6
  BY DEF SplitLevels
<1>7. SplitDocument(ids) = f[6][ids]
  BY <1>1 DEF DividedBy
<1> QED
  BY <1>5, <1>6, <1>7 DEF CoversBelow

-----------------------------------------------------------------------------
(* Splitting: split_by_headings *)

(* The parts so far: not empty, their elements in order are 1 .. n, and each  *)
(* but the first begins with a heading after one that holds something else.  *)
Begun(parts) ==
  \A k \in 2 .. Len(parts) : HeadingAt(parts[k][1]) /\ Bodied(parts[k - 1])

PartsTo(n) ==
  {parts \in Seq(Seq(Nat)) :
     /\ FlattenSeq(parts) = [i \in 1 .. n |-> i]
     /\ \A k \in 1 .. Len(parts) : parts[k] # <<>>
     /\ Begun(parts)}

LEMMA CountedOn ==
  ASSUME NEW n \in Nat
  PROVE  /\ [i \in 1 .. n + 1 |-> i] = Append([i \in 1 .. n |-> i], n + 1)
         /\ [i \in 1 .. n |-> i] \in Seq(Nat)
OBVIOUS

LEMMA PartBegun ==
  ASSUME NEW n \in Nat, NEW parts \in PartsTo(n), parts = <<>> \/ BeginsPart(n + 1, Last(parts))
  PROVE  Append(parts, <<n + 1>>) \in PartsTo(n + 1)
<1> DEFINE one == <<n + 1>>
    next == Append(parts, one)
    S == Seq(Nat)
<1>1. one \in S /\ one # <<>> /\ one[1] = n + 1
  OBVIOUS
<1>2. /\ parts \in Seq(S) /\ FlattenSeq(parts) = [i \in 1 .. n |-> i]
      /\ \A k \in 1 .. Len(parts) : parts[k] # <<>>
      /\ \A k \in 2 .. Len(parts) : HeadingAt(parts[k][1]) /\ Bodied(parts[k - 1])
  BY DEF PartsTo, Begun
<1>3. FlattenSeq(parts) \o one = Append(FlattenSeq(parts), n + 1)
  <2> DEFINE f == FlattenSeq(parts)
  <2>1. f \in Seq(Nat)
    BY <1>2, CountedOn
  <2> HIDE DEF f
  <2>2. f \o <<n + 1>> = Append(f, n + 1)
    BY <2>1
  <2> QED
    BY <2>2 DEF f
<1> HIDE DEF one, S
<1>4. /\ next \in Seq(S) /\ Len(next) = Len(parts) + 1 /\ next[Len(parts) + 1] = one
      /\ \A k \in 1 .. Len(parts) : next[k] = parts[k]
      /\ Len(parts) \in Nat
  BY <1>1, <1>2, AppendFacts
<1>5. FlattenSeq(next) = [i \in 1 .. n + 1 |-> i]
  <2>1. FlattenSeq(next) = FlattenSeq(parts) \o one
    BY <1>1, <1>2, FlattenAppend DEF S
  <2> QED
    BY <1>2, <1>3, <2>1, CountedOn, Zenon
<1> HIDE DEF next
<1>6. \A k \in 1 .. Len(next) : k \in 1 .. Len(parts) \/ k = Len(parts) + 1
  BY <1>4
<1>7. \A k \in 1 .. Len(next) : next[k] # <<>>
  BY <1>1, <1>2, <1>4, <1>6
<1>8. ASSUME NEW k \in 2 .. Len(next) PROVE HeadingAt(next[k][1]) /\ Bodied(next[k - 1])
  <2>1. k - 1 \in 1 .. Len(parts)
    BY <1>4
  <2>2. next[k - 1] = parts[k - 1]
    BY <1>4, <2>1
  <2>3. CASE k = Len(parts) + 1
    <3>1. parts # <<>> /\ Last(parts) = parts[k - 1]
      BY <1>2, <2>1, <2>3 DEF Last
    <3>2. HeadingAt(n + 1) /\ Bodied(parts[k - 1])
      BY <3>1 DEF BeginsPart
    <3> QED
      BY <1>1, <1>4, <2>2, <2>3, <3>2
  <2>4. CASE k # Len(parts) + 1
    <3>1. k \in 2 .. Len(parts) /\ next[k] = parts[k]
      BY <1>4, <2>4
    <3> QED
      BY <1>2, <2>2, <3>1
  <2> QED
    BY <2>3, <2>4
<1> QED
  BY <1>4, <1>5, <1>7, <1>8 DEF PartsTo, Begun, next, one, S

LEMMA PartExtended ==
  ASSUME NEW n \in Nat, NEW parts \in PartsTo(n), parts # <<>>
  PROVE  Front(parts) \o <<Append(Last(parts), n + 1)>> \in PartsTo(n + 1)
<1> DEFINE S == Seq(Nat)
    f == Front(parts)
    ending == Last(parts)
    longer == Append(ending, n + 1)
    next == Append(f, longer)
<1>1. /\ parts \in Seq(S) /\ FlattenSeq(parts) = [i \in 1 .. n |-> i]
      /\ \A k \in 1 .. Len(parts) : parts[k] # <<>>
      /\ \A k \in 2 .. Len(parts) : HeadingAt(parts[k][1]) /\ Bodied(parts[k - 1])
  BY DEF PartsTo, Begun
<1> HIDE DEF S
<1>2. f \in Seq(S) /\ ending \in S /\ parts = Append(f, ending)
  BY <1>1, FrontLast
<1> HIDE DEF f, ending
<1>3. ending \in Seq(Nat) /\ n + 1 \in Nat
  BY <1>2 DEF S
<1>4. /\ longer \in S /\ Len(longer) = Len(ending) + 1 /\ Len(ending) \in Nat
      /\ \A k \in 1 .. Len(ending) : longer[k] = ending[k]
  BY <1>3, AppendFacts DEF S
<1> HIDE DEF longer
<1>5. f \o <<longer>> = next
  BY <1>2, <1>4
<1>6. /\ next \in Seq(S) /\ Len(next) = Len(f) + 1 /\ next[Len(f) + 1] = longer
      /\ Len(f) \in Nat /\ \A k \in 1 .. Len(f) : next[k] = f[k]
  BY <1>2, <1>4, AppendFacts
<1>7. /\ Len(parts) = Len(f) + 1 /\ parts[Len(f) + 1] = ending
      /\ \A k \in 1 .. Len(f) : parts[k] = f[k]
  BY <1>2, AppendFacts
<1>8. FlattenSeq(next) = [i \in 1 .. n + 1 |-> i]
  <2> DEFINE a == FlattenSeq(f)
  <2>1. f \in Seq(Seq(Nat)) /\ a \in Seq(Nat)
    BY <1>2, FlattenIn DEF S
  <2>2. FlattenSeq(next) = a \o longer
    BY <1>4, <2>1, FlattenAppend DEF S
  <2>3. FlattenSeq(parts) = a \o ending
    BY <1>2, <1>3, <2>1, FlattenAppend
  <2> HIDE DEF a
  <2>4. a \o Append(ending, n + 1) = Append(a \o ending, n + 1)
    BY <1>3, <2>1, AppendJoined
  <2> HIDE DEF next
  <2> QED
    BY <1>1, <2>2, <2>3, <2>4, CountedOn, Zenon DEF longer
<1> HIDE DEF next
<1>9. \A k \in 1 .. Len(next) : k \in 1 .. Len(parts) /\ (k \in 1 .. Len(f) \/ k = Len(f) + 1)
  BY <1>6, <1>7
<1>10. ending # <<>> /\ longer # <<>> /\ longer[1] = ending[1]
  <2>1. Len(f) + 1 \in 1 .. Len(parts)
    BY <1>6, <1>7
  <2>2. ending # <<>>
    BY <1>1, <1>7, <2>1
  <2>3. Len(ending) # 0
    BY <1>3, <2>2
  <2>4. 1 \in 1 .. Len(ending) /\ Len(longer) # 0
    BY <1>4, <2>3
  <2> QED
    BY <1>4, <2>2, <2>4
<1>11. \A k \in 1 .. Len(next) : next[k] # <<>> /\ next[k][1] = parts[k][1]
  BY <1>1, <1>6, <1>7, <1>9, <1>10
<1>12. ASSUME NEW k \in 2 .. Len(next) PROVE HeadingAt(next[k][1]) /\ Bodied(next[k - 1])
  <2>1. k \in 1 .. Len(next) /\ k \in 2 .. Len(parts) /\ k - 1 \in 1 .. Len(f)
    BY <1>6, <1>7
  <2>2. next[k - 1] = parts[k - 1] /\ next[k][1] = parts[k][1]
    BY <1>6, <1>7, <1>11, <2>1
  <2> QED
    BY <1>1, <2>1, <2>2
<1>13. next \in PartsTo(n + 1)
  BY <1>6, <1>8, <1>11, <1>12 DEF PartsTo, Begun, S
<1> QED
  BY <1>5, <1>13 DEF f, ending, longer

LEMMA WithPartIs ==
  ASSUME NEW n \in Nat, NEW parts \in PartsTo(n)
  PROVE  WithPart(parts, n + 1) \in PartsTo(n + 1)
BY PartBegun, PartExtended DEF WithPart

LEMMA WithPartIn ==
  ASSUME NEW parts \in Seq(Seq(Nat)), NEW n \in Nat
  PROVE  WithPart(parts, n) \in Seq(Seq(Nat))
<1> DEFINE S == Seq(Nat)
    f == Front(parts)
    ending == Last(parts)
    longer == Append(ending, n)
    one == <<n>>
<1>1. one \in S /\ parts \in Seq(S)
  OBVIOUS
<1>2. CASE parts = <<>> \/ BeginsPart(n, ending)
  <2>1. WithPart(parts, n) = Append(parts, one)
    BY <1>2 DEF WithPart
  <2> HIDE DEF S, one
  <2>2. Append(parts, one) \in Seq(S)
    BY <1>1
  <2> QED
    BY <2>1, <2>2 DEF S
<1>3. CASE ~(parts = <<>> \/ BeginsPart(n, ending))
  <2>1. WithPart(parts, n) = f \o <<longer>>
    BY <1>3 DEF WithPart
  <2> HIDE DEF S
  <2>2. f \in Seq(S) /\ ending \in S
    BY <1>1, <1>3, FrontLast
  <2> HIDE DEF f, ending
  <2>3. longer \in S
    BY <2>2 DEF S
  <2> HIDE DEF longer
  <2>4. f \o <<longer>> \in Seq(S)
    BY <2>2, <2>3
  <2> QED
    BY <2>1, <2>4 DEF S
<1> QED
  BY <1>2, <1>3

(* The equations of split_by_headings. *)
PartsBy(f) ==
  /\ f[0] = <<>> /\ f[Len(elements)] = SplitByHeadings
  /\ \A n \in 1 .. Len(elements) : f[n] = WithPart(f[n - 1], n)

LEMMA PartsByIs ==
  ASSUME ElementsOk
  PROVE  \E f \in [0 .. Len(elements) -> Seq(Seq(Nat))] : PartsBy(f)
<1> DEFINE
    L == Len(elements)
    X == Seq(Seq(Nat))
    first == <<>>
    Step(x, n) == WithPart(x, n)
    T == [w \in X \X (1 .. L) |-> Step(w[1], w[2])]
    Then(g, n) == IF n = 0 THEN <<>> ELSE WithPart(g[n - 1], n)
    Solves(g) == g = [n \in 0 .. L |-> Then(g, n)]
<1>1. L \in Nat /\ <<>> \in X
  BY DomainIs
<1>2. ASSUME NEW x \in X, NEW n \in 1 .. L PROVE Step(x, n) \in X
  <2>1. WithPart(x, n) \in Seq(Seq(Nat))
    BY WithPartIn
  <2> QED
    BY <2>1
<1> HIDE DEF L, X
<1>3. StaysIn(T, X, L)
  <2> HIDE DEF Step
  <2> QED
    BY <1>2 DEF StaysIn
<1>4. PICK f \in [0 .. L -> X] : f[0] = first /\ \A n \in 1 .. L : f[n] = T[<<f[n - 1], n>>]
  <2>1. L \in Nat /\ first \in X
    BY <1>1
  <2> HIDE DEF T, first
  <2>2. PICK h \in [0 .. L -> X] : Follows(h, first, T, L)
    BY <1>3, <2>1, IteratedBy
  <2>3. h[0] = first /\ \A n \in 1 .. L : h[n] = T[<<h[n - 1], n>>]
    BY <2>2, Zenon DEF Follows
  <2> QED
    BY <2>3, Zenon
<1>5. ASSUME NEW n \in 1 .. L PROVE f[n] = Step(f[n - 1], n)
  <2>1. f[n - 1] \in X
    BY <1>1
  <2>2. T[<<f[n - 1], n>>] = Step(f[n - 1], n)
    <3> HIDE DEF Step
    <3> QED
      BY <2>1
  <2> HIDE DEF Step, T
  <2> QED
    BY <1>4, <2>2, Zenon
<1>6. Solves(f)
  <2>1. f = [n \in 0 .. L |-> f[n]]
    OBVIOUS
  <2>2. ASSUME NEW n \in 0 .. L PROVE f[n] = Then(f, n)
    <3>1. CASE n = 0
      BY <1>4, <3>1, Zenon
    <3>2. CASE n # 0
      <4>1. n \in 1 .. L
        BY <1>1, <3>2
      <4>2. f[n] = Step(f[n - 1], n)
        BY <1>5, <4>1, Zenon
      <4> QED
        BY <3>2, <4>2, Zenon
    <3> QED
      BY <3>1, <3>2, Zenon
  <2> HIDE DEF Then
  <2> QED
    BY <2>1, <2>2
<1> DEFINE g == CHOOSE g : Solves(g)
<1>7. Solves(g)
  <2> HIDE DEF Solves
  <2> QED
    BY <1>6
<1>8. g[L] = SplitByHeadings
  BY DEF SplitByHeadings, L
<1> HIDE DEF g
<1>9. /\ g = [n \in 0 .. L |-> g[n]] /\ g[0] = <<>>
      /\ \A n \in 1 .. L : g[n] = Step(g[n - 1], n)
  <2>1. g = [n \in 0 .. L |-> Then(g, n)]
    BY <1>7
  <2>2. \A n \in 0 .. L : g[n] = Then(g, n)
    <3> HIDE DEF Then
    <3> QED
      BY <2>1
  <2>3. \A n \in 1 .. L : n \in 0 .. L /\ n # 0
    BY <1>1
  <2>4. 0 \in 0 .. L
    BY <1>1
  <2>5. g[0] = <<>>
    BY <2>2, <2>4, Zenon
  <2>6. \A n \in 1 .. L : g[n] = Step(g[n - 1], n)
    BY <2>2, <2>3, Zenon
  <2>7. g = [n \in 0 .. L |-> g[n]]
    <3> HIDE DEF Then
    <3> QED
      BY <2>1, <2>2
  <2> QED
    BY <2>5, <2>6, <2>7
<1>10. g \in [0 .. L -> X]
  <2> HIDE DEF Step
  <2> DEFINE P == {n \in 0 .. L : g[n] \in X}
  <2>1. 0 \in P
    BY <1>1, <1>9
  <2>2. ASSUME NEW n \in 1 .. L, n - 1 \in P PROVE n \in P
    <3>1. g[n - 1] \in X /\ n \in 0 .. L
      BY <1>1, <2>2
    <3>2. Step(g[n - 1], n) \in X
      BY <1>2, <3>1
    <3>3. g[n] = Step(g[n - 1], n)
      BY <1>9
    <3> QED
      BY <3>1, <3>2, <3>3
  <2>3. \A n \in 0 .. L : n \in P
    <3> HIDE DEF P
    <3> QED
      BY <1>1, <2>1, <2>2, UpTo
  <2> QED
    BY <1>9, <2>3
<1> HIDE DEF Then, Solves, T
<1>11. PartsBy(g)
  <2>1. \A n \in 1 .. Len(elements) : g[n] = WithPart(g[n - 1], n)
    BY <1>9, Zenon DEF L
  <2>2. g[0] = <<>> /\ g[Len(elements)] = SplitByHeadings
    BY <1>8, <1>9, Zenon DEF L
  <2> QED
    BY <2>1, <2>2, Zenon DEF PartsBy
<1> QED
  BY <1>10, <1>11, Zenon DEF L, X

(* split_by_headings loses and reorders nothing. *)
LEMMA PartitionHolds ==
  ASSUME ElementsOk
  PROVE  HeadingSplitsPartition
<1> DEFINE L == Len(elements)
<1>1. PICK f \in [0 .. Len(elements) -> Seq(Seq(Nat))] : PartsBy(f)
  BY PartsByIs
<1>2. L \in Nat /\ DOMAIN elements = 1 .. L
  BY DomainIs
<1> DEFINE P == {n \in 0 .. L : f[n] \in PartsTo(n)}
<1>3. 0 \in P
  <2>1. f[0] = <<>> /\ 0 \in 0 .. L
    BY <1>1, <1>2 DEF PartsBy
  <2>2. <<>> \in PartsTo(0)
    <3>1. FlattenSeq(<<>>) = [i \in 1 .. 0 |-> i]
      BY FlattenNone
    <3>2. 1 .. Len(<<>>) = {} /\ 2 .. Len(<<>>) = {} /\ <<>> \in Seq(Seq(Nat))
      OBVIOUS
    <3> QED
      BY <3>1, <3>2 DEF PartsTo, Begun
  <2> QED
    BY <2>1, <2>2
<1>4. ASSUME NEW n \in 1 .. L, n - 1 \in P PROVE n \in P
  <2>1. n - 1 \in Nat /\ n - 1 + 1 = n /\ n \in 0 .. L
    BY <1>2
  <2>2. f[n] = WithPart(f[n - 1], n)
    BY <1>1 DEF PartsBy
  <2>3. f[n - 1] \in PartsTo(n - 1)
    BY <1>4
  <2>4. WithPart(f[n - 1], n - 1 + 1) \in PartsTo(n - 1 + 1)
    BY <2>1, <2>3, WithPartIs
  <2>5. f[n] \in PartsTo(n)
    BY <2>1, <2>2, <2>4, Zenon
  <2> QED
    BY <2>1, <2>5
<1>5. \A n \in 0 .. L : n \in P
  <2> HIDE DEF P, L
  <2> QED
    BY <1>2, <1>3, <1>4, UpTo
<1>6. SplitByHeadings \in PartsTo(L)
  <2>1. L \in P
    BY <1>2, <1>5
  <2>2. f[L] = SplitByHeadings
    BY <1>1 DEF PartsBy
  <2> QED
    BY <2>1, <2>2
<1>7. Ids = [i \in 1 .. L |-> i]
  BY <1>2 DEF Ids
<1> QED
  BY <1>6, <1>7 DEF PartsTo, Begun, HeadingSplitsPartition

(* What the document may not leave out, and what its splits show. *)
LEMMA CertainIsOwed ==
  ASSUME ElementsOk
  PROVE  Certain = Owed(Ids) /\ Ids \in Seq(DOMAIN elements)
<1>1. DOMAIN elements = 1 .. Len(elements) /\ Len(elements) \in Nat
  BY DomainIs
<1>2. Ids \in Seq(DOMAIN elements)
  BY <1>1 DEF Ids
<1>3. ToSet(Ids) = DOMAIN elements
  BY DEF ToSet, Ids
<1>4. \A i \in DOMAIN elements : i \in Headings <=> HeadingAt(i)
  BY DEF Headings
<1>5. Certain = Owed(Ids)
  BY <1>3, <1>4 DEF Certain, Owed, Rooted
<1> QED
  BY <1>2, <1>5

LEMMA SameElements ==
  ASSUME elements' = elements
  PROVE  /\ Certain' = Certain /\ (\A i : OfElement(i)' = OfElement(i))
         /\ ElementsOk => ElementsOk'
         /\ HeadingsFree => HeadingsFree'
<1>1. AllReferenced(Ids)' = AllReferenced(Ids)
  BY DEF AllReferenced, Ids, InlineRefs, Targets
<1>2. \A i : HeadingAt(i)' = HeadingAt(i)
  BY DEF HeadingAt
<1>3. \A i : InlineRefs(i)' = InlineRefs(i)
  BY DEF InlineRefs, Targets
<1>4. \A i : Rooted(i)' = Rooted(i)
  BY <1>1, <1>2 DEF Rooted
<1>5. Certain' = Certain
  BY <1>2, <1>3, <1>4 DEF Certain
<1>6. \A i : OfElement(i)' = OfElement(i)
  BY DEF OfElement, Size, UnitEnd
<1>7. ElementsOk => ElementsOk'
  BY DEF ElementsOk
<1>8. HeadingsFree => HeadingsFree'
  BY <1>1, <1>2 DEF HeadingsFree
<1> QED
  BY <1>5, <1>6, <1>7, <1>8

(* The elements have the shapes they may have, no heading is referred to, and *)
(* the splits leave out nothing that they may not leave out.                 *)
SplitState ==
  /\ ElementsOk /\ HeadingsFree
  /\ \/ splits = NotYet \/ splits = Refused
     \/ \A i \in Certain : OfElement(i) \subseteq ShownBy(splits)

LEMMA SplitStateFirst == SplitInit => SplitState
<1> SUFFICES ASSUME SplitInit PROVE SplitState
  OBVIOUS
<1>1. elements = <<>> /\ splits = NotYet
  BY DEF SplitInit
<1>2. ElementsOk /\ DOMAIN elements = {}
  BY <1>1 DEF ElementsOk
<1> QED
  BY <1>1, <1>2 DEF SplitState, HeadingsFree

LEMMA SplitStateNext == SplitState /\ [SplitNext]_splitVars => SplitState'
<1> SUFFICES ASSUME SplitState, [SplitNext]_splitVars PROVE SplitState'
  OBVIOUS
<1>1. CASE AddElement
  <2>1. PICK s \in Shapes : elements' = Append(elements, s)
    BY <1>1 DEF AddElement
  <2>2. ElementsOk'
    BY <2>1 DEF ElementsOk, SplitState
  <2>3. HeadingsFree' /\ splits' = NotYet
    BY <1>1 DEF AddElement, HeadingsFree
  <2> QED
    BY <2>2, <2>3 DEF SplitState, NotYet
<1>2. CASE Split
  <2>1. elements' = elements /\ splits' = SplitDocument(Ids)
    BY <1>2 DEF Split
  <2>2. Certain = Owed(Ids) /\ Ids \in Seq(DOMAIN elements)
    BY CertainIsOwed DEF SplitState
  <2>3. SplitDocument(Ids) = Refused \/ ElementTokens(Owed(Ids)) \subseteq ShownBy(SplitDocument(Ids))
    BY <2>2, SplitDocumentCovers DEF SplitState, Covers
  <2>4. splits' = Refused \/ \A i \in Certain : OfElement(i) \subseteq ShownBy(splits')
    BY <2>1, <2>2, <2>3 DEF ElementTokens
  <2>5. Certain' = Certain /\ (\A i : OfElement(i)' = OfElement(i)) /\ ElementsOk' /\ HeadingsFree'
    BY <2>1, SameElements DEF SplitState
  <2>6. splits' = Refused \/ \A i \in Certain' : OfElement(i)' \subseteq ShownBy(splits')
    BY <2>4, <2>5
  <2> QED
    BY <2>5, <2>6 DEF SplitState
<1>3. CASE UNCHANGED splitVars
  <2>1. elements' = elements /\ splits' = splits
    BY <1>3 DEF splitVars
  <2>2. Certain' = Certain /\ (\A i : OfElement(i)' = OfElement(i)) /\ ElementsOk' /\ HeadingsFree'
    BY <2>1, SameElements DEF SplitState
  <2>3. splits' = NotYet \/ splits' = Refused \/ \A i \in Certain' : OfElement(i)'
          \subseteq ShownBy(splits')
    BY <2>1, <2>2 DEF SplitState
  <2> QED
    BY <2>2, <2>3 DEF SplitState, NotYet
<1> QED
  BY <1>1, <1>2, <1>3 DEF SplitNext

(* However a document is split, whatever the sizes of its elements and        *)
(* whatever the budget, the overlap and the shares kept free: each token of   *)
(* every heading, of every element that nothing refers to and of every        *)
(* element that such a one refers to is in some split, unless split_document  *)
(* raises; and split_by_headings neither loses nor reorders an element, and   *)
(* begins a part only at a heading that follows other content.                *)
THEOREM SplitsDropNothing ==
  SplitInit /\ [][SplitNext]_splitVars => [](NoTokenDropped /\ HeadingSplitsPartition)
<1>1. SplitInit => SplitState
  BY SplitStateFirst
<1>2. SplitState /\ [SplitNext]_splitVars => SplitState'
  BY SplitStateNext
<1>3. SplitState => NoTokenDropped /\ HeadingSplitsPartition
  <2> SUFFICES ASSUME SplitState PROVE NoTokenDropped /\ HeadingSplitsPartition
    OBVIOUS
  <2>1. HeadingSplitsPartition
    BY PartitionHolds DEF SplitState
  <2>2. ShownBy(splits) = Shown
    BY DEF ShownBy, Shown
  <2>3. NoTokenDropped
    BY <2>2 DEF SplitState, NoTokenDropped, Done, OfElement
  <2> QED
    BY <2>1, <2>3
<1> QED
  BY <1>1, <1>2, <1>3, PTL

=============================================================================
