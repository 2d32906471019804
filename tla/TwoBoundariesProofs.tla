------------------------- MODULE TwoBoundariesProofs -------------------------
(***************************************************************************)
(* What TLAPS proves about TwoBoundaries, for any sources, versions and     *)
(* contents: type correctness, that the chunks that carry a content_hash    *)
(* are from the content it was computed of, and that no step of the two     *)
(* pipelines takes away what the user or the other pipeline has stored.     *)
(***************************************************************************)
EXTENDS TwoBoundaries, TLAPS

(* A stored document has a hash, and one that can be read has a content;    *)
(* a file is not newer than the newest.                                     *)
StoredInv(s) ==
  /\ doc[s].state # "absent" => doc[s].hash # 0
  /\ doc[s].state = "readable" => doc[s].body # 0
  /\ file[s] <= newest[s]

(* What is worked on has been hashed; writes, a listing and the deletion of *)
(* orphans are in their phase.                                                 *)
PhaseInv(s) ==
  /\ at[1][s] \in {"ready", "made"} => token[s] # 0
  /\ \A b \in Boundaries : /\ at[b][s] = "made" => phase[b] = "streaming"
                           /\ s \in unread[b] => phase[b] = "listing"
                           /\ s \in orphans[b] => phase[b] = "deleting"

(* A document that was its file's ever since Boundary 1 began: its hash is  *)
(* the one the run has of the file and the one the listing found, so the    *)
(* file is not parsed again.                                                *)
FreshInv(s) ==
  phase[1] # "idle" /\ s \notin outdated =>
    /\ doc[s].state = "readable" /\ doc[s].hash = file[s]
    /\ at[1][s] # "made"
    /\ at[1][s] = "ready" => token[s] = file[s]
    /\ at[1][s] = "ready" /\ phase[1] # "hashing" /\ s \notin unread[1] =>
         listed[1][s].tok = file[s]

(* The orphans of Boundary 1 are sources that had no file when it began. *)
OrphanInv(s) ==
  /\ phase[1] # "idle" /\ sweep[1] /\ at[1][s] = "none" => s \in gone /\ s \in outdated
  /\ s \in orphans[1] => sweep[1] /\ at[1][s] = "none"

(* What the listing of Boundary 2 has not found had no document then. *)
MissingInv(s) ==
  /\ phase[2] # "idle" /\ s \notin unread[2] /\ listed[2][s].state = "absent" => s \in missing
  /\ s \in orphans[2] => listed[2][s].state = "absent"

BoundaryInv ==
  /\ TypeOK
  /\ \A s \in Sources : StoredInv(s) /\ PhaseInv(s) /\ FreshInv(s) /\ OrphanInv(s) /\ MissingInv(s)

-----------------------------------------------------------------------------
(* What the common steps do to the variables they change. *)

Point == {"none", "asked", "ready", "made", "done"}

(* The types of the variables that the steps of the runs change. *)
RunTypes ==
  /\ phase \in [Boundaries -> {"idle", "hashing", "listing", "streaming", "deleting"}]
  /\ unread \in [Boundaries -> SUBSET Sources]
  /\ listed \in [Boundaries -> [Sources -> Entry]]
  /\ at \in [Boundaries -> [Sources -> Point]]
  /\ sweep \in [Boundaries -> BOOLEAN]
  /\ orphans \in [Boundaries -> SUBSET Sources]
  /\ token \in [Sources -> Nat]
  /\ made \in [Boundaries -> [Sources -> Nat]]
  /\ \A b \in Boundaries, s \in Sources : made[b][s] # 0 <=> at[b][s] = "made"
  /\ indexed \in [Sources -> Chunks]

StoreTypes ==
  /\ file \in [Sources -> Nat] /\ newest \in [Sources -> Nat]
  /\ doc \in [Sources -> Document]
  /\ chunks \in [Sources -> Chunks]

LEMMA TypeParts ==
  TypeOK <=> /\ StoreTypes /\ RunTypes /\ calm \in BOOLEAN
             /\ {gone, outdated, missing} \subseteq SUBSET Sources
  BY DEF TypeOK, StoreTypes, RunTypes, Point

LEMMA NestedUpdate ==
  ASSUME NEW T, NEW f \in [Boundaries -> [Sources -> T]],
         NEW b \in Boundaries, NEW s \in Sources, NEW x \in T
  PROVE  LET g == [f EXCEPT ![b][s] = x] IN
         /\ g \in [Boundaries -> [Sources -> T]]
         /\ \A c \in Boundaries, r \in Sources :
              g[c][r] = IF c = b /\ r = s THEN x ELSE f[c][r]
  OBVIOUS

LEMMA Reaches ==
  ASSUME RunTypes, NEW b \in Boundaries, NEW s \in Sources, NEW p \in Point, Reach(b, s, p)
  PROVE  /\ at' \in [Boundaries -> [Sources -> Point]]
         /\ \A c \in Boundaries, r \in Sources :
              at'[c][r] = IF c = b /\ r = s THEN p ELSE at[c][r]
  BY NestedUpdate DEF Reach, RunTypes

LEMMA Enters ==
  ASSUME RunTypes, NEW b \in Boundaries,
         NEW p \in {"idle", "hashing", "listing", "streaming", "deleting"}, Enter(b, p)
  PROVE  /\ phase' \in [Boundaries -> {"idle", "hashing", "listing", "streaming", "deleting"}]
         /\ \A c \in Boundaries : phase'[c] = IF c = b THEN p ELSE phase[c]
  BY DEF Enter, RunTypes

LEMMA Settles ==
  ASSUME RunTypes, NEW b \in Boundaries, NEW s \in Sources, Settle(b, s)
  PROVE  /\ at' \in [Boundaries -> [Sources -> Point]]
         /\ \A c \in Boundaries, r \in Sources :
              at'[c][r] = IF c = b /\ r = s THEN "done" ELSE at[c][r]
         /\ listed' \in [Boundaries -> [Sources -> Entry]]
         /\ \A c \in Boundaries, r \in Sources :
              /\ listed'[c][r].state = listed[c][r].state
              /\ ~(c = b /\ r = s) => listed'[c][r] = listed[c][r]
         /\ token' \in [Sources -> Nat]
         /\ \A r \in Sources : ~(b = 1 /\ r = s) => token'[r] = token[r]
         /\ made' \in [Boundaries -> [Sources -> Nat]]
         /\ \A c \in Boundaries, r \in Sources : made'[c][r] # 0 <=> at'[c][r] = "made"
<1>1. /\ at' \in [Boundaries -> [Sources -> Point]]
      /\ \A c \in Boundaries, r \in Sources :
           at'[c][r] = IF c = b /\ r = s THEN "done" ELSE at[c][r]
  BY Reaches DEF Settle, Point
<1>2. [listed[b][s] EXCEPT !.tok = 0] \in Entry
  <2>1. listed[b][s] \in Entry
    BY DEF RunTypes
  <2> QED
    BY <2>1 DEF Entry
<1>3. listed' = [listed EXCEPT ![b][s] = [listed[b][s] EXCEPT !.tok = 0]]
  BY DEF Settle, RunTypes
<1>4. /\ listed' \in [Boundaries -> [Sources -> Entry]]
      /\ \A c \in Boundaries, r \in Sources :
           listed'[c][r] = IF c = b /\ r = s THEN [listed[b][s] EXCEPT !.tok = 0]
                           ELSE listed[c][r]
  BY <1>2, <1>3, NestedUpdate DEF RunTypes
<1>5. [listed[b][s] EXCEPT !.tok = 0].state = listed[b][s].state
  <2>1. listed[b][s] \in Entry
    BY DEF RunTypes
  <2> QED
    BY <2>1 DEF Entry
<1>6. token' \in [Sources -> Nat] /\ \A r \in Sources : ~(b = 1 /\ r = s) => token'[r] = token[r]
  BY DEF Settle, RunTypes
<1>7. /\ made' \in [Boundaries -> [Sources -> Nat]]
      /\ \A c \in Boundaries, r \in Sources :
           made'[c][r] = IF c = b /\ r = s THEN 0 ELSE made[c][r]
  BY NestedUpdate DEF Settle, RunTypes
<1>8. \A c \in Boundaries, r \in Sources : made'[c][r] # 0 <=> at'[c][r] = "made"
  BY <1>1, <1>7 DEF RunTypes
<1> QED
  BY <1>1, <1>4, <1>5, <1>6, <1>7, <1>8

LEMMA Returns ==
  ASSUME RunTypes, NEW b \in Boundaries, Return(b)
  PROVE  /\ RunTypes'
         /\ \A s \in Sources : at'[b][s] = "none" /\ s \notin unread'[b] /\ s \notin orphans'[b]
         /\ phase'[b] = "idle"
         /\ \A c \in Boundaries \ {b} :
              /\ phase'[c] = phase[c] /\ unread'[c] = unread[c] /\ listed'[c] = listed[c]
              /\ at'[c] = at[c] /\ sweep'[c] = sweep[c] /\ orphans'[c] = orphans[c]
         /\ b # 1 => token' = token
<1>1. /\ Unlisted \in [Sources -> Entry] /\ Nobody \in [Sources -> Point]
      /\ Zero \in [Sources -> Nat] /\ [s \in Sources |-> NoChunks] \in [Sources -> Chunks]
  BY DEF Unlisted, NoEntry, Entry, Nobody, Point, Zero, NoChunks, Chunks
<1>2. /\ phase' \in [Boundaries -> {"idle", "hashing", "listing", "streaming", "deleting"}]
      /\ unread' \in [Boundaries -> SUBSET Sources]
      /\ orphans' \in [Boundaries -> SUBSET Sources]
      /\ sweep' \in [Boundaries -> BOOLEAN]
  BY DEF Return, Enter, RunTypes
<1>3. /\ listed' \in [Boundaries -> [Sources -> Entry]]
      /\ at' \in [Boundaries -> [Sources -> Point]]
      /\ made' \in [Boundaries -> [Sources -> Nat]]
  BY <1>1 DEF Return, RunTypes
<1>4. token' \in [Sources -> Nat] /\ indexed' \in [Sources -> Chunks]
  BY <1>1 DEF Return, RunTypes
<1>5. \A c \in Boundaries, s \in Sources :
        /\ at'[c][s] = IF c = b THEN "none" ELSE at[c][s]
        /\ made'[c][s] = IF c = b THEN 0 ELSE made[c][s]
  BY DEF Return, RunTypes, Nobody, Zero
<1>6. \A c \in Boundaries, s \in Sources : made'[c][s] # 0 <=> at'[c][s] = "made"
  BY <1>5 DEF RunTypes
<1>7. RunTypes'
  BY <1>2, <1>3, <1>4, <1>6 DEF RunTypes
<1> QED
  BY <1>5, <1>7 DEF Return, Enter, RunTypes

LEMMA Watched ==
  ASSUME Watch, NEW s \in Sources
  PROVE  /\ s \in gone' <=> file'[s] = 0 \/ (phase[1] # "idle" /\ s \in gone)
         /\ s \in outdated' <=> \/ doc'[s].state # "readable"
                                \/ doc'[s].hash # file'[s]
                                \/ phase[1] # "idle" /\ s \in outdated
         /\ s \in missing' <=> \/ doc'[s].state = "absent"
                               \/ phase[2] # "idle" /\ s \in missing
         /\ {gone', outdated', missing'} \subseteq SUBSET Sources
  BY DEF Watch

-----------------------------------------------------------------------------
(* Every step keeps the invariant. *)

SourceInv(s) == StoredInv(s) /\ PhaseInv(s) /\ FreshInv(s) /\ OrphanInv(s) /\ MissingInv(s)

(* What a step has to show, whatever the history and calm are. *)
Kept == StoreTypes' /\ RunTypes' /\ \A s \in Sources : SourceInv(s)'

LEMMA HandsNat == \A b \in Hand : b \in Nat /\ b # 0
  BY BoundaryConstants DEF Hand

LEMMA UsersKeep ==
  ASSUME BoundaryInv, Watch, Users
  PROVE  Kept
<1>1. StoreTypes /\ RunTypes
  BY TypeParts DEF BoundaryInv
<1>2. UNCHANGED runVars /\ RunTypes'
  BY <1>1 DEF Users, EditFile, RemoveFile, EditDocument, BreakDocument, RemoveDocument, runVars,
              RunTypes
<1>3. StoreTypes' /\ \A r \in Sources : StoredInv(r)'
  <2>1. PICK s \in Sources : \/ EditFile(s) \/ RemoveFile(s) \/ EditDocument(s)
                             \/ BreakDocument(s) \/ RemoveDocument(s)
    BY DEF Users
  <2>2. CASE EditFile(s) \/ RemoveFile(s)
    BY <1>1, <2>2 DEF EditFile, RemoveFile, StoreTypes, BoundaryInv, StoredInv
  <2>3. CASE EditDocument(s)
    <3>1. PICK b \in Hand : doc' = [doc EXCEPT ![s] = [doc[s] EXCEPT !.state = "readable",
                                                                     !.body = b]]
      BY <1>1, <2>3 DEF EditDocument, StoreTypes
    <3>2. doc[s] \in Document /\ b \in Nat /\ b # 0
      BY <1>1, HandsNat DEF StoreTypes
    <3> DEFINE d == [doc[s] EXCEPT !.state = "readable", !.body = b]
    <3>3. d \in Document /\ d.hash = doc[s].hash /\ d.body # 0
      BY <3>2 DEF Document
    <3> HIDE DEF d
    <3> QED
      BY <1>1, <2>3, <3>1, <3>3 DEF d, EditDocument, StoreTypes, BoundaryInv, StoredInv
  <2>4. CASE BreakDocument(s)
    <3>1. doc' = [doc EXCEPT ![s] = [doc[s] EXCEPT !.state = "broken", !.body = 0]]
      BY <1>1, <2>4 DEF BreakDocument, StoreTypes
    <3>2. doc[s] \in Document
      BY <1>1 DEF StoreTypes
    <3> DEFINE d == [doc[s] EXCEPT !.state = "broken", !.body = 0]
    <3>3. d \in Document /\ d.hash = doc[s].hash /\ d.state = "broken"
      BY <3>2 DEF Document
    <3> HIDE DEF d
    <3> QED
      BY <1>1, <2>4, <3>1, <3>3 DEF d, BreakDocument, StoreTypes, BoundaryInv, StoredInv
  <2>5. CASE RemoveDocument(s)
    BY <1>1, <2>5 DEF RemoveDocument, StoreTypes, BoundaryInv, StoredInv, Absent, Document
  <2> QED
    BY <2>1, <2>2, <2>3, <2>4, <2>5
<1>4. ASSUME NEW r \in Sources PROVE PhaseInv(r)' /\ MissingInv(r)' /\ OrphanInv(r)'
  BY <1>2, Watched DEF BoundaryInv, PhaseInv, MissingInv, OrphanInv, runVars
<1>5. ASSUME NEW r \in Sources, phase'[1] # "idle", r \notin outdated'
      PROVE  file'[r] = file[r] /\ doc'[r].hash = doc[r].hash /\ doc'[r].state = "readable"
             /\ r \notin outdated /\ doc'[r].hash = file'[r]
  <2>1. r \notin outdated /\ doc'[r].state = "readable" /\ doc'[r].hash = file'[r]
    BY <1>2, <1>5, Watched DEF runVars
  <2>2. doc[r].hash = file[r] /\ file[r] <= newest[r]
    BY <1>2, <1>5, <2>1 DEF BoundaryInv, FreshInv, StoredInv, runVars
  <2>3. PICK s \in Sources : \/ EditFile(s) \/ RemoveFile(s) \/ EditDocument(s)
                             \/ BreakDocument(s) \/ RemoveDocument(s)
    BY DEF Users
  <2>4. CASE r = s /\ (EditFile(s) \/ RemoveFile(s))
    BY <1>1, <2>1, <2>2, <2>4 DEF EditFile, RemoveFile, StoreTypes
  <2>5. CASE r # s \/ ~(EditFile(s) \/ RemoveFile(s))
    <3>1. file'[r] = file[r]
      BY <1>1, <2>3, <2>5 DEF EditFile, RemoveFile, EditDocument, BreakDocument, RemoveDocument,
                              StoreTypes
    <3> QED
      BY <2>1, <2>2, <3>1
  <2> QED
    BY <2>4, <2>5
<1>6. ASSUME NEW r \in Sources PROVE FreshInv(r)'
  BY <1>2, <1>5 DEF BoundaryInv, FreshInv, runVars
<1> QED
  BY <1>2, <1>3, <1>4, <1>6 DEF Kept, SourceInv

(* A step that only gives a source its outcome. *)
LEMMA OutcomeKeeps ==
  ASSUME BoundaryInv, Watch, NEW b \in Boundaries, NEW s \in Sources, Settle(b, s),
         at[b][s] # "none",
         UNCHANGED <<docsVars, chunks, phase, unread, sweep, orphans, indexed>>
  PROVE  Kept
<1>1. StoreTypes /\ RunTypes
  BY TypeParts DEF BoundaryInv
<1>2. StoreTypes' /\ RunTypes'
  BY <1>1, Settles DEF docsVars, StoreTypes, RunTypes
<1>3. ASSUME NEW r \in Sources PROVE SourceInv(r)'
  <2>1. StoredInv(r)' /\ PhaseInv(r)'
    BY <1>1, Settles DEF BoundaryInv, StoredInv, PhaseInv, docsVars, Boundaries
  <2>2. FreshInv(r)'
    BY <1>1, Settles, Watched DEF BoundaryInv, FreshInv, docsVars, Boundaries
  <2>3. OrphanInv(r)' /\ MissingInv(r)'
    BY <1>1, Settles, Watched DEF BoundaryInv, OrphanInv, MissingInv, docsVars, Boundaries
  <2> QED
    BY <2>1, <2>2, <2>3 DEF SourceInv
<1> QED
  BY <1>2, <1>3 DEF Kept

LEMMA ReadListedKeeps ==
  ASSUME BoundaryInv, Watch, NEW b \in Boundaries, NEW s \in Sources, ReadListed(b, s)
  PROVE  Kept
<1>1. StoreTypes /\ RunTypes
  BY TypeParts DEF BoundaryInv
<1>2. Found(b, s) \in Entry /\ Found(b, s).state = doc[s].state
      /\ (doc[s].state = "readable" /\ b = 1 => Found(b, s).tok = doc[s].hash)
  <2>1. doc[s] \in Document
    BY <1>1 DEF StoreTypes
  <2> QED
    BY <2>1 DEF Found, Document, Entry, TokenOf
<1>3. /\ listed' \in [Boundaries -> [Sources -> Entry]]
      /\ \A c \in Boundaries, r \in Sources :
           listed'[c][r] = IF c = b /\ r = s THEN Found(b, s) ELSE listed[c][r]
  BY <1>1, <1>2, NestedUpdate DEF ReadListed, RunTypes
<1>4. /\ unread' \in [Boundaries -> SUBSET Sources]
      /\ \A c \in Boundaries : unread'[c] = IF c = b THEN unread[c] \ {s} ELSE unread[c]
  BY <1>1 DEF ReadListed, RunTypes
<1>5. StoreTypes' /\ RunTypes'
  BY <1>1, <1>3, <1>4 DEF ReadListed, docsVars, StoreTypes, RunTypes
<1>6. ASSUME NEW r \in Sources PROVE SourceInv(r)'
  <2>1. StoredInv(r)' /\ PhaseInv(r)'
    BY <1>4 DEF ReadListed, BoundaryInv, StoredInv, PhaseInv, docsVars
  <2>2. FreshInv(r)'
    BY <1>2, <1>3, <1>4, Watched DEF ReadListed, BoundaryInv, FreshInv, docsVars, Boundaries
  <2>3. OrphanInv(r)'
    BY Watched DEF ReadListed, BoundaryInv, OrphanInv, docsVars, Boundaries
  <2>4. MissingInv(r)'
    BY <1>2, <1>3, <1>4, Watched DEF ReadListed, BoundaryInv, MissingInv, PhaseInv, docsVars,
                                     Boundaries
  <2> QED
    BY <2>1, <2>2, <2>3, <2>4 DEF SourceInv
<1> QED
  BY <1>5, <1>6 DEF Kept

(* A run of boundary b is over; a document or some chunks may have changed. *)
LEMMA ReturnKeeps ==
  ASSUME BoundaryInv, Watch, NEW b \in Boundaries, Return(b), StoreTypes', UNCHANGED <<file, newest>>,
         \A s \in Sources : StoredInv(s)', b = 2 => UNCHANGED doc
  PROVE  Kept
<1>1. RunTypes
  BY TypeParts DEF BoundaryInv
<1>2. ASSUME NEW r \in Sources PROVE SourceInv(r)'
  <2>1. PhaseInv(r)'
    BY <1>1, Returns DEF BoundaryInv, PhaseInv, Boundaries
  <2>2. FreshInv(r)'
    BY <1>1, Returns, Watched DEF BoundaryInv, FreshInv, Boundaries
  <2>3. OrphanInv(r)' /\ MissingInv(r)'
    BY <1>1, Returns, Watched DEF BoundaryInv, OrphanInv, MissingInv, Boundaries
  <2> QED
    BY <2>1, <2>2, <2>3 DEF SourceInv
<1> QED
  BY <1>1, <1>2, Returns DEF Kept

LEMMA RunOverKeeps ==
  ASSUME BoundaryInv, Watch, NEW b \in Boundaries, RunOver(b)
  PROVE  Kept
<1>1. StoreTypes' /\ \A s \in Sources : StoredInv(s)'
  BY TypeParts DEF RunOver, BoundaryInv, StoreTypes, StoredInv, docsVars
<1> QED
  BY <1>1, ReturnKeeps DEF RunOver, docsVars

LEMMA OrphanFailsKeeps ==
  ASSUME BoundaryInv, Watch, NEW b \in Boundaries, NEW s \in Sources, DeleteOrphanFails(b, s)
  PROVE  Kept
<1>1. StoreTypes /\ RunTypes
  BY TypeParts DEF BoundaryInv
<1>2. /\ orphans' \in [Boundaries -> SUBSET Sources]
      /\ \A c \in Boundaries : orphans'[c] \subseteq orphans[c]
  BY <1>1 DEF DeleteOrphanFails, RunTypes
<1>3. StoreTypes' /\ RunTypes'
  BY <1>1, <1>2 DEF DeleteOrphanFails, docsVars, StoreTypes, RunTypes
<1>4. ASSUME NEW r \in Sources PROVE SourceInv(r)'
  BY <1>2, Watched DEF DeleteOrphanFails, BoundaryInv, SourceInv, StoredInv, PhaseInv, FreshInv,
                       OrphanInv, MissingInv, docsVars, Boundaries
<1> QED
  BY <1>3, <1>4 DEF Kept

LEMMA IngestKeeps ==
  ASSUME BoundaryInv, Watch, NEW corpus \in SUBSET Sources, NEW orphaned \in BOOLEAN,
         Ingest(corpus, orphaned)
  PROVE  Kept
<1>1. StoreTypes /\ RunTypes
  BY TypeParts DEF BoundaryInv
<1>2. \A c \in Boundaries : phase'[c] = IF c = 1 THEN "hashing" ELSE phase[c]
  BY <1>1, Enters DEF Ingest, Boundaries
<1>3. /\ at' \in [Boundaries -> [Sources -> Point]]
      /\ \A r \in Sources : /\ at'[1][r] = IF r \in corpus THEN "asked" ELSE "none"
                            /\ at'[2][r] = at[2][r]
  BY <1>1 DEF Ingest, RunTypes, Point, Boundaries
<1>4. \A r \in Sources : made[1][r] = 0
  <2>1. ASSUME NEW r \in Sources, at[1][r] = "made" PROVE FALSE
    BY <1>1, <2>1 DEF Ingest, BoundaryInv, PhaseInv, Boundaries
  <2> QED
    BY <1>1, <2>1 DEF RunTypes, Boundaries
<1>5. sweep' \in [Boundaries -> BOOLEAN] /\ sweep'[1] = orphaned
  BY <1>1 DEF Ingest, RunTypes, Boundaries
<1>6. StoreTypes' /\ RunTypes'
  <2>1. \A c \in Boundaries, r \in Sources : made'[c][r] # 0 <=> at'[c][r] = "made"
    BY <1>1, <1>3, <1>4 DEF Ingest, RunTypes, Boundaries
  <2> QED
    BY <1>1, <1>3, <1>5, <2>1, Enters DEF Ingest, docsVars, StoreTypes, RunTypes, Boundaries
<1>7. ASSUME NEW r \in Sources PROVE SourceInv(r)'
  <2>1. StoredInv(r)' /\ PhaseInv(r)'
    BY <1>2, <1>3 DEF Ingest, BoundaryInv, StoredInv, PhaseInv, docsVars, Boundaries
  <2>2. FreshInv(r)'
    BY <1>2, <1>3, Watched DEF Ingest, FreshInv
  <2>3. OrphanInv(r)'
    <3>1. r \notin orphans'[1]
      BY DEF Ingest, BoundaryInv, PhaseInv, Boundaries
    <3>2. ASSUME orphaned, r \notin corpus PROVE r \in gone' /\ r \in outdated'
      BY <3>2, Watched DEF Ingest, Files, docsVars, BoundaryInv, StoredInv
    <3> QED
      BY <1>3, <1>5, <3>1, <3>2 DEF OrphanInv
  <2>4. MissingInv(r)'
    BY <1>2, Watched DEF Ingest, BoundaryInv, MissingInv, docsVars, Boundaries
  <2> QED
    BY <2>1, <2>2, <2>3, <2>4 DEF SourceInv
<1> QED
  BY <1>6, <1>7 DEF Kept

LEMMA HashFileKeeps ==
  ASSUME BoundaryInv, Watch, NEW s \in Sources, HashFile(s)
  PROVE  Kept
<1>1. StoreTypes /\ RunTypes
  BY TypeParts DEF BoundaryInv
<1>2. /\ at' \in [Boundaries -> [Sources -> Point]]
      /\ \A c \in Boundaries, r \in Sources :
           at'[c][r] = IF c = 1 /\ r = s THEN "ready" ELSE at[c][r]
  BY <1>1, Reaches DEF HashFile, Boundaries, Point
<1>3. token' \in [Sources -> Nat]
      /\ \A r \in Sources : token'[r] = IF r = s THEN file[s] ELSE token[r]
  BY <1>1 DEF HashFile, RunTypes, StoreTypes
<1>4. StoreTypes' /\ RunTypes'
  BY <1>1, <1>2, <1>3 DEF HashFile, docsVars, StoreTypes, RunTypes, Boundaries
<1>5. ASSUME NEW r \in Sources PROVE SourceInv(r)'
  <2>1. StoredInv(r)' /\ PhaseInv(r)'
    BY <1>2, <1>3 DEF HashFile, BoundaryInv, StoredInv, PhaseInv, docsVars, Boundaries
  <2>2. FreshInv(r)'
    BY <1>2, <1>3, Watched DEF HashFile, BoundaryInv, FreshInv, docsVars, Boundaries
  <2>3. OrphanInv(r)' /\ MissingInv(r)'
    BY <1>2, Watched DEF HashFile, BoundaryInv, OrphanInv, MissingInv, docsVars, Boundaries
  <2> QED
    BY <2>1, <2>2, <2>3 DEF SourceInv
<1> QED
  BY <1>4, <1>5 DEF Kept

LEMMA ListDocumentsKeeps ==
  ASSUME BoundaryInv, Watch, ListDocuments
  PROVE  Kept
<1>1. StoreTypes /\ RunTypes
  BY TypeParts DEF BoundaryInv
<1>2. \A c \in Boundaries : phase'[c] = IF c = 1 THEN "listing" ELSE phase[c]
  BY <1>1, Enters DEF ListDocuments, OpenListing, Boundaries
<1>3. /\ unread' \in [Boundaries -> SUBSET Sources]
      /\ \A c \in Boundaries : unread'[c] = IF c = 1 THEN Documents ELSE unread[c]
  BY <1>1 DEF ListDocuments, OpenListing, RunTypes, Documents
<1>4. StoreTypes' /\ RunTypes'
  BY <1>1, <1>3, Enters DEF ListDocuments, OpenListing, docsVars, StoreTypes, RunTypes, Boundaries
<1>5. ASSUME NEW r \in Sources PROVE SourceInv(r)'
  <2>1. StoredInv(r)' /\ PhaseInv(r)'
    BY <1>2, <1>3 DEF ListDocuments, BoundaryInv, StoredInv, PhaseInv, docsVars, Boundaries
  <2>2. FreshInv(r)'
    BY <1>2, <1>3, Watched DEF ListDocuments, BoundaryInv, FreshInv, docsVars, Documents, Boundaries
  <2>3. OrphanInv(r)' /\ MissingInv(r)'
    BY <1>2, <1>3, Watched DEF ListDocuments, BoundaryInv, OrphanInv, MissingInv, docsVars,
                               Boundaries
  <2> QED
    BY <2>1, <2>2, <2>3 DEF SourceInv
<1> QED
  BY <1>4, <1>5 DEF Kept

LEMMA DocumentsListedKeeps ==
  ASSUME BoundaryInv, Watch, DocumentsListed
  PROVE  Kept
<1>1. StoreTypes /\ RunTypes
  BY TypeParts DEF BoundaryInv
<1>2. \A c \in Boundaries : phase'[c] = IF c = 1 THEN "streaming" ELSE phase[c]
  BY <1>1, Enters DEF DocumentsListed, Boundaries
<1>3. StoreTypes' /\ RunTypes'
  BY <1>1, Enters DEF DocumentsListed, docsVars, StoreTypes, RunTypes, Boundaries
<1>4. ASSUME NEW r \in Sources PROVE SourceInv(r)'
  BY <1>2, Watched DEF DocumentsListed, BoundaryInv, SourceInv, StoredInv, PhaseInv, FreshInv,
                       OrphanInv, MissingInv, docsVars, Boundaries
<1> QED
  BY <1>3, <1>4 DEF Kept

LEMMA ParseKeeps ==
  ASSUME BoundaryInv, Watch, NEW s \in Sources, Parse(s)
  PROVE  Kept
<1>1. StoreTypes /\ RunTypes
  BY TypeParts DEF BoundaryInv
<1>2. /\ at' \in [Boundaries -> [Sources -> Point]]
      /\ \A c \in Boundaries, r \in Sources :
           at'[c][r] = IF c = 1 /\ r = s THEN "made" ELSE at[c][r]
  BY <1>1, Reaches DEF Parse, Boundaries, Point
<1>3. /\ made' \in [Boundaries -> [Sources -> Nat]]
      /\ \A c \in Boundaries, r \in Sources :
           made'[c][r] = IF c = 1 /\ r = s THEN file[s] ELSE made[c][r]
  <2>1. made \in [Boundaries -> [Sources -> Nat]] /\ file[s] \in Nat /\ 1 \in Boundaries
    BY <1>1 DEF RunTypes, StoreTypes, Boundaries
  <2>2. made' = [made EXCEPT ![1][s] = file[s]]
    BY DEF Parse
  <2> QED
    BY <2>1, <2>2, NestedUpdate
<1>4. StoreTypes' /\ RunTypes'
  BY <1>1, <1>2, <1>3 DEF Parse, docsVars, StoreTypes, RunTypes
<1>5. ASSUME NEW r \in Sources PROVE SourceInv(r)'
  <2>1. StoredInv(r)' /\ PhaseInv(r)'
    BY <1>2 DEF Parse, BoundaryInv, StoredInv, PhaseInv, docsVars, Boundaries
  <2>2. FreshInv(r)'
    <3>1. ASSUME s \notin outdated PROVE FALSE
      BY <3>1 DEF Parse, SameFile, BoundaryInv, FreshInv, PhaseInv, Boundaries
    <3> QED
      BY <1>2, <3>1, Watched DEF Parse, BoundaryInv, FreshInv, docsVars, Boundaries
  <2>3. OrphanInv(r)' /\ MissingInv(r)'
    BY <1>2, Watched DEF Parse, BoundaryInv, OrphanInv, MissingInv, docsVars, Boundaries
  <2> QED
    BY <2>1, <2>2, <2>3 DEF SourceInv
<1> QED
  BY <1>4, <1>5 DEF Kept

(* The document that StoreDocument and an interrupted run put in place. *)
LEMMA Replaced ==
  ASSUME BoundaryInv, NEW s \in Sources, at[1][s] = "made", Replace(s)
  PROVE  /\ doc' \in [Sources -> Document]
         /\ \A r \in Sources \ {s} : doc'[r] = doc[r]
         /\ doc'[s].state = "readable" /\ doc'[s].hash # 0 /\ doc'[s].body # 0
<1>1. StoreTypes /\ RunTypes
  BY TypeParts DEF BoundaryInv
<1>2. token[s] # 0 /\ token[s] \in Nat /\ made[1][s] # 0 /\ made[1][s] \in Nat
  BY <1>1 DEF BoundaryInv, PhaseInv, RunTypes, Boundaries
<1> QED
  BY <1>1, <1>2 DEF Replace, StoreTypes, Document

LEMMA StoreDocumentKeeps ==
  ASSUME BoundaryInv, Watch, NEW s \in Sources, StoreDocument(s)
  PROVE  Kept
<1>1. StoreTypes /\ RunTypes
  BY TypeParts DEF BoundaryInv
<1>2. StoreTypes' /\ RunTypes'
  BY <1>1, Settles, Replaced DEF StoreDocument, StoreTypes, RunTypes, Boundaries
<1>3. ASSUME NEW r \in Sources PROVE SourceInv(r)'
  <2>1. StoredInv(r)' /\ PhaseInv(r)'
    BY <1>1, Settles, Replaced DEF StoreDocument, BoundaryInv, StoredInv, PhaseInv, Boundaries
  <2>2. FreshInv(r)'
    BY <1>1, Settles, Replaced, Watched DEF StoreDocument, BoundaryInv, FreshInv, Boundaries
  <2>3. OrphanInv(r)' /\ MissingInv(r)'
    BY <1>1, Settles, Watched DEF StoreDocument, BoundaryInv, OrphanInv, MissingInv, Boundaries
  <2> QED
    BY <2>1, <2>2, <2>3 DEF SourceInv
<1> QED
  BY <1>2, <1>3 DEF Kept

(* A boundary has no source in work any more, and finds its orphans. *)
StreamOver(b, found) ==
  /\ phase[b] = "streaming" /\ Settled(b)
  /\ Enter(b, "deleting")
  /\ orphans' = [orphans EXCEPT ![b] = found]
  /\ b = 1 => \A r \in found : sweep[1] /\ at[1][r] = "none"
  /\ b = 2 => \A r \in found : listed[2][r].state = "absent"
  /\ UNCHANGED <<docsVars, chunks, unread, listed, at, sweep, token, made, indexed>>

LEMMA StreamOverKeeps ==
  ASSUME BoundaryInv, Watch, NEW b \in Boundaries, NEW found \in SUBSET Sources,
         StreamOver(b, found)
  PROVE  Kept
<1> USE DEF StreamOver
<1>1. StoreTypes /\ RunTypes
  BY TypeParts DEF BoundaryInv
<1>2. /\ orphans' \in [Boundaries -> SUBSET Sources]
      /\ \A c \in Boundaries : orphans'[c] = IF c = b THEN found ELSE orphans[c]
  BY <1>1 DEF RunTypes
<1>3. \A c \in Boundaries : phase'[c] = IF c = b THEN "deleting" ELSE phase[c]
  BY <1>1, Enters
<1>4. StoreTypes' /\ RunTypes'
  BY <1>1, <1>2, Enters DEF docsVars, StoreTypes, RunTypes
<1>5. ASSUME NEW r \in Sources PROVE SourceInv(r)'
  <2>1. StoredInv(r)' /\ PhaseInv(r)'
    BY <1>2, <1>3 DEF BoundaryInv, StoredInv, PhaseInv, Settled, docsVars, Boundaries
  <2>2. FreshInv(r)'
    BY <1>3, Watched DEF BoundaryInv, FreshInv, docsVars, Boundaries
  <2>3. OrphanInv(r)' /\ MissingInv(r)'
    BY <1>2, <1>3, Watched DEF BoundaryInv, OrphanInv, MissingInv, docsVars, Boundaries
  <2> QED
    BY <2>1, <2>2, <2>3 DEF SourceInv
<1> QED
  BY <1>4, <1>5 DEF Kept

LEMMA IngestOverKeeps ==
  ASSUME BoundaryInv, Watch, IngestStreamOver
  PROVE  Kept
<1>1. OrphanDocuments \in SUBSET Sources
      /\ \A r \in OrphanDocuments : sweep[1] /\ at[1][r] = "none"
  BY DEF OrphanDocuments, Listed, BoundaryInv, TypeOK, Boundaries
<1>2. 1 \in Boundaries /\ StreamOver(1, OrphanDocuments)
  BY <1>1 DEF IngestStreamOver, StreamOver, Boundaries
<1> QED
  BY <1>1, <1>2, StreamOverKeeps

LEMMA IndexOverKeeps ==
  ASSUME BoundaryInv, Watch, IndexStreamOver
  PROVE  Kept
<1>1. OrphanChunks \in SUBSET Sources /\ \A r \in OrphanChunks : listed[2][r].state = "absent"
  BY DEF OrphanChunks, Listed
<1>2. 2 \in Boundaries /\ StreamOver(2, OrphanChunks)
  BY <1>1 DEF IndexStreamOver, StreamOver, Boundaries
<1> QED
  BY <1>1, <1>2, StreamOverKeeps

LEMMA DeleteDocumentKeeps ==
  ASSUME BoundaryInv, Watch, NEW s \in Sources, DeleteDocument(s)
  PROVE  Kept
<1>1. StoreTypes /\ RunTypes
  BY TypeParts DEF BoundaryInv
<1>2. /\ orphans' \in [Boundaries -> SUBSET Sources]
      /\ \A c \in Boundaries : orphans'[c] \subseteq orphans[c]
  BY <1>1 DEF DeleteDocument, RunTypes
<1>3. doc' \in [Sources -> Document]
      /\ \A r \in Sources : doc'[r] = IF r = s THEN Absent ELSE doc[r]
  BY <1>1 DEF DeleteDocument, StoreTypes, Absent, Document
<1>4. StoreTypes' /\ RunTypes'
  BY <1>1, <1>2, <1>3 DEF DeleteDocument, StoreTypes, RunTypes
<1>5. ASSUME NEW r \in Sources PROVE SourceInv(r)'
  <2>1. StoredInv(r)' /\ PhaseInv(r)'
    BY <1>2, <1>3 DEF DeleteDocument, BoundaryInv, StoredInv, PhaseInv, Absent
  <2>2. FreshInv(r)'
    BY <1>3, Watched DEF DeleteDocument, BoundaryInv, FreshInv, Absent
  <2>3. OrphanInv(r)' /\ MissingInv(r)'
    BY <1>2, Watched DEF DeleteDocument, BoundaryInv, OrphanInv, MissingInv, Boundaries
  <2> QED
    BY <2>1, <2>2, <2>3 DEF SourceInv
<1> QED
  BY <1>4, <1>5 DEF Kept

LEMMA AbortIngestKeeps ==
  ASSUME BoundaryInv, Watch, AbortIngest
  PROVE  Kept
<1>1. StoreTypes /\ \A s \in Sources : StoredInv(s)
  BY TypeParts DEF BoundaryInv
<1>2. StoreTypes' /\ \A s \in Sources : StoredInv(s)'
  <2>1. CASE UNCHANGED doc
    BY <1>1, <2>1 DEF AbortIngest, StoreTypes, StoredInv
  <2>2. ASSUME NEW s \in Sources, at[1][s] = "made", Replace(s)
        PROVE  StoreTypes' /\ \A r \in Sources : StoredInv(r)'
    BY <1>1, <2>2, Replaced DEF AbortIngest, StoreTypes, StoredInv
  <2> QED
    BY <2>1, <2>2 DEF AbortIngest
<1> QED
  BY <1>2, ReturnKeeps DEF AbortIngest, Boundaries

-----------------------------------------------------------------------------
(* The steps of Boundary 2. *)

LEMMA IndexKeeps ==
  ASSUME BoundaryInv, Watch, NEW orphaned \in BOOLEAN, Index(orphaned)
  PROVE  Kept
<1>1. StoreTypes /\ RunTypes
  BY TypeParts DEF BoundaryInv
<1>2. \A c \in Boundaries : phase'[c] = IF c = 2 THEN "listing" ELSE phase[c]
  BY <1>1, Enters DEF Index, OpenListing, Boundaries
<1>3. /\ unread' \in [Boundaries -> SUBSET Sources]
      /\ \A c \in Boundaries : unread'[c] = IF c = 2 THEN Documents ELSE unread[c]
  BY <1>1 DEF Index, OpenListing, RunTypes, Documents
<1>4. sweep' \in [Boundaries -> BOOLEAN] /\ sweep'[1] = sweep[1]
  BY <1>1 DEF Index, RunTypes, Boundaries
<1>5. StoreTypes' /\ RunTypes'
  BY <1>1, <1>3, <1>4, Enters DEF Index, OpenListing, docsVars, StoreTypes, RunTypes, Boundaries
<1>6. ASSUME NEW r \in Sources PROVE SourceInv(r)'
  <2>1. StoredInv(r)' /\ PhaseInv(r)'
    BY <1>2, <1>3 DEF Index, BoundaryInv, StoredInv, PhaseInv, docsVars, Boundaries
  <2>2. FreshInv(r)'
    BY <1>2, <1>3, Watched DEF Index, BoundaryInv, FreshInv, docsVars, Boundaries
  <2>3. OrphanInv(r)'
    BY <1>2, <1>4, Watched DEF Index, BoundaryInv, OrphanInv, docsVars, Boundaries
  <2>4. MissingInv(r)'
    BY <1>2, <1>3, Watched DEF Index, BoundaryInv, PhaseInv, MissingInv, docsVars, Documents,
                               Boundaries
  <2> QED
    BY <2>1, <2>2, <2>3, <2>4 DEF SourceInv
<1> QED
  BY <1>5, <1>6 DEF Kept

LEMMA ResolvedKeeps ==
  ASSUME BoundaryInv, Watch, NEW wanted \in SUBSET Sources, Resolved(wanted)
  PROVE  Kept
<1>1. StoreTypes /\ RunTypes
  BY TypeParts DEF BoundaryInv
<1>2. \A c \in Boundaries : phase'[c] = IF c = 2 THEN "streaming" ELSE phase[c]
  BY <1>1, Enters DEF Resolved, Boundaries
<1>3. /\ at' \in [Boundaries -> [Sources -> Point]]
      /\ \A r \in Sources : at'[1][r] = at[1][r] /\ at'[2][r] # "made" /\ at[2][r] # "made"
  <2>1. \A r \in Sources : at[2][r] # "made"
    BY DEF Resolved, BoundaryInv, PhaseInv, Boundaries
  <2> QED
    BY <1>1, <2>1 DEF Resolved, RunTypes, Point, Boundaries
<1>4. StoreTypes' /\ RunTypes'
  <2>1. \A c \in Boundaries, r \in Sources : made'[c][r] # 0 <=> at'[c][r] = "made"
    BY <1>1, <1>3 DEF Resolved, RunTypes, Boundaries
  <2> QED
    BY <1>1, <1>3, <2>1, Enters DEF Resolved, docsVars, StoreTypes, RunTypes, Boundaries
<1>5. ASSUME NEW r \in Sources PROVE SourceInv(r)'
  <2>1. StoredInv(r)' /\ PhaseInv(r)'
    BY <1>2, <1>3 DEF Resolved, BoundaryInv, StoredInv, PhaseInv, docsVars, Boundaries
  <2>2. FreshInv(r)'
    BY <1>2, <1>3, Watched DEF Resolved, BoundaryInv, FreshInv, docsVars, Boundaries
  <2>3. OrphanInv(r)' /\ MissingInv(r)'
    BY <1>2, <1>3, Watched DEF Resolved, BoundaryInv, OrphanInv, MissingInv, docsVars, Boundaries
  <2> QED
    BY <2>1, <2>2, <2>3 DEF SourceInv
<1> QED
  BY <1>4, <1>5 DEF Kept

LEMMA LoadKeeps ==
  ASSUME BoundaryInv, Watch, NEW s \in Sources, Load(s)
  PROVE  Kept
<1>1. StoreTypes /\ RunTypes
  BY TypeParts DEF BoundaryInv
<1>2. /\ at' \in [Boundaries -> [Sources -> Point]]
      /\ \A c \in Boundaries, r \in Sources :
           at'[c][r] = IF c = 2 /\ r = s THEN "made" ELSE at[c][r]
  BY <1>1, Reaches DEF Load, Boundaries, Point
<1>3. doc[s].body \in Nat /\ doc[s].body # 0
  BY <1>1 DEF Load, BoundaryInv, StoredInv, StoreTypes, Document
<1>4. /\ made' \in [Boundaries -> [Sources -> Nat]]
      /\ \A c \in Boundaries, r \in Sources :
           made'[c][r] = IF c = 2 /\ r = s THEN doc[s].body ELSE made[c][r]
  <2>1. made \in [Boundaries -> [Sources -> Nat]] /\ 2 \in Boundaries
    BY <1>1 DEF RunTypes, Boundaries
  <2>2. made' = [made EXCEPT ![2][s] = doc[s].body]
    BY DEF Load
  <2> QED
    BY <1>3, <2>1, <2>2, NestedUpdate
<1>5. StoreTypes' /\ RunTypes'
  BY <1>1, <1>2, <1>3, <1>4 DEF Load, docsVars, StoreTypes, RunTypes
<1>6. ASSUME NEW r \in Sources PROVE SourceInv(r)'
  <2>1. StoredInv(r)' /\ PhaseInv(r)'
    BY <1>2 DEF Load, BoundaryInv, StoredInv, PhaseInv, docsVars, Boundaries
  <2>2. FreshInv(r)'
    BY <1>2, Watched DEF Load, BoundaryInv, FreshInv, docsVars, Boundaries
  <2>3. OrphanInv(r)' /\ MissingInv(r)'
    BY <1>2, Watched DEF Load, BoundaryInv, OrphanInv, MissingInv, docsVars, Boundaries
  <2> QED
    BY <2>1, <2>2, <2>3 DEF SourceInv
<1> QED
  BY <1>5, <1>6 DEF Kept

LEMMA NewChunks ==
  ASSUME TypeOK, NEW s \in Sources
  PROVE  /\ New(s) \in Chunks /\ LeftBy(s) \subseteq Chunks
         /\ New(s).state = "whole" => New(s).body = New(s).tok
         /\ \A c \in LeftBy(s) : c.state = "whole" => c = chunks[s] \/ c.body = c.tok
<1>1. made[2][s] \in Nat /\ chunks[s] \in Chunks
  BY DEF TypeOK, Boundaries
<1>2. New(s) \in Chunks /\ (New(s).state = "whole" => New(s).body = New(s).tok)
  BY <1>1 DEF New, Stamp, NoChunks, Chunks
<1>3. PartialChunks \in Chunks /\ PartialChunks.state # "whole"
  BY DEF PartialChunks, Chunks
<1> QED
  BY <1>1, <1>2, <1>3 DEF LeftBy

LEMMA ChunksKeep ==
  ASSUME BoundaryInv, Watch, NEW s \in Sources, StoreChunks(s) \/ StoreChunksFails(s)
  PROVE  Kept
<1>1. StoreTypes /\ RunTypes /\ TypeOK
  BY TypeParts DEF BoundaryInv
<1>2. Settle(2, s) /\ at[2][s] = "made" /\ UNCHANGED <<docsVars, phase, unread, sweep, orphans, indexed>>
  BY DEF StoreChunks, StoreChunksFails
<1>3. chunks' \in [Sources -> Chunks]
  BY <1>1, NewChunks DEF StoreChunks, StoreChunksFails, StoreTypes
<1>4. StoreTypes' /\ RunTypes'
  BY <1>1, <1>2, <1>3, Settles DEF docsVars, StoreTypes, RunTypes, Boundaries
<1>5. ASSUME NEW r \in Sources PROVE SourceInv(r)'
  <2>1. StoredInv(r)' /\ PhaseInv(r)'
    BY <1>1, <1>2, Settles DEF BoundaryInv, StoredInv, PhaseInv, docsVars, Boundaries
  <2>2. FreshInv(r)'
    BY <1>1, <1>2, Settles, Watched DEF BoundaryInv, FreshInv, docsVars, Boundaries
  <2>3. OrphanInv(r)' /\ MissingInv(r)'
    BY <1>1, <1>2, Settles, Watched DEF BoundaryInv, OrphanInv, MissingInv, docsVars, Boundaries
  <2> QED
    BY <2>1, <2>2, <2>3 DEF SourceInv
<1> QED
  BY <1>4, <1>5 DEF Kept

LEMMA DeleteChunksKeeps ==
  ASSUME BoundaryInv, Watch, NEW s \in Sources, DeleteChunks(s)
  PROVE  Kept
<1>1. StoreTypes /\ RunTypes
  BY TypeParts DEF BoundaryInv
<1>2. /\ orphans' \in [Boundaries -> SUBSET Sources]
      /\ \A c \in Boundaries : orphans'[c] \subseteq orphans[c]
  BY <1>1 DEF DeleteChunks, RunTypes
<1>3. chunks' \in [Sources -> Chunks]
  BY <1>1 DEF DeleteChunks, StoreTypes, NoChunks, Chunks
<1>4. StoreTypes' /\ RunTypes'
  BY <1>1, <1>2, <1>3 DEF DeleteChunks, docsVars, StoreTypes, RunTypes
<1>5. ASSUME NEW r \in Sources PROVE SourceInv(r)'
  BY <1>2, Watched DEF DeleteChunks, BoundaryInv, SourceInv, StoredInv, PhaseInv, FreshInv,
                       OrphanInv, MissingInv, docsVars, Boundaries
<1> QED
  BY <1>4, <1>5 DEF Kept

LEMMA AbortIndexKeeps ==
  ASSUME BoundaryInv, Watch, AbortIndex
  PROVE  Kept
<1>1. TypeOK /\ StoreTypes
  BY TypeParts DEF BoundaryInv
<1>2. chunks' \in [Sources -> Chunks]
  BY <1>1, NewChunks DEF AbortIndex, StoreTypes
<1>3. StoreTypes' /\ \A s \in Sources : StoredInv(s)'
  BY <1>1, <1>2 DEF AbortIndex, BoundaryInv, StoreTypes, StoredInv, docsVars
<1> QED
  BY <1>3, ReturnKeeps DEF AbortIndex, docsVars, Boundaries

-----------------------------------------------------------------------------
(* The invariant. *)

LEMMA InvInit == Init => BoundaryInv
<1> SUFFICES ASSUME Init PROVE BoundaryInv
  OBVIOUS
<1>1. TypeOK
  BY DEF Init, TypeOK, Absent, Document, NoChunks, Chunks, NoEntry, Entry, Unlisted, Nobody, Zero,
         Boundaries
<1>2. \A s \in Sources : StoredInv(s) /\ PhaseInv(s)
  BY DEF Init, StoredInv, PhaseInv, Absent, Nobody, Zero, Boundaries
<1>3. \A s \in Sources : FreshInv(s) /\ OrphanInv(s) /\ MissingInv(s)
  BY DEF Init, FreshInv, OrphanInv, MissingInv, Boundaries
<1> QED
  BY <1>1, <1>2, <1>3 DEF BoundaryInv

LEMMA IngestStepKeeps ==
  ASSUME BoundaryInv, Watch, IngestStep
  PROVE  Kept
<1>1. CASE Ingest(Files, TRUE)
  BY <1>1, IngestKeeps DEF Files
<1>2. CASE ListDocuments \/ DocumentsListed \/ IngestStreamOver \/ RunOver(1)
  BY <1>2, ListDocumentsKeeps, DocumentsListedKeeps, IngestOverKeeps, RunOverKeeps DEF Boundaries
<1>3. ASSUME NEW s \in Sources,
             HashFile(s) \/ ReadListed(1, s) \/ Parse(s) \/ StoreDocument(s) \/ DeleteDocument(s)
      PROVE  Kept
  BY <1>3, HashFileKeeps, ReadListedKeeps, ParseKeeps, StoreDocumentKeeps, DeleteDocumentKeeps
     DEF Boundaries
<1>4. ASSUME NEW s \in Sources, KeepDocument(s) \/ HashFails(s) \/ ParseFails(s) PROVE Kept
  BY <1>4, OutcomeKeeps DEF KeepDocument, HashFails, ParseFails, Boundaries
<1> QED
  BY <1>1, <1>2, <1>3, <1>4 DEF IngestStep

LEMMA IndexStepKeeps ==
  ASSUME BoundaryInv, Watch, IndexStep
  PROVE  Kept
<1>1. CASE Index(TRUE) \/ Resolved(Sources) \/ IndexStreamOver \/ RunOver(2)
  BY <1>1, IndexKeeps, ResolvedKeeps, IndexOverKeeps, RunOverKeeps DEF Boundaries
<1>2. ASSUME NEW s \in Sources,
             ReadListed(2, s) \/ Load(s) \/ StoreChunks(s) \/ DeleteChunks(s)
      PROVE  Kept
  BY <1>2, ReadListedKeeps, LoadKeeps, ChunksKeep, DeleteChunksKeeps DEF Boundaries
<1>3. ASSUME NEW s \in Sources, KeepChunks(s) \/ LoadFails(s) PROVE Kept
  BY <1>3, OutcomeKeeps DEF KeepChunks, LoadFails, Boundaries
<1> QED
  BY <1>1, <1>2, <1>3 DEF IndexStep

LEMMA OtherStepKeeps ==
  ASSUME BoundaryInv, Watch, Partial \/ Fault \/ Users
  PROVE  Kept
<1>1. CASE Partial
  <2>1. \A corpus \in SUBSET Files : corpus \in SUBSET Sources
    BY DEF Files
  <2> QED
    BY <1>1, <2>1, IngestKeeps, IndexKeeps, ResolvedKeeps DEF Partial
<1>2. CASE AbortIngest \/ AbortIndex
  BY <1>2, AbortIngestKeeps, AbortIndexKeeps
<1>3. ASSUME NEW s \in Sources,
             HashFails(s) \/ ParseFails(s) \/ Filter(s) \/ StoreDocumentFails(s) \/ ChunkFails(s)
      PROVE  Kept
  BY <1>3, OutcomeKeeps DEF HashFails, ParseFails, Filter, StoreDocumentFails, ChunkFails, Boundaries
<1>4. ASSUME NEW s \in Sources,
             StoreChunksFails(s) \/ \E b \in Boundaries : DeleteOrphanFails(b, s)
      PROVE  Kept
  BY <1>4, ChunksKeep, OrphanFailsKeeps
<1> QED
  BY <1>1, <1>2, <1>3, <1>4, UsersKeep DEF Fault

LEMMA InvStep == BoundaryInv /\ [Next]_vars => BoundaryInv'
<1> SUFFICES ASSUME BoundaryInv, [Next]_vars PROVE BoundaryInv'
  OBVIOUS
<1>1. StoreTypes /\ RunTypes /\ calm \in BOOLEAN
  BY TypeParts DEF BoundaryInv
<1>2. ASSUME Watch, Kept, UNCHANGED calm PROVE BoundaryInv'
  <2>1. TypeOK'
    BY <1>1, <1>2, Watched, TypeParts DEF Kept, Watch, StoreTypes, RunTypes, TypeOK, Point
  <2> QED
    BY <1>2, <2>1 DEF Kept, SourceInv, BoundaryInv
<1>3. ASSUME UNCHANGED <<docsVars, chunks, runVars, gone, outdated, missing>>, calm' \in BOOLEAN
      PROVE  BoundaryInv'
  <2>1. TypeOK'
    BY <1>3 DEF BoundaryInv, TypeOK, docsVars, runVars
  <2>2. ASSUME NEW s \in Sources PROVE SourceInv(s)'
    BY <1>3 DEF BoundaryInv, SourceInv, StoredInv, PhaseInv, FreshInv, OrphanInv, MissingInv,
                docsVars, runVars
  <2> QED
    BY <2>1, <2>2 DEF SourceInv, BoundaryInv
<1>4. CASE UNCHANGED vars
  BY <1>1, <1>3, <1>4 DEF vars
<1>5. CASE CalmDown
  BY <1>3, <1>5 DEF CalmDown
<1>6. CASE Work(IngestStep) \/ Work(IndexStep) \/ Work(Partial \/ Fault \/ Users)
  BY <1>2, <1>6, IngestStepKeeps, IndexStepKeeps, OtherStepKeeps DEF Work
<1> QED
  BY <1>4, <1>5, <1>6 DEF Next

(* Every variable keeps its type, and something is made of a source exactly *)
(* while it awaits its write.                                               *)
THEOREM BoundaryTypes == Spec => []TypeOK
<1>1. BoundaryInv => TypeOK
  BY DEF BoundaryInv
<1> QED
  BY InvInit, InvStep, <1>1, PTL DEF Spec

-----------------------------------------------------------------------------
(* The chunks. *)

LEMMA ChunksChange ==
  ASSUME Next
  PROVE  \/ UNCHANGED chunks
         \/ \E s \in Sources : StoreChunks(s) \/ StoreChunksFails(s) \/ DeleteChunks(s)
         \/ AbortIndex
<1>1. CASE Work(IngestStep)
  BY <1>1 DEF Work, IngestStep, Ingest, ListDocuments, DocumentsListed, IngestStreamOver, RunOver,
              HashFile, ReadListed, KeepDocument, Parse, StoreDocument, DeleteDocument, HashFails,
              ParseFails
<1>2. CASE Work(IndexStep)
  BY <1>2 DEF Work, IndexStep, Index, Resolved, IndexStreamOver, RunOver, ReadListed, KeepChunks,
              Load, LoadFails
<1>3. CASE Work(Partial \/ Fault \/ Users)
  <2>1. CASE Partial \/ Users
    BY <2>1 DEF Partial, Ingest, Index, Resolved, Users, EditFile, RemoveFile, EditDocument,
                BreakDocument, RemoveDocument
  <2>2. CASE Fault
    BY <2>2 DEF Fault, AbortIngest, HashFails, ParseFails, Filter, StoreDocumentFails, ChunkFails,
                DeleteOrphanFails
  <2> QED
    BY <1>3, <2>1, <2>2 DEF Work
<1>4. CASE CalmDown
  BY <1>4 DEF CalmDown
<1> QED
  BY <1>1, <1>2, <1>3, <1>4 DEF Next

(* The chunks of a source that carry a content_hash are all from the        *)
(* content it was computed of, whatever was listed, edited or interrupted.  *)
THEOREM ChunksAreTrue == Spec => []TrueContent
<1>1. Init => TrueContent
  BY DEF Init, TrueContent, NoChunks
<1>2. BoundaryInv /\ TrueContent /\ [Next]_vars => TrueContent'
  <2> SUFFICES ASSUME BoundaryInv, TrueContent, [Next]_vars PROVE TrueContent'
    OBVIOUS
  <2>1. TypeOK /\ chunks \in [Sources -> Chunks]
    BY DEF BoundaryInv, TypeOK
  <2>2. CASE UNCHANGED chunks
    BY <2>2 DEF TrueContent
  <2>3. ASSUME NEW s \in Sources, NEW c \in LeftBy(s) \cup {NoChunks},
               chunks' = [chunks EXCEPT ![s] = c]
        PROVE  TrueContent'
    <3>1. c.state = "whole" => c = chunks[s] \/ c.body = c.tok
      BY <2>1, <2>3, NewChunks DEF NoChunks
    <3> QED
      BY <2>1, <2>3, <3>1 DEF TrueContent
  <2>4. \/ UNCHANGED chunks
        \/ \E s \in Sources : \E c \in LeftBy(s) \cup {NoChunks} :
             chunks' = [chunks EXCEPT ![s] = c]
    <3>1. CASE Next
      <4>1. \A s \in Sources : New(s) \in LeftBy(s)
        BY DEF LeftBy
      <4> QED
        BY <3>1, <4>1, ChunksChange DEF StoreChunks, StoreChunksFails, DeleteChunks, AbortIndex
    <3> QED
      BY <3>1 DEF vars
  <2> QED
    BY <2>2, <2>3, <2>4
<1> QED
  BY InvInit, InvStep, <1>1, <1>2, PTL DEF Spec

-----------------------------------------------------------------------------
(* What the pipelines may take away. *)

LEMMA DocumentsChange ==
  ASSUME Next
  PROVE  \/ UNCHANGED doc
         \/ UNCHANGED runVars
         \/ \E s \in Sources : StoreDocument(s) \/ DeleteDocument(s)
         \/ AbortIngest
<1>1. CASE Work(IngestStep)
  BY <1>1 DEF Work, IngestStep, Ingest, ListDocuments, DocumentsListed, IngestStreamOver, RunOver,
              HashFile, ReadListed, KeepDocument, Parse, HashFails, ParseFails, docsVars
<1>2. CASE Work(IndexStep)
  BY <1>2 DEF Work, IndexStep, Index, Resolved, IndexStreamOver, RunOver, ReadListed, KeepChunks,
              Load, LoadFails, StoreChunks, DeleteChunks, docsVars
<1>3. CASE Work(Partial \/ Fault \/ Users)
  <2>1. CASE Partial
    BY <2>1 DEF Partial, Ingest, Index, Resolved, docsVars
  <2>2. CASE Fault
    BY <2>2 DEF Fault, AbortIndex, HashFails, ParseFails, Filter, StoreDocumentFails, ChunkFails,
                StoreChunksFails, DeleteOrphanFails, docsVars
  <2>3. CASE Users
    BY <2>3 DEF Users, EditFile, RemoveFile, EditDocument, BreakDocument, RemoveDocument
  <2> QED
    BY <1>3, <2>1, <2>2, <2>3 DEF Work
<1>4. CASE CalmDown
  BY <1>4 DEF CalmDown
<1> QED
  BY <1>1, <1>2, <1>3, <1>4 DEF Next

(* A document is replaced only when it was outdated at some time ... *)
LEMMA ReplacedWasOutdated ==
  ASSUME BoundaryInv, NEW s \in Sources, at[1][s] = "made"
  PROVE  s \in outdated
  BY DEF BoundaryInv, PhaseInv, FreshInv, Boundaries

(* ... and deleted only when its file was missing at some time of the run. *)
LEMMA DeletedWasGone ==
  ASSUME BoundaryInv, NEW s \in Sources, s \in orphans[1]
  PROVE  s \in outdated /\ s \in gone
  BY DEF BoundaryInv, PhaseInv, OrphanInv, Boundaries

LEMMA DocumentsSurvive ==
  ASSUME BoundaryInv, Next, NEW s \in Sources
  PROVE  EditSurvives(s) /\ OnlyGoneIsDeleted(s)
<1>1. doc \in [Sources -> Document]
  BY DEF BoundaryInv, TypeOK
<1>2. CASE UNCHANGED doc \/ UNCHANGED runVars
  BY <1>2 DEF EditSurvives, OnlyGoneIsDeleted
<1>3. ASSUME NEW r \in Sources, at[1][r] = "made", Replace(r)
      PROVE  EditSurvives(s) /\ OnlyGoneIsDeleted(s)
  <2>1. CASE r = s
    BY <1>3, <2>1, Replaced, ReplacedWasOutdated DEF EditSurvives, OnlyGoneIsDeleted
  <2>2. CASE r # s
    BY <1>3, <2>2, Replaced DEF EditSurvives, OnlyGoneIsDeleted
  <2> QED
    BY <2>1, <2>2
<1>4. ASSUME NEW r \in Sources, DeleteDocument(r)
      PROVE  EditSurvives(s) /\ OnlyGoneIsDeleted(s)
  <2>1. r \in orphans[1] /\ (r # s => doc'[s] = doc[s])
    BY <1>1, <1>4 DEF DeleteDocument
  <2> QED
    BY <2>1, DeletedWasGone DEF EditSurvives, OnlyGoneIsDeleted
<1>5. CASE AbortIngest
  BY <1>2, <1>3, <1>5 DEF AbortIngest
<1> QED
  BY <1>2, <1>3, <1>4, <1>5, DocumentsChange DEF StoreDocument

LEMMA ChunksSurvive ==
  ASSUME BoundaryInv, Next, NEW s \in Sources
  PROVE  ChunksAreKept(s)
<1>1. TypeOK /\ chunks \in [Sources -> Chunks]
  BY DEF BoundaryInv, TypeOK
<1>2. CASE UNCHANGED chunks
  BY <1>2 DEF ChunksAreKept
<1>3. ASSUME NEW r \in Sources, at[2][r] = "made", NEW c \in LeftBy(r),
             chunks' = [chunks EXCEPT ![r] = c]
      PROVE  ChunksAreKept(s)
  <2>1. CASE r # s
    BY <1>1, <1>3, <2>1 DEF ChunksAreKept
  <2>2. CASE r = s /\ c.state = "none" /\ chunks[s].state # "none"
    <3>1. made[2][s] # 0
      BY <1>3, <2>2 DEF BoundaryInv, TypeOK, Boundaries
    <3>2. c = New(s)
      BY <1>3, <2>2 DEF LeftBy, PartialChunks
    <3>3. made[2][s] \in ChunkLess
      BY <2>2, <3>2 DEF New
    <3> QED
      BY <3>1, <3>3 DEF ChunksAreKept
  <2>3. CASE r = s /\ ~(c.state = "none" /\ chunks[s].state # "none")
    BY <1>1, <1>3, <2>3 DEF ChunksAreKept
  <2> QED
    BY <2>1, <2>2, <2>3
<1>4. ASSUME NEW r \in Sources, DeleteChunks(r) PROVE ChunksAreKept(s)
  <2>1. CASE r = s
    <3>1. phase[2] = "deleting" /\ s \in orphans[2] /\ s \notin unread[2]
      BY <1>4, <2>1 DEF DeleteChunks, BoundaryInv, PhaseInv, Boundaries
    <3>2. s \in missing
      BY <3>1 DEF BoundaryInv, MissingInv
    <3> QED
      BY <3>2 DEF ChunksAreKept
  <2>2. CASE r # s
    BY <1>1, <1>4, <2>2 DEF DeleteChunks, ChunksAreKept
  <2> QED
    BY <2>1, <2>2
<1>5. \A r \in Sources : New(r) \in LeftBy(r)
  BY DEF LeftBy
<1>6. CASE \E r \in Sources : StoreChunks(r) \/ StoreChunksFails(r)
  BY <1>3, <1>5, <1>6 DEF StoreChunks, StoreChunksFails
<1>7. CASE AbortIndex
  BY <1>2, <1>3, <1>7 DEF AbortIndex
<1> QED
  BY <1>2, <1>4, <1>6, <1>7, ChunksChange

(* No step of the two pipelines takes away, on the word of a listing or a    *)
(* hash that is out of date, what the user or the other pipeline has stored: *)
(* a document goes or changes only if it was not its file's at some time in  *)
(* the run, chunks go only if their document was missing, or has none.       *)
THEOREM NothingIsLost == Spec => NothingLost
<1> DEFINE Safe == \A s \in Sources : EditSurvives(s) /\ OnlyGoneIsDeleted(s) /\ ChunksAreKept(s)
<1>1. BoundaryInv /\ [Next]_vars => [Safe]_vars
  BY DocumentsSurvive, ChunksSurvive
<1>2. Spec => [][Safe]_vars
  BY InvInit, InvStep, <1>1, PTL DEF Spec
<1> QED
  BY <1>2 DEF NothingLost
=============================================================================
