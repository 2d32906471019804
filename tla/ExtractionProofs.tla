--------------------------- MODULE ExtractionProofs ---------------------------
(***************************************************************************)
(* What TLAPS proves about modules of the extraction.                       *)
(*                                                                          *)
(* MentionFiles: whatever dies, is edited or reads meanwhile, listings are  *)
(* complete, files hold one version, and a sync leaves what it looked at    *)
(* current, until an old change set is applied.                             *)
(*                                                                          *)
(* EntityQueries: in a calendar of any length, intervals, unions of dates   *)
(* and both evaluations of a query speak of the same days.                  *)
(*                                                                          *)
(* GraphResolution: between runs the graph is closed and no mention is in   *)
(* two entities, an edge is an orphan only if the mentions moved, and a run *)
(* never uncovers a mention it resolved.                                    *)
(*                                                                          *)
(* HalvedCalls: an extraction that halves its text reads all of it, leaves  *)
(* no call behind and raises what its left-most failing part raised, within *)
(* a bounded number of requests.                                            *)
(*                                                                          *)
(* GraphBatches: merged answers have distinct ids, and every edge keeps the *)
(* payloads it joins, up to the final mentions of a source.                 *)
(*                                                                          *)
(* EntityClusters: the clusters of every round partition the mentions, and  *)
(* the union-find of a round computes the components of its merges.         *)
(***************************************************************************)
EXTENDS MentionFiles, EntityQueries, GraphResolution, HalvedCalls, GraphBatches,
        EntityClusters, SequenceLemmas, FiniteSetTheorems, TLAPS

(* With nothing there, every mention is new. *)
LEMMA AllUnlisted ==
  ASSUME NEW S, NEW q \in Seq(S)
  PROVE  Unlisted(<<>>, q)[Len(q)] = q
<1> DEFINE Then(f, n) ==
      IF n = 0 THEN <<>>
      ELSE IF \E k \in DOMAIN <<>> : <<>>[k].id = q[n].id THEN f[n - 1]
      ELSE Append(f[n - 1], q[n])
    Solves(f) == f = [n \in 0 .. Len(q) |-> Then(f, n)]
    prefixes == [n \in 0 .. Len(q) |-> SubSeq(q, 1, n)]
    u == Unlisted(<<>>, q)
<1>1. u = CHOOSE f : Solves(f)
  BY Zenon DEF Unlisted
<1>2. \A f : \A n \in 0 .. Len(q) :
        Then(f, n) = IF n = 0 THEN <<>> ELSE Append(f[n - 1], q[n])
  BY SMT
<1>3. \A n \in 0 .. Len(q) :
        n # 0 => SubSeq(q, 1, n) = Append(SubSeq(q, 1, n - 1), q[n])
  OBVIOUS
<1>4. Solves(prefixes)
  <2>1. ASSUME NEW n \in 0 .. Len(q)
        PROVE  prefixes[n] = IF n = 0 THEN <<>> ELSE Append(prefixes[n - 1], q[n])
    <3>1. CASE n = 0
      BY <3>1
    <3>2. CASE n # 0
      BY <1>3, <3>2
    <3> QED
      BY <3>1, <3>2
  <2>2. \A n \in 0 .. Len(q) : prefixes[n] = Then(prefixes, n)
    BY <1>2, <2>1
  <2> HIDE DEF Then
  <2> QED
    BY <2>2, Zenon
<1>5. Solves(u)
  <2> HIDE DEF Solves
  <2> QED
    BY <1>1, <1>4, Zenon
<1>6. \A n \in 0 .. Len(q) : u[n] = IF n = 0 THEN <<>> ELSE Append(u[n - 1], q[n])
  <2>1. ASSUME NEW n \in 0 .. Len(q) PROVE u[n] = Then(u, n)
    <3> HIDE DEF u, Then
    <3> QED
      BY <1>5, Zenon
  <2> HIDE DEF u, Then
  <2> QED
    BY <1>2, <2>1
<1>7. \A n \in 0 .. Len(q) : u[n] = SubSeq(q, 1, n)
  <2> DEFINE Bad == {n \in 0 .. Len(q) : u[n] # SubSeq(q, 1, n)}
  <2> SUFFICES ASSUME Bad # {} PROVE FALSE
    BY DEF Bad
  <2> HIDE DEF u
  <2>1. PICK n \in Bad : \A m \in Bad : n <= m
    <3>1. Bad \subseteq Nat
      OBVIOUS
    <3> HIDE DEF Bad
    <3> QED
      BY <3>1, LeastNat
  <2>2. CASE n = 0
    <3>1. u[0] = <<>> /\ SubSeq(q, 1, 0) = <<>>
      BY <1>6
    <3> QED
      BY <2>1, <2>2, <3>1
  <2>3. CASE n # 0
    <3>1. u[n - 1] = SubSeq(q, 1, n - 1)
      BY <2>1, <2>3
    <3> QED
      BY <1>3, <1>6, <2>1, <2>3, <3>1
  <2> QED
    BY <2>2, <2>3
<1> QED
  <2> HIDE DEF u
  <2>1. u[Len(q)] = SubSeq(q, 1, Len(q))
    BY <1>7
  <2>2. u = Unlisted(<<>>, q)
    BY DEF u
  <2> QED
    BY <2>1, <2>2

(* A version's payloads are a sequence that starts with the version. *)
LEMMA ExtractedSeq ==
  ASSUME NEW v \in DOMAIN MentionIds
  PROVE  /\ \E S : Extracted(v) \in Seq(S)
         /\ Extracted(v)[1].version = v
<1> DEFINE S == {[id |-> MentionIds[v][n], version |-> v] : n \in DOMAIN MentionIds[v]}
<1>1. /\ Len(MentionIds[v]) \in Nat \ {0}
      /\ DOMAIN MentionIds[v] = 1 .. Len(MentionIds[v])
  BY FileConstants
<1>2. \A n \in DOMAIN MentionIds[v] : Extracted(v)[n] \in S
  BY DEF Extracted
<1>3. Extracted(v) \in [1 .. Len(MentionIds[v]) -> S]
  BY <1>1, <1>2 DEF Extracted
<1>4. Extracted(v) \in Seq(S)
  <2> HIDE DEF S
  <2> QED
    BY <1>1, <1>3
<1>5. Extracted(v)[1].version = v
  BY <1>1 DEF Extracted
<1> QED
  BY <1>4, <1>5

LEMMA UpdatedNothing ==
  ASSUME NEW v \in DOMAIN MentionIds
  PROVE  Updated(<<>>, Extracted(v)) = Extracted(v)
<1>1. PICK S : Extracted(v) \in Seq(S)
  BY ExtractedSeq
<1>2. Unlisted(<<>>, Extracted(v))[Len(Extracted(v))] = Extracted(v)
  BY <1>1, AllUnlisted
<1>3. Updated(<<>>, Extracted(v)) = <<>> \o Unlisted(<<>>, Extracted(v))[Len(Extracted(v))]
  BY DEF Updated
<1> QED
  BY <1>1, <1>2, <1>3

-----------------------------------------------------------------------------
(* The invariant: until an old change set is applied, a source that is new  *)
(* to the change set has no file, so nothing is ever merged into a file.    *)

WholeFiles == {Whole(Extracted(v)) : v \in DOMAIN MentionIds}
FileStates == {Absent, Torn} \union WholeFiles
ChangeSets ==
  UNION {[D -> [version : DOMAIN MentionIds, new : BOOLEAN]] : D \in SUBSET FileSources}
Sightings == UNION {[D -> DOMAIN MentionIds] : D \in SUBSET FileSources}
Jobs == [step : {"idle", "next", "load", "open", "write"}, changes : ChangeSets,
         at : FileSources \union {"none"}, held : {<<>>}, saw : Sightings, errors : {{}}]
Listings == UNION {[D -> {Extracted(v) : v \in DOMAIN MentionIds}] : D \in SUBSET FileSources}
Readers == [step : {"idle", "read", "done", "raised"}, todo : SUBSET FileSources,
            named : SUBSET FileSources, got : Listings]

FileTypes ==
  /\ files \in [FileSources -> FileStates]
  /\ versions \in [FileSources -> DOMAIN MentionIds]
  /\ saved \in ChangeSets
  /\ job \in Jobs
  /\ reader \in Readers

Under == job.step \in {"load", "open", "write"}

(* What the sync has to write is not there yet. *)
NewIsAbsent ==
  /\ Under => job.at \in DOMAIN job.changes
  /\ \A s \in DOMAIN job.changes :
       (job.step = "next" \/ s # job.at) /\ job.changes[s].new => files[s] = Absent
  /\ job.step \in {"load", "open"} => files[job.at] = Absent

(* What it saw is written, or will be. *)
SawInv ==
  job.step # "idle" =>
    \A s \in DOMAIN job.saw :
      IF s \in DOMAIN job.changes THEN job.changes[s].version = job.saw[s]
      ELSE files[s] = Whole(Extracted(job.saw[s]))

ReaderInv ==
  /\ reader.step \in {"read", "done"} => reader.named \ reader.todo \subseteq DOMAIN reader.got
  /\ reader.step = "done" => reader.todo = {}

FilesInv ==
  /\ superseded \in BOOLEAN
  /\ ~superseded => FileTypes /\ NewIsAbsent /\ SawInv /\ ReaderInv

LEMMA EmptySets == <<>> \in ChangeSets /\ <<>> \in Sightings /\ <<>> \in Listings
<1>1. <<>> = [s \in {} |-> 0] /\ {} \in SUBSET FileSources
  OBVIOUS
<1>2. /\ [s \in {} |-> 0] \in [{} -> [version : DOMAIN MentionIds, new : BOOLEAN]]
      /\ [s \in {} |-> 0] \in [{} -> DOMAIN MentionIds]
      /\ [s \in {} |-> 0] \in [{} -> {Extracted(v) : v \in DOMAIN MentionIds}]
  OBVIOUS
<1> QED
  BY <1>1, <1>2 DEF ChangeSets, Sightings, Listings

LEMMA IdleTypes == IdleJob \in Jobs /\ IdleReader \in Readers
  BY EmptySets DEF IdleJob, IdleReader, Jobs, Readers

LEMMA ChangeSetTypes ==
  ASSUME NEW c \in ChangeSets
  PROVE  /\ DOMAIN c \in SUBSET FileSources
         /\ \A s \in DOMAIN c : c[s].version \in DOMAIN MentionIds /\ c[s].new \in BOOLEAN
<1>1. PICK D \in SUBSET FileSources : c \in [D -> [version : DOMAIN MentionIds, new : BOOLEAN]]
  BY DEF ChangeSets
<1> QED
  BY <1>1

LEMMA FewerChanges ==
  ASSUME NEW c \in ChangeSets, NEW x
  PROVE  [s \in DOMAIN c \ {x} |-> c[s]] \in ChangeSets
<1>1. PICK D \in SUBSET FileSources : c \in [D -> [version : DOMAIN MentionIds, new : BOOLEAN]]
  BY DEF ChangeSets
<1>2. [s \in DOMAIN c \ {x} |-> c[s]]
        \in [D \ {x} -> [version : DOMAIN MentionIds, new : BOOLEAN]]
  BY <1>1
<1>3. D \ {x} \in SUBSET FileSources
  BY <1>1
<1> QED
  BY <1>2, <1>3 DEF ChangeSets

(* The three kinds of file are told apart by their state. *)
LEMMA FileKinds ==
  ASSUME NEW f \in FileStates
  PROVE  /\ f = Absent \/ f = Torn \/ f \in WholeFiles
         /\ f.state = "absent" <=> f = Absent
         /\ f.state = "torn" <=> f = Torn
         /\ f.state = "whole" <=> f \in WholeFiles
         /\ f \in WholeFiles => \E v \in DOMAIN MentionIds :
              f.mentions = Extracted(v) /\ f = Whole(Extracted(v))
  BY DEF FileStates, WholeFiles, Absent, Torn, Whole

LEMMA NewOf == ASSUME NEW v, NEW n, [version |-> v, new |-> n].new PROVE n
  OBVIOUS

(* The change set of a plan or a run that lists every file. *)
LEMMA ChangeSetRight ==
  ASSUME FileTypes, \A s \in FileSources : Untorn(files[s])
  PROVE  /\ ChangeSet \in ChangeSets
         /\ \A s \in DOMAIN ChangeSet : /\ ChangeSet[s].version = versions[s]
                                        /\ ChangeSet[s].new => files[s] = Absent
         /\ \A s \in FileSources \ DOMAIN ChangeSet : files[s] = Whole(Extracted(versions[s]))
<1> DEFINE D == {x \in FileSources : Changed(x)}
<1>1. ChangeSet = [s \in D |-> [version |-> versions[s], new |-> ~IsStored(s)]]
  BY DEF ChangeSet
<1>2. ASSUME NEW s \in FileSources
      PROVE  files[s] \in FileStates /\ versions[s] \in DOMAIN MentionIds
  BY DEF FileTypes
<1>3. \A s \in FileSources : IsStored(s) \in BOOLEAN
  BY DEF IsStored
<1>4. \A s \in D : [version |-> versions[s], new |-> ~IsStored(s)]
                    \in [version : DOMAIN MentionIds, new : BOOLEAN]
  BY <1>2, <1>3
<1>5. ChangeSet \in [D -> [version : DOMAIN MentionIds, new : BOOLEAN]]
  <2> HIDE DEF D
  <2> QED
    BY <1>1, <1>4
<1>6. ChangeSet \in ChangeSets
  BY <1>5 DEF ChangeSets
<1>7. ASSUME NEW s \in D
      PROVE  /\ ChangeSet[s].version = versions[s]
             /\ ChangeSet[s].new => files[s] = Absent
  <2>1. ChangeSet[s] = [version |-> versions[s], new |-> ~IsStored(s)]
    BY <1>1
  <2>2. (IsStored(s) \in BOOLEAN) /\ (~IsStored(s)) \in BOOLEAN
    BY <1>3
  <2>3. ~IsStored(s) => files[s] = Absent
    BY <1>2, FileKinds DEF IsStored, Untorn
  <2>4. ASSUME ChangeSet[s].new PROVE ~IsStored(s)
    <3>1. [version |-> versions[s], new |-> ~IsStored(s)].new
      BY <2>1, <2>4, Zenon
    <3> QED
      BY <3>1, NewOf, Zenon
  <2> QED
    BY <2>1, <2>3, <2>4
<1>8. ASSUME NEW s \in FileSources \ D PROVE files[s] = Whole(Extracted(versions[s]))
  <2>1. IsStored(s) /\ versions[s] = StoredVersion(s)
    BY <1>8 DEF Changed
  <2>2. PICK v \in DOMAIN MentionIds : files[s] = Whole(Extracted(v)) /\ files[s].mentions = Extracted(v)
    BY <1>2, <2>1, FileKinds DEF IsStored
  <2>3. versions[s] = v
    BY <2>1, <2>2, ExtractedSeq DEF StoredVersion
  <2> QED
    BY <2>2, <2>3
<1> QED
  BY <1>1, <1>6, <1>7, <1>8

LEMMA FilesInitially == FilesInit => FilesInv
<1> SUFFICES ASSUME FilesInit PROVE FilesInv
  OBVIOUS
<1>1. FileTypes
  BY IdleTypes, EmptySets DEF FilesInit, FileTypes, FileStates
<1>2. DOMAIN job.changes = {} /\ job.step = "idle"
  BY DEF FilesInit, IdleJob
<1>3. reader.step = "idle"
  BY DEF FilesInit, IdleReader
<1> QED
  BY <1>1, <1>2, <1>3 DEF FilesInit, FilesInv, NewIsAbsent, SawInv, ReaderInv, Under

(* The fields of a job and of a listing. *)
LEMMA JobFields ==
  ASSUME job \in Jobs
  PROVE  /\ job.step \in {"idle", "next", "load", "open", "write"}
         /\ job.changes \in ChangeSets /\ job.saw \in Sightings
         /\ job.held = <<>> /\ job.errors = {}
         /\ DOMAIN job.changes \in SUBSET FileSources
         /\ DOMAIN job.saw \in SUBSET FileSources
         /\ \A s \in DOMAIN job.saw : job.saw[s] \in DOMAIN MentionIds
<1>1. /\ job.step \in {"idle", "next", "load", "open", "write"}
      /\ job.changes \in ChangeSets /\ job.saw \in Sightings
      /\ job.held = <<>> /\ job.errors = {}
  BY DEF Jobs
<1>2. DOMAIN job.changes \in SUBSET FileSources
  BY <1>1, ChangeSetTypes
<1>3. PICK D \in SUBSET FileSources : job.saw \in [D -> DOMAIN MentionIds]
  BY <1>1 DEF Sightings
<1> QED
  BY <1>1, <1>2, <1>3

LEMMA ReadMore ==
  ASSUME reader.got \in Listings, NEW s \in FileSources, files[s] \in WholeFiles
  PROVE  /\ WithFile(s) \in Listings
         /\ DOMAIN WithFile(s) = DOMAIN reader.got \union {s}
<1> DEFINE X == {Extracted(w) : w \in DOMAIN MentionIds}
<1>1. PICK D \in SUBSET FileSources : reader.got \in [D -> X]
  BY DEF Listings
<1>2. files[s].mentions \in X
  BY DEF WholeFiles, Whole
<1>3. WithFile(s) \in [D \union {s} -> X]
  <2> HIDE DEF X
  <2> QED
    BY <1>1, <1>2 DEF WithFile
<1>4. D \union {s} \in SUBSET FileSources
  BY <1>1
<1> QED
  BY <1>1, <1>3, <1>4 DEF Listings, WithFile

LEMMA FilesStep == FilesInv /\ [FilesNext]_fileVars => FilesInv'
<1> SUFFICES ASSUME FilesInv, [FilesNext]_fileVars PROVE FilesInv'
  OBVIOUS
<1>a. superseded' \in BOOLEAN /\ (superseded => superseded')
  BY DEF FilesInv, FilesNext, fileVars, StartRun, StartApply, NextChange, LoadExisting,
     OpenForWriting, WriteMentions, EndJob, Die, StartReading, EndReading, EditSource,
     DeleteByHand, ReadOne, Untouched
<1> SUFFICES ASSUME ~superseded, ~superseded'
             PROVE  FileTypes' /\ NewIsAbsent' /\ SawInv' /\ ReaderInv'
  BY <1>a DEF FilesInv
<1>b. FileTypes /\ NewIsAbsent /\ SawInv /\ ReaderInv
  BY DEF FilesInv
<1>c. /\ files \in [FileSources -> FileStates] /\ versions \in [FileSources -> DOMAIN MentionIds]
      /\ saved \in ChangeSets /\ job \in Jobs /\ reader \in Readers
      /\ {Absent, Torn} \subseteq FileStates
  BY <1>b DEF FileTypes, FileStates
<1>d. /\ job.step \in {"idle", "next", "load", "open", "write"}
      /\ job.changes \in ChangeSets /\ job.saw \in Sightings
      /\ job.held = <<>> /\ job.errors = {}
      /\ DOMAIN job.changes \in SUBSET FileSources
      /\ DOMAIN job.saw \in SUBSET FileSources
      /\ \A s \in DOMAIN job.saw : job.saw[s] \in DOMAIN MentionIds
  BY <1>c, JobFields
<1>1. ASSUME NEW s \in FileSources, EditSource(s)
      PROVE  FileTypes' /\ NewIsAbsent' /\ SawInv' /\ ReaderInv'
  BY <1>1, <1>b, <1>c DEF EditSource, FileTypes, NewIsAbsent, SawInv, ReaderInv, Under
<1>2. CASE StartRun
  <2>1. /\ job.step = "idle" /\ UNCHANGED <<files, versions, reader>>
        /\ \/ saved' = ChangeSet /\ job' = job
           \/ saved' = saved /\ job' = [IdleJob EXCEPT !.step = "next", !.changes = ChangeSet,
                                                      !.saw = versions]
    BY <1>2 DEF StartRun
  <2>2. /\ ChangeSet \in ChangeSets
        /\ \A s \in DOMAIN ChangeSet : /\ ChangeSet[s].version = versions[s]
                                       /\ ChangeSet[s].new => files[s] = Absent
        /\ \A s \in FileSources \ DOMAIN ChangeSet : files[s] = Whole(Extracted(versions[s]))
    BY <1>2, <1>b, ChangeSetRight DEF StartRun
  <2>3. CASE saved' = ChangeSet /\ job' = job
    BY <1>b, <1>c, <2>1, <2>2, <2>3
       DEF FileTypes, NewIsAbsent, SawInv, ReaderInv, Under
  <2>4. CASE /\ saved' = saved
             /\ job' = [IdleJob EXCEPT !.step = "next", !.changes = ChangeSet, !.saw = versions]
    <3>1. job' = [step |-> "next", changes |-> ChangeSet, at |-> "none", held |-> <<>>,
                  saw |-> versions, errors |-> {}]
      BY <2>4 DEF IdleJob
    <3>2. versions \in Sightings
      BY <1>c DEF Sightings
    <3>3. job' \in Jobs
      BY <2>2, <3>1, <3>2 DEF Jobs
    <3>4. /\ job'.step = "next" /\ job'.changes = ChangeSet /\ job'.saw = versions
      BY <3>1
    <3>5. NewIsAbsent'
      BY <2>1, <2>2, <3>4 DEF NewIsAbsent, Under
    <3>6. SawInv'
      BY <1>c, <2>1, <2>2, <3>4 DEF SawInv
    <3> QED
      BY <1>b, <1>c, <2>1, <2>4, <3>3, <3>5, <3>6 DEF FileTypes, ReaderInv
  <2> QED
    BY <2>1, <2>3, <2>4
<1>3. CASE StartApply
  <2>1. /\ UNCHANGED <<files, versions, saved, reader>>
        /\ job' = [step |-> "next", changes |-> saved, at |-> "none", held |-> <<>>,
                   saw |-> [s \in DOMAIN saved |-> saved[s].version], errors |-> {}]
        /\ \A s \in DOMAIN saved : saved[s].new => files[s] = Absent
    BY <1>3 DEF StartApply, IdleJob
  <2>2. /\ DOMAIN saved \in SUBSET FileSources
        /\ \A s \in DOMAIN saved : saved[s].version \in DOMAIN MentionIds
    BY <1>c, ChangeSetTypes
  <2>3. [s \in DOMAIN saved |-> saved[s].version] \in Sightings
    BY <2>2 DEF Sightings
  <2>4. job' \in Jobs
    BY <1>c, <2>1, <2>3 DEF Jobs
  <2>5. /\ job'.step = "next" /\ job'.changes = saved
        /\ job'.saw = [s \in DOMAIN saved |-> saved[s].version]
    BY <2>1
  <2>6. NewIsAbsent'
    BY <2>1, <2>5 DEF NewIsAbsent, Under
  <2>7. SawInv'
    BY <2>5 DEF SawInv
  <2> QED
    BY <1>b, <1>c, <2>1, <2>4, <2>6, <2>7 DEF FileTypes, ReaderInv
<1>4. CASE NextChange
  <2>1. PICK s \in DOMAIN job.changes \ {job.at} :
          /\ job' = [job EXCEPT !.step = "load", !.at = s]
          /\ files' = IF IsNew(s) THEN files ELSE [files EXCEPT ![s] = Absent]
    BY <1>4 DEF NextChange
  <2>2. job.step = "next" /\ UNCHANGED <<versions, saved, reader>> /\ s \in FileSources
    BY <1>4, <1>d, <2>1 DEF NextChange, Untouched
  <2>3. /\ job' \in Jobs /\ job'.step = "load" /\ job'.at = s
        /\ job'.changes = job.changes /\ job'.saw = job.saw
    BY <1>c, <2>1, <2>2 DEF Jobs
  <2>4. files' \in [FileSources -> FileStates]
    BY <1>c, <2>1, <2>2
  <2>5. /\ files'[s] = Absent
        /\ \A r \in FileSources : r # s => files'[r] = files[r]
    BY <1>b, <1>c, <2>1, <2>2 DEF NewIsAbsent, IsNew
  <2>6. NewIsAbsent'
    BY <1>b, <1>d, <2>1, <2>2, <2>3, <2>5 DEF NewIsAbsent, Under
  <2>7. SawInv'
    BY <1>b, <1>d, <2>1, <2>2, <2>3, <2>5 DEF SawInv
  <2> QED
    BY <1>b, <1>c, <2>2, <2>3, <2>4, <2>6, <2>7 DEF FileTypes, ReaderInv
<1>5. CASE LoadExisting
  <2>1. job.step = "load" /\ files[job.at] = Absent
    BY <1>5, <1>b DEF LoadExisting, NewIsAbsent
  <2>2. Untorn(files[job.at]) /\ files[job.at].mentions = <<>>
    BY <2>1 DEF Untorn, Absent
  <2>3. job' = [job EXCEPT !.step = "open", !.held = <<>>] /\ UNCHANGED <<files, versions, saved, reader>>
    BY <1>5, <2>2 DEF LoadExisting, Untouched
  <2>4. /\ job' \in Jobs /\ job'.step = "open" /\ job'.at = job.at
        /\ job'.changes = job.changes /\ job'.saw = job.saw
    BY <1>c, <2>3 DEF Jobs
  <2>5. NewIsAbsent'
    BY <1>b, <2>1, <2>3, <2>4 DEF NewIsAbsent, Under
  <2>6. SawInv'
    BY <1>b, <2>1, <2>3, <2>4 DEF SawInv
  <2> QED
    BY <1>b, <1>c, <2>3, <2>4, <2>5, <2>6 DEF FileTypes, ReaderInv
<1>6. CASE OpenForWriting
  <2>1. /\ job.step = "open" /\ job.at \in DOMAIN job.changes /\ job.at \in FileSources
        /\ files' = [files EXCEPT ![job.at] = Torn] /\ UNCHANGED <<versions, saved, reader>>
    BY <1>6, <1>b, <1>d DEF OpenForWriting, Untouched, NewIsAbsent, Under
  <2>2. /\ job' \in Jobs /\ job'.step = "write" /\ job'.at = job.at
        /\ job'.changes = job.changes /\ job'.saw = job.saw
    BY <1>6, <1>c DEF OpenForWriting, Jobs
  <2>3. /\ files' \in [FileSources -> FileStates]
        /\ \A r \in FileSources : r # job.at => files'[r] = files[r]
    BY <1>c, <2>1
  <2>4. NewIsAbsent'
    BY <1>b, <1>d, <2>1, <2>2, <2>3 DEF NewIsAbsent, Under
  <2>5. SawInv'
    BY <1>b, <1>d, <2>1, <2>2, <2>3 DEF SawInv
  <2> QED
    BY <1>b, <1>c, <2>1, <2>2, <2>3, <2>4, <2>5 DEF FileTypes, ReaderInv
<1>7. CASE WriteMentions
  <2>1. /\ job.step = "write" /\ job.at \in DOMAIN job.changes /\ job.at \in FileSources
        /\ UNCHANGED <<versions, saved, reader>>
    BY <1>7, <1>b, <1>d DEF WriteMentions, Untouched, NewIsAbsent, Under
  <2>2. Change.version \in DOMAIN MentionIds
    BY <1>d, <2>1, ChangeSetTypes DEF Change
  <2>3. files' = [files EXCEPT ![job.at] = Whole(Extracted(Change.version))]
    BY <1>7, <1>d, <2>2, UpdatedNothing DEF WriteMentions
  <2>4. Whole(Extracted(Change.version)) \in FileStates
    BY <2>2 DEF FileStates, WholeFiles
  <2>5. /\ files' \in [FileSources -> FileStates]
        /\ \A r \in FileSources : r # job.at => files'[r] = files[r]
        /\ files'[job.at] = Whole(Extracted(Change.version))
    BY <1>c, <2>1, <2>3, <2>4
  <2> DEFINE rest == [s \in DOMAIN job.changes \ {job.at} |-> job.changes[s]]
  <2>6. rest \in ChangeSets
    BY <1>d, FewerChanges
  <2>7. job' = [job EXCEPT !.step = "next", !.at = "none", !.held = <<>>, !.changes = rest]
    BY <1>7 DEF WriteMentions, DropChange
  <2>8. /\ job' \in Jobs /\ job'.step = "next" /\ job'.changes = rest /\ job'.saw = job.saw
    <3> HIDE DEF rest
    <3> QED
      BY <1>c, <2>6, <2>7 DEF Jobs
  <2>9. /\ DOMAIN rest = DOMAIN job.changes \ {job.at}
        /\ \A s \in DOMAIN rest : rest[s] = job.changes[s]
    OBVIOUS
  <2> HIDE DEF rest
  <2>10. NewIsAbsent'
    BY <1>b, <1>d, <2>1, <2>5, <2>8, <2>9 DEF NewIsAbsent, Under
  <2>11. SawInv'
    <3> SUFFICES ASSUME NEW s \in DOMAIN job.saw
                 PROVE  IF s \in DOMAIN rest THEN rest[s].version = job.saw[s]
                        ELSE files'[s] = Whole(Extracted(job.saw[s]))
      BY <2>8 DEF SawInv
    <3>1. /\ s \in FileSources
          /\ IF s \in DOMAIN job.changes THEN job.changes[s].version = job.saw[s]
             ELSE files[s] = Whole(Extracted(job.saw[s]))
      BY <1>b, <1>d, <2>1 DEF SawInv
    <3> QED
      BY <2>1, <2>5, <2>9, <3>1 DEF Change
  <2> QED
    BY <1>b, <1>c, <2>1, <2>5, <2>8, <2>10, <2>11 DEF FileTypes, ReaderInv
<1>8. CASE EndJob \/ Die
  <2>1. job' = IdleJob /\ UNCHANGED <<files, versions, saved, reader>>
    BY <1>8 DEF EndJob, Die, Untouched
  <2>2. job' \in Jobs /\ job'.step = "idle" /\ DOMAIN job'.changes = {}
    BY <2>1, IdleTypes DEF IdleJob
  <2> QED
    BY <1>b, <1>c, <2>1, <2>2 DEF FileTypes, NewIsAbsent, SawInv, ReaderInv, Under
<1>9. ASSUME NEW s \in FileSources, DeleteByHand(s)
      PROVE  FileTypes' /\ NewIsAbsent' /\ SawInv' /\ ReaderInv'
  <2>1. /\ job.step = "idle" /\ files' = [files EXCEPT ![s] = Absent]
        /\ UNCHANGED <<versions, saved, reader, job>>
    BY <1>9 DEF DeleteByHand, Untouched
  <2>2. /\ files' \in [FileSources -> FileStates]
        /\ \A r \in FileSources : files'[r] = files[r] \/ files'[r] = Absent
    BY <1>c, <2>1
  <2> QED
    BY <1>b, <1>c, <1>d, <2>1, <2>2 DEF FileTypes, NewIsAbsent, SawInv, ReaderInv, Under
<1>10. CASE StartReading \/ EndReading \/ \E s \in FileSources : ReadOne(s)
  <2>1. UNCHANGED <<files, versions, job, saved>>
    BY <1>10 DEF StartReading, EndReading, ReadOne
  <2>2. reader' \in Readers /\ ReaderInv'
    <3>1. CASE StartReading
      <4> DEFINE named == {s \in FileSources : files[s].state # "absent"}
                 step == IF named = {} THEN "done" ELSE "read"
      <4>1. reader' = [IdleReader EXCEPT !.step = step, !.todo = named, !.named = named]
        BY <3>1 DEF StartReading
      <4>2. reader' = [step |-> step, todo |-> named, named |-> named, got |-> <<>>]
        BY <4>1 DEF IdleReader
      <4>3. named \in SUBSET FileSources /\ step \in {"read", "done"}
            /\ (step = "done" => named = {})
        OBVIOUS
      <4> HIDE DEF named, step
      <4> QED
        BY <4>2, <4>3, EmptySets DEF Readers, ReaderInv
    <3>2. CASE EndReading
      BY <3>2, IdleTypes DEF EndReading, IdleReader, ReaderInv
    <3>3. ASSUME NEW s \in FileSources, ReadOne(s) PROVE reader' \in Readers /\ ReaderInv'
      <4>1. CASE files[s].state # "absent" /\ Untorn(files[s])
        <5> DEFINE step == IF reader.todo = {s} THEN "done" ELSE "read"
        <5>1. reader' = [reader EXCEPT !.todo = @ \ {s}, !.got = WithFile(s), !.step = step]
          BY <3>3, <4>1 DEF ReadOne
        <5>2. files[s] \in FileStates
          BY <1>c
        <5>3. files[s] \in WholeFiles
          BY <4>1, <5>2, FileKinds DEF Untorn
        <5>4. reader.got \in Listings /\ reader.todo \in SUBSET FileSources
          BY <1>c DEF Readers
        <5>5. /\ WithFile(s) \in Listings
              /\ DOMAIN WithFile(s) = DOMAIN reader.got \union {s}
          BY <5>3, <5>4, ReadMore
        <5>6. step \in {"read", "done"} /\ (step = "done" => reader.todo \ {s} = {})
          OBVIOUS
        <5> HIDE DEF step
        <5>7. /\ reader' \in Readers /\ reader'.step = step /\ reader'.todo = reader.todo \ {s}
              /\ reader'.named = reader.named /\ reader'.got = WithFile(s)
          BY <1>c, <5>1, <5>4, <5>5, <5>6 DEF Readers
        <5>8. reader.step = "read" /\ reader.named \ reader.todo \subseteq DOMAIN reader.got
          BY <1>b, <3>3 DEF ReadOne, ReaderInv
        <5> QED
          BY <5>5, <5>6, <5>7, <5>8 DEF ReaderInv
      <4>2. CASE ~(files[s].state # "absent" /\ Untorn(files[s]))
        <5>1. reader' = [IdleReader EXCEPT !.step = "raised"]
          BY <3>3, <4>2 DEF ReadOne
        <5>2. reader' = [step |-> "raised", todo |-> {}, named |-> {}, got |-> <<>>]
          BY <5>1 DEF IdleReader
        <5> QED
          BY <5>2, EmptySets DEF Readers, ReaderInv
      <4> QED
        BY <4>1, <4>2
    <3> QED
      BY <1>10, <3>1, <3>2, <3>3
  <2> QED
    BY <1>b, <1>c, <2>1, <2>2 DEF FileTypes, NewIsAbsent, SawInv, Under
<1>11. CASE UNCHANGED fileVars
  BY <1>b, <1>c, <1>11 DEF fileVars, FileTypes, NewIsAbsent, SawInv, ReaderInv, Under
<1> QED
  BY <1>1, <1>2, <1>3, <1>4, <1>5, <1>6, <1>7, <1>8, <1>9, <1>10, <1>11 DEF FilesNext

(* A listing that returns has a whole extraction of each source it named, a *)
(* file never mixes two versions, and a sync that ends has left everything  *)
(* it looked at current: for any number of sources, versions, syncs, deaths *)
(* and readers, until a saved change set is applied that calls a source new *)
(* which meanwhile has a file.                                              *)
THEOREM FilesStayWhole == FilesSpec => []MentionFilesAreWhole
<1>1. FilesInv => MentionFilesAreWhole
  <2> SUFFICES ASSUME FilesInv, ~superseded PROVE MentionFilesAreWhole
    BY DEF MentionFilesAreWhole, ListingsComplete, OneVersionPerFile, SyncLeavesCurrent, FilesInv
  <2>1. FileTypes /\ SawInv /\ ReaderInv
    BY DEF FilesInv
  <2>2. ListingsComplete
    <3> SUFFICES ASSUME reader.step = "done", NEW s \in reader.named
                 PROVE  s \in DOMAIN reader.got /\ OneExtraction(reader.got[s])
      BY DEF ListingsComplete
    <3>1. s \in DOMAIN reader.got
      BY <2>1 DEF ReaderInv
    <3>2. reader.got \in Listings
      BY <2>1 DEF FileTypes, Readers
    <3>3. PICK D \in SUBSET FileSources :
            reader.got \in [D -> {Extracted(v) : v \in DOMAIN MentionIds}]
      BY <3>2 DEF Listings
    <3> QED
      BY <3>1, <3>3 DEF OneExtraction
  <2>3. OneVersionPerFile
    BY <2>1, FileKinds DEF FileTypes, OneVersionPerFile, IsStored, OneExtraction
  <2>4. SyncLeavesCurrent
    BY <2>1 DEF SyncLeavesCurrent, SawInv
  <2> QED
    BY <2>2, <2>3, <2>4 DEF MentionFilesAreWhole
<1> QED
  BY FilesInitially, FilesStep, <1>1, PTL DEF FilesSpec

-----------------------------------------------------------------------------
(* Dates *)

Bounds == 0 .. LastDay

(* An interval a date can have: never reversed, and no end on the first day. *)
DateSet ==
  {d \in [start : Bounds, end : Bounds] :
     /\ Bounded(d) => d.start <= d.end
     /\ d.end # 1}

DatesInv == dated \in Seq(DateSet)

LEMMA IntervalOf ==
  ASSUME NEW from \in Bounds, NEW last \in Bounds,
         from = None \/ last = None \/ from <= last
  PROVE  [start |-> from, end |-> ExclusiveEnd(last)] \in DateSet
<1>1. LastDay \in Nat /\ LastDay > 1
  BY QueryConstants
<1>2. /\ ExclusiveEnd(last) \in Bounds /\ ExclusiveEnd(last) # 1
      /\ from # None /\ ExclusiveEnd(last) # None => from <= ExclusiveEnd(last)
  BY <1>1 DEF ExclusiveEnd, Bounds, None
<1> HIDE DEF ExclusiveEnd
<1> QED
  BY <1>2 DEF DateSet, Bounded

LEMMA AcceptedDates ==
  ASSUME NEW t \in Texts, Accepted(t)
  PROVE  Interval(Normalised(t)) \in DateSet
<1>1. LastDay \in Nat /\ LastDay > 1
  BY QueryConstants
<1>2. CASE t.form \in {"none", "duration"}
  <2>1. Interval(Normalised(t)) = [start |-> None, end |-> None]
    BY <1>2 DEF Normalised, Interval
  <2> QED
    BY <1>1, <2>1 DEF DateSet, Bounded, Bounds, None
<1>3. CASE t.form = "hyphen"
  <2>1. t.first \in Days /\ t.last \in Days
    BY <1>3 DEF Texts
  <2>2. t.last > t.first
    BY <1>3 DEF Accepted, Normalised
  <2>3. Normalised(t) = [t EXCEPT !.form = "edtf"]
    BY <1>3, <2>2 DEF Normalised
  <2>4. t \in [form : {"none", "duration", "hyphen", "edtf"}, first : Bounds, last : Bounds]
    BY <1>1, <1>3, <2>1 DEF Texts, Bounds, Days
  <2>5. /\ Normalised(t).form = "edtf" /\ Normalised(t).first = t.first
        /\ Normalised(t).last = t.last
    BY <2>3, <2>4
  <2>6. Interval(Normalised(t)) = [start |-> t.first, end |-> ExclusiveEnd(t.last)]
    BY <2>5 DEF Interval
  <2>7. t.first \in Bounds /\ t.last \in Bounds /\ t.first <= t.last
    BY <1>1, <2>1, <2>2 DEF Bounds, Days
  <2> QED
    BY <2>6, <2>7, IntervalOf
<1>4. CASE t.form = "edtf"
  <2>1. /\ t.first \in Days \union {None} /\ t.last \in Days \union {None}
        /\ t.first = None \/ t.last = None \/ t.first <= t.last
    BY <1>4 DEF Texts
  <2>2. Interval(Normalised(t)) = [start |-> t.first, end |-> ExclusiveEnd(t.last)]
    BY <1>4 DEF Normalised, Interval
  <2>3. t.first \in Bounds /\ t.last \in Bounds
    BY <1>1, <2>1 DEF Bounds, Days, None
  <2> QED
    BY <2>1, <2>2, <2>3, IntervalOf
<1> QED
  BY <1>2, <1>3, <1>4 DEF Texts

LEMMA DatesStep == DatesInv /\ [QueriesNext]_dated => DatesInv'
<1> SUFFICES ASSUME DatesInv, [QueriesNext]_dated PROVE DatesInv'
  OBVIOUS
<1>1. CASE dated' = dated
  BY <1>1 DEF DatesInv
<1>2. CASE QueriesNext
  <2>1. PICK t \in Texts : Accepted(t) /\ dated' = Append(dated, Interval(Normalised(t)))
    BY <1>2 DEF QueriesNext, AddDate
  <2>2. Interval(Normalised(t)) \in DateSet
    BY <2>1, AcceptedDates
  <2> QED
    BY <2>1, <2>2 DEF DatesInv
<1> QED
  BY <1>1, <1>2

LEMMA DatesAre ==
  ASSUME DatesInv
  PROVE  /\ \A d \in Dates : d \in DateSet
         /\ DOMAIN dated = 1 .. Len(dated) /\ Len(dated) \in Nat
         /\ ToSet(dated) = Dates
  BY DEF DatesInv, Dates, ToSet

LEMMA DatesOverlap ==
  ASSUME NEW d \in DateSet, NEW q \in [start : Days \union {None}, end : Days \union {None}],
         Bounded(d) => d.start < d.end, Bounded(q) => q.start < q.end
  PROVE  Overlaps(d, q) <=> \E day \in 0 .. LastDay + 1 : Within(day, d) /\ Within(day, q)
<1>1. /\ d.start \in Bounds /\ d.end \in Bounds /\ q.start \in Bounds /\ q.end \in Bounds
      /\ LastDay \in Nat
  BY QueryConstants DEF DateSet, Bounds, Days, None
<1>2. ASSUME Overlaps(d, q)
      PROVE  \E day \in 0 .. LastDay + 1 : Within(day, d) /\ Within(day, q)
  <2>1. CASE d.start >= q.start
    <3>1. d.start \in 0 .. LastDay + 1 /\ Within(d.start, d) /\ Within(d.start, q)
      BY <1>1, <1>2, <2>1 DEF Overlaps, Before, Within, Bounded, Bounds, None
    <3> QED
      BY <3>1
  <2>2. CASE d.start < q.start
    <3>1. q.start \in 0 .. LastDay + 1 /\ Within(q.start, d) /\ Within(q.start, q)
      BY <1>1, <1>2, <2>2 DEF Overlaps, Before, Within, Bounded, Bounds, None
    <3> QED
      BY <3>1
  <2> QED
    BY <1>1, <2>1, <2>2 DEF Bounds
<1>3. ASSUME NEW day \in 0 .. LastDay + 1, Within(day, d), Within(day, q)
      PROVE  Overlaps(d, q)
  BY <1>1, <1>3 DEF Overlaps, Before, Within, Bounds, None
<1> QED
  BY <1>2, <1>3

(* Sets of days have an earliest and a latest one. *)
LEMMA DayExtremes ==
  ASSUME NEW S, S \subseteq Bounds, S # {}
  PROVE  /\ Min(S) \in S /\ \A y \in S : Min(S) <= y
         /\ Max(S) \in S /\ \A y \in S : Max(S) >= y
BY QueryConstants, Extremes DEF Bounds

LEMMA DatesHull == DatesInv => UnionIsHull
<1> SUFFICES ASSUME DatesInv, dated # <<>>, \A d \in Dates : Bounded(d)
    PROVE  /\ \A day \in Days : (\E d \in Dates : Within(day, d)) => Within(day, UnionDates(dated))
           /\ \A day \in Days : Within(day, UnionDates(dated)) =>
                \E a, b \in Dates : a.start <= day /\ day < b.end
  BY Zenon DEF UnionIsHull
<1> DEFINE starts == {dated[i].start : i \in DOMAIN dated} \ {None}
    ends == {dated[i].end : i \in DOMAIN dated} \ {None}
    from == Min(starts)
    to == Max(ends)
<1>1. /\ \A d \in Dates : d \in DateSet /\ d.start \in starts /\ d.end \in ends
      /\ \A n \in starts : \E d \in Dates : d.start = n
      /\ \A n \in ends : \E d \in Dates : d.end = n
  BY DatesAre DEF Dates, Bounded
<1>2. \A d \in Dates : /\ d.start \in Bounds /\ d.start # None
                       /\ d.end \in Bounds /\ d.end # None /\ d.end # 1
  BY <1>1 DEF DateSet, Bounded
<1>3. starts # {} /\ ends # {}
  <2>1. dated[1] \in Dates
    BY DatesAre DEF Dates, DatesInv
  <2> HIDE DEF starts, ends
  <2> QED
    BY <1>1, <2>1
<1>4. UnionDates(dated) = Interval([form |-> "edtf", first |-> from, last |-> to - 1])
  BY <1>3 DEF UnionDates
<1> HIDE DEF starts, ends
<1>5. starts \subseteq Bounds /\ ends \subseteq Bounds
  BY <1>1, <1>2
<1>6. /\ from \in starts /\ \A n \in starts : from <= n
      /\ to \in ends /\ \A n \in ends : to >= n
  BY <1>3, <1>5, DayExtremes, Zenon
<1> HIDE DEF from, to
<1>7. /\ from \in Bounds /\ from # None
      /\ to \in Bounds /\ to # None /\ to # 1
  BY <1>1, <1>2, <1>6
<1>8. LastDay \in Nat
  BY QueryConstants
<1>9. ExclusiveEnd(to - 1) = to
  BY <1>7, <1>8 DEF ExclusiveEnd, Bounds, None
<1>10. UnionDates(dated) = [start |-> from, end |-> to]
  BY <1>4, <1>9 DEF Interval
<1>11. \A day : Within(day, UnionDates(dated)) <=> from <= day /\ day < to
  BY <1>7, <1>10 DEF Within
<1>12. ASSUME NEW day \in Days, NEW d \in Dates, Within(day, d)
       PROVE  from <= day /\ day < to
  <2>1. /\ d.start \in Bounds /\ d.start # None /\ d.end \in Bounds /\ d.end # None
        /\ from <= d.start /\ to >= d.end
    BY <1>1, <1>2, <1>6
  <2> QED
    BY <1>7, <1>8, <1>12, <2>1 DEF Within, Bounds, Days
<1>13. ASSUME NEW day \in Days, from <= day, day < to
       PROVE  \E a, b \in Dates : a.start <= day /\ day < b.end
  BY <1>1, <1>6, <1>13
<1> QED
  BY <1>11, <1>12, <1>13

LEMMA BackendMatches ==
  ASSUME NEW d \in DateSet, NEW q \in Queries
  PROVE  Matches(d, q) <=> ServerMatches(d, q)
<1>1. CASE q.date = <<>>
  BY <1>1, Zenon DEF Matches, ServerMatches
<1>2. CASE q.date # <<>>
  <2> DEFINE r == q.date[1]
  <2>1. r \in [start : Days \union {None}, end : Days \union {None}]
    BY <1>2 DEF Queries
  <2> HIDE DEF r
  <2>2. /\ d.start \in Bounds /\ d.end \in Bounds /\ r.start \in Bounds /\ r.end \in Bounds
        /\ LastDay \in Nat
    BY <2>1, QueryConstants DEF DateSet, Bounds, Days, None
  <2>3. Overlaps(d, r) <=>
          /\ r.end = None \/ BoundCondition(d.start, 1 .. r.end - 1)
          /\ r.start = None \/ BoundCondition(d.end, r.start + 1 .. LastDay)
    BY <2>2 DEF Overlaps, Before, BoundCondition, Bounds, None
  <2> QED
    BY <1>2, <2>3, Zenon DEF Matches, ServerMatches, r
<1> QED
  BY <1>1, <1>2

LEMMA BackendsAlike == DatesInv => BackendsAgree
<1> SUFFICES ASSUME DatesInv, NEW q \in Queries, ~(q.limited /\ q.limit = 0)
    PROVE  FilterEntities(dated, q) = ServerQuery(dated, q)
  BY Zenon DEF BackendsAgree
<1>1. {d \in ToSet(dated) : Matches(d, q)} = {d \in ToSet(dated) : ServerMatches(d, q)}
  BY DatesAre, BackendMatches
<1>2. q.limited => Max({q.limit, 1}) = q.limit
  <2>1. q.limit \in 0 .. 2
    BY DEF Queries
  <2>2. ASSUME q.limited PROVE Max({q.limit, 1}) = q.limit
    <3>1. q.limit # 0
      BY <2>2, Zenon
    <3>2. q.limit \in {q.limit, 1} /\ \A y \in {q.limit, 1} : q.limit >= y
      BY <2>1, <3>1
    <3>3. \A x \in {q.limit, 1} : (\A y \in {q.limit, 1} : x >= y) => x = q.limit
      BY <2>1, <3>1
    <3> QED
      BY <3>2, <3>3, Zenon DEF Max
  <2> QED
    BY <2>2
<1> QED
  BY <1>1, <1>2, Zenon DEF FilterEntities, ServerQuery

(* For a calendar of any length and any number of dates: an accepted text   *)
(* never gives a reversed interval, overlaps means a common day, the date   *)
(* of a merged entity is the hull of its members', and the filter sent to   *)
(* the server keeps what the one in memory keeps, open sides and limits     *)
(* included (FuzzyDate, _union_dates, filter_entities, QdrantEntityStore).  *)
THEOREM DatesAlwaysMeanDays == QueriesSpec => []DatesMeanDays
<1>1. QueriesInit => DatesInv
  BY DEF QueriesInit, DatesInv
<1>2. DatesInv => NeverReversed
  BY DatesAre DEF NeverReversed, DateSet
<1>3. DatesInv => OverlapIsCommonDay
  BY DatesAre, DatesOverlap DEF OverlapIsCommonDay
<1>4. DatesInv => DatesMeanDays
  BY <1>2, <1>3, DatesHull, BackendsAlike, Zenon DEF DatesMeanDays
<1> QED
  BY <1>1, <1>4, DatesStep, PTL DEF QueriesSpec

-----------------------------------------------------------------------------
(* GraphResolution *)

Disjoint(ids) == \A a, b \in ids : a = b \/ a \cap b = {}

(* An edge entity of one mention, between the entities of its ends. *)
EdgeBetween(d, ids) ==
  \E e \in Edges :
    /\ d.id = {e}
    /\ \A k \in {1, 2} : d.ends[k] \in ids /\ Ends[e][k] \in d.ends[k]

KindsInv ==
  /\ resolving \in {"idle", "nodes", "edges", "node", "edge"}
  /\ entities = [k \in Kinds |-> entities[k]]
  /\ plan = [k \in Kinds |-> plan[k]]
  /\ listed \in BOOLEAN
  /\ listed => Writing
  /\ ~listed => todo = {}
  /\ Dropping => /\ resolving = "idle"
                 /\ drop[2] \in Kinds
                 /\ drop[1] \in unfinished

(* What is resolved is a graph by itself, type after type. *)
PlanInv ==
  /\ \A p \in plan["node"] : p = Entity(p.id, <<>>)
  /\ Disjoint(Ids(plan["node"]))
  /\ \A p \in plan["edge"] : \E e \in Edges : Resolvable(e) /\ p = Promoted(e)
  /\ resolving = "nodes" =>
       /\ plan["edge"] = {}
       /\ \A m \in UNION Ids(plan["node"]) : Type[m] \notin unread

(* What is stored is stale, to be overwritten, or right already. *)
WriteInv ==
  /\ listed => /\ todo \subseteq plan[resolving]
               /\ stale \cap Ids(plan[resolving]) = {}
               /\ \A d \in Store : d.id \in stale \/ d.id \in Ids(todo) \/ d \in plan[resolving]
               /\ plan[resolving] \ todo \subseteq Store
  /\ resolving = "edge" => entities["node"] = plan["node"]

(* The edges come from one mention; a deletion of its source may be on its *)
(* way from the nodes to the edges, or have died there.                     *)
EdgeKept(d) ==
  \E e \in Edges :
    /\ d.id = {e}
    /\ \A k \in {1, 2} : /\ Ends[e][k] \in d.ends[k]
                         /\ d.ends[k] \in Ids(entities["node"]) \/ Source[e] \in unfinished

SettledInv ==
  Settled => /\ Disjoint(Ids(entities["node"]))
             /\ \A d \in entities["edge"] : EdgeKept(d)

(* Nothing is left over while the mentions stay as they were. *)
MoveInv ==
  resolving # "idle" /\ ~moved =>
    /\ orphans = {}
    /\ resolving = "nodes" =>
         UNION Ids(plan["node"]) = {m \in Present(Nodes) : Type[m] \notin unread}
    /\ resolving = "edges" => UNION Ids(plan["node"]) = Present(Nodes)

GraphInv == KindsInv /\ PlanInv /\ WriteInv /\ SettledInv /\ MoveInv

LEMMA GraphInitially == GraphInit => GraphInv
<1> SUFFICES ASSUME GraphInit PROVE GraphInv
  OBVIOUS
<1>1. KindsInv
  BY DEF GraphInit, KindsInv, Nothing, Kinds, Dropping
<1>2. plan["node"] = {} /\ plan["edge"] = {} /\ \A k \in Kinds : plan[k] = {}
  BY DEF GraphInit, Nothing, Kinds
<1>3. PlanInv
  BY <1>2 DEF PlanInv, Disjoint, Ids
<1> QED
  BY <1>1, <1>3 DEF GraphInit, GraphInv, WriteInv, SettledInv, MoveInv, Settled

LEMMA EntityFields ==
  ASSUME NEW i, NEW n
  PROVE  /\ Entity(i, n).id = i /\ Entity(i, n).ends = n /\ Entity(i, n).readable
         /\ Entity(i, n) = Entity(Entity(i, n).id, Entity(i, n).ends)
  BY DEF Entity

(* The parts of the plan that the writing needs. *)
LEMMA PlanFacts ==
  ASSUME PlanInv
  PROVE  /\ \A k \in Kinds : \A p \in plan[k] : p = Entity(p.id, p.ends)
         /\ \A k \in Kinds : \A p, q \in plan[k] : p.id = q.id => p = q
         /\ \A p \in plan["edge"] : EdgeBetween(p, Ids(plan["node"]))
<1>1. ASSUME NEW e \in Edges, Resolvable(e) PROVE EdgeBetween(Promoted(e), Ids(plan["node"]))
  <2>1. ASSUME NEW k \in {1, 2}
        PROVE  Rewritten(Ends[e][k]) \in Ids(plan["node"]) /\ Ends[e][k] \in Rewritten(Ends[e][k])
    <3>1. \E c \in Ids(plan["node"]) : Ends[e][k] \in c
      BY <1>1 DEF Resolvable
    <3>2. EntityOf(Ends[e][k]) \in Ids(plan["node"]) /\ Ends[e][k] \in EntityOf(Ends[e][k])
      BY <3>1 DEF EntityOf
    <3> QED
      BY <3>1, <3>2 DEF Rewritten
  <2>2. /\ Promoted(e).id = {e}
        /\ \A k \in {1, 2} : Promoted(e).ends[k] = Rewritten(Ends[e][k])
    BY DEF Promoted, Entity
  <2> QED
    BY <2>1, <2>2 DEF EdgeBetween
<1>2. \A p \in plan["node"] : p = Entity(p.id, p.ends) /\ p.ends = <<>>
  BY EntityFields DEF PlanInv
<1>3. ASSUME NEW e PROVE Promoted(e).id = {e} /\ Promoted(e) = Entity(Promoted(e).id, Promoted(e).ends)
  BY DEF Promoted, Entity
<1>4. \A p, q \in plan["node"] : p.id = q.id => p = q
  BY DEF PlanInv
<1>5. \A p, q \in plan["edge"] : p = Entity(p.id, p.ends) /\ (p.id = q.id => p = q)
  BY <1>3 DEF PlanInv
<1>6. \A p \in plan["edge"] : EdgeBetween(p, Ids(plan["node"]))
  BY <1>1 DEF PlanInv
<1> QED
  BY <1>2, <1>4, <1>5, <1>6 DEF Kinds

(* phase 1: the clusters of the node mentions of a type. *)
LEMMA NodesResolved ==
  ASSUME GraphInv, ResolveNodes
  PROVE  /\ PlanInv' /\ MoveInv'
         /\ plan' = [k \in Kinds |-> plan'[k]]
<1>1. PICK t \in unread : \E P \in Partitions(OfType(t, Nodes)) :
        /\ plan' = [plan EXCEPT !["node"] = @ \cup {Entity(c, <<>>) : c \in P}]
        /\ unread' = unread \ {t}
  BY DEF ResolveNodes
<1>2. PICK P \in Partitions(OfType(t, Nodes)) :
        plan' = [plan EXCEPT !["node"] = @ \cup {Entity(c, <<>>) : c \in P}]
  BY <1>1
<1>3. resolving = "nodes" /\ UNCHANGED <<resolving, mentioned, orphans, moved>>
  BY DEF ResolveNodes
<1>4. /\ plan'["node"] = plan["node"] \cup {Entity(c, <<>>) : c \in P}
      /\ plan'["edge"] = plan["edge"]
      /\ plan' = [k \in Kinds |-> plan'[k]]
  BY <1>2 DEF GraphInv, KindsInv, Kinds
<1>5. Ids(plan'["node"]) = Ids(plan["node"]) \cup P
  <2>1. Ids({Entity(c, <<>>) : c \in P}) = P
    <3>1. \A c \in P : Entity(c, <<>>).id = c
      BY EntityFields
    <3> QED
      BY <3>1 DEF Ids
  <2>2. Ids(plan'["node"]) = Ids(plan["node"]) \cup Ids({Entity(c, <<>>) : c \in P})
    BY <1>4 DEF Ids
  <2> QED
    BY <2>1, <2>2
<1>6. UNION P = OfType(t, Nodes) /\ Disjoint(P)
  BY DEF Partitions, Disjoint
<1>7. /\ Disjoint(Ids(plan["node"])) /\ plan["edge"] = {}
      /\ \A m \in UNION Ids(plan["node"]) : Type[m] \notin unread
  BY <1>3 DEF GraphInv, PlanInv
<1>8. UNION Ids(plan'["node"]) = (UNION Ids(plan["node"])) \cup OfType(t, Nodes)
  BY <1>5, <1>6
<1>9. \A m \in UNION Ids(plan'["node"]) : Type[m] \notin unread'
  BY <1>1, <1>7, <1>8 DEF OfType
<1>10. Disjoint(Ids(plan'["node"]))
  <2>1. ASSUME NEW a \in Ids(plan["node"]), NEW b \in P PROVE a \cap b = {}
    BY <1>1, <1>6, <1>7 DEF OfType
  <2> QED
    BY <1>5, <1>6, <1>7, <2>1 DEF Disjoint
<1>11. \A p \in plan'["node"] : p = Entity(p.id, <<>>)
  <2>1. \A p \in {Entity(c, <<>>) : c \in P} : p = Entity(p.id, <<>>)
    BY EntityFields
  <2> QED
    BY <1>4, <2>1 DEF GraphInv, PlanInv
<1>12. PlanInv'
  BY <1>3, <1>4, <1>7, <1>9, <1>10, <1>11 DEF PlanInv
<1>13. MoveInv'
  <2> SUFFICES ASSUME ~moved
               PROVE  /\ orphans = {}
                      /\ UNION Ids(plan'["node"]) = {m \in Present(Nodes) : Type[m] \notin unread'}
    BY <1>3 DEF MoveInv, Present
  <2>1. /\ orphans = {}
        /\ UNION Ids(plan["node"]) = {m \in Present(Nodes) : Type[m] \notin unread}
    BY <1>3 DEF GraphInv, MoveInv
  <2> QED
    BY <1>1, <1>8, <2>1 DEF OfType
<1> QED
  BY <1>4, <1>12, <1>13

(* phase 2: every edge of a type whose ends are known becomes an edge of    *)
(* entities, and with the mentions as they were, every edge has its ends.   *)
LEMMA EdgesResolved ==
  ASSUME GraphInv, ResolveEdges
  PROVE  /\ PlanInv' /\ MoveInv'
         /\ plan' = [k \in Kinds |-> plan'[k]]
<1>1. PICK t \in unread :
        /\ plan' = [plan EXCEPT !["edge"] =
                      @ \cup {Promoted(e) : e \in {d \in OfType(t, Edges) : Resolvable(d)}}]
        /\ orphans' = orphans \cup {e \in OfType(t, Edges) : ~Resolvable(e)}
  BY DEF ResolveEdges
<1>2. resolving = "edges" /\ UNCHANGED <<resolving, mentioned, moved>>
  BY DEF ResolveEdges
<1> DEFINE New == {Promoted(e) : e \in {d \in OfType(t, Edges) : Resolvable(d)}}
<1>3. /\ plan'["node"] = plan["node"] /\ plan'["edge"] = plan["edge"] \cup New
      /\ plan' = [k \in Kinds |-> plan'[k]]
  <2> HIDE DEF New
  <2>1. plan' = [plan EXCEPT !["edge"] = @ \cup New]
    BY <1>1 DEF New
  <2> QED
    BY <2>1 DEF GraphInv, KindsInv, Kinds
<1>4. ASSUME NEW e PROVE Resolvable(e)' = Resolvable(e) /\ Promoted(e)' = Promoted(e)
  BY <1>3 DEF Resolvable, Promoted, Rewritten, EntityOf
<1>5. \A p \in plan'["edge"] : \E e \in Edges : Resolvable(e) /\ p = Promoted(e)
  <2>1. \A p \in New : \E e \in Edges : Resolvable(e) /\ p = Promoted(e)
    BY DEF OfType, Present
  <2> QED
    BY <1>3, <2>1 DEF GraphInv, PlanInv
<1>6. PlanInv'
  BY <1>2, <1>3, <1>4, <1>5 DEF GraphInv, PlanInv
<1>7. MoveInv'
  <2> SUFFICES ASSUME ~moved PROVE orphans' = {} /\ UNION Ids(plan["node"]) = Present(Nodes)
    BY <1>2, <1>3 DEF MoveInv, Present
  <2>1. orphans = {} /\ UNION Ids(plan["node"]) = Present(Nodes)
    BY <1>2 DEF GraphInv, MoveInv
  <2>2. \A e \in OfType(t, Edges) : Resolvable(e)
    BY <2>1, GraphConstants DEF OfType, Present, Resolvable
  <2> QED
    BY <1>1, <2>1, <2>2
<1> QED
  BY <1>3, <1>6, <1>7

-----------------------------------------------------------------------------
(* One step. *)

LEMMA SettledStays ==
  ASSUME SettledInv, UNCHANGED <<entities, resolving, outcome>>, unfinished \subseteq unfinished'
  PROVE  SettledInv'
<1>1. ASSUME NEW d, EdgeKept(d) PROVE EdgeKept(d)'
  BY <1>1 DEF EdgeKept
<1> QED
  BY <1>1 DEF SettledInv, Settled

(* Outside the reading of the nodes and edges the plan is one of before. *)
LEMMA PlanStays ==
  ASSUME PlanInv, UNCHANGED plan, resolving' = "nodes" => UNCHANGED <<resolving, unread>>
  PROVE  PlanInv'
<1>1. ASSUME NEW e PROVE Resolvable(e)' = Resolvable(e) /\ Promoted(e)' = Promoted(e)
  BY DEF Resolvable, Promoted, Rewritten, EntityOf
<1> QED
  BY <1>1 DEF PlanInv

LEMMA NotSettled == ASSUME ~Settled PROVE SettledInv
  BY DEF SettledInv

(* While a store is written, only its entities change. *)
LEMMA StoreChanges ==
  ASSUME KindsInv, Writing, NEW es, entities' = [entities EXCEPT ![resolving] = es]
  PROVE  /\ entities'[resolving] = es
         /\ resolving # "node" => entities'["node"] = entities["node"]
         /\ entities' = [k \in Kinds |-> entities'[k]]
<1>1. resolving \in Kinds /\ DOMAIN entities = Kinds
  BY DEF KindsInv, Writing
<1> QED
  BY <1>1 DEF KindsInv

LEMMA UpsertStep ==
  ASSUME GraphInv, UpsertEntity
  PROVE  GraphInv' /\ Ids(entities["node"]) \subseteq Ids(entities'["node"])
<1>1. PICK e \in todo : /\ entities' = [entities EXCEPT ![resolving] = Replaced(e)]
                       /\ todo' = todo \ {e}
  BY DEF UpsertEntity
<1>2. /\ UNCHANGED <<mentioned, resolving, listed, plan, stale, orphans, outcome, moved, unread,
                      drop, unfinished>>
      /\ Writing /\ listed /\ resolving \in Kinds
  BY DEF UpsertEntity, Writing, dropVars
<1>a. KindsInv /\ PlanInv /\ WriteInv /\ MoveInv
  BY DEF GraphInv
<1>3. /\ entities'[resolving] = Replaced(e)
      /\ resolving # "node" => entities'["node"] = entities["node"]
      /\ entities' = [k \in Kinds |-> entities'[k]]
  <2> DEFINE es == Replaced(e)
  <2> HIDE DEF es
  <2>1. entities' = [entities EXCEPT ![resolving] = es]
    BY <1>1 DEF es
  <2>2. /\ entities'[resolving] = es
        /\ resolving # "node" => entities'["node"] = entities["node"]
        /\ entities' = [k \in Kinds |-> entities'[k]]
    BY <1>2, <1>a, <2>1, StoreChanges
  <2> QED
    BY <2>2 DEF es
<1>4. KindsInv'
  BY <1>2, <1>3, <1>a DEF KindsInv, Writing, Dropping
<1>5. PlanInv'
  BY <1>2, <1>a, PlanStays
<1>6. Store' = Replaced(e)
  BY <1>2, <1>3 DEF Store
<1>7. e \in plan[resolving] /\ todo \subseteq plan[resolving]
  BY <1>1, <1>2, <1>a DEF WriteInv
<1>8. \A d \in Replaced(e) : d.id \in stale \/ d.id \in Ids(todo') \/ d \in plan[resolving]
  BY <1>1, <1>2, <1>7, <1>a DEF WriteInv, Replaced, Ids
<1>9. plan[resolving] \ todo' \subseteq Replaced(e)
  BY <1>1, <1>2, <1>7, <1>a, PlanFacts DEF WriteInv, Replaced
<1>10. resolving = "edge" => entities'["node"] = plan["node"]
  BY <1>3, <1>a DEF WriteInv
<1>11. WriteInv'
  BY <1>1, <1>2, <1>6, <1>7, <1>8, <1>9, <1>10, <1>a DEF WriteInv
<1>12. SettledInv'
  BY <1>2 DEF SettledInv, Settled, Kinds
<1>13. MoveInv'
  BY <1>2, <1>a DEF MoveInv, Kinds
<1>14. Ids(entities["node"]) \subseteq Ids(entities'["node"])
  <2>1. CASE resolving = "node"
    BY <1>3, <2>1 DEF Replaced, Ids, Store
  <2>2. CASE resolving # "node"
    BY <1>3, <2>2
  <2> QED
    BY <2>1, <2>2
<1> QED
  BY <1>4, <1>5, <1>11, <1>12, <1>13, <1>14 DEF GraphInv

LEMMA DeleteStep ==
  ASSUME GraphInv, DeleteStaleEntity
  PROVE  /\ GraphInv'
         /\ \/ Ids(entities["node"]) = Ids(entities'["node"])
            \/ Ids(plan["node"]) \subseteq Ids(entities'["node"])
<1>1. PICK id \in stale : /\ entities' = [entities EXCEPT ![resolving] = {e \in @ : e.id # id}]
                         /\ stale' = stale \ {id}
  BY DEF DeleteStaleEntity
<1>2. /\ UNCHANGED <<mentioned, resolving, listed, plan, todo, orphans, outcome, moved, unread,
                      drop, unfinished>>
      /\ Writing /\ listed /\ resolving \in Kinds /\ todo = {}
  BY DEF DeleteStaleEntity, MayDelete, Writing, dropVars
<1>a. KindsInv /\ PlanInv /\ WriteInv /\ MoveInv
  BY DEF GraphInv
<1> DEFINE kept == {e \in Store : e.id # id}
<1>3. /\ entities'[resolving] = kept
      /\ resolving # "node" => entities'["node"] = entities["node"]
      /\ entities' = [k \in Kinds |-> entities'[k]]
  <2>1. entities' = [entities EXCEPT ![resolving] = kept]
    BY <1>1 DEF Store
  <2> HIDE DEF kept
  <2> QED
    BY <1>2, <1>a, <2>1, StoreChanges
<1>4. KindsInv'
  BY <1>2, <1>3, <1>a DEF KindsInv, Writing, Dropping
<1>5. PlanInv'
  BY <1>2, <1>a, PlanStays
<1>6. Store' = kept
  BY <1>2, <1>3 DEF Store
<1>7. \A d \in kept : d.id \in stale' \/ d.id \in Ids(todo) \/ d \in plan[resolving]
  BY <1>1, <1>2, <1>a DEF WriteInv
<1>8. plan[resolving] \subseteq kept
  <2>1. \A p \in plan[resolving] : p.id \notin stale
    BY <1>2, <1>a DEF WriteInv, Ids
  <2> QED
    BY <1>1, <1>2, <1>a, <2>1 DEF WriteInv
<1>9. WriteInv'
  BY <1>1, <1>2, <1>3, <1>6, <1>7, <1>8, <1>a DEF WriteInv
<1>10. SettledInv'
  BY <1>2 DEF SettledInv, Settled, Kinds
<1>11. MoveInv'
  BY <1>2, <1>a DEF MoveInv, Kinds
<1>12. CASE resolving = "node"
  BY <1>3, <1>4, <1>5, <1>8, <1>9, <1>10, <1>11, <1>12 DEF GraphInv, Ids
<1>13. CASE resolving # "node"
  BY <1>3, <1>4, <1>5, <1>9, <1>10, <1>11, <1>13 DEF GraphInv
<1> QED
  BY <1>12, <1>13

(* A store is written when its entities are those of the plan. *)
LEMMA WrittenStep == ASSUME GraphInv, StoreWritten PROVE GraphInv'
<1>1. /\ UNCHANGED <<mentioned, entities, unread, plan, todo, stale, orphans, moved, drop>>
      /\ resolving \in Kinds /\ listed /\ todo = {} /\ stale = {} /\ listed' = FALSE
      /\ resolving' = IF resolving = "node" THEN "edge" ELSE "idle"
  BY DEF StoreWritten, Writing
<1>a. KindsInv /\ PlanInv /\ WriteInv /\ MoveInv
  BY DEF GraphInv
<1>2. Store = plan[resolving]
  <2>1. \A d \in Store : d \in plan[resolving]
    BY <1>1, <1>a DEF WriteInv, Ids
  <2>2. \A p \in plan[resolving] : p \in Store
    BY <1>1, <1>a DEF WriteInv
  <2> QED
    BY <2>1, <2>2
<1>3. KindsInv'
  BY <1>1, <1>a DEF KindsInv, Writing, Dropping, Kinds
<1>4. PlanInv'
  BY <1>1, <1>a, PlanStays DEF Kinds
<1>5. CASE resolving = "node"
  <2>1. resolving' = "edge" /\ entities'["node"] = plan["node"]
    BY <1>1, <1>2, <1>5 DEF Store
  <2>2. WriteInv' /\ SettledInv' /\ MoveInv'
    BY <1>1, <1>5, <1>a, <2>1 DEF WriteInv, SettledInv, Settled, MoveInv
  <2> QED
    BY <1>3, <1>4, <2>2 DEF GraphInv
<1>6. CASE resolving = "edge"
  <2>1. resolving' = "idle" /\ entities["node"] = plan["node"] /\ entities["edge"] = plan["edge"]
    BY <1>1, <1>2, <1>6, <1>a DEF Store, WriteInv
  <2>2. WriteInv' /\ MoveInv'
    BY <1>1, <2>1 DEF WriteInv, MoveInv
  <2>3. SettledInv'
    <3>1. \A d \in entities'["edge"] : EdgeKept(d)'
      BY <1>1, <1>a, <2>1, PlanFacts DEF EdgeBetween, EdgeKept
    <3> QED
      BY <1>1, <1>a, <2>1, <3>1 DEF SettledInv, PlanInv
  <2> QED
    BY <1>3, <1>4, <2>2, <2>3 DEF GraphInv
<1> QED
  BY <1>1, <1>5, <1>6 DEF Kinds

(* A deletion takes away what is from its source alone. *)
LEMMA DropEntitiesStep == ASSUME GraphInv, DropEntities PROVE GraphInv'
<1> DEFINE s == drop[1]
<1>1. PICK gone \in SUBSET Doomed : entities' = [entities EXCEPT ![drop[2]] = @ \ gone]
  BY DEF DropEntities
<1>2. /\ UNCHANGED <<mentioned, resolving, unread, listed, plan, todo, stale, orphans, outcome,
                      moved, drop, unfinished>>
      /\ Dropping
  BY DEF DropEntities, runVars, dropVars
<1>a. KindsInv /\ PlanInv /\ WriteInv /\ MoveInv /\ SettledInv
  BY DEF GraphInv
<1>3. resolving = "idle" /\ drop[2] \in Kinds /\ s \in unfinished
  BY <1>2, <1>a DEF KindsInv
<1>4. entities' = [k \in Kinds |-> entities'[k]]
  BY <1>1, <1>a DEF KindsInv
<1>5. KindsInv'
  BY <1>2, <1>4, <1>a DEF KindsInv, Writing, Dropping
<1>6. PlanInv'
  BY <1>2, <1>a, PlanStays
<1>7. WriteInv' /\ MoveInv'
  BY <1>2, <1>3, <1>a DEF WriteInv, MoveInv, KindsInv, Writing, Kinds
<1>8. /\ \A k \in Kinds : entities'[k] \subseteq entities[k]
      /\ \A k \in Kinds : \A e \in entities[k] : ~SoleSource(s, e) => e \in entities'[k]
  BY <1>1, <1>3, <1>a DEF KindsInv, Doomed, DropStore
<1>9. SettledInv'
  <2> SUFFICES ASSUME Settled'
               PROVE  /\ Disjoint(Ids(entities'["node"]))
                      /\ \A d \in entities'["edge"] : EdgeKept(d)'
    BY DEF SettledInv
  <2>1. Disjoint(Ids(entities["node"])) /\ \A d \in entities["edge"] : EdgeKept(d)
    BY <1>2, <1>a DEF SettledInv, Settled
  <2>2. Disjoint(Ids(entities'["node"]))
    BY <1>8, <2>1 DEF Disjoint, Ids, Kinds
  <2>3. ASSUME NEW d \in entities'["edge"] PROVE EdgeKept(d)'
    <3>1. d \in entities["edge"]
      BY <1>8 DEF Kinds
    <3>2. PICK e \in Edges :
            /\ d.id = {e}
            /\ \A k \in {1, 2} :
                 /\ Ends[e][k] \in d.ends[k]
                 /\ d.ends[k] \in Ids(entities["node"]) \/ Source[e] \in unfinished
      BY <2>1, <3>1 DEF EdgeKept
    <3>3. ASSUME NEW k \in {1, 2}, Source[e] \notin unfinished
          PROVE  d.ends[k] \in Ids(entities'["node"])
      <4>1. PICK n \in entities["node"] : n.id = d.ends[k]
        BY <3>2, <3>3 DEF Ids
      <4>2. Ends[e][k] \in n.id /\ Source[Ends[e][k]] = Source[e]
        BY <3>2, <4>1, GraphConstants
      <4>3. ~SoleSource(s, n)
        BY <1>3, <3>3, <4>2 DEF SoleSource
      <4>4. n \in entities'["node"]
        BY <1>8, <4>3 DEF Kinds
      <4> QED
        BY <4>1, <4>4 DEF Ids
    <3> QED
      BY <1>2, <3>2, <3>3 DEF EdgeKept
  <2> QED
    BY <2>2, <2>3
<1> QED
  BY <1>5, <1>6, <1>7, <1>9 DEF GraphInv

(* Once the edges of a source are gone, none of them needs its ends. *)
LEMMA StoreDroppedStep == ASSUME GraphInv, StoreDropped PROVE GraphInv'
<1>1. /\ UNCHANGED <<mentioned, entities, resolving, unread, listed, plan, todo, stale, orphans,
                      outcome, moved>>
      /\ Dropping /\ Doomed = {}
      /\ IF drop[2] = "node"
           THEN drop' = <<drop[1], "edge">> /\ UNCHANGED unfinished
           ELSE drop' = <<>> /\ unfinished' = unfinished \ {drop[1]}
  BY DEF StoreDropped, runVars
<1>a. KindsInv /\ PlanInv /\ WriteInv /\ MoveInv /\ SettledInv
  BY DEF GraphInv
<1>2. resolving = "idle" /\ drop[2] \in Kinds /\ drop[1] \in unfinished
  BY <1>1, <1>a DEF KindsInv
<1>3. KindsInv'
  BY <1>1, <1>2, <1>a DEF KindsInv, Writing, Dropping, Kinds
<1>4. PlanInv'
  BY <1>1, <1>a, PlanStays
<1>5. WriteInv' /\ MoveInv'
  BY <1>1, <1>2, <1>a DEF WriteInv, MoveInv, KindsInv, Writing, Kinds
<1>6. SettledInv'
  <2>1. CASE drop[2] = "node"
    BY <1>1, <1>a, <2>1, SettledStays
  <2>2. CASE drop[2] = "edge"
    <3>1. ASSUME NEW d \in entities["edge"], EdgeKept(d) PROVE EdgeKept(d)'
      <4>1. PICK e \in Edges :
              /\ d.id = {e}
              /\ \A k \in {1, 2} :
                   /\ Ends[e][k] \in d.ends[k]
                   /\ d.ends[k] \in Ids(entities["node"]) \/ Source[e] \in unfinished
        BY <3>1 DEF EdgeKept
      <4>2. Source[e] # drop[1]
        <5>1. {Source[m] : m \in d.id} = {Source[e]}
          BY <4>1
        <5> QED
          BY <1>1, <2>2, <5>1 DEF Doomed, DropStore, SoleSource
      <4> QED
        BY <1>1, <2>2, <4>1, <4>2 DEF EdgeKept
    <3> QED
      BY <1>1, <1>a, <3>1 DEF SettledInv, Settled
  <2> QED
    BY <1>2, <2>1, <2>2 DEF Kinds
<1> QED
  BY <1>3, <1>4, <1>5, <1>6 DEF GraphInv

(* A deletion begins, fails or dies: nothing but its place changes. *)
LEMMA DropMoves ==
  ASSUME GraphInv, BeginDrop \/ DropFails \/ KillDrop
  PROVE  GraphInv'
<1>1. UNCHANGED <<mentioned, entities, resolving, unread, listed, plan, todo, stale, orphans,
                  outcome, moved>>
  BY DEF BeginDrop, DropFails, KillDrop, runVars
<1>2. unfinished \subseteq unfinished'
  BY DEF BeginDrop, DropFails, KillDrop
<1>3. \/ drop' = <<>>
      \/ resolving = "idle" /\ \E s \in unfinished' : drop' = <<s, "node">>
  BY DEF BeginDrop, DropFails, KillDrop
<1>a. KindsInv /\ PlanInv /\ WriteInv /\ MoveInv /\ SettledInv
  BY DEF GraphInv
<1>4. KindsInv'
  BY <1>1, <1>3, <1>a DEF KindsInv, Writing, Dropping, Kinds
<1>5. PlanInv' /\ SettledInv'
  BY <1>1, <1>2, <1>a, PlanStays, SettledStays
<1>6. WriteInv' /\ MoveInv'
  BY <1>1, <1>a DEF WriteInv, Store, MoveInv, Present
<1> QED
  BY <1>4, <1>5, <1>6 DEF GraphInv

LEMMA GraphStep == GraphInv /\ [GraphNext]_graphVars => GraphInv'
<1> SUFFICES ASSUME GraphInv, [GraphNext]_graphVars PROVE GraphInv'
  OBVIOUS
<1>a. KindsInv /\ PlanInv /\ WriteInv /\ MoveInv /\ SettledInv
  BY DEF GraphInv
<1>1. CASE SyncMentions
  <2>1. UNCHANGED <<entities, resolving, unread, listed, plan, todo, stale, orphans, outcome,
                    drop, unfinished>> /\ moved' = TRUE
    BY <1>1 DEF SyncMentions, runVars, dropVars
  <2>2. PlanInv' /\ SettledInv'
    BY <1>a, <2>1, PlanStays, SettledStays
  <2> QED
    BY <1>a, <2>1, <2>2 DEF GraphInv, KindsInv, Writing, Dropping, WriteInv, Store, MoveInv
<1>2. CASE BeginRun
  <2>1. /\ resolving = "idle" /\ ~Dropping /\ resolving' = "nodes"
        /\ unread' = {Type[m] : m \in Nodes} /\ plan' = Nothing /\ orphans' = {}
        /\ UNCHANGED <<mentioned, entities, listed, todo, stale, drop, unfinished>>
    BY <1>2 DEF BeginRun, Dropping, dropVars
  <2>2. ~listed /\ todo = {}
    BY <1>a, <2>1 DEF KindsInv, Writing, Kinds
  <2>3. plan'["node"] = {} /\ plan'["edge"] = {} /\ plan' = [k \in Kinds |-> plan'[k]]
    BY <2>1 DEF Nothing, Kinds
  <2>4. KindsInv'
    BY <1>a, <2>1, <2>2, <2>3 DEF KindsInv, Writing, Dropping
  <2>5. UNION Ids(plan'["node"]) = {} /\ Ids(plan'["node"]) = {}
    BY <2>3 DEF Ids
  <2>6. PlanInv'
    BY <2>3, <2>5 DEF PlanInv, Disjoint
  <2>7. WriteInv' /\ SettledInv'
    BY <2>1, <2>2 DEF WriteInv, SettledInv, Settled
  <2>8. MoveInv'
    BY <2>1, <2>5 DEF MoveInv, Present
  <2> QED
    BY <2>4, <2>6, <2>7, <2>8 DEF GraphInv
<1>3. CASE ResolveNodes \/ ResolveEdges
  <2>1. PlanInv' /\ MoveInv' /\ plan' = [k \in Kinds |-> plan'[k]]
    BY <1>3, NodesResolved, EdgesResolved
  <2>2. /\ resolving \in {"nodes", "edges"}
        /\ UNCHANGED <<mentioned, entities, resolving, listed, todo, stale, outcome, drop, unfinished>>
    BY <1>3 DEF ResolveNodes, ResolveEdges, dropVars
  <2>3. ~listed /\ todo = {}
    BY <1>a, <2>2 DEF KindsInv, Writing, Kinds
  <2>4. KindsInv'
    BY <1>a, <2>1, <2>2, <2>3 DEF KindsInv, Writing, Dropping
  <2>5. WriteInv' /\ SettledInv'
    BY <2>2, <2>3 DEF WriteInv, SettledInv, Settled
  <2> QED
    BY <2>1, <2>4, <2>5 DEF GraphInv
<1>4. CASE NodesRead \/ EdgesRead
  <2>1. /\ \/ resolving = "nodes" /\ unread = {} /\ resolving' = "edges"
           \/ resolving = "edges" /\ resolving' = "node"
        /\ UNCHANGED <<mentioned, entities, listed, plan, todo, stale, orphans, moved, drop,
                       unfinished>>
    BY <1>4 DEF NodesRead, EdgesRead, dropVars
  <2>2. ~listed /\ todo = {}
    BY <1>a, <2>1 DEF KindsInv, Writing, Kinds
  <2>3. KindsInv'
    BY <1>a, <2>1, <2>2 DEF KindsInv, Writing, Dropping
  <2>4. PlanInv'
    BY <1>a, <2>1, PlanStays
  <2>5. WriteInv' /\ SettledInv'
    BY <2>1, <2>2 DEF WriteInv, SettledInv, Settled
  <2>6. MoveInv'
    BY <1>a, <2>1 DEF MoveInv, Present
  <2> QED
    BY <2>3, <2>4, <2>5, <2>6 DEF GraphInv
<1>5. CASE ListEntities
  <2>1. /\ UNCHANGED <<mentioned, entities, resolving, unread, plan, orphans, outcome, moved, drop,
                       unfinished>>
        /\ Writing /\ listed' = TRUE /\ todo' = plan[resolving]
        /\ stale' = Ids(Store) \ Ids(plan[resolving])
    BY <1>5 DEF ListEntities, Stale, dropVars
  <2>2. KindsInv'
    BY <1>a, <2>1 DEF KindsInv, Writing, Dropping
  <2>3. PlanInv' /\ SettledInv'
    BY <1>a, <2>1, PlanStays, SettledStays
  <2>4. MoveInv'
    BY <1>a, <2>1 DEF MoveInv, Present
  <2>5. WriteInv'
    <3>1. Store' = Store
      BY <2>1 DEF Store
    <3>2. \A d \in Store : d.id \in stale' \/ d.id \in Ids(todo')
      BY <2>1 DEF Ids
    <3> QED
      BY <1>a, <2>1, <3>1, <3>2 DEF WriteInv
  <2> QED
    BY <2>2, <2>3, <2>4, <2>5 DEF GraphInv
<1>6. CASE ListingFails
  <2>1. /\ UNCHANGED <<mentioned, entities, unread, listed, plan, todo, stale, orphans, moved, drop,
                       unfinished>>
        /\ ~listed /\ resolving' = "idle" /\ outcome' = "failed"
    BY <1>6 DEF ListingFails, dropVars
  <2>2. PlanInv'
    BY <1>a, <2>1, PlanStays
  <2> QED
    BY <1>a, <2>1, <2>2
       DEF GraphInv, KindsInv, Writing, Dropping, WriteInv, MoveInv, SettledInv, Settled
<1>7. CASE UpsertEntity
  BY <1>7, UpsertStep
<1>8. CASE DeleteStaleEntity
  BY <1>8, DeleteStep
<1>9. CASE StoreWritten
  BY <1>9, WrittenStep
<1>10. CASE Kill
  <2>1. /\ UNCHANGED <<mentioned, plan, orphans, moved, drop, unfinished>>
        /\ listed' = FALSE /\ todo' = {} /\ resolving' = "idle" /\ outcome' = "killed"
    BY <1>10 DEF Kill, dropVars
  <2>2. entities' = [k \in Kinds |-> entities'[k]]
    <3>1. CASE entities' = entities
      BY <1>a, <3>1 DEF KindsInv
    <3>2. CASE entities' # entities
      <4>1. PICK es : entities' = [entities EXCEPT ![resolving] = es]
        BY <1>10, <3>2 DEF Kill
      <4> QED
        BY <1>a, <4>1 DEF KindsInv
    <3> QED
      BY <3>1, <3>2
  <2>3. PlanInv'
    BY <1>a, <2>1, PlanStays
  <2> QED
    BY <1>a, <2>1, <2>2, <2>3
       DEF GraphInv, KindsInv, Writing, Dropping, WriteInv, MoveInv, SettledInv, Settled
<1>11. CASE DropEntities
  BY <1>11, DropEntitiesStep
<1>12. CASE StoreDropped
  BY <1>12, StoreDroppedStep
<1>13. CASE BeginDrop \/ DropFails \/ KillDrop
  BY <1>13, DropMoves
<1>14. CASE UNCHANGED graphVars
  <2>1. UNCHANGED <<mentioned, entities, resolving, unread, listed, plan, todo, stale, orphans,
                    outcome, moved, drop, unfinished>>
    BY <1>14 DEF graphVars, runVars, dropVars
  <2>2. PlanInv' /\ SettledInv'
    BY <1>a, <2>1, PlanStays, SettledStays
  <2> QED
    BY <1>a, <2>1, <2>2
       DEF GraphInv, KindsInv, Writing, Dropping, WriteInv, Store, MoveInv, Present
<1> QED
  BY <1>1, <1>2, <1>3, <1>4, <1>5, <1>6, <1>7, <1>8, <1>9, <1>10, <1>11, <1>12, <1>13, <1>14
     DEF GraphNext, ResolveStep, DropStep

-----------------------------------------------------------------------------

LEMMA ConsistentFromInv == GraphInv => GraphIsConsistent
<1> SUFFICES ASSUME GraphInv PROVE GraphIsConsistent
  OBVIOUS
<1>1. OneEntityPerMention
  BY DEF GraphInv, SettledInv, OneEntityPerMention, Disjoint
<1>2. OrphansMeanMovement
  BY DEF GraphInv, MoveInv, OrphansMeanMovement
<1>3. GraphIsClosed
  <2>1. ASSUME NEW d \in entities["edge"], EdgeKept(d)
        PROVE  /\ \A m \in d.id : \A k \in {1, 2} : Ends[m][k] \in d.ends[k]
               /\ Stored(d) \/ \E s \in unfinished : SoleSource(s, d)
    <3>1. PICK e \in Edges :
            /\ d.id = {e}
            /\ \A k \in {1, 2} :
                 /\ Ends[e][k] \in d.ends[k]
                 /\ d.ends[k] \in Ids(entities["node"]) \/ Source[e] \in unfinished
      BY <2>1 DEF EdgeKept
    <3>2. {Source[m] : m \in d.id} = {Source[e]}
      BY <3>1
    <3> QED
      BY <3>1, <3>2 DEF Stored, SoleSource
  <2> QED
    BY <2>1 DEF GraphInv, SettledInv, GraphIsClosed
<1> QED
  BY <1>1, <1>2, <1>3 DEF GraphIsConsistent

(* Whatever runs were killed, whatever sources were synced, and whatever    *)
(* deletions of sources ended, failed or died between two files or between  *)
(* the nodes and the edges: after a run that completed every edge holds its *)
(* mentions and ends in stored entities, but for those from the source of   *)
(* an unfinished deletion alone; no mention is in two entities; and an edge *)
(* is an orphan only if the mentions moved between the run's listings.      *)
THEOREM GraphStaysConsistent == GraphSpec => []GraphIsConsistent
  BY GraphInitially, GraphStep, ConsistentFromInv, PTL DEF GraphSpec

LEMMA CoverStep ==
  ASSUME GraphInv, [GraphNext]_graphVars, Writing, \A e \in entities'["node"] : e.readable
  PROVE  (UNION Ids(entities["node"])) \cap (UNION Ids(plan["node"]))
           \subseteq UNION Ids(entities'["node"])
<1>1. CASE entities' = entities
  BY <1>1
<1>2. CASE UpsertEntity
  BY <1>2, UpsertStep
<1>3. CASE DeleteStaleEntity
  BY <1>3, DeleteStep
<1>4. CASE Kill /\ entities' # entities
  <2>1. PICK e \in todo :
          entities' = [entities EXCEPT ![resolving] = Replaced([e EXCEPT !.readable = FALSE])]
    BY <1>4 DEF Kill
  <2>2. CASE resolving = "node"
    <3>1. e \in plan["node"]
      BY <2>2 DEF GraphInv, KindsInv, WriteInv
    <3>2. e = Entity(e.id, e.ends)
      BY <3>1, PlanFacts DEF GraphInv, Kinds
    <3>3. "readable" \in DOMAIN e
      BY <3>2 DEF Entity
    <3>4. [e EXCEPT !.readable = FALSE].readable = FALSE
      BY <3>3
    <3>5. [e EXCEPT !.readable = FALSE] \in entities'["node"]
      BY <2>1, <2>2 DEF GraphInv, KindsInv, Kinds, Replaced
    <3> QED
      BY <3>4, <3>5
  <2>3. CASE resolving # "node"
    BY <2>1, <2>3 DEF GraphInv, KindsInv
  <2> QED
    BY <2>2, <2>3
<1>5. SyncMentions \/ ListEntities \/ ListingFails \/ StoreWritten \/ StoreDropped \/ DropFails
        \/ BeginDrop \/ KillDrop \/ UNCHANGED graphVars => entities' = entities
  BY DEF SyncMentions, ListEntities, ListingFails, StoreWritten, StoreDropped, DropFails,
     BeginDrop, KillDrop, graphVars
<1>6. ~BeginRun /\ ~ResolveNodes /\ ~NodesRead /\ ~ResolveEdges /\ ~EdgesRead /\ ~DropEntities
  BY DEF BeginRun, ResolveNodes, NodesRead, ResolveEdges, EdgesRead, DropEntities, GraphInv,
     KindsInv, Writing, Kinds
<1> QED
  BY <1>1, <1>2, <1>3, <1>4, <1>5, <1>6 DEF GraphNext, ResolveStep, DropStep

(* A run takes no mention that it resolved away from the node store: a      *)
(* stale entity goes only once everything that replaces it is there, and a  *)
(* write that is killed loses mentions only by leaving a torn file.         *)
THEOREM ResolvedStayCovered == GraphSpec => MentionsStayCovered
<1>1. GraphInv /\ [GraphNext]_graphVars =>
        [Writing /\ (\A e \in entities'["node"] : e.readable) =>
           (UNION Ids(entities["node"])) \cap (UNION Ids(plan["node"]))
             \subseteq UNION Ids(entities'["node"])]_graphVars
  BY CoverStep
<1> QED
  BY GraphInitially, GraphStep, <1>1, PTL DEF GraphSpec, MentionsStayCovered

-----------------------------------------------------------------------------
(* Halving a text *)

LEMMA CharactersIn ==
  ASSUME NEW t \in Seq(Nat)
  PROVE  Characters(t) \in Seq(Nat)
BY AmongIn DEF Characters

LEMMA CharactersNone == Characters(<<>>) = <<>>
BY AmongNothing DEF Characters

LEMMA CharactersJoin ==
  ASSUME NEW a \in Seq(Nat), NEW b \in Seq(Nat)
  PROVE  Characters(a \o b) = Characters(a) \o Characters(b)
BY AmongJoined DEF Characters

LEMMA CharactersOfBlank ==
  ASSUME NEW t \in Seq(Nat), \A n \in 1 .. Len(t) : t[n] = 0
  PROVE  Characters(t) = <<>>
BY NoneAmong DEF Characters

(* Blanks around a text are no characters. *)
LEMMA Stripped ==
  ASSUME NEW t \in Seq(Nat)
  PROVE  /\ LStrip(t) \in Seq(Nat) /\ Characters(LStrip(t)) = Characters(t)
         /\ RStrip(t) \in Seq(Nat) /\ Characters(RStrip(t)) = Characters(t)
<1> DEFINE L == Len(t)
<1>1. L \in Nat /\ DOMAIN t = 1 .. L
  OBVIOUS
<1>2. CASE Blank(t)
  <2>1. Characters(t) = <<>>
    <3>1. \A n \in 1 .. Len(t) : t[n] = 0
      BY <1>1, <1>2 DEF Blank
    <3> QED
      BY <3>1, CharactersOfBlank
  <2>2. LStrip(t) = <<>> /\ RStrip(t) = <<>> /\ <<>> \in Seq(Nat)
    BY <1>2 DEF LStrip, RStrip
  <2> QED
    BY <2>1, <2>2, CharactersNone
<1>3. CASE ~Blank(t)
  <2>1. Inked(t) \subseteq 0 .. L /\ Inked(t) # {}
    BY <1>1, <1>3 DEF Inked, Blank
  <2> DEFINE lo == Min(Inked(t))
      hi == Max(Inked(t))
  <2>2. /\ lo \in Inked(t) /\ \A y \in Inked(t) : lo <= y
        /\ hi \in Inked(t) /\ \A y \in Inked(t) : hi >= y
    <3> HIDE DEF L
    <3> QED
      BY <1>1, <2>1, Extremes
  <2>3. LStrip(t) = SubSeq(t, lo, L) /\ RStrip(t) = SubSeq(t, 1, hi)
    BY <1>3 DEF LStrip, RStrip
  <2> HIDE DEF lo, hi
  <2>4. lo \in 1 .. L /\ hi \in 1 .. L
    BY <1>1, <2>2 DEF Inked
  <2>5. ASSUME NEW n \in 1 .. L, n < lo \/ n > hi PROVE t[n] = 0
    BY <1>1, <2>2, <2>4, <2>5 DEF Inked
  <2> DEFINE k == lo - 1
  <2>6. k \in 0 .. L /\ hi \in 0 .. L /\ k + 1 = lo
    BY <1>1, <2>4
  <2> HIDE DEF k
  <2> DEFINE a == SubSeq(t, 1, k)
      b == SubSeq(t, k + 1, L)
      c == SubSeq(t, 1, hi)
      d == SubSeq(t, hi + 1, L)
  <2>7. a \in Seq(Nat) /\ Len(a) = k /\ b \in Seq(Nat) /\ a \o b = t
    BY <2>6, Cuts
  <2>8. c \in Seq(Nat) /\ Len(c) = hi /\ d \in Seq(Nat) /\ Len(d) = L - hi /\ c \o d = t
    BY <2>6, Cuts
  <2>9. Characters(a) = <<>>
    <3>1. ASSUME NEW n \in 1 .. k PROVE a[n] = 0
      <4>1. a[n] = t[n]
        BY <2>6, Prefix
      <4>2. n \in 1 .. L /\ n < lo
        BY <1>1, <2>4, <2>6
      <4> QED
        BY <2>5, <4>1, <4>2
    <3>2. \A n \in 1 .. Len(a) : a[n] = 0
      BY <2>7, <3>1
    <3> HIDE DEF a
    <3> QED
      BY <2>7, <3>2, CharactersOfBlank
  <2>10. Characters(d) = <<>>
    <3> HIDE DEF c, d
    <3>1. ASSUME NEW n \in 1 .. Len(d) PROVE d[n] = 0
      <4>1. hi + n \in 1 .. L /\ hi + n > hi /\ hi + n \notin 1 .. hi /\ (hi + n) - hi = n
        BY <1>1, <2>4, <2>8
      <4>2. t[hi + n] = d[(hi + n) - hi]
        <5>1. hi + n \in 1 .. Len(c \o d) /\ hi + n \notin 1 .. Len(c)
          BY <2>8, <4>1
        <5>2. (c \o d)[hi + n] = d[(hi + n) - Len(c)]
          <6> DEFINE m == hi + n
          <6>1. m \in 1 .. Len(c \o d) /\ m \notin 1 .. Len(c)
            BY <5>1
          <6>2. c \in Seq(Nat) /\ d \in Seq(Nat)
            BY <2>8
          <6> HIDE DEF m, c, d
          <6>3. (c \o d)[m] = d[m - Len(c)]
            BY <6>1, <6>2, Concatenated
          <6> QED
            BY <6>3 DEF m
        <5>3. t = c \o d /\ Len(c) = hi
          BY <2>8
        <5> HIDE DEF c, d, hi
        <5> QED
          BY <5>2, <5>3
      <4>3. t[hi + n] = d[n]
        BY <4>1, <4>2, Zenon
      <4>4. t[hi + n] = 0
        BY <2>5, <4>1
      <4> QED
        BY <4>3, <4>4
    <3> QED
      BY <2>8, <3>1, CharactersOfBlank
  <2>11. Characters(t) = Characters(b) /\ Characters(t) = Characters(c)
    <3> HIDE DEF a, b, c, d
    <3>1. Characters(t) = Characters(a) \o Characters(b) /\ Characters(t) = Characters(c) \o Characters(d)
      BY <2>7, <2>8, CharactersJoin
    <3>2. Characters(b) \in Seq(Nat) /\ Characters(c) \in Seq(Nat)
      BY <2>7, <2>8, CharactersIn
    <3> QED
      BY <2>9, <2>10, <3>1, <3>2
  <2> QED
    BY <2>3, <2>6, <2>7, <2>8, <2>11, Zenon
<1> QED
  BY <1>2, <1>3

LEMMA BoundaryInside ==
  ASSUME NEW t \in Seq(Nat), NEW n \in {1, 2}
  PROVE  Boundaries(t, n) \subseteq 0 .. Len(t)
<1> DEFINE L == Len(t)
    middle == L \div 2
    before == {i \in Newlines(t, n) : i + n <= middle}
    after  == {i \in Newlines(t, n) : i >= middle}
<1>1. L \in Nat
  OBVIOUS
<1>2. before \subseteq 0 .. L /\ after \subseteq 0 .. L
  BY <1>1 DEF Newlines
<1>3. (before # {} => Max(before) \in 0 .. L) /\ (after # {} => Min(after) \in 0 .. L)
  <2> HIDE DEF before, after, L
  <2> QED
    BY <1>1, <1>2, Extremes
<1>4. \/ Boundaries(t, n) = {}
      \/ after # {} /\ Boundaries(t, n) = {Min(after)}
      \/ before # {} /\ Boundaries(t, n) = {Max(before)}
  BY Zenon DEF Boundaries
<1> HIDE DEF before, after
<1> QED
  BY <1>3, <1>4

(* Both halves together have all the characters. *)
LEMMA HalvesHaveAll ==
  ASSUME NEW t \in Seq(Nat)
  PROVE  /\ HalveText(t)[1] \in Seq(Nat) /\ HalveText(t)[2] \in Seq(Nat)
         /\ Characters(HalveText(t)[1]) \o Characters(HalveText(t)[2]) = Characters(t)
<1> DEFINE L == Len(t)
    b == IF Boundaries(t, 2) # {} THEN Boundaries(t, 2) ELSE Boundaries(t, 1)
<1>1. L \in Nat
  OBVIOUS
<1>2. b \subseteq 0 .. L
  BY BoundaryInside
<1>3. ASSUME NEW i \in 0 .. L
      PROVE  /\ CutAt(t, i)[1] \in Seq(Nat) /\ CutAt(t, i)[2] \in Seq(Nat)
             /\ Characters(CutAt(t, i)[1]) \o Characters(CutAt(t, i)[2]) = Characters(t)
  <2> DEFINE x == SubSeq(t, 1, i)
      y == SubSeq(t, i + 1, Len(t))
  <2>1. x \in Seq(Nat) /\ y \in Seq(Nat) /\ x \o y = t
    BY Cuts
  <2>2. CutAt(t, i)[1] = x /\ CutAt(t, i)[2] = y
    BY DEF CutAt
  <2> HIDE DEF x, y
  <2> QED
    BY <2>1, <2>2, CharactersJoin
<1>4. CASE b = {}
  <2>1. HalveText(t) = CutAt(t, Len(t) \div 2)
    BY <1>4, Zenon DEF HalveText
  <2>2. Len(t) \div 2 \in 0 .. L
    BY <1>1
  <2> QED
    BY <1>3, <2>1, <2>2
<1>5. CASE b # {}
  <2> DEFINE cut == CutAt(t, Min(b))
  <2>1. HalveText(t) = <<RStrip(cut[1]), LStrip(cut[2])>>
    BY <1>5, Zenon DEF HalveText
  <2>2. Min(b) \in 0 .. L
    <3> HIDE DEF b, L
    <3> QED
      BY <1>1, <1>2, <1>5, Extremes
  <2>3. /\ cut[1] \in Seq(Nat) /\ cut[2] \in Seq(Nat)
        /\ Characters(cut[1]) \o Characters(cut[2]) = Characters(t)
    BY <1>3, <2>2
  <2> HIDE DEF cut
  <2>4. /\ RStrip(cut[1]) \in Seq(Nat) /\ Characters(RStrip(cut[1])) = Characters(cut[1])
        /\ LStrip(cut[2]) \in Seq(Nat) /\ Characters(LStrip(cut[2])) = Characters(cut[2])
    BY <2>3, Stripped
  <2>5. HalveText(t)[1] = RStrip(cut[1]) /\ HalveText(t)[2] = LStrip(cut[2])
    BY <2>1
  <2> QED
    BY <2>3, <2>4, <2>5, Zenon
<1> QED
  BY <1>4, <1>5

-----------------------------------------------------------------------------
(* The tree of calls *)

Paths == {p \in Seq({1, 2}) : Len(p) <= MaxHalvings}

CallSet ==
  {c \in [text : Seq(Nat), attempt : 1 .. MaxAttempts,
          state : {"calling", "sleeping", "halved", "answered", "raised"},
          failure : Failures \cup {"none"}] :
     c.state = "sleeping" => c.attempt < MaxAttempts}

(* Halves come in pairs, and nothing but halves comes. *)
TreeInv ==
  /\ calls \in [DOMAIN calls -> CallSet]
  /\ DOMAIN calls \subseteq Paths /\ <<>> \in DOMAIN calls
  /\ \A p \in DOMAIN calls :
       /\ p = <<>> \/ \E r \in DOMAIN calls, k \in {1, 2} : p = Append(r, k)
       /\ Append(p, 1) \in DOMAIN calls <=> Append(p, 2) \in DOMAIN calls

(* A call and its halves: failing is the one whose failure is raised. *)
FitsHalves(c, one, two) ==
  /\ c.state \in {"halved", "answered", "raised"}
  /\ Characters(one.text) \o Characters(two.text) = Characters(c.text)
  /\ c.state = "answered" => one.state = "answered" /\ two.state = "answered"
  /\ c.state = "raised" =>
       /\ CallOver(one) /\ CallOver(two)
       /\ LET failing == IF one.state = "raised" THEN one ELSE two
          IN  failing.state = "raised" /\ c.failure = failing.failure

HalvesInv ==
  \A p \in DOMAIN calls :
    /\ calls[p].state = "halved" => HasHalves(p)
    /\ HasHalves(p) => FitsHalves(calls[p], Half(p, 1), Half(p, 2))

CallsInv == TreeInv /\ HalvesInv

LEMMA HalfPaths ==
  ASSUME NEW p \in Paths, NEW r \in Paths, NEW j \in {1, 2}, NEW k \in {1, 2}
  PROVE  /\ Append(p, k) \in Seq({1, 2}) /\ Len(Append(p, k)) = Len(p) + 1 /\ Len(p) \in 0 .. MaxHalvings
         /\ Append(p, k) # p /\ Append(p, k) # <<>>
         /\ Append(p, k) = Append(r, j) => p = r /\ k = j
<1>1. p \in Seq({1, 2}) /\ r \in Seq({1, 2}) /\ Len(p) <= MaxHalvings
  BY DEF Paths
<1>2. Append(p, k) \in Seq({1, 2}) /\ Len(Append(p, k)) = Len(p) + 1 /\ Len(p) \in Nat
  BY <1>1
<1>3. Append(p, k) # p /\ Append(p, k) # <<>>
  BY <1>1, <1>2
<1>4. Append(p, k) = Append(r, j) => p = r /\ k = j
  BY <1>1
<1> QED
  BY <1>1, <1>2, <1>3, <1>4, HalvingConstants

LEMMA NewCallIn ==
  ASSUME NEW t \in Seq(Nat)
  PROVE  NewCall(t) \in CallSet
BY HalvingConstants DEF NewCall, CallSet

LEMMA CallsStart == CallsInit => CallsInv
<1> SUFFICES ASSUME NEW t \in HalvableTexts, calls = [p \in {<<>>} |-> NewCall(t)] PROVE CallsInv
  BY DEF CallsInit
<1>1. NewCall(t) \in CallSet /\ NewCall(t).state = "calling"
  BY NewCallIn, HalvingConstants DEF NewCall
<1>2. <<>> \in Paths /\ DOMAIN calls = {<<>>} /\ calls[<<>>] = NewCall(t)
  BY HalvingConstants DEF Paths
<1>3. Append(<<>>, 1) # <<>> /\ Append(<<>>, 2) # <<>>
  BY <1>2, HalfPaths
<1>4. TreeInv
  BY <1>1, <1>2, <1>3 DEF TreeInv
<1>5. HalvesInv
  BY <1>1, <1>2, <1>3 DEF HalvesInv, HasHalves
<1> QED
  BY <1>4, <1>5 DEF CallsInv

(* A call that is not over becomes c: its halves, if it has some, are the   *)
(* same, and it is not yet a half of a call that is over.                   *)
LEMMA CallBecomes ==
  ASSUME CallsInv, NEW p \in DOMAIN calls, ~CallOver(calls[p]),
         NEW c \in CallSet, c.text = calls[p].text,
         calls' = [calls EXCEPT ![p] = c],
         c.state = "halved" => HasHalves(p),
         HasHalves(p) => FitsHalves(c, Half(p, 1), Half(p, 2))
  PROVE  CallsInv'
<1> DEFINE D == DOMAIN calls
<1>1. /\ calls \in [D -> CallSet] /\ D \subseteq Paths /\ <<>> \in D
      /\ \A q \in D :
           /\ q = <<>> \/ \E r \in D, k \in {1, 2} : q = Append(r, k)
           /\ Append(q, 1) \in D <=> Append(q, 2) \in D
  BY DEF CallsInv, TreeInv
<1>2. /\ DOMAIN calls' = D
      /\ \A q \in D : calls'[q] = IF q = p THEN c ELSE calls[q]
  OBVIOUS
<1>3. calls' \in [D -> CallSet]
  BY <1>1
<1> HIDE DEF D
<1>4. TreeInv'
  BY <1>1, <1>2, <1>3, Zenon DEF TreeInv
<1>9. ASSUME NEW q \in D, HasHalves(q) PROVE Append(q, 1) \in D /\ Append(q, 2) \in D
  <2>1. Append(q, 1) \in D
    BY <1>9, Zenon DEF HasHalves, D
  <2> QED
    BY <1>1, <2>1, Zenon
<1>5. p \in D
  BY DEF D
<1>6. ASSUME NEW q \in D
      PROVE  /\ calls[q].state = "halved" => HasHalves(q)
             /\ HasHalves(q) => FitsHalves(calls[q], Half(q, 1), Half(q, 2))
  BY <1>6 DEF CallsInv, HalvesInv, D
<1>7. ASSUME NEW q \in D
      PROVE  /\ calls'[q].state = "halved" => HasHalves(q)'
             /\ HasHalves(q)' => FitsHalves(calls'[q], Half(q, 1)', Half(q, 2)')
  <2>1. HasHalves(q)' <=> HasHalves(q)
    BY <1>2 DEF HasHalves, D
  <2>2. CASE q = p
    <3>1. calls'[q] = c
      BY <1>2, <1>5, <2>2
    <3>2. HasHalves(q) => Half(q, 1)' = Half(q, 1) /\ Half(q, 2)' = Half(q, 2)
      <4> SUFFICES ASSUME HasHalves(q) PROVE Half(q, 1)' = Half(q, 1) /\ Half(q, 2)' = Half(q, 2)
        OBVIOUS
      <4>1. Append(q, 1) \in D /\ Append(q, 2) \in D
        BY <1>9
      <4>2. Append(q, 1) # p /\ Append(q, 2) # p
        BY <1>1, <1>5, <2>2, HalfPaths
      <4> QED
        BY <1>2, <4>1, <4>2 DEF Half
    <3>3. /\ c.state = "halved" => HasHalves(q)
          /\ HasHalves(q) => FitsHalves(c, Half(q, 1), Half(q, 2))
      BY <2>2
    <3> QED
      BY <2>1, <3>1, <3>2, <3>3, Zenon
  <2>3. CASE q # p /\ HasHalves(q) /\ (p = Append(q, 1) \/ p = Append(q, 2))
    <3>1. calls'[q] = calls[q]
      BY <1>2, <2>3
    <3>2. FitsHalves(calls[q], Half(q, 1), Half(q, 2))
      BY <1>6, <2>3
    <3>3. calls[q].state = "halved"
      <4>1. Half(q, 1) = calls[p] \/ Half(q, 2) = calls[p]
        BY <2>3 DEF Half
      <4> QED
        BY <3>2, <4>1 DEF FitsHalves, CallOver
    <3>4. Append(q, 1) \in D /\ Append(q, 2) \in D
      BY <1>9, <2>3
    <3>5. Half(q, 1)'.text = Half(q, 1).text /\ Half(q, 2)'.text = Half(q, 2).text
      BY <1>2, <3>4 DEF Half
    <3>6. FitsHalves(calls[q], Half(q, 1)', Half(q, 2)')
      BY <3>2, <3>3, <3>5 DEF FitsHalves
    <3> QED
      BY <2>1, <2>3, <3>1, <3>6, Zenon
  <2>4. CASE q # p /\ ~(HasHalves(q) /\ (p = Append(q, 1) \/ p = Append(q, 2)))
    <3>1. calls'[q] = calls[q]
      BY <1>2, <2>4
    <3>2. HasHalves(q) => Half(q, 1)' = Half(q, 1) /\ Half(q, 2)' = Half(q, 2)
      <4> SUFFICES ASSUME HasHalves(q) PROVE Half(q, 1)' = Half(q, 1) /\ Half(q, 2)' = Half(q, 2)
        OBVIOUS
      <4>1. Append(q, 1) \in D /\ Append(q, 2) \in D
        BY <1>9
      <4> QED
        BY <1>2, <2>4, <4>1 DEF Half
    <3> QED
      BY <1>6, <2>1, <3>1, <3>2, Zenon
  <2> QED
    BY <2>2, <2>3, <2>4
<1>8. HalvesInv'
  BY <1>2, <1>7 DEF HalvesInv
<1> QED
  BY <1>4, <1>8 DEF CallsInv

LEMMA CallFacts ==
  ASSUME CallsInv, NEW p \in DOMAIN calls
  PROVE  /\ calls[p] \in CallSet /\ p \in Paths
         /\ calls[p].state \in {"calling", "sleeping"} => ~HasHalves(p)
         /\ calls[p].state = "halved" => HasHalves(p)
         /\ HasHalves(p) => /\ FitsHalves(calls[p], Half(p, 1), Half(p, 2))
                            /\ Half(p, 1) \in CallSet /\ Half(p, 2) \in CallSet
<1>1. calls[p] \in CallSet /\ p \in Paths
  BY DEF CallsInv, TreeInv
<1>2. /\ calls[p].state = "halved" => HasHalves(p)
      /\ HasHalves(p) => FitsHalves(calls[p], Half(p, 1), Half(p, 2))
  BY DEF CallsInv, HalvesInv
<1>3. calls[p].state \in {"calling", "sleeping"} => ~HasHalves(p)
  BY <1>2 DEF FitsHalves
<1>4. ASSUME HasHalves(p) PROVE Half(p, 1) \in CallSet /\ Half(p, 2) \in CallSet
  <2>1. Append(p, 1) \in DOMAIN calls /\ Append(p, 2) \in DOMAIN calls
    BY <1>4, Zenon DEF CallsInv, TreeInv, HasHalves
  <2> QED
    BY <2>1 DEF CallsInv, TreeInv, Half
<1> QED
  BY <1>1, <1>2, <1>3, <1>4

LEMMA AnswerStep ==
  ASSUME CallsInv, NEW p \in DOMAIN calls, Answer(p) \/ BackOff(p) \/ WakeUp(p) \/ GiveUp(p)
  PROVE  CallsInv'
<1>1. calls[p] \in CallSet /\ ~HasHalves(p) /\ ~CallOver(calls[p])
  BY CallFacts DEF Answer, BackOff, WakeUp, GiveUp, CallOver
<1>2. PICK c : /\ c \in CallSet /\ c.text = calls[p].text /\ c.state # "halved"
               /\ calls' = [calls EXCEPT ![p] = c]
  <2>1. CASE Answer(p)
    <3> DEFINE c == [calls[p] EXCEPT !.state = "answered"]
    <3>1. c \in CallSet /\ c.text = calls[p].text /\ c.state # "halved"
      BY <1>1 DEF CallSet
    <3>2. calls' = [calls EXCEPT ![p] = c]
      BY <2>1 DEF Answer
    <3> QED
      BY <3>1, <3>2
  <2>2. CASE BackOff(p)
    <3> DEFINE c == [calls[p] EXCEPT !.state = "sleeping"]
    <3>1. c \in CallSet /\ c.text = calls[p].text /\ c.state # "halved"
      BY <1>1, <2>2 DEF CallSet, BackOff, MayRetry
    <3>2. calls' = [calls EXCEPT ![p] = c]
      BY <2>2 DEF BackOff
    <3> QED
      BY <3>1, <3>2
  <2>3. CASE WakeUp(p)
    <3> DEFINE c == [calls[p] EXCEPT !.state = "calling", !.attempt = @ + 1]
    <3>1. c \in CallSet /\ c.text = calls[p].text /\ c.state # "halved"
      BY <1>1, <2>3, HalvingConstants DEF CallSet, WakeUp
    <3>2. calls' = [calls EXCEPT ![p] = c]
      BY <1>1, <2>3 DEF WakeUp, CallSet
    <3> QED
      BY <3>1, <3>2
  <2>4. CASE GiveUp(p)
    <3>1. PICK f \in FinalFailures(calls[p]) :
            calls' = [calls EXCEPT ![p].state = "raised", ![p].failure = f]
      BY <2>4 DEF GiveUp
    <3> DEFINE c == [calls[p] EXCEPT !.state = "raised", !.failure = f]
    <3>2. c \in CallSet /\ c.text = calls[p].text /\ c.state # "halved"
      BY <1>1 DEF CallSet, FinalFailures
    <3>3. calls' = [calls EXCEPT ![p] = c]
      BY <1>1, <3>1 DEF CallSet
    <3> QED
      BY <3>2, <3>3
  <2> QED
    BY <2>1, <2>2, <2>3, <2>4
<1> QED
  BY <1>1, <1>2, CallBecomes

LEMMA JoinStep ==
  ASSUME CallsInv, NEW p \in DOMAIN calls, Join(p)
  PROVE  CallsInv'
<1> DEFINE one == Half(p, 1)
    two == Half(p, 2)
<1>1. /\ calls[p] \in CallSet /\ HasHalves(p) /\ ~CallOver(calls[p])
      /\ FitsHalves(calls[p], one, two) /\ one \in CallSet /\ two \in CallSet
  BY CallFacts DEF Join, CallOver
<1>2. CallOver(one) /\ CallOver(two)
  BY DEF Join, HalvesOver
<1>3. PICK c : /\ c \in CallSet /\ c.text = calls[p].text /\ c.state # "halved"
               /\ FitsHalves(c, one, two) /\ calls' = [calls EXCEPT ![p] = c]
  <2>1. CASE /\ \A k \in {1, 2} : Half(p, k).state = "answered"
             /\ calls' = [calls EXCEPT ![p].state = "answered"]
    <3> DEFINE c == [calls[p] EXCEPT !.state = "answered"]
    <3>1. c \in CallSet /\ c.text = calls[p].text /\ c.state = "answered"
      BY <1>1 DEF CallSet
    <3>2. calls' = [calls EXCEPT ![p] = c]
      BY <2>1
    <3>3. one.state = "answered" /\ two.state = "answered"
      BY <2>1
    <3> HIDE DEF c, one, two
    <3> QED
      BY <1>1, <3>1, <3>2, <3>3 DEF FitsHalves
  <2>2. CASE /\ \E k \in {1, 2} : Half(p, k).state = "raised"
             /\ calls' = [calls EXCEPT ![p].state = "raised",
                                       ![p].failure = Half(p, FailingHalf(p)).failure]
    <3> DEFINE f == Half(p, FailingHalf(p)).failure
        c == [calls[p] EXCEPT !.state = "raised", !.failure = f]
        failing == IF one.state = "raised" THEN one ELSE two
    <3>1. Half(p, FailingHalf(p)) = failing
      BY DEF FailingHalf
    <3>2. failing.state = "raised" /\ failing \in CallSet
      BY <1>1, <2>2
    <3>3. f \in Failures \cup {"none"} /\ f = failing.failure
      <4> HIDE DEF failing
      <4> QED
        BY <3>1, <3>2 DEF CallSet
    <3>4. calls' = [calls EXCEPT ![p] = c]
      BY <1>1, <2>2 DEF CallSet
    <3> HIDE DEF f
    <3>5. c \in CallSet /\ c.text = calls[p].text /\ c.state = "raised" /\ c.failure = f
      BY <1>1, <3>3 DEF CallSet
    <3> HIDE DEF c, one, two
    <3>6. FitsHalves(c, one, two)
      BY <1>1, <1>2, <3>2, <3>3, <3>5 DEF FitsHalves
    <3> QED
      BY <3>4, <3>5, <3>6
  <2> QED
    BY <2>1, <2>2 DEF Join
<1> QED
  BY <1>1, <1>3, CallBecomes

LEMMA HalveStep ==
  ASSUME CallsInv, NEW p \in DOMAIN calls, Halve(p)
  PROVE  CallsInv'
<1> DEFINE D == DOMAIN calls
    halves == HalveText(calls[p].text)
    E == D \cup {Append(p, 1), Append(p, 2)}
    c == [calls[p] EXCEPT !.state = "halved"]
<1>1. /\ calls \in [D -> CallSet] /\ D \subseteq Paths /\ <<>> \in D /\ p \in D
      /\ \A q \in D :
           /\ q = <<>> \/ \E r \in D, k \in {1, 2} : q = Append(r, k)
           /\ Append(q, 1) \in D <=> Append(q, 2) \in D
  BY DEF CallsInv, TreeInv
<1>2. /\ calls[p].state = "calling" /\ Len(p) < MaxHalvings
      /\ calls' = [q \in E |-> IF q = p THEN c
                                ELSE IF q \in D THEN calls[q]
                                ELSE NewCall(halves[Last(q)])]
  <2>1. E = D \cup {Append(p, k) : k \in {1, 2}}
    OBVIOUS
  <2>2. /\ calls[p].state = "calling" /\ Len(p) < MaxHalvings
        /\ calls' = [q \in D \cup {Append(p, k) : k \in {1, 2}} |->
                       IF q = p THEN c ELSE IF q \in D THEN calls[q] ELSE NewCall(halves[Last(q)])]
    BY Zenon DEF Halve, Halvable
  <2> HIDE DEF E
  <2> QED
    BY <2>1, <2>2
<1>3. calls[p] \in CallSet /\ ~HasHalves(p) /\ p \in Paths
  BY <1>2, CallFacts
<1>4. /\ halves[1] \in Seq(Nat) /\ halves[2] \in Seq(Nat)
      /\ Characters(halves[1]) \o Characters(halves[2]) = Characters(calls[p].text)
  BY <1>3, HalvesHaveAll DEF CallSet
<1>5. c \in CallSet /\ c.text = calls[p].text /\ c.state = "halved"
  BY <1>3 DEF CallSet
<1> HIDE DEF D, E, halves, c
<1>6. Append(p, 1) \notin D /\ Append(p, 2) \notin D
  BY <1>1, <1>3, Zenon DEF HasHalves, D
<1>7. \A k \in {1, 2} : /\ Append(p, k) \in Paths /\ Append(p, k) # p /\ Append(p, k) # <<>>
                        /\ Last(Append(p, k)) = k
  <2> SUFFICES ASSUME NEW k \in {1, 2}
               PROVE  /\ Append(p, k) \in Paths /\ Append(p, k) # p /\ Append(p, k) # <<>>
                      /\ Last(Append(p, k)) = k
    OBVIOUS
  <2>1. /\ Append(p, k) \in Seq({1, 2}) /\ Len(Append(p, k)) = Len(p) + 1 /\ Len(p) \in Nat
        /\ Append(p, k) # p /\ Append(p, k) # <<>>
    BY <1>3, HalfPaths
  <2>2. Append(p, k) \in Paths
    BY <1>2, <2>1, HalvingConstants DEF Paths
  <2>3. Last(Append(p, k)) = k
    BY <1>3 DEF Last, Paths
  <2> QED
    BY <2>1, <2>2, <2>3
<1>8. /\ DOMAIN calls' = E /\ D \subseteq E /\ p \in E
      /\ Append(p, 1) \in E /\ Append(p, 2) \in E
      /\ calls'[p] = c
      /\ \A q \in D : q # p => calls'[q] = calls[q]
      /\ calls'[Append(p, 1)] = NewCall(halves[1]) /\ calls'[Append(p, 2)] = NewCall(halves[2])
  <2>1. D \subseteq E /\ Append(p, 1) \in E /\ Append(p, 2) \in E
    BY DEF E
  <2>2. DOMAIN calls' = E /\ \A q \in E : calls'[q] = IF q = p THEN c ELSE IF q \in D THEN calls[q] ELSE NewCall(halves[Last(q)])
    BY <1>2
  <2> QED
    BY <1>1, <1>6, <1>7, <2>1, <2>2, Zenon
<1>9. \A q \in E : q \in D \/ q = Append(p, 1) \/ q = Append(p, 2)
  BY DEF E
<1>10. /\ NewCall(halves[1]) \in CallSet /\ NewCall(halves[2]) \in CallSet
       /\ NewCall(halves[1]).state = "calling" /\ NewCall(halves[2]).state = "calling"
       /\ NewCall(halves[1]).text = halves[1] /\ NewCall(halves[2]).text = halves[2]
  <2>1. NewCall(halves[1]) \in CallSet /\ NewCall(halves[2]) \in CallSet
    BY <1>4, NewCallIn
  <2> QED
    BY <2>1 DEF NewCall
<1>11. ASSUME NEW q \in D, NEW k \in {1, 2}, q # p PROVE Append(q, k) \in E <=> Append(q, k) \in D
  <2>1. Append(q, k) # Append(p, 1) /\ Append(q, k) # Append(p, 2)
    BY <1>1, <1>3, <1>11, HalfPaths
  <2> QED
    BY <1>8, <1>9, <2>1, Zenon
<1>12. ASSUME NEW j \in {1, 2}, NEW k \in {1, 2} PROVE Append(Append(p, j), k) \notin E
  <2> DEFINE q == Append(p, j)
  <2>1. q \in Paths /\ q # p /\ q \notin D
    BY <1>6, <1>7
  <2> HIDE DEF q
  <2>2. Append(q, k) # Append(p, 1) /\ Append(q, k) # Append(p, 2) /\ Append(q, k) # <<>>
    BY <1>3, <2>1, HalfPaths
  <2>3. ASSUME Append(q, k) \in D PROVE FALSE
    <3>1. PICK r \in D, i \in {1, 2} : Append(q, k) = Append(r, i)
      BY <1>1, <2>2, <2>3, Zenon
    <3>2. r = q
      BY <1>1, <2>1, <3>1, HalfPaths
    <3> QED
      BY <2>1, <3>2
  <2>4. Append(q, k) \notin E
    BY <1>9, <2>2, <2>3, Zenon
  <2> QED
    BY <2>4 DEF q
<1>13. TreeInv'
  <2>1. calls' \in [E -> CallSet]
    <3>1. \A q \in E : calls'[q] \in CallSet
      BY <1>1, <1>5, <1>8, <1>9, <1>10
    <3>2. calls' = [q \in E |-> calls'[q]]
      BY <1>2
    <3> QED
      BY <3>1, <3>2
  <2>2. E \subseteq Paths /\ <<>> \in E
    BY <1>1, <1>7, <1>8, <1>9
  <2>3. ASSUME NEW q \in E
        PROVE  /\ q = <<>> \/ \E r \in E, k \in {1, 2} : q = Append(r, k)
               /\ Append(q, 1) \in E <=> Append(q, 2) \in E
    <3>1. CASE q \in D
      <4>1. q = <<>> \/ \E r \in E, k \in {1, 2} : q = Append(r, k)
        BY <1>1, <1>8, <3>1, Zenon
      <4>2. Append(q, 1) \in D <=> Append(q, 2) \in D
        BY <1>1, <3>1, Zenon
      <4> QED
        BY <1>8, <1>11, <3>1, <4>1, <4>2
    <3>2. CASE q \notin D
      <4>1. PICK j \in {1, 2} : q = Append(p, j)
        BY <1>9, <3>2
      <4> QED
        BY <1>8, <1>12, <4>1
    <3> QED
      BY <3>1, <3>2
  <2> QED
    BY <1>8, <2>1, <2>2, <2>3, Zenon DEF TreeInv
<1>14. ASSUME NEW q \in E
       PROVE  /\ calls'[q].state = "halved" => HasHalves(q)'
              /\ HasHalves(q)' => FitsHalves(calls'[q], Half(q, 1)', Half(q, 2)')
  <2>0. HasHalves(q)' <=> Append(q, 1) \in E
    BY <1>8 DEF HasHalves
  <2>1. CASE q = p
    <3>1. Half(q, 1)' = NewCall(halves[1]) /\ Half(q, 2)' = NewCall(halves[2])
      BY <1>8, <2>1 DEF Half
    <3>2. FitsHalves(c, NewCall(halves[1]), NewCall(halves[2]))
      BY <1>4, <1>5, <1>10 DEF FitsHalves
    <3> QED
      BY <1>8, <2>0, <2>1, <3>1, <3>2, Zenon
  <2>2. CASE q # p /\ q \in D
    <3>1. HasHalves(q)' <=> HasHalves(q)
      BY <1>11, <2>0, <2>2 DEF HasHalves, D
    <3>2. calls'[q] = calls[q]
      BY <1>8, <2>2
    <3>3. /\ calls[q].state = "halved" => HasHalves(q)
          /\ HasHalves(q) => FitsHalves(calls[q], Half(q, 1), Half(q, 2))
      BY <2>2, CallFacts DEF D
    <3>4. ASSUME HasHalves(q) PROVE FitsHalves(calls[q], Half(q, 1)', Half(q, 2)')
      <4>1. Append(q, 1) \in D /\ Append(q, 2) \in D
        <5>1. Append(q, 1) \in D
          BY <3>4, Zenon DEF HasHalves, D
        <5> QED
          BY <1>1, <2>2, <5>1, Zenon
      <4>2. CASE p = Append(q, 1) \/ p = Append(q, 2)
        <5>1. calls[q].state = "halved"
          <6>1. Half(q, 1) = calls[p] \/ Half(q, 2) = calls[p]
            BY <4>2 DEF Half
          <6> QED
            BY <1>2, <3>3, <3>4, <6>1 DEF FitsHalves, CallOver
        <5>2. Half(q, 1)'.text = Half(q, 1).text /\ Half(q, 2)'.text = Half(q, 2).text
          BY <1>5, <1>8, <4>1 DEF Half
        <5> QED
          BY <3>3, <3>4, <5>1, <5>2 DEF FitsHalves
      <4>3. CASE p # Append(q, 1) /\ p # Append(q, 2)
        <5>1. Half(q, 1)' = Half(q, 1) /\ Half(q, 2)' = Half(q, 2)
          BY <1>8, <4>1, <4>3 DEF Half
        <5> QED
          BY <3>3, <3>4, <5>1, Zenon
      <4> QED
        BY <4>2, <4>3
    <3> QED
      BY <3>1, <3>2, <3>3, <3>4, Zenon
  <2>3. CASE q \notin D
    <3>1. PICK j \in {1, 2} : q = Append(p, j)
      BY <1>9, <2>3
    <3>2. Append(q, 1) \notin E
      BY <1>12, <3>1
    <3>3. calls'[q].state = "calling"
      BY <1>8, <1>10, <3>1
    <3> QED
      BY <2>0, <3>2, <3>3
  <2> QED
    BY <1>1, <2>1, <2>2, <2>3
<1>15. HalvesInv'
  BY <1>8, <1>14, Zenon DEF HalvesInv
<1> QED
  BY <1>13, <1>15 DEF CallsInv

LEMMA CallsStep == CallsInv /\ [CallsNext]_calls => CallsInv'
<1> SUFFICES ASSUME CallsInv, [CallsNext]_calls PROVE CallsInv'
  OBVIOUS
<1>1. CASE UNCHANGED calls
  BY <1>1 DEF CallsInv, TreeInv, HalvesInv, HasHalves, Half
<1>2. CASE CallsNext
  <2>1. PICK p \in DOMAIN calls :
          Answer(p) \/ BackOff(p) \/ WakeUp(p) \/ GiveUp(p) \/ Halve(p) \/ Join(p)
    BY <1>2 DEF CallsNext
  <2> QED
    BY <2>1, AnswerStep, HalveStep, JoinStep
<1> QED
  BY <1>1, <1>2

-----------------------------------------------------------------------------
(* Calls below a call *)

LEMMA PrefixOfHalf ==
  ASSUME NEW p \in Paths, NEW r \in Paths, NEW k \in {1, 2}
  PROVE  /\ IsPrefix(p, p) /\ IsPrefix(<<>>, p)
         /\ IsPrefix(p, r) => IsPrefix(p, Append(r, k))
         /\ IsPrefix(p, Append(r, k)) => p = Append(r, k) \/ IsPrefix(p, r)
<1> DEFINE S == {1, 2}
    a == Append(r, k)
    none == <<>>
<1>1. p \in Seq(S) /\ r \in Seq(S) /\ k \in S /\ none \in Seq(S) /\ Len(none) = 0
  BY DEF Paths
<1>2. /\ a \in Seq(S) /\ Len(a) = Len(r) + 1 /\ \A i \in 1 .. Len(r) : a[i] = r[i]
      /\ Len(r) \in Nat /\ Len(p) \in Nat
  BY <1>1
<1> HIDE DEF S, a, none
<1>3. IsPrefix(p, r) <=> Len(p) <= Len(r) /\ \A i \in 1 .. Len(p) : p[i] = r[i]
  BY <1>1, PrefixMeans
<1>4. IsPrefix(p, a) <=> Len(p) <= Len(a) /\ \A i \in 1 .. Len(p) : p[i] = a[i]
  BY <1>1, <1>2, PrefixMeans
<1>5. IsPrefix(p, p)
  BY <1>1, <1>2, PrefixMeans
<1>6. IsPrefix(none, p)
  <2>1. Len(none) <= Len(p) /\ \A i \in 1 .. Len(none) : none[i] = p[i]
    BY <1>1, <1>2
  <2> QED
    BY <1>1, <2>1, PrefixMeans
<1>7. IsPrefix(p, r) => IsPrefix(p, a)
  BY <1>2, <1>3, <1>4
<1>8. ASSUME IsPrefix(p, a) PROVE p = a \/ IsPrefix(p, r)
  <2>1. CASE Len(p) <= Len(r)
    BY <1>2, <1>3, <1>4, <1>8, <2>1
  <2>2. CASE ~(Len(p) <= Len(r))
    <3>1. Len(p) = Len(a) /\ \A i \in 1 .. Len(a) : p[i] = a[i]
      BY <1>2, <1>4, <1>8, <2>2
    <3> QED
      BY <1>1, <1>2, <3>1, SeqsAgree
  <2> QED
    BY <2>1, <2>2
<1> QED
  BY <1>5, <1>6, <1>7, <1>8 DEF a, none

(* What passes from a call to its halves passes to all calls below it. *)
LEMMA Inherited ==
  ASSUME TreeInv, NEW W \in SUBSET DOMAIN calls,
         \A r \in W, k \in {1, 2} : Append(r, k) \in DOMAIN calls => Append(r, k) \in W,
         NEW p \in W, NEW q \in DOMAIN calls, IsPrefix(p, q)
  PROVE  q \in W
<1> DEFINE D == DOMAIN calls
    M == MaxHalvings
    P == {n \in 0 .. M : \A s \in D : Len(s) <= n /\ IsPrefix(p, s) => s \in W}
<1>1. /\ D \subseteq Paths /\ p \in Paths /\ M \in Nat
      /\ \A s \in D : s = <<>> \/ \E r \in D, k \in {1, 2} : s = Append(r, k)
  BY HalvingConstants DEF TreeInv
<1>2. \A s \in D : Len(s) \in 0 .. M
  BY <1>1, HalfPaths
<1>3. 0 \in P
  <2>1. ASSUME NEW s \in D, Len(s) <= 0, IsPrefix(p, s) PROVE s = p
    <3>1. s \in Seq({1, 2}) /\ p \in Seq({1, 2}) /\ Len(s) = 0
      BY <1>1, <1>2, <2>1 DEF Paths
    <3>2. Len(p) <= Len(s)
      BY <2>1 DEF IsPrefix
    <3> QED
      BY <3>1, <3>2
  <2> QED
    BY <1>1, <2>1
<1>4. ASSUME NEW n \in 1 .. M, n - 1 \in P PROVE n \in P
  <2>1. ASSUME NEW s \in D, Len(s) <= n, IsPrefix(p, s) PROVE s \in W
    <3>1. CASE s = p
      BY <3>1
    <3>2. CASE s # p
      <4>1. s # <<>>
        <5>1. s = <<>> => Len(p) <= 0 /\ p \in Seq({1, 2}) /\ Len(p) \in Nat
          BY <1>1, <2>1 DEF IsPrefix, Paths
        <5> QED
          BY <3>2, <5>1
      <4>2. PICK r \in D, k \in {1, 2} : s = Append(r, k)
        BY <1>1, <4>1, Zenon
      <4>3. IsPrefix(p, r)
        BY <1>1, <2>1, <3>2, <4>2, PrefixOfHalf
      <4>4. Len(r) <= n - 1
        <5>1. Len(s) = Len(r) + 1 /\ Len(r) \in Nat
          BY <1>1, <4>2, HalfPaths
        <5> QED
          BY <2>1, <5>1
      <4>5. r \in W
        BY <1>4, <4>3, <4>4
      <4> QED
        BY <2>1, <4>2, <4>5
    <3> QED
      BY <3>1, <3>2
  <2> QED
    BY <2>1
<1>5. \A n \in 0 .. M : n \in P
  <2> HIDE DEF P, M
  <2> QED
    BY <1>1, <1>3, <1>4, UpTo
<1>6. M \in P
  BY <1>1, <1>5
<1> QED
  BY <1>2, <1>6

LEMMA HalvesOf ==
  ASSUME CallsInv, NEW p \in DOMAIN calls, NEW k \in {1, 2}, Append(p, k) \in DOMAIN calls
  PROVE  /\ HasHalves(p) /\ Half(p, k) = calls[Append(p, k)]
         /\ FitsHalves(calls[p], Half(p, 1), Half(p, 2))
<1>1. HasHalves(p)
  BY Zenon DEF CallsInv, TreeInv, HasHalves
<1> QED
  BY <1>1, CallFacts DEF Half

LEMMA NoneLeftBehind == CallsInv => NoCallLeftBehind
<1> SUFFICES ASSUME CallsInv, NEW p \in DOMAIN calls, NEW q \in DOMAIN calls,
                    IsPrefix(p, q), CallOver(calls[p])
             PROVE  CallOver(calls[q])
  BY DEF NoCallLeftBehind
<1> DEFINE W == {r \in DOMAIN calls : CallOver(calls[r])}
<1>1. ASSUME NEW r \in W, NEW k \in {1, 2}, Append(r, k) \in DOMAIN calls PROVE Append(r, k) \in W
  <2>1. Half(r, k) = calls[Append(r, k)] /\ FitsHalves(calls[r], Half(r, 1), Half(r, 2))
    BY <1>1, HalvesOf
  <2>2. CallOver(Half(r, k))
    BY <1>1, <2>1 DEF FitsHalves, CallOver
  <2> QED
    BY <1>1, <2>1, <2>2
<1>2. W \in SUBSET DOMAIN calls /\ p \in W
  OBVIOUS
<1>3. q \in W
  <2> HIDE DEF W
  <2> QED
    BY <1>1, <1>2, Inherited DEF CallsInv
<1> QED
  BY <1>3

LEMMA AnsweredBelow ==
  ASSUME CallsInv, NEW p \in DOMAIN calls, NEW q \in DOMAIN calls, IsPrefix(p, q),
         calls[p].state = "answered"
  PROVE  calls[q].state = "answered"
<1> DEFINE W == {r \in DOMAIN calls : calls[r].state = "answered"}
<1>1. ASSUME NEW r \in W, NEW k \in {1, 2}, Append(r, k) \in DOMAIN calls PROVE Append(r, k) \in W
  <2>1. Half(r, k) = calls[Append(r, k)] /\ FitsHalves(calls[r], Half(r, 1), Half(r, 2))
    BY <1>1, HalvesOf
  <2>2. Half(r, k).state = "answered"
    BY <1>1, <2>1 DEF FitsHalves
  <2> QED
    BY <1>1, <2>1, <2>2
<1>2. W \in SUBSET DOMAIN calls /\ p \in W
  OBVIOUS
<1>3. q \in W
  <2> HIDE DEF W
  <2> QED
    BY <1>1, <1>2, Inherited DEF CallsInv
<1> QED
  BY <1>3

(* A call below another is below one of its halves. *)
LEMMA BelowAHalf ==
  ASSUME CallsInv, NEW p \in DOMAIN calls, NEW q \in DOMAIN calls, IsPrefix(p, q), p # q
  PROVE  \E k \in {1, 2} : Append(p, k) \in DOMAIN calls /\ IsPrefix(Append(p, k), q)
<1> DEFINE D == DOMAIN calls
    W == {p} \cup {r \in D : \E k \in {1, 2} : Append(p, k) \in D /\ IsPrefix(Append(p, k), r)}
<1>1. D \subseteq Paths
  BY DEF CallsInv, TreeInv
<1>2. ASSUME NEW r \in W, NEW k \in {1, 2}, Append(r, k) \in D PROVE Append(r, k) \in W
  <2>1. CASE r = p
    <3>1. IsPrefix(Append(p, k), Append(r, k))
      BY <1>1, <1>2, <2>1, PrefixOfHalf
    <3> QED
      BY <1>2, <2>1, <3>1
  <2>2. CASE r # p
    <3>1. PICK j \in {1, 2} : Append(p, j) \in D /\ IsPrefix(Append(p, j), r)
      BY <2>2
    <3>2. r \in Paths /\ Append(p, j) \in Paths
      BY <1>1, <2>2, <3>1
    <3>3. IsPrefix(Append(p, j), Append(r, k))
      BY <3>1, <3>2, PrefixOfHalf
    <3> QED
      BY <1>2, <3>1, <3>3
  <2> QED
    BY <2>1, <2>2
<1>3. W \in SUBSET D /\ p \in W
  OBVIOUS
<1>4. q \in W
  <2> HIDE DEF W
  <2> QED
    BY <1>2, <1>3, Inherited DEF CallsInv
<1> QED
  BY <1>4

-----------------------------------------------------------------------------
(* What the extraction raises *)

Leaf(l) == ~HasHalves(l) /\ calls[l].state = "raised"

LeftOf(l, q) ==
  \E k \in DOMAIN l : k \in DOMAIN q /\ l[k] < q[k] /\ \A j \in 1 .. k - 1 : l[j] = q[j]

(* Of the calls below p that failed, l is the left-most. *)
FailsFirst(p, l) ==
  /\ IsPrefix(p, l) /\ Leaf(l) /\ calls[l].failure = calls[p].failure
  /\ \A q \in DOMAIN calls : IsPrefix(p, q) /\ Leaf(q) => q = l \/ LeftOf(l, q)

LEMMA LeftHalf ==
  ASSUME NEW p \in Paths, NEW l \in Paths, NEW q \in Paths,
         IsPrefix(Append(p, 1), l), IsPrefix(Append(p, 2), q)
  PROVE  LeftOf(l, q)
<1> DEFINE a == Append(p, 1)
    b == Append(p, 2)
    k == Len(p) + 1
    S == {1, 2}
<1>1. p \in Seq(S) /\ l \in Seq(S) /\ q \in Seq(S)
  BY DEF Paths
<1>2. /\ a \in Seq(S) /\ Len(a) = k /\ a[k] = 1 /\ b \in Seq(S) /\ Len(b) = k /\ b[k] = 2
      /\ \A j \in 1 .. k - 1 : a[j] = b[j]
      /\ k \in Nat /\ k >= 1
  BY <1>1
<1>0. IsPrefix(a, l) /\ IsPrefix(b, q)
  OBVIOUS
<1> HIDE DEF a, b, k, S
<1>3. k <= Len(l) /\ \A j \in 1 .. k : l[j] = a[j]
  BY <1>0, <1>1, <1>2, PrefixMeans
<1>4. k <= Len(q) /\ \A j \in 1 .. k : q[j] = b[j]
  BY <1>0, <1>1, <1>2, PrefixMeans
<1>5. k \in DOMAIN l /\ k \in DOMAIN q
  BY <1>1, <1>2, <1>3, <1>4
<1>6. l[k] = 1 /\ q[k] = 2 /\ \A j \in 1 .. k - 1 : l[j] = q[j]
  BY <1>2, <1>3, <1>4
<1> QED
  BY <1>5, <1>6 DEF LeftOf

LEMMA SomeFailsFirst ==
  ASSUME CallsInv, NEW p \in DOMAIN calls, calls[p].state = "raised"
  PROVE  \E l \in DOMAIN calls : FailsFirst(p, l)
<1> DEFINE D == DOMAIN calls
    M == MaxHalvings
    P == {n \in 0 .. M : \A r \in D : Len(r) + n >= M /\ calls[r].state = "raised" =>
                             \E l \in D : FailsFirst(r, l)}
<1>1. D \subseteq Paths /\ M \in Nat
  BY HalvingConstants DEF CallsInv, TreeInv
<1>2. \A r \in D : Len(r) \in 0 .. M
  BY <1>1, HalfPaths
<1>3. ASSUME NEW r \in D, calls[r].state = "raised", ~HasHalves(r) PROVE FailsFirst(r, r)
  <2>1. IsPrefix(r, r)
    BY <1>1, PrefixOfHalf
  <2>2. ASSUME NEW q \in D, IsPrefix(r, q) PROVE q = r
    <3>1. ASSUME q # r PROVE FALSE
      <4>1. PICK k \in {1, 2} : Append(r, k) \in D
        BY <2>2, <3>1, BelowAHalf
      <4> QED
        BY <1>3, <4>1, HalvesOf
    <3> QED
      BY <3>1
  <2> QED
    BY <1>3, <2>1, <2>2 DEF FailsFirst, Leaf
<1>4. ASSUME NEW r \in D, HasHalves(r)
      PROVE  Append(r, 1) \in D /\ Append(r, 2) \in D /\ Len(Append(r, 1)) = Len(r) + 1 /\ Len(Append(r, 2)) = Len(r) + 1
  <2>1. Append(r, 1) \in D /\ Append(r, 2) \in D
    BY <1>4, Zenon DEF CallsInv, TreeInv, HasHalves
  <2> QED
    BY <1>1, <2>1, HalfPaths
<1>5. 0 \in P
  <2>1. ASSUME NEW r \in D, Len(r) + 0 >= M, calls[r].state = "raised"
        PROVE  \E l \in D : FailsFirst(r, l)
    <3>1. ~HasHalves(r)
      <4>1. ASSUME HasHalves(r) PROVE FALSE
        <5>1. Append(r, 1) \in D /\ Len(Append(r, 1)) = Len(r) + 1
          BY <1>4, <4>1
        <5>2. Len(Append(r, 1)) \in 0 .. M /\ Len(r) \in 0 .. M
          BY <1>2, <5>1
        <5> HIDE DEF M
        <5> QED
          BY <1>1, <2>1, <5>1, <5>2
      <4> QED
        BY <4>1
    <3> QED
      BY <1>3, <2>1, <3>1
  <2> QED
    BY <1>1, <2>1
<1>6. ASSUME NEW n \in 1 .. M, n - 1 \in P PROVE n \in P
  <2>1. ASSUME NEW r \in D, Len(r) + n >= M, calls[r].state = "raised", HasHalves(r)
        PROVE  \E l \in D : FailsFirst(r, l)
    <3> DEFINE one == Half(r, 1)
        two == Half(r, 2)
        h == IF one.state = "raised" THEN 1 ELSE 2
        c == Append(r, h)
    <3>1. one = calls[Append(r, 1)] /\ two = calls[Append(r, 2)]
      BY DEF Half
    <3>2. /\ Append(r, 1) \in D /\ Append(r, 2) \in D
          /\ Len(Append(r, 1)) = Len(r) + 1 /\ Len(Append(r, 2)) = Len(r) + 1
      BY <1>4, <2>1
    <3>3. /\ CallOver(one) /\ CallOver(two)
          /\ calls[c].state = "raised" /\ calls[r].failure = calls[c].failure
      <4>1. FitsHalves(calls[r], one, two)
        BY <2>1, CallFacts
      <4> QED
        BY <2>1, <3>1, <4>1 DEF FitsHalves
    <3>4. c \in D /\ Len(c) + (n - 1) >= M /\ h \in {1, 2}
      BY <1>1, <1>2, <2>1, <3>2
    <3>5. PICK l \in D : FailsFirst(c, l)
      <4> HIDE DEF c
      <4> QED
        BY <1>6, <3>3, <3>4
    <3>6. IsPrefix(r, l)
      <4> DEFINE W == {s \in D : IsPrefix(r, s)}
      <4>1. ASSUME NEW s \in W, NEW k \in {1, 2}, Append(s, k) \in D PROVE Append(s, k) \in W
        BY <1>1, <4>1, PrefixOfHalf
      <4>2. c \in W
        <5>1. IsPrefix(r, r) /\ r \in Paths /\ h \in {1, 2}
          BY <1>1, PrefixOfHalf
        <5>2. IsPrefix(r, Append(r, h))
          <6> HIDE DEF h
          <6> QED
            BY <5>1, PrefixOfHalf
        <5> QED
          BY <3>4, <5>2
      <4>3. IsPrefix(c, l)
        BY <3>5 DEF FailsFirst
      <4>4. l \in W
        <5> HIDE DEF c
        <5>1. W \in SUBSET D
          OBVIOUS
        <5> HIDE DEF W
        <5> QED
          BY <4>1, <4>2, <4>3, <5>1, Inherited DEF CallsInv
      <4> QED
        BY <4>4
    <3>7. ASSUME NEW q \in D, IsPrefix(r, q), Leaf(q) PROVE q = l \/ LeftOf(l, q)
      <4>1. q # r
        BY <2>1, <3>7 DEF Leaf
      <4>2. PICK k \in {1, 2} : Append(r, k) \in D /\ IsPrefix(Append(r, k), q)
        BY <3>7, <4>1, BelowAHalf
      <4>3. CASE k = h
        <5>1. IsPrefix(c, q)
          BY <4>2, <4>3
        <5> QED
          BY <3>5, <3>7, <5>1, Zenon DEF FailsFirst
      <4>4. CASE k # h /\ h = 1
        <5>1. IsPrefix(Append(r, 1), l) /\ IsPrefix(Append(r, 2), q)
          <6>1. IsPrefix(Append(r, h), l)
            BY <3>5, Zenon DEF FailsFirst
          <6>2. k = 2
            BY <4>4
          <6> QED
            BY <4>2, <4>4, <6>1, <6>2, Zenon
        <5> QED
          BY <1>1, <5>1, LeftHalf
      <4>5. CASE k # h /\ h = 2
        <5>1. k = 1 /\ one.state # "raised"
          BY <4>5
        <5>2. calls[Append(r, 1)].state = "answered"
          BY <3>1, <3>3, <5>1 DEF CallOver
        <5>3. calls[q].state = "answered"
          <6>1. IsPrefix(Append(r, 1), q)
            BY <4>2, <5>1, Zenon
          <6> QED
            BY <3>2, <5>2, <6>1, AnsweredBelow
        <5> QED
          BY <3>7, <5>3 DEF Leaf
      <4> QED
        BY <3>4, <4>3, <4>4, <4>5
    <3>8. calls[l].failure = calls[r].failure /\ Leaf(l)
      BY <3>3, <3>5, Zenon DEF FailsFirst
    <3> QED
      BY <3>6, <3>7, <3>8, Zenon DEF FailsFirst
  <2>2. ASSUME NEW r \in D, Len(r) + n >= M, calls[r].state = "raised"
        PROVE  \E l \in D : FailsFirst(r, l)
    <3>1. CASE HasHalves(r)
      BY <2>1, <2>2, <3>1
    <3>2. CASE ~HasHalves(r)
      BY <1>3, <2>2, <3>2
    <3> QED
      BY <3>1, <3>2
  <2> QED
    BY <2>2
<1>7. \A n \in 0 .. M : n \in P
  <2> HIDE DEF P, M
  <2> QED
    BY <1>1, <1>5, <1>6, UpTo
<1>8. M \in P /\ Len(p) + M >= M
  BY <1>1, <1>2, <1>7
<1> QED
  BY <1>8

LEMMA FirstFailureRaised == CallsInv => FirstHalfFails
<1> SUFFICES ASSUME CallsInv, calls[<<>>].state = "raised"
    PROVE  \E l \in DOMAIN calls :
             /\ calls[l].state = "raised" /\ ~HasHalves(l)
             /\ calls[l].failure = calls[<<>>].failure
             /\ \A q \in DOMAIN calls : ~HasHalves(q) /\ calls[q].state = "raised" => q = l \/ LeftOf(l, q)
  BY Zenon DEF FirstHalfFails, LeftOf
<1> DEFINE none == <<>>
<1>1. none \in DOMAIN calls /\ DOMAIN calls \subseteq Paths /\ calls[none].state = "raised"
  BY DEF CallsInv, TreeInv
<1>2. \A q \in DOMAIN calls : IsPrefix(none, q)
  BY <1>1, PrefixOfHalf
<1> HIDE DEF none
<1>3. PICK l \in DOMAIN calls : FailsFirst(none, l)
  BY <1>1, SomeFailsFirst
<1> QED
  BY <1>2, <1>3, Zenon DEF FailsFirst, Leaf, none

-----------------------------------------------------------------------------
(* What the extraction reads and costs *)

LeafText(p) == IF calls[p].state = "answered" THEN calls[p].text ELSE <<>>

ReadsBy(f) ==
  /\ f[MaxHalvings] = AnsweredText
  /\ \A p \in DOMAIN calls : f[0][p] = LeafText(p)
  /\ \A n \in 1 .. MaxHalvings, p \in DOMAIN calls :
       f[n][p] = IF HasHalves(p) THEN f[n - 1][Append(p, 1)] \o f[n - 1][Append(p, 2)] ELSE LeafText(p)

LEMMA TextRead ==
  ASSUME CallsInv
  PROVE  \E f : ReadsBy(f) /\ \A n \in 0 .. MaxHalvings : f[n] \in [DOMAIN calls -> Seq(Nat)]
<1> DEFINE D == DOMAIN calls
    L == MaxHalvings
    X == [D -> Seq(Nat)]
    Below(g) == [p \in D |-> IF HasHalves(p) THEN g[Append(p, 1)] \o g[Append(p, 2)] ELSE LeafText(p)]
    base == [p \in D |-> LeafText(p)]
    T == [w \in X \X (1 .. L) |-> Below(w[1])]
    Then(g, n) == [p \in D |->
                     IF n > 0 /\ HasHalves(p) THEN g[n - 1][Append(p, 1)] \o g[n - 1][Append(p, 2)]
                     ELSE IF calls[p].state = "answered" THEN calls[p].text ELSE <<>>]
    Solves(g) == g = [n \in 0 .. L |-> Then(g, n)]
<1>1. L \in Nat
  BY HalvingConstants
<1>2. ASSUME NEW p \in D PROVE LeafText(p) \in Seq(Nat)
  <2>1. calls[p].text \in Seq(Nat) /\ <<>> \in Seq(Nat)
    BY CallFacts DEF CallSet
  <2> QED
    BY <2>1 DEF LeafText
<1>3. base \in X
  BY <1>2
<1>4. ASSUME NEW g \in X PROVE Below(g) \in X
  <2>1. ASSUME NEW p \in D, HasHalves(p) PROVE g[Append(p, 1)] \o g[Append(p, 2)] \in Seq(Nat)
    <3>1. Append(p, 1) \in D /\ Append(p, 2) \in D
      BY <2>1, Zenon DEF CallsInv, TreeInv, HasHalves
    <3>2. g[Append(p, 1)] \in Seq(Nat) /\ g[Append(p, 2)] \in Seq(Nat)
      BY <3>1
    <3> QED
      BY <3>2, Concatenated
  <2> QED
    BY <1>2, <2>1
<1>5. StaysIn(T, X, L)
  <2> HIDE DEF X, L, Below
  <2> QED
    BY <1>4 DEF StaysIn
<1>6. PICK f \in [0 .. L -> X] : f[0] = base /\ \A n \in 1 .. L : f[n] = T[<<f[n - 1], n>>]
  <2> HIDE DEF X, L, T, base
  <2> QED
    BY <1>1, <1>3, <1>5, Iterated
<1>7. ASSUME NEW n \in 1 .. L PROVE f[n] = Below(f[n - 1])
  <2>1. f[n - 1] \in X
    <3> HIDE DEF X
    <3> QED
      BY <1>1
  <2>2. T[<<f[n - 1], n>>] = Below(f[n - 1])
    <3> HIDE DEF X, L, Below
    <3> QED
      BY <2>1
  <2> QED
    BY <1>6, <2>2, Zenon
<1>8. \A g, p : p \in D => Then(g, 0)[p] = LeafText(p)
  BY DEF LeafText
<1>9. \A g : \A n \in 1 .. L : Then(g, n) = Below(g[n - 1])
  BY <1>1 DEF LeafText
<1>10. \A g : Then(g, 0) = base
  BY DEF LeafText
<1> HIDE DEF Then, Below, base, X
<1>11. Solves(f)
  <2>1. f = [n \in 0 .. L |-> f[n]]
    OBVIOUS
  <2>2. ASSUME NEW n \in 0 .. L PROVE f[n] = Then(f, n)
    <3>1. CASE n = 0
      BY <1>6, <1>10, <3>1
    <3>2. CASE n # 0
      <4>1. n \in 1 .. L
        BY <1>1, <3>2
      <4> QED
        BY <1>7, <1>9, <4>1, Zenon
    <3> QED
      BY <3>1, <3>2
  <2> HIDE DEF L
  <2> QED
    BY <2>1, <2>2
<1> DEFINE g == CHOOSE g : Solves(g)
<1>12. Solves(g)
  <2> HIDE DEF Solves
  <2> QED
    BY <1>11
<1>13. AnsweredText = g[L]
  BY Zenon DEF AnsweredText, Then
<1> HIDE DEF g
<1>14. g[0] = base /\ \A n \in 1 .. L : g[n] = Below(g[n - 1])
  <2>1. \A n \in 0 .. L : g[n] = Then(g, n)
    BY <1>12
  <2>2. g[0] = Then(g, 0)
    BY <1>1, <2>1
  <2>3. \A n \in 1 .. L : g[n] = Then(g, n)
    BY <1>1, <2>1
  <2> QED
    BY <1>9, <1>10, <2>2, <2>3
<1> DEFINE P == {n \in 0 .. L : g[n] \in X}
<1>15. 0 \in P
  BY <1>1, <1>3, <1>14
<1>16. ASSUME NEW n \in 1 .. L, n - 1 \in P PROVE n \in P
  <2>1. g[n - 1] \in X /\ n \in 0 .. L
    BY <1>1, <1>16
  <2> QED
    BY <1>4, <1>14, <2>1
<1>17. \A n \in 0 .. L : n \in P
  <2> HIDE DEF P, L
  <2> QED
    BY <1>1, <1>15, <1>16, UpTo
<1>18. ReadsBy(g)
  <2>1. \A p \in D : g[0][p] = LeafText(p)
    BY <1>14 DEF base
  <2>2. \A n \in 1 .. L, p \in D :
          g[n][p] = IF HasHalves(p) THEN g[n - 1][Append(p, 1)] \o g[n - 1][Append(p, 2)] ELSE LeafText(p)
    BY <1>14 DEF Below
  <2> QED
    BY <1>13, <2>1, <2>2, Zenon DEF ReadsBy
<1> QED
  BY <1>17, <1>18 DEF X

LEMMA NothingStaysUnread == CallsInv => NothingUnread
<1> SUFFICES ASSUME CallsInv, calls[<<>>].state = "answered"
             PROVE  Characters(AnsweredText[<<>>]) = Characters(calls[<<>>].text)
  BY DEF NothingUnread
<1> DEFINE D == DOMAIN calls
    M == MaxHalvings
<1>1. PICK f : ReadsBy(f) /\ \A n \in 0 .. M : f[n] \in [D -> Seq(Nat)]
  BY TextRead
<1>2. /\ D \subseteq Paths /\ M \in Nat /\ <<>> \in D
      /\ \A q \in D : Append(q, 1) \in D <=> Append(q, 2) \in D
  BY HalvingConstants DEF CallsInv, TreeInv
<1>3. \A r \in D : Len(r) \in 0 .. M
  BY <1>2, HalfPaths
<1>4. ASSUME NEW r \in D, HasHalves(r)
      PROVE  /\ Append(r, 1) \in D /\ Append(r, 2) \in D
             /\ Len(Append(r, 1)) = Len(r) + 1 /\ Len(Append(r, 2)) = Len(r) + 1
  <2>1. Append(r, 1) \in D /\ Append(r, 2) \in D
    BY <1>2, <1>4, Zenon DEF HasHalves
  <2> QED
    BY <1>2, <2>1, HalfPaths
<1> DEFINE Reads(r, n) == Characters(f[n][r]) = Characters(calls[r].text)
    P == {n \in 0 .. M : \A r \in D : Len(r) + n >= M /\ calls[r].state = "answered" => Reads(r, n)}
<1>5. 0 \in P
  <2>1. ASSUME NEW r \in D, calls[r].state = "answered" PROVE Reads(r, 0)
    BY <1>1, <2>1, Zenon DEF ReadsBy, LeafText
  <2> HIDE DEF Reads
  <2> QED
    BY <1>2, <2>1
<1>6. ASSUME NEW n \in 1 .. M, n - 1 \in P PROVE n \in P
  <2>1. ASSUME NEW r \in D, Len(r) + n >= M, calls[r].state = "answered" PROVE Reads(r, n)
    <3>1. CASE ~HasHalves(r)
      BY <1>1, <2>1, <3>1, Zenon DEF ReadsBy, LeafText
    <3>2. CASE HasHalves(r)
      <4> DEFINE one == Append(r, 1)
          two == Append(r, 2)
          a == f[n - 1][one]
          b == f[n - 1][two]
      <4>1. /\ one \in D /\ two \in D /\ Len(one) + (n - 1) >= M /\ Len(two) + (n - 1) >= M
        <5>1. one \in D /\ two \in D /\ Len(one) = Len(r) + 1 /\ Len(two) = Len(r) + 1 /\ Len(r) \in Nat
          BY <1>3, <1>4, <3>2
        <5> HIDE DEF one, two, M
        <5> QED
          BY <1>2, <2>1, <5>1
      <4>2. /\ calls[one].state = "answered" /\ calls[two].state = "answered"
            /\ Characters(calls[one].text) \o Characters(calls[two].text) = Characters(calls[r].text)
        <5>1. FitsHalves(calls[r], calls[one], calls[two])
          BY <3>2, CallFacts DEF Half
        <5> QED
          BY <2>1, <5>1 DEF FitsHalves
      <4>3. f[n][r] = a \o b
        BY <1>1, <3>2, Zenon DEF ReadsBy
      <4>4. a \in Seq(Nat) /\ b \in Seq(Nat)
        <5>1. n - 1 \in 0 .. M
          BY <1>2
        <5>2. f[n - 1] \in [D -> Seq(Nat)]
          BY <1>1, <5>1, Zenon
        <5> QED
          BY <4>1, <5>2
      <4>5. Reads(one, n - 1) /\ Reads(two, n - 1)
        <5> HIDE DEF Reads, one, two, M
        <5> QED
          BY <1>6, <4>1, <4>2
      <4>6. Characters(a) = Characters(calls[one].text) /\ Characters(b) = Characters(calls[two].text)
        BY <4>5
      <4> HIDE DEF a, b, one, two
      <4>7. Characters(a \o b) = Characters(a) \o Characters(b)
        BY <4>4, CharactersJoin
      <4> QED
        BY <4>2, <4>3, <4>6, <4>7, Zenon
    <3> QED
      BY <3>1, <3>2
  <2> HIDE DEF Reads
  <2> QED
    BY <2>1
<1>7. \A n \in 0 .. M : n \in P
  <2> HIDE DEF P, M
  <2> QED
    BY <1>2, <1>5, <1>6, UpTo
<1> DEFINE none == <<>>
<1>8. M \in P /\ Len(none) + M >= M /\ none \in D
  BY <1>2, <1>7
<1>9. Reads(none, M)
  <2> HIDE DEF Reads, none
  <2> QED
    BY <1>8 DEF none
<1> QED
  BY <1>1, <1>9, Zenon DEF ReadsBy

SendsBy(f) ==
  /\ f[MaxHalvings] = Requests
  /\ \A p \in DOMAIN calls : f[0][p] = calls[p].attempt
  /\ \A n \in 1 .. MaxHalvings, p \in DOMAIN calls :
       f[n][p] = IF HasHalves(p) THEN calls[p].attempt + f[n - 1][Append(p, 1)] + f[n - 1][Append(p, 2)] ELSE calls[p].attempt

LEMMA RequestsSent ==
  ASSUME CallsInv
  PROVE  \E f : SendsBy(f) /\ \A n \in 0 .. MaxHalvings : f[n] \in [DOMAIN calls -> Nat]
<1> DEFINE D == DOMAIN calls
    L == MaxHalvings
    X == [D -> Nat]
    Below(g) == [p \in D |-> IF HasHalves(p) THEN calls[p].attempt + g[Append(p, 1)] + g[Append(p, 2)] ELSE calls[p].attempt]
    base == [p \in D |-> calls[p].attempt]
    T == [w \in X \X (1 .. L) |-> Below(w[1])]
    Then(g, n) == [p \in D |->
                     IF n > 0 /\ HasHalves(p) THEN calls[p].attempt + g[n - 1][Append(p, 1)] + g[n - 1][Append(p, 2)]
                     ELSE calls[p].attempt]
    Solves(g) == g = [n \in 0 .. L |-> Then(g, n)]
<1>1. L \in Nat
  BY HalvingConstants
<1>2. ASSUME NEW p \in D PROVE calls[p].attempt \in Nat
  BY CallFacts, HalvingConstants DEF CallSet
<1>3. base \in X
  BY <1>2
<1>4. ASSUME NEW g \in X PROVE Below(g) \in X
  <2>1. ASSUME NEW p \in D, HasHalves(p) PROVE calls[p].attempt + g[Append(p, 1)] + g[Append(p, 2)] \in Nat
    <3>1. Append(p, 1) \in D /\ Append(p, 2) \in D
      BY <2>1, Zenon DEF CallsInv, TreeInv, HasHalves
    <3>2. g[Append(p, 1)] \in Nat /\ g[Append(p, 2)] \in Nat
      BY <3>1
    <3> QED
      BY <1>2, <3>2
  <2> QED
    BY <1>2, <2>1
<1>5. StaysIn(T, X, L)
  <2> HIDE DEF X, L, Below
  <2> QED
    BY <1>4 DEF StaysIn
<1>6. PICK f \in [0 .. L -> X] : f[0] = base /\ \A n \in 1 .. L : f[n] = T[<<f[n - 1], n>>]
  <2> HIDE DEF X, L, T, base
  <2> QED
    BY <1>1, <1>3, <1>5, Iterated
<1>7. ASSUME NEW n \in 1 .. L PROVE f[n] = Below(f[n - 1])
  <2>1. f[n - 1] \in X
    <3> HIDE DEF X
    <3> QED
      BY <1>1
  <2>2. T[<<f[n - 1], n>>] = Below(f[n - 1])
    <3> HIDE DEF X, L, Below
    <3> QED
      BY <2>1
  <2> QED
    BY <1>6, <2>2, Zenon
<1>8. \A g, p : p \in D => Then(g, 0)[p] = calls[p].attempt
  OBVIOUS
<1>9. \A g : \A n \in 1 .. L : Then(g, n) = Below(g[n - 1])
  BY <1>1
<1>10. \A g : Then(g, 0) = base
  OBVIOUS
<1>19. \A h, p : p \in D => Below(h)[p] = IF HasHalves(p) THEN calls[p].attempt + h[Append(p, 1)] + h[Append(p, 2)]
                                           ELSE calls[p].attempt
  OBVIOUS
<1> HIDE DEF Then, Below, base, X
<1>11. Solves(f)
  <2>1. f = [n \in 0 .. L |-> f[n]]
    OBVIOUS
  <2>2. ASSUME NEW n \in 0 .. L PROVE f[n] = Then(f, n)
    <3>1. CASE n = 0
      BY <1>6, <1>10, <3>1
    <3>2. CASE n # 0
      <4>1. n \in 1 .. L
        BY <1>1, <3>2
      <4> QED
        BY <1>7, <1>9, <4>1, Zenon
    <3> QED
      BY <3>1, <3>2
  <2> HIDE DEF L
  <2> QED
    BY <2>1, <2>2
<1> DEFINE g == CHOOSE g : Solves(g)
<1>12. Solves(g)
  <2> HIDE DEF Solves
  <2> QED
    BY <1>11
<1>13. Requests = g[L]
  BY Zenon DEF Requests, Then
<1> HIDE DEF g
<1>14. g[0] = base /\ \A n \in 1 .. L : g[n] = Below(g[n - 1])
  <2>1. \A n \in 0 .. L : g[n] = Then(g, n)
    BY <1>12
  <2>2. g[0] = Then(g, 0)
    BY <1>1, <2>1
  <2>3. \A n \in 1 .. L : g[n] = Then(g, n)
    BY <1>1, <2>1
  <2> QED
    BY <1>9, <1>10, <2>2, <2>3
<1> DEFINE P == {n \in 0 .. L : g[n] \in X}
<1>15. 0 \in P
  BY <1>1, <1>3, <1>14
<1>16. ASSUME NEW n \in 1 .. L, n - 1 \in P PROVE n \in P
  <2>1. g[n - 1] \in X /\ n \in 0 .. L
    BY <1>1, <1>16
  <2> QED
    BY <1>4, <1>14, <2>1
<1>17. \A n \in 0 .. L : n \in P
  <2> HIDE DEF P, L
  <2> QED
    BY <1>1, <1>15, <1>16, UpTo
<1>18. SendsBy(g)
  <2>1. \A p \in D : g[0][p] = calls[p].attempt
    BY <1>14 DEF base
  <2>2. ASSUME NEW n \in 1 .. L, NEW p \in D
        PROVE  g[n][p] = IF HasHalves(p) THEN calls[p].attempt + g[n - 1][Append(p, 1)] + g[n - 1][Append(p, 2)]
                         ELSE calls[p].attempt
    <3>1. g[n] = Below(g[n - 1])
      BY <1>14
    <3> QED
      BY <1>19, <3>1, Zenon
  <2> QED
    BY <1>13, <2>1, <2>2, Zenon DEF SendsBy
<1> QED
  BY <1>17, <1>18 DEF X

SizesBy(f) ==
  /\ f[MaxHalvings] = TreeSize /\ f[0] = 1
  /\ \A n \in 1 .. MaxHalvings : f[n] = 1 + 2 * f[n - 1]

LEMMA TreeSizes == \E f \in [0 .. MaxHalvings -> Nat] : SizesBy(f)
<1> DEFINE L == MaxHalvings
    one == 1
    X == Nat
    T == [w \in X \X (1 .. L) |-> 1 + 2 * w[1]]
    Then(g, n) == IF n = 0 THEN 1 ELSE 1 + 2 * g[n - 1]
    Solves(g) == g = [n \in 0 .. L |-> Then(g, n)]
<1>1. L \in Nat /\ one \in X
  BY HalvingConstants
<1>2. StaysIn(T, X, L)
  BY DEF StaysIn
<1>3. PICK f \in [0 .. L -> X] : f[0] = one /\ \A n \in 1 .. L : f[n] = T[<<f[n - 1], n>>]
  <2> HIDE DEF X, L, T, one
  <2> QED
    BY <1>1, <1>2, Iterated
<1>4. ASSUME NEW n \in 1 .. L PROVE f[n] = 1 + 2 * f[n - 1]
  <2>1. f[n - 1] \in X
    <3> HIDE DEF X
    <3> QED
      BY <1>1
  <2>2. T[<<f[n - 1], n>>] = 1 + 2 * f[n - 1]
    <3> HIDE DEF X, L
    <3> QED
      BY <2>1
  <2> QED
    BY <1>3, <2>2, Zenon
<1>5. Solves(f)
  <2>1. f = [n \in 0 .. L |-> f[n]]
    OBVIOUS
  <2>2. ASSUME NEW n \in 0 .. L PROVE f[n] = Then(f, n)
    <3>1. CASE n = 0
      BY <1>3, <3>1
    <3>2. CASE n # 0
      <4>1. n \in 1 .. L
        BY <1>1, <3>2
      <4> QED
        BY <1>4, <3>2, <4>1, Zenon
    <3> QED
      BY <3>1, <3>2
  <2> HIDE DEF Then, L
  <2> QED
    BY <2>1, <2>2
<1> DEFINE g == CHOOSE g : Solves(g)
<1>6. Solves(g)
  <2> HIDE DEF Solves
  <2> QED
    BY <1>5
<1>7. TreeSize = g[L]
  BY Zenon DEF TreeSize
<1> HIDE DEF g
<1>8. \A n \in 0 .. L : g[n] = Then(g, n)
  <2> HIDE DEF Then
  <2> QED
    BY <1>6
<1>9. g[0] = 1 /\ \A n \in 1 .. L : g[n] = 1 + 2 * g[n - 1]
  BY <1>1, <1>8
<1> DEFINE P == {n \in 0 .. L : g[n] \in X}
<1>10. 0 \in P
  BY <1>1, <1>9
<1>11. ASSUME NEW n \in 1 .. L, n - 1 \in P PROVE n \in P
  <2>1. g[n - 1] \in Nat /\ n \in 0 .. L /\ g[n] = 1 + 2 * g[n - 1]
    BY <1>1, <1>9, <1>11
  <2> QED
    BY <2>1
<1>12. \A n \in 0 .. L : n \in P
  <2> HIDE DEF P
  <2> QED
    BY <1>1, <1>10, <1>11, UpTo
<1>13. g \in [0 .. L -> X]
  <2>1. g = [n \in 0 .. L |-> Then(g, n)]
    BY <1>6
  <2> HIDE DEF Then, X, L
  <2> QED
    BY <1>12, <2>1
<1>14. SizesBy(g)
  BY <1>7, <1>9, Zenon DEF SizesBy
<1> QED
  BY <1>13, <1>14

LEMMA TwoHalvesCost ==
  ASSUME NEW m \in Nat, NEW a \in Nat, NEW x \in Nat, NEW y \in Nat, NEW s \in Nat,
         a <= m, x <= m * s, y <= m * s
  PROVE  a + x + y <= m * (1 + 2 * s)
<1>1. m * (1 + 2 * s) = m + m * s + m * s
  OBVIOUS
<1>2. m * s \in Nat
  OBVIOUS
<1> QED
  BY <1>1, <1>2

LEMMA RequestsStayBounded == CallsInv => RequestsBounded
<1> SUFFICES ASSUME CallsInv PROVE Requests[<<>>] <= MaxAttempts * TreeSize
  BY DEF RequestsBounded
<1> DEFINE D == DOMAIN calls
    L == MaxHalvings
<1>1. PICK f : SendsBy(f) /\ \A n \in 0 .. L : f[n] \in [D -> Nat]
  BY RequestsSent
<1>2. PICK size \in [0 .. L -> Nat] : SizesBy(size)
  BY TreeSizes
<1>3. L \in Nat /\ MaxAttempts \in Nat /\ <<>> \in D
  BY HalvingConstants DEF CallsInv, TreeInv
<1>4. \A p \in D : calls[p].attempt \in Nat /\ calls[p].attempt <= MaxAttempts
  BY <1>3, CallFacts DEF CallSet
<1> DEFINE Costs(p, n) == f[n][p] <= MaxAttempts * size[n]
    P == {n \in 0 .. L : \A p \in D : Costs(p, n)}
<1>5. 0 \in P
  <2>1. ASSUME NEW p \in D PROVE Costs(p, 0)
    <3>1. f[0][p] = calls[p].attempt /\ size[0] = 1
      BY <1>1, <1>2, Zenon DEF SendsBy, SizesBy
    <3>2. MaxAttempts * 1 = MaxAttempts
      BY <1>3
    <3> QED
      BY <1>4, <3>1, <3>2, Zenon
  <2> HIDE DEF Costs
  <2> QED
    BY <1>3, <2>1
<1>6. ASSUME NEW n \in 1 .. L, n - 1 \in P PROVE n \in P
  <2>0. n - 1 \in 0 .. L /\ n \in 0 .. L
    BY <1>3
  <2>1. ASSUME NEW p \in D PROVE Costs(p, n)
    <3> DEFINE s == size[n - 1]
        a == calls[p].attempt
        x == f[n - 1][Append(p, 1)]
        y == f[n - 1][Append(p, 2)]
    <3>1. s \in Nat /\ size[n] = 1 + 2 * s
      BY <1>2, <2>0, Zenon DEF SizesBy
    <3>2. a \in Nat /\ a <= MaxAttempts
      BY <1>4
    <3>3. CASE HasHalves(p)
      <4>1. Append(p, 1) \in D /\ Append(p, 2) \in D
        BY <3>3, Zenon DEF CallsInv, TreeInv, HasHalves
      <4>2. f[n - 1] \in [D -> Nat]
        BY <1>1, <2>0, Zenon
      <4>3. x \in Nat /\ y \in Nat
        BY <4>1, <4>2
      <4>4. Costs(Append(p, 1), n - 1) /\ Costs(Append(p, 2), n - 1)
        <5> HIDE DEF Costs
        <5> QED
          BY <1>6, <4>1
      <4>5. x <= MaxAttempts * s /\ y <= MaxAttempts * s
        BY <4>4
      <4>6. f[n][p] = a + x + y
        BY <1>1, <3>3, Zenon DEF SendsBy
      <4> HIDE DEF a, x, y, s
      <4>7. a + x + y <= MaxAttempts * (1 + 2 * s)
        BY <1>3, <3>1, <3>2, <4>3, <4>5, TwoHalvesCost
      <4> QED
        BY <3>1, <4>6, <4>7, Zenon
    <3>4. CASE ~HasHalves(p)
      <4>1. f[n][p] = a
        BY <1>1, <3>4, Zenon DEF SendsBy
      <4> DEFINE none == 0
      <4>2. none \in Nat /\ none <= MaxAttempts * s /\ a = a + none + none
        BY <1>3, <3>1, <3>2
      <4> HIDE DEF a, s, none
      <4>3. a + none + none <= MaxAttempts * (1 + 2 * s)
        BY <1>3, <3>1, <3>2, <4>2, TwoHalvesCost
      <4> QED
        BY <3>1, <4>1, <4>2, <4>3, Zenon
    <3> QED
      BY <3>3, <3>4
  <2> HIDE DEF Costs
  <2> QED
    BY <2>0, <2>1
<1>7. \A n \in 0 .. L : n \in P
  <2> HIDE DEF P, L
  <2> QED
    BY <1>3, <1>5, <1>6, UpTo
<1>8. L \in P /\ <<>> \in D
  BY <1>3, <1>7
<1>9. Costs(<<>>, L)
  <2> HIDE DEF Costs
  <2> QED
    BY <1>8
<1> QED
  BY <1>1, <1>2, <1>9, Zenon DEF SendsBy, SizesBy

(* An extraction that halves its text is as good as one call, for any text, *)
(* depth, retries and failures: it reads every character, leaves no call    *)
(* behind, sends a bounded number of requests and raises what its left-most *)
(* failing part raised (retry_llm, _extract_with_halving, _halve_text).     *)
THEOREM HalvingStaysOneCall == CallsSpec => []HalvingIsOneCall
<1>1. CallsInv => HalvingIsOneCall
  BY NothingStaysUnread, NoneLeftBehind, RequestsStayBounded, FirstFailureRaised, Zenon DEF HalvingIsOneCall
<1> QED
  BY CallsStart, CallsStep, <1>1, PTL DEF CallsSpec

-----------------------------------------------------------------------------
(* Merging the answers of a knowledge graph *)

BatchNode == [id : Nat, payload : Payloads]

Batches == [nodes : Seq(BatchNode), edges : Seq(Nat \X Nat)]

BatchesInv == first \in Batches /\ second \in Batches

DistinctIds(ns) == \A i, j \in 1 .. Len(ns) : ns[i].id = ns[j].id => i = j

IdsIn(ns) == {ns[i].id : i \in 1 .. Len(ns)}

LEMMA IdsFinite ==
  ASSUME NEW ns \in Seq(BatchNode)
  PROVE  /\ IsFiniteSet(IdsIn(ns)) /\ IdsIn(ns) \subseteq Nat
         /\ Cardinality(IdsIn(ns)) = Len(ns) <=> DistinctIds(ns)
<1> DEFINE D == 1 .. Len(ns)
    T == IdsIn(ns)
    f == [i \in D |-> ns[i].id]
<1>1. Len(ns) \in Nat /\ \A i \in D : ns[i].id \in Nat
  <2>1. Len(ns) \in Nat /\ \A i \in D : ns[i] \in BatchNode
    OBVIOUS
  <2> QED
    BY <2>1 DEF BatchNode
<1>2. IsFiniteSet(D) /\ Cardinality(D) = Len(ns)
  <2>1. IsFiniteSet(D) /\ Cardinality(D) = IF 1 > Len(ns) THEN 0 ELSE Len(ns) - 1 + 1
    <3> DEFINE L == Len(ns)
    <3>1. 1 \in Int /\ L \in Int
      BY <1>1
    <3> HIDE DEF L
    <3>2. IsFiniteSet(1 .. L) /\ Cardinality(1 .. L) = IF 1 > L THEN 0 ELSE L - 1 + 1
      BY <3>1, FS_Interval
    <3> QED
      BY <3>2 DEF L
  <2> QED
    BY <1>1, <2>1
<1>3. f \in Surjection(D, T)
  BY DEF Surjection, IdsIn
<1>4. f \in Injection(D, T) <=> DistinctIds(ns)
  <2>1. f \in [D -> T]
    BY DEF IdsIn
  <2> QED
    BY <2>1 DEF Injection, IsInjective, DistinctIds
<1>5. IsFiniteSet(T) /\ (Cardinality(T) = Cardinality(D) <=> f \in Injection(D, T))
  <2> HIDE DEF f, D, T
  <2> QED
    BY <1>2, <1>3, FS_Surjection
<1>6. T \subseteq Nat
  BY <1>1 DEF IdsIn
<1> QED
  BY <1>2, <1>4, <1>5, <1>6

LEMMA AnswerParts ==
  ASSUME NEW b \in Batches
  PROVE  /\ b.nodes \in Seq(BatchNode) /\ b.edges \in Seq(Nat \X Nat)
         /\ LocalId(b) = IdsIn(b.nodes)
         /\ UniqueIds(b) <=> DistinctIds(b.nodes)
<1>1. b.nodes \in Seq(BatchNode) /\ b.edges \in Seq(Nat \X Nat)
  BY DEF Batches
<1>2. LocalId(b) = IdsIn(b.nodes)
  BY <1>1 DEF LocalId, IdsIn
<1> QED
  BY <1>1, <1>2, IdsFinite DEF UniqueIds

(* There is a free number among one more than are taken. *)
LEMMA FreshIsFree ==
  ASSUME NEW taken, taken \subseteq Nat, IsFiniteSet(taken), NEW counter \in Nat
  PROVE  Fresh(taken, counter) \in Nat /\ Fresh(taken, counter) \notin taken
<1> DEFINE c == Cardinality(taken)
    R == counter .. counter + c
    S == {k \in R : k \notin taken}
<1>1. c \in Nat
  BY FS_CardinalityType
<1>2. IsFiniteSet(R) /\ Cardinality(R) = c + 1
  <2>1. counter \in Int /\ counter + c \in Int /\ ~(counter > counter + c)
    BY <1>1
  <2>2. IsFiniteSet(R) /\ Cardinality(R) = (counter + c) - counter + 1
    <3> HIDE DEF c
    <3> QED
      BY <2>1, FS_Interval
  <2> QED
    BY <1>1, <2>2
<1>3. S # {}
  <2> SUFFICES ASSUME S = {} PROVE FALSE
    OBVIOUS
  <2>1. R \in SUBSET taken
    OBVIOUS
  <2>2. Cardinality(R) <= Cardinality(taken)
    <3> HIDE DEF R
    <3> QED
      BY <2>1, FS_Subset
  <2> QED
    BY <1>1, <1>2, <2>2
<1>4. S \subseteq 0 .. counter + c
  BY <1>1
<1>5. Min(S) \in S
  <2>1. counter + c \in Nat
    BY <1>1
  <2> DEFINE L == counter + c
  <2> HIDE DEF S, L
  <2> QED
    BY <1>3, <1>4, <2>1, Extremes DEF L
<1>6. Fresh(taken, counter) = Min(S)
  BY DEF Fresh
<1>7. Min(S) \in Nat /\ Min(S) \notin taken
  <2> HIDE DEF R
  <2>1. Min(S) \in R /\ Min(S) \notin taken
    BY <1>5
  <2> QED
    BY <1>1, <2>1 DEF R
<1> QED
  BY <1>6, <1>7

(* A node of the answer has this id and this payload. *)
NamesIn(ns, id, x) == \E i \in 1 .. Len(ns) : ns[i].id = id /\ ns[i].payload = x

LEMMA PayloadNamed ==
  ASSUME NEW b \in Batches, DistinctIds(b.nodes), NEW id, NEW x, NamesIn(b.nodes, id, x)
  PROVE  PayloadOf(b, id) = x /\ id \in LocalId(b)
<1> DEFINE ns == b.nodes
<1>1. DOMAIN ns = 1 .. Len(ns)
  BY AnswerParts
<1>2. PICK i \in 1 .. Len(ns) : ns[i].id = id /\ ns[i].payload = x
  BY DEF NamesIn
<1> DEFINE j == CHOOSE k \in DOMAIN ns : ns[k].id = id
<1>3. j \in DOMAIN ns /\ ns[j].id = id
  BY <1>1, <1>2
<1>4. PayloadOf(b, id) = ns[j].payload
  BY <1>1, <1>2, Zenon DEF PayloadOf
<1> HIDE DEF j
<1>5. i = j
  BY <1>1, <1>2, <1>3 DEF DistinctIds
<1>6. id \in LocalId(b)
  BY <1>1, <1>2 DEF LocalId
<1> QED
  BY <1>2, <1>4, <1>5, <1>6

LEMMA NamedPayload ==
  ASSUME NEW b \in Batches, DistinctIds(b.nodes), NEW id \in LocalId(b)
  PROVE  NamesIn(b.nodes, id, PayloadOf(b, id)) /\ PayloadOf(b, id) \in Payloads
<1>1. DOMAIN b.nodes = 1 .. Len(b.nodes)
  BY AnswerParts
<1>2. PICK i \in 1 .. Len(b.nodes) : b.nodes[i].id = id
  BY <1>1 DEF LocalId
<1>3. NamesIn(b.nodes, id, b.nodes[i].payload)
  BY <1>2 DEF NamesIn
<1>4. b.nodes[i].payload \in Payloads
  <2>1. b.nodes[i] \in BatchNode
    BY AnswerParts
  <2> QED
    BY <2>1 DEF BatchNode
<1> QED
  BY <1>3, <1>4, PayloadNamed

LEMMA NodeAppended ==
  ASSUME NEW ns \in Seq(BatchNode), NEW node \in BatchNode
  PROVE  /\ Append(ns, node) \in Seq(BatchNode)
         /\ IdsIn(Append(ns, node)) = IdsIn(ns) \cup {node.id}
         /\ DistinctIds(ns) /\ node.id \notin IdsIn(ns) => DistinctIds(Append(ns, node))
         /\ NamesIn(Append(ns, node), node.id, node.payload)
         /\ \A id, x : NamesIn(ns, id, x) => NamesIn(Append(ns, node), id, x)
<1> DEFINE u == Append(ns, node)
<1>1. /\ u \in Seq(BatchNode) /\ Len(u) = Len(ns) + 1 /\ Len(ns) \in Nat
      /\ u[Len(ns) + 1] = node /\ \A n \in 1 .. Len(ns) : u[n] = ns[n]
  BY AppendFacts
<1> HIDE DEF u
<1>2. IdsIn(u) = IdsIn(ns) \cup {node.id}
  BY <1>1 DEF IdsIn
<1>3. ASSUME DistinctIds(ns), node.id \notin IdsIn(ns) PROVE DistinctIds(u)
  <2> SUFFICES ASSUME NEW i \in 1 .. Len(u), NEW j \in 1 .. Len(u), u[i].id = u[j].id PROVE i = j
    BY DEF DistinctIds
  <2>1. CASE i \in 1 .. Len(ns) /\ j \in 1 .. Len(ns)
    BY <1>1, <1>3, <2>1 DEF DistinctIds
  <2>2. CASE i \notin 1 .. Len(ns) /\ j \in 1 .. Len(ns)
    BY <1>1, <1>3, <2>2 DEF IdsIn
  <2>3. CASE i \in 1 .. Len(ns) /\ j \notin 1 .. Len(ns)
    BY <1>1, <1>3, <2>3 DEF IdsIn
  <2>4. CASE i \notin 1 .. Len(ns) /\ j \notin 1 .. Len(ns)
    BY <1>1, <2>4
  <2> QED
    BY <2>1, <2>2, <2>3, <2>4
<1>4. NamesIn(u, node.id, node.payload)
  <2>1. Len(ns) + 1 \in 1 .. Len(u) /\ u[Len(ns) + 1] = node
    BY <1>1
  <2> QED
    BY <2>1 DEF NamesIn
<1>5. ASSUME NEW id, NEW x, NamesIn(ns, id, x) PROVE NamesIn(u, id, x)
  <2>1. PICK i \in 1 .. Len(ns) : ns[i].id = id /\ ns[i].payload = x
    BY <1>5 DEF NamesIn
  <2>2. i \in 1 .. Len(u) /\ u[i] = ns[i]
    BY <1>1, <2>1
  <2> QED
    BY <2>1, <2>2 DEF NamesIn
<1> QED
  BY <1>1, <1>2, <1>3, <1>4, <1>5 DEF u

LEMMA TwinFound ==
  ASSUME NEW p \in Batches, NEW x, Twins(p, x) # {}
  PROVE  /\ p.nodes[Min(Twins(p, x))].id \in Nat
         /\ Min(Twins(p, x)) \in 1 .. Len(p.nodes)
         /\ p.nodes[Min(Twins(p, x))].payload = x
<1> DEFINE L == Len(p.nodes)
    T == Twins(p, x)
<1>1. L \in Nat /\ DOMAIN p.nodes = 1 .. L /\ \A i \in 1 .. L : p.nodes[i] \in BatchNode
  BY AnswerParts
<1>2. T \subseteq 0 .. L /\ \A k \in T : k \in 1 .. L /\ p.nodes[k].payload = x
  BY <1>1 DEF Twins
<1>3. Min(T) \in T
  <2>1. T # {}
    OBVIOUS
  <2> HIDE DEF T, L
  <2> QED
    BY <1>1, <1>2, <2>1, Extremes
<1>4. Min(T) \in 1 .. L /\ p.nodes[Min(T)].payload = x
  BY <1>2, <1>3
<1>5. p.nodes[Min(T)].id \in Nat
  <2> HIDE DEF T, L
  <2> QED
    BY <1>1, <1>4 DEF BatchNode
<1> QED
  BY <1>4, <1>5

Accs == {a \in [taken : SUBSET Nat, counter : Nat, remap : SUBSET (Nat \X Nat), nodes : Seq(BatchNode)] :
           IsFiniteSet(a.taken)}

LEMMA AddSecondIn ==
  ASSUME NEW p \in Batches, NEW acc \in Accs, NEW node \in BatchNode, NEW d \in BOOLEAN
  PROVE  AddSecond(acc, node, p, d) \in Accs
<1>1. /\ acc \in [taken : SUBSET Nat, counter : Nat, remap : SUBSET (Nat \X Nat), nodes : Seq(BatchNode)]
      /\ IsFiniteSet(acc.taken)
  BY DEF Accs
<1>2. node.id \in Nat /\ node.payload \in Payloads
  BY DEF BatchNode
<1>3. CASE d /\ Twins(p, node.payload) # {}
  <2> DEFINE to == p.nodes[Min(Twins(p, node.payload))].id
  <2>1. to \in Nat
    BY <1>3, TwinFound
  <2>2. AddSecond(acc, node, p, d) = [acc EXCEPT !.remap = @ \cup {<<node.id, to>>}]
    BY <1>3, Zenon DEF AddSecond
  <2> HIDE DEF to
  <2>3. acc.remap \cup {<<node.id, to>>} \in SUBSET (Nat \X Nat)
    BY <1>1, <1>2, <2>1
  <2> DEFINE r == [acc EXCEPT !.remap = @ \cup {<<node.id, to>>}]
  <2>4. /\ r \in [taken : SUBSET Nat, counter : Nat, remap : SUBSET (Nat \X Nat), nodes : Seq(BatchNode)]
        /\ r.taken = acc.taken
    BY <1>1, <2>3
  <2> HIDE DEF r
  <2>5. r \in Accs
    BY <1>1, <2>4 DEF Accs
  <2> QED
    BY <2>2, <2>5 DEF r
<1>4. CASE ~(d /\ Twins(p, node.payload) # {})
  <2> DEFINE new == Fresh(acc.taken, acc.counter)
      nn == [id |-> new, payload |-> node.payload]
      r == [taken |-> acc.taken \cup {new}, counter |-> new + 1,
            remap |-> acc.remap \cup {<<node.id, new>>}, nodes |-> Append(acc.nodes, nn)]
  <2>1. AddSecond(acc, node, p, d) = r
    BY <1>4, Zenon DEF AddSecond
  <2>2. new \in Nat
    <3>1. acc.taken \subseteq Nat /\ acc.counter \in Nat
      BY <1>1
    <3> QED
      BY <1>1, <3>1, FreshIsFree
  <2> HIDE DEF new
  <2>3. acc.taken \cup {new} \in SUBSET Nat /\ acc.remap \cup {<<node.id, new>>} \in SUBSET (Nat \X Nat)
    BY <1>1, <1>2, <2>2
  <2>4. IsFiniteSet(acc.taken \cup {new})
    BY <1>1, FS_AddElement
  <2>5. nn \in BatchNode
    BY <1>2, <2>2 DEF BatchNode
  <2>6. Append(acc.nodes, nn) \in Seq(BatchNode)
    <3>1. acc.nodes \in Seq(BatchNode)
      BY <1>1
    <3> HIDE DEF nn
    <3> QED
      BY <2>5, <3>1, AppendFacts
  <2> HIDE DEF nn
  <2>7. r \in [taken : SUBSET Nat, counter : Nat, remap : SUBSET (Nat \X Nat), nodes : Seq(BatchNode)]
    BY <2>2, <2>3, <2>6
  <2>8. r.taken = acc.taken \cup {new}
    OBVIOUS
  <2> HIDE DEF r
  <2>9. r \in Accs
    BY <2>4, <2>7, <2>8 DEF Accs
  <2> QED
    BY <2>1, <2>9
<1> QED
  BY <1>3, <1>4

AddedBy(p, s, d, f) ==
  /\ f[0] = [taken |-> LocalId(p), counter |-> Len(p.nodes), remap |-> {}, nodes |-> <<>>]
  /\ f[Len(s.nodes)] = SecondAdded(p, s, d)
  /\ \A n \in 1 .. Len(s.nodes) : f[n] = AddSecond(f[n - 1], s.nodes[n], p, d)

LEMMA AddedEach ==
  ASSUME NEW p \in Batches, NEW s \in Batches, NEW d \in BOOLEAN
  PROVE  \E f \in [0 .. Len(s.nodes) -> Accs] : AddedBy(p, s, d, f)
<1> DEFINE L == Len(s.nodes)
    X == Accs
    start == [taken |-> LocalId(p), counter |-> Len(p.nodes), remap |-> {}, nodes |-> <<>>]
    T == [w \in X \X (1 .. L) |-> AddSecond(w[1], s.nodes[w[2]], p, d)]
    Then(g, n) == IF n = 0 THEN start ELSE AddSecond(g[n - 1], s.nodes[n], p, d)
    Solves(g) == g = [n \in 0 .. L |-> Then(g, n)]
<1>1. L \in Nat /\ \A n \in 1 .. L : s.nodes[n] \in BatchNode
  BY AnswerParts
<1>2. start \in X
  <2> DEFINE k == LocalId(p)
      l == Len(p.nodes)
      none == <<>>
      m == {}
  <2>1. k \in SUBSET Nat /\ IsFiniteSet(k) /\ l \in Nat
    BY AnswerParts, IdsFinite
  <2>2. none \in Seq(BatchNode) /\ m \in SUBSET (Nat \X Nat)
    OBVIOUS
  <2> HIDE DEF k, l, none, m
  <2>3. [taken |-> k, counter |-> l, remap |-> m, nodes |-> none] \in Accs
    BY <2>1, <2>2 DEF Accs
  <2> QED
    BY <2>3 DEF k, l, none, m
<1>3. StaysIn(T, X, L)
  <2>1. ASSUME NEW w \in X \X (1 .. L) PROVE AddSecond(w[1], s.nodes[w[2]], p, d) \in X
    <3>1. w[1] \in Accs /\ s.nodes[w[2]] \in BatchNode
      BY <1>1
    <3> QED
      BY <3>1, AddSecondIn
  <2> HIDE DEF X, L
  <2> QED
    BY <2>1 DEF StaysIn
<1>4. PICK f \in [0 .. L -> X] : f[0] = start /\ \A n \in 1 .. L : f[n] = T[<<f[n - 1], n>>]
  <2> HIDE DEF X, L, T, start
  <2> QED
    BY <1>1, <1>2, <1>3, Iterated
<1> HIDE DEF start
<1>5. ASSUME NEW n \in 1 .. L PROVE f[n] = AddSecond(f[n - 1], s.nodes[n], p, d)
  <2>1. f[n - 1] \in X
    <3> HIDE DEF X
    <3> QED
      BY <1>1
  <2>2. T[<<f[n - 1], n>>] = AddSecond(f[n - 1], s.nodes[n], p, d)
    <3> HIDE DEF X, L
    <3> QED
      BY <2>1
  <2> QED
    BY <1>4, <2>2, Zenon
<1>6. Solves(f)
  <2>1. f = [n \in 0 .. L |-> f[n]]
    OBVIOUS
  <2>2. ASSUME NEW n \in 0 .. L PROVE f[n] = Then(f, n)
    <3>1. CASE n = 0
      BY <1>4, <3>1
    <3>2. CASE n # 0
      <4>1. n \in 1 .. L
        BY <1>1, <3>2
      <4> QED
        BY <1>5, <3>2, <4>1, Zenon
    <3> QED
      BY <3>1, <3>2
  <2> HIDE DEF Then, L
  <2> QED
    BY <2>1, <2>2
<1> DEFINE g == CHOOSE g : Solves(g)
<1>7. Solves(g)
  <2> HIDE DEF Solves
  <2> QED
    BY <1>6
<1>8. SecondAdded(p, s, d) = g[L]
  BY Zenon DEF SecondAdded, start
<1> HIDE DEF g
<1>9. \A n \in 0 .. L : g[n] = Then(g, n)
  <2> HIDE DEF Then
  <2> QED
    BY <1>7
<1>10. g[0] = start /\ \A n \in 1 .. L : g[n] = AddSecond(g[n - 1], s.nodes[n], p, d)
  BY <1>1, <1>9
<1> DEFINE P == {n \in 0 .. L : g[n] \in X}
<1>11. 0 \in P
  BY <1>1, <1>2, <1>10
<1>12. ASSUME NEW n \in 1 .. L, n - 1 \in P PROVE n \in P
  <2>1. g[n - 1] \in Accs /\ s.nodes[n] \in BatchNode /\ n \in 0 .. L
    BY <1>1, <1>12
  <2>2. AddSecond(g[n - 1], s.nodes[n], p, d) \in Accs
    BY <2>1, AddSecondIn
  <2> QED
    BY <1>10, <2>1, <2>2
<1>13. \A n \in 0 .. L : n \in P
  <2> HIDE DEF P
  <2> QED
    BY <1>1, <1>11, <1>12, UpTo
<1>14. g \in [0 .. L -> X]
  <2>1. g = [n \in 0 .. L |-> Then(g, n)]
    BY <1>7
  <2> HIDE DEF Then, X, L
  <2> QED
    BY <1>13, <2>1
<1> QED
  <2>1. AddedBy(p, s, d, g)
    BY <1>8, <1>10, Zenon DEF AddedBy, start
  <2> QED
    BY <1>14, <2>1

(* The nodes n of the answer s are in the first one or behind it. *)
AccInv(acc, n, p, s, d) ==
  LET all == p.nodes \o acc.nodes
  IN  /\ DistinctIds(all) /\ acc.taken = IdsIn(all)
      /\ \A m \in acc.remap : \E i \in 1 .. n :
           m[1] = s.nodes[i].id /\ NamesIn(all, m[2], s.nodes[i].payload)
      /\ \A i \in 1 .. n : \E m \in acc.remap : m[1] = s.nodes[i].id
      /\ d /\ (\A i \in 1 .. Len(s.nodes) : Twins(p, s.nodes[i].payload) # {}) => acc.nodes = <<>>

LEMMA AccStart ==
  ASSUME NEW p \in Batches, NEW s, NEW d, NEW acc, DistinctIds(p.nodes),
         acc = [taken |-> LocalId(p), counter |-> Len(p.nodes), remap |-> {}, nodes |-> <<>>]
  PROVE  AccInv(acc, 0, p, s, d)
<1> DEFINE all == p.nodes \o acc.nodes
<1>1. all = p.nodes
  BY AnswerParts
<1>2. acc.taken = IdsIn(p.nodes) /\ acc.remap = {} /\ acc.nodes = <<>>
  BY AnswerParts
<1> QED
  BY <1>1, <1>2 DEF AccInv

LEMMA AccStep ==
  ASSUME NEW p \in Batches, NEW s \in Batches, NEW d \in BOOLEAN, NEW acc \in Accs,
         NEW n \in 1 .. Len(s.nodes), AccInv(acc, n - 1, p, s, d)
  PROVE  AccInv(AddSecond(acc, s.nodes[n], p, d), n, p, s, d)
<1> DEFINE node == s.nodes[n]
    L == Len(s.nodes)
    all == p.nodes \o acc.nodes
    next == AddSecond(acc, node, p, d)
    then == p.nodes \o next.nodes
<1>1. /\ L \in Nat /\ n \in 1 .. L /\ node \in BatchNode /\ p.nodes \in Seq(BatchNode)
      /\ \A i \in 1 .. n : i \in 1 .. n - 1 \/ i = n
      /\ \A i \in 1 .. n - 1 : i \in 1 .. n
  BY AnswerParts
<1>2. /\ acc \in [taken : SUBSET Nat, counter : Nat, remap : SUBSET (Nat \X Nat), nodes : Seq(BatchNode)]
      /\ IsFiniteSet(acc.taken)
  BY DEF Accs
<1>3. node.id \in Nat /\ node.payload \in Payloads
  BY <1>1 DEF BatchNode
<1>4. all \in Seq(BatchNode) /\ Len(p.nodes) \in Nat /\ Len(all) = Len(p.nodes) + Len(acc.nodes)
      /\ Len(acc.nodes) \in Nat /\ \A k \in 1 .. Len(p.nodes) : k \in 1 .. Len(all) /\ all[k] = p.nodes[k]
  <2>1. acc.nodes \in Seq(BatchNode)
    BY <1>2
  <2> DEFINE ns == acc.nodes
      ps == p.nodes
  <2>2. ns \in Seq(BatchNode) /\ ps \in Seq(BatchNode)
    BY <1>1, <2>1
  <2> HIDE DEF ns, ps
  <2>3. ps \o ns \in Seq(BatchNode) /\ Len(ps) \in Nat /\ Len(ps \o ns) = Len(ps) + Len(ns)
        /\ Len(ns) \in Nat
        /\ \A k \in 1 .. Len(ps) : k \in 1 .. Len(ps \o ns) /\ (ps \o ns)[k] = ps[k]
    <3>1. ps \o ns \in Seq(BatchNode) /\ Len(ps) \in Nat /\ Len(ps \o ns) = Len(ps) + Len(ns)
          /\ Len(ns) \in Nat /\ \A k \in 1 .. Len(ps) : (ps \o ns)[k] = ps[k]
      BY <2>2, Concatenated
    <3>2. \A k \in 1 .. Len(ps) : k \in 1 .. Len(ps) + Len(ns)
      BY <3>1
    <3> QED
      BY <3>1, <3>2, Zenon
  <2> QED
    BY <2>3 DEF ns, ps
<1>5. /\ DistinctIds(all) /\ acc.taken = IdsIn(all)
      /\ \A m \in acc.remap : \E i \in 1 .. n - 1 :
           m[1] = s.nodes[i].id /\ NamesIn(all, m[2], s.nodes[i].payload)
      /\ \A i \in 1 .. n - 1 : \E m \in acc.remap : m[1] = s.nodes[i].id
      /\ d /\ (\A i \in 1 .. L : Twins(p, s.nodes[i].payload) # {}) => acc.nodes = <<>>
  BY Zenon DEF AccInv
<1> HIDE DEF node, L, all
<1>6. CASE d /\ Twins(p, node.payload) # {}
  <2> DEFINE k == Min(Twins(p, node.payload))
      to == p.nodes[k].id
  <2>1. to \in Nat /\ k \in 1 .. Len(p.nodes) /\ p.nodes[k].payload = node.payload
    BY <1>6, TwinFound
  <2>2. next = [acc EXCEPT !.remap = @ \cup {<<node.id, to>>}]
    BY <1>6, Zenon DEF AddSecond
  <2> HIDE DEF k, next
  <2>3. next.taken = acc.taken /\ next.remap = acc.remap \cup {<<node.id, to>>} /\ next.nodes = acc.nodes
    BY <1>2, <2>2
  <2>4. then = all
    BY <2>3 DEF all
  <2>5. NamesIn(all, to, node.payload)
    <3>1. k \in 1 .. Len(all) /\ all[k] = p.nodes[k]
      BY <1>4, <2>1
    <3> QED
      BY <2>1, <3>1 DEF NamesIn
  <2> HIDE DEF to
  <2>6. ASSUME NEW m \in next.remap
        PROVE  \E i \in 1 .. n : m[1] = s.nodes[i].id /\ NamesIn(all, m[2], s.nodes[i].payload)
    <3>1. CASE m \in acc.remap
      BY <1>1, <1>5, <3>1
    <3>2. CASE m = <<node.id, to>>
      <4>1. n \in 1 .. n /\ m[1] = s.nodes[n].id /\ NamesIn(all, m[2], s.nodes[n].payload)
        BY <1>1, <2>5, <3>2 DEF node
      <4> QED
        BY <4>1
    <3> QED
      BY <2>3, <3>1, <3>2
  <2>7. ASSUME NEW i \in 1 .. n PROVE \E m \in next.remap : m[1] = s.nodes[i].id
    <3>1. CASE i = n
      <4>1. <<node.id, to>>[1] = s.nodes[i].id
        BY <3>1 DEF node
      <4> QED
        BY <2>3, <4>1
    <3>2. CASE i \in 1 .. n - 1
      BY <1>5, <2>3, <3>2
    <3> QED
      BY <1>1, <3>1, <3>2
  <2> HIDE DEF then
  <2>8. AccInv(next, n, p, s, d)
    <3>1. /\ DistinctIds(then) /\ next.taken = IdsIn(then)
          /\ \A m \in next.remap : \E i \in 1 .. n :
               m[1] = s.nodes[i].id /\ NamesIn(then, m[2], s.nodes[i].payload)
          /\ \A i \in 1 .. n : \E m \in next.remap : m[1] = s.nodes[i].id
          /\ d /\ (\A i \in 1 .. L : Twins(p, s.nodes[i].payload) # {}) => next.nodes = <<>>
      BY <1>5, <2>3, <2>4, <2>6, <2>7
    <3> QED
      BY <3>1, Zenon DEF AccInv, then, L
  <2> QED
    BY <2>8 DEF next, node
<1>7. CASE ~(d /\ Twins(p, node.payload) # {})
  <2> DEFINE new == Fresh(acc.taken, acc.counter)
      nn == [id |-> new, payload |-> node.payload]
  <2>1. next = [taken |-> acc.taken \cup {new}, counter |-> new + 1,
                remap |-> acc.remap \cup {<<node.id, new>>}, nodes |-> Append(acc.nodes, nn)]
    BY <1>7, Zenon DEF AddSecond
  <2>2. new \in Nat /\ new \notin acc.taken
    <3>1. acc.taken \subseteq Nat /\ acc.counter \in Nat
      BY <1>2
    <3> QED
      BY <1>2, <3>1, FreshIsFree
  <2> HIDE DEF new, next
  <2>3. nn \in BatchNode /\ nn.id = new /\ nn.payload = node.payload
    BY <1>3, <2>2 DEF BatchNode
  <2> HIDE DEF nn
  <2>4. next.taken = acc.taken \cup {new} /\ next.remap = acc.remap \cup {<<node.id, new>>}
        /\ next.nodes = Append(acc.nodes, nn)
    BY <2>1
  <2>5. then = Append(all, nn)
    <3> DEFINE ns == acc.nodes
        ps == p.nodes
    <3>1. ns \in Seq(BatchNode) /\ ps \in Seq(BatchNode)
      BY <1>1, <1>2
    <3> HIDE DEF ns, ps
    <3>2. ps \o Append(ns, nn) = Append(ps \o ns, nn)
      BY <2>3, <3>1, AppendAfter
    <3> QED
      BY <2>4, <3>2 DEF ns, ps, all
  <2> HIDE DEF then
  <2>6. /\ IdsIn(then) = IdsIn(all) \cup {new}
        /\ DistinctIds(then) /\ NamesIn(then, new, node.payload)
        /\ \A id, x : NamesIn(all, id, x) => NamesIn(then, id, x)
    <3> DEFINE u == Append(all, nn)
    <3>1. /\ IdsIn(u) = IdsIn(all) \cup {nn.id}
          /\ DistinctIds(all) /\ nn.id \notin IdsIn(all) => DistinctIds(u)
          /\ NamesIn(u, nn.id, nn.payload)
          /\ \A id, x : NamesIn(all, id, x) => NamesIn(u, id, x)
      BY <1>4, <2>3, NodeAppended
    <3> HIDE DEF u
    <3>2. then = u
      BY <2>5 DEF u
    <3> QED
      BY <1>5, <2>2, <2>3, <3>1, <3>2
  <2>7. ASSUME NEW m \in next.remap
        PROVE  \E i \in 1 .. n : m[1] = s.nodes[i].id /\ NamesIn(then, m[2], s.nodes[i].payload)
    <3>1. CASE m \in acc.remap
      <4>1. PICK i \in 1 .. n - 1 : m[1] = s.nodes[i].id /\ NamesIn(all, m[2], s.nodes[i].payload)
        BY <1>5, <3>1
      <4> QED
        BY <1>1, <2>6, <4>1
    <3>2. CASE m = <<node.id, new>>
      <4>1. n \in 1 .. n /\ m[1] = s.nodes[n].id /\ NamesIn(then, m[2], s.nodes[n].payload)
        BY <1>1, <2>6, <3>2 DEF node
      <4> QED
        BY <4>1
    <3> QED
      BY <2>4, <3>1, <3>2
  <2>8. ASSUME NEW i \in 1 .. n PROVE \E m \in next.remap : m[1] = s.nodes[i].id
    <3>1. CASE i = n
      <4>1. <<node.id, new>>[1] = s.nodes[i].id
        BY <3>1 DEF node
      <4> QED
        BY <2>4, <4>1
    <3>2. CASE i \in 1 .. n - 1
      BY <1>5, <2>4, <3>2
    <3> QED
      BY <1>1, <3>1, <3>2
  <2>9. ~(d /\ \A i \in 1 .. L : Twins(p, s.nodes[i].payload) # {})
    BY <1>1, <1>7 DEF node
  <2>10. AccInv(next, n, p, s, d)
    <3>1. next.taken = IdsIn(then)
      BY <1>5, <2>4, <2>6
    <3>2. /\ \A m \in next.remap : \E i \in 1 .. n :
               m[1] = s.nodes[i].id /\ NamesIn(then, m[2], s.nodes[i].payload)
          /\ \A i \in 1 .. n : \E m \in next.remap : m[1] = s.nodes[i].id
      BY <2>7, <2>8
    <3> QED
      BY <2>6, <2>9, <3>1, <3>2, Zenon DEF AccInv, then, L
  <2> QED
    BY <2>10 DEF next, node
<1> QED
  BY <1>6, <1>7

LEMMA AllAdded ==
  ASSUME NEW p \in Batches, NEW s \in Batches, NEW d \in BOOLEAN, DistinctIds(p.nodes)
  PROVE  /\ SecondAdded(p, s, d) \in Accs
         /\ AccInv(SecondAdded(p, s, d), Len(s.nodes), p, s, d)
<1> DEFINE L == Len(s.nodes)
<1>1. L \in Nat
  BY AnswerParts
<1>2. PICK f \in [0 .. L -> Accs] : AddedBy(p, s, d, f)
  BY AddedEach
<1>3. /\ f[0] = [taken |-> LocalId(p), counter |-> Len(p.nodes), remap |-> {}, nodes |-> <<>>]
      /\ f[L] = SecondAdded(p, s, d)
      /\ \A n \in 1 .. L : f[n] = AddSecond(f[n - 1], s.nodes[n], p, d)
  BY <1>2, Zenon DEF AddedBy
<1> DEFINE P == {n \in 0 .. L : AccInv(f[n], n, p, s, d)}
<1>4. 0 \in P
  <2>1. AccInv(f[0], 0, p, s, d)
    BY <1>3, AccStart
  <2> QED
    BY <1>1, <2>1
<1>5. ASSUME NEW n \in 1 .. L, n - 1 \in P PROVE n \in P
  <2>1. AccInv(f[n - 1], n - 1, p, s, d) /\ f[n - 1] \in Accs /\ n \in 0 .. L
    BY <1>1, <1>5
  <2>2. AccInv(AddSecond(f[n - 1], s.nodes[n], p, d), n, p, s, d)
    BY <2>1, AccStep
  <2>3. f[n] = AddSecond(f[n - 1], s.nodes[n], p, d)
    BY <1>3
  <2> QED
    BY <2>1, <2>2, <2>3
<1>6. \A n \in 0 .. L : n \in P
  <2> HIDE DEF P, L
  <2> QED
    BY <1>1, <1>4, <1>5, UpTo
<1>7. L \in 0 .. L
  BY <1>1
<1>8. f[L] \in Accs /\ AccInv(f[L], L, p, s, d)
  BY <1>6, <1>7
<1> QED
  BY <1>3, <1>8

LEMMA RewriteIs ==
  ASSUME NEW map, NEW id
  PROVE  /\ (\E m \in map : m[1] = id) => \E m \in map : m[1] = id /\ m[2] = Rewrite(map, id)
         /\ ~(\E m \in map : m[1] = id) => Rewrite(map, id) = id
<1>1. ASSUME \E m \in map : m[1] = id PROVE \E m \in map : m[1] = id /\ m[2] = Rewrite(map, id)
  <2> DEFINE c == CHOOSE m \in map : m[1] = id
  <2>1. c \in map /\ c[1] = id
    BY <1>1
  <2>2. Rewrite(map, id) = c[2]
    BY <1>1, Zenon DEF Rewrite
  <2> HIDE DEF c
  <2> QED
    BY <2>1, <2>2
<1>2. ASSUME ~(\E m \in map : m[1] = id) PROVE Rewrite(map, id) = id
  BY <1>2, Zenon DEF Rewrite
<1> QED
  BY <1>1, <1>2

LEMMA RewriteIn ==
  ASSUME NEW map \in SUBSET (Nat \X Nat), NEW id \in Nat
  PROVE  Rewrite(map, id) \in Nat
BY RewriteIs

(* The edges of s under the ids of the merged answer. *)
RewrittenEdges(p, s, d) ==
  LET map == SecondAdded(p, s, d).remap
  IN  [i \in DOMAIN s.edges |-> <<Rewrite(map, s.edges[i][1]), Rewrite(map, s.edges[i][2])>>]

LEMMA EdgesRewritten ==
  ASSUME NEW p \in Batches, NEW s \in Batches, NEW d \in BOOLEAN, DistinctIds(p.nodes)
  PROVE  /\ RewrittenEdges(p, s, d) \in Seq(Nat \X Nat)
         /\ Len(RewrittenEdges(p, s, d)) = Len(s.edges)
         /\ \A i \in 1 .. Len(s.edges) :
              RewrittenEdges(p, s, d)[i] = <<Rewrite(SecondAdded(p, s, d).remap, s.edges[i][1]),
                                             Rewrite(SecondAdded(p, s, d).remap, s.edges[i][2])>>
<1> DEFINE map == SecondAdded(p, s, d).remap
    es == s.edges
    r(i) == <<Rewrite(map, es[i][1]), Rewrite(map, es[i][2])>>
<1>1. map \in SUBSET (Nat \X Nat)
  <2>1. SecondAdded(p, s, d) \in Accs
    BY AllAdded
  <2> QED
    BY <2>1 DEF Accs
<1>2. es \in Seq(Nat \X Nat)
  BY AnswerParts
<1> HIDE DEF map, es
<1>3. Len(es) \in Nat /\ DOMAIN es = 1 .. Len(es) /\ \A i \in 1 .. Len(es) : es[i] \in Nat \X Nat
  BY <1>2
<1>4. ASSUME NEW i \in 1 .. Len(es) PROVE r(i) \in Nat \X Nat
  <2>1. es[i][1] \in Nat /\ es[i][2] \in Nat
    BY <1>3
  <2>2. Rewrite(map, es[i][1]) \in Nat /\ Rewrite(map, es[i][2]) \in Nat
    BY <1>1, <2>1, RewriteIn
  <2> QED
    BY <2>2
<1>5. RewrittenEdges(p, s, d) = [i \in 1 .. Len(es) |-> r(i)]
  BY <1>3 DEF RewrittenEdges, map, es
<1> HIDE DEF r
<1> DEFINE f == [i \in 1 .. Len(es) |-> r(i)]
<1>6. f \in Seq(Nat \X Nat) /\ Len(f) = Len(es) /\ \A i \in 1 .. Len(es) : f[i] = r(i)
  BY <1>3, <1>4
<1> QED
  BY <1>5, <1>6 DEF r, es, map

LEMMA MergedIs ==
  ASSUME NEW p \in Batches, NEW s \in Batches, NEW d \in BOOLEAN, DistinctIds(p.nodes)
  PROVE  LET r == RewrittenEdges(p, s, d)
         IN  /\ MergeBatches(p, s, d) \in Batches
             /\ MergeBatches(p, s, d).nodes = p.nodes \o SecondAdded(p, s, d).nodes
             /\ MergeBatches(p, s, d).edges = p.edges \o IF d THEN Among(r, ToSet(r) \ ToSet(p.edges)) ELSE r
<1> DEFINE r == RewrittenEdges(p, s, d)
    new == SecondAdded(p, s, d).nodes
    es == IF d THEN Among(r, ToSet(r) \ ToSet(p.edges)) ELSE r
    m == MergeBatches(p, s, d)
<1>1. m = [nodes |-> p.nodes \o new, edges |-> p.edges \o es]
  BY Zenon DEF MergeBatches, RewrittenEdges
<1>2. r \in Seq(Nat \X Nat)
  BY EdgesRewritten
<1>3. es \in Seq(Nat \X Nat)
  <2> HIDE DEF r
  <2> QED
    BY <1>2, AmongIn
<1>4. new \in Seq(BatchNode)
  <2>1. SecondAdded(p, s, d) \in Accs
    BY AllAdded
  <2> QED
    BY <2>1 DEF Accs
<1> HIDE DEF es, new, m
<1>5. p.nodes \o new \in Seq(BatchNode)
  BY <1>4, AnswerParts
<1>6. p.edges \o es \in Seq(Nat \X Nat)
  BY <1>3, AnswerParts
<1> DEFINE ns == p.nodes \o new
    ws == p.edges \o es
<1> HIDE DEF ns, ws
<1>7. m.nodes = ns /\ m.edges = ws /\ m \in Batches
  <2>1. m = [nodes |-> ns, edges |-> ws] /\ ns \in Seq(BatchNode) /\ ws \in Seq(Nat \X Nat)
    BY <1>1, <1>5, <1>6 DEF ns, ws
  <2> QED
    BY <2>1 DEF Batches
<1> QED
  BY <1>7 DEF m, ns, ws, es, new

(* Merged answers: what every id of either is now, and names. *)
LEMMA MergedNames ==
  ASSUME NEW p \in Batches, NEW s \in Batches, NEW d \in BOOLEAN, DistinctIds(p.nodes), DistinctIds(s.nodes)
  PROVE  LET m == MergeBatches(p, s, d)
             r(id) == Rewrite(SecondAdded(p, s, d).remap, id)
         IN  /\ DistinctIds(m.nodes)
             /\ \A id \in LocalId(p) : id \in LocalId(m) /\ PayloadOf(m, id) = PayloadOf(p, id)
             /\ \A id \in LocalId(s) : r(id) \in LocalId(m) /\ PayloadOf(m, r(id)) = PayloadOf(s, id)
             /\ \A id : id \notin LocalId(s) => r(id) = id
<1> DEFINE m == MergeBatches(p, s, d)
    acc == SecondAdded(p, s, d)
    L == Len(s.nodes)
    r(id) == Rewrite(acc.remap, id)
<1>1. m \in Batches /\ m.nodes = p.nodes \o acc.nodes
  BY MergedIs
<1>2. AccInv(acc, L, p, s, d)
  BY AllAdded
<1> HIDE DEF m, acc
<1>3. /\ DistinctIds(m.nodes)
      /\ \A c \in acc.remap : \E i \in 1 .. L : c[1] = s.nodes[i].id /\ NamesIn(m.nodes, c[2], s.nodes[i].payload)
      /\ \A i \in 1 .. L : \E c \in acc.remap : c[1] = s.nodes[i].id
  BY <1>1, <1>2, Zenon DEF AccInv
<1>4. ASSUME NEW id \in LocalId(p) PROVE id \in LocalId(m) /\ PayloadOf(m, id) = PayloadOf(p, id)
  <2>1. NamesIn(p.nodes, id, PayloadOf(p, id))
    BY NamedPayload
  <2>2. PICK i \in 1 .. Len(p.nodes) : p.nodes[i].id = id /\ p.nodes[i].payload = PayloadOf(p, id)
    BY <2>1 DEF NamesIn
  <2>3. i \in 1 .. Len(m.nodes) /\ m.nodes[i] = p.nodes[i]
    <3> DEFINE ps == p.nodes
        ns == m.nodes
        as == acc.nodes
    <3>1. ps \in Seq(BatchNode) /\ as \in Seq(BatchNode) /\ ns = ps \o as /\ i \in 1 .. Len(ps)
      <4>1. acc \in Accs
        BY AllAdded DEF acc
      <4> QED
        BY <1>1, <4>1, AnswerParts DEF Accs
    <3> HIDE DEF ps, ns, as
    <3>4. i \in 1 .. Len(ns) /\ ns[i] = ps[i]
      BY <3>1, JoinedLeft
    <3> QED
      BY <3>4 DEF ns, ps
  <2>4. NamesIn(m.nodes, id, PayloadOf(p, id))
    BY <2>2, <2>3 DEF NamesIn
  <2> QED
    BY <1>1, <1>3, <2>4, PayloadNamed
<1>5. ASSUME NEW id \in LocalId(s) PROVE r(id) \in LocalId(m) /\ PayloadOf(m, r(id)) = PayloadOf(s, id)
  <2>1. PICK i \in 1 .. L : s.nodes[i].id = id
    BY AnswerParts DEF IdsIn
  <2>2. PICK c \in acc.remap : c[1] = id /\ c[2] = r(id)
    <3>1. \E c \in acc.remap : c[1] = id
      BY <1>3, <2>1
    <3> QED
      BY <3>1, RewriteIs
  <2>3. PICK j \in 1 .. L : c[1] = s.nodes[j].id /\ NamesIn(m.nodes, c[2], s.nodes[j].payload)
    BY <1>3
  <2>4. NamesIn(s.nodes, id, s.nodes[j].payload)
    BY <2>2, <2>3 DEF NamesIn
  <2>5. PayloadOf(s, id) = s.nodes[j].payload
    BY <2>4, PayloadNamed
  <2>6. NamesIn(m.nodes, r(id), PayloadOf(s, id))
    BY <2>2, <2>3, <2>5
  <2> HIDE DEF r
  <2> QED
    BY <1>1, <1>3, <2>6, PayloadNamed
<1>6. ASSUME NEW id, id \notin LocalId(s) PROVE r(id) = id
  <2>1. ~ \E c \in acc.remap : c[1] = id
    <3>1. ASSUME NEW c \in acc.remap, c[1] = id PROVE FALSE
      <4>1. PICK i \in 1 .. L : c[1] = s.nodes[i].id
        BY <1>3
      <4> QED
        BY <1>6, <3>1, <4>1, AnswerParts DEF IdsIn
    <3> QED
      BY <3>1
  <2> QED
    BY <2>1, RewriteIs
<1> QED
  BY <1>3, <1>4, <1>5, <1>6 DEF m, acc

KnownEnds(b, ids) == \A i \in 1 .. Len(b.edges) : b.edges[i] \in ids \X ids

LEMMA Dropped ==
  ASSUME NEW b \in Batches, NEW extra
  PROVE  /\ DropDangling(b, extra) \in Batches /\ DropDangling(b, extra).nodes = b.nodes
         /\ DropDangling(b, extra).edges = Among(b.edges, (LocalId(b) \cup extra) \X (LocalId(b) \cup extra))
         /\ LocalId(DropDangling(b, extra)) = LocalId(b)
         /\ \A id : PayloadOf(DropDangling(b, extra), id) = PayloadOf(b, id)
         /\ KnownEnds(DropDangling(b, extra), LocalId(b) \cup extra)
<1> DEFINE known == LocalId(b) \cup extra
    es == Among(b.edges, known \X known)
    c == DropDangling(b, extra)
<1>1. b \in [nodes : Seq(BatchNode), edges : Seq(Nat \X Nat)]
  BY DEF Batches
<1>2. c = [b EXCEPT !.edges = es]
  BY Zenon DEF DropDangling
<1>3. es \in Seq(Nat \X Nat) /\ ToSet(es) \subseteq known \X known
  <2>1. b.edges \in Seq(Nat \X Nat)
    BY <1>1
  <2> DEFINE K == known \X known
  <2> HIDE DEF known, K
  <2>2. Among(b.edges, K) \in Seq(Nat \X Nat) /\ ToSet(Among(b.edges, K)) = ToSet(b.edges) \cap K
    BY <2>1, AmongIn, AmongMembers
  <2> QED
    BY <2>2 DEF K
<1> HIDE DEF es, known, c
<1>4. c \in Batches /\ c.nodes = b.nodes /\ c.edges = es
  BY <1>1, <1>2, <1>3 DEF Batches
<1>5. LocalId(c) = LocalId(b)
  BY <1>4 DEF LocalId
<1>6. \A id : PayloadOf(c, id) = PayloadOf(b, id)
  BY <1>4, Zenon DEF PayloadOf
<1>7. KnownEnds(c, known)
  <2>1. \A i \in 1 .. Len(es) : es[i] \in ToSet(es)
    BY <1>3 DEF ToSet
  <2> QED
    BY <1>3, <1>4, <2>1 DEF KnownEnds
<1> QED
  BY <1>4, <1>5, <1>6, <1>7 DEF c, es, known

LEMMA PayloadsOfEdges ==
  ASSUME NEW b \in Batches, DistinctIds(b.nodes), KnownEnds(b, LocalId(b))
  PROVE  /\ EdgePayloads(b) \in Seq(Payloads \X Payloads) /\ Len(EdgePayloads(b)) = Len(b.edges)
         /\ Len(b.edges) \in Nat /\ DOMAIN b.edges = 1 .. Len(b.edges)
         /\ \A i \in 1 .. Len(b.edges) :
              /\ b.edges[i][1] \in LocalId(b) /\ b.edges[i][2] \in LocalId(b)
              /\ EdgePayloads(b)[i] = <<PayloadOf(b, b.edges[i][1]), PayloadOf(b, b.edges[i][2])>>
<1> DEFINE es == b.edges
    n == Len(es)
    e(i) == <<PayloadOf(b, es[i][1]), PayloadOf(b, es[i][2])>>
<1>1. n \in Nat /\ DOMAIN es = 1 .. n
  BY AnswerParts
<1>2. ASSUME NEW i \in 1 .. n PROVE es[i][1] \in LocalId(b) /\ es[i][2] \in LocalId(b) /\ e(i) \in Payloads \X Payloads
  <2>1. es[i][1] \in LocalId(b) /\ es[i][2] \in LocalId(b)
    BY DEF KnownEnds
  <2> QED
    BY <2>1, NamedPayload
<1>3. EdgePayloads(b) = [i \in 1 .. n |-> e(i)]
  BY <1>1 DEF EdgePayloads
<1> HIDE DEF e, n
<1> DEFINE f == [i \in 1 .. n |-> e(i)]
<1>4. f \in Seq(Payloads \X Payloads) /\ Len(f) = n /\ \A i \in 1 .. n : f[i] = e(i)
  BY <1>1, <1>2
<1> QED
  BY <1>1, <1>2, <1>3, <1>4 DEF e, n

(* The pairs of payloads that an answer's edges join. *)
JoinedBy(b, es) == {<<PayloadOf(b, e[1]), PayloadOf(b, e[2])>> : e \in es}

LEMMA PayloadSet ==
  ASSUME NEW b \in Batches
  PROVE  ToSet(EdgePayloads(b)) = JoinedBy(b, ToSet(b.edges))
BY DEF ToSet, EdgePayloads, JoinedBy

LEMMA UniqueMerged ==
  ASSUME BatchesInv
  PROVE  MergedIdsUnique
<1> SUFFICES ASSUME Sound PROVE UniqueIds(Halves) /\ UniqueIds(Gleaned)
  BY DEF MergedIdsUnique
<1>1. /\ first \in Batches /\ second \in Batches
      /\ DistinctIds(first.nodes) /\ DistinctIds(second.nodes)
  BY AnswerParts DEF BatchesInv, Sound
<1>2. ASSUME NEW p \in Batches, NEW s \in Batches, NEW d \in BOOLEAN, p.nodes = first.nodes, s.nodes = second.nodes
      PROVE  UniqueIds(MergeBatches(p, s, d))
  <2>1. DistinctIds(p.nodes) /\ DistinctIds(s.nodes)
    BY <1>1, <1>2
  <2>2. MergeBatches(p, s, d) \in Batches
    BY <2>1, MergedIs
  <2>3. DistinctIds(MergeBatches(p, s, d).nodes)
    BY <2>1, MergedNames
  <2> QED
    BY <2>2, <2>3, AnswerParts
<1>3. UniqueIds(Halves)
  BY <1>1, <1>2, Dropped DEF Halves
<1>4. UniqueIds(Gleaned)
  BY <1>1, <1>2, Dropped DEF Gleaned
<1> QED
  BY <1>3, <1>4

LEMMA HalvesKept ==
  ASSUME BatchesInv
  PROVE  HalvesKeepEdges
<1> SUFFICES ASSUME Sound
             PROVE  EdgePayloads(Halves) =
                      EdgePayloads(DropDangling(first, {})) \o EdgePayloads(DropDangling(second, {}))
  BY DEF HalvesKeepEdges
<1> DEFINE p == DropDangling(first, {})
    s == DropDangling(second, {})
    no == FALSE
    m == MergeBatches(p, s, no)
    re == RewrittenEdges(p, s, no)
    Lp == Len(p.edges)
    Ls == Len(s.edges)
    N == Payloads \X Payloads
<1>1. /\ first \in Batches /\ second \in Batches
      /\ DistinctIds(first.nodes) /\ DistinctIds(second.nodes)
  BY AnswerParts DEF BatchesInv, Sound
<1>2. /\ p \in Batches /\ s \in Batches /\ DistinctIds(p.nodes) /\ DistinctIds(s.nodes)
      /\ KnownEnds(p, LocalId(p)) /\ KnownEnds(s, LocalId(s)) /\ no \in BOOLEAN
  <2>1. ASSUME NEW b \in Batches
        PROVE  /\ DropDangling(b, {}) \in Batches /\ DropDangling(b, {}).nodes = b.nodes
               /\ KnownEnds(DropDangling(b, {}), LocalId(DropDangling(b, {})))
    <3> DEFINE none == {}
        c == DropDangling(b, none)
    <3>1. LocalId(b) \cup none = LocalId(b)
      OBVIOUS
    <3> HIDE DEF none
    <3>2. c \in Batches /\ c.nodes = b.nodes /\ LocalId(c) = LocalId(b) /\ KnownEnds(c, LocalId(b) \cup none)
      BY Dropped
    <3> HIDE DEF c
    <3> QED
      BY <3>1, <3>2 DEF c, none
  <2> QED
    BY <1>1, <2>1
<1>3. Halves = m
  BY DEF Halves
<1> HIDE DEF p, s, no
<1>4. m \in Batches /\ m.edges = p.edges \o re
  <2>1. ~no
    BY DEF no
  <2> QED
    BY <1>2, <2>1, MergedIs
<1>5. /\ DistinctIds(m.nodes)
      /\ \A id \in LocalId(p) : id \in LocalId(m) /\ PayloadOf(m, id) = PayloadOf(p, id)
      /\ \A id \in LocalId(s) : /\ Rewrite(SecondAdded(p, s, no).remap, id) \in LocalId(m)
                                /\ PayloadOf(m, Rewrite(SecondAdded(p, s, no).remap, id)) = PayloadOf(s, id)
  BY <1>2, MergedNames
<1>6. /\ re \in Seq(Nat \X Nat) /\ Len(re) = Ls
      /\ \A i \in 1 .. Ls : re[i] = <<Rewrite(SecondAdded(p, s, no).remap, s.edges[i][1]),
                                      Rewrite(SecondAdded(p, s, no).remap, s.edges[i][2])>>
  BY <1>2, EdgesRewritten
<1>7. /\ EdgePayloads(p) \in Seq(N) /\ Len(EdgePayloads(p)) = Lp /\ Lp \in Nat
      /\ \A i \in 1 .. Lp :
           /\ p.edges[i][1] \in LocalId(p) /\ p.edges[i][2] \in LocalId(p)
           /\ EdgePayloads(p)[i] = <<PayloadOf(p, p.edges[i][1]), PayloadOf(p, p.edges[i][2])>>
  BY <1>2, PayloadsOfEdges
<1>8. /\ EdgePayloads(s) \in Seq(N) /\ Len(EdgePayloads(s)) = Ls /\ Ls \in Nat
      /\ \A i \in 1 .. Ls :
           /\ s.edges[i][1] \in LocalId(s) /\ s.edges[i][2] \in LocalId(s)
           /\ EdgePayloads(s)[i] = <<PayloadOf(s, s.edges[i][1]), PayloadOf(s, s.edges[i][2])>>
  BY <1>2, PayloadsOfEdges
<1> HIDE DEF m, re
<1>9. /\ Len(m.edges) = Lp + Ls
      /\ \A k \in 1 .. Lp : m.edges[k] = p.edges[k]
      /\ \A k \in 1 .. Lp + Ls : k \notin 1 .. Lp => k - Lp \in 1 .. Ls /\ m.edges[k] = re[k - Lp]
  <2> DEFINE a == p.edges
      c == m.edges
  <2>1. a \in Seq(Nat \X Nat) /\ re \in Seq(Nat \X Nat) /\ c = a \o re /\ Len(re) = Ls /\ Len(a) = Lp
    BY <1>2, <1>4, <1>6, AnswerParts
  <2> HIDE DEF a, c, Lp, Ls
  <2>2. /\ Len(c) = Len(a) + Len(re)
        /\ \A k \in 1 .. Len(a) : c[k] = a[k]
        /\ \A k \in 1 .. Len(c) : k \notin 1 .. Len(a) => k - Len(a) \in 1 .. Len(re) /\ c[k] = re[k - Len(a)]
    <3> DEFINE X == Nat \X Nat
    <3>1. a \in Seq(X) /\ re \in Seq(X) /\ c = a \o re
      BY <2>1
    <3> HIDE DEF X
    <3> QED
      BY <3>1, Concatenated
  <2>3. /\ Len(c) = Lp + Ls
        /\ \A k \in 1 .. Lp : c[k] = a[k]
        /\ \A k \in 1 .. Lp + Ls : k \notin 1 .. Lp => k - Lp \in 1 .. Ls /\ c[k] = re[k - Lp]
    <3>1. Len(a) = Lp /\ Len(re) = Ls
      BY <2>1
    <3> QED
      BY <2>2, <3>1
  <2> QED
    BY <2>3 DEF a, c
<1> HIDE DEF Lp, Ls, N
<1>10. ASSUME NEW k \in 1 .. Lp
       PROVE  m.edges[k] \in LocalId(m) \X LocalId(m)
              /\ <<PayloadOf(m, m.edges[k][1]), PayloadOf(m, m.edges[k][2])>> = EdgePayloads(p)[k]
  <2>1. p.edges[k] \in Nat \X Nat
    BY <1>2, AnswerParts DEF Lp
  <2>2. m.edges[k] = p.edges[k] /\ p.edges[k][1] \in LocalId(p) /\ p.edges[k][2] \in LocalId(p)
    BY <1>7, <1>9
  <2> QED
    BY <1>5, <1>7, <2>1, <2>2
<1>11. ASSUME NEW k \in 1 .. Ls
       PROVE  re[k] \in LocalId(m) \X LocalId(m)
              /\ <<PayloadOf(m, re[k][1]), PayloadOf(m, re[k][2])>> = EdgePayloads(s)[k]
  <2>1. s.edges[k][1] \in LocalId(s) /\ s.edges[k][2] \in LocalId(s)
    BY <1>8
  <2> QED
    BY <1>5, <1>6, <1>8, <2>1
<1>12. KnownEnds(m, LocalId(m))
  <2>1. ASSUME NEW k \in 1 .. Len(m.edges) PROVE m.edges[k] \in LocalId(m) \X LocalId(m)
    <3>1. CASE k \in 1 .. Lp
      BY <1>10, <3>1
    <3>2. CASE k \notin 1 .. Lp
      <4>1. k - Lp \in 1 .. Ls /\ m.edges[k] = re[k - Lp]
        BY <1>9, <3>2
      <4> QED
        BY <1>11, <4>1
    <3> QED
      BY <3>1, <3>2
  <2> QED
    BY <2>1 DEF KnownEnds
<1>13. /\ EdgePayloads(m) \in Seq(N) /\ Len(EdgePayloads(m)) = Lp + Ls
       /\ \A k \in 1 .. Lp + Ls :
            EdgePayloads(m)[k] = <<PayloadOf(m, m.edges[k][1]), PayloadOf(m, m.edges[k][2])>>
  BY <1>4, <1>5, <1>9, <1>12, PayloadsOfEdges DEF N
<1> DEFINE a == EdgePayloads(p)
    b == EdgePayloads(s)
    c == a \o b
<1>14. /\ c \in Seq(N) /\ Len(c) = Lp + Ls
       /\ \A k \in 1 .. Lp : c[k] = a[k]
       /\ \A k \in 1 .. Lp + Ls : k \notin 1 .. Lp => k - Lp \in 1 .. Ls /\ c[k] = b[k - Lp]
  <2>1. a \in Seq(N) /\ b \in Seq(N) /\ Len(a) = Lp /\ Len(b) = Ls
    BY <1>7, <1>8
  <2> HIDE DEF a, b
  <2>2. /\ c \in Seq(N) /\ Len(c) = Len(a) + Len(b)
        /\ \A k \in 1 .. Len(a) : c[k] = a[k]
        /\ \A k \in 1 .. Len(c) : k \notin 1 .. Len(a) => k - Len(a) \in 1 .. Len(b) /\ c[k] = b[k - Len(a)]
    BY <2>1, Concatenated
  <2> HIDE DEF c
  <2>3. Len(a) = Lp /\ Len(b) = Ls
    BY <2>1
  <2> QED
    BY <2>2, <2>3
<1> HIDE DEF a, b, c
<1>15. ASSUME NEW k \in 1 .. Lp + Ls PROVE EdgePayloads(m)[k] = c[k]
  <2>1. CASE k \in 1 .. Lp
    BY <1>10, <1>13, <1>14, <2>1 DEF a
  <2>2. CASE k \notin 1 .. Lp
    <3>1. k - Lp \in 1 .. Ls /\ m.edges[k] = re[k - Lp] /\ c[k] = b[k - Lp]
      BY <1>9, <1>14, <2>2
    <3> DEFINE j == k - Lp
    <3> HIDE DEF j
    <3>2. j \in 1 .. Ls /\ m.edges[k] = re[j] /\ c[k] = b[j]
      BY <3>1 DEF j
    <3>3. <<PayloadOf(m, re[j][1]), PayloadOf(m, re[j][2])>> = b[j]
      BY <1>11, <3>2 DEF b
    <3> QED
      BY <1>13, <3>2, <3>3
  <2> QED
    BY <2>1, <2>2
<1>16. EdgePayloads(m) = c
  BY <1>13, <1>14, <1>15, SeqsAgree
<1> QED
  BY <1>3, <1>16 DEF c, a, b, p, s, m

(* The answers of a gleaning call, as it merges them. *)
LEMMA GleanedParts ==
  ASSUME BatchesInv, Sound
  PROVE  LET p == DropDangling(first, {})
             s == DropDangling(second, LocalId(p))
         IN  /\ p \in Batches /\ s \in Batches /\ DistinctIds(p.nodes) /\ DistinctIds(s.nodes)
             /\ KnownEnds(p, LocalId(p)) /\ LocalId(s) = LocalId(second)
             /\ \A id : PayloadOf(s, id) = PayloadOf(second, id)
             /\ ToSet(s.edges) = {e \in ToSet(second.edges) :
                  e[1] \in LocalId(s) \cup LocalId(p) /\ e[2] \in LocalId(s) \cup LocalId(p)}
<1> DEFINE none == {}
    p == DropDangling(first, none)
    K == LocalId(p)
    s == DropDangling(second, K)
<1>1. /\ first \in Batches /\ second \in Batches
      /\ DistinctIds(first.nodes) /\ DistinctIds(second.nodes)
  BY AnswerParts DEF BatchesInv, Sound
<1>2. LocalId(first) \cup none = LocalId(first)
  OBVIOUS
<1> HIDE DEF none
<1>3. /\ p \in Batches /\ p.nodes = first.nodes /\ LocalId(p) = LocalId(first)
      /\ KnownEnds(p, LocalId(first) \cup none)
  BY <1>1, Dropped
<1> HIDE DEF p, K
<1>4. /\ s \in Batches /\ s.nodes = second.nodes /\ LocalId(s) = LocalId(second)
      /\ s.edges = Among(second.edges, (LocalId(second) \cup K) \X (LocalId(second) \cup K))
      /\ \A id : PayloadOf(s, id) = PayloadOf(second, id)
  BY <1>1, Dropped
<1> HIDE DEF s
<1>5. ToSet(s.edges) = {e \in ToSet(second.edges) : e[1] \in LocalId(s) \cup K /\ e[2] \in LocalId(s) \cup K}
  <2> DEFINE U == LocalId(second) \cup K
      X == U \X U
  <2>1. second.edges \in Seq(Nat \X Nat)
    BY <1>1, AnswerParts
  <2> HIDE DEF X
  <2>2. ToSet(Among(second.edges, X)) = ToSet(second.edges) \cap X
    BY <2>1, AmongMembers
  <2>3. ToSet(second.edges) \subseteq Nat \X Nat
    BY <2>1 DEF ToSet
  <2>4. ToSet(s.edges) = ToSet(second.edges) \cap X
    BY <1>4, <2>2 DEF X
  <2> HIDE DEF U
  <2>5. \A e \in ToSet(second.edges) : e \in X <=> e[1] \in U /\ e[2] \in U
    BY <2>3 DEF X
  <2>6. U = LocalId(s) \cup K
    BY <1>4 DEF U
  <2> QED
    BY <2>4, <2>5, <2>6
<1> QED
  BY <1>1, <1>2, <1>3, <1>4, <1>5, Zenon DEF s, K, p, none

LEMMA GleanedEdges ==
  ASSUME NEW p \in Batches, NEW s \in Batches, DistinctIds(p.nodes)
  PROVE  ToSet(MergeBatches(p, s, TRUE).edges) = ToSet(p.edges) \cup ToSet(RewrittenEdges(p, s, TRUE))
<1> DEFINE yes == TRUE
    re == RewrittenEdges(p, s, yes)
    W == ToSet(re) \ ToSet(p.edges)
    es == Among(re, W)
    m == MergeBatches(p, s, yes)
<1>1. re \in Seq(Nat \X Nat) /\ p.edges \in Seq(Nat \X Nat)
  <2>1. yes \in BOOLEAN
    OBVIOUS
  <2> HIDE DEF yes
  <2> QED
    BY <2>1, EdgesRewritten, AnswerParts
<1>2. m.edges = p.edges \o es
  <2>1. yes \in BOOLEAN /\ yes
    OBVIOUS
  <2> HIDE DEF yes
  <2>2. m.edges = p.edges \o IF yes THEN es ELSE re
    BY <2>1, MergedIs
  <2> QED
    BY <2>1, <2>2
<1> HIDE DEF re, m
<1>3. es \in Seq(Nat \X Nat) /\ ToSet(es) = ToSet(re) \cap W
  <2> HIDE DEF W
  <2> QED
    BY <1>1, AmongIn, AmongMembers
<1> HIDE DEF es
<1>4. ToSet(m.edges) = ToSet(p.edges) \cup ToSet(es)
  BY <1>1, <1>2, <1>3, JoinedMembers
<1> QED
  BY <1>3, <1>4 DEF m, re

LEMMA RewrittenSet ==
  ASSUME NEW p \in Batches, NEW s \in Batches, NEW d \in BOOLEAN, DistinctIds(p.nodes)
  PROVE  LET map == SecondAdded(p, s, d).remap
         IN  ToSet(RewrittenEdges(p, s, d)) = {<<Rewrite(map, e[1]), Rewrite(map, e[2])>> : e \in ToSet(s.edges)}
<1> DEFINE map == SecondAdded(p, s, d).remap
    re == RewrittenEdges(p, s, d)
    es == s.edges
<1>1. re \in Seq(Nat \X Nat) /\ Len(re) = Len(es)
      /\ \A i \in 1 .. Len(es) : re[i] = <<Rewrite(map, es[i][1]), Rewrite(map, es[i][2])>>
  BY EdgesRewritten
<1>2. es \in Seq(Nat \X Nat)
  BY AnswerParts
<1> HIDE DEF map, re, es
<1>3. DOMAIN re = 1 .. Len(es) /\ DOMAIN es = 1 .. Len(es)
  BY <1>1, <1>2
<1>4. ToSet(re) = {re[i] : i \in 1 .. Len(es)} /\ ToSet(es) = {es[i] : i \in 1 .. Len(es)}
  BY <1>3 DEF ToSet
<1>5. ToSet(re) = {<<Rewrite(map, e[1]), Rewrite(map, e[2])>> : e \in ToSet(es)}
  <2> DEFINE w(e) == <<Rewrite(map, e[1]), Rewrite(map, e[2])>>
  <2>1. \A i \in 1 .. Len(es) : re[i] = w(es[i])
    BY <1>1
  <2> HIDE DEF w
  <2>2. ToSet(re) = {w(e) : e \in ToSet(es)}
    BY <1>4, <2>1
  <2> QED
    BY <2>2 DEF w
<1> QED
  BY <1>5 DEF map, re, es

LEMMA GleaningKept ==
  ASSUME BatchesInv
  PROVE  GleaningKeepsEdges
<1> DEFINE p == DropDangling(first, {})
    s == DropDangling(second, LocalId(p))
    Named2(id) == IF id \in LocalId(s) THEN PayloadOf(s, id) ELSE PayloadOf(p, id)
    chosen == {d \in ToSet(second.edges) : d[1] \in LocalId(s) \cup LocalId(p)
                                           /\ d[2] \in LocalId(s) \cup LocalId(p)}
    joined == {<<Named2(e[1]), Named2(e[2])>> : e \in chosen}
    yes == TRUE
    m == MergeBatches(p, s, yes)
    re == RewrittenEdges(p, s, yes)
    r(id) == Rewrite(SecondAdded(p, s, yes).remap, id)
<1> SUFFICES ASSUME Sound PROVE ToSet(EdgePayloads(Gleaned)) = ToSet(EdgePayloads(p)) \cup joined
  BY Zenon DEF GleaningKeepsEdges
<1>1. /\ p \in Batches /\ s \in Batches /\ DistinctIds(p.nodes) /\ DistinctIds(s.nodes)
      /\ KnownEnds(p, LocalId(p)) /\ ToSet(s.edges) = chosen
  BY GleanedParts
<1>2. Gleaned = m /\ yes \in BOOLEAN
  BY DEF Gleaned
<1>3. ToSet(m.edges) = ToSet(p.edges) \cup ToSet(re)
  <2> HIDE DEF p, s
  <2> QED
    BY <1>1, GleanedEdges
<1> HIDE DEF p, s, yes
<1>4. m \in Batches
  BY <1>1, <1>2, MergedIs
<1>5. /\ DistinctIds(m.nodes)
      /\ \A id \in LocalId(p) : id \in LocalId(m) /\ PayloadOf(m, id) = PayloadOf(p, id)
      /\ \A id \in LocalId(s) : r(id) \in LocalId(m) /\ PayloadOf(m, r(id)) = PayloadOf(s, id)
      /\ \A id : id \notin LocalId(s) => r(id) = id
  BY <1>1, <1>2, MergedNames
<1>6. ToSet(re) = {<<r(e[1]), r(e[2])>> : e \in ToSet(s.edges)}
  BY <1>1, <1>2, RewrittenSet
<1> HIDE DEF r, m, re
<1>7. \A id \in LocalId(s) \cup LocalId(p) : PayloadOf(m, r(id)) = Named2(id)
  <2> TAKE id \in LocalId(s) \cup LocalId(p)
  <2>1. CASE id \in LocalId(s)
    BY <1>5, <2>1
  <2>2. CASE id \notin LocalId(s)
    BY <1>5, <2>2
  <2> QED
    BY <2>1, <2>2
<1> HIDE DEF Named2
<1>8. JoinedBy(m, ToSet(re)) = joined
  <2>1. \A e \in chosen : PayloadOf(m, r(e[1])) = Named2(e[1]) /\ PayloadOf(m, r(e[2])) = Named2(e[2])
    BY <1>7
  <2>2. ToSet(re) = {<<r(e[1]), r(e[2])>> : e \in chosen}
    BY <1>1, <1>6
  <2> HIDE DEF chosen
  <2> DEFINE w(e) == <<r(e[1]), r(e[2])>>
      v(c) == <<PayloadOf(m, c[1]), PayloadOf(m, c[2])>>
      u(e) == <<Named2(e[1]), Named2(e[2])>>
  <2>3. \A e \in chosen : v(w(e)) = u(e)
    BY <2>1
  <2> HIDE DEF w, v, u
  <2>4. {v(c) : c \in {w(e) : e \in chosen}} = {u(e) : e \in chosen}
    BY <2>3
  <2> QED
    BY <2>2, <2>4, Zenon DEF JoinedBy, w, v, u
<1>9. JoinedBy(m, ToSet(p.edges)) = JoinedBy(p, ToSet(p.edges))
  <2>1. \A e \in ToSet(p.edges) : PayloadOf(m, e[1]) = PayloadOf(p, e[1]) /\ PayloadOf(m, e[2]) = PayloadOf(p, e[2])
    <3>1. \A e \in ToSet(p.edges) : e[1] \in LocalId(p) /\ e[2] \in LocalId(p)
      <4>1. DOMAIN p.edges = 1 .. Len(p.edges)
        BY <1>1, AnswerParts
      <4> QED
        BY <1>1, <4>1 DEF ToSet, KnownEnds
    <3> QED
      BY <1>5, <3>1
  <2> QED
    BY <2>1 DEF JoinedBy
<1>10. JoinedBy(m, ToSet(m.edges)) = JoinedBy(m, ToSet(p.edges)) \cup JoinedBy(m, ToSet(re))
  BY <1>3 DEF JoinedBy
<1> QED
  BY <1>1, <1>2, <1>4, <1>8, <1>9, <1>10, PayloadSet

LEMMA DistinctPayloads ==
  ASSUME NEW ns \in Seq(BatchNode), Cardinality({n.payload : n \in ToSet(ns)}) = Len(ns)
  PROVE  \A i, j \in 1 .. Len(ns) : ns[i].payload = ns[j].payload => i = j
<1> DEFINE D == 1 .. Len(ns)
    T == {n.payload : n \in ToSet(ns)}
    f == [i \in D |-> ns[i].payload]
<1>1. Len(ns) \in Nat /\ DOMAIN ns = D
  OBVIOUS
<1>2. IsFiniteSet(D) /\ Cardinality(D) = Len(ns)
  <2>1. IsFiniteSet(D) /\ Cardinality(D) = IF 1 > Len(ns) THEN 0 ELSE Len(ns) - 1 + 1
    <3> DEFINE L == Len(ns)
    <3>1. 1 \in Int /\ L \in Int
      BY <1>1
    <3> HIDE DEF L
    <3>2. IsFiniteSet(1 .. L) /\ Cardinality(1 .. L) = IF 1 > L THEN 0 ELSE L - 1 + 1
      BY <3>1, FS_Interval
    <3> QED
      BY <3>2 DEF L
  <2> QED
    BY <1>1, <2>1
<1>3. T = {ns[i].payload : i \in D}
  BY <1>1 DEF ToSet
<1>4. f \in Surjection(D, T)
  BY <1>3 DEF Surjection
<1>5. f \in Injection(D, T)
  <2>1. Cardinality(T) = Cardinality(D)
    BY <1>2
  <2> HIDE DEF f, D, T
  <2> QED
    BY <1>2, <1>4, <2>1, FS_Surjection
<1> QED
  BY <1>5 DEF Injection, IsInjective

LEMMA NothingTwice ==
  ASSUME BatchesInv
  PROVE  GleaningAddsNothingTwice
<1> DEFINE p == DropDangling(first, {})
    s == DropDangling(second, LocalId(p))
    z == DropDangling(second, {})
    yes == TRUE
    m == MergeBatches(p, s, yes)
    acc == SecondAdded(p, s, yes)
    re == RewrittenEdges(p, s, yes)
    r(id) == Rewrite(acc.remap, id)
<1> SUFFICES ASSUME Sound, Cardinality({n.payload : n \in ToSet(p.nodes)}) = Len(p.nodes),
                    ToSet(EdgePayloads(z)) \subseteq ToSet(EdgePayloads(p)),
                    {n.payload : n \in ToSet(s.nodes)} \subseteq {n.payload : n \in ToSet(p.nodes)},
                    s.edges = z.edges
             PROVE  Gleaned = p
  BY Zenon DEF GleaningAddsNothingTwice
<1>1. /\ p \in Batches /\ s \in Batches /\ DistinctIds(p.nodes) /\ DistinctIds(s.nodes)
      /\ KnownEnds(p, LocalId(p)) /\ LocalId(s) = LocalId(second)
      /\ \A id : PayloadOf(s, id) = PayloadOf(second, id)
  BY GleanedParts
<1>2. Gleaned = m /\ yes \in BOOLEAN /\ yes
  BY DEF Gleaned
<1>3. KnownEnds(z, LocalId(second)) /\ \A id : PayloadOf(z, id) = PayloadOf(second, id)
  <2> DEFINE none == {}
  <2>1. second \in Batches /\ LocalId(second) \cup none = LocalId(second)
    BY DEF BatchesInv
  <2> HIDE DEF none
  <2>2. /\ KnownEnds(DropDangling(second, none), LocalId(second) \cup none)
        /\ \A id : PayloadOf(DropDangling(second, none), id) = PayloadOf(second, id)
    BY <2>1, Dropped
  <2> QED
    BY <2>1, <2>2 DEF none
<1>4. z \in Batches
  <2>1. second \in Batches
    BY DEF BatchesInv
  <2> QED
    BY <2>1, Dropped
<1>5. Cardinality({n.payload : n \in ToSet(p.nodes)}) = Len(p.nodes)
  OBVIOUS
<1>6. ToSet(EdgePayloads(z)) \subseteq ToSet(EdgePayloads(p))
  OBVIOUS
<1>7. {n.payload : n \in ToSet(s.nodes)} \subseteq {n.payload : n \in ToSet(p.nodes)}
  OBVIOUS
<1>8. s.edges = z.edges
  OBVIOUS
<1> HIDE DEF p, s, z, yes
<1>9. /\ p.nodes \in Seq(BatchNode) /\ DOMAIN p.nodes = 1 .. Len(p.nodes)
      /\ p.edges \in Seq(Nat \X Nat) /\ DOMAIN p.edges = 1 .. Len(p.edges)
      /\ s.nodes \in Seq(BatchNode) /\ DOMAIN s.nodes = 1 .. Len(s.nodes)
      /\ s.edges \in Seq(Nat \X Nat) /\ DOMAIN s.edges = 1 .. Len(s.edges)
  BY <1>1, AnswerParts
<1>10. m \in Batches /\ m.nodes = p.nodes \o acc.nodes
       /\ m.edges = p.edges \o Among(re, ToSet(re) \ ToSet(p.edges))
  BY <1>1, <1>2, MergedIs
<1>11. acc \in Accs /\ AccInv(acc, Len(s.nodes), p, s, yes)
  BY <1>1, <1>2, AllAdded
<1>12. /\ \A id \in LocalId(s) : r(id) \in LocalId(m) /\ PayloadOf(m, r(id)) = PayloadOf(s, id)
  BY <1>1, <1>2, MergedNames
<1>13. /\ re \in Seq(Nat \X Nat)
       /\ ToSet(re) = {<<r(e[1]), r(e[2])>> : e \in ToSet(s.edges)}
  BY <1>1, <1>2, EdgesRewritten, RewrittenSet
<1> HIDE DEF m, acc, re, r
<1>14. acc.nodes = <<>>
  <2>1. ASSUME NEW i \in 1 .. Len(s.nodes) PROVE Twins(p, s.nodes[i].payload) # {}
    <3>1. s.nodes[i].payload \in {n.payload : n \in ToSet(s.nodes)}
      BY <1>9 DEF ToSet
    <3>2. PICK n \in ToSet(p.nodes) : n.payload = s.nodes[i].payload
      BY <1>7, <3>1
    <3> QED
      BY <3>2 DEF ToSet, Twins
  <2> QED
    BY <1>2, <1>11, <2>1, Zenon DEF AccInv
<1>15. m.nodes = p.nodes
  BY <1>9, <1>10, <1>14
<1>16. LocalId(m) = LocalId(p) /\ \A id : PayloadOf(m, id) = PayloadOf(p, id)
  BY <1>15, Zenon DEF LocalId, PayloadOf
<1>17. \A a, b \in LocalId(p) : PayloadOf(p, a) = PayloadOf(p, b) => a = b
  <2> SUFFICES ASSUME NEW a \in LocalId(p), NEW b \in LocalId(p), PayloadOf(p, a) = PayloadOf(p, b) PROVE a = b
    OBVIOUS
  <2>1. NamesIn(p.nodes, a, PayloadOf(p, a)) /\ NamesIn(p.nodes, b, PayloadOf(p, a))
    BY <1>1, NamedPayload
  <2>2. PICK i \in 1 .. Len(p.nodes) : p.nodes[i].id = a /\ p.nodes[i].payload = PayloadOf(p, a)
    BY <2>1 DEF NamesIn
  <2>3. PICK j \in 1 .. Len(p.nodes) : p.nodes[j].id = b /\ p.nodes[j].payload = PayloadOf(p, a)
    BY <2>1 DEF NamesIn
  <2>4. i = j
    BY <1>5, <1>9, <2>2, <2>3, DistinctPayloads
  <2> QED
    BY <2>2, <2>3, <2>4
<1>18. ToSet(re) \subseteq ToSet(p.edges)
  <2> SUFFICES ASSUME NEW e \in ToSet(s.edges) PROVE <<r(e[1]), r(e[2])>> \in ToSet(p.edges)
    BY <1>13
  <2>1. e[1] \in LocalId(s) /\ e[2] \in LocalId(s)
    <3>1. ToSet(s.edges) = {z.edges[i] : i \in 1 .. Len(z.edges)}
      BY <1>8, <1>9 DEF ToSet
    <3>2. PICK i \in 1 .. Len(z.edges) : e = z.edges[i]
      BY <3>1
    <3>3. z.edges[i] \in LocalId(second) \X LocalId(second)
      BY <1>3 DEF KnownEnds
    <3> QED
      BY <1>1, <3>2, <3>3
  <2>2. <<PayloadOf(s, e[1]), PayloadOf(s, e[2])>> \in JoinedBy(p, ToSet(p.edges))
    <3>1. \A id : PayloadOf(z, id) = PayloadOf(s, id)
      BY <1>1, <1>3
    <3>2. <<PayloadOf(z, e[1]), PayloadOf(z, e[2])>> \in JoinedBy(z, ToSet(z.edges))
      BY <1>8 DEF JoinedBy
    <3>3. JoinedBy(z, ToSet(z.edges)) \subseteq JoinedBy(p, ToSet(p.edges))
      BY <1>1, <1>4, <1>6, PayloadSet
    <3> QED
      BY <3>1, <3>2, <3>3
  <2>3. PICK c \in ToSet(p.edges) : <<PayloadOf(s, e[1]), PayloadOf(s, e[2])>> = <<PayloadOf(p, c[1]), PayloadOf(p, c[2])>>
    BY <2>2 DEF JoinedBy
  <2>4. c \in LocalId(p) \X LocalId(p)
    BY <1>1, <1>9 DEF ToSet, KnownEnds
  <2>5. /\ r(e[1]) \in LocalId(p) /\ PayloadOf(p, r(e[1])) = PayloadOf(p, c[1])
        /\ r(e[2]) \in LocalId(p) /\ PayloadOf(p, r(e[2])) = PayloadOf(p, c[2])
    BY <1>12, <1>16, <2>1, <2>3
  <2>6. r(e[1]) = c[1] /\ r(e[2]) = c[2]
    BY <1>17, <2>4, <2>5
  <2>7. c = <<c[1], c[2]>>
    BY <2>4
  <2> QED
    BY <2>6, <2>7
<1>19. Among(re, ToSet(re) \ ToSet(p.edges)) = <<>>
  <2> DEFINE W == ToSet(re) \ ToSet(p.edges)
  <2>1. W = {}
    BY <1>18
  <2>2. \A n \in 1 .. Len(re) : re[n] \notin W
    BY <2>1
  <2> HIDE DEF W
  <2>3. Among(re, W) = <<>>
    BY <1>13, <2>2, NoneAmong
  <2> QED
    BY <2>3 DEF W
<1>20. m.edges = p.edges
  <2> DEFINE es == p.edges
  <2>1. es \in Seq(Nat \X Nat) /\ m.edges = es \o <<>>
    BY <1>9, <1>10, <1>19, Zenon
  <2> HIDE DEF es
  <2>2. m.edges = es
    BY <2>1
  <2> QED
    BY <2>2 DEF es
<1>21. m = p
  <2>1. /\ p \in [nodes : Seq(BatchNode), edges : Seq(Nat \X Nat)]
        /\ m \in [nodes : Seq(BatchNode), edges : Seq(Nat \X Nat)]
    BY <1>1, <1>10, Zenon DEF Batches
  <2> DEFINE A == Seq(BatchNode)
      B == Seq(Nat \X Nat)
  <2>2. p \in [nodes : A, edges : B] /\ m \in [nodes : A, edges : B]
    BY <2>1
  <2> HIDE DEF A, B
  <2>3. p = [nodes |-> p.nodes, edges |-> p.edges] /\ m = [nodes |-> m.nodes, edges |-> m.edges]
    BY <2>2
  <2> QED
    BY <1>15, <1>20, <2>3
<1> QED
  BY <1>2, <1>21 DEF p

-----------------------------------------------------------------------------
(* The mentions of a source *)

Hashes == {"h1", "h2"}
NodeIds == Hashes \X Nat \X {<<x>> : x \in Payloads}
EndPairs == NodeIds \X NodeIds
EdgeIds == Hashes \X Nat \X EndPairs
SplitMentions ==
  [id : NodeIds \cup EdgeIds, payload : Payloads \cup {"edge"}, ends : {<<>>} \cup EndPairs]

NodeLike(m) == m.ends = <<>> /\ m.id \in NodeIds /\ m.id[3] = <<m.payload>>

EdgeLike(m) == m.id \in EdgeIds /\ m.ends \in EndPairs

(* The payloads that an edge mention joins: its ends hold them. *)
Joins(m) == <<m.ends[1][3][1], m.ends[2][3][1]>>
JoinsOf == [m \in SplitMentions |-> Joins(m)]

Edged == {m \in SplitMentions : m.ends # <<>>}

(* Nodes, and edges whose ends are among the nodes. *)
Wired(u) == \A i \in 1 .. Len(u) :
  \/ NodeLike(u[i])
  \/ EdgeLike(u[i]) /\ \E c, d \in 1 .. Len(u) : u[i].ends = <<u[c].id, u[d].id>>

(* Mentions whose edges join the payloads lp. *)
MentionsOf(u, lp) == u \in Seq(SplitMentions) /\ Wired(u) /\ Mapped(JoinsOf, Among(u, Edged)) = lp

LegalEdges(b) == Among(b.edges, {e \in ToSet(b.edges) : <<PayloadOf(b, e[1]), PayloadOf(b, e[2])>> \in Legal})

LEMMA LegalPayloads ==
  ASSUME NEW b \in Batches, DistinctIds(b.nodes), KnownEnds(b, LocalId(b))
  PROVE  /\ LegalEdges(b) \in Seq(ToSet(b.edges)) /\ Among(EdgePayloads(b), Legal) \in Seq(Payloads \X Payloads)
         /\ Len(Among(EdgePayloads(b), Legal)) = Len(LegalEdges(b))
         /\ \A i \in 1 .. Len(LegalEdges(b)) :
              Among(EdgePayloads(b), Legal)[i] = <<PayloadOf(b, LegalEdges(b)[i][1]), PayloadOf(b, LegalEdges(b)[i][2])>>
<1> DEFINE es == b.edges
    M == ToSet(es)
    v(e) == <<PayloadOf(b, e[1]), PayloadOf(b, e[2])>>
    g == [e \in M |-> v(e)]
    S == {e \in M : v(e) \in Legal}
<1>1. es \in Seq(Nat \X Nat)
  BY AnswerParts
<1>2. es \in Seq(M)
  <2> HIDE DEF es
  <2> QED
    BY <1>1 DEF ToSet
<1>3. EdgePayloads(b) = Mapped(g, es)
  <2>1. \A i \in DOMAIN es : es[i] \in M
    BY DEF ToSet
  <2> QED
    BY <2>1 DEF EdgePayloads, Mapped
<1>4. LegalEdges(b) = Among(es, S)
  BY Zenon DEF LegalEdges
<1>5. EdgePayloads(b) \in Seq(Payloads \X Payloads)
  BY PayloadsOfEdges
<1>6. \A x \in M : g[x] \in Legal <=> x \in S
  OBVIOUS
<1>7. \A x \in M : g[x] = v(x)
  OBVIOUS
<1> HIDE DEF es, M, v, g, S
<1>8. Among(Mapped(g, es), Legal) = Mapped(g, Among(es, S))
  BY <1>2, <1>6, AmongMapped
<1>9. Among(es, S) \in Seq(M)
  BY <1>2, AmongIn
<1>10. Among(EdgePayloads(b), Legal) \in Seq(Payloads \X Payloads)
  <2> DEFINE X == Payloads \X Payloads
      q == EdgePayloads(b)
  <2>1. q \in Seq(X)
    BY <1>5
  <2> HIDE DEF X, q
  <2>2. Among(q, Legal) \in Seq(X)
    BY <2>1, AmongIn
  <2> QED
    BY <2>2 DEF X, q
<1> DEFINE le == Among(es, S)
<1> HIDE DEF le
<1>11. Len(Mapped(g, le)) = Len(le) /\ \A n \in 1 .. Len(le) : Mapped(g, le)[n] = g[le[n]] /\ le[n] \in M
  BY <1>9, MappedLen DEF le
<1>12. \A n \in 1 .. Len(le) : Mapped(g, le)[n] = v(le[n])
  BY <1>7, <1>11
<1> QED
  BY <1>3, <1>4, <1>8, <1>9, <1>10, <1>11, <1>12 DEF le, v, M, es

LEMMA ExtractIs ==
  ASSUME NEW b \in Batches, DistinctIds(b.nodes), KnownEnds(b, LocalId(b)), NEW h \in Hashes
  PROVE  MentionsOf(Extract(h, b), Among(EdgePayloads(b), Legal))
<1> DEFINE ns == b.nodes
    n == Len(ns)
    le == LegalEdges(b)
    l == Len(le)
    lp == Among(EdgePayloads(b), Legal)
    to(id) == CHOOSE i \in DOMAIN ns : ns[i].id = id
    EndsOf(i) == <<MentionOf(h, b, le[i][1]), MentionOf(h, b, le[i][2])>>
    e(i) == [id |-> <<h, n + i - 1, EndsOf(i)>>, payload |-> "edge", ends |-> EndsOf(i)]
    xs == [i \in DOMAIN ns |-> NodeMention(h, b, i)]
    ys == [i \in DOMAIN le |-> e(i)]
    t == xs \o ys
<1>1. /\ n \in Nat /\ DOMAIN ns = 1 .. n /\ \A i \in 1 .. n : ns[i] \in BatchNode
  BY AnswerParts
<1>2. /\ le \in Seq(ToSet(b.edges)) /\ lp \in Seq(Payloads \X Payloads) /\ Len(lp) = l
      /\ \A i \in 1 .. l : lp[i] = <<PayloadOf(b, le[i][1]), PayloadOf(b, le[i][2])>>
  BY LegalPayloads
<1>3. Extract(h, b) = t
  BY Zenon DEF Extract, LegalEdges
<1>4. \A id \in LocalId(b) : to(id) \in 1 .. n /\ PayloadOf(b, id) = ns[to(id)].payload
                             /\ MentionOf(h, b, id) = NodeMention(h, b, to(id)).id
  <2> TAKE id \in LocalId(b)
  <2>1. \E i \in DOMAIN ns : ns[i].id = id
    BY DEF LocalId
  <2>2. to(id) \in DOMAIN ns
    BY <2>1
  <2>3. PayloadOf(b, id) = ns[to(id)].payload
    BY <2>1, Zenon DEF PayloadOf
  <2>4. MentionOf(h, b, id) = NodeMention(h, b, to(id)).id
    BY Zenon DEF MentionOf
  <2> QED
    BY <1>1, <2>2, <2>3, <2>4
<1> HIDE DEF to, le, lp
<1>5. l \in Nat /\ DOMAIN le = 1 .. l /\ \A i \in 1 .. l : le[i][1] \in LocalId(b) /\ le[i][2] \in LocalId(b)
  <2>1. l \in Nat /\ DOMAIN le = 1 .. l /\ \A i \in 1 .. l : le[i] \in ToSet(b.edges)
    BY <1>2
  <2>2. \A x \in ToSet(b.edges) : x[1] \in LocalId(b) /\ x[2] \in LocalId(b)
    <3>1. DOMAIN b.edges = 1 .. Len(b.edges)
      BY AnswerParts
    <3> QED
      BY <3>1 DEF ToSet, KnownEnds
  <2> QED
    BY <2>1, <2>2
<1>6. ASSUME NEW i \in 1 .. n
      PROVE  /\ NodeMention(h, b, i) \in SplitMentions /\ NodeLike(NodeMention(h, b, i))
             /\ NodeMention(h, b, i).id \in NodeIds /\ NodeMention(h, b, i).id[3] = <<ns[i].payload>>
  <2> DEFINE x == ns[i].payload
      w == [id |-> <<h, i - 1, <<x>>>>, payload |-> x, ends |-> <<>>]
  <2>1. x \in Payloads
    <3>1. ns[i] \in BatchNode
      BY <1>1
    <3> QED
      BY <3>1 DEF BatchNode
  <2>2. NodeMention(h, b, i) = w
    BY DEF NodeMention
  <2> HIDE DEF x
  <2>3. i - 1 \in Nat
    BY <1>1
  <2>4. <<h, i - 1, <<x>>>> \in NodeIds
    BY <2>1, <2>3 DEF NodeIds
  <2>5. w \in SplitMentions /\ NodeLike(w) /\ w.id \in NodeIds /\ w.id[3] = <<x>>
    BY <2>1, <2>4 DEF SplitMentions, NodeLike
  <2> QED
    BY <2>2, <2>5 DEF x
<1> DEFINE j(i) == to(le[i][1])
    k(i) == to(le[i][2])
<1>7. ASSUME NEW i \in 1 .. l
      PROVE  /\ j(i) \in 1 .. n /\ k(i) \in 1 .. n
             /\ EndsOf(i) = <<NodeMention(h, b, j(i)).id, NodeMention(h, b, k(i)).id>>
             /\ lp[i] = <<ns[j(i)].payload, ns[k(i)].payload>>
  BY <1>2, <1>4, <1>5
<1> HIDE DEF j, k
<1>8. ASSUME NEW i \in 1 .. l
      PROVE  e(i) \in SplitMentions /\ EdgeLike(e(i)) /\ e(i).ends = EndsOf(i)
  <2> DEFINE w == EndsOf(i)
      o == n + i - 1
  <2>1. w \in EndPairs
    BY <1>6, <1>7 DEF EndPairs
  <2>2. o \in Nat
    BY <1>1, <1>5
  <2> HIDE DEF w, o
  <2> DEFINE m == [id |-> <<h, o, w>>, payload |-> "edge", ends |-> w]
  <2>3. <<h, o, w>> \in EdgeIds
    BY <2>1, <2>2 DEF EdgeIds
  <2>4. m \in SplitMentions /\ EdgeLike(m) /\ m.ends = w
    BY <2>1, <2>3 DEF SplitMentions, EdgeLike
  <2> QED
    BY <2>4 DEF w, o
<1> HIDE DEF e, EndsOf
<1>9. /\ xs \in Seq(SplitMentions) /\ Len(xs) = n /\ \A i \in 1 .. n : xs[i] = NodeMention(h, b, i)
      /\ ys \in Seq(SplitMentions) /\ Len(ys) = l /\ \A i \in 1 .. l : ys[i] = e(i)
  BY <1>1, <1>5, <1>6, <1>8
<1> HIDE DEF xs, ys
<1>10. /\ t \in Seq(SplitMentions) /\ Len(t) = n + l
       /\ \A i \in 1 .. n : t[i] = xs[i]
       /\ \A i \in 1 .. n + l : i \notin 1 .. n => t[i] = ys[i - n]
  <2>1. /\ t \in Seq(SplitMentions) /\ Len(t) = Len(xs) + Len(ys)
        /\ \A i \in 1 .. Len(xs) : t[i] = xs[i]
        /\ \A i \in 1 .. Len(t) : i \notin 1 .. Len(xs) => t[i] = ys[i - Len(xs)]
    <3> DEFINE X == SplitMentions
    <3>1. xs \in Seq(X) /\ ys \in Seq(X)
      BY <1>9
    <3> HIDE DEF X
    <3>2. /\ t \in Seq(X) /\ Len(t) = Len(xs) + Len(ys)
          /\ \A i \in 1 .. Len(xs) : t[i] = xs[i]
          /\ \A i \in 1 .. Len(t) : i \notin 1 .. Len(xs) => t[i] = ys[i - Len(xs)]
      BY <3>1, Concatenated
    <3> QED
      BY <3>2 DEF X
  <2> HIDE DEF t, n, l
  <2> QED
    BY <1>9, <2>1
<1> HIDE DEF t, n, l
<1>11. ASSUME NEW i \in 1 .. n PROVE t[i] = NodeMention(h, b, i)
  BY <1>9, <1>10
<1>12. ASSUME NEW i \in 1 .. l PROVE t[n + i] = e(i)
  <2> DEFINE o == n + i
  <2>1. o \in 1 .. n + l /\ o \notin 1 .. n /\ o - n = i
    BY <1>1, <1>5
  <2> HIDE DEF o
  <2>2. t[o] = e(i)
    BY <1>9, <1>10, <2>1
  <2> QED
    BY <2>2 DEF o
<1>13. ASSUME NEW i \in 1 .. n + l
       PROVE  \/ NodeLike(t[i])
              \/ EdgeLike(t[i]) /\ \E c, d \in 1 .. n + l : t[i].ends = <<t[c].id, t[d].id>>
  <2>1. CASE i \in 1 .. n
    BY <1>6, <1>11, <2>1
  <2>2. CASE i \notin 1 .. n
    <3> DEFINE o == i - n
    <3>1. o \in 1 .. l /\ n + o = i
      BY <1>1, <1>5, <2>2
    <3> HIDE DEF o
    <3>2. t[i] = e(o)
      BY <1>12, <3>1
    <3>3. j(o) \in 1 .. n /\ k(o) \in 1 .. n
      BY <1>7, <3>1
    <3>4. t[j(o)] = NodeMention(h, b, j(o)) /\ t[k(o)] = NodeMention(h, b, k(o))
      BY <1>11, <3>3
    <3>5. t[i].ends = <<t[j(o)].id, t[k(o)].id>> /\ EdgeLike(t[i])
      BY <1>7, <1>8, <3>1, <3>2, <3>4
    <3>6. j(o) \in 1 .. n + l /\ k(o) \in 1 .. n + l
      BY <1>1, <1>5, <3>3
    <3> QED
      BY <3>5, <3>6
  <2> QED
    BY <2>1, <2>2
<1>14. Among(t, Edged) = ys
  <2> DEFINE X == SplitMentions
      none == <<>>
  <2>1. \A i \in 1 .. Len(xs) : xs[i] \notin Edged
    BY <1>6, <1>9 DEF NodeLike, Edged
  <2>2. \A i \in 1 .. Len(ys) : ys[i] \in Edged
    <3>1. ASSUME NEW v \in EndPairs PROVE v # <<>>
      BY DEF EndPairs
    <3>2. ASSUME NEW i \in 1 .. l PROVE e(i) \in SplitMentions /\ e(i).ends # <<>>
      BY <1>8, <3>1 DEF EdgeLike
    <3> QED
      BY <1>9, <3>2 DEF Edged
  <2>3. xs \in Seq(X) /\ ys \in Seq(X)
    BY <1>9
  <2> HIDE DEF X
  <2>4. Among(xs \o ys, Edged) = Among(xs, Edged) \o Among(ys, Edged)
    BY <2>3, AmongJoined
  <2>5. Among(xs, Edged) = none
    BY <2>1, <2>3, NoneAmong
  <2>6. Among(ys, Edged) = ys
    BY <2>2, <2>3, AllAmong
  <2>7. none \o ys = ys
    BY <2>3
  <2> QED
    BY <2>4, <2>5, <2>6, <2>7, Zenon DEF t
<1>15. Mapped(JoinsOf, ys) = lp
  <2> DEFINE X == SplitMentions
      N == Payloads \X Payloads
      mp == Mapped(JoinsOf, ys)
  <2>1. ASSUME NEW i \in 1 .. l PROVE JoinsOf[ys[i]] = lp[i]
    <3>1. ys[i] = e(i) /\ e(i) \in SplitMentions /\ j(i) \in 1 .. n /\ k(i) \in 1 .. n
      BY <1>7, <1>8, <1>9
    <3>2. e(i).ends = <<NodeMention(h, b, j(i)).id, NodeMention(h, b, k(i)).id>>
      BY <1>7, <1>8
    <3>3. \A o \in 1 .. n : NodeMention(h, b, o).id[3][1] = ns[o].payload
      BY <1>6
    <3>4. JoinsOf[ys[i]] = <<e(i).ends[1][3][1], e(i).ends[2][3][1]>>
      BY <3>1 DEF JoinsOf, Joins
    <3>5. JoinsOf[ys[i]] = <<ns[j(i)].payload, ns[k(i)].payload>>
      BY <3>1, <3>2, <3>3, <3>4
    <3> QED
      BY <1>7, <3>5
  <2>2. ys \in Seq(X) /\ lp \in Seq(N)
    BY <1>2, <1>9
  <2> HIDE DEF X, N
  <2>3. Len(mp) = l /\ \A i \in 1 .. l : mp[i] = lp[i]
    <3>1. Len(mp) = Len(ys) /\ \A i \in 1 .. Len(ys) : mp[i] = JoinsOf[ys[i]]
      BY <2>2, MappedLen
    <3> HIDE DEF mp
    <3> QED
      BY <1>9, <2>1, <3>1
  <2>4. mp = [i \in 1 .. l |-> mp[i]] /\ lp = [i \in 1 .. l |-> lp[i]]
    <3>1. DOMAIN ys = 1 .. l /\ mp = [i \in DOMAIN ys |-> JoinsOf[ys[i]]]
      BY <1>9, <2>2 DEF Mapped
    <3>2. Len(lp) = l
      BY <1>2
    <3>3. lp = [i \in 1 .. Len(lp) |-> lp[i]]
      BY <2>2
    <3> QED
      BY <3>1, <3>2, <3>3
  <2> HIDE DEF mp
  <2>5. mp = lp
    BY <2>3, <2>4
  <2> QED
    BY <2>5 DEF mp
<1>16. Wired(t)
  BY <1>10, <1>13 DEF Wired
<1>17. MentionsOf(t, lp)
  BY <1>10, <1>14, <1>15, <1>16 DEF MentionsOf
<1> QED
  BY <1>3, <1>17 DEF lp

LEMMA MentionsJoined ==
  ASSUME NEW t, NEW u, NEW lp, NEW lq, MentionsOf(t, lp), MentionsOf(u, lq)
  PROVE  MentionsOf(t \o u, lp \o lq)
<1> DEFINE X == SplitMentions
    tu == t \o u
    L == Len(t)
    K == Len(u)
<1>1. t \in Seq(X) /\ u \in Seq(X)
  BY DEF MentionsOf
<1> HIDE DEF X
<1>2. /\ tu \in Seq(X) /\ L \in Nat /\ K \in Nat /\ Len(tu) = L + K
      /\ \A k \in 1 .. L : tu[k] = t[k]
      /\ \A k \in 1 .. L + K : k \notin 1 .. L => k - L \in 1 .. K /\ tu[k] = u[k - L]
  <2>1. Len(u) \in Nat
    BY <1>1
  <2> QED
    BY <1>1, <2>1, Concatenated
<1>3. \A k \in 1 .. K : k + L \in 1 .. L + K /\ tu[k + L] = u[k]
  <2> TAKE k \in 1 .. K
  <2> DEFINE m == k + L
  <2>1. m \in 1 .. L + K /\ m \notin 1 .. L /\ m - L = k
    BY <1>2
  <2> HIDE DEF m, tu, L, K
  <2>2. tu[m] = u[k]
    BY <1>2, <2>1
  <2> QED
    BY <2>1, <2>2 DEF m
<1>4. Mapped(JoinsOf, Among(tu, Edged)) = lp \o lq
  <2> DEFINE p == Among(t, Edged)
      q == Among(u, Edged)
  <2>1. Among(tu, Edged) = p \o q
    BY <1>1, AmongJoined
  <2>2. p \in Seq(X) /\ q \in Seq(X)
    BY <1>1, AmongIn
  <2>3. Mapped(JoinsOf, p) = lp /\ Mapped(JoinsOf, q) = lq
    BY DEF MentionsOf
  <2> HIDE DEF p, q, tu
  <2>4. Mapped(JoinsOf, p \o q) = Mapped(JoinsOf, p) \o Mapped(JoinsOf, q)
    BY <2>2, MappedJoined
  <2> QED
    BY <2>1, <2>3, <2>4
<1>5. Wired(t) /\ Wired(u)
  BY DEF MentionsOf
<1> HIDE DEF tu, L, K
<1>6. ASSUME NEW i \in 1 .. L + K
      PROVE  \/ NodeLike(tu[i])
             \/ EdgeLike(tu[i]) /\ \E c, d \in 1 .. L + K : tu[i].ends = <<tu[c].id, tu[d].id>>
  <2>1. CASE i \in 1 .. L
    <3>1. tu[i] = t[i]
      BY <1>2, <2>1
    <3>2. CASE NodeLike(t[i])
      BY <3>1, <3>2
    <3>3. CASE ~NodeLike(t[i])
      <4>1. EdgeLike(t[i])
        BY <1>5, <2>1, <3>3 DEF Wired, L
      <4>2. PICK c, d \in 1 .. L : t[i].ends = <<t[c].id, t[d].id>>
        BY <1>5, <2>1, <3>3 DEF Wired, L
      <4>3. tu[c] = t[c] /\ tu[d] = t[d] /\ c \in 1 .. L + K /\ d \in 1 .. L + K
        BY <1>2
      <4> QED
        BY <3>1, <4>1, <4>2, <4>3
    <3> QED
      BY <3>2, <3>3
  <2>2. CASE i \notin 1 .. L
    <3> DEFINE o == i - L
    <3>1. o \in 1 .. K /\ tu[i] = u[o]
      BY <1>2, <2>2
    <3> HIDE DEF o
    <3>2. CASE NodeLike(u[o])
      BY <3>1, <3>2
    <3>3. CASE ~NodeLike(u[o])
      <4>1. EdgeLike(u[o])
        BY <1>5, <3>1, <3>3 DEF Wired, K
      <4>2. PICK c, d \in 1 .. K : u[o].ends = <<u[c].id, u[d].id>>
        BY <1>5, <3>1, <3>3 DEF Wired, K
      <4> DEFINE a == c + L
          b == d + L
      <4>3. tu[a] = u[c] /\ tu[b] = u[d] /\ a \in 1 .. L + K /\ b \in 1 .. L + K
        BY <1>3
      <4> HIDE DEF a, b
      <4> QED
        BY <3>1, <4>1, <4>2, <4>3
    <3> QED
      BY <3>2, <3>3
  <2> QED
    BY <2>1, <2>2
<1>7. Wired(tu)
  BY <1>2, <1>6 DEF Wired
<1> QED
  BY <1>2, <1>4, <1>7 DEF MentionsOf, X, tu

(* The final id of the latest mention with this id. *)
LatestOf(u, old) ==
  LET j == Max({i \in DOMAIN u : u[i].id = old}) IN <<"parent", j - 1, u[j].id[3]>>

LEMMA LatestFound ==
  ASSUME NEW u \in Seq(SplitMentions), NEW old, \E i \in 1 .. Len(u) : u[i].id = old
  PROVE  \E j \in 1 .. Len(u) : /\ j = Max({i \in DOMAIN u : u[i].id = old}) /\ u[j].id = old
                                /\ LatestOf(u, old) = <<"parent", j - 1, old[3]>>
<1> DEFINE L == Len(u)
    T == {i \in DOMAIN u : u[i].id = old}
<1>1. L \in Nat /\ DOMAIN u = 1 .. L
  OBVIOUS
<1>2. T \subseteq 0 .. L /\ T # {}
  BY <1>1
<1>3. \A i \in T : i \in 1 .. L /\ u[i].id = old
  BY <1>1
<1>4. Max(T) \in T
  <2> HIDE DEF T, L
  <2> QED
    BY <1>1, <1>2, Extremes
<1> QED
  BY <1>3, <1>4 DEF LatestOf

FinalOf(u, i) ==
  [id |-> <<"parent", i - 1, u[i].id[3]>>, payload |-> u[i].payload,
   ends |-> [k \in DOMAIN u[i].ends |-> LatestOf(u, u[i].ends[k])]]

LEMMA FinalIs ==
  ASSUME NEW ss, FlattenSeq(ss) \in Seq(SplitMentions), Wired(FlattenSeq(ss))
  PROVE  LET u == FlattenSeq(ss) IN FinalizeSplits(ss) = [i \in 1 .. Len(u) |-> FinalOf(u, i)]
<1> DEFINE u == FlattenSeq(ss)
    L == Len(u)
    out == [i \in DOMAIN u |-> Finalized(u[i], i - 1)]
    Latest(old) == out[Max({i \in DOMAIN u : u[i].id = old})].id
    w(i) == [out[i] EXCEPT !.ends = [k \in DOMAIN @ |-> Latest(@[k])]]
<1>1. FinalizeSplits(ss) = [i \in DOMAIN out |-> w(i)]
  BY Zenon DEF FinalizeSplits
<1>2. u \in Seq(SplitMentions) /\ Wired(u)
  OBVIOUS
<1> HIDE DEF u
<1>3. DOMAIN u = 1 .. L /\ \A i \in 1 .. L : u[i] \in SplitMentions
  BY <1>2
<1>4. ASSUME NEW i \in 1 .. L
      PROVE  out[i] = [id |-> <<"parent", i - 1, u[i].id[3]>>, payload |-> u[i].payload, ends |-> u[i].ends]
  <2> DEFINE m == u[i]
      A == NodeIds \cup EdgeIds
      B == Payloads \cup {"edge"}
      C == {<<>>} \cup EndPairs
  <2>1. out[i] = Finalized(m, i - 1)
    BY <1>3
  <2>2. m \in [id : A, payload : B, ends : C]
    BY <1>3 DEF SplitMentions
  <2> HIDE DEF m, A, B, C
  <2>3. Finalized(m, i - 1) = [id |-> <<"parent", i - 1, m.id[3]>>, payload |-> m.payload, ends |-> m.ends]
    BY <2>2 DEF Finalized
  <2> QED
    BY <2>1, <2>3 DEF m
<1>5. ASSUME NEW i \in 1 .. L, NEW k \in DOMAIN u[i].ends
      PROVE  Latest(u[i].ends[k]) = LatestOf(u, u[i].ends[k])
  <2> DEFINE old == u[i].ends[k]
  <2>1. \E n \in 1 .. L : u[n].id = old
    <3>1. CASE NodeLike(u[i])
      <4>1. u[i].ends = <<>>
        BY <3>1 DEF NodeLike
      <4>2. k \in DOMAIN <<>>
        BY <4>1
      <4> QED
        BY <4>2
    <3>2. CASE \E c, d \in 1 .. L : u[i].ends = <<u[c].id, u[d].id>>
      <4>1. PICK c, d \in 1 .. L : u[i].ends = <<u[c].id, u[d].id>>
        BY <3>2
      <4>2. k \in {1, 2}
        BY <4>1
      <4> QED
        BY <4>1, <4>2
    <3> QED
      BY <1>2, <3>1, <3>2 DEF Wired
  <2> HIDE DEF old
  <2>2. PICK n \in 1 .. L : /\ n = Max({x \in DOMAIN u : u[x].id = old}) /\ u[n].id = old
                            /\ LatestOf(u, old) = <<"parent", n - 1, old[3]>>
    BY <1>2, <2>1, LatestFound
  <2>3. Latest(old) = out[n].id
    BY <2>2
  <2> HIDE DEF Latest, out
  <2>4. Latest(old) = <<"parent", n - 1, u[n].id[3]>>
    <3> DEFINE ids == <<"parent", n - 1, u[n].id[3]>>
        x == u[n].payload
        es == u[n].ends
    <3>1. out[n] = [id |-> ids, payload |-> x, ends |-> es]
      BY <1>4
    <3> HIDE DEF ids, x, es
    <3>2. out[n].id = ids
      BY <3>1
    <3> QED
      BY <2>3, <3>2 DEF ids
  <2>5. Latest(old) = LatestOf(u, old)
    BY <2>2, <2>4
  <2> QED
    BY <2>5 DEF old
<1>6. DOMAIN out = 1 .. L
  BY <1>3
<1> HIDE DEF out, Latest
<1>7. ASSUME NEW i \in 1 .. L PROVE w(i) = FinalOf(u, i)
  <2> DEFINE es == u[i].ends
      ids == <<"parent", i - 1, u[i].id[3]>>
      x == u[i].payload
  <2>1. out[i] = [id |-> ids, payload |-> x, ends |-> es]
    BY <1>4
  <2>2. [k \in DOMAIN es |-> Latest(es[k])] = [k \in DOMAIN es |-> LatestOf(u, es[k])]
    BY <1>5
  <2> HIDE DEF es, ids, x
  <2>3. w(i) = [id |-> ids, payload |-> x, ends |-> [k \in DOMAIN es |-> Latest(es[k])]]
    BY <2>1
  <2> QED
    BY <2>2, <2>3 DEF FinalOf, es, ids, x
<1> HIDE DEF w
<1>8. [i \in DOMAIN out |-> w(i)] = [i \in 1 .. L |-> FinalOf(u, i)]
  BY <1>6, <1>7
<1> QED
  BY <1>1, <1>8, Zenon DEF u

LEMMA PairsAndSingles ==
  ASSUME NEW a \in EndPairs
  PROVE  a # <<>> /\ DOMAIN a = {1, 2} /\ \A x \in Payloads : a # <<x>>
<1>1. a = <<a[1], a[2]>>
  BY DEF EndPairs
<1> QED
  BY <1>1

(* An edge mention keeps, as its ends, final ids of nodes with the payloads *)
(* that its ends had before.                                                *)
LEMMA EndFound ==
  ASSUME NEW u \in Seq(SplitMentions), Wired(u), NEW i \in 1 .. Len(u), u[i] \in Edged, NEW k \in {1, 2}
  PROVE  \E j \in 1 .. Len(u) : /\ FinalOf(u, j).id = FinalOf(u, i).ends[k]
                                /\ FinalOf(u, j).payload = u[i].ends[k][3][1]
<1> DEFINE old == u[i].ends[k]
<1>1. ~NodeLike(u[i])
  BY DEF NodeLike, Edged
<1>2. EdgeLike(u[i]) /\ \E c, d \in 1 .. Len(u) : u[i].ends = <<u[c].id, u[d].id>>
  BY <1>1 DEF Wired
<1>3. \E n \in 1 .. Len(u) : u[n].id = old
  BY <1>2
<1>4. DOMAIN u[i].ends = {1, 2} /\ old \in NodeIds
  <2>1. u[i].ends \in EndPairs
    BY <1>2 DEF EdgeLike
  <2> QED
    BY <2>1, PairsAndSingles DEF EndPairs
<1>5. FinalOf(u, i).ends[k] = LatestOf(u, old)
  BY <1>4 DEF FinalOf
<1> HIDE DEF old
<1>6. PICK j \in 1 .. Len(u) : u[j].id = old /\ LatestOf(u, old) = <<"parent", j - 1, old[3]>>
  BY <1>3, LatestFound
<1>7. FinalOf(u, j).id = LatestOf(u, old) /\ FinalOf(u, j).payload = u[j].payload
  BY <1>6 DEF FinalOf
<1>8. PICK x \in Payloads : old[3] = <<x>>
  BY <1>4 DEF NodeIds
<1>9. NodeLike(u[j])
  <2>1. ASSUME EdgeLike(u[j]) PROVE FALSE
    <3>1. old[3] \in EndPairs
      BY <1>6, <2>1 DEF EdgeLike, EdgeIds
    <3> QED
      BY <1>8, <3>1, PairsAndSingles
  <2> QED
    BY <2>1 DEF Wired
<1>10. u[j].payload = old[3][1]
  BY <1>6, <1>9 DEF NodeLike
<1> QED
  BY <1>5, <1>7, <1>10 DEF old

FinalJoins(ms, lp) ==
  LET Node(id) == ms[CHOOSE i \in DOMAIN ms : ms[i].id = id]
      edges == Among(ms, {m \in ToSet(ms) : m.ends # <<>>})
  IN  /\ \A i, j \in DOMAIN ms : ms[i].id = ms[j].id => i = j
      /\ \A i \in DOMAIN edges : \A k \in {1, 2} : \E j \in DOMAIN ms : ms[j].id = edges[i].ends[k]
      /\ [i \in DOMAIN edges |-> <<Node(edges[i].ends[1]).payload, Node(edges[i].ends[2]).payload>>] = lp

LEMMA FinalKept ==
  ASSUME NEW ss, NEW lp, MentionsOf(FlattenSeq(ss), lp)
  PROVE  FinalJoins(FinalizeSplits(ss), lp)
<1> DEFINE u == FlattenSeq(ss)
    ms == FinalizeSplits(ss)
    L == Len(u)
    M == 1 .. L
    E == {m \in ToSet(ms) : m.ends # <<>>}
    I == {i \in M : u[i] \in Edged}
    idx == [i \in M |-> i]
    c == Among(idx, I)
    edges == Among(ms, E)
    placed(id) == CHOOSE i \in DOMAIN ms : ms[i].id = id
    Node(id) == ms[placed(id)]
<1>1. u \in Seq(SplitMentions) /\ Wired(u) /\ Mapped(JoinsOf, Among(u, Edged)) = lp
  BY DEF MentionsOf
<1>2. ms = [i \in M |-> FinalOf(u, i)]
  BY <1>1, FinalIs
<1> HIDE DEF u, ms
<1>3. /\ L \in Nat /\ DOMAIN u = M /\ DOMAIN ms = M
      /\ \A i \in M : ms[i] = FinalOf(u, i) /\ u[i] \in SplitMentions
  BY <1>1, <1>2
<1>4. \A i, j \in M : ms[i].id = ms[j].id => i = j
  <2> SUFFICES ASSUME NEW i \in M, NEW j \in M, ms[i].id = ms[j].id PROVE i = j
    OBVIOUS
  <2>1. ms[i].id = <<"parent", i - 1, u[i].id[3]>> /\ ms[j].id = <<"parent", j - 1, u[j].id[3]>>
    BY <1>3 DEF FinalOf
  <2> DEFINE x == u[i].id[3]
      y == u[j].id[3]
      m == i - 1
      n == j - 1
  <2>2. <<"parent", m, x>> = <<"parent", n, y>>
    BY <2>1
  <2> HIDE DEF x, y, m, n
  <2>3. m = n
    BY <2>2
  <2> QED
    BY <1>3, <2>3 DEF m, n
<1>5. \A i \in M : ms[i] \in E <=> i \in I
  <2> TAKE i \in M
  <2>1. ms[i].ends = [k \in DOMAIN u[i].ends |-> LatestOf(u, u[i].ends[k])]
    BY <1>3 DEF FinalOf
  <2>2. ms[i] \in ToSet(ms)
    BY <1>3 DEF ToSet
  <2>3. CASE NodeLike(u[i])
    <3>1. u[i].ends = <<>>
      BY <2>3 DEF NodeLike
    <3>2. ms[i].ends = <<>>
      BY <2>1, <3>1
    <3> QED
      BY <3>1, <3>2 DEF Edged
  <2>4. CASE EdgeLike(u[i])
    <3>1. u[i].ends \in EndPairs
      BY <2>4 DEF EdgeLike
    <3>2. u[i].ends # <<>> /\ DOMAIN u[i].ends = {1, 2}
      BY <3>1, PairsAndSingles
    <3>3. ms[i].ends # <<>>
      <4>1. DOMAIN ms[i].ends = {1, 2} /\ DOMAIN <<>> = {}
        BY <2>1, <3>2
      <4> QED
        BY <4>1
    <3> QED
      BY <1>3, <2>2, <3>2, <3>3 DEF Edged
  <2> QED
    BY <1>1, <2>3, <2>4 DEF Wired
<1>6. ASSUME NEW i \in I, NEW k \in {1, 2}
      PROVE  \E j \in M : ms[j].id = ms[i].ends[k] /\ ms[j].payload = u[i].ends[k][3][1]
  <2>1. i \in M /\ u[i] \in Edged
    OBVIOUS
  <2>2. PICK j \in M : FinalOf(u, j).id = FinalOf(u, i).ends[k] /\ FinalOf(u, j).payload = u[i].ends[k][3][1]
    BY <1>1, <2>1, EndFound
  <2> QED
    BY <1>3, <2>1, <2>2
<1>7. ASSUME NEW i \in I, NEW k \in {1, 2}
      PROVE  Node(ms[i].ends[k]).payload = u[i].ends[k][3][1]
  <2> DEFINE id == ms[i].ends[k]
  <2>1. PICK j \in M : ms[j].id = id /\ ms[j].payload = u[i].ends[k][3][1]
    BY <1>6
  <2> HIDE DEF id
  <2>2. placed(id) \in M /\ ms[placed(id)].id = id
    BY <1>3, <2>1
  <2> HIDE DEF placed
  <2>3. placed(id) = j
    BY <1>4, <2>1, <2>2
  <2> QED
    BY <2>1, <2>3 DEF id
<1> HIDE DEF placed, E, Node
<1>8. idx \in Seq(M) /\ Mapped(ms, idx) = ms /\ Mapped(u, idx) = u /\ ToSet(idx) = M
  <2>1. Mapped(ms, idx) = [i \in M |-> ms[i]] /\ Mapped(u, idx) = [i \in M |-> u[i]]
    BY DEF Mapped
  <2>2. ms = [i \in M |-> ms[i]]
    BY <1>2, <1>3
  <2>3. u = [i \in M |-> u[i]]
    BY <1>1
  <2>4. idx \in Seq(M) /\ ToSet(idx) = M
    BY <1>3 DEF ToSet
  <2> QED
    BY <2>1, <2>2, <2>3, <2>4
<1>9. \A i \in M : u[i] \in Edged <=> i \in I
  OBVIOUS
<1> HIDE DEF idx, I, M
<1>10. c \in Seq(M) /\ \A n \in 1 .. Len(c) : c[n] \in I
  <2>1. c \in Seq(M)
    BY <1>8, AmongIn
  <2>2. ToSet(c) = ToSet(idx) \cap I
    BY <1>8, AmongMembers
  <2> HIDE DEF c
  <2>3. \A n \in 1 .. Len(c) : c[n] \in ToSet(c)
    BY <2>1 DEF ToSet
  <2> QED
    BY <2>1, <2>2, <2>3
<1>11. edges = Mapped(ms, c) /\ Among(u, Edged) = Mapped(u, c)
  <2>1. Among(Mapped(ms, idx), E) = Mapped(ms, Among(idx, I))
    BY <1>5, <1>8, AmongMapped
  <2>2. Among(Mapped(u, idx), Edged) = Mapped(u, Among(idx, I))
    BY <1>8, <1>9, AmongMapped
  <2> QED
    BY <1>8, <2>1, <2>2
<1> DEFINE K == Len(c)
<1>12. DOMAIN c = 1 .. K
  BY <1>10
<1> HIDE DEF c, edges, K
<1>13. DOMAIN edges = 1 .. K /\ \A n \in 1 .. K : edges[n] = ms[c[n]]
  BY <1>11, <1>12 DEF Mapped
<1>14. lp = [n \in 1 .. K |-> JoinsOf[u[c[n]]]]
  <2> DEFINE uc == Mapped(u, c)
  <2>1. DOMAIN uc = 1 .. K /\ \A n \in 1 .. K : uc[n] = u[c[n]]
    BY <1>12 DEF Mapped
  <2>2. lp = Mapped(JoinsOf, uc)
    BY <1>1, <1>11
  <2> HIDE DEF uc
  <2> QED
    BY <2>1, <2>2 DEF Mapped
<1>15. \A n \in 1 .. K : c[n] \in I
  BY <1>10 DEF K
<1> DEFINE v(n) == <<Node(edges[n].ends[1]).payload, Node(edges[n].ends[2]).payload>>
<1>16. ASSUME NEW n \in 1 .. K PROVE v(n) = JoinsOf[u[c[n]]]
  <2> DEFINE i == c[n]
  <2>1. i \in I /\ edges[n] = ms[i]
    BY <1>13, <1>15
  <2> HIDE DEF i
  <2>2. v(n) = <<u[i].ends[1][3][1], u[i].ends[2][3][1]>>
    BY <1>7, <2>1
  <2>3. u[i] \in SplitMentions
    BY <1>3, <2>1 DEF I
  <2>4. JoinsOf[u[i]] = <<u[i].ends[1][3][1], u[i].ends[2][3][1]>>
    BY <2>3 DEF JoinsOf, Joins
  <2> QED
    BY <2>2, <2>4 DEF i
<1>17. ASSUME NEW n \in DOMAIN edges, NEW k \in {1, 2} PROVE \E j \in DOMAIN ms : ms[j].id = edges[n].ends[k]
  <2>1. edges[n] = ms[c[n]] /\ c[n] \in I
    BY <1>13, <1>15
  <2> QED
    BY <1>3, <1>6, <2>1
<1>18. [n \in DOMAIN edges |-> v(n)] = lp
  <2> HIDE DEF v
  <2> QED
    BY <1>13, <1>14, <1>16
<1>19. \A i, j \in DOMAIN ms : ms[i].id = ms[j].id => i = j
  BY <1>3, <1>4
<1> HIDE DEF L
<1> QED
  BY <1>17, <1>18, <1>19, Zenon DEF FinalJoins, edges, v, Node, placed, E, ms

LEMMA FinalEdges ==
  ASSUME BatchesInv
  PROVE  FinalEdgesKeepPayloads
<1> DEFINE p == DropDangling(first, {})
    s == DropDangling(second, {})
    lp == Among(EdgePayloads(p), Legal)
    lq == Among(EdgePayloads(s), Legal)
<1> SUFFICES ASSUME Sound, NEW sameText \in BOOLEAN
             PROVE  FinalJoins(Mentions2(sameText), lp \o lq)
  BY Zenon DEF FinalEdgesKeepPayloads, FinalJoins
<1> DEFINE h == IF sameText THEN "h1" ELSE "h2"
    t == Extract("h1", p)
    u == Extract(h, s)
<1>1. /\ first \in Batches /\ second \in Batches
      /\ DistinctIds(first.nodes) /\ DistinctIds(second.nodes)
  BY AnswerParts DEF BatchesInv, Sound
<1>2. /\ p \in Batches /\ DistinctIds(p.nodes) /\ KnownEnds(p, LocalId(p))
      /\ s \in Batches /\ DistinctIds(s.nodes) /\ KnownEnds(s, LocalId(s))
  <2> DEFINE none == {}
  <2>1. ASSUME NEW b \in Batches, DistinctIds(b.nodes)
        PROVE  LET d == DropDangling(b, none)
               IN  d \in Batches /\ DistinctIds(d.nodes) /\ KnownEnds(d, LocalId(d))
    <3> DEFINE d == DropDangling(b, none)
    <3>1. /\ d \in Batches /\ d.nodes = b.nodes /\ LocalId(d) = LocalId(b)
          /\ KnownEnds(d, LocalId(b) \cup none)
      BY <2>1, Dropped
    <3>2. LocalId(b) \cup none = LocalId(b)
      OBVIOUS
    <3> HIDE DEF d
    <3>3. d \in Batches /\ DistinctIds(d.nodes) /\ KnownEnds(d, LocalId(d))
      BY <2>1, <3>1, <3>2
    <3> QED
      BY <3>3 DEF d
  <2> QED
    BY <1>1, <2>1
<1>3. h \in Hashes /\ "h1" \in Hashes
  BY DEF Hashes
<1> HIDE DEF p, s, h
<1>4. MentionsOf(t, lp) /\ MentionsOf(u, lq)
  <2> DEFINE h1 == "h1"
  <2>1. h1 \in Hashes
    BY <1>3
  <2> HIDE DEF h1
  <2>2. MentionsOf(Extract(h1, p), lp) /\ MentionsOf(u, lq)
    BY <1>2, <1>3, <2>1, ExtractIs
  <2> QED
    BY <2>2 DEF h1
<1> HIDE DEF t, u, lp, lq
<1>5. FlattenSeq(<<t, u>>) = t \o u
  <2> DEFINE X == SplitMentions
  <2>1. t \in Seq(X) /\ u \in Seq(X)
    BY <1>4 DEF MentionsOf
  <2> HIDE DEF X
  <2> QED
    BY <2>1, FlattenPair
<1>6. MentionsOf(t \o u, lp \o lq)
  BY <1>4, MentionsJoined
<1>7. FinalJoins(FinalizeSplits(<<t, u>>), lp \o lq)
  <2> DEFINE ss == <<t, u>>
      l == lp \o lq
  <2>1. MentionsOf(FlattenSeq(ss), l)
    BY <1>5, <1>6
  <2> HIDE DEF ss, l
  <2>2. FinalJoins(FinalizeSplits(ss), l)
    BY <2>1, FinalKept
  <2> QED
    BY <2>2 DEF ss, l
<1>8. Mentions2(sameText) = FinalizeSplits(<<t, u>>)
  BY Zenon DEF Mentions2, t, u, h, p, s
<1> QED
  BY <1>7, <1>8

-----------------------------------------------------------------------------
LEMMA GrownIn ==
  ASSUME NEW b \in Batches, NEW c
  PROVE  /\ \A id \in LocalIds, x \in Payloads :
              c = [b EXCEPT !.nodes = Append(@, [id |-> id, payload |-> x])] => c \in Batches
         /\ \A e \in References : c = [b EXCEPT !.edges = Append(@, e)] => c \in Batches
<1> DEFINE A == Seq(BatchNode)
    B == Seq(Nat \X Nat)
    N == Nat \X Nat
<1>1. b \in [nodes : A, edges : B] /\ Batches = [nodes : A, edges : B]
  BY DEF Batches
<1>2. ASSUME NEW id \in LocalIds, NEW x \in Payloads PROVE Append(b.nodes, [id |-> id, payload |-> x]) \in A
  <2>1. [id |-> id, payload |-> x] \in BatchNode
    BY BatchConstants DEF BatchNode
  <2>2. b.nodes \in Seq(BatchNode)
    BY <1>1
  <2> QED
    BY <2>1, <2>2, AppendFacts
<1>3. ASSUME NEW e \in References PROVE Append(b.edges, e) \in B
  <2>1. e \in N /\ b.edges \in Seq(N)
    BY <1>1, BatchConstants
  <2> HIDE DEF N
  <2>2. Append(b.edges, e) \in Seq(N)
    BY <2>1, AppendFacts
  <2> QED
    BY <2>2 DEF N
<1> HIDE DEF A, B
<1> QED
  BY <1>1, <1>2, <1>3

LEMMA BatchesStart == BatchesInit => BatchesInv
BY DEF BatchesInit, BatchesInv, NoAnswer, Batches

LEMMA BatchesStep == BatchesInv /\ [BatchesNext]_batchVars => BatchesInv'
<1> SUFFICES ASSUME BatchesInv, [BatchesNext]_batchVars PROVE BatchesInv'
  OBVIOUS
<1>1. first \in Batches /\ second \in Batches
  BY DEF BatchesInv
<1>2. CASE GrowFirst
  <2>1. first' \in Batches
    BY <1>1, <1>2, GrownIn DEF GrowFirst, AddNode, AddEdge
  <2> QED
    BY <1>1, <1>2, <2>1 DEF GrowFirst, BatchesInv
<1>3. CASE GrowSecond
  <2>1. second' \in Batches
    BY <1>1, <1>3, GrownIn DEF GrowSecond, AddNode, AddEdge
  <2> QED
    BY <1>1, <1>3, <2>1 DEF GrowSecond, BatchesInv
<1>4. CASE UNCHANGED batchVars
  BY <1>1, <1>4 DEF BatchesInv, batchVars
<1> QED
  BY <1>2, <1>3, <1>4 DEF BatchesNext

(* Whatever two answers of the model hold, and in whichever numbers: the    *)
(* ids of the merged answer are distinct, every edge joins the payloads it  *)
(* was extracted with, through halves, gleaning and the final mentions of a *)
(* source, and a gleaning answer that repeats the first adds nothing        *)
(* (merge_graph_batches, extract, _extract_from_document).                  *)
THEOREM BatchesKeepEnds == BatchesSpec => []EdgesKeepTheirEnds
<1>1. BatchesSpec => []BatchesInv
  BY BatchesStart, BatchesStep, PTL DEF BatchesSpec
<1>2. BatchesInv => EdgesKeepTheirEnds
  BY UniqueMerged, HalvesKept, NothingTwice, GleaningKept, FinalEdges DEF EdgesKeepTheirEnds
<1> QED
  BY <1>1, <1>2, PTL

-----------------------------------------------------------------------------
(* Clusters of mentions *)

(* The members of a finite set, once each. *)
LEMMA ListedOnce ==
  ASSUME NEW S, IsFiniteSet(S)
  PROVE  /\ SetToSeq(S) \in Seq(S) /\ ToSet(SetToSeq(S)) = S
         /\ \A i, j \in DOMAIN SetToSeq(S) : SetToSeq(S)[i] = SetToSeq(S)[j] => i = j
<1> DEFINE n == Cardinality(S)
    Lists(f) == f \in [1 .. n -> S] /\ IsInjective(f)
    s == SetToSeq(S)
<1>1. n \in Nat /\ ExistsBijection(1 .. n, S)
  BY FS_CardinalityType
<1>2. PICK g \in Bijection(1 .. n, S) : TRUE
  BY <1>1 DEF ExistsBijection
<1>3. g \in [1 .. n -> S] /\ IsInjective(g)
  BY <1>2 DEF Bijection, Injection
<1>4. s \in [1 .. n -> S] /\ IsInjective(s)
  <2>1. s = CHOOSE f \in [1 .. n -> S] : IsInjective(f)
    BY DEF SetToSeq
  <2> HIDE DEF s, n
  <2> QED
    BY <1>3, <2>1
<1> HIDE DEF s
<1>5. s \in Injection(1 .. n, S)
  BY <1>4 DEF Injection
<1>6. IsFiniteSet(1 .. n) /\ Cardinality(1 .. n) = n
  <2>1. 1 \in Int /\ n \in Int
    BY <1>1
  <2> HIDE DEF n
  <2>2. IsFiniteSet(1 .. n) /\ Cardinality(1 .. n) = IF 1 > n THEN 0 ELSE n - 1 + 1
    BY <2>1, FS_Interval
  <2> QED
    BY <1>1, <2>2
<1>7. s \in Surjection(1 .. n, S)
  <2> DEFINE D == 1 .. n
  <2>1. s \in Injection(D, S) /\ Cardinality(D) = Cardinality(S)
    BY <1>5, <1>6
  <2> HIDE DEF D, n
  <2>2. s \in Surjection(D, S)
    BY <2>1, FS_Injection
  <2> QED
    BY <2>2 DEF D
<1>8. DOMAIN s = 1 .. n /\ s \in Seq(S)
  BY <1>1, <1>4
<1>9. ToSet(s) = S
  BY <1>4, <1>7, <1>8 DEF ToSet, Surjection
<1> QED
  BY <1>4, <1>8, <1>9 DEF s, IsInjective

-----------------------------------------------------------------------------
(* Union-find *)

RootsOf(p, L) == {x \in 1 .. L : p[x] = x}

(* p is a forest over 1 .. L; r is the root of each, d decreases towards it. *)
Forest(p, L, r, d) ==
  /\ p \in [1 .. L -> 1 .. L] /\ r \in [1 .. L -> 1 .. L] /\ d \in [1 .. L -> Nat]
  /\ \A x \in 1 .. L :
       /\ p[r[x]] = r[x] /\ r[p[x]] = r[x]
       /\ p[x] = x => r[x] = x /\ d[x] = 0
       /\ p[x] # x => d[p[x]] < d[x]
       /\ d[x] + Cardinality(RootsOf(p, L)) <= L

LEMMA RootsCounted ==
  ASSUME NEW L \in Nat, NEW p
  PROVE  /\ IsFiniteSet(RootsOf(p, L)) /\ Cardinality(RootsOf(p, L)) \in Nat
         /\ IsFiniteSet(1 .. L) /\ Cardinality(1 .. L) = L
<1>1. IsFiniteSet(1 .. L) /\ Cardinality(1 .. L) = IF 1 > L THEN 0 ELSE L - 1 + 1
  <2>1. 1 \in Int /\ L \in Int
    OBVIOUS
  <2> QED
    BY <2>1, FS_Interval
<1>2. RootsOf(p, L) \in SUBSET (1 .. L)
  BY DEF RootsOf
<1>3. IsFiniteSet(RootsOf(p, L))
  BY <1>1, <1>2, FS_Subset
<1> QED
  BY <1>1, <1>3, FS_CardinalityType

LEMMA HalvePathKeeps ==
  ASSUME NEW L \in Nat, NEW p, NEW r, NEW d, Forest(p, L, r, d), NEW x \in 1 .. L
  PROVE  LET q == HalvePath(p, x)[1]
             y == HalvePath(p, x)[2]
         IN  /\ Forest(q, L, r, d) /\ RootsOf(q, L) = RootsOf(p, L)
             /\ y \in 1 .. L /\ r[y] = r[x]
             /\ p[x] = x => q[y] = y
             /\ p[x] # x => d[y] < d[x]
<1> DEFINE up == p[p[x]]
    q == [p EXCEPT ![x] = up]
<1>1. HalvePath(p, x)[1] = q /\ HalvePath(p, x)[2] = up
  BY DEF HalvePath
<1>2. /\ p \in [1 .. L -> 1 .. L] /\ r \in [1 .. L -> 1 .. L] /\ d \in [1 .. L -> Nat]
      /\ \A v \in 1 .. L :
           /\ p[r[v]] = r[v] /\ r[p[v]] = r[v]
           /\ p[v] = v => r[v] = v /\ d[v] = 0
           /\ p[v] # v => d[p[v]] < d[v]
           /\ d[v] + Cardinality(RootsOf(p, L)) <= L
  BY DEF Forest
<1>3. up \in 1 .. L /\ p[x] \in 1 .. L /\ r[up] = r[x]
  BY <1>2
<1>4. p[x] = x => up = x
  OBVIOUS
<1>5. p[x] # x => d[up] < d[x]
  <2>1. d[up] \in Nat /\ d[p[x]] \in Nat /\ d[x] \in Nat
    BY <1>2, <1>3
  <2> DEFINE z == p[x]
  <2>2. z \in 1 .. L /\ up = p[z]
    BY <1>3
  <2>3. p[x] # x => d[z] < d[x]
    BY <1>2
  <2> HIDE DEF up, z
  <2>4. d[up] <= d[z]
    <3>1. d[z] \in Nat /\ d[up] \in Nat
      BY <2>1 DEF z
    <3>2. p[z] # z => d[p[z]] < d[z]
      BY <1>2, <2>2
    <3>3. CASE p[z] = z
      BY <2>2, <3>1, <3>3
    <3>4. CASE p[z] # z
      BY <2>2, <3>1, <3>2, <3>4
    <3> QED
      BY <3>3, <3>4
  <2>5. d[z] \in Nat
    BY <2>1 DEF z
  <2> QED
    BY <2>1, <2>3, <2>4, <2>5
<1>6. p[x] # x => up # x
  <2>1. d[x] \in Nat
    BY <1>2
  <2> HIDE DEF up
  <2> QED
    BY <1>5, <2>1
<1>7. q \in [1 .. L -> 1 .. L] /\ q[x] = up /\ \A v \in 1 .. L : v # x => q[v] = p[v]
  BY <1>2, <1>3
<1> HIDE DEF up, q
<1>8. \A v \in 1 .. L : q[v] = v <=> p[v] = v
  BY <1>4, <1>6, <1>7
<1>9. RootsOf(q, L) = RootsOf(p, L)
  BY <1>8 DEF RootsOf
<1>10. ASSUME NEW v \in 1 .. L
       PROVE  /\ q[r[v]] = r[v] /\ r[q[v]] = r[v]
              /\ q[v] = v => r[v] = v /\ d[v] = 0
              /\ q[v] # v => d[q[v]] < d[v]
              /\ d[v] + Cardinality(RootsOf(q, L)) <= L
  <2>1. r[v] \in 1 .. L /\ p[r[v]] = r[v]
    BY <1>2
  <2>2. q[r[v]] = r[v]
    BY <1>8, <2>1
  <2>3. r[q[v]] = r[v]
    <3>1. CASE v = x
      BY <1>3, <1>7, <3>1
    <3>2. CASE v # x
      BY <1>2, <1>7, <3>2
    <3> QED
      BY <3>1, <3>2
  <2>4. q[v] # v => d[q[v]] < d[v]
    <3>1. CASE v = x
      BY <1>5, <1>7, <1>8, <3>1
    <3>2. CASE v # x
      BY <1>2, <1>7, <3>2
    <3> QED
      BY <3>1, <3>2
  <2> QED
    BY <1>2, <1>8, <1>9, <2>2, <2>3, <2>4
<1>11. Forest(q, L, r, d)
  BY <1>2, <1>7, <1>10 DEF Forest
<1> QED
  BY <1>1, <1>3, <1>4, <1>5, <1>7, <1>9, <1>11

(* find, turn by turn. *)
Turns(L) == [1 .. L -> 1 .. L] \X (1 .. L)

FindsBy(p, x, L, f) ==
  /\ f[0] = <<p, x>> /\ f[L] = Find(p, x)
  /\ \A n \in 1 .. L : f[n] = HalvePath(f[n - 1][1], f[n - 1][2])

LEMMA TurnKept ==
  ASSUME NEW L \in Nat, NEW w \in Turns(L)
  PROVE  HalvePath(w[1], w[2]) \in Turns(L)
<1>1. w[1] \in [1 .. L -> 1 .. L] /\ w[2] \in 1 .. L
  BY DEF Turns
<1>2. w[1][w[1][w[2]]] \in 1 .. L
  BY <1>1
<1> QED
  BY <1>1, <1>2 DEF HalvePath, Turns

LEMMA FoundBy ==
  ASSUME NEW L \in Nat, NEW p \in [1 .. L -> 1 .. L], Len(p) = L, NEW x \in 1 .. L
  PROVE  \E f \in [0 .. L -> Turns(L)] : FindsBy(p, x, L, f)
<1> DEFINE X == Turns(L)
    base == <<p, x>>
    T == [w \in X \X (1 .. L) |-> HalvePath(w[1][1], w[1][2])]
    Then(g, n) == IF n = 0 THEN base ELSE HalvePath(g[n - 1][1], g[n - 1][2])
    Solves(g) == g = [n \in 0 .. L |-> Then(g, n)]
<1>1. base \in X
  BY DEF Turns
<1>2. StaysIn(T, X, L)
  <2>1. ASSUME NEW w \in X \X (1 .. L) PROVE HalvePath(w[1][1], w[1][2]) \in X
    <3>1. w[1] \in X
      OBVIOUS
    <3> QED
      BY <3>1, TurnKept
  <2> HIDE DEF X
  <2> QED
    BY <2>1 DEF StaysIn
<1>3. PICK f \in [0 .. L -> X] : f[0] = base /\ \A n \in 1 .. L : f[n] = T[<<f[n - 1], n>>]
  <2> HIDE DEF X, T, base
  <2> QED
    BY <1>1, <1>2, Iterated
<1>4. ASSUME NEW n \in 1 .. L PROVE f[n] = HalvePath(f[n - 1][1], f[n - 1][2])
  <2>1. f[n - 1] \in X
    <3> HIDE DEF X
    <3> QED
      OBVIOUS
  <2>2. T[<<f[n - 1], n>>] = HalvePath(f[n - 1][1], f[n - 1][2])
    <3> HIDE DEF X
    <3> QED
      BY <2>1
  <2> QED
    BY <1>3, <2>2, Zenon
<1>5. Solves(f)
  <2>1. f = [n \in 0 .. L |-> f[n]]
    OBVIOUS
  <2>2. ASSUME NEW n \in 0 .. L PROVE f[n] = Then(f, n)
    <3>1. CASE n = 0
      BY <1>3, <3>1
    <3>2. CASE n # 0
      <4>1. n \in 1 .. L
        BY <3>2
      <4> QED
        BY <1>4, <3>2, <4>1, Zenon
    <3> QED
      BY <3>1, <3>2
  <2> HIDE DEF Then
  <2> QED
    BY <2>1, <2>2
<1> DEFINE g == CHOOSE g : Solves(g)
<1>6. Solves(g)
  <2> HIDE DEF Solves
  <2> QED
    BY <1>5
<1>7. Find(p, x) = g[L]
  <2>1. Find(p, x) = (CHOOSE h : h = [n \in 0 .. Len(p) |-> Then(h, n)])[Len(p)]
    BY Zenon DEF Find
  <2> QED
    BY <2>1, Zenon
<1> HIDE DEF g
<1>8. \A n \in 0 .. L : g[n] = Then(g, n)
  <2> HIDE DEF Then
  <2> QED
    BY <1>6
<1>9. g[0] = base
  BY <1>8
<1>10. \A n \in 1 .. L : g[n] = HalvePath(g[n - 1][1], g[n - 1][2])
  <2> TAKE n \in 1 .. L
  <2>1. n \in 0 .. L /\ n # 0
    OBVIOUS
  <2> HIDE DEF base
  <2>2. g[n] = Then(g, n)
    BY <1>8, <2>1, Zenon
  <2> QED
    BY <2>1, <2>2
<1> DEFINE P == {n \in 0 .. L : g[n] \in X}
<1>11. 0 \in P
  <2>1. 0 \in 0 .. L /\ g[0] \in X
    <3> HIDE DEF X, base
    <3> QED
      BY <1>1, <1>9
  <2> QED
    BY <2>1
<1>12. ASSUME NEW n \in 1 .. L, n - 1 \in P PROVE n \in P
  <2>1. g[n - 1] \in X /\ n \in 0 .. L
    BY <1>12
  <2>2. HalvePath(g[n - 1][1], g[n - 1][2]) \in X
    BY <2>1, TurnKept
  <2> QED
    BY <1>10, <2>1, <2>2
<1>13. \A n \in 0 .. L : n \in P
  <2> HIDE DEF P
  <2> QED
    BY <1>11, <1>12, UpTo
<1>14. g \in [0 .. L -> X]
  <2>1. g = [n \in 0 .. L |-> Then(g, n)]
    BY <1>6
  <2> HIDE DEF Then, X
  <2> QED
    BY <1>13, <2>1
<1> QED
  <2>1. FindsBy(p, x, L, g)
    BY <1>7, <1>9, <1>10, Zenon DEF FindsBy
  <2> QED
    BY <1>14, <2>1

(* find gives the root and keeps the forest. *)
LEMMA FindIs ==
  ASSUME NEW L \in Nat, NEW p, NEW r, NEW d, Forest(p, L, r, d), Len(p) = L, NEW x \in 1 .. L
  PROVE  /\ Find(p, x)[2] = r[x]
         /\ Forest(Find(p, x)[1], L, r, d) /\ RootsOf(Find(p, x)[1], L) = RootsOf(p, L)
<1>1. /\ p \in [1 .. L -> 1 .. L] /\ r \in [1 .. L -> 1 .. L] /\ d \in [1 .. L -> Nat]
      /\ \A y \in 1 .. L : p[y] = y => r[y] = y
  BY DEF Forest
<1>2. PICK f \in [0 .. L -> Turns(L)] : FindsBy(p, x, L, f)
  BY <1>1, FoundBy
<1>3. /\ f[0] = <<p, x>> /\ f[L] = Find(p, x)
      /\ \A n \in 1 .. L : f[n] = HalvePath(f[n - 1][1], f[n - 1][2])
  BY <1>2, Zenon DEF FindsBy
<1> DEFINE Near(q, y, n) ==
      /\ Forest(q, L, r, d) /\ RootsOf(q, L) = RootsOf(p, L)
      /\ y \in 1 .. L /\ r[y] = r[x] /\ (q[y] = y \/ d[y] + n <= d[x])
    P == {n \in 0 .. L : Near(f[n][1], f[n][2], n)}
<1>4. 0 \in P
  <2>1. f[0][1] = p /\ f[0][2] = x
    BY <1>3
  <2>2. d[x] + 0 <= d[x]
    BY <1>1
  <2> QED
    BY <2>1, <2>2
<1>5. ASSUME NEW n \in 1 .. L, n - 1 \in P PROVE n \in P
  <2> DEFINE q == f[n - 1][1]
      y == f[n - 1][2]
      q2 == HalvePath(q, y)[1]
      y2 == HalvePath(q, y)[2]
  <2>1. /\ Forest(q, L, r, d) /\ RootsOf(q, L) = RootsOf(p, L)
        /\ y \in 1 .. L /\ r[y] = r[x] /\ (q[y] = y \/ d[y] + (n - 1) <= d[x])
    BY <1>5
  <2>2. f[n][1] = q2 /\ f[n][2] = y2
    BY <1>3
  <2> HIDE DEF q, y
  <2>3. /\ Forest(q2, L, r, d) /\ RootsOf(q2, L) = RootsOf(q, L)
        /\ y2 \in 1 .. L /\ r[y2] = r[y]
        /\ q[y] = y => q2[y2] = y2
        /\ q[y] # y => d[y2] < d[y]
    BY <2>1, HalvePathKeeps
  <2> HIDE DEF q2, y2
  <2>4. q2[y2] = y2 \/ d[y2] + n <= d[x]
    <3>1. CASE q[y] = y
      BY <2>3, <3>1
    <3>2. CASE q[y] # y
      <4>1. d[y] + (n - 1) <= d[x] /\ d[y2] < d[y]
        BY <2>1, <2>3, <3>2
      <4>2. d[y] \in Nat /\ d[y2] \in Nat /\ d[x] \in Nat
        BY <1>1, <2>1, <2>3
      <4> QED
        BY <4>1, <4>2
    <3> QED
      BY <3>1, <3>2
  <2>5. Near(q2, y2, n)
    BY <2>1, <2>3, <2>4
  <2>6. n \in 0 .. L
    OBVIOUS
  <2> HIDE DEF Near
  <2> QED
    BY <2>2, <2>5, <2>6
<1>6. \A n \in 0 .. L : n \in P
  <2> HIDE DEF P
  <2> QED
    BY <1>4, <1>5, UpTo
<1> DEFINE q == Find(p, x)[1]
    y == Find(p, x)[2]
<1>7. Near(q, y, L)
  <2>1. L \in 0 .. L
    OBVIOUS
  <2>2. Near(f[L][1], f[L][2], L)
    BY <1>6, <2>1
  <2> HIDE DEF Near
  <2> QED
    BY <1>3, <2>2
<1> HIDE DEF q, y
<1>8. q[y] = y
  <2> SUFFICES ASSUME q[y] # y PROVE FALSE
    OBVIOUS
  <2>1. d[y] + L <= d[x]
    BY <1>7
  <2> DEFINE c == Cardinality(RootsOf(q, L))
  <2>2. c \in Nat
    BY RootsCounted
  <2>3. d[x] + c <= L /\ q[r[x]] = r[x]
    BY <1>7 DEF Forest
  <2>4. c # 0
    <3>1. r[x] \in RootsOf(q, L)
      BY <1>1, <2>3 DEF RootsOf
    <3>2. IsFiniteSet(RootsOf(q, L))
      BY RootsCounted
    <3> QED
      BY <3>1, <3>2, FS_EmptySet
  <2> HIDE DEF c
  <2>5. d[x] \in Nat /\ d[y] \in Nat
    BY <1>1, <1>7
  <2> QED
    BY <2>1, <2>2, <2>3, <2>4, <2>5
<1>9. r[y] = y
  BY <1>7, <1>8 DEF Forest
<1> QED
  BY <1>7, <1>9 DEF q, y

LEMMA LengthOf ==
  ASSUME NEW L \in Nat, NEW S, NEW f \in [1 .. L -> S]
  PROVE  Len(f) = L /\ DOMAIN f = 1 .. L
OBVIOUS

(* p is some forest with the roots r. *)
Rooted(p, L, r) == \E d : Forest(p, L, r, d)

Joined(r, L, a, b) == [x \in 1 .. L |-> IF r[x] = a THEN b ELSE r[x]]

LEMMA Linked ==
  ASSUME NEW L \in Nat, NEW p, NEW r, NEW d, Forest(p, L, r, d),
         NEW u \in 1 .. L, NEW v \in 1 .. L
  PROVE  Rooted([p EXCEPT ![r[u]] = r[v]], L, Joined(r, L, r[u], r[v]))
<1> DEFINE a == r[u]
    b == r[v]
    s == [p EXCEPT ![a] = b]
    r2 == Joined(r, L, a, b)
    c == Cardinality(RootsOf(p, L))
<1>1. /\ p \in [1 .. L -> 1 .. L] /\ r \in [1 .. L -> 1 .. L] /\ d \in [1 .. L -> Nat]
      /\ \A x \in 1 .. L :
           /\ p[r[x]] = r[x] /\ r[p[x]] = r[x]
           /\ p[x] = x => r[x] = x /\ d[x] = 0
           /\ p[x] # x => d[p[x]] < d[x]
           /\ d[x] + c <= L
  BY DEF Forest
<1>2. a \in 1 .. L /\ b \in 1 .. L /\ p[a] = a /\ p[b] = b /\ r[a] = a /\ r[b] = b /\ d[b] = 0 /\ d[a] = 0
  <2>1. a \in 1 .. L /\ b \in 1 .. L /\ p[a] = a /\ p[b] = b
    BY <1>1
  <2> HIDE DEF a, b
  <2> QED
    BY <1>1, <2>1
<1> HIDE DEF a, b
<1>3. /\ s \in [1 .. L -> 1 .. L] /\ s[a] = b /\ \A x \in 1 .. L : x # a => s[x] = p[x]
      /\ r2 \in [1 .. L -> 1 .. L]
      /\ \A x \in 1 .. L : r2[x] = IF r[x] = a THEN b ELSE r[x]
  BY <1>1, <1>2 DEF Joined
<1>4. c \in Nat
  BY RootsCounted
<1>5. CASE a = b
  <2>1. s = p /\ r2 = r
    <3>1. \A x \in 1 .. L : s[x] = p[x] /\ r2[x] = r[x]
      BY <1>2, <1>3, <1>5
    <3> HIDE DEF s, r2
    <3> QED
      BY <1>1, <1>3, <3>1
  <2> HIDE DEF s, r2
  <2> QED
    BY <2>1 DEF Rooted, s, r2, a, b
<1>6. CASE a # b
  <2> DEFINE d2 == [x \in 1 .. L |-> IF r[x] = a THEN d[x] + 1 ELSE d[x]]
  <2>1. /\ d2 \in [1 .. L -> Nat]
        /\ \A x \in 1 .. L : r[x] = a => d2[x] = d[x] + 1
        /\ \A x \in 1 .. L : r[x] # a => d2[x] = d[x]
    <3>1. r \in [1 .. L -> 1 .. L] /\ d \in [1 .. L -> Nat]
      BY <1>1
    <3>2. \A x \in 1 .. L : d2[x] = IF r[x] = a THEN d[x] + 1 ELSE d[x]
      OBVIOUS
    <3>3. DOMAIN d2 = 1 .. L /\ d2 = [x \in 1 .. L |-> d2[x]]
      OBVIOUS
    <3> HIDE DEF d2
    <3> HIDE DEF s, r2, c
    <3>4. ASSUME NEW x \in 1 .. L PROVE d2[x] \in Nat
      <4>1. d[x] \in Nat
        BY <3>1
      <4>2. d[x] + 1 \in Nat
        BY <4>1
      <4> QED
        BY <3>2, <4>1, <4>2
    <3>5. d2 \in [1 .. L -> Nat]
      BY <3>3, <3>4
    <3> QED
      BY <3>2, <3>5
  <2> HIDE DEF s, r2, d2, c
  <2>2. RootsOf(s, L) = RootsOf(p, L) \ {a}
    BY <1>2, <1>3, <1>6 DEF RootsOf
  <2>3. Cardinality(RootsOf(s, L)) = c - 1
    <3>1. a \in RootsOf(p, L)
      BY <1>2 DEF RootsOf
    <3>2. IsFiniteSet(RootsOf(p, L))
      BY RootsCounted
    <3> QED
      BY <2>2, <3>1, <3>2, FS_RemoveElement DEF c
  <2>4. ASSUME NEW x \in 1 .. L
        PROVE  /\ s[r2[x]] = r2[x] /\ r2[s[x]] = r2[x]
               /\ s[x] = x => r2[x] = x /\ d2[x] = 0
               /\ s[x] # x => d2[s[x]] < d2[x]
               /\ d2[x] + Cardinality(RootsOf(s, L)) <= L
    <3>1. /\ r[x] \in 1 .. L /\ p[x] \in 1 .. L /\ d[x] \in Nat
          /\ p[r[x]] = r[x] /\ r[p[x]] = r[x]
          /\ p[x] = x => r[x] = x /\ d[x] = 0
          /\ p[x] # x => d[p[x]] < d[x]
          /\ d[x] + c <= L
      BY <1>1
    <3>2. s[r2[x]] = r2[x]
      BY <1>2, <1>3, <1>6, <3>1
    <3>3. r2[s[x]] = r2[x]
      <4>1. CASE x = a
        <5>1. s[x] = b /\ r2[b] = b /\ r2[a] = b
          BY <1>2, <1>3, <1>6, <4>1
        <5> QED
          BY <4>1, <5>1
      <4>2. CASE x # a
        <5>1. s[x] = p[x]
          BY <1>3, <4>2
        <5>2. r2[p[x]] = r2[x]
          BY <1>3, <3>1
        <5> QED
          BY <5>1, <5>2
      <4> QED
        BY <4>1, <4>2
    <3>4. s[x] = x => r2[x] = x /\ d2[x] = 0
      <4> SUFFICES ASSUME s[x] = x PROVE r2[x] = x /\ d2[x] = 0
        OBVIOUS
      <4>1. x # a /\ p[x] = x
        BY <1>3, <1>6
      <4> QED
        BY <1>3, <2>1, <3>1, <4>1
    <3>5. s[x] # x => d2[s[x]] < d2[x]
      <4>1. CASE x = a
        <5>1. s[x] = b
          BY <1>3, <4>1
        <5>2. d2[b] = 0
          BY <1>2, <1>6, <2>1
        <5>3. d2[a] = 1
          BY <1>2, <2>1
        <5> QED
          BY <4>1, <5>1, <5>2, <5>3
      <4>2. CASE x # a
        <5>1. s[x] = p[x] /\ d[p[x]] \in Nat
          BY <1>1, <1>3, <3>1, <4>2
        <5>2. p[x] # x => d2[p[x]] < d2[x]
          <6>1. CASE r[x] = a
            <7>1. d2[p[x]] = d[p[x]] + 1 /\ d2[x] = d[x] + 1
              BY <2>1, <3>1, <6>1
            <7> QED
              BY <3>1, <5>1, <7>1
          <6>2. CASE r[x] # a
            <7>1. d2[p[x]] = d[p[x]] /\ d2[x] = d[x]
              BY <2>1, <3>1, <6>2
            <7> QED
              BY <3>1, <5>1, <7>1
          <6> QED
            BY <6>1, <6>2
        <5> QED
          BY <5>1, <5>2
      <4> QED
        BY <4>1, <4>2
    <3>6. d2[x] + Cardinality(RootsOf(s, L)) <= L
      <4>1. d2[x] = d[x] \/ d2[x] = d[x] + 1
        BY <2>1
      <4> QED
        BY <1>4, <2>3, <3>1, <4>1
    <3> QED
      BY <3>2, <3>3, <3>4, <3>5, <3>6
  <2>5. Forest(s, L, r2, d2)
    BY <1>3, <2>1, <2>4 DEF Forest
  <2> QED
    BY <2>5 DEF Rooted, s, r2, a, b
<1> QED
  BY <1>5, <1>6

(* _union joins the trees of the two ends. *)
LEMMA UnionIs ==
  ASSUME NEW L \in Nat, NEW p, NEW r, Rooted(p, L, r),
         NEW e, e[1] \in 1 .. L, e[2] \in 1 .. L
  PROVE  Rooted(Union(p, e), L, Joined(r, L, r[e[1]], r[e[2]]))
<1> DEFINE b == Find(p, e[2])
    a == Find(b[1], e[1])
<1>1. PICK d : Forest(p, L, r, d)
  BY DEF Rooted
<1>2. \A q : Forest(q, L, r, d) => q \in [1 .. L -> 1 .. L] /\ Len(q) = L
  <2> TAKE q
  <2> HAVE Forest(q, L, r, d)
  <2>1. q \in [1 .. L -> 1 .. L]
    BY DEF Forest
  <2> QED
    BY <2>1, LengthOf
<1>3. b[2] = r[e[2]] /\ Forest(b[1], L, r, d)
  <2> DEFINE y == e[2]
  <2>1. y \in 1 .. L /\ Len(p) = L
    BY <1>1, <1>2
  <2> HIDE DEF y
  <2>2. Find(p, y)[2] = r[y] /\ Forest(Find(p, y)[1], L, r, d)
    BY <1>1, <2>1, FindIs
  <2> QED
    BY <2>2 DEF y
<1>4. a[2] = r[e[1]] /\ Forest(a[1], L, r, d)
  <2> DEFINE y == e[1]
      q == b[1]
  <2>1. y \in 1 .. L /\ Forest(q, L, r, d)
    BY <1>3
  <2> HIDE DEF y, q
  <2>2. Len(q) = L
    BY <1>2, <2>1
  <2>3. Find(q, y)[2] = r[y] /\ Forest(Find(q, y)[1], L, r, d)
    BY <2>1, <2>2, FindIs
  <2> QED
    BY <2>3 DEF y, q
<1>5. Union(p, e) = [a[1] EXCEPT ![r[e[1]]] = r[e[2]]]
  <2>1. Union(p, e) = [a[1] EXCEPT ![a[2]] = b[2]]
    BY DEF Union
  <2> HIDE DEF a, b
  <2> QED
    BY <1>3, <1>4, <2>1
<1> QED
  <2> DEFINE q == a[1]
      u == e[1]
      v == e[2]
  <2>1. Forest(q, L, r, d) /\ u \in 1 .. L /\ v \in 1 .. L
    BY <1>4
  <2> HIDE DEF q, u, v
  <2>2. Rooted([q EXCEPT ![r[u]] = r[v]], L, Joined(r, L, r[u], r[v]))
    BY <2>1, Linked
  <2> QED
    BY <1>5, <2>2 DEF q, u, v

LEMMA NoneLinked ==
  ASSUME NEW L \in Nat
  PROVE  Rooted([x \in 1 .. L |-> x], L, [x \in 1 .. L |-> x])
<1> DEFINE p == [x \in 1 .. L |-> x]
    d == [x \in 1 .. L |-> 0]
<1>1. RootsOf(p, L) = 1 .. L
  BY DEF RootsOf
<1>2. Cardinality(1 .. L) = L
  BY RootsCounted
<1>3. Cardinality(RootsOf(p, L)) = L
  BY <1>1, <1>2
<1>4. /\ p \in [1 .. L -> 1 .. L] /\ d \in [1 .. L -> Nat]
      /\ \A x \in 1 .. L : p[x] = x /\ d[x] = 0
  OBVIOUS
<1> HIDE DEF p, d
<1>5. Forest(p, L, p, d)
  BY <1>3, <1>4 DEF Forest
<1> QED
  BY <1>5 DEF Rooted, p

LEMMA UnionIn ==
  ASSUME NEW L \in Nat, NEW p \in [1 .. L -> 1 .. L], NEW e, e[1] \in 1 .. L, e[2] \in 1 .. L
  PROVE  Union(p, e) \in [1 .. L -> 1 .. L]
<1> DEFINE b == Find(p, e[2])
    a == Find(b[1], e[1])
    F == [1 .. L -> 1 .. L]
<1>1. \A q \in F, x \in 1 .. L : Find(q, x)[1] \in F /\ Find(q, x)[2] \in 1 .. L
  <2> TAKE q \in F, x \in 1 .. L
  <2>1. Len(q) = L
    BY LengthOf
  <2>2. PICK f \in [0 .. L -> Turns(L)] : FindsBy(q, x, L, f)
    BY <2>1, FoundBy
  <2>3. L \in 0 .. L /\ f[L] = Find(q, x)
    BY <2>2 DEF FindsBy
  <2>4. Find(q, x) \in Turns(L)
    BY <2>3
  <2> QED
    BY <2>4 DEF Turns
<1>2. b[1] \in F /\ b[2] \in 1 .. L
  <2> HIDE DEF F
  <2>1. p \in F
    BY DEF F
  <2> QED
    BY <1>1, <2>1
<1>3. a[1] \in F /\ a[2] \in 1 .. L
  <2> HIDE DEF F, b
  <2> QED
    BY <1>1, <1>2
<1>4. Union(p, e) = [a[1] EXCEPT ![a[2]] = b[2]]
  BY DEF Union
<1> HIDE DEF a, b
<1> QED
  BY <1>2, <1>3, <1>4

IndexPairs(L) == Seq((1 .. L) \X (1 .. L))

LEMMA EndsInside ==
  ASSUME NEW L \in Nat, NEW edges \in IndexPairs(L)
  PROVE  /\ Len(edges) \in Nat /\ DOMAIN edges = 1 .. Len(edges)
         /\ \A n \in 1 .. Len(edges) : edges[n][1] \in 1 .. L /\ edges[n][2] \in 1 .. L
<1> DEFINE M == (1 .. L) \X (1 .. L)
<1>1. \A e \in M : e[1] \in 1 .. L /\ e[2] \in 1 .. L
  OBVIOUS
<1>2. edges \in Seq(M)
  BY DEF IndexPairs
<1> HIDE DEF M
<1>3. Len(edges) \in Nat /\ DOMAIN edges = 1 .. Len(edges) /\ \A n \in 1 .. Len(edges) : edges[n] \in M
  BY <1>2
<1> QED
  BY <1>1, <1>3

(* The parents, edge by edge. *)
ParentsBy(cs, edges, f) ==
  /\ f[0] = [i \in DOMAIN cs |-> i] /\ f[Len(edges)] = Parents(cs, edges)
  /\ \A n \in 1 .. Len(edges) : f[n] = Union(f[n - 1], edges[n])

LEMMA ParentsKept ==
  ASSUME NEW L \in Nat, NEW cs, DOMAIN cs = 1 .. L, NEW edges \in IndexPairs(L)
  PROVE  \E f \in [0 .. Len(edges) -> [1 .. L -> 1 .. L]] : ParentsBy(cs, edges, f)
<1> DEFINE X == [1 .. L -> 1 .. L]
    K == Len(edges)
    base == [i \in DOMAIN cs |-> i]
    T == [w \in X \X (1 .. K) |-> Union(w[1], edges[w[2]])]
    Then(g, n) == IF n = 0 THEN base ELSE Union(g[n - 1], edges[n])
    Solves(g) == g = [n \in 0 .. K |-> Then(g, n)]
<1>1. base \in X /\ K \in Nat
  BY EndsInside
<1>2. ASSUME NEW q \in X, NEW n \in 1 .. K PROVE Union(q, edges[n]) \in X
  <2>1. edges[n][1] \in 1 .. L /\ edges[n][2] \in 1 .. L
    BY EndsInside
  <2> QED
    BY <2>1, UnionIn
<1>3. StaysIn(T, X, K)
  <2>1. ASSUME NEW w \in X \X (1 .. K) PROVE Union(w[1], edges[w[2]]) \in X
    <3>1. w[1] \in X /\ w[2] \in 1 .. K
      OBVIOUS
    <3> HIDE DEF X, K
    <3> QED
      BY <1>2, <3>1
  <2> HIDE DEF X, K
  <2> QED
    BY <2>1 DEF StaysIn
<1>4. PICK f \in [0 .. K -> X] : f[0] = base /\ \A n \in 1 .. K : f[n] = T[<<f[n - 1], n>>]
  <2> HIDE DEF X, T, base, K
  <2> QED
    BY <1>1, <1>3, Iterated
<1>5. ASSUME NEW n \in 1 .. K PROVE f[n] = Union(f[n - 1], edges[n])
  <2>1. f[n - 1] \in X
    <3> HIDE DEF X, K
    <3> QED
      BY <1>1
  <2>2. T[<<f[n - 1], n>>] = Union(f[n - 1], edges[n])
    <3> HIDE DEF X, K
    <3> QED
      BY <2>1
  <2> QED
    BY <1>4, <2>2, Zenon
<1>6. Solves(f)
  <2>1. f = [n \in 0 .. K |-> f[n]]
    OBVIOUS
  <2>2. ASSUME NEW n \in 0 .. K PROVE f[n] = Then(f, n)
    <3>1. CASE n = 0
      BY <1>4, <3>1
    <3>2. CASE n # 0
      <4>1. n \in 1 .. K
        BY <1>1, <3>2
      <4> QED
        BY <1>5, <3>2, <4>1, Zenon
    <3> QED
      BY <3>1, <3>2
  <2> HIDE DEF Then, K
  <2> QED
    BY <2>1, <2>2
<1> DEFINE g == CHOOSE g : Solves(g)
<1>7. Solves(g)
  <2> HIDE DEF Solves
  <2> QED
    BY <1>6
<1>8. Parents(cs, edges) = g[K]
  BY Zenon DEF Parents
<1> HIDE DEF g
<1>9. \A n \in 0 .. K : g[n] = Then(g, n)
  <2> HIDE DEF Then
  <2> QED
    BY <1>7
<1> HIDE DEF K
<1>10. g[0] = base
  <2>1. 0 \in 0 .. K
    BY <1>1
  <2> QED
    BY <1>9, <2>1
<1>11. \A n \in 1 .. K : g[n] = Union(g[n - 1], edges[n])
  <2> HIDE DEF base
  <2> QED
    BY <1>1, <1>9
<1> DEFINE P == {n \in 0 .. K : g[n] \in X}
<1>12. 0 \in P
  <2>1. 0 \in 0 .. K /\ g[0] \in X
    <3> HIDE DEF X, base
    <3> QED
      BY <1>1, <1>10
  <2> QED
    BY <2>1
<1>13. ASSUME NEW n \in 1 .. K, n - 1 \in P PROVE n \in P
  <2>1. g[n - 1] \in X /\ n \in 0 .. K
    <3> HIDE DEF X
    <3> QED
      BY <1>1, <1>13
  <2>2. Union(g[n - 1], edges[n]) \in X
    <3> HIDE DEF X
    <3> QED
      BY <1>2, <2>1
  <2> QED
    BY <1>11, <2>1, <2>2
<1>14. \A n \in 0 .. K : n \in P
  <2> HIDE DEF P
  <2> QED
    BY <1>1, <1>12, <1>13, UpTo
<1>15. g \in [0 .. K -> X]
  <2>1. g = [n \in 0 .. K |-> Then(g, n)]
    BY <1>7
  <2> HIDE DEF Then, X
  <2> QED
    BY <1>14, <2>1
<1> QED
  <2>1. ParentsBy(cs, edges, g)
    BY <1>8, <1>10, <1>11, Zenon DEF ParentsBy, K
  <2> QED
    BY <1>15, <2>1 DEF K

(* The first n edges stay in C or stay out of it. *)
Uncut(C, edges, n) == \A m \in 1 .. n : edges[m][1] \in C <=> edges[m][2] \in C

(* The roots tell the components of the first n edges apart. *)
TellsApart(r, L, edges, n) ==
  /\ \A m \in 1 .. n : r[edges[m][1]] = r[edges[m][2]]
  /\ \A C \in SUBSET (1 .. L) : Uncut(C, edges, n) =>
       \A i, j \in 1 .. L : r[i] = r[j] /\ i \in C => j \in C

LEMMA EdgeJoined ==
  ASSUME NEW L \in Nat, NEW edges \in IndexPairs(L), NEW n \in 1 .. Len(edges),
         NEW r \in [1 .. L -> 1 .. L], TellsApart(r, L, edges, n - 1)
  PROVE  TellsApart(Joined(r, L, r[edges[n][1]], r[edges[n][2]]), L, edges, n)
<1> DEFINE u == edges[n][1]
    v == edges[n][2]
    s == Joined(r, L, r[u], r[v])
<1>1. /\ \A m \in 1 .. Len(edges) : edges[m][1] \in 1 .. L /\ edges[m][2] \in 1 .. L
      /\ Len(edges) \in Nat
  BY EndsInside
<1>2. \A x \in 1 .. L : s[x] = IF r[x] = r[u] THEN r[v] ELSE r[x]
  BY DEF Joined
<1>3. u \in 1 .. L /\ v \in 1 .. L
  BY <1>1
<1>4. /\ \A m \in 1 .. n - 1 : r[edges[m][1]] = r[edges[m][2]]
      /\ \A C \in SUBSET (1 .. L) : Uncut(C, edges, n - 1) =>
           \A i, j \in 1 .. L : r[i] = r[j] /\ i \in C => j \in C
  BY DEF TellsApart
<1> HIDE DEF s
<1>5. ASSUME NEW m \in 1 .. n PROVE s[edges[m][1]] = s[edges[m][2]]
  <2>1. CASE m = n
    BY <1>2, <1>3, <2>1
  <2>2. CASE m # n
    <3>1. m \in 1 .. n - 1 /\ m \in 1 .. Len(edges)
      BY <1>1, <2>2
    <3>2. edges[m][1] \in 1 .. L /\ edges[m][2] \in 1 .. L /\ r[edges[m][1]] = r[edges[m][2]]
      BY <1>1, <1>4, <3>1
    <3> QED
      BY <1>2, <3>2
  <2> QED
    BY <2>1, <2>2
<1>6. ASSUME NEW C \in SUBSET (1 .. L), Uncut(C, edges, n),
             NEW i \in 1 .. L, NEW j \in 1 .. L, s[i] = s[j], i \in C
      PROVE  j \in C
  <2>1. Uncut(C, edges, n - 1) /\ (u \in C <=> v \in C)
    <3>1. n \in 1 .. n /\ \A m \in 1 .. n - 1 : m \in 1 .. n
      BY <1>1
    <3> QED
      BY <1>6, <3>1 DEF Uncut
  <2> HIDE DEF u, v
  <2>2. \A x, y \in 1 .. L : r[x] = r[y] /\ x \in C => y \in C
    BY <1>4, <2>1
  <2>3. CASE r[i] = r[j]
    BY <1>6, <2>2, <2>3
  <2>4. CASE r[i] # r[j]
    <3>1. (r[i] = r[u] /\ r[j] = r[v]) \/ (r[i] = r[v] /\ r[j] = r[u])
      BY <1>2, <1>6, <2>4
    <3> QED
      BY <1>3, <1>6, <2>1, <2>2, <3>1
  <2> QED
    BY <2>3, <2>4
<1> QED
  BY <1>5, <1>6 DEF TellsApart, s

LEMMA ParentsTellApart ==
  ASSUME NEW L \in Nat, NEW cs, DOMAIN cs = 1 .. L, NEW edges \in IndexPairs(L)
  PROVE  \E r \in [1 .. L -> 1 .. L] :
           /\ Rooted(Parents(cs, edges), L, r)
           /\ TellsApart(r, L, edges, Len(edges))
<1> DEFINE K == Len(edges)
<1>1. K \in Nat /\ \A m \in 1 .. K : edges[m][1] \in 1 .. L /\ edges[m][2] \in 1 .. L
  BY EndsInside
<1>2. PICK f \in [0 .. K -> [1 .. L -> 1 .. L]] : ParentsBy(cs, edges, f)
  BY ParentsKept
<1>3. /\ f[0] = [x \in 1 .. L |-> x] /\ f[K] = Parents(cs, edges)
      /\ \A n \in 1 .. K : f[n] = Union(f[n - 1], edges[n])
  BY <1>2, Zenon DEF ParentsBy
<1> HIDE DEF K
<1> DEFINE P == {n \in 0 .. K : \E r \in [1 .. L -> 1 .. L] :
                    Rooted(f[n], L, r) /\ TellsApart(r, L, edges, n)}
<1>4. 0 \in P
  <2> DEFINE r == [x \in 1 .. L |-> x]
  <2>1. Rooted(f[0], L, r)
    BY <1>3, NoneLinked
  <2>2. r \in [1 .. L -> 1 .. L] /\ \A x \in 1 .. L : r[x] = x
    OBVIOUS
  <2> HIDE DEF r
  <2>3. TellsApart(r, L, edges, 0)
    BY <2>2 DEF TellsApart
  <2>4. 0 \in 0 .. K
    BY <1>1
  <2> QED
    BY <2>1, <2>2, <2>3, <2>4
<1>5. ASSUME NEW n \in 1 .. K, n - 1 \in P PROVE n \in P
  <2>1. PICK r \in [1 .. L -> 1 .. L] : Rooted(f[n - 1], L, r) /\ TellsApart(r, L, edges, n - 1)
    BY <1>5
  <2> DEFINE s == Joined(r, L, r[edges[n][1]], r[edges[n][2]])
  <2>2. TellsApart(s, L, edges, n)
    BY <2>1, EdgeJoined DEF K
  <2>3. Rooted(f[n], L, s)
    <3> DEFINE e == edges[n]
        q == f[n - 1]
    <3>1. e[1] \in 1 .. L /\ e[2] \in 1 .. L /\ Rooted(q, L, r)
      BY <1>1, <2>1
    <3> HIDE DEF e, q
    <3>2. Rooted(Union(q, e), L, Joined(r, L, r[e[1]], r[e[2]]))
      BY <3>1, UnionIs
    <3> QED
      BY <1>3, <3>2, Zenon DEF e, q
  <2>4. s \in [1 .. L -> 1 .. L]
    <3>1. edges[n][2] \in 1 .. L
      BY <1>1
    <3>2. r[edges[n][2]] \in 1 .. L
      BY <3>1
    <3> QED
      BY <3>2 DEF Joined
  <2> HIDE DEF s
  <2>5. n \in 0 .. K
    BY <1>1
  <2> QED
    BY <2>2, <2>3, <2>4, <2>5
<1>6. \A n \in 0 .. K : n \in P
  <2> HIDE DEF P
  <2> QED
    BY <1>1, <1>4, <1>5, UpTo
<1>7. K \in P
  <2>1. K \in 0 .. K
    BY <1>1
  <2> HIDE DEF P
  <2> QED
    BY <1>6, <2>1
<1> QED
  BY <1>3, <1>7 DEF K

-----------------------------------------------------------------------------
(* The reference *)

LEMMA GrownIs ==
  ASSUME NEW L \in Nat, NEW edges \in IndexPairs(L), NEW S \in SUBSET (1 .. L)
  PROVE  /\ Grown(S, edges) \in SUBSET (1 .. L) /\ S \subseteq Grown(S, edges)
         /\ \A j \in Grown(S, edges) : j \in S \/ \E m \in 1 .. Len(edges) :
              /\ j \in {edges[m][1], edges[m][2]}
              /\ edges[m][1] \in S \/ edges[m][2] \in S
         /\ Grown(S, edges) = S => Uncut(S, edges, Len(edges))
<1> DEFINE linked == {{edges[e][1], edges[e][2]} : e \in DOMAIN edges}
    G == S \cup UNION {l \in linked : l \cap S # {}}
<1>1. Grown(S, edges) = G
  BY DEF Grown
<1>2. DOMAIN edges = 1 .. Len(edges) /\ \A m \in 1 .. Len(edges) : edges[m][1] \in 1 .. L /\ edges[m][2] \in 1 .. L
  BY EndsInside
<1>3. ASSUME NEW j \in G, j \notin S
      PROVE  \E m \in 1 .. Len(edges) :
               /\ j \in {edges[m][1], edges[m][2]}
               /\ edges[m][1] \in S \/ edges[m][2] \in S
  <2>1. PICK l \in linked : l \cap S # {} /\ j \in l
    BY <1>3
  <2>2. PICK m \in 1 .. Len(edges) : l = {edges[m][1], edges[m][2]}
    BY <1>2, <2>1
  <2> QED
    BY <2>1, <2>2
<1>4. ASSUME NEW m \in 1 .. Len(edges), edges[m][1] \in S \/ edges[m][2] \in S
      PROVE  edges[m][1] \in G /\ edges[m][2] \in G
  <2> DEFINE l == {edges[m][1], edges[m][2]}
  <2>1. l \in linked /\ l \cap S # {}
    BY <1>2, <1>4
  <2>2. l \subseteq G
    <3> HIDE DEF linked, l
    <3> QED
      BY <2>1
  <2> HIDE DEF G
  <2> QED
    BY <2>2
<1>5. S \subseteq G
  OBVIOUS
<1> HIDE DEF G
<1>6. G \subseteq 1 .. L
  BY <1>2, <1>3
<1>7. G = S => Uncut(S, edges, Len(edges))
  BY <1>4 DEF Uncut
<1> QED
  BY <1>1, <1>3, <1>5, <1>6, <1>7

(* The clusters reached, step by step. *)
ReachedBy(cs, edges, L, w) ==
  /\ w[L] = Reached(cs, edges)
  /\ \A i \in 1 .. L : w[0][i] = {i}
  /\ \A n \in 1 .. L, i \in 1 .. L : w[n][i] = Grown(w[n - 1][i], edges)

LEMMA ReachedKept ==
  ASSUME NEW L \in Nat, NEW cs, DOMAIN cs = 1 .. L, Len(cs) = L, NEW edges \in IndexPairs(L)
  PROVE  \E w \in [0 .. L -> [1 .. L -> SUBSET (1 .. L)]] : ReachedBy(cs, edges, L, w)
<1> DEFINE X == [1 .. L -> SUBSET (1 .. L)]
    base == [i \in 1 .. L |-> {i}]
    T == [v \in X \X (1 .. L) |-> [i \in 1 .. L |-> Grown(v[1][i], edges)]]
    Then(g, n) == [i \in 1 .. L |-> IF n = 0 THEN {i} ELSE Grown(g[n - 1][i], edges)]
    Solves(g) == g = [n \in 0 .. L |-> Then(g, n)]
<1>1. base \in X
  OBVIOUS
<1>2. ASSUME NEW q \in X PROVE [i \in 1 .. L |-> Grown(q[i], edges)] \in X
  <2>1. ASSUME NEW i \in 1 .. L PROVE Grown(q[i], edges) \in SUBSET (1 .. L)
    <3>1. q[i] \in SUBSET (1 .. L)
      OBVIOUS
    <3> QED
      BY <3>1, GrownIs
  <2> QED
    BY <2>1
<1>3. StaysIn(T, X, L)
  <2>1. ASSUME NEW v \in X \X (1 .. L) PROVE [i \in 1 .. L |-> Grown(v[1][i], edges)] \in X
    <3>1. v[1] \in X
      OBVIOUS
    <3> HIDE DEF X
    <3> QED
      BY <1>2, <3>1
  <2> HIDE DEF X
  <2> QED
    BY <2>1 DEF StaysIn
<1>4. PICK f \in [0 .. L -> X] : f[0] = base /\ \A n \in 1 .. L : f[n] = T[<<f[n - 1], n>>]
  <2> HIDE DEF X, T, base
  <2> QED
    BY <1>1, <1>3, Iterated
<1>5. ASSUME NEW n \in 1 .. L PROVE f[n] = [i \in 1 .. L |-> Grown(f[n - 1][i], edges)]
  <2>1. f[n - 1] \in X
    <3> HIDE DEF X
    <3> QED
      OBVIOUS
  <2>2. T[<<f[n - 1], n>>] = [i \in 1 .. L |-> Grown(f[n - 1][i], edges)]
    <3> HIDE DEF X
    <3> QED
      BY <2>1
  <2> QED
    BY <1>4, <2>2, Zenon
<1>6. Solves(f)
  <2>1. f = [n \in 0 .. L |-> f[n]]
    OBVIOUS
  <2>2. ASSUME NEW n \in 0 .. L PROVE f[n] = Then(f, n)
    <3>1. CASE n = 0
      <4>1. f[n] = base
        BY <1>4, <3>1
      <4>2. Then(f, n) = base
        BY <3>1
      <4> QED
        BY <4>1, <4>2, Zenon
    <3>2. CASE n # 0
      <4>1. n \in 1 .. L
        BY <3>2
      <4>2. Then(f, n) = [i \in 1 .. L |-> Grown(f[n - 1][i], edges)]
        BY <3>2
      <4> QED
        BY <1>5, <4>1, <4>2, Zenon
    <3> QED
      BY <3>1, <3>2
  <2> HIDE DEF Then
  <2> QED
    BY <2>1, <2>2
<1> DEFINE g == CHOOSE g : Solves(g)
<1>7. Solves(g)
  <2> HIDE DEF Solves
  <2> QED
    BY <1>6
<1>8. Reached(cs, edges) = g[L]
  <2>1. Reached(cs, edges) = (CHOOSE h : h = [n \in 0 .. Len(cs) |->
          [i \in DOMAIN cs |-> IF n = 0 THEN {i} ELSE Grown(h[n - 1][i], edges)]])[Len(cs)]
    BY Zenon DEF Reached
  <2> QED
    BY <2>1, Zenon
<1> HIDE DEF g
<1>9. \A n \in 0 .. L : g[n] = Then(g, n)
  <2> HIDE DEF Then
  <2> QED
    BY <1>7
<1>10. \A i \in 1 .. L : g[0][i] = {i}
  <2>1. 0 \in 0 .. L
    OBVIOUS
  <2>2. g[0] = Then(g, 0)
    BY <1>9, <2>1, Zenon
  <2> QED
    BY <2>2
<1>11. ASSUME NEW n \in 1 .. L PROVE g[n] = [i \in 1 .. L |-> Grown(g[n - 1][i], edges)]
  <2>1. n \in 0 .. L /\ n # 0
    OBVIOUS
  <2>2. g[n] = Then(g, n)
    BY <1>9, <2>1, Zenon
  <2> QED
    BY <2>1, <2>2
<1>12. \A n \in 1 .. L, i \in 1 .. L : g[n][i] = Grown(g[n - 1][i], edges)
  <2> TAKE n \in 1 .. L, i \in 1 .. L
  <2> DEFINE h == g[n - 1]
      k == g[n]
  <2>1. k = [j \in 1 .. L |-> Grown(h[j], edges)]
    BY <1>11, Zenon
  <2> HIDE DEF h, k
  <2>2. k[i] = Grown(h[i], edges)
    BY <2>1
  <2> QED
    BY <2>2 DEF h, k
<1> DEFINE P == {n \in 0 .. L : g[n] \in X}
<1>13. 0 \in P
  <2>1. g[0] = base
    <3>1. 0 \in 0 .. L
      OBVIOUS
    <3>2. g[0] = Then(g, 0)
      BY <1>9, <3>1, Zenon
    <3> QED
      BY <3>2
  <2>2. 0 \in 0 .. L /\ g[0] \in X
    <3> HIDE DEF X, base
    <3> QED
      BY <1>1, <2>1
  <2> QED
    BY <2>2
<1>14. ASSUME NEW n \in 1 .. L, n - 1 \in P PROVE n \in P
  <2>1. g[n - 1] \in X /\ n \in 0 .. L
    <3> HIDE DEF X
    <3> QED
      BY <1>14
  <2>2. g[n] \in X
    <3> HIDE DEF X
    <3> QED
      BY <1>2, <1>11, <2>1
  <2> QED
    BY <2>1, <2>2
<1>15. \A n \in 0 .. L : n \in P
  <2> HIDE DEF P
  <2> QED
    BY <1>13, <1>14, UpTo
<1>16. g \in [0 .. L -> X]
  <2>1. g = [n \in 0 .. L |-> Then(g, n)]
    BY <1>7
  <2> HIDE DEF Then, X
  <2> QED
    BY <1>15, <2>1
<1> QED
  <2>1. ReachedBy(cs, edges, L, g)
    BY <1>8, <1>10, <1>12, Zenon DEF ReachedBy
  <2> QED
    BY <1>16, <2>1

(* What is reached from a cluster is its component. *)
Component(r, L, i) == {j \in 1 .. L : r[j] = r[i]}

LEMMA ReachedIs ==
  ASSUME NEW L \in Nat, NEW cs, DOMAIN cs = 1 .. L, Len(cs) = L, NEW edges \in IndexPairs(L),
         NEW r \in [1 .. L -> 1 .. L], TellsApart(r, L, edges, Len(edges)), NEW i \in 1 .. L
  PROVE  Reached(cs, edges)[i] = Component(r, L, i)
<1> DEFINE C == {j \in 1 .. L : r[j] = r[i]}
    K == Len(edges)
<1>1. PICK w \in [0 .. L -> [1 .. L -> SUBSET (1 .. L)]] : ReachedBy(cs, edges, L, w)
  BY ReachedKept
<1>2. /\ w[L] = Reached(cs, edges) /\ w[0][i] = {i}
      /\ \A n \in 1 .. L : w[n][i] = Grown(w[n - 1][i], edges)
  BY <1>1 DEF ReachedBy
<1>3. /\ \A m \in 1 .. K : r[edges[m][1]] = r[edges[m][2]]
      /\ \A S \in SUBSET (1 .. L) : Uncut(S, edges, K) =>
           \A x, y \in 1 .. L : r[x] = r[y] /\ x \in S => y \in S
  BY DEF TellsApart
<1>4. IsFiniteSet(1 .. L) /\ Cardinality(1 .. L) = L
  BY RootsCounted
<1>5. \A S \in SUBSET (1 .. L) : IsFiniteSet(S) /\ Cardinality(S) \in Nat /\ Cardinality(S) <= L
  <2> TAKE S \in SUBSET (1 .. L)
  <2> DEFINE D == 1 .. L
  <2>1. S \in SUBSET D /\ IsFiniteSet(D) /\ Cardinality(D) = L
    BY <1>4
  <2> HIDE DEF D
  <2>2. IsFiniteSet(S) /\ Cardinality(S) <= L
    BY <2>1, FS_Subset
  <2> QED
    BY <2>2, FS_CardinalityType
<1> DEFINE Good(S, n) ==
      /\ S \in SUBSET (1 .. L) /\ i \in S /\ S \subseteq C
      /\ Grown(S, edges) = S \/ n + 1 <= Cardinality(S)
    P == {n \in 0 .. L : Good(w[n][i], n)}
<1>6. 0 \in P
  <2>1. Cardinality({i}) = 1
    BY FS_Singleton
  <2>2. Good({i}, 0)
    BY <2>1
  <2>3. 0 \in 0 .. L
    OBVIOUS
  <2> HIDE DEF Good
  <2> QED
    BY <1>2, <2>2, <2>3
<1>7. ASSUME NEW n \in 1 .. L, n - 1 \in P PROVE n \in P
  <2> DEFINE S == w[n - 1][i]
      G == Grown(S, edges)
  <2>1. /\ S \in SUBSET (1 .. L) /\ i \in S /\ S \subseteq C
        /\ Grown(S, edges) = S \/ (n - 1) + 1 <= Cardinality(S)
    BY <1>7
  <2>2. w[n][i] = G
    BY <1>2
  <2> HIDE DEF S
  <2>3. /\ G \in SUBSET (1 .. L) /\ S \subseteq G
        /\ \A j \in G : j \in S \/ \E m \in 1 .. K :
             /\ j \in {edges[m][1], edges[m][2]}
             /\ edges[m][1] \in S \/ edges[m][2] \in S
    BY <2>1, GrownIs
  <2> HIDE DEF G
  <2>4. G \subseteq C
    <3> SUFFICES ASSUME NEW j \in G, j \notin S PROVE j \in C
      BY <2>1
    <3>1. PICK m \in 1 .. K :
             /\ j \in {edges[m][1], edges[m][2]}
             /\ edges[m][1] \in S \/ edges[m][2] \in S
      BY <2>3
    <3>2. r[edges[m][1]] = r[edges[m][2]]
      BY <1>3
    <3>3. \A x \in S : r[x] = r[i]
      BY <2>1
    <3>4. r[j] = r[i]
      BY <3>1, <3>2, <3>3
    <3> QED
      BY <2>3, <3>4
  <2>5. Grown(G, edges) = G \/ n + 1 <= Cardinality(G)
    <3>1. CASE G = S
      BY <3>1 DEF G
    <3>2. CASE G # S
      <4>1. (n - 1) + 1 <= Cardinality(S)
        BY <2>1, <3>2 DEF G
      <4>2. S \in SUBSET G /\ IsFiniteSet(G)
        BY <1>5, <2>3
      <4>3. Cardinality(S) <= Cardinality(G) /\ Cardinality(S) # Cardinality(G)
        BY <3>2, <4>2, FS_Subset
      <4>4. Cardinality(S) \in Nat /\ Cardinality(G) \in Nat
        BY <1>5, <2>1, <2>3
      <4> QED
        BY <4>1, <4>3, <4>4
    <3> QED
      BY <3>1, <3>2
  <2>6. Good(G, n)
    BY <2>1, <2>3, <2>4, <2>5
  <2>7. n \in 0 .. L
    OBVIOUS
  <2> HIDE DEF Good
  <2> QED
    BY <2>2, <2>6, <2>7
<1>8. \A n \in 0 .. L : n \in P
  <2> HIDE DEF P
  <2> QED
    BY <1>6, <1>7, UpTo
<1> DEFINE R == Reached(cs, edges)[i]
<1>9. Good(R, L)
  <2>1. L \in 0 .. L
    OBVIOUS
  <2>2. Good(w[L][i], L)
    BY <1>8, <2>1
  <2> HIDE DEF Good
  <2> QED
    BY <1>2, <2>2
<1>10. /\ R \in SUBSET (1 .. L) /\ i \in R /\ R \subseteq C
       /\ Grown(R, edges) = R \/ L + 1 <= Cardinality(R)
  BY <1>9
<1> HIDE DEF R, Good, P
<1>11. Grown(R, edges) = R
  <2>1. Cardinality(R) \in Nat /\ Cardinality(R) <= L
    BY <1>5, <1>10
  <2> QED
    BY <1>10, <2>1
<1>12. Uncut(R, edges, K)
  BY <1>10, <1>11, GrownIs
<1>13. C \subseteq R
  <2> SUFFICES ASSUME NEW j \in 1 .. L, r[j] = r[i] PROVE j \in R
    OBVIOUS
  <2> QED
    BY <1>3, <1>10, <1>12
<1> QED
  BY <1>10, <1>13 DEF R, Component

(* The trees of the roots, as sets of mentions. *)
Tree(cs, r, L, i) == UNION {cs[j] : j \in {k \in 1 .. L : r[k] = r[i]}}

Trees(cs, r, L) == {Tree(cs, r, L, i) : i \in 1 .. L}

MergedBy(cs, edges, L, r) ==
  /\ TellsApart(r, L, edges, Len(edges))
  /\ ApplyMerges(cs, edges) = SetToSeq(Trees(cs, r, L))
  /\ ConnectedComponents(cs, edges) = Trees(cs, r, L)

LEMMA MergesAre ==
  ASSUME NEW L \in Nat, NEW cs, DOMAIN cs = 1 .. L, Len(cs) = L, NEW edges \in IndexPairs(L)
  PROVE  \E r \in [1 .. L -> 1 .. L] : MergedBy(cs, edges, L, r)
<1> DEFINE p == Parents(cs, edges)
<1>1. PICK r \in [1 .. L -> 1 .. L] : Rooted(p, L, r) /\ TellsApart(r, L, edges, Len(edges))
  BY ParentsTellApart
<1> DEFINE root == [i \in DOMAIN cs |-> Find(p, i)[2]]
    T(c) == UNION {cs[j] : j \in {k \in DOMAIN cs : root[k] = c}}
    merged == {T(c) : c \in {root[i] : i \in DOMAIN cs}}
<1>2. ApplyMerges(cs, edges) = SetToSeq(merged)
  BY Zenon DEF ApplyMerges
<1>3. root = r
  <2>1. PICK d : Forest(p, L, r, d)
    BY <1>1 DEF Rooted
  <2> HIDE DEF p
  <2>2. Len(p) = L
    <3>1. p \in [1 .. L -> 1 .. L]
      BY <2>1 DEF Forest
    <3> QED
      BY <3>1, LengthOf
  <2>3. \A i \in 1 .. L : Find(p, i)[2] = r[i]
    BY <2>1, <2>2, FindIs
  <2>4. root \in [1 .. L -> 1 .. L] /\ \A i \in 1 .. L : root[i] = r[i]
    BY <2>3
  <2> HIDE DEF root
  <2> QED
    BY <2>4
<1> HIDE DEF root
<1>4. merged = {Tree(cs, r, L, i) : i \in 1 .. L}
  <2>1. \A i \in 1 .. L : T(root[i]) = Tree(cs, r, L, i)
    BY <1>3 DEF Tree
  <2> HIDE DEF T
  <2> QED
    BY <2>1
<1> HIDE DEF merged, T, p
<1> DEFINE reached == Reached(cs, edges)
    Part(i) == UNION {cs[j] : j \in reached[i]}
<1>5. ConnectedComponents(cs, edges) = {Part(i) : i \in 1 .. L}
  BY DEF ConnectedComponents
<1>6. \A i \in 1 .. L : Part(i) = Tree(cs, r, L, i)
  <2> TAKE i \in 1 .. L
  <2>1. reached[i] = {j \in 1 .. L : r[j] = r[i]}
    <3>1. TellsApart(r, L, edges, Len(edges))
      BY <1>1
    <3> HIDE DEF Part
    <3>2. Reached(cs, edges)[i] = Component(r, L, i)
      BY <3>1, ReachedIs
    <3> QED
      BY <3>2, Zenon DEF Component
  <2> HIDE DEF reached
  <2> QED
    BY <2>1 DEF Tree
<1> HIDE DEF Part
<1>7. ConnectedComponents(cs, edges) = {Tree(cs, r, L, i) : i \in 1 .. L}
  BY <1>5, <1>6
<1> QED
  <2>1. MergedBy(cs, edges, L, r)
    BY <1>1, <1>2, <1>4, <1>7 DEF MergedBy, Trees
  <2> QED
    BY <2>1

(* The merge lists the components, each once. *)
LEMMA MergesListed ==
  ASSUME NEW L \in Nat, NEW cs, DOMAIN cs = 1 .. L, Len(cs) = L, NEW edges \in IndexPairs(L)
  PROVE  LET parts == ConnectedComponents(cs, edges)
             out == ApplyMerges(cs, edges)
         IN  /\ out \in Seq(parts) /\ ToSet(out) = parts
             /\ \A i, j \in DOMAIN out : out[i] = out[j] => i = j
             /\ \E r \in [1 .. L -> 1 .. L] : parts = Trees(cs, r, L)
<1>1. PICK r \in [1 .. L -> 1 .. L] : MergedBy(cs, edges, L, r)
  BY MergesAre
<1> DEFINE parts == Trees(cs, r, L)
    g == [i \in 1 .. L |-> Tree(cs, r, L, i)]
<1>2. g \in Surjection(1 .. L, parts)
  BY DEF Surjection, Trees
<1>3. IsFiniteSet(1 .. L)
  BY RootsCounted
<1> HIDE DEF parts, g
<1>4. IsFiniteSet(parts)
  BY <1>2, <1>3, FS_Surjection
<1>5. /\ SetToSeq(parts) \in Seq(parts) /\ ToSet(SetToSeq(parts)) = parts
      /\ \A i, j \in DOMAIN SetToSeq(parts) : SetToSeq(parts)[i] = SetToSeq(parts)[j] => i = j
  BY <1>4, ListedOnce
<1>6. ApplyMerges(cs, edges) = SetToSeq(parts) /\ ConnectedComponents(cs, edges) = parts
  BY <1>1 DEF parts, MergedBy
<1>7. \E s \in [1 .. L -> 1 .. L] : parts = Trees(cs, s, L)
  BY DEF parts
<1> QED
  BY <1>5, <1>6, <1>7

-----------------------------------------------------------------------------
(* The rounds *)

(* Every mention is in one member of the sequence. *)
Parted(cs) ==
  /\ cs \in Seq(SUBSET Mentions)
  /\ \A m \in Mentions : \E i \in 1 .. Len(cs) : m \in cs[i]
  /\ \A m \in Mentions, i, j \in 1 .. Len(cs) : m \in cs[i] /\ m \in cs[j] => i = j

LEMMA ListedPartition ==
  ASSUME NEW S, S \subseteq SUBSET Mentions, NEW cs \in Seq(S), ToSet(cs) = S,
         \A i, j \in DOMAIN cs : cs[i] = cs[j] => i = j,
         \A m \in Mentions : \E c \in S : m \in c,
         \A m \in Mentions, c, e \in S : m \in c /\ m \in e => c = e
  PROVE  Parted(cs)
<1>1. DOMAIN cs = 1 .. Len(cs) /\ \A i \in 1 .. Len(cs) : cs[i] \in S
  OBVIOUS
<1>2. cs \in Seq(SUBSET Mentions)
  <2> DEFINE M == SUBSET Mentions
  <2>1. Len(cs) \in Nat /\ cs = [i \in 1 .. Len(cs) |-> cs[i]]
    OBVIOUS
  <2>2. \A i \in 1 .. Len(cs) : cs[i] \in M
    BY <1>1
  <2> HIDE DEF M
  <2>3. cs \in Seq(M)
    BY <2>1, <2>2
  <2> QED
    BY <2>3 DEF M
<1>3. ASSUME NEW m \in Mentions PROVE \E i \in 1 .. Len(cs) : m \in cs[i]
  <2>1. PICK c \in ToSet(cs) : m \in c
    OBVIOUS
  <2>2. PICK i \in 1 .. Len(cs) : cs[i] = c
    BY <1>1 DEF ToSet
  <2> QED
    BY <2>1, <2>2
<1>4. ASSUME NEW m \in Mentions, NEW i \in 1 .. Len(cs), NEW j \in 1 .. Len(cs),
             m \in cs[i], m \in cs[j]
      PROVE  i = j
  BY <1>1, <1>4
<1> QED
  BY <1>2, <1>3, <1>4 DEF Parted

LEMMA SeedPartitions == Parted(SeedExact)
<1> DEFINE Same(m) == {x \in Mentions : Identity[x] = Identity[m]}
    g == [m \in Mentions |-> Same(m)]
    S == {Same(m) : m \in Mentions}
<1>1. {{m \in Mentions : Identity[m] = k} : k \in {Identity[m] : m \in Mentions}} = S
  OBVIOUS
<1>2. SeedExact = SetToSeq(S)
  BY <1>1, Zenon DEF SeedExact
<1>3. IsFiniteSet(S)
  <2>1. g \in Surjection(Mentions, S)
    BY DEF Surjection
  <2> HIDE DEF g, S
  <2> QED
    BY <2>1, ClusterConstants, FS_Surjection
<1>4. /\ S \subseteq SUBSET Mentions
      /\ \A m \in Mentions : \E c \in S : m \in c
      /\ \A m \in Mentions, c, e \in S : m \in c /\ m \in e => c = e
  <2>1. \A m \in Mentions : Same(m) \in SUBSET Mentions /\ m \in Same(m)
    OBVIOUS
  <2>2. \A m, k, l \in Mentions : m \in Same(k) /\ m \in Same(l) => Same(k) = Same(l)
    OBVIOUS
  <2> HIDE DEF Same
  <2> QED
    BY <2>1, <2>2
<1> HIDE DEF S
<1>5. /\ SetToSeq(S) \in Seq(S) /\ ToSet(SetToSeq(S)) = S
      /\ \A i, j \in DOMAIN SetToSeq(S) : SetToSeq(S)[i] = SetToSeq(S)[j] => i = j
  BY <1>3, ListedOnce
<1> DEFINE cs == SetToSeq(S)
<1> HIDE DEF cs
<1>6. /\ cs \in Seq(S) /\ ToSet(cs) = S /\ \A i, j \in DOMAIN cs : cs[i] = cs[j] => i = j
  BY <1>5 DEF cs
<1>7. Parted(cs)
  BY <1>4, <1>6, ListedPartition
<1> QED
  BY <1>2, <1>7 DEF cs

LEMMA MergePartitions ==
  ASSUME NEW cs, Parted(cs), NEW edges \in IndexPairs(Len(cs))
  PROVE  /\ Parted(ApplyMerges(cs, edges))
         /\ ToSet(ApplyMerges(cs, edges)) = ConnectedComponents(cs, edges)
<1> DEFINE L == Len(cs)
    parts == ConnectedComponents(cs, edges)
    out == ApplyMerges(cs, edges)
<1>1. L \in Nat /\ DOMAIN cs = 1 .. L /\ Len(cs) = L /\ \A i \in 1 .. L : cs[i] \in SUBSET Mentions
  BY DEF Parted
<1>2. /\ \A m \in Mentions : \E i \in 1 .. L : m \in cs[i]
      /\ \A m \in Mentions, i, j \in 1 .. L : m \in cs[i] /\ m \in cs[j] => i = j
  BY DEF Parted
<1>3. edges \in IndexPairs(L)
  OBVIOUS
<1> HIDE DEF L
<1>4. /\ out \in Seq(parts) /\ ToSet(out) = parts
      /\ \A i, j \in DOMAIN out : out[i] = out[j] => i = j
      /\ \E r \in [1 .. L -> 1 .. L] : parts = Trees(cs, r, L)
  BY <1>1, <1>3, MergesListed
<1> HIDE DEF parts, out
<1>5. PICK r \in [1 .. L -> 1 .. L] : parts = Trees(cs, r, L)
  BY <1>4
<1>6. \A m : \A i \in 1 .. L : m \in Tree(cs, r, L, i) <=> \E j \in 1 .. L : r[j] = r[i] /\ m \in cs[j]
  BY DEF Tree
<1>7. \A i, j \in 1 .. L : r[i] = r[j] => Tree(cs, r, L, i) = Tree(cs, r, L, j)
  BY DEF Tree
<1>8. parts \subseteq SUBSET Mentions
  BY <1>1, <1>5, <1>6 DEF Trees
<1>9. ASSUME NEW m \in Mentions PROVE \E c \in parts : m \in c
  <2>1. PICK i \in 1 .. L : m \in cs[i]
    BY <1>2
  <2>2. m \in Tree(cs, r, L, i) /\ Tree(cs, r, L, i) \in parts
    BY <1>5, <1>6, <2>1 DEF Trees
  <2> QED
    BY <2>2
<1>10. ASSUME NEW m \in Mentions, NEW c \in parts, NEW e \in parts, m \in c, m \in e PROVE c = e
  <2>1. PICK i \in 1 .. L : c = Tree(cs, r, L, i)
    BY <1>5 DEF Trees
  <2>2. PICK j \in 1 .. L : e = Tree(cs, r, L, j)
    BY <1>5 DEF Trees
  <2>3. PICK k \in 1 .. L : r[k] = r[i] /\ m \in cs[k]
    BY <1>6, <1>10, <2>1
  <2>4. PICK l \in 1 .. L : r[l] = r[j] /\ m \in cs[l]
    BY <1>6, <1>10, <2>2
  <2>5. k = l
    BY <1>2, <2>3, <2>4
  <2> QED
    BY <1>7, <2>1, <2>2, <2>3, <2>4, <2>5
<1>11. Parted(out)
  BY <1>4, <1>8, <1>9, <1>10, ListedPartition
<1> QED
  BY <1>4, <1>11 DEF out, parts

(* A group that the reviewer names is made of clusters. *)
LEMMA PairsAreEdges ==
  ASSUME NEW L \in Nat, NEW group \in Seq(1 .. L), NEW S, NEW answer \in Seq(S),
         Named(group, answer) # <<>>
  PROVE  Pairs(Named(group, answer)) \in IndexPairs(L)
<1> DEFINE named == Among(answer, DOMAIN group)
    ns == [k \in DOMAIN named |-> group[named[k]]]
    K == Len(named)
<1>1. named \in Seq(S) /\ ToSet(named) = ToSet(answer) \cap DOMAIN group
  BY AmongIn, AmongMembers
<1>2. Named(group, answer) = ns /\ ~(K < 2)
  <2>1. Named(group, answer) = IF K < 2 THEN <<>> ELSE ns
    BY Zenon DEF Named
  <2> HIDE DEF ns, K
  <2> QED
    BY <2>1
<1> HIDE DEF named
<1>3. DOMAIN named = 1 .. K /\ K \in Nat
  BY <1>1
<1>4. \A k \in 1 .. K : named[k] \in DOMAIN group
  BY <1>1, <1>3 DEF ToSet
<1> HIDE DEF K
<1>5. \A k \in 1 .. K : group[named[k]] \in 1 .. L
  <2>1. \A i \in DOMAIN group : group[i] \in 1 .. L
    OBVIOUS
  <2> QED
    BY <1>4, <2>1
<1>6. ns \in [1 .. K -> 1 .. L] /\ Len(ns) = K
  <2>1. ns \in [1 .. K -> 1 .. L]
    BY <1>3, <1>5
  <2> HIDE DEF ns
  <2> QED
    BY <1>3, <2>1, LengthOf
<1> HIDE DEF ns
<1> DEFINE M == (1 .. L) \X (1 .. L)
    ps == [k \in 1 .. K - 1 |-> <<ns[1], ns[k + 1]>>]
<1>7. ASSUME NEW k \in 1 .. K - 1 PROVE <<ns[1], ns[k + 1]>> \in M
  <2>1. 1 \in 1 .. K /\ k + 1 \in 1 .. K
    BY <1>2, <1>3
  <2>2. ns[1] \in 1 .. L /\ ns[k + 1] \in 1 .. L
    BY <1>6, <2>1
  <2> QED
    BY <2>2
<1>8. K - 1 \in Nat
  BY <1>2, <1>3
<1>9. ps \in Seq(M)
  <2> HIDE DEF M
  <2>1. ps \in [1 .. K - 1 -> M]
    BY <1>7
  <2> HIDE DEF ps
  <2> QED
    BY <1>8, <2>1
<1>10. Pairs(Named(group, answer)) = ps
  BY <1>2, <1>6 DEF Pairs
<1> QED
  BY <1>9, <1>10 DEF IndexPairs

ClusterInv ==
  /\ Parted(clusters)
  /\ merges \in IndexPairs(Len(clusters))

LEMMA NoEdges == \A L : <<>> \in IndexPairs(L)
BY DEF IndexPairs

LEMMA ClusterInvInit == ClustersInit => ClusterInv
BY SeedPartitions, NoEdges DEF ClustersInit, ClusterInv

LEMMA ClusterInvKept == ClusterInv /\ [ClustersNext]_clusterVars => ClusterInv'
<1> SUFFICES ASSUME ClusterInv, [ClustersNext]_clusterVars PROVE ClusterInv'
  OBVIOUS
<1> DEFINE L == Len(clusters)
<1>1. Parted(clusters) /\ merges \in IndexPairs(L) /\ L \in Nat
  BY DEF ClusterInv, Parted
<1>2. CASE ReviewCluster
  <2>1. PICK N \in Neighbourhoods :
          LET group == <<at>> \o SetToSeq(N)
          IN  IF N = {} \/ ToSet(group) \in reviewed
              THEN UNCHANGED <<merges, pending, reviewed>>
              ELSE \E answer \in BoundedSeq(1 .. Len(group) + 1, Len(group)), sure \in BOOLEAN :
                     LET named == Named(group, answer)
                     IN  /\ reviewed' = reviewed \cup {ToSet(group)}
                         /\ merges' = IF sure /\ named # <<>> THEN merges \o Pairs(named) ELSE merges
                         /\ pending' = IF sure \/ named = <<>> THEN pending
                                       ELSE pending \cup {{clusters[i] : i \in ToSet(named)}}
    BY <1>2, Zenon DEF ReviewCluster
  <2>2. at \in 1 .. L /\ UNCHANGED clusters
    BY <1>2 DEF ReviewCluster, Indices
  <2> DEFINE group == <<at>> \o SetToSeq(N)
  <2>3. group \in Seq(1 .. L)
    <3>1. N \subseteq 1 .. L
      BY DEF Neighbourhoods, Indices
    <3> DEFINE D == 1 .. L
        one == <<at>>
        rest == SetToSeq(N)
    <3>2. IsFiniteSet(D)
      BY <1>1, RootsCounted
    <3>3. N \in SUBSET D
      BY <3>1
    <3>4. IsFiniteSet(N)
      <4> HIDE DEF D
      <4> QED
        BY <3>2, <3>3, FS_Subset
    <3>5. rest \in Seq(N)
      BY <3>4, ListedOnce
    <3>6. one \in Seq(D)
      BY <2>2
    <3> HIDE DEF D, rest, one
    <3>7. rest \in Seq(D)
      BY <3>3, <3>5
    <3>8. one \o rest \in Seq(D)
      BY <3>6, <3>7, Concatenated
    <3> QED
      BY <3>8 DEF D, rest, one
  <2>4. merges' \in IndexPairs(L)
    <3>1. CASE N = {} \/ ToSet(group) \in reviewed
      <4>1. merges' = merges
        BY <2>1, <3>1
      <4> QED
        BY <1>1, <4>1
    <3>2. CASE ~(N = {} \/ ToSet(group) \in reviewed)
      <4> DEFINE S == 1 .. Len(group) + 1
          ps(answer) == Pairs(Named(group, answer))
      <4>1. PICK answer \in BoundedSeq(S, Len(group)), sure \in BOOLEAN :
              merges' = IF sure /\ Named(group, answer) # <<>> THEN merges \o ps(answer) ELSE merges
        <5> HIDE DEF group
        <5> QED
          BY <2>1, <3>2, Zenon DEF group
      <4> HIDE DEF group
      <4>2. answer \in Seq(S)
        <5> HIDE DEF S
        <5>1. Len(group) \in Nat
          BY <2>3
        <5>2. PICK k \in 0 .. Len(group) : answer \in [1 .. k -> S]
          BY DEF BoundedSeq, SeqOf
        <5>3. k \in Nat
          BY <5>1, <5>2
        <5> QED
          BY <5>2, <5>3
      <4> HIDE DEF S, ps
      <4>3. CASE sure /\ Named(group, answer) # <<>>
        <5>1. ps(answer) \in IndexPairs(L)
          <6>1. Named(group, answer) # <<>>
            BY <4>3
          <6> HIDE DEF L
          <6> QED
            BY <1>1, <2>3, <4>2, <6>1, PairsAreEdges DEF ps
        <5>2. merges' = merges \o ps(answer)
          BY <4>1, <4>3
        <5> DEFINE M == (1 .. L) \X (1 .. L)
            ms == merges
            pa == ps(answer)
        <5>3. ms \in Seq(M) /\ pa \in Seq(M)
          BY <1>1, <5>1 DEF IndexPairs
        <5> HIDE DEF M, ms, pa
        <5>4. ms \o pa \in Seq(M)
          BY <5>3, Concatenated
        <5> QED
          BY <5>2, <5>4 DEF M, ms, pa, IndexPairs
      <4>4. CASE ~(sure /\ Named(group, answer) # <<>>)
        <5>1. merges' = merges
          BY <4>1, <4>4
        <5> QED
          BY <1>1, <5>1
      <4> QED
        BY <4>3, <4>4
    <3> QED
      BY <3>1, <3>2
  <2> QED
    BY <1>1, <2>2, <2>4 DEF ClusterInv
<1>3. CASE Merge
  <2>1. clusters' = ApplyMerges(clusters, merges) /\ merges' = <<>>
    BY <1>3 DEF Merge
  <2>2. Parted(ApplyMerges(clusters, merges))
    BY <1>1, MergePartitions
  <2> QED
    BY <2>1, <2>2, NoEdges DEF ClusterInv
<1>4. CASE Converge
  BY <1>1, <1>4 DEF Converge, ClusterInv
<1>5. CASE UNCHANGED clusterVars
  BY <1>1, <1>5 DEF clusterVars, ClusterInv
<1> QED
  BY <1>2, <1>3, <1>4, <1>5 DEF ClustersNext

(* Whatever the reviews answer, and however their answers overlap, the      *)
(* clusters of every round partition the mentions, and a round joins what   *)
(* its reviews connect, directly or by a chain, and nothing else            *)
(* (_apply_merges, the union-find of EntityResolutionPipeline).             *)
THEOREM MergesJoinComponents == ClustersSpec => []ClustersAreComponents
<1>1. ClusterInv => ClustersAreComponents
  <2> SUFFICES ASSUME ClusterInv PROVE ClustersAreComponents
    OBVIOUS
  <2>1. Parted(clusters) /\ merges \in IndexPairs(Len(clusters))
    BY DEF ClusterInv
  <2>2. MergesAreComponents
    BY <2>1, MergePartitions DEF MergesAreComponents
  <2>3. ASSUME NEW m \in Mentions PROVE Cardinality({i \in Indices : m \in clusters[i]}) = 1
    <3>1. PICK i \in Indices : m \in clusters[i]
      BY <2>1 DEF Parted, Indices
    <3>2. {j \in Indices : m \in clusters[j]} = {i}
      BY <2>1, <3>1 DEF Parted, Indices
    <3> QED
      BY <3>2, FS_Singleton
  <2> QED
    BY <2>2, <2>3 DEF ClustersAreComponents, OneClusterPerMention
<1> QED
  BY ClusterInvInit, ClusterInvKept, <1>1, PTL DEF ClustersSpec
=============================================================================
