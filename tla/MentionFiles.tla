----------------------------- MODULE MentionFiles -----------------------------
(***************************************************************************)
(* LocalMentionStore (extraction/stores.py): one JSON file of mentions per    *)
(* source, rewritten in place, and the sync that writes it without            *)
(* replace_source (pipeline/sync.py, extraction/pipeline.py): a new source    *)
(* is upserted, a changed one deleted and then upserted.  A process may die   *)
(* between any two awaits; another reads the store meanwhile.                 *)
(*                                                                            *)
(* A file is absent, torn (truncated, not yet written) or whole: a sequence   *)
(* of mentions in the order of the dict they were merged in, each with its id *)
(* and the version of the source it was extracted from.                       *)
(***************************************************************************)
EXTENDS Integers, Sequences, FiniteSets, SequencesExt

CONSTANTS
  FileSources,
  MentionIds,    \* [version -> sequence of the ids of its mentions]
  MaxJobs,       \* bound: syncs
  MaxDeaths,     \* bound: deaths of the syncing process
  MaxReads       \* bound: listings

ASSUME FileConstants ==
  /\ IsFiniteSet(FileSources)
  /\ \A v \in DOMAIN MentionIds :
       /\ v \in Nat
       /\ Len(MentionIds[v]) \in Nat \ {0} /\ DOMAIN MentionIds[v] = 1 .. Len(MentionIds[v])
  /\ {MaxJobs, MaxDeaths, MaxReads} \subseteq Nat

VARIABLES
  files,       \* source -> [state, mentions]
  versions,    \* source -> its version now
  job,         \* the running sync
  saved,       \* the change set of an earlier plan: source -> [version, new]; none: 0
  reader,      \* a running list_mentions
  counts,      \* [jobs, deaths, reads]
  superseded   \* a saved change set was applied after another sync

fileVars == <<files, versions, job, saved, reader, counts, superseded>>

Absent == [state |-> "absent", mentions |-> <<>>]
Torn == [state |-> "torn", mentions |-> <<>>]
Whole(mentions) == [state |-> "whole", mentions |-> mentions]

IdleJob == [step |-> "idle", changes |-> <<>>, at |-> "none", held |-> <<>>, saw |-> <<>>, errors |-> {}]
IdleReader == [step |-> "idle", todo |-> {}, named |-> {}, got |-> <<>>]

FilesInit ==
  /\ files = [s \in FileSources |-> Absent]
  /\ versions \in [FileSources -> DOMAIN MentionIds]
  /\ job = IdleJob /\ reader = IdleReader
  /\ saved = <<>>
  /\ counts = [jobs |-> 0, deaths |-> 0, reads |-> 0]
  /\ superseded = FALSE

(* The payloads of a version, in the extraction's order. *)
Extracted(version) ==
  [n \in DOMAIN MentionIds[version] |-> [id |-> MentionIds[version][n], version |-> version]]

(* The first mentions of incoming, those existing has the id of left out. *)
Unlisted(existing, incoming) ==
  LET unlisted[n \in 0 .. Len(incoming)] ==
        IF n = 0 THEN <<>>
        ELSE IF \E k \in DOMAIN existing : existing[k].id = incoming[n].id THEN unlisted[n - 1]
        ELSE Append(unlisted[n - 1], incoming[n])
  IN unlisted

(* existing.update(incoming), as the file lists it. *)
Updated(existing, incoming) ==
  LET InIncoming(id) == \E n \in DOMAIN incoming : incoming[n].id = id
  IN [n \in DOMAIN existing |->
        IF InIncoming(existing[n].id)
        THEN CHOOSE m \in ToSet(incoming) : m.id = existing[n].id
        ELSE existing[n]]
       \o Unlisted(existing, incoming)[Len(incoming)]

-----------------------------------------------------------------------------
(* The sync *)

Untorn(f) == f.state # "torn"

(* list_source_state: the first mention speaks for its file. *)
StoredVersion(s) == files[s].mentions[1].version
IsStored(s) == files[s].state = "whole"

(* Mutated: only a later version is a change. *)
ChangedWhenLater(s) == ~ IsStored(s) \/ versions[s] > StoredVersion(s)

Changed(s) == ~ IsStored(s) \/ versions[s] # StoredVersion(s)

ChangeSet ==
  [s \in {x \in FileSources : Changed(x)} |-> [version |-> versions[s], new |-> ~ IsStored(s)]]

(* A source's file changes. *)
EditSource(s) ==
  /\ job.step = "idle"
  /\ \E v \in DOMAIN MentionIds \ {versions[s]} : versions' = [versions EXCEPT ![s] = v]
  /\ UNCHANGED <<files, job, saved, reader, counts, superseded>>

(* plan and run start by listing every file; one torn file raises. *)
StartRun ==
  /\ job.step = "idle" /\ counts.jobs < MaxJobs
  /\ \A s \in FileSources : Untorn(files[s])
  /\ counts' = [counts EXCEPT !.jobs = @ + 1]
  /\ \/ saved' = ChangeSet /\ UNCHANGED job
     \/ /\ job' = [IdleJob EXCEPT !.step = "next", !.changes = ChangeSet, !.saw = versions]
        /\ UNCHANGED saved
  /\ UNCHANGED <<files, versions, reader, superseded>>

(* apply writes a saved change set and lists nothing. *)
StartApply ==
  /\ job.step = "idle" /\ counts.jobs < MaxJobs
  /\ DOMAIN saved # {}
  /\ counts' = [counts EXCEPT !.jobs = @ + 1]
  /\ job' = [IdleJob EXCEPT !.step = "next", !.changes = saved,
                            !.saw = [s \in DOMAIN saved |-> saved[s].version]]
  /\ superseded' = (superseded \/ \E s \in DOMAIN saved : saved[s].new /\ files[s] # Absent)
  /\ UNCHANGED <<files, versions, saved, reader>>

Change == job.changes[job.at]

Untouched == UNCHANGED <<versions, saved, reader, counts, superseded>>

IsNew(s) == job.changes[s].new

(* _write_source: delete_by_source first, unless the source is new. *)
NextChange ==
  /\ job.step = "next"
  /\ \E s \in DOMAIN job.changes \ {job.at} :
       /\ job' = [job EXCEPT !.step = "load", !.at = s]
       /\ files' = IF IsNew(s) THEN files ELSE [files EXCEPT ![s] = Absent]
  /\ Untouched

DropChange == [job EXCEPT !.step = "next", !.at = "none", !.held = <<>>,
                          !.changes = [s \in DOMAIN job.changes \ {job.at} |-> job.changes[s]]]

(* upsert loads what is there; a torn file raises and the change is an error. *)
LoadExisting ==
  /\ job.step = "load"
  /\ job' = IF Untorn(files[job.at])
            THEN [job EXCEPT !.step = "open", !.held = files[job.at].mentions]
            ELSE [DropChange EXCEPT !.errors = @ \union {job.at}]
  /\ UNCHANGED files
  /\ Untouched

(* aiofiles.open(path, "w") truncates; the text arrives with the write. *)
OpenForWriting ==
  /\ job.step = "open"
  /\ files' = [files EXCEPT ![job.at] = Torn]
  /\ job' = [job EXCEPT !.step = "write"]
  /\ Untouched

WriteMentions ==
  /\ job.step = "write"
  /\ files' = [files EXCEPT ![job.at] = Whole(Updated(job.held, Extracted(Change.version)))]
  /\ job' = DropChange
  /\ Untouched

EndJob ==
  /\ job.step = "next" /\ DOMAIN job.changes = {}
  /\ job' = IdleJob
  /\ UNCHANGED files
  /\ Untouched

(* The process dies, with whatever the file holds. *)
Die ==
  /\ job.step # "idle" /\ counts.deaths < MaxDeaths
  /\ job' = IdleJob
  /\ counts' = [counts EXCEPT !.deaths = @ + 1]
  /\ UNCHANGED <<files, versions, saved, reader, superseded>>

(* delete_by_source, called by hand. *)
DeleteByHand(s) ==
  /\ job.step = "idle" /\ files[s].state = "torn"
  /\ files' = [files EXCEPT ![s] = Absent]
  /\ UNCHANGED job
  /\ Untouched

-----------------------------------------------------------------------------
(* list_mentions: the names first, then file by file; one that has gone or  *)
(* is torn raises.                                                          *)

StartReading ==
  /\ reader.step = "idle" /\ counts.reads < MaxReads
  /\ counts' = [counts EXCEPT !.reads = @ + 1]
  /\ LET named == {s \in FileSources : files[s].state # "absent"}
     IN reader' = [IdleReader EXCEPT !.step = IF named = {} THEN "done" ELSE "read",
                                     !.todo = named, !.named = named]
  /\ UNCHANGED <<files, versions, job, saved, superseded>>

WithFile(s) ==
  [r \in DOMAIN reader.got \union {s} |-> IF r = s THEN files[s].mentions ELSE reader.got[r]]

ReadOne(s) ==
  /\ reader.step = "read" /\ s \in reader.todo
  /\ reader' = IF files[s].state # "absent" /\ Untorn(files[s])
               THEN [reader EXCEPT !.todo = @ \ {s}, !.got = WithFile(s),
                                   !.step = IF reader.todo = {s} THEN "done" ELSE "read"]
               ELSE [IdleReader EXCEPT !.step = "raised"]
  /\ UNCHANGED <<files, versions, job, saved, counts, superseded>>

EndReading ==
  /\ reader.step \in {"done", "raised"}
  /\ reader' = IdleReader
  /\ UNCHANGED <<files, versions, job, saved, counts, superseded>>

FilesNext ==
  \/ StartRun \/ StartApply \/ NextChange \/ LoadExisting
  \/ OpenForWriting \/ WriteMentions \/ EndJob \/ Die
  \/ StartReading \/ EndReading
  \/ \E s \in FileSources : EditSource(s) \/ DeleteByHand(s) \/ ReadOne(s)

-----------------------------------------------------------------------------
(* Properties *)

OneExtraction(mentions) == \E v \in DOMAIN MentionIds : mentions = Extracted(v)

(* A listing that returns has one whole extraction of every source whose file *)
(* was there when it began, although files are deleted, truncated and         *)
(* rewritten while it reads (list_mentions): it fails rather than leave out.  *)
ListingsComplete ==
  reader.step = "done" /\ ~ superseded =>
    \A s \in reader.named : s \in DOMAIN reader.got /\ OneExtraction(reader.got[s])

(* A readable file never mixes two versions of its source, whatever died    *)
(* before, unless a saved change set thought it new and it no longer was    *)
(* (_write_source upserts a new source without deleting it).                *)
OneVersionPerFile ==
  ~ superseded => \A s \in FileSources : IsStored(s) => OneExtraction(files[s].mentions)

(* A sync that ends has left every source it looked at, and did not report,  *)
(* with the mentions of the version it looked at, after any deaths and after *)
(* reverted edits (list_source_state reads the first mention only).          *)
SyncLeavesCurrent ==
  job.step = "next" /\ DOMAIN job.changes = {} /\ ~ superseded =>
    \A s \in DOMAIN job.saw \ job.errors : files[s] = Whole(Extracted(job.saw[s]))

(* Files written in place lose and mix nothing silently, whoever dies. *)
MentionFilesAreWhole == ListingsComplete /\ OneVersionPerFile /\ SyncLeavesCurrent

FilesSpec == FilesInit /\ [][FilesNext]_fileVars
=============================================================================
