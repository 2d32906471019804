---------------------------- MODULE TwoBoundaries ----------------------------
(***************************************************************************)
(* Files to documents to chunks: DocumentStorePipeline.run over a           *)
(* LocalDocumentStore (Boundary 1) and VectorStorePipeline.run over the     *)
(* documents of that store (Boundary 2).                                    *)
(*                                                                          *)
(* The two pipelines may run at the same time, while files change and while *)
(* somebody edits, breaks or removes the stored JSON files.  A document is  *)
(* listed when a run begins and loaded when its source is produced.  The    *)
(* vector store keeps what SourceStore promises.                            *)
(***************************************************************************)
EXTENDS Naturals, FiniteSets

CONSTANTS
  Sources,     \* source ids: a file, a document and a set of chunks each
  MaxVersion,  \* bound: versions of a file
  Hands,       \* bound: contents somebody may give a document by hand
  ChunkLess    \* the contents that chunk to nothing

Versions == 1 .. MaxVersion
Hand == MaxVersion + 1 .. MaxVersion + Hands

ASSUME BoundaryConstants ==
  /\ MaxVersion \in Nat /\ Hands \in Nat
  /\ ChunkLess \subseteq Nat

VARIABLES
  file,      \* the version each file has; 0: there is none
  newest,    \* the newest version each file has had
  doc,       \* the stored document of each source
  chunks,    \* what the vector store shows of each source
  phase,     \* how far the run of each boundary is
  unread,    \* the stored documents its listing has still to read
  listed,    \* the documents as its listing found them
  at,        \* how far each source is in it
  sweep,     \* its delete_orphans
  orphans,   \* the orphans it has still to delete
  token,     \* Boundary 1: the file hash of each source; 0: none
  made,      \* the content each source has been parsed to, or loaded as
  indexed,   \* Boundary 2: the vector store as its listing found it
  calm,      \* nothing goes wrong, and nobody changes anything, any more
  gone,      \* history: sources without a file since Boundary 1 began
  outdated,  \* history: sources whose document was not of the file since then
  missing    \* history: sources without a document since Boundary 2 began

docsVars == <<file, newest, doc>>
runVars == <<phase, unread, listed, at, sweep, orphans, token, made, indexed>>
vars == <<docsVars, chunks, runVars, calm, gone, outdated, missing>>

Boundaries == {1, 2}

(* A stored document: its source_hash and its content, of which its         *)
(* content_hash is computed.                                                *)
Document == [state : {"absent", "readable", "broken"}, hash : Nat, body : Nat]
Absent == [state |-> "absent", hash |-> 0, body |-> 0]

(* The chunks of a source: none; all from one content, with the             *)
(* content_hash they carry; or, after a write that was interrupted, some    *)
(* that do not agree on one.                                                *)
Chunks == [state : {"none", "whole", "partial"}, tok : Nat, body : Nat]
NoChunks == [state |-> "none", tok |-> 0, body |-> 0]
PartialChunks == [state |-> "partial", tok |-> 0, body |-> 0]

(* What a listing says of a source: its change token, 0 if blank. *)
Entry == [state : {"absent", "readable", "broken"}, tok : Nat]
NoEntry == [state |-> "absent", tok |-> 0]

(* Types; and something is made of a source exactly while it awaits its write. *)
TypeOK ==
  /\ file \in [Sources -> Nat] /\ newest \in [Sources -> Nat]
  /\ doc \in [Sources -> Document]
  /\ chunks \in [Sources -> Chunks]
  /\ phase \in [Boundaries -> {"idle", "hashing", "listing", "streaming", "deleting"}]
  /\ unread \in [Boundaries -> SUBSET Sources]
  /\ listed \in [Boundaries -> [Sources -> Entry]]
  /\ at \in [Boundaries -> [Sources -> {"none", "asked", "ready", "made", "done"}]]
  /\ sweep \in [Boundaries -> BOOLEAN]
  /\ orphans \in [Boundaries -> SUBSET Sources]
  /\ token \in [Sources -> Nat]
  /\ made \in [Boundaries -> [Sources -> Nat]]
  /\ \A b \in Boundaries, s \in Sources : made[b][s] # 0 <=> at[b][s] = "made"
  /\ indexed \in [Sources -> Chunks]
  /\ calm \in BOOLEAN
  /\ {gone, outdated, missing} \subseteq SUBSET Sources

Nobody == [s \in Sources |-> "none"]
Zero == [s \in Sources |-> 0]
Unlisted == [s \in Sources |-> NoEntry]

Init ==
  /\ file = Zero /\ newest = Zero
  /\ doc = [s \in Sources |-> Absent]
  /\ chunks = [s \in Sources |-> NoChunks]
  /\ phase = [b \in Boundaries |-> "idle"]
  /\ unread = [b \in Boundaries |-> {}]
  /\ listed = [b \in Boundaries |-> Unlisted]
  /\ at = [b \in Boundaries |-> Nobody]
  /\ sweep = [b \in Boundaries |-> FALSE]
  /\ orphans = [b \in Boundaries |-> {}]
  /\ token = Zero
  /\ made = [b \in Boundaries |-> Zero]
  /\ indexed = [s \in Sources |-> NoChunks]
  /\ calm = FALSE
  /\ gone = Sources /\ outdated = Sources /\ missing = Sources

-----------------------------------------------------------------------------
(* The files, and the hands of the users. *)

EditFile(s) ==
  /\ newest[s] < MaxVersion
  /\ newest' = [newest EXCEPT ![s] = @ + 1]
  /\ file' = [file EXCEPT ![s] = newest[s] + 1]
  /\ UNCHANGED <<doc, chunks, runVars>>

RemoveFile(s) ==
  /\ file[s] # 0
  /\ file' = [file EXCEPT ![s] = 0]
  /\ UNCHANGED <<newest, doc, chunks, runVars>>

(* A content edit, of a readable or of a broken document; its source_hash   *)
(* field stays.                                                             *)
EditDocument(s) ==
  /\ doc[s].state # "absent"
  /\ \E b \in Hand : doc' = [doc EXCEPT ![s].state = "readable", ![s].body = b]
  /\ UNCHANGED <<file, newest, chunks, runVars>>

(* An edit that leaves no valid Document. *)
BreakDocument(s) ==
  /\ doc[s].state = "readable"
  /\ doc' = [doc EXCEPT ![s].state = "broken", ![s].body = 0]
  /\ UNCHANGED <<file, newest, chunks, runVars>>

RemoveDocument(s) ==
  /\ doc[s].state # "absent"
  /\ doc' = [doc EXCEPT ![s] = Absent]
  /\ UNCHANGED <<file, newest, chunks, runVars>>

Files == {s \in Sources : file[s] # 0}
Documents == {s \in Sources : doc[s].state # "absent"}

-----------------------------------------------------------------------------
(* Steps the two runs have in common. *)

Reach(b, s, point) == at' = [at EXCEPT ![b][s] = point]

Enter(b, p) == phase' = [phase EXCEPT ![b] = p]

(* The source has its outcome; what was read and made of it is no longer    *)
(* used.                                                                    *)
Settle(b, s) ==
  /\ Reach(b, s, "done")
  /\ listed' = [listed EXCEPT ![b][s].tok = 0]
  /\ token' = IF b = 1 THEN [token EXCEPT ![s] = 0] ELSE token
  /\ made' = [made EXCEPT ![b][s] = 0]

(* LocalDocumentStore.list_source_state finds the files of the directory ... *)
OpenListing(b) ==
  /\ Enter(b, "listing")
  /\ unread' = [unread EXCEPT ![b] = Documents]

(* The hash that the boundary compares: source_hash_token, content_hash_token. *)
TokenOf(b, s) == IF b = 1 THEN doc[s].hash ELSE doc[s].body

(* Mutated: a file that cannot be read is left out. *)
FoundReadable(b, s) ==
  IF doc[s].state = "readable" THEN [state |-> "readable", tok |-> TokenOf(b, s)] ELSE NoEntry

(* An unreadable file is listed with blank hashes. *)
Found(b, s) ==
  [state |-> doc[s].state, tok |-> IF doc[s].state = "readable" THEN TokenOf(b, s) ELSE 0]

(* ... and reads them one after the other; one that has gone is left out. *)
ReadListed(b, s) ==
  /\ phase[b] = "listing" /\ s \in unread[b]
  /\ unread' = [unread EXCEPT ![b] = @ \ {s}]
  /\ listed' = [listed EXCEPT ![b][s] = Found(b, s)]
  /\ UNCHANGED <<docsVars, chunks, phase, at, sweep, orphans, token, made, indexed>>

Listed(b) == {s \in Sources : listed[b][s].state # "absent"}

(* The run returns, or is cancelled, or its process dies. *)
Return(b) ==
  /\ Enter(b, "idle")
  /\ unread' = [unread EXCEPT ![b] = {}]
  /\ listed' = [listed EXCEPT ![b] = Unlisted]
  /\ at' = [at EXCEPT ![b] = Nobody]
  /\ sweep' = [sweep EXCEPT ![b] = FALSE]
  /\ orphans' = [orphans EXCEPT ![b] = {}]
  /\ made' = [made EXCEPT ![b] = Zero]
  /\ token' = IF b = 1 THEN Zero ELSE token
  /\ indexed' = IF b = 2 THEN [s \in Sources |-> NoChunks] ELSE indexed

RunOver(b) ==
  /\ phase[b] = "deleting" /\ orphans[b] = {}
  /\ Return(b)
  /\ UNCHANGED <<docsVars, chunks>>

Settled(b) == \A s \in Sources : at[b][s] \in {"none", "done"}

DeleteOrphanFails(b, s) ==
  /\ phase[b] = "deleting" /\ s \in orphans[b]
  /\ orphans' = [orphans EXCEPT ![b] = @ \ {s}]
  /\ UNCHANGED <<docsVars, chunks, phase, unread, listed, at, sweep, token, made, indexed>>

-----------------------------------------------------------------------------
(* Boundary 1: files to documents. *)

Ingest(corpus, orphaned) ==
  /\ phase[1] = "idle"
  /\ orphaned => corpus = Files
  /\ Enter(1, "hashing")
  /\ at' = [at EXCEPT ![1] = [s \in Sources |-> IF s \in corpus THEN "asked" ELSE "none"]]
  /\ sweep' = [sweep EXCEPT ![1] = orphaned]
  /\ UNCHANGED <<docsVars, chunks, unread, listed, orphans, token, made, indexed>>

HashFile(s) ==
  /\ phase[1] = "hashing" /\ at[1][s] = "asked"
  /\ file[s] # 0
  /\ token' = [token EXCEPT ![s] = file[s]]
  /\ Reach(1, s, "ready")
  /\ UNCHANGED <<docsVars, chunks, phase, unread, listed, sweep, orphans, made, indexed>>

HashFails(s) ==
  /\ phase[1] = "hashing" /\ at[1][s] = "asked"
  /\ Settle(1, s)
  /\ UNCHANGED <<docsVars, chunks, phase, unread, sweep, orphans, indexed>>

ListDocuments ==
  /\ phase[1] = "hashing"
  /\ \A s \in Sources : at[1][s] # "asked"
  /\ OpenListing(1)
  /\ UNCHANGED <<docsVars, chunks, listed, at, sweep, orphans, token, made, indexed>>

DocumentsListed ==
  /\ phase[1] = "listing" /\ unread[1] = {}
  /\ Enter(1, "streaming")
  /\ UNCHANGED <<docsVars, chunks, unread, listed, at, sweep, orphans, token, made, indexed>>

SameFile(s) == listed[1][s].tok = token[s]

KeepDocument(s) ==
  /\ phase[1] = "streaming" /\ at[1][s] = "ready"
  /\ SameFile(s)
  /\ Settle(1, s)
  /\ UNCHANGED <<docsVars, chunks, phase, unread, sweep, orphans, indexed>>

Parse(s) ==
  /\ phase[1] = "streaming" /\ at[1][s] = "ready"
  /\ ~SameFile(s)
  /\ file[s] # 0
  /\ made' = [made EXCEPT ![1][s] = file[s]]
  /\ Reach(1, s, "made")
  /\ UNCHANGED <<docsVars, chunks, phase, unread, listed, sweep, orphans, token, indexed>>

ParseFails(s) ==
  /\ phase[1] = "streaming" /\ at[1][s] = "ready"
  /\ ~SameFile(s)
  /\ Settle(1, s)
  /\ UNCHANGED <<docsVars, chunks, phase, unread, sweep, orphans, indexed>>

(* Processing filters the document out: the producer returns None. *)
Filter(s) ==
  /\ phase[1] = "streaming" /\ at[1][s] = "ready"
  /\ ~SameFile(s)
  /\ file[s] # 0
  /\ Settle(1, s)
  /\ UNCHANGED <<docsVars, chunks, phase, unread, sweep, orphans, indexed>>

(* os.replace puts the new file in the place of the old one. *)
Replace(s) ==
  doc' = [doc EXCEPT ![s] = [state |-> "readable", hash |-> token[s], body |-> made[1][s]]]

StoreDocument(s) ==
  /\ phase[1] = "streaming" /\ at[1][s] = "made"
  /\ Replace(s)
  /\ Settle(1, s)
  /\ UNCHANGED <<file, newest, chunks, phase, unread, sweep, orphans, indexed>>

(* The temporary file cannot be written or moved. *)
StoreDocumentFails(s) ==
  /\ phase[1] = "streaming" /\ at[1][s] = "made"
  /\ Settle(1, s)
  /\ UNCHANGED <<docsVars, chunks, phase, unread, sweep, orphans, indexed>>

(* Mutated: an unreadable document is no orphan. *)
OrphanDocumentsReadable ==
  IF sweep[1] THEN {s \in Sources : listed[1][s].state = "readable" /\ at[1][s] = "none"} ELSE {}

OrphanDocuments == IF sweep[1] THEN {s \in Listed(1) : at[1][s] = "none"} ELSE {}

IngestStreamOver ==
  /\ phase[1] = "streaming" /\ Settled(1)
  /\ orphans' = [orphans EXCEPT ![1] = OrphanDocuments]
  /\ Enter(1, "deleting")
  /\ UNCHANGED <<docsVars, chunks, unread, listed, at, sweep, token, made, indexed>>

DeleteDocument(s) ==
  /\ phase[1] = "deleting" /\ s \in orphans[1]
  /\ doc' = [doc EXCEPT ![s] = Absent]
  /\ orphans' = [orphans EXCEPT ![1] = @ \ {s}]
  /\ UNCHANGED <<file, newest, chunks, phase, unread, listed, at, sweep, token, made, indexed>>

(* Cancelled or killed; a document being moved into place may still get     *)
(* there.                                                                   *)
AbortIngest ==
  /\ phase[1] # "idle"
  /\ Return(1)
  /\ \/ UNCHANGED doc
     \/ \E s \in Sources : at[1][s] = "made" /\ Replace(s)
  /\ UNCHANGED <<file, newest, chunks>>

-----------------------------------------------------------------------------
(* Boundary 2: documents to chunks. *)

(* run(wanted, delete_orphans): the ids wanted, or all. *)
Index(orphaned) ==
  /\ phase[2] = "idle"
  /\ OpenListing(2)
  /\ sweep' = [sweep EXCEPT ![2] = orphaned]
  /\ UNCHANGED <<docsVars, chunks, listed, at, orphans, token, made, indexed>>

(* Wanted ids without a document are skipped; then the vector store is      *)
(* listed.                                                                  *)
Resolved(wanted) ==
  /\ phase[2] = "listing" /\ unread[2] = {}
  /\ at' = [at EXCEPT ![2] = [s \in Sources |-> IF s \in wanted \cap Listed(2) THEN "ready"
                                                ELSE "none"]]
  /\ indexed' = chunks
  /\ Enter(2, "streaming")
  /\ UNCHANGED <<docsVars, chunks, unread, listed, sweep, orphans, token, made>>

SameContent(s) ==
  indexed[s].tok # 0 /\ indexed[s].tok = listed[2][s].tok

KeepChunks(s) ==
  /\ phase[2] = "streaming" /\ at[2][s] = "ready"
  /\ SameContent(s)
  /\ Settle(2, s)
  /\ UNCHANGED <<docsVars, chunks, phase, unread, sweep, orphans, indexed>>

Load(s) ==
  /\ phase[2] = "streaming" /\ at[2][s] = "ready"
  /\ ~SameContent(s)
  /\ doc[s].state = "readable"
  /\ made' = [made EXCEPT ![2][s] = doc[s].body]
  /\ Reach(2, s, "made")
  /\ UNCHANGED <<docsVars, chunks, phase, unread, listed, sweep, orphans, token, indexed>>

(* The document has gone (skipped) or cannot be read (an error). *)
LoadFails(s) ==
  /\ phase[2] = "streaming" /\ at[2][s] = "ready"
  /\ ~SameContent(s)
  /\ doc[s].state # "readable"
  /\ Settle(2, s)
  /\ UNCHANGED <<docsVars, chunks, phase, unread, sweep, orphans, indexed>>

ChunkFails(s) ==
  /\ phase[2] = "streaming" /\ at[2][s] = "ready"
  /\ ~SameContent(s)
  /\ Settle(2, s)
  /\ UNCHANGED <<docsVars, chunks, phase, unread, sweep, orphans, indexed>>

(* Mutated: the hash is the one that was listed. *)
StampListed(s) == listed[2][s].tok

(* The content_hash every chunk of the source gets. *)
Stamp(s) == made[2][s]

New(s) ==
  IF made[2][s] \in ChunkLess THEN NoChunks 
  ELSE [state |-> "whole", tok |-> Stamp(s), body |-> made[2][s]]

StoreChunks(s) ==
  /\ phase[2] = "streaming" /\ at[2][s] = "made"
  /\ chunks' = [chunks EXCEPT ![s] = New(s)]
  /\ Settle(2, s)
  /\ UNCHANGED <<docsVars, phase, unread, sweep, orphans, indexed>>

(* What a write that fails or is cut short leaves. *)
LeftBy(s) == {chunks[s], New(s)} \cup (IF New(s) = NoChunks THEN {} ELSE {PartialChunks})

StoreChunksFails(s) ==
  /\ phase[2] = "streaming" /\ at[2][s] = "made"
  /\ \E c \in LeftBy(s) : chunks' = [chunks EXCEPT ![s] = c]
  /\ Settle(2, s)
  /\ UNCHANGED <<docsVars, phase, unread, sweep, orphans, indexed>>

OrphanChunks == IF sweep[2] THEN {s \in Sources \ Listed(2) : indexed[s].state # "none"} ELSE {}

IndexStreamOver ==
  /\ phase[2] = "streaming" /\ Settled(2)
  /\ orphans' = [orphans EXCEPT ![2] = OrphanChunks]
  /\ Enter(2, "deleting")
  /\ UNCHANGED <<docsVars, chunks, unread, listed, at, sweep, token, made, indexed>>

DeleteChunks(s) ==
  /\ phase[2] = "deleting" /\ s \in orphans[2]
  /\ chunks' = [chunks EXCEPT ![s] = NoChunks]
  /\ orphans' = [orphans EXCEPT ![2] = @ \ {s}]
  /\ UNCHANGED <<docsVars, phase, unread, listed, at, sweep, token, made, indexed>>

AbortIndex ==
  /\ phase[2] # "idle"
  /\ Return(2)
  /\ \/ UNCHANGED chunks
     \/ \E s \in Sources : /\ at[2][s] = "made"
                           /\ \E c \in LeftBy(s) : chunks' = [chunks EXCEPT ![s] = c]
  /\ UNCHANGED docsVars

-----------------------------------------------------------------------------
(* The steps of a run over everything, in which nothing goes wrong but what *)
(* must: a file that is gone can be neither hashed nor parsed.              *)
IngestStep ==
  \/ Ingest(Files, TRUE)
  \/ ListDocuments \/ DocumentsListed \/ IngestStreamOver \/ RunOver(1)
  \/ \E s \in Sources :
       \/ HashFile(s) \/ ReadListed(1, s) \/ KeepDocument(s) \/ Parse(s) \/ StoreDocument(s)
       \/ DeleteDocument(s)
       \/ file[s] = 0 /\ (HashFails(s) \/ ParseFails(s))

IndexStep ==
  \/ Index(TRUE) \/ Resolved(Sources)
  \/ IndexStreamOver \/ RunOver(2)
  \/ \E s \in Sources :
       \/ ReadListed(2, s) \/ KeepChunks(s) \/ Load(s) \/ LoadFails(s) \/ StoreChunks(s)
       \/ DeleteChunks(s)

Partial ==
  \/ \E corpus \in SUBSET Files : Ingest(corpus, FALSE)
  \/ Index(FALSE)
  \/ \E wanted \in SUBSET Sources : Resolved(wanted)

Fault ==
  \/ AbortIngest \/ AbortIndex
  \/ \E s \in Sources :
       \/ HashFails(s) \/ ParseFails(s) \/ Filter(s) \/ StoreDocumentFails(s)
       \/ ChunkFails(s) \/ StoreChunksFails(s)
       \/ \E b \in Boundaries : DeleteOrphanFails(b, s)

Users ==
  \E s \in Sources :
    EditFile(s) \/ RemoveFile(s) \/ EditDocument(s) \/ BreakDocument(s) \/ RemoveDocument(s)

(* History: what was the case at any time since the runs began. *)
Watch ==
  /\ gone' = {s \in Sources : file'[s] = 0 \/ (phase[1] # "idle" /\ s \in gone)}
  /\ outdated' = {s \in Sources : \/ doc'[s].state # "readable"
                                  \/ doc'[s].hash # file'[s]
                                  \/ phase[1] # "idle" /\ s \in outdated}
  /\ missing' = {s \in Sources : \/ doc'[s].state = "absent"
                                 \/ phase[2] # "idle" /\ s \in missing}

Work(Step) == Step /\ Watch /\ UNCHANGED calm

(* Between two runs of Boundary 1, one of which follows the last disturbance. *)
CalmDown ==
  /\ ~calm /\ phase[1] = "idle"
  /\ calm' = TRUE
  /\ UNCHANGED <<docsVars, chunks, runVars, gone, outdated, missing>>

Next ==
  \/ Work(IngestStep) \/ Work(IndexStep)
  \/ (~calm /\ Work(Partial \/ Fault \/ Users))
  \/ CalmDown

Spec == Init /\ [][Next]_vars

(* Both pipelines are run over everything again and again, on event loops   *)
(* that run what they can.                                                  *)
FairSpec == Spec /\ WF_vars(Work(IngestStep)) /\ WF_vars(Work(IndexStep))

-----------------------------------------------------------------------------
(* The chunks of a source that carry a content_hash are all from the         *)
(* content it was computed of, whatever the document was when it was listed. *)
TrueContent == \A s \in Sources : chunks[s].state = "whole" => chunks[s].body = chunks[s].tok

(* A pipeline replaces or deletes a readable document only if its           *)
(* source_hash was not that of its file at some time in the run: what users *)
(* write into a document stays until the file changes.                      *)
EditSurvives(s) ==
  doc[s].state = "readable" /\ doc'[s] # doc[s] /\ runVars' # runVars => s \in outdated

(* A pipeline deletes a document only if its file was missing at some time  *)
(* in the run: never because a file could not be hashed or parsed, or its   *)
(* document was filtered out.                                               *)
OnlyGoneIsDeleted(s) ==
  doc[s].state # "absent" /\ doc'[s].state = "absent" /\ runVars' # runVars => s \in gone

(* The chunks of a source vanish only if its document was missing at some   *)
(* time in the run, or chunks to nothing: never because the document could  *)
(* not be read, was not asked for or failed to be written.                  *)
ChunksAreKept(s) ==
  chunks[s].state # "none" /\ chunks'[s].state = "none" =>
    s \in missing \/ (made[2][s] # 0 /\ made[2][s] \in ChunkLess)

(* No step of the two pipelines takes away, on the word of a listing or a    *)
(* hash that is out of date, what the user or the other pipeline has stored. *)
NothingLost ==
  [][\A s \in Sources : EditSurvives(s) /\ OnlyGoneIsDeleted(s) /\ ChunksAreKept(s)]_vars

(* What a source should come to: the document of its file, perhaps edited,  *)
(* and the chunks of that document.                                         *)
Converged ==
  \A s \in Sources :
    IF file[s] = 0 THEN doc[s].state = "absent" /\ chunks[s] = NoChunks
    ELSE /\ doc[s].state = "readable"
         /\ doc[s].hash = file[s] /\ doc[s].body \in {file[s]} \cup Hand
         /\ chunks[s] = IF doc[s].body \in ChunkLess THEN NoChunks
                        ELSE [state |-> "whole", tok |-> doc[s].body, body |-> doc[s].body]

(* Once files, hands and faults are quiet, both stores come to what the     *)
(* files say.                                                               *)
Converges == <>calm => <>[]Converged

=============================================================================
