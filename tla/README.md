# Verification of ragdoc

TLA+ models of [ragdoc](../src/README.md), a library that parses documents, chunks them,
extracts knowledge from them and keeps stores of documents, chunks and mentions in step with
their sources. This directory holds the specifications, the TLC configurations that check them
on small instances and the proofs that TLAPS checks for every instance. `PROJECT.json` maps
every definition to the source lines it translates.

File names below are relative to `src/src/ragdoc/`.

## 1. The system

### Components

| Component | State it keeps | Operations | What makes it correct |
|---|---|---|---|
| Sync engine (`pipeline/sync.py`) | nothing between runs; during one: the snapshot of the store, one task per source, a semaphore, a one-slot queue, a result | `plan`, `apply`, `run`, resolution (`build_current_map`) | unchanged sources are skipped and changed ones are not; every source is accounted for; one source's failure stays its own; only orphans are deleted; no producer outlives a run; bounded memory |
| Qdrant stores (`integrations/`) | points that carry text, vectors and a pair of hashes | `upsert`, `replace_source`, `delete_by_source`, `list_source_state` | an interrupted write of several requests is detectable; old items stay until the new ones are there |
| Local stores (`pipeline/local_document_store.py`, `extraction/stores.py`, `entity.py`, `graph_store.py`) | one file per source, or per entity | the same, listings | a crash leaves the old or the new file, or one that is detectable; a listing leaves nothing out |
| Sync pipelines (`pipeline/vectorstore.py`, `document_store_pipeline.py`, `extraction/pipeline.py`) | none | resolve a request, produce one source's items | end state of `run` equals that of `apply(plan)`; two boundaries (files to documents, documents to chunks or mentions) converge |
| Linear pipelines (`pipeline/linear.py`) | none | `run`, `run_many`, streaming | order of results, error modes; chunk ids that neither collide nor survive a change |
| Concurrency and LLM (`utils/concurrency.py`, `llm.py`) | semaphores, attempt counters | `run_ordered`, `retry_llm` | fail-fast, order, bounded concurrency and retries |
| Extraction (`extraction/kg.py`, `pipeline.py`) | none | extract per split, halve, glean, merge, number mentions | nothing of the text is left out; edges keep their ends when ids are renumbered |
| Resolution and queries (`extraction/resolution.py`, `kg_resolution.py`, `dates.py`, `query.py`) | entity and graph stores | cluster mentions, canonicalise, rewrite edges, replace the stored entities, filter by date | every mention in one entity; a closed graph; days mean the same in memory and on the server |
| Parsing (`parsing/`) | the parser registry; the context of one parse | register, select and run a parser; MinerU's blocks to elements | the best usable parser reads a file; elements in reading order, losses reported |
| Document model and rendering (`document.py`, `rendering/`) | the element tree | hash, concatenate, render with references resolved | equal hashes mean equal content; every element is seen, in one place |
| Processing (`processing/`) | none: it changes documents in place | link footnotes, refine headings, find the title, summarise | each number replaced by its own reference; the outline is kept; the fold ends and covers the document |
| Merging (`merging/`) | none | align two parses, merge, patch | references, order and levels survive; a second identical parse changes nothing |
| Splitting and chunking (`splitting/`, `chunking/`) | none | split by token budget or headings; one or several chunks per split | no token is lost, budgets hold but for headings, footnotes travel with their text |

### Interactions

A sync pipeline resolves a request (paths, or ids of a document store) into a `SyncPlanInput`
and hands it to a `SyncEngine` with a producer, a store and perhaps a `pre_write` hook
(embedding). The engine lists the store once, evaluates every source in a task of its own, and
the one consumer, `run`, writes the outcomes as they arrive. The engine meets the store only
through `SourceSyncStore` and `SourceReplaceStore`, and the stores meet Qdrant only through
single requests. Everything runs on one asyncio event loop: steps interleave at each `await`.
Nothing coordinates two processes, or two runs, that use the same store.

### What is hard here

- a write takes several requests, and each may fail, be cancelled or be the last one before a
  crash, with or without having been applied;
- cancellation, which arrives at any `await`, and at the cleanup of an earlier cancellation;
- tasks, a semaphore and a queue of one slot that wait for each other;
- tokens, listings, plans, offsets, indices and ids that are read at one moment and used at
  another, when a file, a store, a text or a list of elements has changed under them;
- budgets and boundaries: slices that overlap, halves of halves, levels and ids that run out;
- legal calls in an order, or with answers of a model, that nobody wrote a test for.

`PROJECT.json` lists these hazards line by line with the properties that cover them.

## 2. The modules

### `QdrantStore`: the write protocol

One collection, any number of `Writers` (processes in `SyncEngine.run`) and `Sources`.
`points` is the collection; the other variables are a run's locals: `seen` (the result of
`list_source_state`), `status` (the `UpdateResult`), `call` (the locals of the store method in
progress) and `pc` (the request whose answer it awaits). The pair (`source_hash`,
`content_hash`) is one value, `Blank` for ("", None).

Each action is one request with everything the code does until the next: `BatchLands`,
`DeleteStale` and `StampHashes` are the requests of `_write_blanked`, `_replace_source` and
`_stamp_hashes`; `BatchFails` and `Rollback` are the `except` clauses of `_write_blanked`.
`RequestFails` and `Abort` are an `Exception` and a cancellation or crash where nothing is
cleaned up. In each of them the request may or may not have been applied (`Outcomes`).
`Recancelled` and `DetachedRollback`, which `RecancelSpec` adds to `Spec`, model what
`asyncio.shield` does when a task is cancelled twice: the rollback goes on without the task.

Abstractions:

- A request is atomic on the server and requests are applied in the order they were sent. A
  request that was cancelled by the client and overtaken by the next one is left out.
- The points of a list are distinct and their order is immaterial: a batch is any
  `UpsertBatch` of those left.
- Change detection compares the pair of hashes. The code compares the one its pipeline selects,
  and skips more; a skipped source is not written, so the invariants do not depend on it.
- A producer may return any of `Productions`, with any token: a chunker that is not
  deterministic, a file that changed.
- `Recancelled` is bounded to one detached rollback at a time.

### `SourceStore`: the contract

What `SyncEngine` expects of a store, with no points and no requests: of each source the store
shows nothing, one complete production, or `Dirty` ("always changed"). A write ends, in
whatever way, with the new items, what was there before, or `Dirty`, and in between shows
nothing else.

### `QdrantRefinement`: the protocol implements the contract

Maps the points of a source to what they show and the call in progress to the job of the
contract, for one run at a time (`SoleWriter`) that is not cancelled twice (`Spec`, not
`RecancelSpec`), and states the inductive invariant `IInv`. `QdrantRefinementProofs` has the
proofs. Both restrictions are needed: the runs `MCQdrantTwoWriters` and `MCQdrantRecancel` drop
one each.

### `SyncStream`: the stream of one run after the other

`SyncEngine._stream` and its consumer `run`: `task` holds the state of each producer task
(waiting for a permit, evaluating, waiting for the queue), `handoff` the one-slot queue, `held`
the outcome being written, `fatal` the future that wakes the consumer, `cancelling` the
cancellations that are requested and not yet delivered. A request may name an id several times
(document store ids are not checked for duplicates; paths are). `ResolvePaths` and
`ResolveDocuments` are the two resolutions with their `pre_failed` and `pre_skipped` sources
and their sets of live ids. A write is one action here, because its requests are
`QdrantStore`'s subject.

Abstractions: the semaphore admits any waiting task (the code's is first in, first out);
`MaxCopies` and `MaxAsked` bound the request; `FailsOnCancel` says whether a producer
may answer a `CancelledError` with an ordinary exception (a `try/except` that wraps errors,
for instance), which `_evaluate` collects; such an outcome is called a late error here, and
`RunEnds` is about the histories without one.

### `DirectSync`: files that change

`VectorStorePipeline` in direct mode: `run`, `plan` and `apply`, one after the other, while
files change, vanish and come back. `file` is the version each file has; `token` the hash taken
when the request was resolved, `change` what was produced later and `stored` what the store
shows of each source: the hash, and the versions its items are from. Hashing (`HashFile`),
parsing (`Produce`) and writing (`WriteNew`, `WriteUpdate`, `DeleteFirst`, `UpsertAfter`) of one
source are separate steps, and files change between them. `saved` is a `ChangeSet`, applied at
once or long after. `replaces` says which of the `Stores` the pipeline was given and never
changes; what a failed write may leave (`LeftBy`) is, for a store that replaces, what
`SourceStore` allows. `clean` and `base` are
history: whether anything has gone wrong since the call began, and the store it began with.

Abstractions: a source's items are the set of versions they come from; a hash is the version it
was taken of, 0 none; `MaxVersion` bounds the versions; `Recurs` lets a file get an old content
back; `OldPlans` names the kinds of store on which a plan may be applied after something else
has happened; every file of the
corpus is named once, and producers are not limited in number (`SyncStream` is about that).

### `TwoBoundaries`: files to documents to chunks

`DocumentStorePipeline.run` over a `LocalDocumentStore` (Boundary 1) and `VectorStorePipeline.run`
over that store (Boundary 2), at the same time, each in one run after the other. `file` and
`doc` are what is on disk: users edit and remove files, and edit, break and remove the stored JSON
documents at any step. `chunks` is what the vector store shows. The locals of a run are indexed
by boundary: `unread` and `listed` (the listing reads one document after the other), `token`
(file hashes), `at` and `made` (how far a source is, and the content it was parsed to or loaded
as), `indexed` (Boundary 2's listing of the vector store), `orphans`. `Filter` is a document that
processing filters out, `LoadFails` one that has gone or become unreadable since it was listed.
`gone`, `outdated` and `missing` are history: what was the case at some time since a run began.
`calm` is the environment's promise that nothing goes wrong and nobody changes anything any more.

Abstractions: a content is a number, a file's version what its document contains before anyone
edits it; a document is replaced in one step (`os.replace`), and an aborted run may still
do it; a write to the vector store ends as `SourceStore` allows; `Settle` forgets
locals that are no longer used; every source is named once; a run that deletes orphans is
given all files, as its documentation demands; Boundary 1 has one run at a time, and so has
Boundary 2.

### `FanOut`: bounded fan-outs

`run_ordered`, `DocumentPipeline.run_many` with its error modes, and `DocumentPipeline.stream`:
`helper` is the function that is called and never changes. `call` is what each caller is doing,
`task` the task of each item, `cancelling` the cancellations that are requested and not yet
delivered, `ended` the order in which items completed (the order of `as_completed`), `result`
what the caller has. `Acquire` takes a permit, from a semaphore of the call's own or from one
that the calls share (`resolve_semaphore` accepts either); `Fail` and `Deliver` return it.
`"one by one"` is `run_ordered` with the int 1, which makes no task (`AwaitNext`). `Leave` is
the cleanup that `run_ordered` and `stream` have and `run_many` has not; `CancelCaller` is a
cancellation of the caller, at its `await` of the gather or of that cleanup. The callers hold
the `Slots` of an outer semaphore, as a source of the mention pipeline holds the engine's while
its splits are extracted.

Abstractions: permits go to any waiting task; items take any time, and answer a
`CancelledError` by ending or by an exception of their own; the order of callbacks that are
ready at the same time is free.

### `EntityClusters`: who is the same entity

`EntityResolutionPipeline.resolve`: `clusters` and the round's locals. `ReviewCluster` is one
neighbourhood of `_propose_and_review`, with any answer of the reviewer, duplicates and numbers out
of range included; `Merge` is `_apply_merges`, with its union-find (`Find`, whose loop halves paths
in `HalvePath`, `Union` and `Parents`); `Converge` ends the rounds. Embeddings are any choice of at most `TopK` neighbours.

### `GraphResolution`: entities and edges, and the runs that die

`KnowledgeGraphResolutionPipeline.resolve`: `BeginRun`, then one listing of the mentions per node
type (`ResolveNodes`) and per edge type (`ResolveEdges`), between any two of which the mentions may
change (`SyncMentions`), then each store listed (`ListEntities`), upserted
entity by entity and cleared of stale ones, nodes first (`UpsertEntity`, `DeleteStaleEntity`,
`StoreWritten`). `Kill` ends a run anywhere; on a store of files that are rewritten in place
(`inPlace`) it may leave one that cannot be read, and then `ListingFails`. The node clusters are
any partition of the mentions of a type.

`delete_by_source` of both graph stores: from `BeginDrop` on, `drop` says whose entities are
deleted and in which store, nodes and then edges (`StoreDropped`); `DropEntities` unlinks one file,
or deletes what a scroll of the Qdrant collection found in one request. A file that cannot be read
raises half way (`DropFails`), and the process may die or a request raise anywhere (`KillDrop`):
edges are then left whose nodes are gone. `unfinished` remembers those deletions, and
`GraphIsClosed` exempts exactly the edges of their sources alone, until the deletion is repeated or
a run completes. A listing of one type is one step here (`MentionFiles` models how it is read);
runs and deletions are one caller's, one after the other: of a deletion during a run nothing is said.

### `EntityQueries`: dates

`FuzzyDate` (`Interval`, with its exclusive end and `date.max`), `_union_dates`, `entity_matches`
and the conditions sent to Qdrant (`BoundCondition`, `ServerQuery`). A date is its form and its two
boundary days, 0 for an open one. `AddDate` builds clusters and stores of any dates.

### `HalvedCalls`: one model call, retried and halved

`calls` is the tree of calls made for one text: `BackOff` and `WakeUp` are `retry_llm`, `GiveUp`,
`Halve` and `Join` are `_extract_with_halving`, `HalveText` is `_halve_text` over characters, of
which only blank ones are told apart. Which failures are retried and which are halved is
`Retryable` and `SizeRelated`.

### `GraphBatches`: ids of the model, ids of the store

`first` and `second` are two answers of a model; the operators are what the code does with them:
`DropDangling`, `MergeBatches` (`merge_graph_batches`, for halves and for gleanings), `Extract` and
`FinalizeSplits` (the mention ids). The machine only lets the answers grow. `SequenceOps` has the
list comprehension of the code, `Among`, which `HalvedCalls` uses too.

### `MentionFiles`: stores written in place

`LocalMentionStore` under the sync that drives it: `OpenForWriting` truncates, `WriteMentions`
writes, `Die` is the process dying anywhere, `StartApply` applies a saved plan, `StartReading` and
`ReadOne` are a `list_mentions` of another process at the same time. A file is absent, torn or a
sequence of mentions with the version of the source they were extracted from.

### `DocumentSplit`: splitting by budget

`split_document`, the hierarchical split, the greedy split by groups with its three tiers
(`SplitAtHtmlTags`, `SplitAtSentences`, `TokenSlice`) and `split_by_headings`, over documents of
any of the `Shapes`. A token is the element it is of and its place in it, so that a property can
say where each one went. Rendering adds up, but for the syntax around raw text and the title; the
code's 100 tokens of room and its smallest slice are the constants `Room` and `Floor`.

### `MineruParsing`: blocks to elements

One step is one handler call of `CoreExtractor`: `produced`, `warnings` and `accumulated` are the
context's elements, warnings and metadata. Spans are full or blank; an image's file may be lost.
`CheckImages` is the pre-flight check. Boxes, CSS and formulas, blank equations included, are left out.

### `DocumentContent`: hash, rendering, concatenation

Three documents grow by elements with references ahead, back, to nothing. `ContentPayload` is what
`content_hash` digests, `RenderForPrompt` what a rendering shows, `Concat` and `Join` the two
functions that put documents together. A digest is taken to be injective. An id is a pair of a
document and a position; a reference that names no element hashes as position 0.

### `FootnoteRefs`: numbers become references

`FootnoteProcessor.process`, footnote by footnote (`Begin`, `ResolveFootnote`), then `ApplyPatches`.
HTML is a sequence of symbols that keeps apart what the regular expression and the score tell
apart: digits, letters, punctuation, and the tags of refs, each with the mark of its footnote. A
number (`DigitsOf`) is read with white space between its digits and no digit behind it (`ReadsAs`,
`MatchEnds`), one match behind the other (`FindAll`). Documents may come with refs already. A model
picks any candidate it is offered. The processor may run again on its result.

### `HeadingLevels`: four processors in any order

`RefineLevels`, `DetectTitle`, `ResolveLevels` (the model's, in batches, with any verdict) and
`Normalize` are one `process` each, on documents of up to `MaxHeads` elements. An element keeps its
name through all of them; `OnlyTitleRemoved` is about the one step that takes elements out. The
score of a title candidate follows the code's.

### `ElementMerge`: two parses of one file

`AlignElements` (blocks, injected markup, heuristics, patches), `ApplyPatch`, and the merge of
rendered tags with its patch. `Opcodes` is difflib's `SequenceMatcher`, external: the longest common
block and the same on either side of it, here level by level over all windows of the two
sequences. How alike different texts are is a parameter of a merge (`block`, `pair`). The elements
of a parse may refer to anything; `LocalRefsTravel` is about parses whose only references are
an anchor's to its own group (`Local`), the ones a merge can promise to keep.

### `SummaryFold`: a document summarized level by level

`folds` is the tree of tasks of nested `run_ordered` calls; `MayStart` is their permits, private or
shared (`foldMode`). `SummarizeDoc` is one piece (render, return, call, truncate or split),
`ReduceResults` the fold of the results with its packing. The splitter may cut anywhere, repeat a
heading, or give the piece back; an answer has any size of `SummarySizes`. A text counts the
texts it joins (`parts`), because `pack_summaries` does not count the separators against the
budget: `CallsWithinInput` allows a call its separators, and a batch of one answer that is itself
too large, which "lands in its own batch".

### `ChunkIds`: what a store knows a chunk by

`ChunkPipeline.run` over one document after the other, with both chunkers and any answer of the
model; `chunkRuns` are the runs that returned. Digests are taken to be injective.

### `ParserRegistry`: who reads a file

`Register`, `Unregister` (`Undone` takes a parser's suffixes out one after the other), and `LoadFile`, which is `load` or `IngestPipeline.run` with the
preferences and availabilities of a program, a named parser, and a `MultiSourceParser`, whose second
parser does not fail. Equally good parsers are tried in the order of their registration.

### MC modules

`MCQdrantProductions` defines what producers return in the small instances (several lists under
one token with overlapping ids, one point, no item). `MCQdrantStore`, `MCQdrantRefinement`,
`MCSyncStream`, `MCDirectSync` and `MCTwoBoundaries` declare the model values.

`MCExtraction`, `MCDocuments` and `MCSyncEngine` (`SyncStream` and an instance of `QdrantStore`
whose runs may be cancelled twice, which the contract of `MCQdrantRefinement` excludes) put one
instance of each of several modules side by side. These
modules share no state; the variable `part` says, for a whole behaviour, which of them it is about,
and the others stay in an initial state from which nothing is owed. The state space is the
sum of the parts' and not their product, the fairness of each part is that of its own module, and
each property holds or fails on the behaviours of its own part. They share a run because each
question of the part is small; a counterexample is read from the variables of its part alone.
`MCSplitRefsLost` adds headings that refer to a footnote to the documents of `DocumentSplit`.

Each of the newer modules names the parts of what it promises and ends with their conjunction,
which is what the runs check: `ClustersAreComponents`, `GraphIsConsistent`, `EntitiesAreDerived`,
`DatesMeanDays`, `HalvingIsOneCall`, `EdgesKeepTheirEnds`, `MentionFilesAreWhole`,
`SplitsCoverDocument`, `ParseIsFaithful`, `ContentIsWhole`, `RefsAreExact`, `OutlineKept`,
`MergeIsFaithful`, `SummaryIsWhole`, `ChunksAreKnown`, `RegistryDecides`, and `NothingLost` of
`TwoBoundaries`. TLC checks every conjunct and names the one that fails.

## 3. The runs

| Run | Instance | Shows |
|---|---|---|
| `MCQdrantRefinement` | 1 writer, 2 sources, 3 ids, batches of 1, 4 productions | `NeverLooksUnchanged`, `IInv`, `OldStaysUntilNewLanded`, and that the contract is implemented |
| `MCQdrantTwoWriters` | 2 writers, 1 source | violated: see findings |
| `MCQdrantRecancel` | 1 writer, second cancellations | violated: see findings |
| `MCSyncEngine` | 2 sources named up to twice, 1 permit; beside it 1 Qdrant source, 3 ids, batches of 1, second cancellations | of the stream the inductive invariant `StreamInv` (types, queue, counts, accounts, orphans), `AliveBound`, `NoneLeftRunning`, `EveryNameReportedOnce`, and `RunEnds`; of the store that once faults stop a blank source is stamped again (`Heals`) |
| `MCSyncStreamCancel` | up to 3 names, 2 permits, producers may fail on cancellation | violated: see findings |
| `MCDirectSync` | 2 files, 2 versions, both kinds of store, old plans on one that replaces | `UnchangedIsCurrent`, `SameEndState`, `NoMixing`, `NeverEmptied` |
| `MCDirectProvenance` | 1 file, 2 versions | violated: see findings |
| `MCTwoBoundaries` | 1 source, 2 versions of its file, of which one chunks to nothing, 1 content by hand | `TrueContent`, `NothingLost`, `Converges` |
| `MCExtraction` | see below | the fan-outs and the extraction |
| `MCDocuments` | see below | the document pipeline, and `Converges` of `DirectSync` (1 file, 3 versions of which one yields nothing, both kinds of store) |
| `MCFoldDeadlock` | a document of 6 tokens, calls of 3, a shared semaphore of 2 permits | violated: see findings |
| `MCSplitRefsLost` | documents of up to 4 headings, texts and footnotes | violated: see findings |

Parts of `MCExtraction`:

| Part | Instance | Properties |
|---|---|---|
| `FanOut` | every helper, 2 calls of 2 items, 2 shared permits, an outer semaphore of 2 | `NothingLeftRunning`, `WithinBudget`, `ReturnsAll`, `NoLateStart`, `CallsEnd` |
| `EntityClusters` | 4 mentions of which 2 have one text, 2 neighbours, 2 rounds | `ClustersAreComponents`: a partition, and the connected components of the reviews |
| `GraphResolution` | 2 sources, 3 node and 2 edge mentions of 2 types each, 1 sync, 1 kill of a run or a deletion, both kinds of store | `GraphIsConsistent`: after a completed run the graph is closed, but for the edges of a deletion that did not end, and no mention is in two entities, whatever died before; `EntitiesAreDerived`: no entity goes before its replacement is there, and resolutions complete again |
| `EntityQueries` | 3 days, up to 3 dates | `DatesMeanDays`: no date ends before it begins, overlap is a day in common, the union is the hull, both evaluations of a query agree |
| `HalvedCalls` | 2 texts, 2 attempts, 2 halvings | `HalvingIsOneCall`: every character read, no half left behind, requests bounded, the first failing half raised |
| `GraphBatches` | answers of up to 2 nodes and 1 edge, ids that skip and collide | `EdgesKeepTheirEnds` |
| `MentionFiles` | 2 sources, 2 versions with an id in common, 3 syncs, 1 death, 1 listing | `MentionFilesAreWhole`: complete listings, one version per file, a sync leaves what it looked at |

Parts of `MCDocuments`:

| Part | Instance | Properties |
|---|---|---|
| `DocumentSplit` | up to 4 of 9 elements, a budget of 6 tokens | `SplitsCoverDocument`: every token, references with their text, order, budget, headings |
| `MineruParsing` | 2 blocks on up to 2 pages, every kind, blank and lost parts | `ParseIsFaithful` |
| `DocumentContent` | 3 documents, 3 elements between them | `ContentIsWhole`: the hash is the content, everything is shown, in one place, also after joining |
| `FootnoteRefs` | 2 texts, with and without refs, 2 or 3 footnotes of one or two digits, 2 runs, both resolvers | `RefsAreExact`: no offset drift, no second reference, in order, a run by rules leaves only numbers right before a ref |
| `HeadingLevels` | 3 elements, 2 levels, 2 processors in a row | `OutlineKept` |
| `ElementMerge` | 3 and 2 elements, 4 sets of options | `MergeIsFaithful` |
| `SummaryFold` | a document of 5 tokens, calls of 3, answers of 1, 2 or 5, no or private semaphores, 2 levels of recursion | `SummaryIsWhole`, `FoldEnds` |
| `ChunkIds` | 2 documents of up to 2 splits, 4 answers | `ChunksAreKnown` |
| `ParserRegistry` | 5 parsers, 3 registrations, 1 load, 12 configurations | `RegistryDecides` |

Bounds. With batches of one, a production of two points takes two batches and one of one point
takes a single request, so both kinds of write occur, over contents that overlap, contain or
miss the new ids. Two sources suffice for the protocol since its calls touch one source; they
are there for the frame. With one permit and four names, tasks wait for the permit, for the
queue and for the consumer at once; with two permits two producers can wait for the queue.
With two versions a file changes once between any two steps of a call, with three it changes
again before the next call; two files are what `run` needs to be aborted, or to fail, after one
was written. One source suffices for `TwoBoundaries`: its runs treat sources one by one, and a
source that was not asked for is a run over none. Two calls of two items on two permits let an
item of each wait while one of each runs, and leave one call the permits of the other. Four
mentions are what a chain of merges and a group apart need. A budget of 6 tokens against elements
of 2 to 9 lets elements fit together, alone, or not at all, and a table has rows with and without
footnotes. Three documents are what the grouping of a concatenation needs, two texts and three
footnotes what overlapping numbers and page preferences need. Five or six tokens against calls of
three make pieces that are split again, and one level more than the recursion allows. With three
registrations of five parsers one is registered, shadowed and removed in every order.

Deadlock is not checked in `MCExtraction`, `MCDocuments` and the two violated runs of their
modules: when a call has returned or a document is done, nothing is left to do.

`UnchangedIsCurrent` and `Converges` of `DirectSync` are about files that never get an old content
back (`Recurs = FALSE`): otherwise finding 4 leaves stale items under the right hash for good.
`NoMixing` and the convergence of a store without `replace_source` exclude old plans: an
addition planned before another run added the source is upserted beside what is there.

Fairness. `FairSpec` of `QdrantStore` assumes weak fairness of `Progress`: the program is run
again and again and each awaited request is answered. `Heals` is conditional on faults
stopping. `FairSpec` of `SyncStream` assumes weak fairness of the consumer's and of each task's
steps: the event loop runs what can run, producers and store calls end, and nobody else holds
the semaphore for ever. Dying and being cancelled are never fair. `FairSpec` of `DirectSync`
assumes that complete runs are started again and again and that their steps, a failing hash or
parse included, are taken; `Converges` is conditional on quiet: no edit, failure, abort or
application of an old plan. `FairSpec` of `TwoBoundaries` assumes the same of complete runs of both
pipelines, weakly fair each for itself; its `Converges` is conditional on `calm`, which can begin
between any two runs of Boundary 1. `FairSpec` of `FanOut` assumes weak fairness of each task's and each
call's steps: the loop runs every callback, items end, the consumer of a stream goes on or closes
it; cancelling a caller is never fair. `FoldSpec` of `SummaryFold` assumes that renderings,
splits and requests end. `GraphSpec` of `GraphResolution` assumes that someone resolves again
and again and that each run and each deletion goes on unless it is killed, which happens finitely
often (`MaxKills`). No deletion need begin; those that would find nothing to delete are left out.

## 4. Findings

1. Two runs on one collection can leave an incomplete source that looks unchanged
   (`MCQdrantTwoWriters`). One run's stale delete or rollback removes points the other has
   written, and the other's stamp, sent by point id, makes the survivors agree. The docstring
   of `_list_source_state` promises that this never happens.
2. The same after a run was cancelled twice (`MCQdrantRecancel`): the shielded rollback
   outlives its run and deletes points of a later, complete write.
3. A run whose producers answer cancellation with an ordinary exception may never return
   (`MCSyncStreamCancel`): their error outcomes are put into a queue nobody reads any more.
4. A file edited between its hash and its parse is stored under the hash of its old bytes
   (`MCDirectProvenance`), against the description of `Chunk.source_hash`. The next run repairs
   it, unless the file has got its old bytes back.
5. A summary fold on a shared semaphore may never end (`MCFoldDeadlock`): the tasks of a level hold
   permits while their own nested `run_ordered` waits for permits of the same semaphore. The
   docstring offers a shared semaphore. With an int every call has its own and the fold ends.
6. Elements that only a heading, or a cycle of references, refers to are in no group and are lost
   when the document is over the budget (`MCSplitRefsLost`), against the docstrings of
   `splitting/token.py` and `splitting/groups.py`.

Seen while modelling, and part of the models, without a run of their own:

- When `run_many` raises, items still waiting for a permit are started afterwards, to the end of
  the batch (`linear.py:428`). The guide says that files already in flight finish in the background.
- On stores that are written in place a killed resolution, or a killed sync, leaves a file that
  makes every later run raise until someone deletes it: `EntitiesAreDerived` demands
  repeatability of atomic stores only, `MentionFilesAreWhole` that no run takes the file for an
  empty one. The docstrings of `_write` (`resolution.py:298`) and of `kg_resolution.py:162` give
  the writes the other order (delete stale, then upsert); the code's is the one that keeps
  mentions covered.
- A change set saved before another sync added the source is upserted beside what is there, in
  the mention store as in `DirectSync` (`superseded`).
- A query with limit 0 is unlimited in one backend and empty in the other; `DatesMeanDays`
  excludes it.
- A second footnote pass may find a number that the first one freed; references may be cut into by
  overlapping numbers (`Clash` is the exception of `RefsAreExact`).
- A merge may break a reference that leaves its group (a paragraph to a footnote further on);
  `MergeIsFaithful` promises only those of an anchor to its own group. `DELETE_A` is "dropped from output"
  (`merging/patch.py`) and yet may be kept; leading images and footnotes get an empty text element;
  `prefer_source` does not hold for insertions and groups of mixed types.
- References from elements that are themselves shown in place of a reference stay unresolved in a
  rendering; the grouping of concatenations moves a bridge; a document concatenated with itself has
  its ids twice.
- MinerU's `12` without more text is parsed as footnote 1 with the text 2; only the first caption
  and footnote of a block are kept.
- A model that calls a heading no heading replaces it by a paragraph with a new id, without page
  and box; references to it break, as they do to a removed title.
- "concurrency within a fold level" is per call of `run_ordered`; the separators of a batch are not
  counted against its limit.
- A named or preferred parser is used without asking whether it is available, and
  `MultiSourceParser` always says it is.
- A split is over the budget by its headings and title; `DocumentSplit` allows that
  (`OverBudgetOnlyByHeadings`).

## 5. What is proved

`QdrantRefinementProofs`, checked by TLAPS for all values of the constants that satisfy
`ConstantsOK`, `SoleWriter` and `ViewConstants`:

- `Inductive`: `Spec => []IInv`. `NeverLooksUnchanged` alone is not inductive: that a stamp
  makes the source complete depends on what was written before it. `IInv` adds what each
  phase of a call knows: `WrittenOK` (the points are the old ones overwritten, blank, by what
  was sent; after the stale delete the new ones alone), `PreOK` (the pre-image is exact),
  `CallOK` (the locals agree with the phase), `NewIsAbsent` (a source the snapshot does not
  list holds nothing, so a single upsert with its hashes completes it), and that the content
  before the call was sound.
- `TypeCorrect`, `PartialNeverLooksUnchanged`, `ProcessedStaysStamped`: its consequences.
- `OldPointsStay`: the action property, from `IInv` and one case per request.
- `KeepsContract`: every step of the protocol is a step of `SourceStore` or leaves its
  variables unchanged.

The proof goes by lemmas on the operators (`Upsert`, `Remove`, `Stamp`, `Uniform`, `View`),
then one lemma for each action.

`SyncStreamProofs`, for any finite set of sources, any request and any concurrency, with
producers that may fail on cancellation:

- `StreamInductive`: `Spec => []StreamInv`. Its parts: `QueueInv` (permits, the one slot and
  the consumer's hand, each outcome from a task that is done), `CountInv` (outcomes taken plus
  the queued one are the tasks done), `PhaseInv` (which tasks exist in each phase of `run`),
  `OrphanInv`, `AccountInv` (the names reported so far are those that never became tasks, those
  whose outcome was dealt with, and the orphans swept).
- `StreamTypeCorrect`, `MemoryBounded`, `NoProducerAbandoned`, `AllAccountedFor`,
  `LiveSourcesSurvive`: its consequences. `MemoryBounded` counts: an outcome is queued, held,
  or belongs to a task that has a permit.

`PipelineProofs`, about `DirectSync`, for any sources, versions and saved plans:

- `DirectTypeCorrect`: type correctness and that a plan never both deletes and writes a source.
- `SkippedIsCurrent`: `Spec => []UnchangedIsCurrent` for a store that replaces and files that
  never get an old content back. The invariant `FreshInv` says that nothing, stored, produced
  or planned, is newer than its file's newest version or older than the hash it carries; a
  stored hash equal to the file's then leaves one version for the items.
- `UpdateNeverEmpties`: `Spec => NeverEmptied`; `WholeInv` says that a store that replaces is
  never halfway between a delete and an upsert.
- `RunIsPlanAndApply`: `Spec => []SameEndState`. `EndInv` says of each source, phase by phase of
  a clean call, how far the store is from what the files and `base` call for: in a run, untouched
  until its own write; in a plan, to be done exactly where the plan names it; after an
  application, as it was or as it will be, since a plan may be applied twice.
- `ItemsNeverMix`: `Spec => []NoMixing` for stores without `replace_source`, if
  plans are applied only while nothing else has happened (`FALSE \notin OldPlans`). `MixInv` follows the delete and the upsert of a source: between them it is empty, and
  what a plan adds was not there.

In the same module, about `DocumentSplit`, for any shapes of elements and number of them, any
budget, overlap and shares kept free:

- `SplitsDropNothing`: `NoTokenDropped` and `HeadingSplitsPartition` hold in every reachable state.
  `SplitState` says that the document is made of the shapes, that nothing refers to its headings,
  and that its splits, if it has any and was not refused, show what it may not leave out (`Owed`:
  headings, roots, what roots refer to). The work is in the function `SplitDocument`, from the
  inside out. Of each tier one asks `SplitInto`: every split shows the headings of the context, and
  together they show the tokens that were to be split. Token slices overlap without gaps, sentences that stay too large
  are sliced, the units of an element are packed into runs that hold each of them, and a run too
  large for the budget is halved, or goes to the next tier. The greedy loop over groups then keeps
  `LoopHolds`: what the groups so far owe is shown by the splits that are out or is in the
  current one, and the headings it holds are in the context. That a heading replaced in the
  context was shown before needs that its level comes once in the part, which is why
  `split_document` divides at a level only after the levels above it: the scan for the headings of
  a level keeps `ScanHolds` (each group is in one part, in the preamble or among the parents; no
  part has a level above, or the level itself, twice), and `SplitDocument` covers its document by
  induction on the six levels (`CoversBelow`). `split_by_headings` is a fold whose parts so far are
  `1 .. n` in order (`PartsTo`).

`TwoBoundariesProofs`, for any sources, versions and contents:

- `BoundaryTypes`, `ChunksAreTrue` (`Spec => []TrueContent`) and `NothingIsLost`
  (`Spec => NothingLost`), from `BoundaryInv`. Its parts relate, for each source, what a run saw
  to what has been the case since it began: a document that was its file's all along is not
  parsed again (`FreshInv`), an orphan had no file (`OrphanInv`), what Boundary 2 did not list had
  no document (`MissingInv`). The action properties follow, since each removal is guarded by what
  the run saw.

`ProcessingProofs`, for any finite set of calls and any number of items and permits:

- `FanOutTypeCorrect`, and `BudgetKept`: `Spec => []WithinBudget`, by the cardinality of what
  holds a permit before and after each step.
- `NothingRunsOn`, `NothingStartsLate`: from `FanInv`, whose parts say that a sequential call
  runs its items in their order (`SeqInv`), that a helper that cleans up has no live task when it
  is over and awaits the cancellation of each while it cleans up (`PhaseInv`), and that what a
  stream has yielded is done (`YieldInv`).
- `EveryItemIsHeardOf`: `Spec => []ReturnsAll`. `ResultInv` says what has been heard so far:
  `ended` names each finished item once, a stream's result is a beginning of it, a task of
  `run_many` has stored its result itself, the others answer in one list at the end.

In the same module, about `SummaryFold`, for any document, splits, answers, budgets and depth:

- `SummaryStaysWhole`: `FoldSpec => []SummaryIsWhole`. `FoldInv` says that the tasks are a tree
  (`Tree`: a task that waits for others has exactly the ones it spawned, 1 to n), and that a task
  says no less than the text it was given, unless one was truncated below it (`MappedTo`). Its
  heart is `PackSummaries`: packing keeps every summary, in order, and a batch is over the budget
  only by its separators or because it is a single answer.

About `HeadingLevels` and `FootnoteRefs`:

- `OutlineStaysKept`: `HeadingsSpec => OutlineKept`, for any document, levels and processors in
  a row. Each processor changes levels and types in one of few ways (`StepShape`), and
  `OutlineInv` keeps what they leave.
- `RefsStayExact`: `FootnotesSpec => RefsAreExact`, for any documents, with refs or without, any
  footnotes and resolvers. `RefsInv` adds to `InOrder`, while a run is under way (`Underway`): what
  is queued is orphaned, there once and not yet patched; a patch is a place in the text of its
  element outside any tag, one for each footnote (`Sound`); and by rules each orphaned
  footnote is queued, patched or has no candidate. `sorted` sorts (`Sortable`), so the patches of an element
  are a `Chain` of splices from right to left. Along a chain, what is left of the next
  place is as it was; hence no tag of a footnote appears twice (`ChainOnce`), and, if no two places
  overlap, every ref stays, a number not right before a ref was one before (`ChainStays`), and the
  result is the text with each place replaced (`ChainBecomes`). The last is why a run by rules
  leaves nothing to find (`NothingLeftStep`).

`ExtractionProofs`:

- `FilesStayWhole`: `FilesSpec => []MentionFilesAreWhole`, for any sources, versions, syncs,
  deaths and readers. `FilesInv` has one part for each reader and writer of a file.
- `DatesAlwaysMeanDays`: `QueriesSpec => []DatesMeanDays`, in a calendar of any length. The
  state only says that the dates are dates; the proof is arithmetic on intervals, and that
  the least start and the largest end of several are those of their hull.
- `GraphStaysConsistent`: `GraphSpec => []GraphIsConsistent`, for any killed runs and deletions
  and any syncs. `GraphInv`: what a run resolved, type after type, is a graph by itself (`PlanInv`);
  what is stored is stale, to be overwritten or right already (`WriteInv`); a stored edge has its
  ends unless a deletion of its source is unfinished (`SettledInv`), whose end takes it away;
  nothing is left over while the mentions stay (`MoveInv`). No run can assume that the one before
  it ended.
- `ResolvedStayCovered`: `GraphSpec => MentionsStayCovered`, the part of `EntitiesAreDerived`
  that is not about liveness: no mention is uncovered, not even for a moment.
- `HalvingStaysOneCall`: `CallsSpec => []HalvingIsOneCall`, for any texts, depth, attempts and
  threshold. `CallsInv` says that the calls are a tree whose halves come in pairs (`TreeInv`) and
  that a call is over only when both its halves are, with their answers or the failure of the
  first that failed (`HalvesInv`, `FitsHalves`); two halves hold all the characters of their text
  (`HalvesHaveAll`). What is said of a whole tree, the text read, the requests sent and the
  left-most failure, follows by induction on the levels below a call.
- `BatchesKeepEnds`: `BatchesSpec => []EdgesKeepTheirEnds`, for any answers, payloads, patterns and
  local ids. The state only says that the answers are answers; the proof is about the functions.
  The loop of a merge keeps `AccInv` (ids distinct, every renumbered node under its new id, every
  twin on its original), and `MergedNames` says what an id of either answer names afterwards. A
  node's mention id holds one payload and an edge's two node ids (`PairsAndSingles`), so that an end
  can only mean a node, and all the mentions it may mean have the payload it was extracted with
  (`EndFound`), whichever of equal ones is the latest.
- `MergesJoinComponents`: `ClustersSpec => []ClustersAreComponents`, for any mentions, neighbours,
  rounds and answers. `ClusterInv` says that the clusters are a partition and the merges pairs of
  them; the work is in the union-find. The parents are a forest (`Forest`: a root for each member, a
  rank that falls along the links and never exceeds the joins made so far, which is why `Find` ends
  at a root after at most as many turns as there are clusters, `FindIs`); halving a path keeps it
  (`HalvePathKeeps`), and a union joins two trees (`Linked`). Edge by edge, two members then have
  one root exactly if no set that the edges leave whole parts them (`TellsApart`), and what is
  reached from a cluster by the edges is such a set (`ReachedIs`).

`DocumentProofs`:

- `ChunksStayKnown`: `ChunksSpec => []ChunksAreKnown`. The digests are values, so that equal ids
  mean equal documents and ordinals; `ChunkInv` says so of all the runs that returned.
- `ParseStaysFaithful`: `MineruSpec => []ParseIsFaithful`, for any blocks and pages. `MineruInv`
  (`Good` elements, footnotes in the document or in the warnings) is kept by each handler
  (`BlockStep`), blank and lost parts included.
- `RegistryStaysDecisive`: `RegistrySpec => RegistryDecides`. That an `unregister` undoes a
  `register` is an induction over the suffixes of the parser (`UndoneSteps`, `UndoneAtLast`).
- `DocumentContentIsWhole`: `ContentSpec => []ContentIsWhole`, for any forms, titles and number of
  elements. `ContentInv` says that the elements of a document have its own ids, one each, and refer
  to ids of its own positions; the rest is about the functions. A rendering is the header and then
  the view of each element (`RenderedIs`); an element is seen once for each view that shows it
  (`AmongCounted`), which makes `EverythingShown` a count. What `Concat` makes satisfies the
  invariant for the ids of both parts (`ConcatIs`), and the views of a part's elements are the
  same in the whole (`ViewsOfPart`), so that the rendering is that of the parts around a bridge
  (`RealOfConcat`), and any grouping gives the same (`JoinedParts`).
- `MergeStaysFaithful`: `MergeSpec => []MergeIsFaithful`, for any two parses, preferences, allowed
  insertions and similarities. `MergeInv` says that the two parses are elements named by their
  positions, and that a merge was computed from them (`MergeSteps`); the rest is about the
  functions. The opcodes of a window are a partition of both its sides in order
  (`OpcodesPartition`, by induction on the levels); every operation
  resolves to elements of its opcode's groups, A's in A's order, each group whole or not at all;
  so the elements of the patch are apart from each other, and the deduplication of `ApplyPatch` keeps
  them all. Two parses that look alike have the one opcode `equal`, or none, and every heuristic
  then leaves what a reader sees (`SameOpcodes`); the two html copies select the same for each opcode.

`SequenceLemmas` holds what these proofs share: that a non-empty set of numbers has a least one
(`LeastNat`), which is how an induction over data is done here (the first place where a claim
fails, and its predecessor); that a function defined by recursion over `0 .. n` satisfies its
equations (`Iterated`, `StaysIn`); that what holds of the empty sequence and survives an `Append` holds of all
(`EverySequence`); what `Among` and a map keep of a sequence (`AmongJoined`, `AmongMembers`,
`AmongMapped`); and what `\o`, `Append`, `SubSeq` and `FlattenSeq` do to the
members and the order of sequences (`Concatenated`, `Prefix`, `FrontLast`, `Cuts`, `FlattenParts`,
`RisingMembers`), and what of a sequence of sequences holds of any two elements, the first before
the second (`AllBefore`, `FlattenPairwise`, `AmongPairwise`). To be within their reach, the recursion in `SummaryFold`, `ParserRegistry`,
`HalvedCalls`, `GraphBatches`, `EntityClusters`, `DocumentContent`, `FootnoteRefs`, `ElementMerge`
and `DocumentSplit` is written as recursive functions.

Only model-checked:

- the liveness properties `RunEnds`, `Heals`, `Converges`, `CallsEnd`, `FoldEnds` and the part of
  `EntitiesAreDerived` that says that resolutions complete again: they need fairness, and
  ENABLED, which is out of the prover's reach;
- of `SplitsCoverDocument`, the parts `FootnotesTravel`, `ReadingOrder` and
  `OverBudgetOnlyByHeadings`: they follow one split, where the proved parts follow all of them
  together, and need a stronger claim of each tier.

## 6. Not modelled, and the plan

Not modelled, and why:

- Parsers other than MinerU (Azure, HTML, pandoc, PDF, XLSX): conversions from one library's tree to
  elements, without state or order of their own.
- The text of renderings, prompts, generated schemas, EDTF syntax, CSS and boxes: wording and
  layout.
- `tables` in a merge (`select_table`, `select_footnote`), and the similarity of texts, which is a
  parameter.
- Embeddings, the canonical names of entities, delays in seconds: numbers nothing in the control
  depends on.
- The Qdrant document store (one request per write), index creation, `delete` by point ids, and
  Qdrant itself.
- Image summaries, filters and dumps (pure, one element at a time), `cli.py`, `config.py`,
  `metadata.py`, `utils/helpers.py`, `utils/tokenizer.py`.
- `plan` and `apply` of the two-boundary pipelines; `DirectSync` has them for the direct one.

Next, proofs, in this order:

1. `OverBudgetOnlyByHeadings` of `DocumentSplit`, then `ReadingOrder` and `FootnotesTravel`.
2. That the writes of `DirectSync` are `SourceStore`'s.
