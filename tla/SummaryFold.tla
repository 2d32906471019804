------------------------------ MODULE SummaryFold ------------------------------
(***************************************************************************)
(* DocumentSummarizerProcessor (processing/summary_document.py): a document  *)
(* over max_input_tokens is split, its pieces are summarized, split again if *)
(* need be, and the summaries are folded until one call takes them all.      *)
(*                                                                           *)
(* A text is its size in tokens, the tokens of the document it speaks of, in *)
(* order, whether some were truncated away, and how many texts it joins.     *)
(* The tasks of run_ordered form a tree, keyed by the path of their          *)
(* positions; a task holds a permit from its start to its end, the calls it  *)
(* awaits included.  The splitter cuts a text in two anywhere and may repeat *)
(* a heading in either part, or gives it back whole; the LLM answers with a  *)
(* summary of any size, a larger one than a call may take included.          *)
(***************************************************************************)
EXTENDS Naturals, Sequences, FiniteSets, SequencesExt

CONSTANTS
  DocumentTokens,   \* tokens of the rendered document
  MinTokens, MaxInput, MaxRecursion,   \* the settings
  SummarySizes,     \* tokens of an answer
  JoinTokens,       \* tokens of the separator between two summaries
  FoldModes,        \* subset of {"sequential", "private", "shared"}
  Permits           \* the concurrency of the modes other than "sequential"

ASSUME FoldConstants ==
  /\ DocumentTokens \in Nat \ {0}
  /\ MinTokens \in Nat /\ MaxInput \in Nat /\ MinTokens < MaxInput
  /\ MaxRecursion \in Nat
  /\ SummarySizes \subseteq Nat /\ JoinTokens \in Nat
  /\ FoldModes \subseteq {"sequential", "private", "shared"}
  /\ Permits \in Nat \ {0}

VARIABLES
  folds,      \* the tasks by path; <<>> is process() itself
  foldMode,   \* concurrency: the int 1, a greater int, or a shared semaphore
  folded      \* [state, text]: none, raised, or ok with the summary written

foldVars == <<folds, foldMode, folded>>

PieceText(from, extra) == [size |-> Len(from) + extra, from |-> from, cut |-> FALSE, parts |-> 1]

TheDocument == PieceText([i \in 1 .. DocumentTokens |-> i], 0)

TokensOf(texts) ==
  LET upTo[n \in 0 .. Len(texts)] == IF n = 0 THEN 0 ELSE upTo[n - 1] + texts[n].size
  IN  upTo[Len(texts)]

Separators(parts) == JoinTokens * (parts - 1)

(* _JOIN.join(texts) *)
JoinTexts(texts) ==
  [size  |-> TokensOf(texts) + Separators(Len(texts)),
   from  |-> FlattenSeq([i \in DOMAIN texts |-> texts[i].from]),
   cut   |-> \E i \in DOMAIN texts : texts[i].cut,
   parts |-> Len(texts)]

Truncate(t) ==
  [t EXCEPT !.size = MaxInput, !.from = SubSeq(@, 1, MaxInput), !.cut = TRUE]

(* parent: the size of the text that this one was split off, 0 for none. *)
FoldTask(kind, text, depth, parent) ==
  [state |-> "queued", kind |-> kind, text |-> text, depth |-> depth, parent |-> parent]

With(task, state, text) == [task EXCEPT !.state = state, !.text = text]

(* Only process() itself. *)
Only(task) == [q \in {<<>>} |-> task]

FoldInit ==
  /\ foldMode \in FoldModes
  /\ folds = Only(With(FoldTask("doc", TheDocument, 0, 0), "reading", TheDocument))
  /\ folded = [state |-> "none", text |-> TheDocument]

Children(p) == {q \in DOMAIN folds : q # <<>> /\ Front(q) = p}

HoldsPermit(q) == q # <<>> /\ folds[q].state \notin {"queued", "done"}

(* run_ordered: one after the other; as many as permits of its own; or as   *)
(* many as the semaphore that every call shares has left.                   *)
MayStart(q) ==
  CASE foldMode = "sequential" ->
         \A r \in Children(Front(q)) : Last(r) < Last(q) => folds[r].state = "done"
    [] foldMode = "private" ->
         Cardinality({r \in Children(Front(q)) : HoldsPermit(r)}) < Permits
    [] foldMode = "shared" ->
         Cardinality({r \in DOMAIN folds : HoldsPermit(r)}) < Permits

StartTask(q) ==
  /\ q # <<>> /\ folds[q].state = "queued" /\ MayStart(q)
  /\ folds' = [folds EXCEPT ![q] =
       With(folds[q], IF folds[q].kind = "doc" THEN "reading" ELSE "calling", folds[q].text)]
  /\ UNCHANGED <<foldMode, folded>>

(* run_ordered with one factory for each of the tasks. *)
Spawn(fs, p, tasks) ==
  [q \in DOMAIN fs \cup {Append(p, i) : i \in DOMAIN tasks} |->
     IF q \in DOMAIN fs THEN fs[q] ELSE tasks[Last(q)]]

SplitTexts(t) ==
  {<<t>>} \cup
  {<<PieceText(SubSeq(t.from, 1, k), extra), PieceText(SubSeq(t.from, k + 1, Len(t.from)), extra)>> :
     k \in 1 .. (Len(t.from) - 1), extra \in {0, 1}}

Calling(p, t) == folds' = [folds EXCEPT ![p] = With(folds[p], "calling", t)]

RaiseFold == folded' = [folded EXCEPT !.state = "raised"] /\ folds' = Only(folds[<<>>])

TooDeep(depth) == depth > MaxRecursion

NoProgress(task) == task.parent # 0 /\ task.text.size >= task.parent

(* summarize_doc up to its call, its end, or the tasks of its pieces. *)
SummarizeDoc(p) ==
  LET task == folds[p]
      n == task.text.size
  IN  /\ task.state = "reading"
      /\ \/ TooDeep(task.depth) /\ RaiseFold
         \/ /\ ~TooDeep(task.depth)
            /\ UNCHANGED folded
            /\ \/ n <= MinTokens /\ folds' = [folds EXCEPT ![p] = With(task, "done", task.text)]
               \/ MinTokens < n /\ n <= MaxInput /\ Calling(p, task.text)
               \/ n > MaxInput /\ NoProgress(task) /\ Calling(p, Truncate(task.text))
               \/ /\ n > MaxInput /\ ~NoProgress(task)
                  /\ \E pieces \in SplitTexts(task.text) :
                       IF Len(pieces) <= 1 THEN Calling(p, Truncate(task.text))
                       ELSE folds' = Spawn([folds EXCEPT ![p] = With(task, "mapping", task.text)], p,
                                           [i \in DOMAIN pieces |->
                                              FoldTask("doc", pieces[i], task.depth + 1, n)])
      /\ UNCHANGED foldMode

(* Mutated: a batch is closed once it is over the budget. *)
PackLate(acc, s) ==
  IF acc = <<>> THEN <<<<s>>>>
  ELSE LET batch == Last(acc)
       IN  IF TokensOf(batch) > MaxInput
           THEN Append(acc, <<s>>) ELSE Front(acc) \o <<Append(batch, s)>>

(* pack_summaries, one summary at a time; separators are not counted. *)
PackBatches(acc, s) ==
  IF acc = <<>> THEN <<<<s>>>>
  ELSE LET batch == Last(acc)
       IN  IF TokensOf(batch) + s.size > MaxInput
           THEN Append(acc, <<s>>) ELSE Front(acc) \o <<Append(batch, s)>>

PackSummaries(summaries) ==
  LET packed[n \in 0 .. Len(summaries)] ==
        IF n = 0 THEN <<>> ELSE PackBatches(packed[n - 1], summaries[n])
  IN  packed[Len(summaries)]

(* The results of run_ordered, in the order of its factories. *)
Results(p) == [i \in 1 .. Cardinality(Children(p)) |-> folds[Append(p, i)].text]

(* Without the tasks that p has awaited. *)
Alone(p) == [q \in DOMAIN folds \ Children(p) |-> folds[q]]

(* Mutated: reduce calls itself with its own depth. *)
SameDepth(p) == folds[p].depth

(* reduce(results, depth + 1) *)
NextDepth(p) == folds[p].depth + 1

(* reduce, when run_ordered has returned: it ends, calls, or packs again. *)
ReduceResults(p) ==
  LET depth == NextDepth(p)
      joined == JoinTexts(Results(p))
      batches == PackSummaries(Results(p))
      Becomes(state) == [With(folds[p], state, joined) EXCEPT !.depth = depth]
  IN  /\ folds[p].state = "mapping"
      /\ \A q \in Children(p) : folds[q].state = "done"
      /\ \/ TooDeep(depth) /\ RaiseFold
         \/ /\ ~TooDeep(depth)
            /\ UNCHANGED folded
            /\ folds' =
                 CASE joined.size <= MinTokens -> [Alone(p) EXCEPT ![p] = Becomes("done")]
                   [] MinTokens < joined.size /\ joined.size <= MaxInput ->
                        [Alone(p) EXCEPT ![p] = Becomes("calling")]
                   [] OTHER ->
                        Spawn([Alone(p) EXCEPT ![p] = Becomes("mapping")], p,
                              [i \in DOMAIN batches |->
                                 FoldTask("batch", JoinTexts(batches[i]), depth, 0)])
      /\ UNCHANGED foldMode

(* A summary of n tokens speaks of what the text spoke of. *)
Answered(t, n) == [t EXCEPT !.size = n, !.parts = 1]

AnswerCall(p) ==
  /\ folds[p].state = "calling"
  /\ \E n \in SummarySizes :
       folds' = [folds EXCEPT ![p] = With(folds[p], "done", Answered(folds[p].text, n))]
  /\ UNCHANGED <<foldMode, folded>>

(* A call that fails for good: every run_ordered above cancels its other    *)
(* tasks, awaits them and raises (module FanOut).                           *)
FailCall(p) ==
  /\ folds[p].state = "calling"
  /\ RaiseFold
  /\ UNCHANGED foldMode

WriteSummary ==
  /\ folds[<<>>].state = "done" /\ folded.state = "none"
  /\ folded' = [state |-> "ok", text |-> folds[<<>>].text]
  /\ UNCHANGED <<folds, foldMode>>

FoldNext ==
  \/ /\ folded.state = "none"
     /\ \E p \in DOMAIN folds :
          \/ StartTask(p) \/ SummarizeDoc(p) \/ ReduceResults(p) \/ AnswerCall(p) \/ FailCall(p)
  \/ WriteSummary

(* Renderings and requests end. *)
FoldSpec == FoldInit /\ [][FoldNext]_foldVars /\ WF_foldVars(FoldNext)

-----------------------------------------------------------------------------
(* The summary speaks of every token of the document, in reading order,     *)
(* however deep the fold went, unless a text was truncated with a warning.  *)
WholeDocumentFolded ==
  folded.state = "ok" =>
    LET from == folded.text.from
    IN  /\ \A i, j \in DOMAIN from : i < j => from[i] < from[j]
        /\ ~folded.text.cut => from = TheDocument.from

(* No call is sent more than max_input_tokens, the separators of a batch not *)
(* counted: "each no larger than max_tokens"; but an answer over the budget  *)
(* "lands in its own batch (never dropped)" (pack_summaries).                *)
CallsWithinInput ==
  \A p \in DOMAIN folds :
    LET t == folds[p].text
    IN  folds[p].state = "calling" =>
          \/ t.size <= MaxInput + Separators(t.parts)
          \/ folds[p].kind = "batch" /\ t.parts = 1

(* The fold leaves nothing out, and no call is too large for the model. *)
SummaryIsWhole == WholeDocumentFolded /\ CallsWithinInput

(* process ends, with a summary or an exception, whatever pieces the splitter *)
(* and whatever sizes the model return.                                       *)
FoldEnds == <>(folded.state # "none")
=============================================================================
