------------------------------ MODULE MCDocuments ------------------------------
(* One instance of each module of the document pipeline.  They share no state: *)
(* part says which of them a behaviour is about, and the others rest in a      *)
(* state of theirs from which nothing is owed.                                 *)
EXTENDS DocumentSplit, MineruParsing, DocumentContent, FootnoteRefs, HeadingLevels,
        ElementMerge, SummaryFold, ChunkIds, ParserRegistry, DirectSync

CONSTANTS Parts, s1

-----------------------------------------------------------------------------
(* Splitting: headings with and without a footnote, texts that fit, that need  *)
(* slices or cannot be cut, and a table with a header and a footnote in a row. *)
RenderedUnit(r, s, refs) == [raw |-> r, size |-> s, refs |-> refs]

SplitShape(l, h, u, st) == [level |-> l, header |-> h, units |-> u, stops |-> st]

SplitShapes ==
  {SplitShape(1, 0, <<RenderedUnit(1, 1, <<>>)>>, {}),
   SplitShape(2, 0, <<RenderedUnit(1, 1, <<>>)>>, {}),
   SplitShape(2, 0, <<RenderedUnit(1, 1, <<<<0, 1>>>>)>>, {}),
   SplitShape(0, 0, <<RenderedUnit(2, 2, <<>>)>>, {2}),
   SplitShape(0, 0, <<RenderedUnit(2, 2, <<<<0, 1>>>>)>>, {2}),
   SplitShape(0, 0, <<RenderedUnit(1, 1, <<<<1, 0>>>>)>>, {1}),
   SplitShape(0, 0, <<RenderedUnit(8, 8, <<>>)>>, {2, 5, 8}),
   SplitShape(0, 0, <<RenderedUnit(9, 9, <<>>)>>, {9}),
   SplitShape(0, 1, <<RenderedUnit(4, 1, <<>>), RenderedUnit(1, 3, <<<<0, 1>>>>),
                      RenderedUnit(2, 7, <<>>)>>, {5})}

(* MinerU: bodies with and without content, and images whose file is lost. *)
LineSpan(type, full) == [type |-> type, full |-> full]

SpansOfText == {<<LineSpan("text", TRUE)>>, <<LineSpan("equation", FALSE)>>}
SpansOfImage == {<<LineSpan("lost image", FALSE), LineSpan("image", TRUE)>>, <<LineSpan("image", FALSE)>>}
SpansOfTable == {<<LineSpan("table", FALSE), LineSpan("table", TRUE)>>}
SpansOfChart == {<<LineSpan("text", TRUE), LineSpan("chart", FALSE)>>}
FootnoteForms == [digits : {0, 2}, rest : BOOLEAN]
HandlerOfDiscarded ==
  [header |-> "raw_text", footer |-> "drop", page_number |-> "metadata", aside_text |-> "drop",
   page_footnote |-> "footnote"]

(* Content: references ahead, to nothing, of any relation, and equal bodies. *)
ContentForm(kind, body, refs) == [kind |-> kind, body |-> body, refs |-> refs]

ContentForms ==
  {ContentForm("heading", "h", <<>>), ContentForm("heading", "h", <<<<2, "footnote">>>>),
   ContentForm("text", "x", <<>>), ContentForm("text", "x", <<<<1, "image">>>>),
   ContentForm("text", "x", <<<<2, "footnote">>, <<9, "footnote">>>>),
   ContentForm("text", "x", <<<<3, "odd">>>>),
   ContentForm("footnote", "x", <<>>), ContentForm("footnote", "x", <<<<3, "image">>>>),
   ContentForm("image", "x", <<>>)}

(* Footnotes: numbers that are part of others, and of which only one is a note. *)
FootnoteOn(p, d) == [page |-> p, number |-> d]
TextOn(p, h) == [page |-> p, html |-> h]

MarksOfNotes == <<"#1", "#2", "#3">>

ListsOfNotes ==
  {<<FootnoteOn(1, 1), FootnoteOn(1, 11)>>, <<FootnoteOn(1, 4), FootnoteOn(1, 6)>>,
   <<FootnoteOn(1, 1), FootnoteOn(2, 1), FootnoteOn(1, 6)>>}

NotedTexts ==
  {<<"a", "1", "1", ".">>, <<"a", "4", "6", ".", " ", "A">>, <<"1", ".", " ", "A", "a", ",", "1">>,
   <<"a", "1", "a", "6", "1", " ", "1">>, <<"A", "1", " ", "a", ".", "4">>}

(* Two documents come with refs: one twice to a footnote, one once. *)
NotedPages ==
  {<<TextOn(1, s), TextOn(q, t)>> : s \in NotedTexts, t \in NotedTexts, q \in {1, 2}} \cup
  {<<TextOn(1, <<"a", "<", "#1", ">", "1">>), TextOn(1, <<"1", "<", "#1", ">", "6">>)>>,
   <<TextOn(1, <<"a", "<", "#2", ">", " ", "1">>), TextOn(2, <<"a", "1", "6">>)>>}

(* Headings: of a larger and a smaller size than their levels say, and a bold *)
(* paragraph on the first page.                                               *)
HeadingLook(l, s, c, w, b, p) ==
  [level |-> l, size |-> s, caps |-> FALSE, centered |-> c, bold |-> b, worthy |-> w, page |-> p]

HeadingLooks ==
  {HeadingLook(1, 120, FALSE, TRUE, TRUE, 1), HeadingLook(1, 120, TRUE, TRUE, FALSE, 1),
   HeadingLook(2, 144, FALSE, FALSE, FALSE, 2), HeadingLook(3, 100, FALSE, FALSE, FALSE, 1),
   HeadingLook(0, 0, FALSE, TRUE, TRUE, 1)}

TitleOptions ==
  {[title |-> TRUE, before |-> TRUE, shift |-> TRUE],
   [title |-> TRUE, before |-> FALSE, shift |-> FALSE],
   [title |-> FALSE, before |-> TRUE, shift |-> TRUE]}

(* Merging: equal and similar texts, richer ones, and a paragraph that refers to *)
(* the element after it.                                                         *)
MergeForm(t, x, r, l, refs) == [type |-> t, text |-> x, rich |-> r, level |-> l, refs |-> refs]

FormsToMerge ==
  {MergeForm("heading", 1, 0, 1, {}), MergeForm("heading", 1, 1, 2, {}),
   MergeForm("paragraph", 2, 0, 1, {}), MergeForm("paragraph", 3, 1, 1, {}),
   MergeForm("paragraph", 2, 2, 1, {1}), MergeForm("footnote", 1, 0, 1, {})}

MergeOption(p, a, t, b, q) == [prefer |-> p, allow |-> a, trust |-> t, block |-> b, pair |-> q]

OptionsOfMerge ==
  {MergeOption(<<>>, ElementTypes, "a", "near", {{1, 2}, {1, 3}, {2, 3}}),
   MergeOption(<<>>, ElementTypes, "both", "far", {}),
   MergeOption([paragraph |-> "b"], {"footnote"}, "b", "near", {{1, 3}}),
   MergeOption(<<>>, {}, "both", "same", {{2, 3}})}

(* Chunks: documents with blank texts, with the same texts, and with and    *)
(* without a source id.                                                     *)
ContentsToChunk == {<<3, 3>>, <<3, 0>>, <<1>>, <<0>>}
KeysOfSources ==
  {[sourceId |-> 1, sourcePath |-> 2], [sourceId |-> 0, sourcePath |-> 2],
   [sourceId |-> 0, sourcePath |-> 0]}
AnswersOfModel == {<<>>, <<0>>, <<1, 0, 1>>, <<2>>}

(* Parsers: two for one suffix, one for a longer suffix, one for both, and one *)
(* that runs a second parser.                                                  *)
ParserOf(n, patterns, priority, second) ==
  [name |-> n, patterns |-> patterns, priority |-> priority, second |-> second]

ParsersToRegister ==
  {ParserOf("basic", {".pdf"}, 0, ""), ParserOf("azure", {".pdf"}, 1, ""),
   ParserOf("middle", {"_m.json", ".json"}, 0, ""), ParserOf("restored", {".json"}, 0, ""),
   ParserOf("both", {"_m.json"}, 2, "basic")}

PatternFiles ==
  (".pdf" :> [files |-> {"a.pdf"}, length |-> 4])
    @@ (".json" :> [files |-> {"a_m.json"}, length |-> 5])
    @@ ("_m.json" :> [files |-> {"a_m.json"}, length |-> 7])

ParserConfigs ==
  {[preferences |-> pr, available |-> av] :
     pr \in {<<>>, ".pdf" :> "azure", ".json" :> "restored"},
     av \in {{"basic", "azure", "middle", "restored", "both"}, {"basic", "middle"},
             {"restored", "azure"}, {"basic", "restored", "both"}}}

-----------------------------------------------------------------------------
(* The parts side by side. *)

VARIABLE part

Fold == part = "summary"
Direct == part = "sync"

DocumentsInit ==
  /\ part \in Parts
  /\ SplitInit
  /\ MineruInit /\ (part # "mineru" => sourceDir)
  /\ IF part = "content" THEN ContentInit
     ELSE docs = [d \in Papers |-> [Bare EXCEPT !.meta = [key \in {0, d} |-> d]]]
  /\ IF part = "footnotes" THEN FootnotesInit
     ELSE /\ bodies = <<>> /\ notes = <<>> /\ resolver = "simple" /\ parallel = FALSE
          /\ queue = <<>> /\ patches = <<>> /\ lastAt = 0 /\ runs = 0 /\ resolving = FALSE
  /\ IF part = "headings" THEN HeadingsInit
     ELSE outline = <<>> /\ titled = 0 /\ trusted = TRUE /\ options = <<>> /\ passes = 0
  /\ MergeInit
  /\ IF part = "summary" THEN FoldInit
     ELSE /\ foldMode = "sequential" /\ folds = <<>>
          /\ folded = [state |-> "raised", text |-> TheDocument]
  /\ ChunksInit
  /\ IF part = "parsers" THEN RegistryInit
     ELSE registry = <<>> /\ preferences = <<>> /\ available = {} /\ loads = <<>>
  /\ Init /\ (~Direct => replaces)

(* All the variables but those of one module. *)
Others(own) ==
  \A v \in {"split", "mineru", "content", "footnotes", "headings", "merge", "summary", "chunks",
            "parsers", "sync"} \ {own} :
    CASE v = "split" -> UNCHANGED splitVars
      [] v = "mineru" -> UNCHANGED mineruVars
      [] v = "content" -> UNCHANGED docs
      [] v = "footnotes" -> UNCHANGED footnoteVars
      [] v = "headings" -> UNCHANGED headingVars
      [] v = "merge" -> UNCHANGED mergeVars
      [] v = "summary" -> UNCHANGED foldVars
      [] v = "chunks" -> UNCHANGED chunkVars
      [] v = "parsers" -> UNCHANGED registryVars
      [] v = "sync" -> UNCHANGED vars

DocumentsNext ==
  /\ \/ part = "split" /\ SplitNext
     \/ part = "mineru" /\ MineruNext
     \/ part = "content" /\ ContentNext
     \/ part = "footnotes" /\ FootnotesNext
     \/ part = "headings" /\ HeadingsNext
     \/ part = "merge" /\ MergeNext
     \/ Fold /\ FoldNext
     \/ part = "chunks" /\ ChunksNext
     \/ part = "parsers" /\ RegistryNext
     \/ Direct /\ Next
  /\ Others(part)
  /\ UNCHANGED part

(* The fairness of each module, in the behaviours that are about it. *)
DocumentsSpec ==
  /\ DocumentsInit
  /\ [][DocumentsNext]_<<splitVars, mineruVars, docs, footnoteVars, headingVars, mergeVars,
                         foldVars, chunkVars, registryVars, vars, part>>
  /\ WF_foldVars(Fold /\ FoldNext)
  /\ WF_vars(/\ Direct
             /\ Sync \/ \E s \in Sources : HashFails(s) \/ ProduceFails(s)
             /\ UNCHANGED replaces)
=============================================================================
