---------------------------- MODULE MineruParsing ----------------------------
(***************************************************************************)
(* The MinerU parser (parsing/mineru/): CoreExtractor walks the pages of a    *)
(* _middle.json, the paragraph blocks of a page and then its discarded        *)
(* blocks, and hands each to its handler, which appends elements, warnings    *)
(* and metadata to the context.  A step below is one handler call.            *)
(*                                                                            *)
(* A span is [type, full]: whether its content is more than blanks.  An image *)
(* span is full if its file can be decoded; one whose file is missing has the *)
(* type "lost image".  Boxes, CSS and MathML are left out.                    *)
(***************************************************************************)
EXTENDS Naturals, Sequences

CONSTANTS
  TextSpans,        \* what lines of text may hold: sequences of spans
  ImageSpans, TableSpans, ChartSpans,  \* the same for the bodies of those blocks
  FootnoteTexts,    \* texts of page footnotes: [digits, rest], see Numbered
  DiscardedHandler, \* the handler of each type of discarded block
  SourceDir,        \* the values of sourceDir to start from
  MaxBlocks,        \* bound: blocks of the document
  MaxPages          \* bound: pages

SpanTypes == {"text", "equation", "image", "lost image", "table", "chart"}

DiscardedTypes == {"header", "footer", "page_number", "aside_text", "page_footnote"}

DiscardedHandlers == {"drop", "raw_text", "footnote", "metadata"}

ASSUME MineruConstants ==
  /\ TextSpans \cup ImageSpans \cup TableSpans \cup ChartSpans
       \subseteq Seq([type : SpanTypes, full : BOOLEAN])
  /\ FootnoteTexts \subseteq [digits : Nat, rest : BOOLEAN]
  /\ DiscardedHandler \in [DiscardedTypes -> DiscardedHandlers]
  /\ SourceDir \subseteq BOOLEAN
  /\ MaxBlocks \in Nat /\ MaxPages \in Nat

VARIABLES
  blocks,     \* the blocks handled so far: [page, kind, parts]
  page,       \* the page at hand
  turned,     \* whether its discarded blocks are at hand
  produced,   \* context.elements: [type, from, part, page]
  warnings,   \* the blocks context.warnings complains of
  accumulated, \* the blocks whose text is in context.metadata
  sourceDir   \* whether context.metadata has a source_dir; never changes

mineruVars == <<blocks, page, turned, produced, warnings, accumulated, sourceDir>>

MineruInit ==
  /\ blocks = <<>>
  /\ page = 1
  /\ turned = FALSE
  /\ produced = <<>>
  /\ warnings = {}
  /\ accumulated = {}
  /\ sourceDir \in SourceDir

-----------------------------------------------------------------------------
(* The blocks: sequences of parts [role, spans]. *)

Part(role, spans) == [role : {role}, spans : spans]

Lines == {<<p>> : p \in Part("lines", TextSpans)}

ListItems == {<<>>} \cup {<<p>> : p \in Part("item", TextSpans)}

(* One or two inner blocks, in any order. *)
Inner(parts) == {<<p>> : p \in parts} \cup {<<p, q>> : p \in parts, q \in parts}

CodeParts == Inner(Part("code_body", TextSpans) \cup Part("code_caption", TextSpans))

ImageParts ==
  Inner(Part("image_body", ImageSpans) \cup Part("image_caption", TextSpans)
          \cup Part("image_footnote", TextSpans))

TableParts ==
  Inner(Part("table_body", TableSpans) \cup Part("table_caption", TextSpans)
          \cup Part("table_footnote", TextSpans))

ChartParts ==
  Inner(Part("chart_body", ChartSpans) \cup Part("chart_caption", TextSpans)
          \cup Part("chart_footnote", TextSpans))

(* next((b for b in blocks if isinstance(b, ...)), None): 0 for None. *)
FirstPart(role, parts) ==
  LET at == {k \in DOMAIN parts : parts[k].role = role}
  IN IF at = {} THEN 0 ELSE CHOOSE k \in at : \A j \in at : k <= j

(* extract_text_from_lines: spans of images and tables have no content. *)
Textual == {"text", "equation", "chart"}

HasText(part) ==
  \E n \in DOMAIN part.spans : part.spans[n].type \in Textual /\ part.spans[n].full

(* The first span of some types, if there is one. *)
FirstSpan(types, spans) ==
  LET at == {k \in DOMAIN spans : spans[k].type \in types}
  IN IF at = {} THEN <<>> ELSE <<spans[CHOOSE k \in at : \A j \in at : k <= j]>>

-----------------------------------------------------------------------------
(* Handlers. *)

Element(type, part) == [type |-> type, from |-> Len(blocks) + 1, part |-> part, page |-> page]

None == <<>>

TextOf(type, parts, role) ==
  LET k == FirstPart(role, parts)
  IN IF k > 0 /\ HasText(parts[k]) THEN <<Element(type, k)>> ELSE None

(* The element of the first span of a type in the first body. *)
BodyOf(type, parts, role, span) ==
  LET k == FirstPart(role, parts)
      found == IF k = 0 THEN <<>> ELSE FirstSpan({span}, parts[k].spans)
  IN IF found # <<>> /\ Head(found).full THEN <<Element(type, k)>> ELSE None

(* A block that is handled; its elements follow those of the blocks before. *)
Handled(kind, parts, elements) ==
  /\ Len(blocks) < MaxBlocks
  /\ blocks' = Append(blocks, [page |-> page, kind |-> kind, parts |-> parts])
  /\ produced' = produced \o elements
  /\ UNCHANGED <<page, turned, sourceDir>>

Silent == UNCHANGED <<warnings, accumulated>>

HandleTitle ==
  /\ ~turned
  /\ \E parts \in Lines : Handled("title", parts, TextOf("Heading", parts, "lines"))
  /\ Silent

(* text blocks, and top-level ref_text and interline_equation blocks *)
HandleText ==
  /\ ~turned
  /\ \E parts \in Lines : Handled("text", parts, TextOf("Paragraph", parts, "lines"))
  /\ Silent

(* A list becomes a DocumentList even if all its items are blank. *)
HandleList ==
  /\ ~turned
  /\ \E parts \in ListItems : Handled("list", parts, <<Element("DocumentList", 1)>>)
  /\ Silent

HandleCode ==
  /\ ~turned
  /\ \E parts \in CodeParts :
       Handled("code", parts, TextOf("Paragraph", parts, "code_caption")
                                \o TextOf("RawText", parts, "code_body"))
  /\ Silent

TableElements(parts) ==
  TextOf("Paragraph", parts, "table_caption") \o BodyOf("Table", parts, "table_body", "table")
    \o TextOf("RawText", parts, "table_footnote")

HandleTable ==
  /\ ~turned
  /\ \E parts \in TableParts : Handled("table", parts, TableElements(parts))
  /\ Silent

(* pandoc may fail on the chart's markdown: the body is skipped. *)
HandleChart ==
  /\ ~turned
  /\ \E parts \in ChartParts :
       \E body \in {None, BodyOf("Table", parts, "chart_body", "chart")} :
         Handled("chart", parts, TextOf("Paragraph", parts, "chart_caption") \o body
                                   \o TextOf("RawText", parts, "chart_footnote"))
  /\ Silent

(* Only the first image span counts.  It is warned of if there is no         *)
(* directory to look in or no file; a file that cannot be decoded is logged. *)
ImageSpanOf(parts) ==
  LET k == FirstPart("image_body", parts)
  IN IF k = 0 THEN <<>> ELSE FirstSpan({"image", "lost image"}, parts[k].spans)

Warns(parts) ==
  ImageSpanOf(parts) # <<>> /\ (~sourceDir \/ Head(ImageSpanOf(parts)).type = "lost image")

Loads(parts) ==
  ImageSpanOf(parts) # <<>> /\ ~Warns(parts) /\ Head(ImageSpanOf(parts)).full

HandleImage ==
  /\ ~turned
  /\ \E parts \in ImageParts :
       /\ Handled("image", parts,
                  (IF Loads(parts) THEN <<Element("Image", FirstPart("image_body", parts))>>
                   ELSE None) \o TextOf("Paragraph", parts, "image_caption"))
       /\ warnings' = IF Warns(parts) THEN warnings \cup {Len(blocks) + 1} ELSE warnings
  /\ UNCHANGED accumulated

(* ^(\d+)\s*(.+)$ backtracks: without more text the last digit is the text. *)
Numbered(text) == text.digits > 0 /\ (text.rest \/ text.digits > 1)

(* Mutated: a footnote without a number is dropped without a word. *)
UnnumberedQuiet(text) == {}

Unnumbered(text) == IF Numbered(text) THEN {} ELSE {Len(blocks) + 1}

(* handle_discarded_as_footnote, _as_raw_text, _as_metadata, _drop *)
HandleDiscarded ==
  /\ turned
  /\ \E kind \in DiscardedTypes, text \in FootnoteTexts :
       LET how == DiscardedHandler[kind]
           some == text.digits > 0 \/ text.rest
           made == \/ how = "footnote" /\ Numbered(text)
                   \/ how = "raw_text" /\ some
       IN /\ Handled(kind, <<text>>,
                     IF ~made THEN None
                     ELSE <<Element(IF how = "footnote" THEN "Footnote" ELSE "RawText", 1)>>)
          /\ warnings' = warnings \cup (IF how = "footnote" THEN Unnumbered(text) ELSE {})
          /\ accumulated' = accumulated
                              \cup (IF how = "metadata" /\ some THEN {Len(blocks) + 1} ELSE {})

-----------------------------------------------------------------------------
(* extract_elements *)

(* The discarded blocks of a page come after its paragraph blocks. *)
TurnToDiscarded ==
  /\ ~turned
  /\ turned' = TRUE
  /\ UNCHANGED <<blocks, page, produced, warnings, accumulated, sourceDir>>

TurnPage ==
  /\ turned
  /\ page < MaxPages
  /\ page' = page + 1
  /\ turned' = FALSE
  /\ UNCHANGED <<blocks, produced, warnings, accumulated, sourceDir>>

MineruNext ==
  \/ HandleTitle \/ HandleText \/ HandleList \/ HandleCode \/ HandleTable \/ HandleChart
  \/ HandleImage \/ HandleDiscarded \/ TurnToDiscarded \/ TurnPage

MineruSpec == MineruInit /\ [][MineruNext]_mineruVars

(* check_mineru_images, the pre-flight check: every image span of the first *)
(* body whose file is missing.                                              *)
MissingOf(parts) ==
  LET k == FirstPart("image_body", parts)
  IN k > 0 /\ FirstSpan({"lost image"}, parts[k].spans) # <<>>

CheckImages == {n \in DOMAIN blocks : blocks[n].kind = "image" /\ MissingOf(blocks[n].parts)}

-----------------------------------------------------------------------------
(* Properties. *)

PartRank(e) ==
  CASE e.type \in {"Heading", "Image"} -> 1
    [] e.type = "Paragraph" -> IF blocks[e.from].kind = "image" THEN 2 ELSE 1
    [] e.type \in {"Table", "DocumentList", "Footnote"} -> 2
    [] OTHER -> 3

(* Elements come in reading order: by page, block by block, footnotes of the *)
(* page last; a caption before its table and a table before its footnote.    *)
ElementsInOrder ==
  /\ \A m, n \in DOMAIN produced : m < n =>
       /\ produced[m].page <= produced[n].page
       /\ produced[m].from <= produced[n].from
       /\ produced[m].from = produced[n].from => PartRank(produced[m]) < PartRank(produced[n])
  /\ \A n \in DOMAIN produced : produced[n].page = blocks[produced[n].from].page

(* No element is blank but for lists, and no part makes two: what the later *)
(* stages index, count or split has text, a picture or a table.             *)
NoBlankElement ==
  \A n \in DOMAIN produced :
    LET b == blocks[produced[n].from]
    IN b.kind \notin DiscardedTypes \cup {"list"} =>
         /\ \E k \in DOMAIN b.parts[produced[n].part].spans :
              b.parts[produced[n].part].spans[k].full
         /\ \A m \in DOMAIN produced :
              produced[m].from = produced[n].from /\ produced[m].part = produced[n].part => m = n

(* "If the block does not match this pattern a warning is added": every page *)
(* footnote is in the document or in the warnings, whatever its text.        *)
FootnoteOrWarning ==
  \A n \in DOMAIN blocks :
    blocks[n].kind \in DiscardedTypes /\ DiscardedHandler[blocks[n].kind] = "footnote" =>
      (n \in warnings) # (\E m \in DOMAIN produced : produced[m].from = n)

(* A document that passes the pre-flight check is parsed without a warning of *)
(* a missing image, if the parser knows where to look.                        *)
PreflightPredicts ==
  sourceDir => {n \in warnings : blocks[n].kind = "image"} \subseteq CheckImages

(* What the later stages rely on in a parse of MinerU's output. *)
ParseIsFaithful ==
  ElementsInOrder /\ NoBlankElement /\ FootnoteOrWarning /\ PreflightPredicts
=============================================================================
