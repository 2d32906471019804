---------------------------- MODULE DocumentSplit ----------------------------
(***************************************************************************)
(* Splitting a document by a token budget (splitting/): split_document, the *)
(* hierarchical split, the greedy split by element groups, and the three    *)
(* tiers for a group that is too large alone.                               *)
(*                                                                          *)
(* A token is <<i, k>>, the k-th token that element i renders to; rendering *)
(* is additive, except that the text of a RawText renders with Wrap tokens  *)
(* of syntax around it and a titled document with Title more.  A piece is   *)
(* what a split document holds instead of an element: a whole element, a    *)
(* fragment of one, or raw text.  Sizes are small numbers in proportion to  *)
(* the code's: Room stands for its 100 tokens, Floor for MIN_SLICE_TOKENS.  *)
(***************************************************************************)
EXTENDS Naturals, Sequences, FiniteSets, SequencesExt, FiniteSetsExt, SequenceOps

CONSTANTS
  Shapes,       \* the elements a document may have, see Shape
  MaxElements,  \* bound: elements of a document
  Budget,       \* max_tokens
  Overlap,      \* overlap_tokens
  Room,         \* content_budget - overlap_tokens must exceed it
  Floor,        \* smallest window of a token slice
  Wrap,         \* syntax tokens around rendered raw text
  Title         \* tokens of a rendered title

(* level 0: not a heading.  header: tokens of a table's header; units: what   *)
(* the html may be cut into, with the tokens of their html, those they render *)
(* to, and the elements they refer to, as offsets (a pair <<back, forth>>);   *)
(* stops: the tokens that end a sentence.                                     *)
Shape == [level : 0 .. 6, header : Nat,
          units : Seq([raw : Nat, size : Nat, refs : Seq(Nat \X Nat)]), stops : SUBSET Nat]

ASSUME SplitConstants ==
  /\ \A s \in Shapes : s \in Shape /\ s.units # <<>>
  /\ {MaxElements, Budget, Overlap, Room, Floor, Wrap, Title} \subseteq Nat
  /\ Floor > 0

VARIABLES
  elements,  \* the document, as it grows
  splits     \* what split_document makes of it

splitVars == <<elements, splits>>


-----------------------------------------------------------------------------
(* Elements, pieces and what they render to. *)

Span(i, a, b) == [k \in 1 .. b - a |-> <<i, a + k>>]

(* Where unit k of element i ends, and the whole of it. *)
UnitEnd(i, k) ==
  elements[i].header + SumOf([n \in 1 .. k |-> elements[i].units[n].size])

Size(i) == UnitEnd(i, Len(elements[i].units))

HeadingAt(i) == elements[i].level > 0

Headings == {i \in DOMAIN elements : HeadingAt(i)}

(* inline_refs, in the order of the html. *)
Targets(i, units) ==
  FlattenSeq([k \in DOMAIN units |-> [n \in DOMAIN units[k].refs |->
               i + units[k].refs[n][2] - units[k].refs[n][1]]])

InlineRefs(i) == Targets(i, elements[i].units)

Whole(i) == [of |-> i, toks |-> Span(i, 0, Size(i)), raw |-> FALSE]

RawText(toks) == [of |-> 0, toks |-> toks, raw |-> TRUE]

Pieces(ids) == [n \in DOMAIN ids |-> Whole(ids[n])]

Render(pieces) ==
  FlattenSeq([n \in DOMAIN pieces |->
               (IF pieces[n].raw THEN Span(0, 0, Wrap) ELSE <<>>) \o pieces[n].toks])

Tokens(pieces) == Len(Render(pieces))

(* The size of a document that has the title of the original. *)
Titled(pieces) == Tokens(pieces) + Title

(* _overhead_tokens *)
Overhead(ctx) == Titled(Pieces(ctx))

-----------------------------------------------------------------------------
(* build_element_groups *)

(* What the elements found refer to is found next; no element twice. *)
ReachRefs(root, ids) ==
  LET found[n \in 0 .. Len(ids)] ==
        IF n = 0 THEN ToSet(InlineRefs(root)) \cap ToSet(ids)
        ELSE found[n - 1] \cup UNION {ToSet(InlineRefs(i)) \cap ToSet(ids) : i \in found[n - 1]}
  IN  found[Len(ids)]

(* The members of s that are in S, each where it is in s for the last time. *)
LastAmong(s, S) ==
  LET at == Among([n \in DOMAIN s |-> n],
                  {n \in DOMAIN s : s[n] \in S /\ \A m \in n + 1 .. Len(s) : s[m] # s[n]})
  IN  [k \in DOMAIN at |-> s[at[k]]]

CollectRefs(root, ids) == LastAmong(ids, ReachRefs(root, ids))

Ids == [i \in DOMAIN elements |-> i]

AllReferenced(ids) == UNION {ToSet(InlineRefs(ids[n])) : n \in DOMAIN ids}

(* A heading stands alone; an element nothing refers to is the root of a    *)
(* group, with all that it reaches in document order.                       *)
ElementGroups(ids) ==
  LET kept == Among(ids, Headings \cup (ToSet(ids) \ AllReferenced(ids)))
  IN [n \in DOMAIN kept |->
       [root |-> kept[n],
        all |-> IF HeadingAt(kept[n]) THEN <<kept[n]>>
                ELSE <<kept[n]>> \o CollectRefs(kept[n], ids)]]

-----------------------------------------------------------------------------
(* Tier 3: _token_slice. *)

Chunk(ctx, toks) == Append(Pieces(ctx), RawText(toks))

MinOf(a, b) == IF a < b THEN a ELSE b

MaxOf(a, b) == IF a > b THEN a ELSE b

(* The window shrinks until the rendered chunk fits, in Budget steps at most. *)
SliceEndAt(toks, start, window) == MinOf(start + window, Len(toks))

Shrunk(ctx, toks, start, window) ==
  LET rendered == Titled(Chunk(ctx, SubSeq(toks, start + 1, SliceEndAt(toks, start, window))))
  IN  IF window <= Floor \/ rendered <= Budget THEN window
      ELSE MaxOf(Floor, MinOf(window - 1, (window * Budget) \div rendered))

SliceEnd(ctx, toks, start) ==
  LET window[n \in 0 .. Budget] ==
        IF n = 0 THEN Budget - Overhead(ctx) ELSE Shrunk(ctx, toks, start, window[n - 1])
  IN  SliceEndAt(toks, start, window[Budget])

(* Mutated: the next slice starts one token late. *)
NextStartSkips(start, end, overlap) == end + 1

NextStart(start, end, overlap) ==
  MaxOf(start + 1, end - MinOf(overlap, (end - start) \div 2))

NextSlice(ctx, toks, overlap, st) ==
  LET end == SliceEnd(ctx, toks, st.start)
  IN  IF st.start >= Len(toks) THEN st
      ELSE [chunks |-> Append(st.chunks, Chunk(ctx, SubSeq(toks, st.start + 1, end))),
            start |-> IF end >= Len(toks) THEN end ELSE NextStart(st.start, end, overlap)]

Slices(ctx, toks, overlap) ==
  LET st[n \in 0 .. Len(toks)] ==
        IF n = 0 THEN [chunks |-> <<>>, start |-> 0]
        ELSE NextSlice(ctx, toks, overlap, st[n - 1])
  IN  st[Len(toks)].chunks

TokenSlice(ctx, pieces, overlap) ==
  Slices(ctx, Render(Among(pieces, {p \in ToSet(pieces) : p.of \notin ToSet(ctx)})), overlap)

-----------------------------------------------------------------------------
(* Tier 2: split_at_sentences; <<>> stands for None. *)

EndsSentence(tok) == tok[1] > 0 /\ tok[2] \in elements[tok[1]].stops

WithToken(ss, tok) ==
  IF ss # <<>> /\ ~EndsSentence(Last(Last(ss))) THEN Front(ss) \o <<Append(Last(ss), tok)>>
  ELSE Append(ss, <<tok>>)

Sentences(toks) ==
  LET ss[n \in 0 .. Len(toks)] == IF n = 0 THEN <<>> ELSE WithToken(ss[n - 1], toks[n])
  IN  ss[Len(toks)]

WithSentence(texts, s, room) ==
  IF texts # <<>> /\ Len(Last(texts)) + Len(s) <= room
  THEN Front(texts) \o <<Last(texts) \o s>>
  ELSE Append(texts, s)

Pack(sentences, room) ==
  LET texts[n \in 0 .. Len(sentences)] ==
        IF n = 0 THEN <<>> ELSE WithSentence(texts[n - 1], sentences[n], room)
  IN  texts[Len(sentences)]

(* Too large once rendered again: sliced, if there is room to. *)
Checked(ctx, text) ==
  LET room == Budget - Overhead(ctx)
  IN IF ~(Overhead(ctx) + Room < Budget) \/ Titled(Chunk(ctx, text)) <= Budget
     THEN <<Chunk(ctx, text)>>
     ELSE TokenSlice(ctx, Chunk(ctx, text), MinOf(Overlap, room - (Room + 1)))

SplitAtSentences(pieces, ctx) ==
  LET full == Pieces(ctx) \o pieces
      room == IF Overhead(ctx) < Budget THEN Budget - Overhead(ctx) ELSE 0
      texts == Pack(Sentences(Render(full)), room)
  IN IF Titled(full) <= Budget THEN <<full>>
     ELSE IF Len(texts) <= 1 THEN <<>>
     ELSE FlattenSeq([n \in DOMAIN texts |-> Checked(ctx, texts[n])])

-----------------------------------------------------------------------------
(* Tier 1: split_at_html_tags. *)

(* Units a .. b of element i under its wrapper and header. *)
Fragment(i, a, b) ==
  [of |-> -1,
   toks |-> Span(i, 0, elements[i].header) \o Span(i, UnitEnd(i, a - 1), UnitEnd(i, b)),
   raw |-> FALSE]

(* The members of s in the order they first appear in. *)
Distinct(s) ==
  LET seen[n \in 0 .. Len(s)] ==
        IF n = 0 THEN <<>>
        ELSE IF s[n] \in ToSet(seen[n - 1]) THEN seen[n - 1] ELSE Append(seen[n - 1], s[n])
  IN  seen[Len(s)]

(* The referenced elements whose tags the fragment contains. *)
Extra(group, a, b) ==
  Among(Distinct(Targets(group.root, SubSeq(elements[group.root].units, a, b))),
        ToSet(Tail(group.all)))

(* None, or an empty list, makes way for the next tier. *)
Else(chunks, next) == IF chunks # <<>> THEN chunks ELSE next

Content(group, a, b) == <<Fragment(group.root, a, b)>> \o Pieces(Extra(group, a, b))

(* The chunks of units w[1] .. w[2], given those of fewer; one unit alone is  *)
(* left to the next tiers.                                                    *)
Halved(group, ctx, inner, w) ==
  LET chunk == Pieces(ctx) \o Content(group, w[1], w[2])
      mid == (w[1] - 1 + w[2]) \div 2
  IN IF Titled(chunk) <= Budget THEN <<chunk>>
     ELSE IF w[2] > w[1] THEN inner[<<w[1], mid>>] \o inner[<<mid + 1, w[2]>>]
     ELSE Else(SplitAtSentences(Content(group, w[1], w[2]), ctx), TokenSlice(ctx, chunk, Overlap))

UnitWindows(i) ==
  LET units == DOMAIN elements[i].units
  IN  {w \in units \X units : w[1] <= w[2]}

Emit(group, ctx, a, b) ==
  LET chunks[n \in 0 .. Len(elements[group.root].units)] ==
        IF n = 0 THEN [w \in UnitWindows(group.root) |-> <<>>]
        ELSE [w \in UnitWindows(group.root) |-> Halved(group, ctx, chunks[n - 1], w)]
  IN  chunks[Len(elements[group.root].units)][<<a, b>>]

CeilDiv(a, b) == (a + b - 1) \div b

(* The size of html of n tokens, scaled as the whole element renders. *)
Raw(i) == elements[i].header + SumOf([k \in DOMAIN elements[i].units |-> elements[i].units[k].raw])

Estimate(i, n) == CeilDiv(n * Size(i), MaxOf(1, Raw(i)))

(* Runs of units packed greedily by the estimate. *)
AddUnit(i, room, st, k) ==
  LET n == Estimate(i, elements[i].units[k].raw)
  IN  IF st.runs # <<>> /\ ~(st.used + n > room)
      THEN [runs |-> Front(st.runs) \o <<<<Last(st.runs)[1], k>>>>, used |-> st.used + n]
      ELSE [runs |-> Append(st.runs, <<k, k>>), used |-> n]

PackUnits(i, room) ==
  LET st[k \in 0 .. Len(elements[i].units)] ==
        IF k = 0 THEN [runs |-> <<>>, used |-> 0] ELSE AddUnit(i, room, st[k - 1], k)
  IN  st[Len(elements[i].units)].runs

Several(chunks) == IF Len(chunks) <= 1 THEN <<>> ELSE chunks

SplitAtHtmlTags(group, ctx) ==
  LET i == group.root
      taken == Overhead(ctx) + Estimate(i, elements[i].header)
      runs == PackUnits(i, IF taken < Budget THEN Budget - taken ELSE 0)
  IN IF Len(elements[i].units) <= 1 THEN <<>>
     ELSE Several(FlattenSeq([n \in DOMAIN runs |-> Emit(group, ctx, runs[n][1], runs[n][2])]))

-----------------------------------------------------------------------------
(* split_oversized_element and split_by_elements. *)

(* A ValueError, in place of a result: no split is just an empty text. *)
Refused == <<<<RawText(<<>>)>>>>

SplitOversized(ctx, group) ==
  LET full == Pieces(ctx \o group.all)
      \* every Heading of the document, one the group refers to included
      heads == Among(ctx \o group.all, Headings)
  IN IF Titled(full) <= Budget THEN <<full>>
     ELSE IF Budget <= Overhead(heads) + Overlap + Room THEN Refused
     ELSE Else(SplitAtHtmlTags(group, heads),
               Else(SplitAtSentences(Pieces(group.all), heads),
                    TokenSlice(heads, Pieces(heads \o group.all), Overlap)))

(* The latest heading of each level, levels in order of first appearance. *)
WithHeading(ctx, h) ==
  LET same == {n \in DOMAIN ctx : elements[ctx[n]].level = elements[h].level}
  IN IF same = {} THEN Append(ctx, h)
     ELSE [n \in DOMAIN ctx |-> IF n \in same THEN h ELSE ctx[n]]

Bodied(ids) == \E n \in DOMAIN ids : ~HeadingAt(ids[n])

Flushed(st) == IF st.current = <<>> THEN st.result ELSE Append(st.result, Pieces(st.current))

NoRoom(st, tokens) == Bodied(st.current) /\ st.used + tokens > Budget

AddSplit(st, split) ==
  [st EXCEPT !.result = (IF Bodied(st.current) THEN Flushed(st) ELSE @)
                          \o (IF split = Refused THEN <<>> ELSE split),
             !.failed = (split = Refused),
             !.current = st.ctx, !.used = Tokens(Pieces(st.ctx)), !.reseeded = TRUE]

(* One item of the greedy loop. *)
AddGroup(st, group) ==
  LET tokens == Tokens(Pieces(group.all))
  IN IF st.failed THEN st
     ELSE IF HeadingAt(group.root)
     THEN [st EXCEPT !.current = Append(@, group.root), !.used = @ + tokens,
                     !.ctx = WithHeading(@, group.root), !.reseeded = FALSE]
     ELSE IF tokens > Budget THEN AddSplit(st, SplitOversized(st.ctx, group))
     ELSE IF NoRoom(st, tokens)
     THEN [st EXCEPT !.result = Flushed(st), !.current = st.ctx \o group.all,
                     !.used = Tokens(Pieces(st.ctx)) + tokens, !.reseeded = FALSE]
     ELSE [st EXCEPT !.current = @ \o group.all, !.used = @ + tokens, !.reseeded = FALSE]

(* Headings re-seeded after an oversized group already lead its pieces. *)
Remainder(st) ==
  IF st.failed THEN Refused ELSE IF st.reseeded THEN st.result ELSE Flushed(st)

NothingSplit ==
  [result |-> <<>>, current |-> <<>>, used |-> 0, ctx |-> <<>>, reseeded |-> FALSE, failed |-> FALSE]

(* The groups one after the other. *)
AddGroups(groups) ==
  LET st[n \in 0 .. Len(groups)] ==
        IF n = 0 THEN NothingSplit ELSE AddGroup(st[n - 1], groups[n])
  IN  st[Len(groups)]

SplitByElements(ids) ==
  IF ids = <<>> \/ Titled(Pieces(ids)) <= Budget THEN <<Pieces(ids)>>
  ELSE Else(Remainder(AddGroups(ElementGroups(ids))), <<Pieces(ids)>>)

-----------------------------------------------------------------------------
(* split_hierarchical, split_by_headings and split_document. *)

(* The levels that two headings have. *)
SplitLevels(ids) ==
  {l \in 1 .. 6 : \E m, n \in DOMAIN ids :
                    m # n /\ elements[ids[m]].level = l /\ elements[ids[n]].level = l}

(* One item of the scan; chunks are [ids, ctx]. *)
ScanGroup(level, st, group) ==
  LET here == elements[group.root].level
      started == st.chunks # <<>>
      extended == Front(st.chunks)
                    \o <<[Last(st.chunks) EXCEPT !.ids = @ \o group.all]>>
      parent == here > 0 /\ here < level
  IN IF here = level
     THEN [st EXCEPT !.chunks = Append(@, [ids |-> group.all, ctx |-> st.parents])]
     ELSE [st EXCEPT !.parents = IF parent THEN WithHeading(@, group.root) ELSE @,
                     !.chunks = IF started THEN extended ELSE @,
                     !.preamble = IF started \/ parent THEN @ ELSE @ \o group.all]

TakesPreamble(n, parts) == n = 1

Scanned(level, groups) ==
  LET st[n \in 0 .. Len(groups)] ==
        IF n = 0 THEN [chunks |-> <<>>, parents |-> <<>>, preamble |-> <<>>]
        ELSE ScanGroup(level, st[n - 1], groups[n])
  IN  st[Len(groups)]

SplitHierarchical(ids) ==
  LET st == Scanned(Min(SplitLevels(ids)), ElementGroups(ids))
  IN IF SplitLevels(ids) = {} THEN <<ids>>
     ELSE [n \in DOMAIN st.chunks |->
            st.chunks[n].ctx \o (IF TakesPreamble(n, st.chunks) THEN st.preamble ELSE <<>>) \o st.chunks[n].ids]

BeginsPart(i, current) == HeadingAt(i) /\ Bodied(current)

WithPart(parts, i) ==
  IF parts = <<>> \/ BeginsPart(i, Last(parts)) THEN Append(parts, <<i>>)
  ELSE Front(parts) \o <<Append(Last(parts), i)>>

SplitByHeadings ==
  LET parts[n \in 0 .. Len(elements)] == IF n = 0 THEN <<>> ELSE WithPart(parts[n - 1], n)
  IN  parts[Len(elements)]

(* What split_document does, given what it does with the parts. *)
Subdivided(inner, ids) ==
  LET parts == SplitHierarchical(ids)
      sub == [n \in DOMAIN parts |-> inner[parts[n]]]
  IN IF Titled(Pieces(ids)) <= Budget THEN <<Pieces(ids)>>
     ELSE IF Len(parts) = 1 THEN SplitByElements(ids)
     ELSE IF \E n \in DOMAIN parts : sub[n] = Refused THEN Refused
     ELSE FlattenSeq(sub)

(* In a part, the level it was split at repeats no more, nor any above: after *)
(* six divisions none does.                                                   *)
SplitDocument(ids) ==
  LET split[n \in 0 .. 6] ==
        IF n = 0 THEN [part \in Seq(DOMAIN elements) |-> SplitByElements(part)]
        ELSE [part \in Seq(DOMAIN elements) |-> Subdivided(split[n - 1], part)]
  IN  split[6][ids]

NotYet == <<>>

SplitInit == elements = <<>> /\ splits = NotYet

(* Footnotes, images and tables are referred to, never headings. *)
AddElement ==
  /\ splits = NotYet
  /\ Len(elements) < MaxElements
  /\ \E s \in Shapes : elements' = Append(elements, s)
  /\ \A i \in DOMAIN elements' : HeadingAt(i)' => i \notin AllReferenced(Ids)'
  /\ UNCHANGED splits

Split ==
  /\ splits = NotYet
  /\ splits' = SplitDocument(Ids)
  /\ UNCHANGED elements

SplitNext == AddElement \/ Split

-----------------------------------------------------------------------------
(* Properties. *)

Done == splits \notin {NotYet, Refused}

Shown == UNION {ToSet(Render(splits[n])) : n \in DOMAIN splits}

(* Elements that only a heading or a cycle refers to, and what only they do, *)
(* are in no group; what a fragment's footnote refers to is not taken along. *)
Rooted(i) == HeadingAt(i) \/ i \notin AllReferenced(Ids)

Certain ==
  {i \in DOMAIN elements :
     Rooted(i) \/ \E r \in DOMAIN elements :
                    Rooted(r) /\ ~HeadingAt(r) /\ i \in ToSet(InlineRefs(r))}

(* Whatever the tiers cut, halve, pack, verify and slice, each token of every *)
(* heading, of every root and of every element that a root refers to is in    *)
(* some split.                                                                *)
NoTokenDropped ==
  Done => \A i \in Certain : ToSet(Span(i, 0, Size(i))) \subseteq Shown

(* A root that fits the budget with all it reaches is in one split with it;    *)
(* of an element that is cut at its units, each unit is in one split with what *)
(* it refers to, if those and the headings fit.                                *)
UnitTokens(i, k) == ToSet(Span(i, UnitEnd(i, k - 1), UnitEnd(i, k)))

Together(toks) == \E n \in DOMAIN splits : toks \subseteq ToSet(Render(splits[n]))

FootnotesTravel ==
  Done =>
    \A n \in DOMAIN ElementGroups(Ids) :
      LET group == ElementGroups(Ids)[n]
          i == group.root
          heads == Tokens(Pieces(Among(Ids, Headings)))
          cited(k) == Pieces(Among(Targets(i, <<elements[i].units[k]>>), DOMAIN elements))
      IN /\ Tokens(Pieces(group.all)) <= Budget => Together(ToSet(Render(Pieces(group.all))))
         /\ \A k \in DOMAIN elements[i].units :
              /\ Size(i) > Budget /\ Len(elements[i].units) > 1
              /\ Title + heads + Tokens(<<Fragment(i, k, k)>> \o cited(k)) <= Budget
              => Together(UnitTokens(i, k) \cup ToSet(Render(cited(k))))

(* "Reading order is preserved throughout": roots first show in the order they *)
(* have in the document.                                                       *)
FirstSplit(tok) == Min({n \in DOMAIN splits : tok \in ToSet(Render(splits[n]))})

ReadingOrder ==
  Done =>
    \A i, j \in DOMAIN elements :
      i < j /\ {i, j} \cap AllReferenced(Ids) = {} /\ ~HeadingAt(i) /\ ~HeadingAt(j) =>
        FirstSplit(<<i, Size(i)>>) <= FirstSplit(<<j, Size(j)>>)

(* The chunks that callers measure: a split is over the budget only by the  *)
(* headings and the title it has beside content that fits, if it is the     *)
(* smallest slice there is, or if nothing could be split.                   *)
Body(pieces) == SelectSeq(pieces, LAMBDA p : p.of < 1 \/ ~HeadingAt(p.of))

OverBudgetOnlyByHeadings ==
  Done /\ splits # <<Pieces(Ids)>> =>
    \A n \in DOMAIN splits :
      \/ Tokens(Body(splits[n])) <= Budget
      \/ \E m \in DOMAIN splits[n] : splits[n][m].raw /\ Len(splits[n][m].toks) <= Floor

(* split_by_headings loses and reorders nothing; only its first part may begin *)
(* without a heading and only its last one hold nothing else.                  *)
HeadingSplitsPartition ==
  /\ FlattenSeq(SplitByHeadings) = Ids
  /\ \A n \in 2 .. Len(SplitByHeadings) :
       HeadingAt(SplitByHeadings[n][1]) /\ Bodied(SplitByHeadings[n - 1])

(* What split_document and split_by_headings promise of every document whose *)
(* headings nothing refers to.                                               *)
SplitsCoverDocument ==
  /\ NoTokenDropped /\ FootnotesTravel /\ ReadingOrder
  /\ OverBudgetOnlyByHeadings /\ HeadingSplitsPartition

(* "referenced elements always travel with their root" (token.py), "inside   *)
(* their referencing root's group" (groups.py): each token of each element,  *)
(* whatever refers to it, is in some split.                                  *)
EveryElementSurvives ==
  Done =>
    \A i \in DOMAIN elements : ToSet(Span(i, 0, Size(i))) \subseteq Shown
=============================================================================
