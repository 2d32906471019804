----------------------------- MODULE ElementMerge -----------------------------
(***************************************************************************)
(* Merging two parses of one document (merging/): the alignment of elements   *)
(* (align.py, patch.py) and the alignment of rendered tags (html_merge.py,    *)
(* html_patch.py), both over difflib's opcodes.                               *)
(*                                                                            *)
(* An element's text is a number, its length: equal numbers are equal         *)
(* alignment keys, 0 is the empty text.  rich is markup_richness_score;       *)
(* refs names elements of the same parse by position.  How alike different    *)
(* texts are is chosen once per merge: `block` grades a replace block, `pair` *)
(* holds the pairs of different texts that reach the threshold.               *)
(***************************************************************************)
EXTENDS Integers, Sequences, FiniteSets, SequencesExt, FiniteSetsExt, SequenceOps

CONSTANTS
  MergeForms,        \* [type, text, rich, level, refs]: refs a set of offsets ahead
  MergeOptions,      \* [prefer, allow, trust, block, pair]
  MaxA, MaxB    \* bounds: elements of either parse

ElementTypes == {"heading", "paragraph", "raw_text", "image", "footnote"}
Primary == {"heading", "paragraph", "raw_text"}
Secondary == {"image", "footnote"}

ASSUME MergeConstants ==
  /\ \A f \in MergeForms : /\ f.type \in ElementTypes \ {"raw_text"}
                           /\ f.text \in Nat \ {0} /\ f.rich \in Nat /\ f.level \in 1 .. 6
                           /\ f.refs \subseteq Nat \ {0}
  /\ \A o \in MergeOptions : /\ o.allow \subseteq ElementTypes /\ o.trust \in {"a", "b", "both"}
                             /\ o.block \in {"far", "near", "same"}
                             /\ \A texts \in o.pair : texts \subseteq Nat
                             /\ DOMAIN o.prefer \subseteq ElementTypes
                             /\ \A t \in DOMAIN o.prefer : o.prefer[t] \in {"a", "b"}
  /\ MaxA \in Nat /\ MaxB \in Nat

VARIABLES
  parseA, parseB,   \* doc_a.elements, doc_b.elements
  merging           \* NotMerged, or what a merge of the two returned

mergeVars == <<parseA, parseB, merging>>

NotMerged == [opts |-> "none"]

MergeInit == parseA = <<>> /\ parseB = <<>> /\ merging = NotMerged

(* Two parsers give their elements ids of their own. *)
Parsed(side, n, f) ==
  [id |-> <<side, n>>, type |-> f.type, text |-> f.text, rich |-> f.rich,
   level |-> f.level, refs |-> {<<side, n + k>> : k \in f.refs}]

AddToA(f) ==
  /\ merging = NotMerged /\ parseB = <<>> /\ Len(parseA) < MaxA
  /\ parseA' = Append(parseA, Parsed("a", Len(parseA) + 1, f))
  /\ UNCHANGED <<parseB, merging>>

AddToB(f) ==
  /\ merging = NotMerged /\ Len(parseB) < MaxB
  /\ parseB' = Append(parseB, Parsed("b", Len(parseB) + 1, f))
  /\ UNCHANGED <<parseA, merging>>

-----------------------------------------------------------------------------
(* difflib.SequenceMatcher.get_opcodes: the longest common block, the earliest *)
(* of those, and the same on either side of it.  Ranges are half-open.         *)

Opcode(tag, i1, i2, j1, j2) == [tag |-> tag, i1 |-> i1, i2 |-> i2, j1 |-> j1, j2 |-> j2]

(* Of a window, the ranges <<i1, i2, j1, j2>> of either sequence. *)
Gap(w) ==
  CASE w[1] < w[2] /\ w[3] < w[4] -> <<Opcode("replace", w[1], w[2], w[3], w[4])>>
    [] w[1] < w[2] /\ w[3] >= w[4] -> <<Opcode("delete", w[1], w[2], w[3], w[4])>>
    [] w[1] >= w[2] /\ w[3] < w[4] -> <<Opcode("insert", w[1], w[2], w[3], w[4])>>
    [] OTHER -> <<>>

Common(ka, kb, w) ==
  {m \in (w[1] .. (w[2] - 1)) \X (w[3] .. (w[4] - 1)) \X (1 .. (w[2] - w[1])) :
     /\ m[1] + m[3] <= w[2] /\ m[2] + m[3] <= w[4]
     /\ \A d \in 0 .. (m[3] - 1) : ka[m[1] + d] = kb[m[2] + d]}

Longest(common) ==
  LET size == Max({m[3] : m \in common})
      i == Min({m[1] : m \in {c \in common : c[3] = size}})
      j == Min({m[2] : m \in {c \in common : c[3] = size /\ c[1] = i}})
  IN  <<i, j, size>>

Windows(ka, kb) ==
  (1 .. Len(ka) + 1) \X (1 .. Len(ka) + 1) \X (1 .. Len(kb) + 1) \X (1 .. Len(kb) + 1)

(* The opcodes of a window, given those of the windows left and right of the   *)
(* longest block.                                                              *)
Divided(ka, kb, inner, w) ==
  LET m == Longest(Common(ka, kb, w))
  IN  IF Common(ka, kb, w) = {} THEN Gap(w)
      ELSE inner[<<w[1], m[1], w[3], m[2]>>]
             \o <<Opcode("equal", m[1], m[1] + m[3], m[2], m[2] + m[3])>>
             \o inner[<<m[1] + m[3], w[2], m[2] + m[3], w[4]>>]

(* A block takes one of ka at least. *)
Opcodes(ka, kb) ==
  LET codes[n \in 0 .. Len(ka)] ==
        [w \in Windows(ka, kb) |-> IF n = 0 THEN Gap(w) ELSE Divided(ka, kb, codes[n - 1], w)]
  IN  codes[Len(ka)][<<1, Len(ka) + 1, 1, Len(kb) + 1>>]

-----------------------------------------------------------------------------
(* Approach A. *)

(* An anchor with the secondary elements that follow it; those before the   *)
(* first anchor follow an empty raw text that the document does not have.   *)
Sentinel(side) ==
  [id |-> <<side, 0>>, type |-> "raw_text", text |-> 0, rich |-> 0, level |-> 1, refs |-> {}]

WithElement(groups, e, side) ==
  IF e.type \in Primary THEN Append(groups, <<e>>)
  ELSE IF groups = <<>> THEN <<<<Sentinel(side), e>>>>
  ELSE [groups EXCEPT ![Len(groups)] = Append(@, e)]

GroupWithTrailing(elements, side) ==
  LET groups[n \in 0 .. Len(elements)] ==
        IF n = 0 THEN <<>> ELSE WithElement(groups[n - 1], elements[n], side)
  IN  groups[Len(elements)]

AlignmentKeys(groups) == [g \in DOMAIN groups |-> Head(groups[g]).text]

PreferredSide(type, o) == IF type \in DOMAIN o.prefer THEN o.prefer[type] ELSE "neither"

Lower(x, y) == IF x <= y THEN x ELSE y

(* A new heading: the trusted parser's level over the richer side's content. *)
SelectHeading(a, b, o) ==
  LET inner == IF b.rich > a.rich THEN b ELSE a
  IN  [inner EXCEPT !.id = <<"new", a.id>>,
                    !.level = CASE o.trust = "a" -> a.level
                                [] o.trust = "b" -> b.level
                                [] o.trust = "both" -> Lower(a.level, b.level)]

SelectParagraph(a, b) ==
  IF b.rich > a.rich \/ (b.rich = a.rich /\ b.text > a.text) THEN b ELSE a

Rich(elements) == SumOf([n \in DOMAIN elements |-> elements[n].rich])

Scored(elements) ==
  Rich(elements) + SumOf([n \in DOMAIN elements |-> IF elements[n].type \in Secondary THEN 2 ELSE 0])

(* Mutated: the anchors are compared, whatever trails them. *)
ApplyHeuristicsAnchors(as, bs, o) ==
  IF Head(as).type = "paragraph" /\ Head(bs).type = "paragraph"
  THEN <<SelectParagraph(Head(as), Head(bs))>>
  ELSE IF Scored(bs) > Scored(as) THEN bs ELSE as

ApplyHeuristics(as, bs, o) ==
  LET a == Head(as)
      b == Head(bs)
      pref == PreferredSide(a.type, o)
      single == Len(as) = 1 /\ Len(bs) = 1 /\ a.type = b.type
  IN  CASE pref = "a" -> as
        [] pref = "b" -> bs
        [] pref = "neither" /\ single /\ a.type = "heading" -> <<SelectHeading(a, b, o)>>
        [] pref = "neither" /\ single /\ a.type = "paragraph" -> <<SelectParagraph(a, b)>>
        [] OTHER -> IF Scored(bs) > Scored(as) THEN bs ELSE as

(* _with_injected_markup: a copy of the winner under its id, its text kept. *)
Injected(winner, loser) ==
  IF loser.rich > 0 /\ loser.text = winner.text /\ winner.type \in {"heading", "paragraph"}
  THEN [winner EXCEPT !.rich = @ + loser.rich]
  ELSE winner

Operation(op, as, bs, resolved) == [op |-> op, a |-> as, b |-> bs, resolved |-> resolved]

Kept(resolved, as, bs, sure) ==
  CASE sure /\ resolved = as -> "keep_a"
    [] sure /\ resolved # as /\ resolved = bs -> "keep_b"
    [] OTHER -> "merge"

(* One aligned pair of groups; prefer_source is asked by the anchor's type. *)
AlignedPair(as, bs, o, sure) ==
  LET resolved == ApplyHeuristics(as, bs, o)
  IN  Operation(Kept(resolved, as, bs, sure), as, bs, resolved)

PairedWithMarkup(as, bs, o) ==
  LET won == ApplyHeuristics(as, bs, o)
      resolved == IF won = bs /\ Len(as) = 1 /\ Len(bs) = 1
                  THEN <<Injected(bs[1], as[1])>> ELSE won
  IN  Operation(Kept(resolved, as, bs, TRUE), as, bs, resolved)

Inserted(bs) == Operation("insert_b", <<>>, bs, bs)

(* Each of A's groups, in order, takes the closest group of B left, if that     *)
(* reaches the threshold: the first with its text, else the first whose text is *)
(* alike.                                                                       *)
ClosestTo(key, free, kb, o) ==
  LET same == {j \in free : kb[j] = key}
      near == IF same # {} THEN same ELSE {j \in free : {key, kb[j]} \in o.pair}
  IN  IF near = {} THEN 0 ELSE Min(near)

Closest(ka, kb, o) ==
  LET found[n \in 0 .. Len(ka)] ==
        IF n = 0 THEN <<>>
        ELSE Append(found[n - 1],
                    ClosestTo(ka[n], DOMAIN kb \ ToSet(found[n - 1]), kb, o))
  IN  found[Len(ka)]

MoreInA(ga, gb, o) ==
  LET match == Closest(AlignmentKeys(ga), AlignmentKeys(gb), o)
      insertable == Among([j \in DOMAIN gb |-> j],
                          {j \in DOMAIN gb \ ToSet(match) : Head(gb[j]).type \in o.allow})
  IN  [i \in DOMAIN ga |->
         IF match[i] # 0 THEN PairedWithMarkup(ga[i], gb[match[i]], o)
         ELSE Operation("delete_a", ga[i], <<>>, ga[i])]
        \o [k \in DOMAIN insertable |-> Inserted(gb[insertable[k]])]

Dissimilar(ga, gb, o) ==
  LET allowed == Among(gb, {g \in ToSet(gb) : \A n \in DOMAIN g : g[n].type \in o.allow})
  IN  <<Operation("delete_a", FlattenSeq(ga), <<>>, <<>>)>>
        \o [k \in DOMAIN allowed |-> Inserted(allowed[k])]

Replaced(ga, gb, o) ==
  LET alike == o.block # "far" \/ (Len(ga) = 1 /\ Len(gb) = 1)
      sure == o.block = "same"
  IN  CASE ~alike -> Dissimilar(ga, gb, o)
        [] alike /\ Len(ga) = Len(gb) ->
             [n \in DOMAIN ga |-> AlignedPair(ga[n], gb[n], o, sure)]
        [] alike /\ Len(ga) > Len(gb) -> MoreInA(ga, gb, o)
        [] OTHER -> <<AlignedPair(FlattenSeq(ga), FlattenSeq(gb), o, sure)>>

(* A group only B has: whole if its anchor is allowed, else what of its     *)
(* trailing elements is.                                                    *)
OnlyInB(g, o) ==
  IF Head(g).type \in o.allow THEN <<Inserted(g)>>
  ELSE LET free == Among(Tail(g), {e \in ToSet(g) : e.type \in o.allow})
       IN  [n \in DOMAIN free |-> Inserted(<<free[n]>>)]

(* The operations of one opcode. *)
OperationsOf(c, ga, gb, o) ==
  LET as == SubSeq(ga, c.i1, c.i2 - 1)
      bs == SubSeq(gb, c.j1, c.j2 - 1)
  IN  CASE c.tag = "equal" -> [n \in DOMAIN as |-> AlignedPair(as[n], bs[n], o, TRUE)]
        [] c.tag = "replace" -> Replaced(as, bs, o)
        [] c.tag = "insert" -> FlattenSeq([n \in DOMAIN bs |-> OnlyInB(bs[n], o)])
        [] c.tag = "delete" -> [n \in DOMAIN as |-> Operation("delete_a", as[n], <<>>, <<>>)]

AlignElements(da, db, o) ==
  LET ga == GroupWithTrailing(da, "a")
      gb == GroupWithTrailing(db, "b")
      codes == Opcodes(AlignmentKeys(ga), AlignmentKeys(gb))
  IN  FlattenSeq([c \in DOMAIN codes |-> OperationsOf(codes[c], ga, gb, o)])

(* DocumentPatch.apply: of elements with one id, the first. *)
Resolved(operations) == FlattenSeq([n \in DOMAIN operations |-> operations[n].resolved])

ApplyPatch(operations) ==
  LET all == Resolved(operations)
      first == Among([n \in DOMAIN all |-> n],
                     {n \in DOMAIN all : \A k \in 1 .. (n - 1) : all[k].id # all[n].id})
  IN  [n \in DOMAIN first |-> all[first[n]]]

(* validate_inline_refs. *)
BrokenRefs(elements) ==
  (UNION {elements[n].refs : n \in DOMAIN elements}) \ {elements[n].id : n \in DOMAIN elements}

-----------------------------------------------------------------------------
(* Approach B, on the top-level tags of the two renderings: one per element, *)
(* a raw text excepted.                                                      *)

TagKey(e) == IF e.type = "image" THEN <<"image", e.text>> ELSE <<"text", e.text>>

MultiLevel(elements) ==
  Cardinality({elements[n].level :
                 n \in {k \in DOMAIN elements : elements[k].type = "heading"}}) > 1

BlockAlike(as, bs, o) ==
  LET words(s) == {n \in DOMAIN s : s[n].type # "image"}
  IN  CASE words(as) = {} /\ words(bs) = {} -> TRUE
        [] words(as) = {} /\ words(bs) # {} -> FALSE
        [] words(as) # {} /\ words(bs) = {} -> FALSE
        [] OTHER -> o.block # "far" \/ (Len(as) = 1 /\ Len(bs) = 1)

SelectTag(a, b, o, hierA, hierB) ==
  LET pref == PreferredSide(a.type, o)
      headings == a.type = "heading" /\ b.type = "heading"
      richer == IF b.rich > a.rich THEN b ELSE a
  IN  CASE pref = "a" -> a
        [] pref = "b" -> b
        [] pref = "neither" /\ headings /\ hierA /\ ~hierB -> [richer EXCEPT !.level = a.level]
        [] pref = "neither" /\ headings /\ hierB /\ ~hierA ->
             [(IF a.rich > b.rich THEN a ELSE b) EXCEPT !.level = b.level]
        [] OTHER -> richer

AllowedTags(tags, o) == SelectSeq(tags, LAMBDA t : t.type \in o.allow)

(* merge_documents_html: what one opcode appends to the merged tags. *)
MergeTags(c, as, bs, o, hierA, hierB) ==
  LET each == [n \in DOMAIN as |-> SelectTag(as[n], bs[n], o, hierA, hierB)]
      pref == PreferredSide(as[1].type, o)
  IN  CASE c.tag = "equal" -> each
        [] c.tag = "delete" -> as
        [] c.tag = "insert" -> AllowedTags(bs, o)
        [] c.tag = "replace" /\ ~BlockAlike(as, bs, o) -> AllowedTags(bs, o)
        [] c.tag = "replace" /\ BlockAlike(as, bs, o) /\ Len(as) = Len(bs) -> each
        [] OTHER -> IF pref = "a" \/ (pref = "neither" /\ Rich(bs) < Rich(as)) THEN as ELSE bs

Tags(c, ta, tb, o, hierA, hierB) ==
  MergeTags(c, SubSeq(ta, c.i1, c.i2 - 1), SubSeq(tb, c.j1, c.j2 - 1), o, hierA, hierB)

MergeHtml(da, db, o) ==
  LET codes == Opcodes([n \in DOMAIN da |-> TagKey(da[n])], [n \in DOMAIN db |-> TagKey(db[n])])
  IN  FlattenSeq([c \in DOMAIN codes |->
        Tags(codes[c], da, db, o, MultiLevel(da), MultiLevel(db))])

(* compute_html_patch: the same decisions written again, an operation each. *)
Selected(c, as, bs, o, hierA, hierB) ==
  LET each == [n \in DOMAIN as |-> SelectTag(as[n], bs[n], o, hierA, hierB)]
      richer == IF Rich(bs) >= Rich(as) THEN bs ELSE as
      pref == PreferredSide(as[1].type, o)
  IN  CASE c.tag = "insert" -> AllowedTags(bs, o)
        [] c.tag = "delete" -> as
        [] c.tag = "equal" -> each
        [] c.tag = "replace" ->
             IF BlockAlike(as, bs, o)
             THEN IF Len(as) = Len(bs) THEN each
                  ELSE CASE pref = "a" -> as [] pref = "b" -> bs [] OTHER -> richer
             ELSE AllowedTags(bs, o)

HtmlPatch(da, db, o) ==
  LET codes == Opcodes([n \in DOMAIN da |-> TagKey(da[n])], [n \in DOMAIN db |-> TagKey(db[n])])
  IN  [c \in DOMAIN codes |->
         [opcode |-> codes[c].tag,
          selected |-> Selected(codes[c], SubSeq(da, codes[c].i1, codes[c].i2 - 1),
                                SubSeq(db, codes[c].j1, codes[c].j2 - 1), o,
                                MultiLevel(da), MultiLevel(db))]]

MergeOf(da, db, o) ==
  LET patch == AlignElements(da, db, o)
  IN  [opts |-> o, patch |-> patch, merged |-> ApplyPatch(patch),
       html |-> MergeHtml(da, db, o), htmlPatch |-> HtmlPatch(da, db, o)]

Merge(o) ==
  /\ merging = NotMerged
  /\ merging' = MergeOf(parseA, parseB, o)
  /\ UNCHANGED <<parseA, parseB>>

MergeNext == \/ \E f \in MergeForms : AddToA(f) \/ AddToB(f)
             \/ \E o \in MergeOptions : Merge(o)

MergeSpec == MergeInit /\ [][MergeNext]_mergeVars

-----------------------------------------------------------------------------
Merged == merging # NotMerged

Local(elements, side) ==
  \A g \in ToSet(GroupWithTrailing(elements, side)) :
    /\ g[1].refs \subseteq {g[k].id : k \in DOMAIN g}
    /\ \A n \in 2 .. Len(g) : g[n].refs = {}

(* Where the only references are an anchor's, to its own group (the footnotes  *)
(* and images behind a paragraph), the merged document has no broken           *)
(* reference: a group is taken whole, an anchor never without its trailing     *)
(* elements, by every branch of align_elements.                                *)
LocalRefsTravel ==
  Merged /\ Local(parseA, "a") /\ Local(parseB, "b") => BrokenRefs(merging.merged) = {}

Origin(id) == IF id[1] = "new" THEN id[2] ELSE id

(* What survives of A stands in A's order and once, however blocks were       *)
(* replaced, matched or merged, and the patch itself names nothing twice: the *)
(* deduplication of apply never decides.                                      *)
OrderOfA ==
  Merged =>
    LET origin == [n \in DOMAIN merging.merged |-> Origin(merging.merged[n].id)]
    IN  /\ \A m, n \in DOMAIN origin :
             m < n /\ origin[m][1] = "a" /\ origin[n][1] = "a" => origin[m][2] < origin[n][2]
        /\ merging.merged = Resolved(merging.patch)

LooksOf(elements) ==
  LET real == Among(elements, {e \in ToSet(elements) : e.text # 0})
  IN  [n \in DOMAIN real |-> <<real[n].type, real[n].text, real[n].rich, real[n].level>>]

(* Merging a document with a second parse of the same file that came out the *)
(* same leaves what a reader sees unchanged, under every option: nothing is  *)
(* lost to an alignment or inserted twice, no level moves.                   *)
ReparseIsNeutral ==
  Merged /\ LooksOf(parseA) = LooksOf(parseB) =>
    /\ LooksOf(merging.merged) = LooksOf(parseA)
    /\ LooksOf(merging.html) = LooksOf(parseA)

(* Applying the html patch gives what merge_documents_html gives: the two   *)
(* copies of the selection (html_merge.py, html_patch.py) decide alike.     *)
HtmlPatchIsMerge ==
  Merged => FlattenSeq([n \in DOMAIN merging.htmlPatch |-> merging.htmlPatch[n].selected])
              = merging.html

(* What a merge promises under all its options. *)
MergeIsFaithful == LocalRefsTravel /\ OrderOfA /\ ReparseIsNeutral /\ HtmlPatchIsMerge
=============================================================================
