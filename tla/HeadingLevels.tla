---------------------------- MODULE HeadingLevels ----------------------------
(***************************************************************************)
(* The heading processors (processing/heading.py, heading_llm.py), which a   *)
(* pipeline runs over a document in any order: HeadingLevelProcessor,        *)
(* TitleDetectionProcessor, LLMHeadingResolver and                           *)
(* HeadingNormalizationProcessor.  Each changes elements and title in place. *)
(*                                                                           *)
(* An element knows its name, its level (0: no heading) and what its html    *)
(* shows: the font size in tenths of points (0: none), whether it is         *)
(* centered, in capitals or bold, whether its text can be a title, its page. *)
(***************************************************************************)
EXTENDS Integers, Sequences, FiniteSets, SequencesExt, FiniteSetsExt

CONSTANTS
  Looks,          \* the elements a document may have, without their names
  MaxHeads,       \* bound: elements of a document
  MaxLevels,      \* max_heading_levels
  MaxTitlePage,
  Options,        \* [title, before, shift]: what is removed, whether levels move up
  BatchSize,      \* headings in one question to the model
  MaxPasses       \* bound: processors run on a document

ASSUME HeadingConstants ==
  /\ Looks \subseteq [level : 0 .. 6, size : Nat, page : Nat, caps : BOOLEAN,
                      centered : BOOLEAN, bold : BOOLEAN, worthy : BOOLEAN]
  /\ Options \subseteq [title : BOOLEAN, before : BOOLEAN, shift : BOOLEAN]
  /\ MaxLevels \in 1 .. 6
  /\ {MaxHeads, MaxTitlePage, BatchSize, MaxPasses} \subseteq Nat /\ BatchSize > 0

VARIABLES
  outline,   \* document.elements
  titled,    \* the name of the element document.title was taken from; 0: no title
  trusted,   \* the parser's levels are trusted (html, pandoc)
  options,   \* what the title processors remove
  passes     \* processors run

headingVars == <<outline, titled, trusted, options, passes>>

(* An element is named after its place in the parsed document. *)
ParsedAs(n, l) ==
  [name |-> n, level |-> l.level, size |-> l.size, page |-> l.page, caps |-> l.caps,
   centered |-> l.centered, bold |-> l.bold, worthy |-> l.worthy]

(* A parser may have set a title of its own; 99 stands for that. *)
HeadingsInit ==
  /\ \E count \in 0 .. MaxHeads : \E looks \in [1 .. count -> Looks] :
       outline = [n \in 1 .. count |-> ParsedAs(n, looks[n])]
  /\ titled \in {0, 99}
  /\ trusted \in BOOLEAN
  /\ options \in Options
  /\ passes = 0

HeadIndices == {n \in DOMAIN outline : outline[n].level > 0}

-----------------------------------------------------------------------------
(* HeadingLevelProcessor *)

Factor(condition, hundredths) == IF condition THEN hundredths ELSE 100

(* effective_size, rounded to tenths; 0: no font size. *)
EffectiveSize(e) ==
  (e.size * Factor(e.caps, 120) * Factor(e.centered, 120) * Factor(e.bold, 110) + 500000)
    \div 1000000

Sizes == {EffectiveSize(outline[n]) : n \in HeadIndices} \ {0}

Rank(size) == Cardinality({s \in Sizes : s > size})

(* compute_size_to_level_mapping *)
LevelOfSize(size) ==
  IF Cardinality(Sizes) <= MaxLevels THEN Rank(size) + 1
  ELSE Min({(Rank(size) * MaxLevels) \div Cardinality(Sizes) + 1, MaxLevels})

LevelsBySize ==
  [n \in DOMAIN outline |->
     IF n \in HeadIndices /\ EffectiveSize(outline[n]) # 0
     THEN [outline[n] EXCEPT !.level = LevelOfSize(EffectiveSize(outline[n]))]
     ELSE outline[n]]

Pass == passes < MaxPasses /\ passes' = passes + 1

RefineLevels ==
  /\ Pass
  /\ outline' = IF trusted THEN outline ELSE LevelsBySize
  /\ UNCHANGED <<titled, trusted, options>>

-----------------------------------------------------------------------------
(* TitleDetectionProcessor *)

TitleCandidates ==
  {n \in DOMAIN outline :
     /\ outline[n].level = 1
     /\ outline[n].page <= MaxTitlePage
     /\ outline[n].worthy}

(* By font size, then centered, then the first. *)
Outranks(n, m) ==
  LET c(k) == IF outline[k].centered THEN 1 ELSE 0
  IN \/ outline[n].size > outline[m].size
     \/ outline[n].size = outline[m].size /\ c(n) > c(m)
     \/ outline[n].size = outline[m].size /\ c(n) = c(m) /\ n < m

(* Mutated: the title's place is not corrected for what was removed before. *)
WithoutTitleShifted(best) ==
  LET kept == IF options.before THEN SubSeq(outline, best, Len(outline)) ELSE outline
  IN IF options.title THEN RemoveAt(kept, Min({best, Len(kept)})) ELSE kept

WithoutTitle(best) ==
  SubSeq(outline, IF options.before THEN best ELSE 1, best - 1)
    \o (IF options.title THEN <<>> ELSE <<outline[best]>>)
    \o SubSeq(outline, best + 1, Len(outline))

LevelsOf(es) == {es[n].level : n \in DOMAIN es} \ {0}

(* _recalculate_heading_levels: up by what the highest lacks to level 1. *)
Recalculated(es) ==
  IF LevelsOf(es) = {} THEN es
  ELSE [n \in DOMAIN es |->
         IF es[n].level = 0 THEN es[n]
         ELSE [es[n] EXCEPT !.level = Max({1, @ - (Min(LevelsOf(es)) - 1)})]]

DetectTitle ==
  /\ Pass
  /\ IF titled # 0 \/ TitleCandidates = {}
     THEN UNCHANGED <<outline, titled>>
     ELSE LET best == CHOOSE n \in TitleCandidates :
                        \A m \in TitleCandidates \ {n} : Outranks(n, m)
          IN /\ titled' = outline[best].name
             /\ outline' = IF options.title /\ options.shift
                           THEN Recalculated(WithoutTitle(best))
                           ELSE WithoutTitle(best)
  /\ UNCHANGED <<trusted, options>>

-----------------------------------------------------------------------------
(* LLMHeadingResolver *)

VerdictKinds == {[what |-> "title", level |-> 0], [what |-> "none", level |-> 0],
                 [what |-> "unsure", level |-> 0], [what |-> "level", level |-> 3]}

(* The headings before n in the document. *)
Before(n) == Cardinality({m \in HeadIndices : m < n})

BatchOf(n) == Before(n) \div BatchSize

(* The first heading judged a title, if the document has none. *)
ChosenTitle(verdict) ==
  LET named == {n \in HeadIndices : verdict[n].what = "title"}
  IN IF titled # 0 \/ named = {} THEN 0 ELSE Min(named)

(* A heading that is none becomes a paragraph, with a new id and no page. *)
Judged(e, v) ==
  IF v.what = "none" THEN [e EXCEPT !.level = 0, !.page = 0]
  ELSE IF v.what = "level" THEN [e EXCEPT !.level = v.level]
  ELSE e

(* _apply_levels *)
Applied(verdict) ==
  [n \in DOMAIN outline |-> IF n \in HeadIndices THEN Judged(outline[n], verdict[n]) ELSE outline[n]]

AfterModel(verdict) ==
  LET es == Applied(verdict)
      t == ChosenTitle(verdict)
  IN IF t = 0 THEN es
     ELSE SubSeq(es, IF options.before THEN t ELSE 1, t - 1)
            \o (IF options.title THEN <<>> ELSE <<es[t]>>)
            \o SubSeq(es, t + 1, Len(es))

(* A batch whose call fails judges nothing; headings may be passed over. *)
ResolveLevels ==
  /\ Pass
  /\ \E failed \in SUBSET {BatchOf(n) : n \in HeadIndices}, verdict \in [HeadIndices -> VerdictKinds] :
       /\ \A n \in HeadIndices : BatchOf(n) \in failed => verdict[n].what = "unsure"
       /\ outline' = AfterModel(verdict)
       /\ titled' = IF ChosenTitle(verdict) = 0 THEN titled ELSE outline[ChosenTitle(verdict)].name
  /\ UNCHANGED <<trusted, options>>

-----------------------------------------------------------------------------
(* HeadingNormalizationProcessor *)

Compact(level) == Cardinality({l \in LevelsOf(outline) : l <= level})

Normalize ==
  /\ Pass
  /\ outline' = [n \in DOMAIN outline |->
                  IF outline[n].level = 0 THEN outline[n]
                  ELSE [outline[n] EXCEPT !.level = Compact(@)]]
  /\ UNCHANGED <<titled, trusted, options>>

HeadingsNext == RefineLevels \/ DetectTitle \/ ResolveLevels \/ Normalize

HeadingsSpec == HeadingsInit /\ [][HeadingsNext]_headingVars

-----------------------------------------------------------------------------
(* Properties. *)

NamesOf(es) == [n \in DOMAIN es |-> es[n].name]

(* The level an element has after a step; 0: it is gone, or no heading. *)
LevelNow(e) ==
  LET at == {n \in DOMAIN outline' : outline'[n].name = e.name}
  IN IF at = {} THEN 0 ELSE outline'[CHOOSE n \in at : TRUE].level

(* The larger of two sizes never gets the deeper level, equal sizes get one, *)
(* and different sizes are told apart as long as there are levels enough.    *)
SizesDecide ==
  [][RefineLevels /\ ~trusted => \A n, m \in HeadIndices :
       LET big == EffectiveSize(outline[n])  small == EffectiveSize(outline[m])
       IN big >= small /\ small > 0 =>
            /\ LevelNow(outline[n]) <= LevelNow(outline[m])
            /\ LevelNow(outline[m]) \in 1 .. MaxLevels
            /\ big = small => LevelNow(outline[n]) = LevelNow(outline[m])
            /\ big > small /\ Cardinality(Sizes) <= MaxLevels =>
                 LevelNow(outline[n]) < LevelNow(outline[m])]_headingVars

(* Once there is a title, whoever set it, no processor replaces it or takes *)
(* an element out of the document: runs can be repeated.                    *)
TitleIsFinal ==
  [][titled # 0 => titled' = titled /\ NamesOf(outline') = NamesOf(outline)]_headingVars

(* The step that finds the title takes out what it was told to take out, the *)
(* title and the elements before it, and nothing else; what is left stays in *)
(* the order of the document.                                                *)
OnlyTitleRemoved ==
  [][titled = 0 =>
       /\ \A n, m \in DOMAIN outline' : n < m => outline'[n].name < outline'[m].name
       /\ {outline'[n].name : n \in DOMAIN outline'} =
            {outline[n].name : n \in {k \in DOMAIN outline :
               \/ titled' = 0
               \/ IF outline[k].name = titled' THEN ~options.title
                  ELSE outline[k].name > titled' \/ ~options.before}}]_headingVars

(* Taking the title out and compacting keep which heading is below which;   *)
(* the compact levels have no gap, and some heading is at level 1.          *)
HierarchyKept ==
  [][DetectTitle \/ Normalize =>
       /\ \A n, m \in HeadIndices :
            LevelNow(outline[n]) # 0 /\ LevelNow(outline[m]) # 0 =>
              (outline[n].level < outline[m].level <=> LevelNow(outline[n]) < LevelNow(outline[m]))
       /\ Normalize => LevelsOf(outline') = 1 .. Cardinality(LevelsOf(outline))
       /\ DetectTitle /\ titled # titled' /\ options.title /\ options.shift =>
            LevelsOf(outline') = {} \/ 1 \in LevelsOf(outline')]_headingVars

(* The processors in any order, on any document: the outline they leave is  *)
(* that of the document.                                                    *)
OutlineKept == SizesDecide /\ TitleIsFinal /\ OnlyTitleRemoved /\ HierarchyKept
=============================================================================
