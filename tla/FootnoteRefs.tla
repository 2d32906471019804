----------------------------- MODULE FootnoteRefs -----------------------------
(***************************************************************************)
(* FootnoteProcessor (processing/footnote.py): the number of each footnote   *)
(* is looked for in the text of the document, a resolver picks one place,    *)
(* and when all are picked the numbers are replaced by <ref> tags.           *)
(*                                                                           *)
(* The html of an element is a sequence of symbols: the digits "0" to "9",   *)
(* "a" a lower-case letter, "A" a capital, " " white space, "." a full stop  *)
(* (a closing bracket counts the same), "," other closing punctuation, and a *)
(* ref tag as "<", its mark, ">" for a footnote.  A patch that cuts into     *)
(* an inserted tag leaves its rest as text, as it does in the html.  Texts   *)
(* are shorter than the context window of 50 characters.                     *)
(***************************************************************************)
EXTENDS Integers, Sequences, FiniteSets, SequencesExt

CONSTANTS
  Pages,      \* documents: sequences of [page, html]
  NoteLists,  \* their footnotes: sequences of [page, number], numbers below 100
  Marks,      \* the ids of the footnotes, a symbol each
  Resolvers,  \* subset of {"simple", "llm"}
  SamePage,   \* same_page_only
  MaxRuns     \* bound: runs of process on one document

Digits == {"0", "1", "2", "3", "4", "5", "6", "7", "8", "9"}
Symbols == Digits \cup {"a", "A", " ", ".", ",", "<", ">"} \cup Range(Marks)

ASSUME FootnoteConstants ==
  /\ \A b \in Pages : b \in Seq([page : Nat, html : Seq(Symbols)])
  /\ \A b \in NoteLists : b \in Seq([page : Nat, number : 0 .. 99]) /\ Len(b) <= Len(Marks)
  /\ Marks \in Seq(STRING)
  /\ \A m, n \in DOMAIN Marks : Marks[m] = Marks[n] => m = n
  /\ {"<", ">"} \cap Range(Marks) = {}
  /\ Resolvers \subseteq {"simple", "llm"}
  /\ SamePage \in BOOLEAN
  /\ MaxRuns \in Nat

VARIABLES
  bodies,     \* the document's elements that are no footnotes
  notes,      \* its footnotes
  resolver,
  parallel,   \* concurrency > 1: no ordering constraint
  queue,      \* footnotes still to resolve in this run, by number
  patches,    \* the places found in this run, in the order they were found
  lastAt,     \* element of the last one; 0: none, or not tracked
  runs,       \* runs begun
  resolving   \* a run is under way

footnoteVars == <<bodies, notes, resolver, parallel, queue, patches, lastAt, runs, resolving>>

FootnotesInit ==
  /\ bodies \in Pages /\ notes \in NoteLists
  /\ resolver \in Resolvers /\ parallel \in BOOLEAN
  /\ queue = <<>> /\ patches = <<>> /\ lastAt = 0 /\ runs = 0 /\ resolving = FALSE

-----------------------------------------------------------------------------
(* Text nodes and candidates. *)

RefTag(n) == <<"<", Marks[n], ">">>

InTag(h, p) ==
  \E q \in 1 .. p : h[q] = "<" /\ \A r \in q .. p - 1 : h[r] # ">"

(* _HtmlTextNodeLocator.spans: the runs of text between tags. *)
TextNodes(h) ==
  {s \in (DOMAIN h) \X (DOMAIN h) :
     /\ s[1] <= s[2]
     /\ \A p \in s[1] .. s[2] : ~InTag(h, p)
     /\ s[1] = 1 \/ InTag(h, s[1] - 1)
     /\ s[2] = Len(h) \/ InTag(h, s[2] + 1)}

Numerals == <<"0", "1", "2", "3", "4", "5", "6", "7", "8", "9">>

DigitsOf(number) ==
  IF number < 10 THEN <<Numerals[number + 1]>>
  ELSE <<Numerals[(number \div 10) + 1], Numerals[(number % 10) + 1]>>

(* build_footnote_pattern: the digits, with white space between them, ... *)
ReadsAs(s, digits) ==
  s[1] # " " /\ s[Len(s)] # " " /\ SelectSeq(s, LAMBDA c : c # " ") = digits

(* ... and no other digit behind them. *)
MatchEnds(h, p, last, digits) ==
  {e \in p .. last : ReadsAs(SubSeq(h, p, e), digits) /\ (e < last => h[e + 1] \notin Digits)}

(* finditer: the next match begins behind the one before. *)
FindAll(h, first, last, digits) ==
  LET found[p \in 0 .. last] ==
        IF p < first THEN {}
        ELSE found[p - 1] \cup
               {<<p, e>> : e \in IF \E m \in found[p - 1] : p <= m[2] THEN {}
                                 ELSE MatchEnds(h, p, last, digits)}
  IN found[last]

(* The matches in a text, each with the text node around it. *)
Spots(h, digits) ==
  UNION {{<<s, m>> : m \in FindAll(h, s[1], s[2], digits)} : s \in TextNodes(h)}

(* find_footnote_candidates *)
Candidates(n) ==
  UNION {{[at |-> i, node |-> x[1], from |-> x[2][1], to |-> x[2][2]] :
            x \in Spots(bodies[i].html, DigitsOf(notes[n].number))} :
         i \in {i \in DOMAIN bodies : SamePage => bodies[i].page = notes[n].page}}

-----------------------------------------------------------------------------
(* The resolvers. *)

Letters == {"a", "A"}

(* ^[.)]\s+\S, and with a capital after the white space. *)
ListItem(after) == \E k \in 3 .. Len(after) :
  after[1] = "." /\ after[k] # " " /\ \A j \in 2 .. k - 1 : after[j] = " "
Sentence(after) == \E k \in 3 .. Len(after) :
  after[1] = "." /\ after[k] = "A" /\ \A j \in 2 .. k - 1 : after[j] = " "

(* A capital that begins a word, at most white space after it. *)
Formula(before) == \E k \in DOMAIN before :
  /\ before[k] = "A"
  /\ \A j \in k + 1 .. Len(before) : before[j] = " "
  /\ k > 1 => before[k - 1] \notin Letters \cup Digits

When(condition, points) == IF condition THEN points ELSE 0

(* score_footnote_candidates *)
Score(c, least) ==
  LET h == bodies[c.at].html
      before == SubSeq(h, c.node[1], c.from - 1)
      after == SubSeq(h, c.to + 1, c.node[2])
      Ends(set) == before # <<>> /\ Last(before) \in set
      Only(set) == \A k \in DOMAIN before : before[k] \in set
  IN When(c.at < least, -10) + When(Only({" "}), -5)
     + When(before # <<>> /\ Only(Digits) /\ Sentence(after), -4)
     + When(ListItem(after) /\ ~Ends(Digits), -3)
     + When(Ends(Digits), -2) + When(Formula(before), -3)
     + When(Ends({".", ","}), 4) + When(Ends({"a"}), 2)
     + When(Len(after) < Len(before), 1)

Earlier(c, d) == c.at < d.at \/ (c.at = d.at /\ c.from < d.from)

(* The highest score, then the first in the document. *)
SimpleChoice(cs, least) ==
  IF Cardinality(cs) = 1 THEN cs
  ELSE {c \in cs : \A d \in cs \ {c} :
          \/ Score(c, least) > Score(d, least)
          \/ Score(c, least) = Score(d, least) /\ Earlier(c, d)}

Preferred(cs, least) ==
  LET later == {c \in cs : c.at >= least} IN IF later = {} THEN cs ELSE later

None0 == [at |-> 0, node |-> <<0, 0>>, from |-> 0, to |-> 0]

(* The model may choose any of several, or none; a call that fails is none. *)
Picks(cs, least) ==
  IF cs = {} THEN {None0}
  ELSE IF resolver = "simple" THEN SimpleChoice(cs, least)
  ELSE LET ps == Preferred(cs, least)
       IN IF Cardinality(ps) = 1 THEN ps ELSE ps \cup {None0}

-----------------------------------------------------------------------------
(* process. *)

Intact(h, n, p) == p + 2 <= Len(h) /\ SubSeq(h, p, p + 2) = RefTag(n)

RefsTo(n) ==
  UNION {{<<i, p>> : p \in {p \in DOMAIN bodies[i].html : Intact(bodies[i].html, n, p)}} :
           i \in DOMAIN bodies}

(* Only orphaned footnotes are looked at (only_orphaned). *)
OrphanedNotes(n) == RefsTo(n) = {}

ByNumber(n, m) ==
  \/ notes[n].number < notes[m].number
  \/ notes[n].number = notes[m].number /\ n < m

(* sorted: the members of S, Before holding the pairs that say which of two  *)
(* comes first.                                                              *)
SortedBy(S, Before) ==
  CHOOSE s \in [1 .. Cardinality(S) -> S] :
    Range(s) = S /\ \A j, k \in 1 .. Cardinality(S) : j < k => <<s[j], s[k]>> \in Before

Begin ==
  /\ ~resolving /\ runs < MaxRuns /\ notes # <<>>
  /\ queue' = SortedBy({n \in DOMAIN notes : OrphanedNotes(n)},
                       {nm \in (DOMAIN notes) \X (DOMAIN notes) : ByNumber(nm[1], nm[2])})
  /\ patches' = <<>> /\ lastAt' = 0 /\ runs' = runs + 1 /\ resolving' = TRUE
  /\ UNCHANGED <<bodies, notes, resolver, parallel>>

(* Phase 1: the best place of the next footnote. *)
ResolveFootnote ==
  /\ resolving /\ queue # <<>>
  /\ queue' = Tail(queue)
  /\ \E best \in Picks(Candidates(Head(queue)), lastAt) :
       IF best = None0 THEN UNCHANGED <<patches, lastAt>>
       ELSE /\ patches' = Append(patches, [note |-> Head(queue), at |-> best.at,
                 from |-> best.from, to |-> best.to, least |-> lastAt])
            /\ lastAt' = IF parallel THEN 0 ELSE best.at
  /\ UNCHANGED <<bodies, notes, resolver, parallel, runs, resolving>>

(* Mutated: from left to right. *)
RightToLeftNot(k, l) == patches[k].from < patches[l].from \/ (patches[k].from = patches[l].from /\ k < l)

RightToLeft(k, l) ==
  patches[k].from > patches[l].from \/ (patches[k].from = patches[l].from /\ k < l)

Splice(h, patch) ==
  SubSeq(h, 1, patch.from - 1) \o RefTag(patch.note) \o SubSeq(h, patch.to + 1, Len(h))

(* apply_ref_patches *)
PatchesOf(i) == {k \in DOMAIN patches : patches[k].at = i}

Patched(i) ==
  LET order == SortedBy(PatchesOf(i), {kl \in PatchesOf(i) \X PatchesOf(i) : RightToLeft(kl[1], kl[2])})
      spliced[j \in 0 .. Len(order)] ==
        IF j = 0 THEN bodies[i].html ELSE Splice(spliced[j - 1], patches[order[j]])
  IN spliced[Len(order)]

(* Phase 2. *)
ApplyPatches ==
  /\ resolving /\ queue = <<>>
  /\ bodies' = [i \in DOMAIN bodies |-> [bodies[i] EXCEPT !.html = Patched(i)]]
  /\ resolving' = FALSE
  /\ UNCHANGED <<notes, resolver, parallel, queue, patches, lastAt, runs>>

FootnotesNext == Begin \/ ResolveFootnote \/ ApplyPatches

FootnotesSpec == FootnotesInit /\ [][FootnotesNext]_footnoteVars

-----------------------------------------------------------------------------
(* Properties. *)

Clash(k, l) ==
  /\ k # l /\ patches[k].at = patches[l].at
  /\ patches[k].from <= patches[l].to /\ patches[l].from <= patches[k].to

(* What an element should become: each place a tag, all else as it was. *)
Intended(i) ==
  LET here == PatchesOf(i)
      h == bodies[i].html
  IN FlattenSeq([p \in DOMAIN h |->
       IF \E k \in here : patches[k].from = p
       THEN RefTag(patches[CHOOSE k \in here : patches[k].from = p].note)
       ELSE IF \E k \in here : p \in patches[k].from .. patches[k].to THEN <<>> ELSE <<h[p]>>])

(* The places found in one element are all replaced, and nothing else       *)
(* changes, however many there are and in whatever order they were found,   *)
(* as long as no two of them overlap ("without offset drift").              *)
NoDrift ==
  [][ApplyPatches => \A i \in DOMAIN bodies :
       \/ \E k, l \in DOMAIN patches : patches[k].at = i /\ Clash(k, l)
       \/ bodies'[i].html = Intended(i)]_footnoteVars

(* However often a document is processed, no footnote gets a second ref,     *)
(* whatever refs the document came with.                                     *)
AtMostOne(n) == \A x, y \in RefsTo(n) : x = y

OneRefEach == [][\A n \in DOMAIN notes : AtMostOne(n) => AtMostOne(n)']_footnoteVars

(* The model is asked for a place before that of the footnote before only   *)
(* when there is no other.                                                  *)
InOrder ==
  resolving /\ resolver = "llm" => \A k \in DOMAIN patches :
    \/ patches[k].at >= patches[k].least
    \/ \A c \in Candidates(patches[k].note) : c.at < patches[k].least

(* A run by rules alone leaves nothing to find: what is still without a ref  *)
(* has no number anywhere but right before a ref, where the run took away    *)
(* the digit behind it - unless places overlapped and a ref was cut into.    *)
Freed(c) ==
  LET h == bodies[c.at].html IN c.to < Len(h) /\ h[c.to + 1] = "<"

NothingLeftToFind ==
  [][ApplyPatches /\ resolver = "simple" /\ (\A k, l \in DOMAIN patches : ~Clash(k, l)) =>
       \A n \in DOMAIN notes : OrphanedNotes(n)' => \A c \in Candidates(n)' : Freed(c)']_footnoteVars

(* The refs of footnotes are put where they were found, once and in order. *)
RefsAreExact == []InOrder /\ OneRefEach /\ NoDrift /\ NothingLeftToFind
=============================================================================
