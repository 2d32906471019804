---------------------------- MODULE EntityQueries ----------------------------
(***************************************************************************)
(* The dates of entities (extraction/dates.py), their union over a cluster  *)
(* (_union_dates in extraction/resolution.py), and the two evaluations of   *)
(* an EntityQuery: in memory (extraction/query.py) and by a filter sent to  *)
(* Qdrant (integrations/entity_stores/qdrant.py).                           *)
(*                                                                          *)
(* A date is the EDTF text an LLM wrote, abstracted to its form and its two *)
(* boundaries, days of 1 .. LastDay.  LastDay is Python's date.max.         *)
(***************************************************************************)
EXTENDS Integers, Sequences, FiniteSets, SequencesExt, FiniteSetsExt

CONSTANTS
  LastDay,   \* date.max
  MaxDates   \* bound: dates in a cluster, entities in a store

ASSUME QueryConstants == LastDay \in Nat \ {0, 1} /\ MaxDates \in Nat

VARIABLE dated  \* the dates of the members of a cluster, or of stored entities

Days == 1 .. LastDay

None == 0  \* an open side, or no limit

-----------------------------------------------------------------------------
(* FuzzyDate. *)

(* What an LLM may write: nothing, a duration, a hyphenated range, or a     *)
(* point or range of EDTF.                                                  *)
Texts ==
  [form : {"none", "duration"}, first : {None}, last : {None}]
    \cup [form : {"hyphen"}, first : Days, last : Days]
    \cup {t \in [form : {"edtf"}, first : Days \cup {None}, last : Days \cup {None}] :
            t.first = None \/ t.last = None \/ t.first <= t.last}

(* _normalise_hyphen_year_range: only an ascending range becomes EDTF. *)
Normalised(t) == IF t.form = "hyphen" /\ t.last > t.first THEN [t EXCEPT !.form = "edtf"] ELSE t

ExclusiveEnd(last) == IF last = None THEN None ELSE IF last >= LastDay THEN LastDay ELSE last + 1

(* The validation fails on what is not EDTF; the LLM is asked again. *)
Accepted(t) == Normalised(t).form # "hyphen"

(* _derive_interval *)
Interval(t) ==
  IF t.form \in {"none", "duration"} THEN [start |-> None, end |-> None]
  ELSE [start |-> t.first, end |-> ExclusiveEnd(t.last)]

Before(a, b) == a # None /\ b # None /\ a <= b

(* overlaps: half-open, an absent bound is unbounded. *)
Overlaps(d, q) == ~Before(d.end, q.start) /\ ~Before(q.end, d.start)

(* _union_dates: from the earliest start to the day before the latest end,  *)
(* written as EDTF and parsed again.                                        *)
UnionDates(ds) ==
  LET starts == {ds[i].start : i \in DOMAIN ds} \ {None}
      ends   == {ds[i].end : i \in DOMAIN ds} \ {None}
  IN  IF starts = {} \/ ends = {} THEN ds[1]
      ELSE Interval([form |-> "edtf", first |-> Min(starts), last |-> Max(ends) - 1])

-----------------------------------------------------------------------------
(* Queries. *)

(* date = <<>> when the query has no date range. *)
Queries ==
  [date : {<<>>} \cup {<<r>> : r \in [start : Days \cup {None}, end : Days \cup {None}]},
   limit : 0 .. 2, limited : BOOLEAN]

(* entity_matches *)
Matches(d, q) == q.date = <<>> \/ Overlaps(d, q.date[1])

(* The dates that are kept, in their order. *)
Those(ds, kept) == SelectSeq(ds, LAMBDA d : d \in kept)

(* filter_entities: a slice of the matching ones. *)
FilterEntities(ds, q) ==
  LET matched == Those(ds, {d \in ToSet(ds) : Matches(d, q)})
  IN  IF q.limited THEN SubSeq(matched, 1, Min({q.limit, Len(matched)})) ELSE matched

(* Mutated: the condition on a bound does not accept an absent key. *)
BoundConditionStrict(stored, range) == stored \in range

(* _bound_condition: in the range, or the key is absent. *)
BoundCondition(stored, range) == stored = None \/ stored \in range

(* The payload holds a key for each bounded side (_entity_to_payload), and  *)
(* the filter a condition for each bounded side of the query.               *)
ServerMatches(d, q) ==
  q.date = <<>> \/
    /\ q.date[1].end = None \/ BoundCondition(d.start, 1 .. q.date[1].end - 1)
    /\ q.date[1].start = None \/ BoundCondition(d.end, q.date[1].start + 1 .. LastDay)

(* The scroll stops after the point that reaches the limit. *)
ServerQuery(ds, q) ==
  LET matched == Those(ds, {d \in ToSet(ds) : ServerMatches(d, q)})
  IN  IF q.limited THEN SubSeq(matched, 1, Min({Max({q.limit, 1}), Len(matched)})) ELSE matched

-----------------------------------------------------------------------------
(* Any dates that pass validation. *)

QueriesInit == dated = <<>>

AddDate ==
  /\ Len(dated) < MaxDates
  /\ \E t \in Texts : Accepted(t) /\ dated' = Append(dated, Interval(Normalised(t)))

QueriesNext == AddDate

QueriesSpec == QueriesInit /\ [][QueriesNext]_dated

Within(day, d) == (d.start = None \/ d.start <= day) /\ (d.end = None \/ day < d.end)

Bounded(d) == d.start # None /\ d.end # None

Dates == {dated[i] : i \in DOMAIN dated}

(* No interval ends before it starts, whatever the text was: LLMs write     *)
(* hyphenated ranges that would otherwise turn into reversed intervals.     *)
NeverReversed == \A d \in Dates : Bounded(d) => d.start <= d.end

(* overlaps says whether some day, before and after the calendar's ends     *)
(* included, is both in the date and in the query.                          *)
OverlapIsCommonDay ==
  \A d \in Dates : \A q \in [start : Days \cup {None}, end : Days \cup {None}] :
    (Bounded(d) => d.start < d.end) /\ (Bounded(q) => q.start < q.end) =>
      (Overlaps(d, q) <=> \E day \in 0 .. LastDay + 1 : Within(day, d) /\ Within(day, q))

(* The date of an entity covers the dates of all its members, when these    *)
(* are bounded, and no day before the first or after the last of them.      *)
UnionIsHull ==
  dated # <<>> /\ (\A d \in Dates : Bounded(d)) =>
    LET u == UnionDates(dated)
    IN  /\ \A day \in Days : (\E d \in Dates : Within(day, d)) => Within(day, u)
        /\ \A day \in Days : Within(day, u) =>
             \E a, b \in Dates : a.start <= day /\ day < b.end

(* "evaluated identically by every store backend" (query.py): the filter    *)
(* sent to Qdrant keeps what the in-memory one keeps, for every limit above *)
(* zero and every half-bounded date or range.                               *)
BackendsAgree ==
  \A q \in Queries : (q.limited /\ q.limit = 0) \/ FilterEntities(dated, q) = ServerQuery(dated, q)

(* The dates an LLM wrote, the dates of merged entities and the two         *)
(* evaluations of a query all speak of the same days.                       *)
DatesMeanDays == NeverReversed /\ OverlapIsCommonDay /\ UnionIsHull /\ BackendsAgree
=============================================================================
