----------------------------- MODULE HalvedCalls -----------------------------
(***************************************************************************)
(* One extraction of a knowledge graph from a text: the structured LLM call *)
(* under the library's retry policy (llm.py), and the halving of the text   *)
(* when a call fails because of its size (extraction/kg.py).                *)
(*                                                                          *)
(* The calls form a binary tree: a path of 1 and 2 names the half of the    *)
(* half, and so on, that a call sends.  A text is a sequence of characters; *)
(* 0 is a newline, the others are told apart by their number.               *)
(***************************************************************************)
EXTENDS Naturals, Sequences, SequencesExt, FiniteSetsExt, SequenceOps

CONSTANTS
  HalvableTexts,  \* texts to start from
  MaxAttempts,    \* settings.max_retries + 1
  MaxHalvings,    \* settings.halving_max_depth
  MinChars        \* settings.halving_min_chars

ASSUME HalvingConstants ==
  /\ \A t \in HalvableTexts : t \in Seq(Nat)
  /\ MaxAttempts \in Nat \ {0}
  /\ MaxHalvings \in Nat /\ MinChars \in Nat

VARIABLE calls  \* the calls made so far, by path

-----------------------------------------------------------------------------
(* The failures of a call, by what the policies tell apart. *)

(* _classify: 429 and 5xx and connection errors, a timeout among them. *)
Retryable == {"transport", "timeout"}

(* is_size_related_failure: also truncated or malformed output, and a       *)
(* context-length error; a timeout reaches it when the attempts are spent.  *)
SizeRelated == {"timeout", "size"}

(* "other": 401 and the like, refusals (no parsed message), bugs. *)
Failures == Retryable \cup SizeRelated \cup {"other"}

-----------------------------------------------------------------------------
(* _halve_text. *)

Blank(t) == \A i \in DOMAIN t : t[i] = 0

Inked(t) == {i \in DOMAIN t : t[i] # 0}

LStrip(t) == IF Blank(t) THEN <<>> ELSE SubSeq(t, Min(Inked(t)), Len(t))

RStrip(t) == IF Blank(t) THEN <<>> ELSE SubSeq(t, 1, Max(Inked(t)))

(* Offsets at which n newlines begin. *)
Newlines(t, n) == {i \in 0 .. Len(t) - n : \A k \in 1 .. n : t[i + k] = 0}

(* The closest of them to the middle, the earlier one of two; one that lies *)
(* across the middle is found by neither search.                            *)
Boundaries(t, n) ==
  LET middle == Len(t) \div 2
      before == {i \in Newlines(t, n) : i + n <= middle}
      after  == {i \in Newlines(t, n) : i >= middle}
  IN  IF before = {} THEN (IF after = {} THEN {} ELSE {Min(after)})
      ELSE IF after = {} THEN {Max(before)}
      ELSE IF middle - Max(before) <= Min(after) - middle THEN {Max(before)} ELSE {Min(after)}

CutAt(t, i) == <<SubSeq(t, 1, i), SubSeq(t, i + 1, Len(t))>>

HalveText(t) ==
  LET b == IF Boundaries(t, 2) # {} THEN Boundaries(t, 2) ELSE Boundaries(t, 1)
  IN  IF b = {} THEN CutAt(t, Len(t) \div 2)
      ELSE LET cut == CutAt(t, Min(b)) IN <<RStrip(cut[1]), LStrip(cut[2])>>

-----------------------------------------------------------------------------
(* The calls. *)

(* failure is what the call raised. *)
NewCall(text) == [text |-> text, attempt |-> 1, state |-> "calling", failure |-> "none"]

CallsInit == \E t \in HalvableTexts : calls = [p \in {<<>>} |-> NewCall(t)]

CallOver(c) == c.state \in {"answered", "raised"}

Answer(p) ==
  /\ calls[p].state = "calling"
  /\ calls' = [calls EXCEPT ![p].state = "answered"]

MayRetry(c) == c.attempt < MaxAttempts

(* retry_llm: after a retryable failure, another attempt when a delay is over. *)
BackOff(p) ==
  /\ calls[p].state = "calling"
  /\ MayRetry(calls[p])
  /\ calls' = [calls EXCEPT ![p].state = "sleeping"]

WakeUp(p) ==
  /\ calls[p].state = "sleeping"
  /\ calls' = [calls EXCEPT ![p].state = "calling", ![p].attempt = @ + 1]

(* The failures that leave retry_llm. *)
FinalFailures(c) == {f \in Failures : f \in Retryable => c.attempt = MaxAttempts}

Halvable(p, f) ==
  LET halves == HalveText(calls[p].text)
  IN  /\ f \in SizeRelated
      /\ Len(p) < MaxHalvings
      /\ Len(calls[p].text) > MinChars
      /\ ~Blank(halves[1]) /\ ~Blank(halves[2])

GiveUp(p) ==
  /\ calls[p].state = "calling"
  /\ \E f \in FinalFailures(calls[p]) :
       /\ ~Halvable(p, f)
       /\ calls' = [calls EXCEPT ![p].state = "raised", ![p].failure = f]

Halve(p) ==
  /\ calls[p].state = "calling"
  /\ \E f \in FinalFailures(calls[p]) :
       /\ Halvable(p, f)
       /\ LET halves == HalveText(calls[p].text)
          IN  calls' = [q \in DOMAIN calls \cup {Append(p, k) : k \in {1, 2}} |->
                         IF q = p THEN [calls[p] EXCEPT !.state = "halved"]
                         ELSE IF q \in DOMAIN calls THEN calls[q]
                         ELSE NewCall(halves[Last(q)])]

HasHalves(p) == Append(p, 1) \in DOMAIN calls

Half(p, k) == calls[Append(p, k)]

(* Mutated: without return_exceptions the first failure is raised at once. *)
HalvesOverAny(p) == (\A k \in {1, 2} : CallOver(Half(p, k))) \/ \E k \in {1, 2} : Half(p, k).state = "raised"

(* gather(return_exceptions=True) waits for both halves. *)
HalvesOver(p) == \A k \in {1, 2} : CallOver(Half(p, k))

FailingHalf(p) == IF Half(p, 1).state = "raised" THEN 1 ELSE 2

(* The batches are merged, or the first failing half is raised. *)
Join(p) ==
  /\ calls[p].state = "halved"
  /\ HalvesOver(p)
  /\ \/ /\ \A k \in {1, 2} : Half(p, k).state = "answered"
        /\ calls' = [calls EXCEPT ![p].state = "answered"]
     \/ /\ \E k \in {1, 2} : Half(p, k).state = "raised"
        /\ calls' = [calls EXCEPT ![p].state = "raised",
                                  ![p].failure = Half(p, FailingHalf(p)).failure]

CallsNext ==
  \E p \in DOMAIN calls :
    Answer(p) \/ BackOff(p) \/ WakeUp(p) \/ GiveUp(p) \/ Halve(p) \/ Join(p)

CallsSpec == CallsInit /\ [][CallsNext]_calls

-----------------------------------------------------------------------------
(* Properties. *)

(* The texts of the answered calls below a path, in order. *)
AnsweredText ==
  LET read[n \in 0 .. MaxHalvings] ==
        [p \in DOMAIN calls |->
           IF n > 0 /\ HasHalves(p) THEN read[n - 1][Append(p, 1)] \o read[n - 1][Append(p, 2)]
           ELSE IF calls[p].state = "answered" THEN calls[p].text ELSE <<>>]
  IN  read[MaxHalvings]

Characters(t) == Among(t, Nat \ {0})

(* An extraction that returns has read every character of the text, in      *)
(* order, in calls that were answered, however it was halved.               *)
NothingUnread ==
  calls[<<>>].state = "answered" =>
    Characters(AnsweredText[<<>>]) = Characters(calls[<<>>].text)

(* When a call is over no call of its halves is still running: a failing    *)
(* half never leaves its sibling behind.                                    *)
NoCallLeftBehind ==
  \A p, q \in DOMAIN calls : IsPrefix(p, q) /\ CallOver(calls[p]) => CallOver(calls[q])

(* The requests sent for a call and for its halves. *)
Requests ==
  LET sent[n \in 0 .. MaxHalvings] ==
        [p \in DOMAIN calls |->
           IF n > 0 /\ HasHalves(p)
           THEN calls[p].attempt + sent[n - 1][Append(p, 1)] + sent[n - 1][Append(p, 2)]
           ELSE calls[p].attempt]
  IN  sent[MaxHalvings]

TreeSize ==
  LET size[n \in 0 .. MaxHalvings] == IF n = 0 THEN 1 ELSE 1 + 2 * size[n - 1]
  IN  size[MaxHalvings]

(* The requests sent for one text, retries of every half included, are      *)
(* bounded by the settings, not by the length of the text.                  *)
RequestsBounded ==
  Requests[<<>>] <= MaxAttempts * TreeSize

(* What an extraction raises is a failure of the left-most call that failed: *)
(* "the first failing half propagates", whichever failed first in time.      *)
FirstHalfFails ==
  calls[<<>>].state = "raised" =>
    \E p \in DOMAIN calls :
      /\ calls[p].state = "raised" /\ ~HasHalves(p)
      /\ calls[p].failure = calls[<<>>].failure
      /\ \A q \in DOMAIN calls :
           ~HasHalves(q) /\ calls[q].state = "raised" =>
             q = p \/ \E k \in DOMAIN p : k \in DOMAIN q /\ p[k] < q[k]
                                        /\ \A j \in 1 .. k - 1 : p[j] = q[j]

(* An extraction in halves is as good as one call: nothing of the text is   *)
(* left out, nothing outlives it, it costs a bounded number of requests and *)
(* raises what its first failing part raised.                               *)
HalvingIsOneCall == NothingUnread /\ NoCallLeftBehind /\ RequestsBounded /\ FirstHalfFails
=============================================================================
