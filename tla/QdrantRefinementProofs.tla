----------------------- MODULE QdrantRefinementProofs -----------------------
(* Proofs that the Qdrant write protocol, run by one writer at a time, keeps *)
(* the contract of SourceStore, for every instance of the constants.         *)
EXTENDS QdrantRefinement, TLAPS

-----------------------------------------------------------------------------
(* What the requests do to the content of a source. *)

LEMMA ProductionForm ==
  ASSUME NEW p \in Productions
  PROVE  /\ p.tok \in Tokens
         /\ DOMAIN p.chunk \subseteq Ids
         /\ \A i \in DOMAIN p.chunk : p.chunk[i] \in Bodies
         /\ p.chunk = [i \in DOMAIN p.chunk |-> p.chunk[i]]
         /\ p = [tok |-> p.tok, chunk |-> p.chunk]
<1>1. p \in Production
  BY ConstantsOK
<1>2. /\ p.tok \in Tokens
      /\ p.chunk \in UNION {[ids -> Bodies] : ids \in SUBSET Ids}
      /\ p = [tok |-> p.tok, chunk |-> p.chunk]
  BY <1>1 DEF Production
<1>3. PICK ids \in SUBSET Ids : p.chunk \in [ids -> Bodies]
  BY <1>2
<1>4. QED
  BY <1>2, <1>3

LEMMA ChunkFacts ==
  ASSUME NEW p \in Productions
  PROVE  /\ p.tok \in Tokens
         /\ p.tok # Blank
         /\ DOMAIN p.chunk \subseteq Ids
         /\ \A i \in DOMAIN p.chunk : p.chunk[i] \in Bodies
BY ProductionForm, ConstantsOK

LEMMA PointNotAbsent ==
  ASSUME NEW t \in Tokens \cup {Blank}, NEW x \in Bodies
  PROVE  /\ [tok |-> t, body |-> x] \in Point
         /\ [tok |-> t, body |-> x] # Absent
BY ConstantsOK DEF Point

LEMMA UpsertType ==
  ASSUME NEW c \in Content, NEW p \in Productions,
         NEW ids \in SUBSET DOMAIN p.chunk, NEW t \in Tokens \cup {Blank}
  PROVE  /\ Upsert(c, p, ids, t) \in Content
         /\ Present(Upsert(c, p, ids, t)) = Present(c) \cup ids
BY ChunkFacts, PointNotAbsent DEF Upsert, Content, Present

LEMMA RemoveType ==
  ASSUME NEW c \in Content, NEW ids
  PROVE  /\ Remove(c, ids) \in Content
         /\ Present(Remove(c, ids)) = Present(c) \ ids
BY DEF Remove, Content, Present

LEMMA EmptyType == Empty \in Content /\ Present(Empty) = {}
BY DEF Empty, Content, Present

LEMMA StampType ==
  ASSUME NEW c \in Content, NEW ids, NEW t \in Tokens \cup {Blank}
  PROVE  Stamp(c, ids, t) \in Content
BY ConstantsOK DEF Stamp, Content, Point

LEMMA SourceStateType ==
  ASSUME NEW c \in Content
  PROVE  /\ SourceState(c) \in Tokens \cup {Blank, Unknown}
         /\ SourceState(c) = Unknown => c = Empty
         /\ (Present(c) = {} \/ \E t \in Tokens : Uniform(c, t)) => SourceState(c) # Blank
<1>1. Present(c) = {} => c = Empty
  BY DEF Present, Content, Empty
<1>2. (\E t \in Tokens : Uniform(c, t)) => (CHOOSE t \in Tokens : Uniform(c, t)) \in Tokens
  OBVIOUS
<1>3. QED
  BY <1>1, <1>2, ConstantsOK DEF SourceState

LEMMA BatchFacts ==
  ASSUME NEW left \in SUBSET Ids, NEW b \in Batches(left)
  PROVE  b \subseteq left /\ b # {}
BY DEF Batches

(* Two requests of a write in a row. *)
LEMMA UpsertTwice ==
  ASSUME NEW c, NEW p, NEW b1, NEW b2, NEW t
  PROVE  Upsert(Upsert(c, p, b1, t), p, b2, t) = Upsert(c, p, b1 \cup b2, t)
BY DEF Upsert

LEMMA UpsertNothing ==
  ASSUME NEW c \in Content, NEW p, NEW t
  PROVE  Upsert(c, p, {}, t) = c
BY DEF Upsert, Content

LEMMA StaleAfterUpsert ==
  ASSUME NEW c, NEW p, NEW ids \in SUBSET Ids, NEW t
  PROVE  Remove(Upsert(c, p, ids, t), Ids \ ids) = Upsert(Empty, p, ids, t)
BY DEF Remove, Upsert, Empty

LEMMA StampAfterUpsert ==
  ASSUME NEW p \in Productions
  PROVE  Stamp(Upsert(Empty, p, DOMAIN p.chunk, Blank), DOMAIN p.chunk, p.tok)
           = Upsert(Empty, p, DOMAIN p.chunk, p.tok)
BY ChunkFacts, PointNotAbsent DEF Stamp, Upsert, Empty

-----------------------------------------------------------------------------
(* Which contents are sound. *)

LEMMA SoundEmpty == Sound(Empty)
BY EmptyType DEF Sound, Uniform

LEMMA BlankNotUniform ==
  ASSUME NEW c \in Content, NEW p \in Productions,
         NEW ids \in SUBSET DOMAIN p.chunk, ids # {}
  PROVE  \A t \in Tokens : ~Uniform(Upsert(c, p, ids, Blank), t)
<1>1. PICK i \in ids : TRUE
  OBVIOUS
<1>2. Present(Upsert(c, p, ids, Blank)) = Present(c) \cup ids
  BY UpsertType
<1>3. Upsert(c, p, ids, Blank)[i].tok = Blank
  BY <1>1, ChunkFacts DEF Upsert
<1>4. QED
  BY <1>1, <1>2, <1>3, ConstantsOK DEF Uniform

LEMMA SoundBlank ==
  ASSUME NEW c \in Content, Sound(c), NEW p \in Productions,
         NEW ids \in SUBSET DOMAIN p.chunk
  PROVE  Sound(Upsert(c, p, ids, Blank))
<1>1. CASE ids = {}
  BY <1>1, UpsertNothing
<1>2. CASE ids # {}
  BY <1>2, BlankNotUniform DEF Sound
<1>3. QED
  BY <1>1, <1>2

LEMMA BlankWrite ==
  ASSUME NEW c \in Content, Sound(c), NEW p \in Productions,
         NEW ids, ids \subseteq DOMAIN p.chunk
  PROVE  /\ Upsert(c, p, ids, Blank) \in Content
         /\ Sound(Upsert(c, p, ids, Blank))
<1>1. ids \in SUBSET DOMAIN p.chunk /\ Blank \in Tokens \cup {Blank}
  OBVIOUS
<1>2. QED
  BY <1>1, UpsertType, SoundBlank

LEMMA CompleteFacts ==
  ASSUME NEW p \in Productions, DOMAIN p.chunk # {},
         NEW c, Present(c) = DOMAIN p.chunk,
         \A i \in DOMAIN p.chunk : c[i].tok = p.tok /\ c[i].body = p.chunk[i]
  PROVE  /\ Uniform(c, p.tok)
         /\ Complete(c, p)
         /\ \A t \in Tokens : Uniform(c, t) => t = p.tok
<1>1. \A i \in Present(c) : c[i].tok = p.tok /\ c[i].body = p.chunk[i]
  OBVIOUS
<1>2. PICK i \in Present(c) : TRUE
  OBVIOUS
<1>3. QED
  BY <1>1, <1>2 DEF Uniform, Complete

LEMMA StampedFacts ==
  ASSUME NEW p \in Productions, DOMAIN p.chunk # {},
         NEW c, c = Upsert(Empty, p, DOMAIN p.chunk, p.tok)
  PROVE  /\ c \in Content
         /\ Uniform(c, p.tok)
         /\ Complete(c, p)
         /\ \A t \in Tokens : Uniform(c, t) => t = p.tok
         /\ Sound(c)
         /\ SourceState(c) # Blank
<1>1. Present(c) = DOMAIN p.chunk
  BY ChunkFacts, PointNotAbsent DEF Upsert, Empty, Present
<1>2. \A i \in DOMAIN p.chunk : c[i].tok = p.tok /\ c[i].body = p.chunk[i]
  BY ChunkFacts DEF Upsert
<1>3. c \in Content
  BY ChunkFacts, PointNotAbsent DEF Upsert, Empty, Content
<1>4. Uniform(c, p.tok) /\ Complete(c, p) /\ \A t \in Tokens : Uniform(c, t) => t = p.tok
  BY <1>1, <1>2, CompleteFacts
<1>5. Sound(c)
  BY <1>4 DEF Sound
<1>6. SourceState(c) # Blank
  BY <1>3, <1>4, ChunkFacts, SourceStateType
<1>7. QED
  BY <1>3, <1>4, <1>5, <1>6

-----------------------------------------------------------------------------
(* The invariant, one lemma per kind of step. *)

(* What the invariant says of a call in progress. *)
LEMMA CallFacts ==
  ASSUME NEW w \in Writers, IInv, InCall(w)
  PROVE  /\ CallOK(w) /\ PreOK(w) /\ WrittenOK(w)
         /\ Src(w) \in Sources
         /\ points[Src(w)] \in Content
         /\ Sound(points[Src(w)])
         /\ call[w] \in Call
         /\ call[w].old \in Content
         /\ Sound(call[w].old)
         /\ call[w].left \subseteq Ids
         /\ call[w].sent \subseteq DOMAIN Chunk(w)
         /\ status[w][Src(w)] = "writing"
<1>1. CallOK(w) /\ PreOK(w) /\ WrittenOK(w) /\ Sound(call[w].old)
  BY DEF IInv
<1>2. call[w] \in Call
  BY <1>1 DEF CallOK
<1>3. Src(w) \in Sources
  BY <1>2 DEF Call, Src
<1>4. points[Src(w)] \in Content /\ Sound(points[Src(w)])
  BY <1>3 DEF IInv, TypeOK
<1>5. call[w].left \subseteq Ids /\ call[w].old \in Content
  BY <1>2 DEF Call
<1>6. call[w].sent \subseteq DOMAIN Chunk(w) /\ status[w][Src(w)] = "writing"
  BY <1>1 DEF CallOK
<1>7. QED
  BY <1>1, <1>2, <1>3, <1>4, <1>5, <1>6

(* Whatever becomes of the request in flight, the source stays sound. *)
LEMMA BatchSound ==
  ASSUME NEW w \in Writers, IInv, pc[w] = "batch",
         NEW b \in Batches(call[w].left)
  PROVE  /\ b \subseteq call[w].left /\ b # {}
         /\ AfterBatch(w, b) \in Content
         /\ Sound(AfterBatch(w, b))
         /\ AfterBatch(w, b) =
              Upsert(call[w].old, call[w].prod, call[w].sent \cup b, Blank)
<1>1. InCall(w)
  BY DEF InCall
<1>2. call[w].prod \in Productions
  BY <1>1, CallFacts DEF CallOK
<1>a. b \subseteq call[w].left /\ b # {}
  BY <1>1, CallFacts, BatchFacts
<1>3. call[w].sent \cup b \in SUBSET DOMAIN call[w].prod.chunk
  BY <1>1, <1>a, CallFacts DEF CallOK, Chunk
<1>4. points[Src(w)] = Upsert(call[w].old, call[w].prod, call[w].sent, Blank)
  BY <1>1, CallFacts DEF WrittenOK
<1>5. QED
  <2>1. AfterBatch(w, b) =
          Upsert(call[w].old, call[w].prod, call[w].sent \cup b, Blank)
    BY <1>4, UpsertTwice DEF AfterBatch
  <2>2. AfterBatch(w, b) \in Content /\ Sound(AfterBatch(w, b))
    BY <1>1, <1>2, <1>3, <2>1, CallFacts, BlankWrite
  <2>3. QED
    BY <1>a, <2>1, <2>2

LEMMA UpsertSound ==
  ASSUME NEW w \in Writers, IInv, pc[w] = "upsert"
  PROVE  /\ AfterUpsert(w) \in Content
         /\ Sound(AfterUpsert(w))
         /\ SourceState(AfterUpsert(w)) # Blank
<1>1. InCall(w)
  BY DEF InCall
<1>2. /\ call[w].prod \in Productions /\ DOMAIN Chunk(w) # {}
      /\ points[Src(w)] = Empty
  BY <1>1, CallFacts DEF CallOK
<1>3. AfterUpsert(w) = Upsert(Empty, call[w].prod, DOMAIN Chunk(w), call[w].prod.tok)
  BY <1>2 DEF AfterUpsert
<1>4. QED
  BY <1>2, <1>3, StampedFacts DEF Chunk

LEMMA StaleSound ==
  ASSUME NEW w \in Writers, IInv, pc[w] = "stale"
  PROVE  /\ AfterStale(w) \in Content
         /\ Sound(AfterStale(w))
         /\ AfterStale(w) = Upsert(Empty, call[w].prod, DOMAIN Chunk(w), Blank)
<1>1. InCall(w)
  BY DEF InCall
<1>2. call[w].prod \in Productions
  BY <1>1, CallFacts DEF CallOK
<1>3. points[Src(w)] = Upsert(call[w].old, call[w].prod, DOMAIN Chunk(w), Blank)
  BY <1>1, CallFacts DEF WrittenOK
<1>4. AfterStale(w) = Upsert(Empty, call[w].prod, DOMAIN Chunk(w), Blank)
  BY <1>2, <1>3, ChunkFacts, StaleAfterUpsert DEF AfterStale, Chunk
<1>5. QED
  BY <1>2, <1>4, EmptyType, SoundEmpty, BlankWrite DEF Chunk

LEMMA StampSound ==
  ASSUME NEW w \in Writers, IInv, pc[w] = "stamp"
  PROVE  /\ AfterStamp(w) \in Content
         /\ Sound(AfterStamp(w))
         /\ SourceState(AfterStamp(w)) # Blank
         /\ AfterStamp(w) = Upsert(Empty, call[w].prod, DOMAIN Chunk(w), call[w].prod.tok)
<1>1. InCall(w)
  BY DEF InCall
<1>2. call[w].prod \in Productions /\ DOMAIN Chunk(w) # {}
  BY <1>1, CallFacts DEF CallOK
<1>3. points[Src(w)] = Upsert(Empty, call[w].prod, DOMAIN Chunk(w), Blank)
  BY <1>1, CallFacts DEF WrittenOK
<1>4. AfterStamp(w) = Upsert(Empty, call[w].prod, DOMAIN Chunk(w), call[w].prod.tok)
  BY <1>2, <1>3, StampAfterUpsert DEF AfterStamp, Chunk
<1>5. QED
  BY <1>2, <1>4, StampedFacts DEF Chunk

LEMMA RollbackSound ==
  ASSUME NEW w \in Writers, IInv, pc[w] \in {"rollback", "shielded"}
  PROVE  /\ AfterRollback(w) \in Content
         /\ Sound(AfterRollback(w))
         /\ \E kept \in SUBSET (Present(call[w].old) \cap DOMAIN Chunk(w)) :
              AfterRollback(w) = Upsert(call[w].old, call[w].prod, kept, Blank)
<1>1. InCall(w)
  BY DEF InCall
<1>2. /\ call[w].prod \in Productions
      /\ call[w].pre = Present(call[w].old) \cap DOMAIN Chunk(w)
  BY <1>1, CallFacts DEF CallOK, PreOK
<1>3. PICK landed \in SUBSET call[w].sent :
        points[Src(w)] = Upsert(call[w].old, call[w].prod, landed, Blank)
  BY <1>1, CallFacts DEF WrittenOK
<1> DEFINE kept == landed \cap Present(call[w].old)
<1>4. AfterRollback(w) = Upsert(call[w].old, call[w].prod, kept, Blank)
  <2>1. /\ call[w].old \in Content
        /\ call[w].sent \subseteq DOMAIN call[w].prod.chunk
        /\ landed \subseteq call[w].sent
    BY <1>1, CallFacts DEF Chunk
  <2> DEFINE created == Created(w)
  <2>2. /\ \A i : i \in created <=> i \in call[w].sent /\ i \notin Present(call[w].old)
        /\ \A i : i \in kept <=> i \in landed /\ i \in Present(call[w].old)
    BY <1>2, <2>1 DEF Created, Chunk
  <2>3. AfterRollback(w) = Remove(Upsert(call[w].old, call[w].prod, landed, Blank), created)
    BY <1>3 DEF AfterRollback
  <2> HIDE DEF created, kept
  <2>4. /\ call[w].prod \in Productions
        /\ landed \subseteq call[w].sent
    BY <1>2, <2>1
  <2>5. Remove(Upsert(call[w].old, call[w].prod, landed, Blank), created)
          = Upsert(call[w].old, call[w].prod, kept, Blank)
    BY <1>2, <2>1, <2>2, <2>4, ChunkFacts DEF Remove, Upsert, Content, Present
  <2>6. QED
    BY <2>3, <2>5
<1>5. /\ kept \subseteq DOMAIN call[w].prod.chunk
      /\ kept \in SUBSET (Present(call[w].old) \cap DOMAIN Chunk(w))
  BY <1>1, CallFacts DEF Chunk
<1> HIDE DEF kept
<1>6. AfterRollback(w) \in Content /\ Sound(AfterRollback(w))
  BY <1>1, <1>2, <1>4, <1>5, CallFacts, BlankWrite
<1>7. QED
  BY <1>4, <1>5, <1>6

LEMMA OutcomesSound ==
  ASSUME NEW w \in Writers, IInv, InCall(w), NEW c \in Outcomes(w)
  PROVE  c \in Content /\ Sound(c)
<1>1. CASE c = points[Src(w)]
  BY <1>1, CallFacts
<1>2. CASE pc[w] = "batch" /\ c # points[Src(w)]
  BY <1>2, BatchSound DEF Outcomes
<1>3. CASE pc[w] = "upsert" /\ c # points[Src(w)]
  BY <1>3, UpsertSound DEF Outcomes
<1>4. CASE pc[w] = "stale" /\ c # points[Src(w)]
  BY <1>4, StaleSound DEF Outcomes
<1>5. CASE pc[w] = "stamp" /\ c # points[Src(w)]
  BY <1>5, StampSound DEF Outcomes
<1>6. CASE pc[w] = "delete" /\ c # points[Src(w)]
  BY <1>6, EmptyType, SoundEmpty DEF Outcomes
<1>7. CASE pc[w] \in {"rollback", "shielded"} /\ c # points[Src(w)]
  BY <1>7, RollbackSound DEF Outcomes
<1>8. CASE pc[w] = "retrieve" /\ c # points[Src(w)]
  BY <1>8 DEF Outcomes
<1>9. QED
  BY <1>1, <1>2, <1>3, <1>4, <1>5, <1>6, <1>7, <1>8 DEF IInv, TypeOK, Phases, InCall

-----------------------------------------------------------------------------
(* How a step frames the rest of the invariant. *)

LEMMA OnlyWriter ==
  ASSUME NEW w \in Writers
  PROVE  Writers = {w}
BY SoleWriter

LEMMA PointsStep ==
  ASSUME IInv, NEW s \in Sources, NEW c \in Content, Sound(c),
         points' = [points EXCEPT ![s] = c]
  PROVE  /\ points' \in [Sources -> Content]
         /\ \A r \in Sources : Sound(points'[r])
         /\ points'[s] = c
         /\ \A r \in Sources : r # s => points'[r] = points[r]
BY DEF IInv, TypeOK

(* A run that is over, at any point, leaves nothing to be kept. *)
LEMMA HaltInv ==
  ASSUME IInv, NEW w \in Writers, Halt(w), UNCHANGED detached,
         points' \in [Sources -> Content],
         \A r \in Sources : Sound(points'[r])
  PROVE  IInv'
<1>1. Writers = {w}
  BY OnlyWriter
<1>2. /\ pc'[w] = "idle"
      /\ \A s \in Sources : status'[w][s] = "none"
  BY DEF Halt, Goto, IInv, TypeOK
<1>3. TypeOK'
  BY DEF IInv, TypeOK, Halt, Goto, Phases, Statuses
<1>4. NewIsAbsent' /\ ProcessedIsStamped'
  BY <1>1, <1>2 DEF NewIsAbsent, ProcessedIsStamped
<1>5. \A v \in Writers : ~(InCall(v)')
  BY <1>1, <1>2 DEF InCall
<1>6. QED
  BY <1>3, <1>4, <1>5 DEF IInv

(* The store call returns with its source sound. *)
LEMMA ReturnInv ==
  ASSUME IInv, NEW w \in Writers, InCall(w),
         NEW outcome \in Statuses, outcome # "pending",
         NEW c \in Content, Sound(c),
         outcome = "processed" => SourceState(c) # Blank,
         Became(w, c), Return(w, outcome), UNCHANGED detached
  PROVE  IInv'
<1>1. Writers = {w}
  BY OnlyWriter
<1>2. Src(w) \in Sources
  BY CallFacts
<1>3. points' = [points EXCEPT ![Src(w)] = c]
  BY DEF Became, Src
<1>4. /\ points' \in [Sources -> Content]
      /\ \A r \in Sources : Sound(points'[r])
      /\ points'[Src(w)] = c
      /\ \A r \in Sources : r # Src(w) => points'[r] = points[r]
  BY <1>2, <1>3, PointsStep
<1>5. /\ pc'[w] = "running"
      /\ status'[w][Src(w)] = outcome
      /\ \A r \in Sources : r # Src(w) => status'[w][r] = status[w][r]
      /\ seen' = seen
  BY <1>2 DEF Return, Goto, Report, IInv, TypeOK, Src
<1>6. TypeOK'
  BY <1>2, <1>4 DEF IInv, TypeOK, Return, Goto, Report, Phases, Src
<1>7. NewIsAbsent'
  BY <1>1, <1>2, <1>4, <1>5 DEF IInv, NewIsAbsent, InCall
<1>8. ProcessedIsStamped'
  BY <1>1, <1>2, <1>4, <1>5 DEF IInv, ProcessedIsStamped
<1>9. \A v \in Writers : ~(InCall(v)')
  BY <1>1, <1>5 DEF InCall
<1>10. QED
  BY <1>4, <1>6, <1>7, <1>8, <1>9 DEF IInv

(* The call goes on, in phase `phase` and with locals `locals`. *)
LEMMA CallInv ==
  ASSUME IInv, NEW w \in Writers, InCall(w),
         NEW c \in Content, Sound(c), Became(w, c),
         NEW phase \in Phases \ {"idle", "running"}, Goto(w, phase),
         call'[w] \in Call, call' = [call EXCEPT ![w] = call'[w]],
         call'[w].old = call[w].old,
         CallOK(w)', PreOK(w)', WrittenOK(w)',
         UNCHANGED <<seen, status, detached>>
  PROVE  IInv'
<1>1. Writers = {w}
  BY OnlyWriter
<1>2. Src(w) \in Sources /\ status[w][Src(w)] = "writing" /\ Sound(call[w].old)
  BY CallFacts
<1>3. points' = [points EXCEPT ![Src(w)] = c]
  BY DEF Became, Src
<1>4. /\ points' \in [Sources -> Content]
      /\ \A r \in Sources : Sound(points'[r])
      /\ \A r \in Sources : r # Src(w) => points'[r] = points[r]
  BY <1>2, <1>3, PointsStep
<1>5. TypeOK'
  BY <1>4 DEF IInv, TypeOK, Goto
<1>6. NewIsAbsent'
  BY <1>1, <1>2, <1>4 DEF IInv, NewIsAbsent, InCall
<1>7. ProcessedIsStamped'
  BY <1>1, <1>2, <1>4 DEF IInv, ProcessedIsStamped
<1>8. QED
  BY <1>1, <1>2, <1>4, <1>5, <1>6, <1>7 DEF IInv

-----------------------------------------------------------------------------
(* The steps of a run between two store calls. *)

LEMMA StartRunInv ==
  ASSUME IInv, NEW w \in Writers, StartRun(w)
  PROVE  IInv'
<1>1. Writers = {w}
  BY OnlyWriter
<1>2. \A s \in Sources : points[s] \in Content
  BY DEF IInv, TypeOK
<1>3. /\ pc'[w] = "running"
      /\ \A s \in Sources : status'[w][s] = "pending"
      /\ \A s \in Sources : seen'[w][s] = SourceState(points[s])
      /\ UNCHANGED <<points, call, detached>>
  BY DEF StartRun, Goto, IInv, TypeOK
<1>4. TypeOK'
  BY <1>2, SourceStateType DEF StartRun, Goto, IInv, TypeOK, Phases, Statuses
<1>5. NewIsAbsent'
  BY <1>1, <1>2, <1>3, SourceStateType DEF NewIsAbsent
<1>6. ProcessedIsStamped'
  BY <1>1, <1>3 DEF ProcessedIsStamped
<1>7. \A v \in Writers : ~(InCall(v)')
  BY <1>1, <1>3 DEF InCall
<1>8. QED
  BY <1>3, <1>4, <1>5, <1>6, <1>7 DEF IInv

(* A source dealt with without a store call. *)
LEMMA NoCallInv ==
  ASSUME IInv, NEW w \in Writers, NEW s \in Sources, Pending(w, s),
         NEW outcome \in Statuses, outcome # "pending",
         outcome = "processed" => SourceState(points[s]) # Blank,
         Report(w, s, outcome), UNCHANGED <<points, pc, seen, call, detached>>
  PROVE  IInv'
<1>1. Writers = {w}
  BY OnlyWriter
<1>2. /\ status'[w][s] = outcome
      /\ \A r \in Sources : r # s => status'[w][r] = status[w][r]
  BY DEF Report, IInv, TypeOK
<1>3. TypeOK'
  BY DEF Report, IInv, TypeOK
<1>4. NewIsAbsent' /\ ProcessedIsStamped'
  BY <1>1, <1>2 DEF IInv, NewIsAbsent, ProcessedIsStamped
<1>5. \A v \in Writers : ~(InCall(v)')
  BY <1>1 DEF Pending, InCall
<1>6. QED
  BY <1>3, <1>4, <1>5 DEF IInv

LEMMA EndRunInv ==
  ASSUME IInv, NEW w \in Writers, EndRun(w)
  PROVE  IInv'
<1>1. Writers = {w}
  BY OnlyWriter
<1>2. pc'[w] = "idle"
  BY DEF EndRun, Goto, IInv, TypeOK
<1>3. TypeOK'
  BY DEF EndRun, Goto, IInv, TypeOK, Phases
<1>4. NewIsAbsent' /\ ProcessedIsStamped'
  BY <1>1, <1>2 DEF EndRun, IInv, NewIsAbsent, ProcessedIsStamped
<1>5. \A v \in Writers : ~(InCall(v)')
  BY <1>1, <1>2 DEF InCall
<1>6. QED
  BY <1>3, <1>4, <1>5 DEF EndRun, IInv

(* A call is opened with its locals in order. *)
LEMMA OpenCallInv ==
  ASSUME IInv, NEW w \in Writers, NEW s \in Sources, Pending(w, s),
         NEW p \in Productions \cup {NoItems},
         NEW phase \in {"retrieve", "upsert", "batch", "delete"},
         OpenCall(w, s, p, phase),
         DOMAIN p.chunk \subseteq Ids,
         phase # "delete" => p \in Productions /\ DOMAIN p.chunk # {},
         phase = "delete" => p = NoItems,
         phase = "upsert" => seen[w][s] = Unknown,
         phase = "retrieve" => Multi(DOMAIN p.chunk),
         phase = "batch" => ~Multi(DOMAIN p.chunk) /\ seen[w][s] # Unknown
  PROVE  IInv'
<1>1. Writers = {w}
  BY OnlyWriter
<1> DEFINE new == seen[w][s] = Unknown
           locals == [src |-> s, prod |-> p, new |-> new,
                      left |-> DOMAIN p.chunk, sent |-> {}, pre |-> {},
                      old |-> points[s]]
<1>2. points[s] \in Content /\ Sound(points[s])
  BY DEF IInv, TypeOK
<1>3. locals \in Call
  BY <1>2 DEF Call
<1>4. /\ pc'[w] = phase
      /\ call'[w] = locals
      /\ status'[w][s] = "writing"
      /\ \A r \in Sources : r # s => status'[w][r] = status[w][r]
      /\ UNCHANGED <<points, seen, detached>>
  BY DEF OpenCall, Goto, Report, IInv, TypeOK
<1>5. TypeOK'
  BY <1>3 DEF OpenCall, Goto, Report, IInv, TypeOK, Phases, Statuses
<1>6. new => points[s] = Empty
  BY DEF IInv, NewIsAbsent, Pending
<1>7. CallOK(w)'
  <2>1. /\ call'[w].src = s /\ call'[w].prod = p /\ call'[w].new = new
        /\ call'[w].left = DOMAIN p.chunk /\ call'[w].sent = {}
        /\ call'[w].old = points[s] /\ call'[w] \in Call
    BY <1>3, <1>4
  <2> HIDE DEF new, locals
  <2>2. (new <=> seen[w][s] = Unknown) /\ (new => points[s] = Empty)
    BY <1>6 DEF new
  <2>3. QED
    BY <1>4, <2>1, <2>2 DEF CallOK, Src, Chunk
<1>8. PreOK(w)'
  BY <1>4 DEF PreOK, Chunk
<1>9. WrittenOK(w)'
  BY <1>2, <1>4, UpsertNothing DEF WrittenOK, Src
<1>10. NewIsAbsent' /\ ProcessedIsStamped'
  BY <1>1, <1>4 DEF IInv, NewIsAbsent, ProcessedIsStamped, Pending
<1>11. Sound(call'[w].old)
  BY <1>2, <1>4
<1>12. QED
  BY <1>1, <1>4, <1>5, <1>7, <1>8, <1>9, <1>10, <1>11 DEF IInv

-----------------------------------------------------------------------------
(* The requests of a call. *)

LEMMA RetrieveInv ==
  ASSUME IInv, NEW w \in Writers, RetrieveExisting(w)
  PROVE  IInv'
<1>1. pc[w] = "retrieve" /\ InCall(w)
  BY DEF RetrieveExisting, InCall
<1>2. /\ call[w].left = DOMAIN Chunk(w) /\ call[w].sent = {}
      /\ points[Src(w)] = call[w].old
      /\ call[w].prod \in Productions
  BY <1>1, CallFacts DEF CallOK
<1>3. /\ call'[w] = [call[w] EXCEPT !.pre = Present(call[w].old) \cap DOMAIN Chunk(w)]
      /\ pc'[w] = "batch"
      /\ UNCHANGED <<points, seen, status, detached>>
  BY <1>2 DEF RetrieveExisting, Goto, IInv, TypeOK
<1>4. /\ call'[w].src = call[w].src /\ call'[w].prod = call[w].prod
      /\ call'[w].new = call[w].new /\ call'[w].old = call[w].old
      /\ call'[w].left = call[w].left /\ call'[w].sent = call[w].sent
      /\ call'[w].pre = Present(call[w].old) \cap DOMAIN Chunk(w)
      /\ call'[w] \in Call
  <2>1. Present(call[w].old) \cap DOMAIN Chunk(w) \in SUBSET Ids
    BY DEF Present
  <2>2. QED
    BY <1>1, <1>3, <2>1, CallFacts DEF Call
<1>5. Became(w, points[Src(w)])
  BY <1>3 DEF Became, Src, IInv, TypeOK
<1>6. Goto(w, "batch") /\ call' = [call EXCEPT ![w] = call'[w]]
  BY <1>3 DEF RetrieveExisting, IInv, TypeOK
<1>7. CallOK(w)'
  BY <1>1, <1>3, <1>4, CallFacts DEF CallOK, Src, Chunk
<1>8. PreOK(w)'
  BY <1>4 DEF PreOK, Chunk
<1>9. WrittenOK(w)'
  <2>1. Upsert(call[w].old, call[w].prod, {}, Blank) = call[w].old
    BY <1>1, CallFacts, UpsertNothing
  <2>2. pc'[w] = "batch" /\ points'[Src(w)'] = call[w].old
    BY <1>2, <1>3, <1>4 DEF Src
  <2>3. QED
    BY <1>2, <1>4, <2>1, <2>2 DEF WrittenOK
<1>10. QED
  BY <1>1, <1>3, <1>4, <1>5, <1>6, <1>7, <1>8, <1>9, CallFacts, CallInv DEF Phases

(* The locals of a call once it has sent batch b. *)
LEMMA SendFacts ==
  ASSUME IInv, NEW w \in Writers, pc[w] = "batch",
         NEW b \in Batches(call[w].left), SendBatch(w, b)
  PROVE  /\ call' = [call EXCEPT ![w] = call'[w]]
         /\ call'[w] \in Call
         /\ call'[w].src = call[w].src /\ call'[w].prod = call[w].prod
         /\ call'[w].new = call[w].new /\ call'[w].old = call[w].old
         /\ call'[w].pre = call[w].pre
         /\ call'[w].left = call[w].left \ b
         /\ call'[w].sent = call[w].sent \cup b
         /\ call'[w].left \cap call'[w].sent = {}
         /\ DOMAIN Chunk(w) = call'[w].left \cup call'[w].sent
         /\ call'[w].left # {} <=> b # call[w].left
<1>1. InCall(w)
  BY DEF InCall
<1>2. /\ call[w] \in Call /\ b \subseteq call[w].left
      /\ DOMAIN Chunk(w) = call[w].left \cup call[w].sent
      /\ call[w].left \cap call[w].sent = {}
  BY <1>1, CallFacts, BatchSound DEF CallOK
<1>3. call'[w] = [call[w] EXCEPT !.sent = call[w].sent \cup b, !.left = call[w].left \ b]
  BY DEF SendBatch, IInv, TypeOK
<1>4. call' = [call EXCEPT ![w] = call'[w]]
  BY DEF SendBatch, IInv, TypeOK
<1>5. /\ call'[w].src = call[w].src /\ call'[w].prod = call[w].prod
      /\ call'[w].new = call[w].new /\ call'[w].old = call[w].old
      /\ call'[w].pre = call[w].pre
      /\ call'[w].left = call[w].left \ b
      /\ call'[w].sent = call[w].sent \cup b
      /\ call'[w] \in Call
  BY <1>2, <1>3 DEF Call
<1>6. QED
  BY <1>2, <1>4, <1>5

LEMMA BatchLandsInv ==
  ASSUME IInv, NEW w \in Writers, BatchLands(w)
  PROVE  IInv'
<1>1. pc[w] = "batch" /\ InCall(w)
  BY DEF BatchLands, InCall
<1>2. PICK b \in Batches(call[w].left) :
        /\ SendBatch(w, b)
        /\ Became(w, AfterBatch(w, b))
        /\ Goto(w, IF b # call[w].left THEN "batch"
                   ELSE IF call[w].new THEN "stamp" ELSE "stale")
  BY DEF BatchLands
<1>3. /\ call'[w].src = call[w].src /\ call'[w].prod = call[w].prod
      /\ call'[w].new = call[w].new /\ call'[w].old = call[w].old
      /\ call'[w].pre = call[w].pre
      /\ call'[w].left = call[w].left \ b
      /\ call'[w].sent = call[w].sent \cup b
      /\ call'[w].left \cap call'[w].sent = {}
      /\ DOMAIN Chunk(w) = call'[w].left \cup call'[w].sent
      /\ call'[w].left # {} <=> b # call[w].left
      /\ call'[w] \in Call
  BY <1>1, <1>2, SendFacts
<1> DEFINE phase == IF call'[w].left # {} THEN "batch"
                    ELSE IF call[w].new THEN "stamp" ELSE "stale"
<1>4. phase \in {"batch", "stamp", "stale"} /\ Goto(w, phase)
  BY <1>2, <1>3
<1>5. pc'[w] = phase /\ UNCHANGED <<seen, status, detached>>
  BY <1>4 DEF BatchLands, Goto, IInv, TypeOK
<1>6. points'[Src(w)] = Upsert(call[w].old, call[w].prod, call'[w].sent, Blank)
  <2>1. points'[Src(w)] = AfterBatch(w, b)
    BY <1>1, <1>2, CallFacts DEF Became, Src, IInv, TypeOK
  <2>2. AfterBatch(w, b) = Upsert(call[w].old, call[w].prod, call[w].sent \cup b, Blank)
    BY <1>1, BatchSound
  <2>3. call'[w].sent = call[w].sent \cup b
    BY <1>3
  <2>4. QED
    BY <2>1, <2>2, <2>3, Zenon
<1>7. Src(w)' = Src(w) /\ Chunk(w)' = Chunk(w)
  BY <1>3 DEF Src, Chunk
<1>8. CallOK(w)'
  BY <1>1, <1>3, <1>5, <1>7, CallFacts DEF CallOK
<1>9. PreOK(w)'
  BY <1>1, <1>3, <1>5, <1>7, CallFacts DEF PreOK
<1>10. WrittenOK(w)'
  BY <1>1, <1>3, <1>5, <1>6, <1>7, CallFacts DEF WrittenOK, CallOK
<1>11. QED
  <2>1. AfterBatch(w, b) \in Content /\ Sound(AfterBatch(w, b)) /\ Became(w, AfterBatch(w, b))
    BY <1>1, <1>2, BatchSound
  <2>2. phase \in Phases \ {"idle", "running"}
    BY <1>4 DEF Phases
  <2>3. call' = [call EXCEPT ![w] = call'[w]]
    BY <1>1, <1>2, SendFacts
  <2>4. UNCHANGED <<seen, status, detached>>
    BY <1>5
  <2> HIDE DEF phase
  <2>5. QED
    BY <1>1, <1>3, <1>4, <1>8, <1>9, <1>10, <2>1, <2>2, <2>3, <2>4, CallInv

LEMMA BatchFailsInv ==
  ASSUME IInv, NEW w \in Writers, BatchFails(w)
  PROVE  IInv'
<1>1. pc[w] = "batch" /\ InCall(w) /\ Multi(DOMAIN Chunk(w))
  BY DEF BatchFails, InCall
<1>2. PICK b \in Batches(call[w].left) :
        /\ SendBatch(w, b)
        /\ points' = points \/ Became(w, AfterBatch(w, b))
  BY DEF BatchFails
<1>3. /\ call'[w].src = call[w].src /\ call'[w].prod = call[w].prod
      /\ call'[w].new = call[w].new /\ call'[w].old = call[w].old
      /\ call'[w].pre = call[w].pre
      /\ call'[w].left = call[w].left \ b
      /\ call'[w].sent = call[w].sent \cup b
      /\ call'[w].left \cap call'[w].sent = {}
      /\ DOMAIN Chunk(w) = call'[w].left \cup call'[w].sent
      /\ call'[w] \in Call
  BY <1>1, <1>2, SendFacts
<1>4. PICK phase \in {"rollback", "shielded"} : Goto(w, phase)
  BY DEF BatchFails
<1>5. pc'[w] = phase /\ UNCHANGED <<seen, status, detached>>
  BY <1>4 DEF BatchFails, Goto, IInv, TypeOK
<1>6. Src(w)' = Src(w) /\ Chunk(w)' = Chunk(w)
  BY <1>3 DEF Src, Chunk
<1>7. PICK landed \in {call[w].sent, call[w].sent \cup b} :
        /\ Became(w, Upsert(call[w].old, call[w].prod, landed, Blank))
        /\ Upsert(call[w].old, call[w].prod, landed, Blank) \in Content
        /\ Sound(Upsert(call[w].old, call[w].prod, landed, Blank))
  <2>1. CASE points' = points
    <3>1. points[Src(w)] = Upsert(call[w].old, call[w].prod, call[w].sent, Blank)
      BY <1>1, CallFacts DEF WrittenOK
    <3>2. Became(w, points[Src(w)])
      BY <1>1, <2>1, CallFacts DEF Became, Src, IInv, TypeOK
    <3>3. points[Src(w)] \in Content /\ Sound(points[Src(w)])
      BY <1>1, CallFacts
    <3>4. QED
      BY <3>1, <3>2, <3>3
  <2>2. CASE Became(w, AfterBatch(w, b))
    <3>1. AfterBatch(w, b) = Upsert(call[w].old, call[w].prod, call[w].sent \cup b, Blank)
      BY <1>1, BatchSound
    <3>2. AfterBatch(w, b) \in Content /\ Sound(AfterBatch(w, b))
      BY <1>1, BatchSound
    <3>3. QED
      BY <2>2, <3>1, <3>2, Zenon
  <2>3. QED
    BY <1>2, <2>1, <2>2
<1> DEFINE c == Upsert(call[w].old, call[w].prod, landed, Blank)
<1>8. points'[Src(w)] = c
  BY <1>1, <1>7, CallFacts DEF Became, Src, IInv, TypeOK
<1>9. CallOK(w)'
  BY <1>1, <1>3, <1>5, <1>6, CallFacts DEF CallOK
<1>10. PreOK(w)'
  BY <1>1, <1>3, <1>5, <1>6, CallFacts DEF PreOK
<1>11. WrittenOK(w)'
  <2>1. landed \in SUBSET call'[w].sent
    BY <1>3
  <2>2. points'[Src(w)'] = Upsert(call'[w].old, call'[w].prod, landed, Blank)
    BY <1>3, <1>6, <1>8
  <2>3. QED
    BY <1>5, <2>1, <2>2 DEF WrittenOK
<1>12. QED
  <2>1. c \in Content /\ Sound(c) /\ Became(w, c)
    BY <1>7
  <2>2. phase \in Phases \ {"idle", "running"}
    BY DEF Phases
  <2>3. call' = [call EXCEPT ![w] = call'[w]]
    BY <1>1, <1>2, SendFacts
  <2>4. UNCHANGED <<seen, status, detached>>
    BY <1>5
  <2> HIDE DEF c
  <2>5. QED
    BY <1>1, <1>3, <1>4, <1>9, <1>10, <1>11, <2>1, <2>2, <2>3, <2>4, CallInv

LEMMA DeleteStaleInv ==
  ASSUME IInv, NEW w \in Writers, DeleteStale(w)
  PROVE  IInv'
<1>1. pc[w] = "stale" /\ InCall(w)
  BY DEF DeleteStale, InCall
<1>2. /\ Became(w, AfterStale(w)) /\ Goto(w, "stamp")
      /\ UNCHANGED <<seen, status, call, detached>>
  BY DEF DeleteStale
<1>3. /\ AfterStale(w) \in Content /\ Sound(AfterStale(w))
      /\ AfterStale(w) = Upsert(Empty, call[w].prod, DOMAIN Chunk(w), Blank)
  BY <1>1, StaleSound
<1>4. pc'[w] = "stamp" /\ points'[Src(w)] = AfterStale(w)
  BY <1>1, <1>2, CallFacts DEF Became, Goto, Src, IInv, TypeOK
<1>5. CallOK(w)'
  BY <1>1, <1>2, <1>4, CallFacts DEF CallOK, Src, Chunk
<1>6. PreOK(w)' /\ WrittenOK(w)'
  BY <1>2, <1>3, <1>4 DEF PreOK, WrittenOK, Src, Chunk
<1>7. call'[w] \in Call /\ call' = [call EXCEPT ![w] = call'[w]] /\ call'[w].old = call[w].old
  BY <1>1, <1>2, CallFacts DEF IInv, TypeOK
<1>8. "stamp" \in Phases \ {"idle", "running"}
  BY DEF Phases
<1>9. QED
  BY <1>1, <1>2, <1>3, <1>5, <1>6, <1>7, <1>8, CallInv

(* The last request of a call: the stamp, the upsert, the delete. *)
LEMMA LastRequestInv ==
  ASSUME IInv, NEW w \in Writers, StampHashes(w) \/ UpsertLands(w) \/ DeleteSource(w)
  PROVE  IInv'
<1>1. CASE StampHashes(w)
  <2>1. InCall(w) /\ pc[w] = "stamp"
    BY <1>1 DEF StampHashes, InCall
  <2>2. AfterStamp(w) \in Content /\ Sound(AfterStamp(w)) /\ SourceState(AfterStamp(w)) # Blank
    BY <2>1, StampSound
  <2>3. QED
    BY <1>1, <2>1, <2>2, ReturnInv DEF StampHashes, Statuses
<1>2. CASE UpsertLands(w)
  <2>1. InCall(w) /\ pc[w] = "upsert"
    BY <1>2 DEF UpsertLands, InCall
  <2>2. AfterUpsert(w) \in Content /\ Sound(AfterUpsert(w)) /\ SourceState(AfterUpsert(w)) # Blank
    BY <2>1, UpsertSound
  <2>3. QED
    BY <1>2, <2>1, <2>2, ReturnInv DEF UpsertLands, Statuses
<1>3. CASE DeleteSource(w)
  <2>1. InCall(w)
    BY <1>3 DEF DeleteSource, InCall
  <2>2. QED
    BY <1>3, <2>1, EmptyType, SoundEmpty, ReturnInv DEF DeleteSource, Statuses
<1>4. QED
  BY <1>1, <1>2, <1>3

LEMMA RollbackInv ==
  ASSUME IInv, NEW w \in Writers, Rollback(w)
  PROVE  IInv'
<1>1. pc[w] \in {"rollback", "shielded"} /\ InCall(w) /\ detached' = detached
  BY DEF Rollback, InCall
<1>2. PICK c \in Content : Sound(c) /\ Became(w, c)
  <2>1. CASE points' = points
    BY <1>1, <2>1, CallFacts DEF Became, Src, IInv, TypeOK
  <2>2. CASE Became(w, AfterRollback(w))
    BY <1>1, <2>2, RollbackSound
  <2>3. QED
    BY <2>1, <2>2 DEF Rollback
<1>3. CASE Return(w, "error")
  BY <1>1, <1>2, <1>3, ReturnInv DEF Statuses
<1>4. CASE Halt(w)
  <2>1. points' = [points EXCEPT ![Src(w)] = c] /\ Src(w) \in Sources
    BY <1>1, <1>2, CallFacts DEF Became, Src
  <2>2. QED
    BY <1>1, <1>2, <1>4, <2>1, PointsStep, HaltInv
<1>5. QED
  BY <1>3, <1>4 DEF Rollback

(* Whatever request raises, is cancelled or never answered. *)
LEMMA FailureInv ==
  ASSUME IInv, NEW w \in Writers, RequestFails(w) \/ Abort(w)
  PROVE  IInv'
<1>1. CASE RequestFails(w)
  <2>1. InCall(w)
    BY <1>1 DEF RequestFails, InCall
  <2>2. PICK c \in Outcomes(w) : Became(w, c)
    BY <1>1 DEF RequestFails
  <2>3. c \in Content /\ Sound(c)
    BY <2>1, OutcomesSound
  <2>4. QED
    BY <1>1, <2>1, <2>2, <2>3, ReturnInv DEF RequestFails, Statuses
<1>2. CASE Abort(w) /\ pc[w] = "running"
  <2>1. points' = points /\ Halt(w) /\ detached' = detached
    BY <1>2 DEF Abort
  <2>2. QED
    BY <2>1, HaltInv DEF IInv, TypeOK
<1>3. CASE Abort(w) /\ pc[w] # "running"
  <2>1. InCall(w)
    BY <1>3 DEF Abort, InCall
  <2>2. PICK c \in Outcomes(w) : Became(w, c)
    BY <1>3 DEF Abort
  <2>3. c \in Content /\ Sound(c)
    BY <2>1, OutcomesSound
  <2>4. points' = [points EXCEPT ![Src(w)] = c] /\ Src(w) \in Sources
    BY <2>1, <2>2, CallFacts DEF Became, Src
  <2>5. Halt(w) /\ detached' = detached
    BY <1>3 DEF Abort
  <2>6. QED
    BY <2>3, <2>4, <2>5, PointsStep, HaltInv
<1>4. QED
  BY <1>1, <1>2, <1>3

-----------------------------------------------------------------------------
(* The invariant. *)

LEMMA InitInv ==
  ASSUME Init
  PROVE  IInv
<1>1. TypeOK
  BY EmptyType DEF Init, TypeOK, Phases, Statuses
<1>2. \A s \in Sources : Sound(points[s])
  BY SoundEmpty DEF Init
<1>3. NewIsAbsent /\ ProcessedIsStamped
  BY DEF Init, NewIsAbsent, ProcessedIsStamped
<1>4. \A w \in Writers : ~InCall(w)
  BY DEF Init, InCall
<1>5. QED
  BY <1>1, <1>2, <1>3, <1>4 DEF IInv, Init

LEMMA StutterInv ==
  ASSUME IInv, UNCHANGED vars
  PROVE  IInv'
BY DEF vars, IInv, TypeOK, NewIsAbsent, InCall, CallOK, PreOK, WrittenOK, ProcessedIsStamped, Src, Chunk

LEMMA ProgressInv ==
  ASSUME IInv, NEW w \in Writers, Progress(w)
  PROVE  IInv'
<1>1. CASE \E s \in Sources : SkipUnchanged(w, s)
  <2>1. PICK s \in Sources : SkipUnchanged(w, s)
    BY <1>1
  <2>2. QED
    BY <2>1, NoCallInv DEF SkipUnchanged, Statuses
<1>2. CASE \E s \in Sources : NothingToWrite(w, s)
  <2>1. PICK s \in Sources : NothingToWrite(w, s)
    BY <1>2
  <2>2. points[s] = Empty
    BY <2>1 DEF NothingToWrite, Pending, IInv, NewIsAbsent
  <2>3. SourceState(points[s]) # Blank
    BY <2>2, EmptyType, SourceStateType
  <2>4. QED
    BY <2>1, <2>3, NoCallInv DEF NothingToWrite, Statuses
<1>3. CASE \E s \in Sources : BeginDelete(w, s)
  <2>1. PICK s \in Sources : BeginDelete(w, s)
    BY <1>3
  <2>2. /\ NoItems \in Productions \cup {NoItems}
        /\ DOMAIN NoItems.chunk \subseteq Ids
    BY DEF NoItems
  <2>3. QED
    BY <2>1, <2>2, OpenCallInv DEF BeginDelete
<1>4. CASE \E s \in Sources, p \in Productions : BeginUpsert(w, s, p)
  <2>1. PICK s \in Sources, p \in Productions : BeginUpsert(w, s, p)
    BY <1>4
  <2>2. DOMAIN p.chunk \subseteq Ids
    BY ChunkFacts
  <2>3. QED
    BY <2>1, <2>2, OpenCallInv DEF BeginUpsert
<1>5. CASE \E s \in Sources, p \in Productions : BeginTwoPhase(w, s, p)
  <2>1. PICK s \in Sources, p \in Productions : BeginTwoPhase(w, s, p)
    BY <1>5
  <2>2. DOMAIN p.chunk \subseteq Ids
    BY ChunkFacts
  <2>3. CASE Multi(DOMAIN p.chunk)
    BY <2>1, <2>2, <2>3, OpenCallInv DEF BeginTwoPhase
  <2>4. CASE ~Multi(DOMAIN p.chunk)
    BY <2>1, <2>2, <2>4, OpenCallInv DEF BeginTwoPhase
  <2>5. QED
    BY <2>3, <2>4
<1>6. QED
  BY <1>1, <1>2, <1>3, <1>4, <1>5, StartRunInv, RetrieveInv, BatchLandsInv,
     DeleteStaleInv, LastRequestInv, RollbackInv, EndRunInv DEF Progress

LEMMA FaultInv ==
  ASSUME IInv, NEW w \in Writers, Fault(w)
  PROVE  IInv'
<1>1. CASE \E s \in Sources : Unproduced(w, s)
  <2>1. PICK s \in Sources, outcome \in {"unavailable", "error"} :
          Unproduced(w, s) /\ Report(w, s, outcome)
    BY <1>1 DEF Unproduced
  <2>2. QED
    BY <2>1, NoCallInv DEF Unproduced, Statuses
<1>2. QED
  BY <1>1, BatchFailsInv, FailureInv DEF Fault

LEMMA NextInv ==
  ASSUME IInv, [Next]_vars
  PROVE  IInv'
<1>1. CASE UNCHANGED vars
  BY <1>1, StutterInv
<1>2. CASE \E w \in Writers : Progress(w) \/ Fault(w)
  BY <1>2, ProgressInv, FaultInv
<1>3. QED
  BY <1>1, <1>2 DEF Next

(* The inductive invariant holds in every reachable state of the protocol:  *)
(* the locals of a store call and the points it has touched so far agree    *)
(* with the request it waits for.                                           *)
THEOREM Inductive == Spec => []IInv
BY InitInv, NextInv, PTL DEF Spec

(* Every variable of the write protocol keeps its type, with the locals of  *)
(* a store call in order in each of its phases.                             *)
THEOREM TypeCorrect == Spec => []TypeOK
<1>1. IInv => TypeOK
  BY DEF IInv
<1>2. QED
  BY <1>1, Inductive, PTL

(* _list_source_state: "a partially written source therefore never looks    *)
(* unchanged", for any batch size, whatever fails, is cancelled or crashes, *)
(* as long as one run at a time writes the collection.                      *)
THEOREM PartialNeverLooksUnchanged == Spec => []NeverLooksUnchanged
<1>1. IInv => NeverLooksUnchanged
  BY DEF IInv, Sound, NeverLooksUnchanged
<1>2. QED
  BY <1>1, Inductive, PTL

(* UpdateResult.processed: a source reported processed is skipped by the    *)
(* next run, not written again.                                             *)
THEOREM ProcessedStaysStamped == Spec => []ProcessedIsStamped
<1>1. IInv => ProcessedIsStamped
  BY DEF IInv
<1>2. QED
  BY <1>1, Inductive, PTL

-----------------------------------------------------------------------------
(* What one step does to the source being written. *)

LEMMA CallStep ==
  ASSUME IInv, NEW w \in Writers, InCall(w), [Next]_vars
  PROVE  points'[Src(w)] \in Outcomes(w)
<1>1. Writers = {w}
  BY OnlyWriter
<1>2. points[Src(w)] \in Outcomes(w)
  BY DEF Outcomes
<1>3. \A c : Became(w, c) => points'[Src(w)] = c
  BY CallFacts DEF Became, Src, IInv, TypeOK
<1>4. CASE points' = points
  BY <1>2, <1>4
<1>5. CASE RequestFails(w) \/ Abort(w)
  BY <1>3, <1>5 DEF RequestFails, Abort, InCall
<1>6. CASE BatchLands(w)
  BY <1>3, <1>6 DEF BatchLands, Outcomes
<1>7. CASE BatchFails(w)
  BY <1>2, <1>3, <1>7 DEF BatchFails, Outcomes
<1>8. CASE DeleteStale(w)
  BY <1>3, <1>8 DEF DeleteStale, Outcomes
<1>9. CASE StampHashes(w)
  BY <1>3, <1>9 DEF StampHashes, Outcomes
<1>10. CASE UpsertLands(w)
  BY <1>3, <1>10 DEF UpsertLands, Outcomes
<1>11. CASE DeleteSource(w)
  BY <1>3, <1>11 DEF DeleteSource, Outcomes
<1>12. CASE Rollback(w)
  BY <1>2, <1>3, <1>12 DEF Rollback, Outcomes
<1>13. ASSUME Progress(w), points' # points
       PROVE  \/ BatchLands(w) \/ DeleteStale(w) \/ StampHashes(w)
              \/ UpsertLands(w) \/ DeleteSource(w) \/ Rollback(w)
  BY <1>13 DEF Progress, StartRun, SkipUnchanged, NothingToWrite, BeginDelete,
     BeginUpsert, BeginTwoPhase, OpenCall, RetrieveExisting, EndRun
<1>14. ASSUME Fault(w), points' # points
       PROVE  RequestFails(w) \/ Abort(w) \/ BatchFails(w)
  BY <1>14 DEF Fault, Unproduced
<1>15. [Next]_vars /\ points' # points => Progress(w) \/ Fault(w)
  BY <1>1 DEF Next, vars
<1>16. QED
  BY <1>4, <1>5, <1>6, <1>7, <1>8, <1>9, <1>10, <1>11, <1>12, <1>13, <1>14, <1>15

LEMMA OldStays ==
  ASSUME IInv, [Next]_vars, NEW w \in Writers,
         pc[w] \in {"retrieve", "upsert", "batch", "stale", "stamp", "rollback", "shielded"}
  PROVE  \/ Lost(Src(w)) \cap Present(call[w].old) = {}
         \/ DOMAIN Chunk(w) \subseteq Present(points[Src(w)])
<1>1. InCall(w)
  BY DEF InCall
<1>2. points'[Src(w)] \in Outcomes(w)
  BY <1>1, CallStep
<1>3. call[w].prod \in Productions /\ call[w].old \in Content
  BY <1>1, CallFacts DEF CallOK
<1>4. CASE points'[Src(w)] = points[Src(w)]
  BY <1>4 DEF Lost
<1>5. CASE pc[w] = "batch" /\ points'[Src(w)] # points[Src(w)]
  <2>1. PICK b \in Batches(call[w].left) : points'[Src(w)] = AfterBatch(w, b)
    BY <1>2, <1>5 DEF Outcomes
  <2>2. call[w].sent \cup b \in SUBSET DOMAIN call[w].prod.chunk
    BY <1>1, <1>5, CallFacts, BatchSound DEF CallOK, Chunk
  <2>3. AfterBatch(w, b) = Upsert(call[w].old, call[w].prod, call[w].sent \cup b, Blank)
    BY <1>5, BatchSound
  <2>4. Present(call[w].old) \subseteq Present(points'[Src(w)])
    BY <1>3, <2>1, <2>2, <2>3, UpsertType
  <2>5. QED
    BY <2>4 DEF Lost
<1>6. CASE pc[w] = "upsert"
  BY <1>1, <1>6, CallFacts, EmptyType DEF CallOK
<1>7. CASE pc[w] \in {"stale", "stamp"}
  <2>1. \E c \in Content : points[Src(w)] = Upsert(c, call[w].prod, DOMAIN Chunk(w), Blank)
    BY <1>1, <1>3, <1>7, CallFacts, EmptyType DEF WrittenOK
  <2>2. QED
    BY <1>3, <2>1, UpsertType DEF Chunk
<1>8. CASE pc[w] \in {"rollback", "shielded"} /\ points'[Src(w)] # points[Src(w)]
  <2>1. points'[Src(w)] = Remove(points[Src(w)], Created(w))
    BY <1>2, <1>8 DEF Outcomes, AfterRollback
  <2>2. Present(points'[Src(w)]) = Present(points[Src(w)]) \ Created(w)
    BY <1>1, <2>1, CallFacts, RemoveType
  <2>3. Created(w) \cap Present(call[w].old) = {}
    BY <1>1, <1>8, CallFacts DEF CallOK, PreOK, Created
  <2>4. QED
    BY <2>2, <2>3 DEF Lost
<1>9. CASE pc[w] = "retrieve"
  BY <1>2, <1>4, <1>9 DEF Outcomes
<1>10. QED
  BY <1>4, <1>5, <1>6, <1>7, <1>8, <1>9

(* replace_source: the old points stay until every new one has landed. *)
THEOREM OldPointsStay == Spec => OldStaysUntilNewLanded
<1>1. IInv /\ [Next]_vars =>
        [\A w \in Writers :
           pc[w] \in {"retrieve", "upsert", "batch", "stale", "stamp", "rollback", "shielded"} =>
             \/ Lost(Src(w)) \cap Present(call[w].old) = {}
             \/ DOMAIN Chunk(w) \subseteq Present(points[Src(w)])]_vars
  BY OldStays
<1>2. QED
  BY <1>1, Inductive, PTL DEF Spec, OldStaysUntilNewLanded

-----------------------------------------------------------------------------
(* What the contents of a write look like through the contract. *)

LEMMA ViewEmpty == View(Empty) = None
BY EmptyType DEF View

LEMMA ViewBlank ==
  ASSUME NEW c \in Content, NEW p \in Productions,
         NEW ids, ids \subseteq DOMAIN p.chunk, ids # {}
  PROVE  View(Upsert(c, p, ids, Blank)) = Dirty
<1>1. ids \in SUBSET DOMAIN p.chunk
  OBVIOUS
<1>2. \A t \in Tokens : ~Uniform(Upsert(c, p, ids, Blank), t)
  BY <1>1, BlankNotUniform
<1>3. Present(Upsert(c, p, ids, Blank)) # {}
  BY <1>1, UpsertType
<1>4. QED
  BY <1>2, <1>3 DEF View

(* A source that looks like a production is that production. *)
LEMMA ViewComplete ==
  ASSUME NEW c \in Content, NEW p \in Productions,
         Complete(c, p), Uniform(c, p.tok)
  PROVE  View(c) = p
<1>1. Present(c) # {} /\ Present(c) = DOMAIN p.chunk
  BY DEF Uniform, Complete
<1>2. \A t \in Tokens : Uniform(c, t) => t = p.tok
  BY <1>1 DEF Uniform
<1>3. (CHOOSE t \in Tokens : Uniform(c, t)) = p.tok
  BY <1>2, ProductionForm
<1>4. [i \in Present(c) |-> c[i].body] = [i \in DOMAIN p.chunk |-> p.chunk[i]]
  BY <1>1 DEF Complete
<1>5. View(c) = [tok |-> p.tok, chunk |-> p.chunk]
  <2>1. View(c) = [tok |-> p.tok, chunk |-> [i \in Present(c) |-> c[i].body]]
    BY <1>1, <1>3, ProductionForm DEF View
  <2>2. p.chunk = [i \in DOMAIN p.chunk |-> p.chunk[i]]
    BY ProductionForm
  <2>3. QED
    BY <1>4, <2>1, <2>2, Zenon
<1>6. QED
  BY <1>5, ProductionForm

LEMMA ViewType ==
  ASSUME NEW c \in Content, Sound(c)
  PROVE  View(c) \in Productions \cup {None, Dirty}
<1>1. CASE \E t \in Tokens : Uniform(c, t)
  <2>1. PICK t \in Tokens : Uniform(c, t)
    BY <1>1
  <2>2. PICK p \in Productions : p.tok = t /\ Complete(c, p)
    BY <2>1 DEF Sound
  <2>3. QED
    BY <2>1, <2>2, ViewComplete
<1>2. CASE ~ \E t \in Tokens : Uniform(c, t)
  BY <1>2 DEF View
<1>3. QED
  BY <1>1, <1>2

LEMMA StampedView ==
  ASSUME NEW p \in Productions, DOMAIN p.chunk # {},
         NEW c, c = Upsert(Empty, p, DOMAIN p.chunk, p.tok)
  PROVE  View(c) = Target(p)
<1>1. c \in Content /\ Uniform(c, p.tok) /\ Complete(c, p)
  BY StampedFacts
<1>2. QED
  BY <1>1, ViewComplete DEF Target

(* However a request ends, the source looks as before, as it did when the   *)
(* call began, like the new items, or dirty.                                *)
LEMMA OutcomeView ==
  ASSUME IInv, NEW w \in Writers, InCall(w), NEW c \in Outcomes(w)
  PROVE  /\ View(c) \in {View(points[Src(w)]), Dirty, View(call[w].old),
                         Target(call[w].prod)}
         /\ pc[w] \in {"retrieve", "batch", "stale"} =>
              View(c) \in {View(points[Src(w)]), Dirty}
<1>1. CASE c = points[Src(w)]
  BY <1>1
<1>2. CASE pc[w] = "batch" /\ c # points[Src(w)]
  <2>1. PICK b \in Batches(call[w].left) : c = AfterBatch(w, b)
    BY <1>2 DEF Outcomes
  <2>2. /\ AfterBatch(w, b) = Upsert(call[w].old, call[w].prod, call[w].sent \cup b, Blank)
        /\ b # {} /\ b \subseteq call[w].left
    BY <1>2, BatchSound
  <2> DEFINE ids == call[w].sent \cup b
  <2>3. /\ ids \subseteq DOMAIN call[w].prod.chunk /\ ids # {}
        /\ call[w].prod \in Productions /\ call[w].old \in Content
    BY <1>2, <2>2, CallFacts DEF CallOK, Chunk
  <2>4. c = Upsert(call[w].old, call[w].prod, ids, Blank)
    BY <2>1, <2>2
  <2> HIDE DEF ids
  <2>5. QED
    BY <2>3, <2>4, ViewBlank
<1>3. CASE pc[w] = "upsert" /\ c # points[Src(w)]
  <2>1. /\ call[w].prod \in Productions /\ DOMAIN Chunk(w) # {}
        /\ points[Src(w)] = Empty
    BY <1>3, CallFacts DEF CallOK
  <2>2. c = AfterUpsert(w)
    BY <1>3 DEF Outcomes
  <2>3. QED
    BY <1>3, <2>1, <2>2, StampedView DEF AfterUpsert, Chunk
<1>4. CASE pc[w] = "stale" /\ c # points[Src(w)]
  <2>1. c = Upsert(Empty, call[w].prod, DOMAIN Chunk(w), Blank)
    BY <1>4, StaleSound DEF Outcomes
  <2>2. call[w].prod \in Productions /\ DOMAIN Chunk(w) # {}
    BY <1>4, CallFacts DEF CallOK
  <2>3. QED
    BY <2>1, <2>2, EmptyType, ViewBlank DEF Chunk
<1>5. CASE pc[w] = "stamp" /\ c # points[Src(w)]
  <2>1. c = Upsert(Empty, call[w].prod, DOMAIN Chunk(w), call[w].prod.tok)
    BY <1>5, StampSound DEF Outcomes
  <2>2. call[w].prod \in Productions /\ DOMAIN Chunk(w) # {}
    BY <1>5, CallFacts DEF CallOK
  <2>3. QED
    BY <1>5, <2>1, <2>2, StampedView DEF Chunk
<1>6. CASE pc[w] = "delete" /\ c # points[Src(w)]
  <2>1. c = Empty /\ call[w].prod = NoItems
    BY <1>6, CallFacts DEF CallOK, Outcomes
  <2>2. Target(NoItems) = None
    BY DEF Target, NoItems
  <2>3. QED
    BY <1>6, <2>1, <2>2, ViewEmpty
<1>7. CASE pc[w] \in {"rollback", "shielded"} /\ c # points[Src(w)]
  <2>1. c = AfterRollback(w)
    BY <1>7 DEF Outcomes
  <2>2. PICK kept \in SUBSET (Present(call[w].old) \cap DOMAIN Chunk(w)) :
          c = Upsert(call[w].old, call[w].prod, kept, Blank)
    BY <1>7, <2>1, RollbackSound
  <2>3. call[w].prod \in Productions /\ call[w].old \in Content
    BY <1>7, CallFacts DEF CallOK
  <2>4. CASE kept = {}
    BY <1>7, <2>2, <2>3, <2>4, UpsertNothing
  <2>5. CASE kept # {}
    <3>1. kept \subseteq DOMAIN call[w].prod.chunk
      BY DEF Chunk
    <3>2. View(c) = Dirty
      BY <2>2, <2>3, <2>5, <3>1, ViewBlank
    <3>3. QED
      BY <1>7, <3>2
  <2>6. QED
    BY <2>4, <2>5
<1>8. CASE pc[w] = "retrieve" /\ c # points[Src(w)]
  BY <1>8 DEF Outcomes
<1>9. QED
  BY <1>1, <1>2, <1>3, <1>4, <1>5, <1>6, <1>7, <1>8 DEF IInv, TypeOK, Phases, InCall

-----------------------------------------------------------------------------
(* Every step is a step of the contract. *)

(* The write in progress, of the only writer. *)
OneJob ==
  \A w \in Writers :
    jobBar = [s \in Sources |->
                IF InCall(w) /\ s = call[w].src
                THEN [target |-> Target(call[w].prod), prior |-> View(call[w].old)]
                ELSE NoJob]

LEMMA JobForm == OneJob
<1>1. SUFFICES ASSUME NEW w \in Writers
               PROVE  jobBar = [s \in Sources |->
                        IF InCall(w) /\ s = call[w].src
                        THEN [target |-> Target(call[w].prod), prior |-> View(call[w].old)]
                        ELSE NoJob]
  BY DEF OneJob
<1>2. \A v \in Writers : v = w
  BY SoleWriter
<1>3. \A s \in Sources :
        \/ ~Writing(s, w) /\ ~ \E v \in Writers : Writing(s, v)
        \/ Writing(s, w) /\ (CHOOSE v \in Writers : Writing(s, v)) = w
  BY <1>2
<1>4. QED
  BY <1>3 DEF jobBar, Writing

LEMMA JobFormAfter == OneJob'
BY JobForm, PTL

LEMMA JobFacts ==
  ASSUME IInv, NEW w \in Writers, InCall(w)
  PROVE  /\ Src(w) \in Sources
         /\ jobBar[Src(w)] # NoJob
         /\ jobBar[Src(w)].target = Target(call[w].prod)
         /\ jobBar[Src(w)].prior = View(call[w].old)
<1> DEFINE rec == [target |-> Target(call[w].prod), prior |-> View(call[w].old)]
<1>1. Src(w) \in Sources
  BY CallFacts
<1>2. jobBar[Src(w)] = rec
  BY <1>1, JobForm DEF OneJob, Src
<1>3. View(call[w].old) \in Productions \cup {None, Dirty}
  BY CallFacts, ViewType
<1>4. Target(call[w].prod) \in Productions \cup {None}
  <2>1. call[w].prod \in Productions \cup {NoItems}
    BY CallFacts DEF Call
  <2>2. DOMAIN NoItems.chunk = {}
    BY DEF NoItems
  <2>3. QED
    BY <2>1, <2>2 DEF Target
<1>5. rec # NoJob
  BY <1>3, <1>4, ViewConstants
<1>6. QED
  BY <1>1, <1>2, <1>5

(* A request that is not the last of its call: a touch, or nothing. *)
LEMMA InCallStep ==
  ASSUME IInv, NEW w \in Writers, InCall(w), InCall(w)',
         NEW c, Became(w, c), View(c) \in {View(points[Src(w)]), Dirty},
         call'[w].src = call[w].src, call'[w].prod = call[w].prod,
         call'[w].old = call[w].old
  PROVE  Contract!Next \/ UNCHANGED <<viewBar, jobBar>>
<1>1. Src(w) \in Sources /\ jobBar[Src(w)] # NoJob
  BY JobFacts
<1>2. jobBar' = jobBar
  BY JobForm, JobFormAfter DEF OneJob
<1>3. viewBar' = [viewBar EXCEPT ![Src(w)] = View(c)]
  BY <1>1 DEF viewBar, Became, Src, IInv, TypeOK
<1>4. viewBar[Src(w)] = View(points[Src(w)])
  BY <1>1 DEF viewBar
<1>5. CASE View(c) = Dirty
  BY <1>1, <1>2, <1>3, <1>5 DEF Contract!Next, Contract!Touch
<1>6. CASE View(c) = View(points[Src(w)])
  BY <1>2, <1>3, <1>4, <1>6 DEF viewBar
<1>7. QED
  BY <1>5, <1>6

(* The call is over. *)
LEMMA CallOverStep ==
  ASSUME IInv, NEW w \in Writers, InCall(w), ~InCall(w)',
         NEW c \in Outcomes(w), Became(w, c)
  PROVE  Contract!Next
<1>1. /\ Src(w) \in Sources /\ jobBar[Src(w)] # NoJob
      /\ jobBar[Src(w)].target = Target(call[w].prod)
      /\ jobBar[Src(w)].prior = View(call[w].old)
  BY JobFacts
<1>2. jobBar' = [jobBar EXCEPT ![Src(w)] = NoJob]
  <2>1. jobBar' = [s \in Sources |-> NoJob]
    BY JobFormAfter DEF OneJob
  <2>2. QED
    BY <1>1, <2>1, JobForm DEF OneJob, Src
<1>3. viewBar' = [viewBar EXCEPT ![Src(w)] = View(c)]
  BY <1>1 DEF viewBar, Became, Src, IInv, TypeOK
<1>4. viewBar[Src(w)] = View(points[Src(w)])
  BY <1>1 DEF viewBar
<1>5. View(c) \in {viewBar[Src(w)], Dirty, jobBar[Src(w)].prior, jobBar[Src(w)].target}
  BY <1>1, <1>4, OutcomeView
<1>6. Contract!Finish(Src(w))
  BY <1>1, <1>2, <1>3, <1>5 DEF Contract!Finish
<1>7. QED
  BY <1>1, <1>6 DEF Contract!Next

(* A call is opened. *)
LEMMA OpenStep ==
  ASSUME IInv, NEW w \in Writers, NEW s \in Sources, Pending(w, s),
         NEW p, Target(p) \in Contract!Stored \cup {None},
         NEW phase \in {"retrieve", "upsert", "batch", "delete"},
         OpenCall(w, s, p, phase)
  PROVE  Contract!Next
<1>1. /\ ~InCall(w) /\ InCall(w)' /\ points' = points
      /\ call'[w].src = s /\ call'[w].prod = p /\ call'[w].old = points[s]
  BY DEF OpenCall, Goto, InCall, Pending, IInv, TypeOK
<1>2. jobBar = [r \in Sources |-> NoJob]
  BY <1>1, JobForm DEF OneJob
<1>3. jobBar' = [r \in Sources |->
        IF r = s THEN [target |-> Target(p), prior |-> View(points[s])] ELSE NoJob]
  BY <1>1, JobFormAfter DEF OneJob
<1>4. viewBar' = viewBar /\ viewBar[s] = View(points[s])
  BY <1>1 DEF viewBar
<1>5. Contract!Begin(s, Target(p))
  BY <1>2, <1>3, <1>4 DEF Contract!Begin
<1>6. QED
  BY <1>5 DEF Contract!Next

(* Nothing is being written, before or after. *)
LEMMA BetweenCallsStep ==
  ASSUME NEW w \in Writers, ~InCall(w), ~InCall(w)', points' = points
  PROVE  UNCHANGED <<viewBar, jobBar>>
<1>1. viewBar' = viewBar
  BY DEF viewBar
<1>2. jobBar' = jobBar
  BY JobForm, JobFormAfter DEF OneJob
<1>3. QED
  BY <1>1, <1>2

LEMMA WrittenStep ==
  ASSUME IInv, NEW w \in Writers,
         RetrieveExisting(w) \/ BatchLands(w) \/ BatchFails(w) \/ DeleteStale(w)
  PROVE  Contract!Next \/ UNCHANGED <<viewBar, jobBar>>
<1>1. /\ InCall(w)
      /\ pc[w] \in {"retrieve", "batch", "stale"}
      /\ pc'[w] \in {"batch", "stale", "stamp", "rollback", "shielded"}
  BY DEF RetrieveExisting, BatchLands, BatchFails, DeleteStale, InCall, Goto, IInv, TypeOK
<1>2. InCall(w)'
  BY <1>1 DEF InCall
<1>3. PICK c \in Outcomes(w) : Became(w, c)
  <2>1. points[Src(w)] \in Outcomes(w)
    BY DEF Outcomes
  <2>2. CASE points' = points
    BY <1>1, <2>1, <2>2, CallFacts DEF Became, Src, IInv, TypeOK
  <2>3. CASE BatchLands(w)
    BY <2>3 DEF BatchLands, Outcomes
  <2>4. CASE BatchFails(w)
    BY <2>2, <2>4 DEF BatchFails, Outcomes
  <2>5. CASE DeleteStale(w)
    BY <2>5 DEF DeleteStale, Outcomes
  <2>6. QED
    BY <2>2, <2>3, <2>4, <2>5 DEF RetrieveExisting
<1>4. View(c) \in {View(points[Src(w)]), Dirty}
  BY <1>1, OutcomeView
<1>5. /\ call'[w].src = call[w].src
      /\ call'[w].prod = call[w].prod
      /\ call'[w].old = call[w].old
  <2>1. CASE RetrieveExisting(w)
    <3>1. call'[w] = [call[w] EXCEPT !.pre = Present(points[Src(w)]) \cap call[w].left]
      BY <2>1 DEF RetrieveExisting, IInv, TypeOK
    <3>2. QED
      BY <1>1, <3>1, CallFacts DEF Call
  <2>2. CASE BatchLands(w) \/ BatchFails(w)
    <3>1. pc[w] = "batch" /\ \E b \in Batches(call[w].left) : SendBatch(w, b)
      BY <2>2 DEF BatchLands, BatchFails
    <3>2. QED
      BY <3>1, SendFacts
  <2>3. CASE DeleteStale(w)
    BY <2>3 DEF DeleteStale
  <2>4. QED
    BY <2>1, <2>2, <2>3
<1>6. QED
  BY <1>1, <1>2, <1>3, <1>4, <1>5, InCallStep

LEMMA OverStep ==
  ASSUME IInv, NEW w \in Writers,
         \/ StampHashes(w) \/ UpsertLands(w) \/ DeleteSource(w) \/ Rollback(w)
         \/ RequestFails(w) \/ (Abort(w) /\ pc[w] # "running")
  PROVE  Contract!Next
<1>1. InCall(w)
  BY DEF StampHashes, UpsertLands, DeleteSource, Rollback, RequestFails, Abort, InCall
<1>2. ~InCall(w)'
  <2>1. pc'[w] \in {"running", "idle"}
    BY DEF StampHashes, UpsertLands, DeleteSource, Rollback, RequestFails, Abort,
       Return, Halt, Goto, IInv, TypeOK
  <2>2. QED
    BY <2>1 DEF InCall
<1>3. PICK c \in Outcomes(w) : Became(w, c)
  <2>1. points[Src(w)] \in Outcomes(w)
    BY DEF Outcomes
  <2>2. CASE points' = points
    BY <1>1, <2>1, <2>2, CallFacts DEF Became, Src, IInv, TypeOK
  <2>3. CASE Rollback(w)
    BY <2>2, <2>3 DEF Rollback, Outcomes
  <2>4. CASE StampHashes(w)
    BY <2>4 DEF StampHashes, Outcomes
  <2>5. CASE UpsertLands(w)
    BY <2>5 DEF UpsertLands, Outcomes
  <2>6. CASE DeleteSource(w)
    BY <2>6 DEF DeleteSource, Outcomes
  <2>7. CASE RequestFails(w) \/ (Abort(w) /\ pc[w] # "running")
    BY <2>7 DEF RequestFails, Abort
  <2>8. QED
    BY <2>3, <2>4, <2>5, <2>6, <2>7
<1>4. QED
  BY <1>1, <1>2, <1>3, CallOverStep

LEMMA BeginStep ==
  ASSUME IInv, NEW w \in Writers, NEW s \in Sources,
         BeginDelete(w, s) \/ \E p \in Productions : BeginUpsert(w, s, p) \/ BeginTwoPhase(w, s, p)
  PROVE  Contract!Next
<1>1. CASE BeginDelete(w, s)
  <2>1. Target(NoItems) = None
    BY DEF Target, NoItems
  <2>2. QED
    BY <1>1, <2>1, OpenStep DEF BeginDelete
<1>2. ASSUME NEW p \in Productions, BeginUpsert(w, s, p) \/ BeginTwoPhase(w, s, p)
      PROVE  Contract!Next
  <2>1. Pending(w, s) /\ DOMAIN p.chunk # {}
    BY <1>2 DEF BeginUpsert, BeginTwoPhase
  <2>2. Target(p) \in Contract!Stored
    BY <2>1 DEF Target, Contract!Stored
  <2>3. PICK phase \in {"retrieve", "upsert", "batch", "delete"} : OpenCall(w, s, p, phase)
    BY <1>2 DEF BeginUpsert, BeginTwoPhase
  <2>4. QED
    BY <2>1, <2>2, <2>3, OpenStep
<1>3. QED
  BY <1>1, <1>2

ContractStep == Contract!Next \/ UNCHANGED <<viewBar, jobBar>>

LEMMA StepImplements ==
  ASSUME IInv, [Next]_vars
  PROVE  ContractStep
<1>1. CASE UNCHANGED vars
  BY <1>1 DEF ContractStep, vars, viewBar, jobBar, Writing, InCall
<1>2. ASSUME NEW w \in Writers, Progress(w) \/ Fault(w)
      PROVE  ContractStep
  <2>1. CASE \E s \in Sources :
               \/ BeginDelete(w, s)
               \/ \E p \in Productions : BeginUpsert(w, s, p) \/ BeginTwoPhase(w, s, p)
    BY <2>1, BeginStep DEF ContractStep
  <2>2. CASE RetrieveExisting(w) \/ BatchLands(w) \/ BatchFails(w) \/ DeleteStale(w)
    BY <2>2, WrittenStep DEF ContractStep
  <2>3. CASE \/ StampHashes(w) \/ UpsertLands(w) \/ DeleteSource(w) \/ Rollback(w)
             \/ RequestFails(w) \/ (Abort(w) /\ pc[w] # "running")
    BY <2>3, OverStep DEF ContractStep
  <2>4. CASE \/ StartRun(w) \/ EndRun(w) \/ (Abort(w) /\ pc[w] = "running")
             \/ \E s \in Sources :
                  SkipUnchanged(w, s) \/ NothingToWrite(w, s) \/ Unproduced(w, s)
    <3>1. /\ points' = points
          /\ pc[w] \in {"idle", "running"}
          /\ pc'[w] \in {"idle", "running"}
      BY <2>4 DEF StartRun, EndRun, Abort, Halt, SkipUnchanged, NothingToWrite,
         Unproduced, Pending, Goto, IInv, TypeOK
    <3>2. ~InCall(w) /\ ~InCall(w)'
      BY <3>1 DEF InCall
    <3>3. QED
      BY <3>1, <3>2, BetweenCallsStep DEF ContractStep
  <2>5. CASE Progress(w)
    BY <2>1, <2>2, <2>3, <2>4, <2>5 DEF Progress
  <2>6. CASE Fault(w)
    BY <2>2, <2>3, <2>4, <2>6 DEF Fault
  <2>7. QED
    BY <1>2, <2>5, <2>6
<1>3. QED
  BY <1>1, <1>2 DEF Next

LEMMA InitImplements ==
  ASSUME Init
  PROVE  Contract!Init
<1>1. viewBar = [s \in Sources |-> None]
  BY ViewEmpty DEF viewBar, Init
<1>2. \A s \in Sources : ~ \E w \in Writers : Writing(s, w)
  BY DEF Writing, InCall, Init
<1>3. jobBar = [s \in Sources |-> NoJob]
  BY <1>2 DEF jobBar
<1>4. QED
  BY <1>1, <1>3 DEF Contract!Init

(* The Qdrant write protocol keeps the contract of the stores SyncEngine    *)
(* writes to: whatever fails, a source looks like nothing, like one         *)
(* production, or dirty, and a write that is given up leaves it as it was,  *)
(* as the new items make it, or dirty.                                      *)
THEOREM KeepsContract == Spec => ContractSpec
<1>1. Init => Contract!Init
  BY InitImplements
<1>2. IInv /\ [Next]_vars => [Contract!Next]_<<viewBar, jobBar>>
  BY StepImplements DEF ContractStep
<1>3. QED
  BY <1>1, <1>2, Inductive, PTL DEF Spec, ContractSpec, Contract!Spec, Contract!storeVars
=============================================================================
