--------------------------- MODULE EventFlowProofs ---------------------------
(***************************************************************************)
(* Proofs about the event flow, for any number of instances, any length of *)
(* the oplog and any failures.                                             *)
(***************************************************************************)
EXTENDS EventFlow, SharedLemmas, SequenceTheorems, TLAPS

-----------------------------------------------------------------------------
(* Lemmas about the operators of the model.                                *)

\* Last(ns) is the node of ns with the greatest id.
LEMMA LastNode ==
  ASSUME NEW b \in Nat, NEW E, NEW ns \in SUBSET [id : 1 .. b, ev : E], ns # {}
  PROVE  /\ Last(ns) \in ns
         /\ \A y \in ns : y.id <= Last(ns).id
<1> DEFINE S == {x.id : x \in ns}
<1>1. S \in SUBSET (0 .. b) /\ S # {}
  OBVIOUS
<1>2. PICK m \in S : \A k \in S : k <= m
  BY <1>1, MaxExists
<1>3. \E x \in ns : \A y \in ns : y.id <= x.id
  BY <1>2
<1> QED BY <1>3 DEF Last

\* First(ns) is the node of ns with the least id.
LEMMA FirstNode ==
  ASSUME NEW b \in Nat, NEW E, NEW ns \in SUBSET [id : 1 .. b, ev : E], ns # {}
  PROVE  /\ First(ns) \in ns
         /\ \A y \in ns : First(ns).id <= y.id
<1> DEFINE S == {x.id : x \in ns}
<1>1. S \in SUBSET Nat /\ S # {}
  OBVIOUS
<1>2. PICK m \in S : \A k \in S : m <= k
  BY <1>1, MinExists
<1>3. \E x \in ns : \A y \in ns : x.id <= y.id
  BY <1>2
<1> QED BY <1>3 DEF First

\* The stream position of an event's cluster time lies within the oplog.
LEMMA StartOfType ==
  ASSUME Len(oplog) \in Nat, NEW i
  PROVE  StartOf(i) \in 0 .. Len(oplog)
<1> DEFINE T == {j \in Events : oplog[j].time < oplog[i].time}
<1>1. IsFiniteSet(Events) /\ Cardinality(Events) = Len(oplog)
  <2>1. /\ IsFiniteSet(1 .. Len(oplog))
        /\ Cardinality(1 .. Len(oplog)) = IF 1 > Len(oplog) THEN 0 ELSE Len(oplog) - 1 + 1
    <3>1. 1 \in Int /\ Len(oplog) \in Int
      OBVIOUS
    <3> QED BY <3>1, FS_Interval, Zenon
  <2>2. Cardinality(1 .. Len(oplog)) = Len(oplog)
    BY <2>1
  <2> QED BY <2>1, <2>2 DEF Events
<1>2. T \in SUBSET Events
  OBVIOUS
<1>3. IsFiniteSet(T) /\ Cardinality(T) <= Len(oplog)
  BY <1>1, <1>2, FS_Subset
<1>4. Cardinality(T) \in Nat
  BY <1>3, FS_CardinalityType
<1> QED BY <1>3, <1>4 DEF StartOf

\* Reserving ids above b for a batch gives nodes with these ids and its events.
LEMMA PickedType ==
  ASSUME NEW b \in Nat, NEW E, NEW s \in Seq(E)
  PROVE  /\ Picked(s, b) \in SUBSET [id : 1 .. b + Len(s), ev : E]
         /\ \A x \in Picked(s, b) : b < x.id
BY DEF Picked

-----------------------------------------------------------------------------
(* Type correctness.                                                       *)

Working == {"redis", "insert", "token", "commit"}

\* The conjuncts of TypeOK, grouped as the actions change them together.
SharedType ==
    /\ oplog \in Seq([time : Nat, doc : Docs, ok : BOOLEAN]) /\ Len(oplog) <= MaxEvents
    /\ isMaster \subseteq Nodes /\ stale \subseteq Nodes
    /\ faults \in 0 .. MaxFaults /\ flips \in 0 .. MaxFlips
ChainType ==
    /\ chain \subseteq [id : 1 .. lastId, ev : Events] /\ lastId \in Nat
    /\ token \in [tok : 0 .. Len(oplog), id : 0 .. lastId, startAt : 0 .. Len(oplog)]
    /\ details \subseteq Nat \X Docs
    /\ gaveUp \subseteq Events /\ swallowed \subseteq Events
StreamType ==
    /\ opt \in [Nodes -> [tok : 0 .. Len(oplog), startAt : 0 .. Len(oplog)]]
    /\ rd \in [Nodes -> 0 .. Len(oplog)]
    /\ ch \in [Nodes -> Seq(Events)]
LoopType ==
    /\ pc \in [Nodes -> {"down", "start", "retry", "loop", "gather", "sequence", "invalid",
                         "redis", "insert", "token", "commit"}]
    /\ prev \in [Nodes -> BOOLEAN] /\ retries \in [Nodes -> 0 .. MaxRetry]
WorkType ==
    /\ batch \in [Nodes -> Seq(Events)]
    /\ nodes \in [Nodes -> SUBSET [id : 1 .. lastId, ev : Events]]

\* While doBatch runs it has events, and while it inserts it has nodes.
WorkOK ==
    \A n \in Nodes :
        /\ pc[n] \in Working \cup {"sequence", "invalid"} => batch[n] # << >>
        /\ pc[n] \in Working => nodes[n] # {}

TypeInv == SharedType /\ ChainType /\ StreamType /\ LoopType /\ WorkType /\ WorkOK

\* What the run checks is part of the inductive type invariant.
LEMMA TypeInvTypes == TypeInv => TypeOK
BY DEF TypeInv, TypeOK, SharedType, ChainType, StreamType, LoopType, WorkType

\* The initial states have the types.
LEMMA TypeInit == Init => TypeInv
BY BoundsAssumption DEF Init, TypeInv, SharedType, ChainType, StreamType, LoopType, WorkType,
                        WorkOK, Working, Events

\* The events of a batch are events of the oplog.
LEMMA BatchEventsType ==
  ASSUME TypeInv, NEW n \in Nodes
  PROVE  BatchEvents(n) \subseteq Events
BY DEF TypeInv, WorkType, BatchEvents

\* doBatch returns: whatever it returns, the loop's variables keep their types.
LEMMA ReturnType ==
  ASSUME TypeInv, NEW n \in Nodes, oplog' = oplog, lastId' \in Nat, lastId <= lastId',
         opt' = opt, rd' = rd, prev' = prev,
         BatchDone(n) \/ BatchRetry(n)
  PROVE  StreamType' /\ LoopType' /\ WorkType' /\ WorkOK'
<1> USE DEF TypeInv
<1>1. /\ ch' = ch \/ ch' = [ch EXCEPT ![n] = << >>]
      /\ pc' = [pc EXCEPT ![n] = "loop"] \/ pc' = [pc EXCEPT ![n] = "retry"]
      /\ batch' = [batch EXCEPT ![n] = << >>]
      /\ nodes' = [nodes EXCEPT ![n] = {}]
  BY DEF BatchDone, BatchRetry, DropWork
<1>2. retries' \in [Nodes -> 0 .. MaxRetry]
  BY BoundsAssumption DEF BatchDone, BatchRetry, LoopType
<1>3. StreamType'
  <2>1. << >> \in Seq(Events)
    OBVIOUS
  <2>2. ch' \in [Nodes -> Seq(Events)]
    BY <1>1, <2>1 DEF StreamType
  <2> QED BY <2>2 DEF StreamType, Events
<1>4. LoopType'
  BY <1>1, <1>2 DEF LoopType
<1>5. WorkType'
  BY <1>1 DEF WorkType, ChainType, Events
<1>6. WorkOK'
  BY <1>1 DEF WorkOK, Working, LoopType, WorkType
<1> QED BY <1>3, <1>4, <1>5, <1>6

\* A batch that is given up has events of the oplog.
LEMMA GiveUpType ==
  ASSUME TypeInv, NEW n \in Nodes, BatchRetry(n)
  PROVE  gaveUp' \subseteq Events
<1>1. gaveUp \subseteq Events /\ BatchEvents(n) \subseteq Events
  BY BatchEventsType DEF TypeInv, ChainType
<1> QED BY <1>1 DEF BatchRetry

\* The number of failures stays within its bound.
LEMMA FailType ==
  ASSUME TypeInv, NEW k, Fail(k) \/ NoFail
  PROVE  faults' \in 0 .. MaxFaults
BY BoundsAssumption DEF Fail, NoFail, TypeInv, SharedType

\* Writing two fields of the token record leaves the third.
LEMMA MovedToken ==
  ASSUME NEW L \in Nat, NEW I, NEW r \in [tok : 0 .. L, id : I, startAt : 0 .. L],
         NEW a \in 0 .. L, NEW c \in 0 .. L
  PROVE  [r EXCEPT !.tok = a, !.startAt = c] \in [tok : 0 .. L, id : I, startAt : 0 .. L]
<1>1. [r EXCEPT !.tok = a] \in [tok : 0 .. L, id : I, startAt : 0 .. L]
  OBVIOUS
<1> QED BY <1>1

\* Mastership moves.
LEMMA TypeViewChange ==
  ASSUME TypeInv, NEW n \in Nodes, ViewChange(n)
  PROVE  TypeInv'
<1> USE DEF TypeInv
<1>1. /\ oplog' = oplog /\ UNCHANGED db /\ UNCHANGED loop /\ UNCHANGED work
      /\ UNCHANGED faults /\ UNCHANGED history
  BY DEF ViewChange
<1>2. SharedType'
  BY <1>1, BoundsAssumption DEF ViewChange, SharedType, db
<1>3. ChainType'
  BY <1>1 DEF ChainType, db, history, Events
<1>4. StreamType'
  BY <1>1 DEF StreamType, loop, Events
<1>5. LoopType'
  BY <1>1 DEF LoopType, loop
<1>6. WorkType'
  BY <1>1 DEF WorkType, work, db, Events
<1>7. WorkOK'
  BY <1>1 DEF WorkOK, loop, work
<1> QED BY <1>2, <1>3, <1>4, <1>5, <1>6, <1>7

\* A process ends and starts anew with nothing in its hands.
LEMMA TypeCrash ==
  ASSUME TypeInv, NEW n \in Nodes, Crash(n)
  PROVE  TypeInv'
<1> USE DEF TypeInv
<1>1. SharedType'
  BY FailType DEF Crash, SharedType
<1>2. ChainType'
  BY DEF ChainType, Crash, history, Events
<1>3. StreamType'
  BY DEF StreamType, SharedType, Events, Crash
<1>4. LoopType'
  BY BoundsAssumption DEF LoopType, Crash
<1>5. WorkType'
  BY DEF WorkType, Crash, DropWork, Events
<1>6. WorkOK'
  BY DEF WorkOK, Working, Crash, DropWork, LoopType, WorkType
<1> QED BY <1>1, <1>2, <1>3, <1>4, <1>5, <1>6

\* Start and restart: the stream's position and options lie within the oplog.
LEMMA WatchType ==
  ASSUME TypeInv, NEW n \in Nodes, oplog' = oplog,
         NEW o \in [tok : 0 .. Len(oplog), startAt : 0 .. Len(oplog)], Watch(n, o)
  PROVE  StreamType'
<1>1. (IF o.tok # 0 THEN o.tok ELSE o.startAt) \in 0 .. Len(oplog)
  OBVIOUS
<1> QED BY <1>1 DEF Watch, TypeInv, StreamType, Events

\* RunEventFlow reads the token and opens the watch.
LEMMA TypeRunFlow ==
  ASSUME TypeInv, NEW n \in Nodes, RunFlow(n)
  PROVE  TypeInv'
<1> USE DEF TypeInv
<1>1. PICK t \in 0 .. Len(oplog) :
         GetStartWatchToken(t) /\ Watch(n, [tok |-> t, startAt |-> token.startAt])
  BY DEF RunFlow
<1>2. /\ oplog' = oplog /\ UNCHANGED db /\ isMaster' = isMaster /\ UNCHANGED work
      /\ prev' = prev /\ retries' = retries /\ flips' = flips /\ UNCHANGED history
  BY DEF RunFlow
<1>3. SharedType'
  BY <1>1, <1>2, FailType DEF GetStartWatchToken, SharedType, db
<1>4. ChainType'
  BY <1>2 DEF ChainType, db, history, Events
<1>5. StreamType'
  <2>1. [tok |-> t, startAt |-> token.startAt] \in [tok : 0 .. Len(oplog), startAt : 0 .. Len(oplog)]
    BY DEF ChainType
  <2> QED BY <1>1, <1>2, <2>1, WatchType
<1>6. LoopType'
  BY <1>1, <1>2 DEF LoopType, Watch
<1>7. WorkType'
  BY <1>2 DEF WorkType, work, db, Events
<1>8. WorkOK'
  BY <1>1, <1>2 DEF WorkOK, Working, Watch, work, LoopType
<1> QED BY <1>3, <1>4, <1>5, <1>6, <1>7, <1>8

\* tryLoopWithBatch begins: the loop remembers whether it is master.
LEMMA TypeStartLoop ==
  ASSUME TypeInv, NEW n \in Nodes, StartLoop(n)
  PROVE  TypeInv'
<1> USE DEF TypeInv
<1>1. SharedType'
  BY DEF StartLoop, SharedType, db
<1>2. ChainType'
  BY DEF StartLoop, ChainType, db, history, Events
<1>3. StreamType'
  BY DEF StartLoop, StreamType, Events
<1>4. LoopType'
  BY DEF StartLoop, LoopType
<1>5. WorkType'
  BY DEF StartLoop, WorkType, work, db, Events
<1>6. WorkOK'
  BY DEF StartLoop, WorkOK, Working, work, LoopType
<1> QED BY <1>1, <1>2, <1>3, <1>4, <1>5, <1>6

\* The loop watches again after an error.
LEMMA TypeWatchRetry ==
  ASSUME TypeInv, NEW n \in Nodes, WatchRetry(n)
  PROVE  TypeInv'
<1> USE DEF TypeInv
<1>1. /\ oplog' = oplog /\ UNCHANGED db /\ isMaster' = isMaster /\ UNCHANGED work
      /\ prev' = prev /\ retries' = retries /\ flips' = flips /\ UNCHANGED history
  BY DEF WatchRetry
<1>2. CASE Fail("read") /\ UNCHANGED << pc, opt, rd, ch >>
  <2>1. SharedType' /\ ChainType'
    BY <1>1, <1>2, FailType DEF SharedType, ChainType, db, history, Events
  <2>2. StreamType' /\ LoopType' /\ WorkType' /\ WorkOK'
    BY <1>1, <1>2 DEF StreamType, LoopType, WorkType, WorkOK, work, db, Events
  <2> QED BY <2>1, <2>2
<1>3. CASE \E t \in 0 .. Len(oplog) :
             /\ GetStartWatchToken(t)
             /\ Watch(n, [opt[n] EXCEPT !.tok = IF t # 0 THEN t ELSE @])
  <2> DEFINE O(t) == [opt[n] EXCEPT !.tok = IF t # 0 THEN t ELSE @]
  <2>1. PICK t \in 0 .. Len(oplog) : GetStartWatchToken(t) /\ Watch(n, O(t))
    BY <1>3
  <2>2. SharedType'
    BY <1>1, <2>1, FailType DEF GetStartWatchToken, SharedType, db
  <2>3. ChainType'
    BY <1>1 DEF ChainType, db, history, Events
  <2>4. O(t) \in [tok : 0 .. Len(oplog), startAt : 0 .. Len(oplog)]
    BY DEF StreamType
  <2>5. StreamType'
    BY <1>1, <2>1, <2>4, WatchType
  <2>6. LoopType'
    BY <1>1, <2>1 DEF LoopType, Watch
  <2>7. WorkType'
    BY <1>1 DEF WorkType, work, db, Events
  <2>8. WorkOK'
    BY <1>1, <2>1 DEF WorkOK, Working, Watch, work, LoopType
  <2> QED BY <2>2, <2>3, <2>5, <2>6, <2>7, <2>8
<1> QED BY <1>2, <1>3 DEF WatchRetry

\* The stream puts the next change into the channel.
LEMMA TypeStreamNext ==
  ASSUME TypeInv, NEW n \in Nodes, StreamNext(n)
  PROVE  TypeInv'
<1> USE DEF TypeInv
<1>1. SharedType'
  BY DEF StreamNext, SharedType, db
<1>2. ChainType'
  BY DEF StreamNext, ChainType, db, history, Events
<1>3. StreamType'
  <2>1. rd[n] + 1 \in Events /\ rd[n] + 1 \in 0 .. Len(oplog)
    BY DEF StreamNext, StreamType, SharedType, Events
  <2>2. Append(ch[n], rd[n] + 1) \in Seq(Events)
    BY <2>1 DEF StreamType
  <2> QED BY <2>1, <2>2 DEF StreamNext, StreamType, Events
<1>4. LoopType'
  BY DEF StreamNext, LoopType
<1>5. WorkType'
  BY DEF StreamNext, WorkType, work, db, Events
<1>6. WorkOK'
  BY DEF StreamNext, WorkOK, work
<1> QED BY <1>1, <1>2, <1>3, <1>4, <1>5, <1>6

\* The stream reopens its cursor at an older place.
LEMMA TypeStreamRewind ==
  ASSUME TypeInv, NEW n \in Nodes, StreamRewind(n)
  PROVE  TypeInv'
<1> USE DEF TypeInv
<1>1. PICK q \in 0 .. Len(oplog) :
         /\ rd' = [rd EXCEPT ![n] = q]
         /\ \/ SetToken([token EXCEPT !.tok = 0, !.startAt = q])
            \/ UNCHANGED << token, stale >>
  BY DEF StreamRewind
<1>2. SharedType'
  BY <1>1, FailType DEF StreamRewind, SharedType, SetToken
<1>3. ChainType'
  <2>1. [token EXCEPT !.tok = 0, !.startAt = q]
           \in [tok : 0 .. Len(oplog), id : 0 .. lastId, startAt : 0 .. Len(oplog)]
    <3>1. Len(oplog) \in Nat /\ 0 \in 0 .. Len(oplog)
      BY DEF SharedType
    <3> QED BY <3>1, MovedToken DEF ChainType
  <2>2. token' \in [tok : 0 .. Len(oplog), id : 0 .. lastId, startAt : 0 .. Len(oplog)]
    BY <1>1, <2>1 DEF SetToken, ChainType
  <2> QED BY <2>2 DEF StreamRewind, ChainType, history, Events
<1>4. StreamType'
  BY <1>1 DEF StreamRewind, StreamType, Events
<1>5. LoopType'
  BY DEF StreamRewind, LoopType
<1>6. WorkType'
  BY DEF StreamRewind, WorkType, work, Events
<1>7. WorkOK'
  BY DEF StreamRewind, WorkOK, work
<1> QED BY <1>2, <1>3, <1>4, <1>5, <1>6, <1>7

\* The loop looks at its mastership.
LEMMA TypeCanLoop ==
  ASSUME TypeInv, NEW n \in Nodes, CanLoop(n)
  PROVE  TypeInv'
<1> USE DEF TypeInv
<1>1. SharedType'
  BY DEF CanLoop, SharedType, db
<1>2. ChainType'
  BY DEF CanLoop, ChainType, db, history, Events
<1>3. StreamType'
  <2>1. << >> \in Seq(Events)
    OBVIOUS
  <2>2. ch' \in [Nodes -> Seq(Events)]
    BY <2>1 DEF CanLoop, StreamType
  <2> QED BY <2>2 DEF CanLoop, StreamType, Events
<1>4. LoopType'
  <2>1. (n \in isMaster) \in BOOLEAN
    OBVIOUS
  <2>2. prev' \in [Nodes -> BOOLEAN]
    BY <2>1, Zenon DEF CanLoop, LoopType
  <2>3. pc' = pc \/ pc' = [pc EXCEPT ![n] = "retry"] \/ pc' = [pc EXCEPT ![n] = "gather"]
    BY DEF CanLoop
  <2>4. retries' = retries
    BY DEF CanLoop
  <2> QED BY <2>2, <2>3, <2>4 DEF LoopType
<1>5. WorkType'
  BY DEF CanLoop, WorkType, work, db, Events
<1>6. WorkOK'
  BY DEF CanLoop, WorkOK, Working, work, LoopType
<1> QED BY <1>1, <1>2, <1>3, <1>4, <1>5, <1>6

\* The loop takes a batch from the channel.
LEMMA TypeGather ==
  ASSUME TypeInv, NEW n \in Nodes, Gather(n)
  PROVE  TypeInv'
<1> USE DEF TypeInv
<1>1. SharedType'
  BY DEF Gather, SharedType, db
<1>2. ChainType'
  BY DEF Gather, ChainType, db, history, Events
<1>3. CASE ch[n] = << >> /\ UNCHANGED << pc, ch, batch >>
  BY <1>1, <1>2, <1>3 DEF Gather, StreamType, LoopType, WorkType, WorkOK, db, Events
<1>4. CASE \E k \in 1 .. Len(ch[n]) :
            /\ k <= BatchSize
            /\ batch' = [batch EXCEPT ![n] = SubSeq(ch[n], 1, k)]
            /\ ch' = [ch EXCEPT ![n] = SubSeq(@, k + 1, Len(@))]
            /\ pc' = [pc EXCEPT ![n] = "sequence"]
  <2>1. PICK k \in 1 .. Len(ch[n]) :
            /\ batch' = [batch EXCEPT ![n] = SubSeq(ch[n], 1, k)]
            /\ ch' = [ch EXCEPT ![n] = SubSeq(@, k + 1, Len(@))]
            /\ pc' = [pc EXCEPT ![n] = "sequence"]
    BY <1>4
  <2>2. ch[n] \in Seq(Events)
    BY DEF StreamType
  <2>3. /\ SubSeq(ch[n], 1, k) \in Seq(Events) /\ SubSeq(ch[n], 1, k) # << >>
        /\ SubSeq(ch[n], k + 1, Len(ch[n])) \in Seq(Events)
    BY <2>2
  <2>4. StreamType'
    BY <2>1, <2>3 DEF Gather, StreamType, Events
  <2>5. LoopType'
    BY <2>1 DEF Gather, LoopType
  <2>6. WorkType'
    BY <2>1, <2>3 DEF Gather, WorkType, db, Events
  <2>7. WorkOK'
    BY <2>1, <2>3 DEF Gather, WorkOK, Working, LoopType, WorkType
  <2> QED BY <1>1, <1>2, <2>4, <2>5, <2>6, <2>7
<1> QED BY <1>3, <1>4 DEF Gather

\* Ids for the batch are reserved, or the batch has no valid event.
LEMMA TypeNextSequences ==
  ASSUME TypeInv, NEW n \in Nodes, NextSequences(n)
  PROVE  TypeInv'
<1> USE DEF TypeInv
<1>1. /\ oplog' = oplog /\ chain' = chain /\ token' = token /\ details' = details
      /\ stale' = stale /\ isMaster' = isMaster /\ opt' = opt /\ rd' = rd /\ prev' = prev
      /\ flips' = flips /\ swallowed' = swallowed
  BY DEF NextSequences
<1>2. batch[n] \in Seq(Events) /\ Len(batch[n]) \in Nat /\ lastId \in Nat
  BY DEF WorkType, ChainType
<1>3. lastId' \in Nat /\ lastId <= lastId'
  BY <1>2 DEF NextSequences
<1>4. SharedType'
  BY <1>1, FailType DEF NextSequences, SharedType
<1>5. ChainType'
  <2>1. gaveUp' \subseteq Events
    BY GiveUpType DEF NextSequences, ChainType
  <2> QED BY <1>1, <1>3, <2>1 DEF ChainType, Events
<1>6. CASE Fail("sequence") /\ BatchRetry(n) /\ UNCHANGED lastId
  BY <1>1, <1>3, <1>4, <1>5, <1>6, ReturnType
<1>7. CASE /\ NoFail
           /\ lastId' = lastId + Len(batch[n])
           /\ nodes' = [nodes EXCEPT ![n] = Picked(batch[n], lastId)]
           /\ pc' = [pc EXCEPT ![n] =
                         IF Picked(batch[n], lastId) = {} THEN "invalid" ELSE "redis"]
           /\ UNCHANGED << ch, retries, batch, gaveUp >>
  <2>1. Picked(batch[n], lastId) \subseteq [id : 1 .. lastId', ev : Events]
    BY <1>2, <1>7, PickedType
  <2>2. StreamType'
    BY <1>1, <1>7 DEF StreamType, Events
  <2>3. LoopType'
    BY <1>1, <1>7 DEF LoopType
  <2>4. WorkType'
    <3>1. \A m \in Nodes : nodes[m] \subseteq [id : 1 .. lastId', ev : Events]
      BY <1>3, <1>2 DEF WorkType
    <3> QED BY <1>1, <1>7, <2>1, <3>1 DEF WorkType, Events
  <2>5. WorkOK'
    BY <1>7 DEF WorkOK, Working, LoopType, WorkType, NextSequences
  <2> QED BY <1>4, <1>5, <2>2, <2>3, <2>4, <2>5
<1> QED BY <1>6, <1>7 DEF NextSequences

\* The token record is moved to the last event of a batch.
LEMMA TokenOfBatch ==
  ASSUME TypeInv, NEW n \in Nodes, batch[n] # << >>
  PROVE  /\ batch[n][Len(batch[n])] \in Events
         /\ batch[n][Len(batch[n])] \in 0 .. Len(oplog)
         /\ StartOf(batch[n][Len(batch[n])]) \in 0 .. Len(oplog)
<1>1. batch[n] \in Seq(Events) /\ Len(oplog) \in Nat
  BY DEF TypeInv, WorkType, SharedType
<1>2. batch[n][Len(batch[n])] \in Events
  BY <1>1
<1> QED BY <1>1, <1>2, StartOfType DEF Events

\* A batch without a valid event only moves the token.
LEMMA TypeSkipInvalid ==
  ASSUME TypeInv, NEW n \in Nodes, SkipInvalid(n)
  PROVE  TypeInv'
<1> USE DEF TypeInv
<1>1. /\ oplog' = oplog /\ chain' = chain /\ lastId' = lastId /\ details' = details
      /\ isMaster' = isMaster /\ opt' = opt /\ rd' = rd /\ prev' = prev
      /\ flips' = flips /\ gaveUp' = gaveUp /\ swallowed' = swallowed /\ BatchDone(n)
  BY DEF SkipInvalid, history
<1>2. SharedType'
  BY <1>1, FailType DEF SkipInvalid, SharedType, SetToken
<1>3. ChainType'
  <2> DEFINE e == batch[n][Len(batch[n])]
             t == [token EXCEPT !.tok = e, !.startAt = StartOf(e)]
  <2>1. e \in 0 .. Len(oplog) /\ StartOf(e) \in 0 .. Len(oplog)
    BY TokenOfBatch DEF SkipInvalid, WorkOK
  <2>2. t \in [tok : 0 .. Len(oplog), id : 0 .. lastId, startAt : 0 .. Len(oplog)]
    BY <2>1, MovedToken DEF ChainType, SharedType
  <2>3. token' = token \/ token' = t
    BY DEF SkipInvalid, SetToken
  <2> HIDE DEF t
  <2> QED BY <1>1, <2>2, <2>3 DEF ChainType, Events
<1>4. StreamType' /\ LoopType' /\ WorkType' /\ WorkOK'
  <2>1. lastId' \in Nat /\ lastId <= lastId'
    BY <1>1 DEF ChainType
  <2> QED BY <1>1, <2>1, ReturnType
<1> QED BY <1>2, <1>3, <1>4

\* A step that leaves the token's record, the chain and the oplog alone.
LEMMA TypeStoreDetails ==
  ASSUME TypeInv, NEW n \in Nodes, StoreDetails(n)
  PROVE  TypeInv'
<1> USE DEF TypeInv
<1>1. /\ oplog' = oplog /\ chain' = chain /\ lastId' = lastId /\ token' = token
      /\ stale' = stale /\ isMaster' = isMaster /\ opt' = opt /\ rd' = rd /\ prev' = prev
      /\ flips' = flips /\ swallowed' = swallowed
  BY DEF StoreDetails
<1>2. SharedType'
  BY <1>1, FailType DEF StoreDetails, SharedType
<1>3. ChainType'
  <2>1. DetailCursors(n) \subseteq Nat \X Docs
    <3>1. \A i \in Events : Cursor(i) \in Nat \X Docs
      <4>1. \A i \in Events : oplog[i] \in [time : Nat, doc : Docs, ok : BOOLEAN]
        <5>1. oplog \in Seq([time : Nat, doc : Docs, ok : BOOLEAN])
          BY DEF SharedType
        <5> QED BY <5>1, ElementOfSeq DEF Events
      <4> QED BY <4>1 DEF Cursor
    <3>2. \A i \in DOMAIN batch[n] : batch[n][i] \in Events
      BY DEF WorkType
    <3> QED BY <3>1, <3>2 DEF DetailCursors
  <2>2. details' \subseteq Nat \X Docs
    BY <2>1 DEF StoreDetails, ChainType
  <2>3. gaveUp' \subseteq Events
    BY GiveUpType DEF StoreDetails, ChainType
  <2> QED BY <1>1, <2>2, <2>3 DEF ChainType, Events
<1>4. lastId' \in Nat /\ lastId <= lastId'
  BY <1>1 DEF ChainType
<1>5. CASE BatchRetry(n)
  BY <1>1, <1>2, <1>3, <1>4, <1>5, ReturnType
<1>6. CASE pc' = [pc EXCEPT ![n] = "insert"] /\ UNCHANGED << ch, retries, work, gaveUp >>
  <2>1. StreamType' /\ LoopType'
    BY <1>1, <1>6 DEF StreamType, LoopType, Events
  <2>2. WorkType'
    BY <1>1, <1>6 DEF WorkType, work, Events
  <2>3. WorkOK'
    BY <1>6 DEF WorkOK, Working, work, LoopType, StoreDetails
  <2> QED BY <1>2, <1>3, <2>1, <2>2, <2>3
<1> QED BY <1>5, <1>6 DEF StoreDetails

\* InsertError and BatchDone leave doBatch.
LEMMA InsertErrorType ==
  ASSUME TypeInv, NEW n \in Nodes, InsertError(n)
  PROVE  BatchDone(n) /\ swallowed' \subseteq Events
<1>1. swallowed \subseteq Events /\ BatchEvents(n) \subseteq Events
  BY BatchEventsType DEF TypeInv, ChainType
<1> QED BY <1>1 DEF InsertError

\* The nodes of the batch are inserted within a transaction.
LEMMA TypeInsertNodes ==
  ASSUME TypeInv, NEW n \in Nodes, InsertNodes(n)
  PROVE  TypeInv'
<1> USE DEF TypeInv
<1>1. /\ oplog' = oplog /\ UNCHANGED db /\ isMaster' = isMaster /\ opt' = opt /\ rd' = rd
      /\ prev' = prev /\ flips' = flips
  BY DEF InsertNodes
<1>2. lastId' \in Nat /\ lastId <= lastId'
  BY <1>1 DEF ChainType, db
<1>3. SharedType'
  BY <1>1, FailType DEF InsertNodes, SharedType, db
<1>4. gaveUp' \subseteq Events /\ swallowed' \subseteq Events
  BY GiveUpType, InsertErrorType DEF InsertNodes, ChainType, history
<1>5. ChainType'
  BY <1>1, <1>4 DEF ChainType, db, Events
<1>6. CASE BatchDone(n) \/ BatchRetry(n)
  BY <1>1, <1>2, <1>3, <1>5, <1>6, ReturnType
<1>7. CASE pc' = [pc EXCEPT ![n] = "token"] /\ UNCHANGED << ch, retries, work >>
  <2>1. StreamType' /\ LoopType'
    BY <1>1, <1>7 DEF StreamType, LoopType, Events
  <2>2. WorkType'
    BY <1>1, <1>7 DEF WorkType, work, db, Events
  <2>3. WorkOK'
    BY <1>7 DEF WorkOK, Working, work, LoopType, InsertNodes
  <2> QED BY <1>3, <1>5, <2>1, <2>2, <2>3
<1>8. CASE /\ Cardinality(nodes[n]) > 1
           /\ nodes' = [nodes EXCEPT ![n] = @ \ {First(@)}]
           /\ UNCHANGED << pc, ch, retries, batch >>
  <2>1. StreamType' /\ LoopType'
    BY <1>1, <1>8 DEF StreamType, LoopType, Events
  <2>2. WorkType'
    BY <1>1, <1>8 DEF WorkType, db, Events
  <2>3. nodes[n] \ {First(nodes[n])} # {}
    <3>1. SUFFICES ASSUME nodes[n] \subseteq {First(nodes[n])}
                   PROVE  FALSE
      OBVIOUS
    <3>2. nodes[n] = {} \/ nodes[n] = {First(nodes[n])}
      BY <3>1
    <3>3. Cardinality(nodes[n]) \in {0, 1}
      BY <3>2, FS_EmptySet, FS_Singleton
    <3> QED BY <3>3, <1>8
  <2>4. WorkOK'
    BY <1>8, <2>3 DEF WorkOK, WorkType
  <2> QED BY <1>3, <1>5, <2>1, <2>2, <2>4
<1> QED BY <1>6, <1>7, <1>8, InsertErrorType DEF InsertNodes

\* The token is moved within the transaction.
LEMMA TypeSetTokenInTxn ==
  ASSUME TypeInv, NEW n \in Nodes, SetTokenInTxn(n)
  PROVE  TypeInv'
<1> USE DEF TypeInv
<1>1. /\ oplog' = oplog /\ chain' = chain /\ lastId' = lastId /\ token' = token
      /\ details' = details /\ isMaster' = isMaster /\ opt' = opt /\ rd' = rd
      /\ prev' = prev /\ flips' = flips /\ gaveUp' = gaveUp /\ stale' = stale \ {n}
  BY DEF SetTokenInTxn
<1>2. lastId' \in Nat /\ lastId <= lastId'
  BY <1>1 DEF ChainType
<1>3. SharedType'
  BY <1>1, FailType DEF SetTokenInTxn, SharedType
<1>4. ChainType'
  <2>1. swallowed' \subseteq Events
    BY InsertErrorType DEF SetTokenInTxn, ChainType
  <2> QED BY <1>1, <2>1 DEF ChainType, Events
<1>5. CASE BatchDone(n)
  BY <1>1, <1>2, <1>3, <1>4, <1>5, ReturnType
<1>6. CASE pc' = [pc EXCEPT ![n] = "commit"] /\ UNCHANGED << ch, retries, work >>
  <2>1. StreamType' /\ LoopType'
    BY <1>1, <1>6 DEF StreamType, LoopType, Events
  <2>2. WorkType'
    BY <1>1, <1>6 DEF WorkType, work, Events
  <2>3. WorkOK'
    BY <1>6 DEF WorkOK, Working, work, LoopType, SetTokenInTxn
  <2> QED BY <1>3, <1>4, <2>1, <2>2, <2>3
<1> QED BY <1>5, <1>6, InsertErrorType DEF SetTokenInTxn

\* The transaction is committed.
LEMMA TypeCommitTransaction ==
  ASSUME TypeInv, NEW n \in Nodes, CommitTransaction(n)
  PROVE  TypeInv'
<1> USE DEF TypeInv
<1>1. /\ oplog' = oplog /\ lastId' = lastId /\ details' = details /\ isMaster' = isMaster
      /\ opt' = opt /\ rd' = rd /\ prev' = prev /\ flips' = flips /\ swallowed' = swallowed
  BY DEF CommitTransaction
<1>2. lastId' \in Nat /\ lastId <= lastId'
  BY <1>1 DEF ChainType
<1>3. CASE UNCHANGED << chain, token, stale >> /\ Fail("commit") /\ BatchRetry(n)
  <2>1. SharedType'
    BY <1>1, <1>3, FailType DEF SharedType
  <2>2. ChainType'
    BY <1>1, <1>3, GiveUpType DEF ChainType, Events
  <2> QED BY <1>1, <1>2, <1>3, <2>1, <2>2, ReturnType
<1>4. CASE Commit(n) /\ (BatchDone(n) \/ BatchRetry(n))
  <2>1. SharedType'
    BY <1>1, <1>4, FailType DEF CommitTransaction, SharedType, Commit, SetToken
  <2>2. nodes[n] \subseteq [id : 1 .. lastId, ev : Events] /\ nodes[n] # {} /\ batch[n] # << >>
    BY DEF CommitTransaction, WorkType, WorkOK, Working
  <2>3. Last(nodes[n]) \in nodes[n]
    BY <2>2, LastNode DEF ChainType
  <2>4. /\ batch[n][Len(batch[n])] \in 0 .. Len(oplog)
        /\ Last(nodes[n]).id \in 0 .. lastId
        /\ StartOf(Last(nodes[n]).ev) \in 0 .. Len(oplog)
    BY <2>2, <2>3, TokenOfBatch, StartOfType DEF SharedType, ChainType
  <2>5. token' \in [tok : 0 .. Len(oplog), id : 0 .. lastId, startAt : 0 .. Len(oplog)]
    BY <1>4, <2>4 DEF Commit, SetToken
  <2>6. chain' \subseteq [id : 1 .. lastId, ev : Events]
    BY <1>4, <2>2 DEF Commit, ChainType
  <2>7. gaveUp' \subseteq Events
    BY GiveUpType DEF CommitTransaction, ChainType
  <2>8. ChainType'
    BY <1>1, <2>5, <2>6, <2>7 DEF ChainType, Events
  <2> QED BY <1>1, <1>2, <1>4, <2>1, <2>8, ReturnType
<1> QED BY <1>3, <1>4 DEF CommitTransaction

\* A write appends to the oplog: what was an event stays one.
LEMMA TypeWrite ==
  ASSUME TypeInv, Write
  PROVE  TypeInv'
<1> USE DEF TypeInv
<1> DEFINE E == [time : Nat, doc : Docs, ok : BOOLEAN]
<1>1. PICK s \in TxnShapes :
         /\ Len(oplog) + Len(s) <= MaxEvents
         /\ oplog' = oplog \o [i \in DOMAIN s |->
                                  [time |-> Len(oplog) + 1, doc |-> s[i].doc, ok |-> s[i].ok]]
  BY DEF Write
<1> DEFINE a == [i \in DOMAIN s |->
                    [time |-> Len(oplog) + 1, doc |-> s[i].doc, ok |-> s[i].ok]]
<1>2. s \in Seq([doc : Docs, ok : BOOLEAN])
  BY ShapesAssumption
<1>3. a \in Seq(E) /\ Len(a) = Len(s)
  <2>1. /\ s \in [1 .. Len(s) -> [doc : Docs, ok : BOOLEAN]] /\ Len(s) \in Nat
        /\ DOMAIN s = 1 .. Len(s)
    BY <1>2, LenProperties
  <2>2. Len(oplog) + 1 \in Nat
    BY DEF SharedType
  <2>3. \A i \in 1 .. Len(s) :
           [time |-> Len(oplog) + 1, doc |-> s[i].doc, ok |-> s[i].ok] \in E
    BY <2>1, <2>2
  <2>4. a \in [1 .. Len(s) -> E]
    BY <2>1, <2>3, Zenon
  <2> HIDE DEF a, E
  <2>5. a \in Seq(E)
    BY <2>1, <2>4, SeqDef
  <2>6. DOMAIN a = 1 .. Len(s) /\ DOMAIN a = 1 .. Len(a) /\ Len(a) \in Nat
    BY <2>4, <2>5, LenProperties
  <2>7. Len(s) \in Nat /\ 1 .. Len(s) = 1 .. Len(a)
    BY <2>1, <2>6
  <2>8. Len(a) = Len(s)
    BY <2>6, <2>7, IntervalLength
  <2> QED BY <2>5, <2>8
<1>4. oplog \in Seq(E) /\ oplog' = oplog \o a
  BY <1>1 DEF SharedType
<1> HIDE DEF a
<1>5. oplog' \in Seq(E) /\ Len(oplog') = Len(oplog) + Len(s) /\ Len(s) \in Nat
  <2> HIDE DEF E
  <2>1. oplog \o a \in Seq(E) /\ Len(oplog \o a) = Len(oplog) + Len(a)
    BY <1>3, <1>4, ConcatProperties
  <2>2. Len(s) \in Nat
    BY <1>2, LenProperties
  <2> QED BY <1>3, <1>4, <2>1, <2>2
<1>6. Len(oplog) \in Nat /\ Len(oplog') \in Nat /\ Len(oplog) <= Len(oplog')
  BY <1>4, <1>5
<1>7. Events \subseteq Events' /\ 0 .. Len(oplog) \subseteq 0 .. Len(oplog')
  BY <1>6 DEF Events
<1>8. /\ UNCHANGED db /\ isMaster' = isMaster /\ UNCHANGED loop /\ UNCHANGED work
      /\ faults' = faults /\ flips' = flips /\ UNCHANGED history
  BY DEF Write
<1>9. SharedType'
  BY <1>1, <1>5, <1>8 DEF SharedType, db
<1>10. ChainType'
  <2>1. [id : 1 .. lastId, ev : Events] \subseteq [id : 1 .. lastId', ev : Events']
    BY <1>7, <1>8 DEF db
  <2>2. [tok : 0 .. Len(oplog), id : 0 .. lastId, startAt : 0 .. Len(oplog)]
           \subseteq [tok : 0 .. Len(oplog'), id : 0 .. lastId', startAt : 0 .. Len(oplog')]
    BY <1>7, <1>8 DEF db
  <2> QED BY <1>7, <1>8, <2>1, <2>2 DEF ChainType, db, history
<1>11. Seq(Events) \subseteq Seq(Events')
  BY <1>7, SeqMonotonic
<1>12. StreamType'
  <2>1. [tok : 0 .. Len(oplog), startAt : 0 .. Len(oplog)]
           \subseteq [tok : 0 .. Len(oplog'), startAt : 0 .. Len(oplog')]
    BY <1>7
  <2> QED BY <1>7, <1>8, <1>11, <2>1 DEF StreamType, loop
<1>13. LoopType'
  BY <1>8 DEF LoopType, loop
<1>14. WorkType'
  <2>1. [id : 1 .. lastId, ev : Events] \subseteq [id : 1 .. lastId', ev : Events']
    BY <1>7, <1>8 DEF db
  <2> QED BY <1>8, <1>11, <2>1 DEF WorkType, work
<1>15. WorkOK'
  BY <1>8 DEF WorkOK, loop, work
<1> QED BY <1>9, <1>10, <1>12, <1>13, <1>14, <1>15

\* Steps that leave everything alone.
LEMMA TypeStutter == TypeInv /\ UNCHANGED vars => TypeInv'
BY DEF TypeInv, SharedType, ChainType, StreamType, LoopType, WorkType, WorkOK, Events,
       vars, db, loop, work, history

\* Every step keeps the types.
LEMMA TypeStep == TypeInv /\ [Next]_vars => TypeInv'
<1> SUFFICES ASSUME TypeInv, [Next]_vars
             PROVE  TypeInv'
  OBVIOUS
<1>1. CASE UNCHANGED vars
  BY <1>1, TypeStutter
<1>2. CASE Write
  BY <1>2, TypeWrite
<1>3. ASSUME NEW n \in Nodes, LoopStep(n)
      PROVE  TypeInv'
  BY <1>3, TypeRunFlow, TypeStartLoop, TypeWatchRetry, TypeCanLoop, TypeGather,
     TypeNextSequences, TypeSkipInvalid, TypeStoreDetails, TypeInsertNodes,
     TypeSetTokenInTxn, TypeCommitTransaction DEF LoopStep
<1>4. ASSUME NEW n \in Nodes, StreamNext(n) \/ StreamRewind(n) \/ ViewChange(n) \/ Crash(n)
      PROVE  TypeInv'
  BY <1>4, TypeStreamNext, TypeStreamRewind, TypeViewChange, TypeCrash
<1> QED BY <1>1, <1>2, <1>3, <1>4 DEF Next

\* The types hold in every state the flow can be in.
LEMMA TypeInvariant == Spec => []TypeInv
<1>1. Init => TypeInv
  BY TypeInit
<1>2. TypeInv /\ [Next]_vars => TypeInv'
  BY TypeStep
<1> QED BY <1>1, <1>2, PTL DEF Spec

\* The variables of every instance keep their types, for any oplog length.
THEOREM TypeCorrect == Spec => []TypeOK
BY TypeInvariant, TypeInvTypes, PTL

-----------------------------------------------------------------------------
(* Ids: whoever reserves and inserts them, two nodes never share one.      *)

\* Inside one instance's nodes the ids differ as well.
OwnIdsDiffer == \A n \in Nodes : \A x, y \in nodes[n] : x.id = y.id => x = y

IdInv == TypeInv /\ IdsUnique /\ OwnIdsDiffer

\* Of one batch every event gets an id of its own.
LEMMA PickedDiffer ==
  ASSUME NEW b \in Nat, NEW E, NEW s \in Seq(E)
  PROVE  \A x, y \in Picked(s, b) : x.id = y.id => x = y
<1> SUFFICES ASSUME NEW x \in Picked(s, b), NEW y \in Picked(s, b), x.id = y.id
             PROVE  x = y
  OBVIOUS
<1>1. DOMAIN s \subseteq Nat
  BY LenProperties
<1>2. PICK i \in DOMAIN s : x = [id |-> b + i, ev |-> s[i]]
  BY DEF Picked
<1>3. PICK j \in DOMAIN s : y = [id |-> b + j, ev |-> s[j]]
  BY DEF Picked
<1>4. b + i = b + j
  BY <1>2, <1>3
<1> QED BY <1>1, <1>2, <1>3, <1>4

\* Steps that add neither chain nodes nor nodes to insert keep the ids apart.
LEMMA IdsShrink ==
  ASSUME IdsUnique, OwnIdsDiffer, chain' = chain, \A m \in Nodes : nodes'[m] \subseteq nodes[m]
  PROVE  IdsUnique' /\ OwnIdsDiffer'
BY DEF IdsUnique, OwnIdsDiffer

\* Newly reserved ids are above all that any instance has.
LEMMA IdNextSequences ==
  ASSUME IdInv, NEW n \in Nodes, NextSequences(n)
  PROVE  IdsUnique' /\ OwnIdsDiffer'
<1> USE DEF IdInv, TypeInv
<1>1. chain' = chain
  BY DEF NextSequences
<1>2. CASE BatchRetry(n)
  <2>1. \A m \in Nodes : nodes'[m] \subseteq nodes[m]
    BY <1>2 DEF BatchRetry, BatchDone, DropWork, WorkType
  <2> QED BY <1>1, <2>1, IdsShrink
<1>3. CASE nodes' = [nodes EXCEPT ![n] = Picked(batch[n], lastId)]
  <2> DEFINE new == Picked(batch[n], lastId)
  <2>1. lastId \in Nat /\ batch[n] \in Seq(Events)
    BY DEF ChainType, WorkType
  <2>2. /\ new \subseteq [id : 1 .. lastId + Len(batch[n]), ev : Events]
        /\ \A x \in new : lastId < x.id
    BY <2>1, PickedType
  <2>3. \A x, y \in new : x.id = y.id => x = y
    BY <2>1, PickedDiffer
  <2> HIDE DEF new
  <2>4. nodes'[n] = new /\ \A m \in Nodes \ {n} : nodes'[m] = nodes[m]
    BY <1>3 DEF WorkType, new
  <2>5. \A x \in new : \A y \in chain : x.id # y.id
    BY <2>1, <2>2 DEF ChainType
  <2>6. \A x \in new : \A m \in Nodes : \A y \in nodes[m] : x.id # y.id
    <3>1. \A m \in Nodes : \A y \in nodes[m] : y.id \in 1 .. lastId
      BY DEF WorkType
    <3> QED BY <2>1, <2>2, <3>1
  <2>7. OwnIdsDiffer'
    BY <2>3, <2>4 DEF OwnIdsDiffer
  <2>8. ASSUME NEW k \in Nodes, NEW x \in nodes'[k]
        PROVE  /\ \A y \in chain' : x.id # y.id
               /\ \A m \in Nodes \ {k} : \A y \in nodes'[m] : x.id # y.id
    <3>1. CASE k = n
      BY <1>1, <2>4, <2>5, <2>6, <2>8, <3>1
    <3>2. CASE k # n
      <4>1. x \in nodes[k]
        BY <2>4, <2>8, <3>2
      <4> QED BY <1>1, <2>4, <2>6, <3>2, <4>1 DEF IdsUnique
    <3> QED BY <3>1, <3>2
  <2> QED BY <1>1, <2>7, <2>8 DEF IdsUnique
<1> QED BY <1>2, <1>3 DEF NextSequences

\* The nodes an instance commits keep the ids it had reserved for them.
LEMMA IdCommitTransaction ==
  ASSUME IdInv, NEW n \in Nodes, CommitTransaction(n)
  PROVE  IdsUnique' /\ OwnIdsDiffer'
<1> USE DEF IdInv, TypeInv
<1>1. nodes' = [nodes EXCEPT ![n] = {}]
  BY DEF CommitTransaction, BatchRetry, BatchDone, DropWork
<1>2. nodes'[n] = {} /\ \A m \in Nodes \ {n} : nodes'[m] = nodes[m]
  BY <1>1 DEF WorkType
<1>3. CASE chain' = chain
  BY <1>2, <1>3, IdsShrink
<1>4. CASE chain' = chain \cup nodes[n]
  <2>1. OwnIdsDiffer'
    BY <1>2 DEF OwnIdsDiffer
  <2>2. \A x, y \in chain' : x.id = y.id => x = y
    BY <1>4 DEF IdsUnique, OwnIdsDiffer
  <2>3. \A k \in Nodes : \A x \in nodes'[k] :
           /\ \A y \in chain' : x.id # y.id
           /\ \A m \in Nodes \ {k} : \A y \in nodes'[m] : x.id # y.id
    BY <1>2, <1>4 DEF IdsUnique
  <2> QED BY <2>1, <2>2, <2>3 DEF IdsUnique
<1> QED BY <1>3, <1>4 DEF CommitTransaction, Commit

\* Every step keeps the ids distinct.
LEMMA IdStep == IdInv /\ [Next]_vars => IdInv'
<1> SUFFICES ASSUME IdInv, [Next]_vars
             PROVE  IdsUnique' /\ OwnIdsDiffer'
  BY TypeStep DEF IdInv
<1> USE DEF IdInv
<1>1. CASE UNCHANGED vars
  BY <1>1, IdsShrink DEF vars, db, work
<1>2. CASE Write
  BY <1>2, IdsShrink DEF Write, db, work
<1>3. ASSUME NEW n \in Nodes, LoopStep(n)
      PROVE  IdsUnique' /\ OwnIdsDiffer'
  <2>1. CASE NextSequences(n)
    BY <2>1, IdNextSequences
  <2>2. CASE CommitTransaction(n)
    BY <2>2, IdCommitTransaction
  <2>3. CASE RunFlow(n) \/ StartLoop(n) \/ WatchRetry(n) \/ CanLoop(n) \/ Gather(n)
    BY <2>3, IdsShrink
       DEF RunFlow, StartLoop, WatchRetry, CanLoop, Gather, db, work
  <2>4. CASE SkipInvalid(n) \/ StoreDetails(n) \/ InsertNodes(n) \/ SetTokenInTxn(n)
    <3>1. chain' = chain
      BY <2>4 DEF SkipInvalid, StoreDetails, InsertNodes, SetTokenInTxn, db
    <3>2. \/ nodes' = nodes
          \/ nodes' = [nodes EXCEPT ![n] = {}]
          \/ nodes' = [nodes EXCEPT ![n] = nodes[n] \ {First(nodes[n])}]
      BY <2>4 DEF SkipInvalid, StoreDetails, InsertNodes, SetTokenInTxn, InsertError,
                  BatchDone, BatchRetry, DropWork, work
    <3>3. \A m \in Nodes : nodes'[m] \subseteq nodes[m]
      BY <3>2 DEF TypeInv, WorkType
    <3> QED BY <3>1, <3>3, IdsShrink
  <2> QED BY <1>3, <2>1, <2>2, <2>3, <2>4 DEF LoopStep
<1>4. ASSUME NEW n \in Nodes, StreamNext(n) \/ StreamRewind(n) \/ ViewChange(n)
      PROVE  IdsUnique' /\ OwnIdsDiffer'
  BY <1>4, IdsShrink DEF StreamNext, StreamRewind, ViewChange, db, work
<1>5. ASSUME NEW n \in Nodes, Crash(n)
      PROVE  IdsUnique' /\ OwnIdsDiffer'
  <2>1. \A m \in Nodes : nodes'[m] \subseteq nodes[m]
    BY <1>5 DEF Crash, DropWork, TypeInv, WorkType
  <2> QED BY <1>5, <2>1, IdsShrink DEF Crash
<1> QED BY <1>1, <1>2, <1>3, <1>4, <1>5 DEF Next

\* No two chain nodes have the same id, and the nodes that instances are about
\* to insert never take one, however many masters there are and whatever fails.
THEOREM IdsDistinct == Spec => []IdsUnique
<1>1. Init => IdInv
  BY TypeInit DEF Init, IdInv, IdsUnique, OwnIdsDiffer
<1>2. IdInv /\ [Next]_vars => IdInv'
  BY IdStep
<1>3. IdInv => IdsUnique
  BY DEF IdInv
<1> QED BY <1>1, <1>2, <1>3, PTL DEF Spec

-----------------------------------------------------------------------------
(* Details: a client that finds a node in the chain finds its detail.      *)

\* The nodes doInsertEvents is given belong to valid events of the batch, and
\* once the pipeline ran their details are stored.
NodesOfBatch ==
    \A n \in Nodes : pc[n] = "redis" => \A x \in nodes[n] : Cursor(x.ev) \in DetailCursors(n)
NodesStored ==
    \A n \in Nodes : pc[n] \in {"insert", "token", "commit"} =>
        \A x \in nodes[n] : Cursor(x.ev) \in details

DetailInv == TypeInv /\ DetailBeforeNode /\ NodesOfBatch /\ NodesStored

\* A write does not change the cursors of former events, nor whether they are valid.
LEMMA WriteKeeps ==
  ASSUME TypeInv, Write
  PROVE  \A i \in Events : oplog'[i] = oplog[i]
<1> DEFINE E == [time : Nat, doc : Docs, ok : BOOLEAN]
<1>1. PICK s \in TxnShapes :
         oplog' = oplog \o [i \in DOMAIN s |->
                               [time |-> Len(oplog) + 1, doc |-> s[i].doc, ok |-> s[i].ok]]
  BY DEF Write
<1> DEFINE a == [i \in DOMAIN s |->
                    [time |-> Len(oplog) + 1, doc |-> s[i].doc, ok |-> s[i].ok]]
<1>2. oplog \in Seq(E) /\ s \in Seq([doc : Docs, ok : BOOLEAN])
  BY ShapesAssumption DEF TypeInv, SharedType
<1>3. DOMAIN s = 1 .. Len(s) /\ Len(s) \in Nat
  BY <1>2, LenProperties
<1>4. a \in Seq(Range(a))
  <2>1. a \in [1 .. Len(s) -> Range(a)]
    BY <1>3 DEF Range
  <2> HIDE DEF a
  <2> QED BY <1>3, <2>1, SeqDef
<1> HIDE DEF a, E
<1>5. \A i \in 1 .. Len(oplog) : (oplog \o a)[i] = oplog[i]
  <2>1. oplog \in Seq(E \cup Range(a)) /\ a \in Seq(E \cup Range(a))
    BY <1>2, <1>4, SeqMonotonic
  <2>2. Len(oplog) \in Nat /\ Len(a) \in Nat
    BY <2>1, LenProperties
  <2> QED BY <2>1, <2>2, ConcatProperties
<1> QED BY <1>1, <1>5 DEF Events, a

\* Steps that keep the cursors, the stored details and what is to be inserted.
LEMMA DetailFrame ==
  ASSUME DetailInv,
         \A i \in Events : oplog'[i] = oplog[i],
         chain' = chain, details \subseteq details',
         \A m \in Nodes : pc'[m] \in Working =>
             /\ pc'[m] = pc[m] \/ (pc[m] = "insert" /\ pc'[m] = "token")
                               \/ (pc[m] = "token" /\ pc'[m] = "commit")
             /\ batch'[m] = batch[m] /\ nodes'[m] \subseteq nodes[m]
  PROVE  DetailBeforeNode' /\ NodesOfBatch' /\ NodesStored'
<1> USE DEF DetailInv, TypeInv
<1>1. \A i \in Events : Cursor(i)' = Cursor(i)
  BY DEF Cursor
<1>2. \A x \in chain : x.ev \in Events
  BY DEF ChainType
<1>3. \A m \in Nodes : \A x \in nodes[m] : x.ev \in Events
  BY DEF WorkType
<1>4. DetailBeforeNode'
  BY <1>1, <1>2 DEF DetailBeforeNode
<1>5. ASSUME NEW m \in Nodes, pc'[m] = "redis", NEW x \in nodes'[m]
      PROVE  Cursor(x.ev)' \in DetailCursors(m)'
  <2>1. pc[m] = "redis" /\ batch'[m] = batch[m] /\ x \in nodes[m]
    BY <1>5 DEF Working
  <2>2. \A i \in DOMAIN batch[m] : batch[m][i] \in Events
    BY DEF WorkType
  <2>3. DetailCursors(m)' = DetailCursors(m)
    BY <1>1, <2>1, <2>2 DEF DetailCursors
  <2> QED BY <1>1, <1>3, <2>1, <2>3 DEF NodesOfBatch
<1>6. ASSUME NEW m \in Nodes, pc'[m] \in {"insert", "token", "commit"}, NEW x \in nodes'[m]
      PROVE  Cursor(x.ev)' \in details'
  <2>1. pc[m] \in {"insert", "token", "commit"} /\ x \in nodes[m]
    BY <1>6 DEF Working
  <2> QED BY <1>1, <1>3, <2>1 DEF NodesStored
<1> QED BY <1>4, <1>5, <1>6 DEF NodesOfBatch, NodesStored

\* The nodes that get ids are of the batch whose details are stored next.
LEMMA DetailNextSequences ==
  ASSUME DetailInv, NEW n \in Nodes, NextSequences(n)
  PROVE  DetailBeforeNode' /\ NodesOfBatch' /\ NodesStored'
<1> USE DEF DetailInv, TypeInv
<1>1. oplog' = oplog /\ chain' = chain /\ details' = details
  BY DEF NextSequences
<1>2. CASE BatchRetry(n)
  <2>1. pc'[n] \in {"loop", "retry"} /\ \A m \in Nodes \ {n} :
           pc'[m] = pc[m] /\ batch'[m] = batch[m] /\ nodes'[m] = nodes[m]
    BY <1>2 DEF BatchRetry, BatchDone, DropWork, WorkType, LoopType
  <2> QED BY <1>1, <2>1, DetailFrame DEF Working
<1>3. CASE /\ nodes' = [nodes EXCEPT ![n] = Picked(batch[n], lastId)]
           /\ pc' = [pc EXCEPT ![n] =
                         IF Picked(batch[n], lastId) = {} THEN "invalid" ELSE "redis"]
           /\ UNCHANGED batch
  <2>1. \A x \in Picked(batch[n], lastId) : Cursor(x.ev) \in DetailCursors(n)
    BY DEF Picked, DetailCursors
  <2>2. /\ nodes'[n] = Picked(batch[n], lastId) /\ pc'[n] \in {"invalid", "redis"}
        /\ \A m \in Nodes \ {n} : pc'[m] = pc[m] /\ nodes'[m] = nodes[m]
    BY <1>3 DEF WorkType, LoopType
  <2>3. \A m \in Nodes : DetailCursors(m)' = DetailCursors(m)
    BY <1>1, <1>3 DEF DetailCursors, Cursor
  <2>4. DetailBeforeNode'
    BY <1>1 DEF DetailBeforeNode, Cursor
  <2>5. NodesOfBatch'
    BY <1>1, <2>1, <2>2, <2>3 DEF NodesOfBatch, Cursor
  <2>6. NodesStored'
    BY <1>1, <2>2 DEF NodesStored, Cursor
  <2> QED BY <2>4, <2>5, <2>6
<1> QED BY <1>2, <1>3 DEF NextSequences

\* From here on the details of the nodes to insert are stored.
LEMMA DetailStoreDetails ==
  ASSUME DetailInv, NEW n \in Nodes, StoreDetails(n)
  PROVE  DetailBeforeNode' /\ NodesOfBatch' /\ NodesStored'
<1> USE DEF DetailInv, TypeInv
<1>1. oplog' = oplog /\ chain' = chain /\ details \subseteq details'
  BY DEF StoreDetails
<1>2. CASE BatchRetry(n)
  <2>1. pc'[n] \in {"loop", "retry"} /\ \A m \in Nodes \ {n} :
           pc'[m] = pc[m] /\ batch'[m] = batch[m] /\ nodes'[m] = nodes[m]
    BY <1>2 DEF BatchRetry, BatchDone, DropWork, WorkType, LoopType
  <2> QED BY <1>1, <2>1, DetailFrame DEF Working
<1>3. CASE /\ details' = details \cup DetailCursors(n)
           /\ pc' = [pc EXCEPT ![n] = "insert"]
           /\ UNCHANGED work
  <2>1. /\ nodes' = nodes /\ batch' = batch /\ pc'[n] = "insert"
        /\ \A m \in Nodes \ {n} : pc'[m] = pc[m]
    BY <1>3 DEF work, LoopType
  <2>2. \A m \in Nodes : DetailCursors(m)' = DetailCursors(m)
    BY <1>1, <2>1 DEF DetailCursors, Cursor
  <2>3. \A x \in nodes[n] : Cursor(x.ev) \in DetailCursors(n)
    BY DEF NodesOfBatch, StoreDetails
  <2>4. DetailBeforeNode'
    BY <1>1 DEF DetailBeforeNode, Cursor
  <2>5. NodesOfBatch'
    BY <1>1, <2>1, <2>2 DEF NodesOfBatch, Cursor
  <2>6. NodesStored'
    BY <1>1, <1>3, <2>1, <2>3 DEF NodesStored, Cursor
  <2> QED BY <2>4, <2>5, <2>6
<1> QED BY <1>2, <1>3 DEF StoreDetails

\* What enters the chain has its details stored.
LEMMA DetailCommitTransaction ==
  ASSUME DetailInv, NEW n \in Nodes, CommitTransaction(n)
  PROVE  DetailBeforeNode' /\ NodesOfBatch' /\ NodesStored'
<1> USE DEF DetailInv, TypeInv
<1>1. oplog' = oplog /\ details' = details
  BY DEF CommitTransaction
<1>2. pc'[n] \in {"loop", "retry"} /\ \A m \in Nodes \ {n} :
         pc'[m] = pc[m] /\ batch'[m] = batch[m] /\ nodes'[m] = nodes[m]
  BY DEF CommitTransaction, BatchRetry, BatchDone, DropWork, WorkType, LoopType
<1>3. chain' \subseteq chain \cup nodes[n]
  BY DEF CommitTransaction, Commit
<1>4. \A x \in nodes[n] : Cursor(x.ev) \in details
  BY DEF CommitTransaction, NodesStored
<1>5. DetailBeforeNode'
  BY <1>1, <1>3, <1>4 DEF DetailBeforeNode, Cursor
<1>6. NodesOfBatch' /\ NodesStored'
  BY <1>1, <1>2 DEF NodesOfBatch, NodesStored, DetailCursors, Cursor
<1> QED BY <1>5, <1>6

\* Every step keeps the details in front of the nodes.
LEMMA DetailStep == DetailInv /\ [Next]_vars => DetailInv'
<1> SUFFICES ASSUME DetailInv, [Next]_vars
             PROVE  DetailBeforeNode' /\ NodesOfBatch' /\ NodesStored'
  BY TypeStep DEF DetailInv
<1> USE DEF DetailInv
<1>1. CASE UNCHANGED vars
  BY <1>1, DetailFrame DEF vars, db, work, loop
<1>2. CASE Write
  BY <1>2, WriteKeeps, DetailFrame DEF Write, db, work, loop
<1>3. ASSUME NEW n \in Nodes, LoopStep(n)
      PROVE  DetailBeforeNode' /\ NodesOfBatch' /\ NodesStored'
  <2>1. CASE NextSequences(n)
    BY <2>1, DetailNextSequences
  <2>2. CASE StoreDetails(n)
    BY <2>2, DetailStoreDetails
  <2>3. CASE CommitTransaction(n)
    BY <2>3, DetailCommitTransaction
  <2>4. CASE RunFlow(n) \/ StartLoop(n) \/ WatchRetry(n) \/ CanLoop(n)
    <3>1. oplog' = oplog /\ chain' = chain /\ details' = details /\ batch' = batch /\ nodes' = nodes
      BY <2>4 DEF RunFlow, StartLoop, WatchRetry, CanLoop, db, work
    <3>2. \A m \in Nodes : pc'[m] = pc[m] \/ pc'[m] \notin Working
      BY <2>4 DEF RunFlow, StartLoop, WatchRetry, CanLoop, Watch, TypeInv, LoopType, Working
    <3> QED BY <3>1, <3>2, DetailFrame
  <2>5. CASE Gather(n)
    <3>1. oplog' = oplog /\ chain' = chain /\ details' = details /\ nodes' = nodes
      BY <2>5 DEF Gather, db
    <3>2. \A m \in Nodes : \/ pc'[m] = pc[m] /\ batch'[m] = batch[m]
                           \/ pc'[m] \notin Working
      BY <2>5 DEF Gather, TypeInv, LoopType, WorkType, Working
    <3> QED BY <3>1, <3>2, DetailFrame
  <2>6. CASE SkipInvalid(n) \/ InsertNodes(n) \/ SetTokenInTxn(n)
    <3>1. oplog' = oplog /\ chain' = chain /\ details' = details
      BY <2>6 DEF SkipInvalid, InsertNodes, SetTokenInTxn, db
    <3>2. \A m \in Nodes \ {n} : pc'[m] = pc[m] /\ batch'[m] = batch[m] /\ nodes'[m] = nodes[m]
      BY <2>6 DEF SkipInvalid, InsertNodes, SetTokenInTxn, InsertError, BatchDone, BatchRetry,
                  DropWork, work, TypeInv, LoopType, WorkType
    <3>3. \/ pc'[n] \notin Working
          \/ /\ \/ pc[n] = "insert" /\ pc'[n] \in {"insert", "token"}
                \/ pc[n] = "token" /\ pc'[n] = "commit"
             /\ batch'[n] = batch[n] /\ nodes'[n] \subseteq nodes[n]
      BY <2>6 DEF SkipInvalid, InsertNodes, SetTokenInTxn, InsertError, BatchDone, BatchRetry,
                  DropWork, work, TypeInv, LoopType, WorkType, Working
    <3> QED BY <3>1, <3>2, <3>3, DetailFrame
  <2> QED BY <1>3, <2>1, <2>2, <2>3, <2>4, <2>5, <2>6 DEF LoopStep
<1>4. ASSUME NEW n \in Nodes, StreamNext(n) \/ StreamRewind(n) \/ ViewChange(n)
      PROVE  DetailBeforeNode' /\ NodesOfBatch' /\ NodesStored'
  BY <1>4, DetailFrame DEF StreamNext, StreamRewind, ViewChange, db, work, loop
<1>5. ASSUME NEW n \in Nodes, Crash(n)
      PROVE  DetailBeforeNode' /\ NodesOfBatch' /\ NodesStored'
  <2>1. pc'[n] = "down" /\ \A m \in Nodes \ {n} :
           pc'[m] = pc[m] /\ batch'[m] = batch[m] /\ nodes'[m] = nodes[m]
    BY <1>5 DEF Crash, DropWork, TypeInv, LoopType, WorkType
  <2> QED BY <1>5, <2>1, DetailFrame DEF Crash, Working
<1> QED BY <1>1, <1>2, <1>3, <1>4, <1>5 DEF Next

\* Every node of the chain has its detail in redis, through retries, reduced
\* inserts, pipelines that fail half-way, crashes and concurrent masters.
THEOREM DetailsFirst == Spec => []DetailBeforeNode
<1>1. Init => DetailInv
  BY TypeInit DEF Init, DetailInv, DetailBeforeNode, NodesOfBatch, NodesStored
<1>2. DetailInv /\ [Next]_vars => DetailInv'
  BY DetailStep
<1>3. DetailInv => DetailBeforeNode
  BY DEF DetailInv
<1> QED BY <1>1, <1>2, <1>3, PTL DEF Spec

-----------------------------------------------------------------------------
(* Loss: what the token and the chain have moved past is in the chain.     *)

\* No transaction does the same to a document twice, so that a cursor names one
\* event; a stream that restarts a minute back skips nothing unhandled.
CursorsAssumed ==
    \A s \in TxnShapes : \A i, j \in DOMAIN s : s[i].doc = s[j].doc => i = j
RewindAssumed == "rewind" \notin Faults \/ ~MinuteBehind

\* Before place k of the sequence s the event i occurs, with only later events behind it.
SeenIn(s, k, i) == \E j \in 1 .. k - 1 : s[j] = i /\ \A r \in j + 1 .. k - 1 : s[r] > i
SeenAll(s, i) == SeenIn(s, Len(s) + 1, i)

\* The stream has read up to r, c is its channel and b the loop's batch: whatever
\* of it is later than the event i comes behind i.
CoveredIn(b, c, r, i) ==
    /\ \A k \in DOMAIN b : i < b[k] => SeenIn(b, k, i)
    /\ \A k \in DOMAIN c : i < c[k] =>
          SeenIn(c, k, i) \/ (SeenAll(b, i) /\ \A p \in 1 .. k - 1 : c[p] > i)
    /\ i <= r => SeenAll(c, i) \/ (SeenAll(b, i) /\ \A p \in DOMAIN c : c[p] > i)

\* What is appended comes behind what was there.
LEMMA SeenAppend ==
  ASSUME NEW s \in Seq(Nat), NEW e \in Nat, NEW i \in Nat
  PROVE  /\ \A k \in 1 .. Len(s) + 1 : SeenIn(s, k, i) => SeenIn(Append(s, e), k, i)
         /\ SeenAll(s, i) /\ i < e => SeenAll(Append(s, e), i)
         /\ SeenAll(Append(s, e), e)
<1> DEFINE l == Len(s)
           a == Append(s, e)
<1>1. /\ l \in Nat /\ Len(a) = l + 1 /\ a[l + 1] = e
      /\ \A j \in 1 .. l : a[j] = s[j] /\ s[j] \in Nat
  BY AppendProperties, LenProperties
<1> HIDE DEF l, a
<1>2. ASSUME NEW k \in 1 .. l + 1, SeenIn(s, k, i) PROVE SeenIn(a, k, i)
  <2>1. PICK j \in 1 .. k - 1 : s[j] = i /\ \A r \in j + 1 .. k - 1 : s[r] > i
    BY <1>2 DEF SeenIn
  <2>2. \A r \in 1 .. k - 1 : r \in 1 .. l
    BY <1>1
  <2>3. a[j] = i
    BY <1>1, <2>1, <2>2
  <2>4. ASSUME NEW r \in j + 1 .. k - 1 PROVE a[r] > i
    <3>1. r \in 1 .. k - 1
      OBVIOUS
    <3> QED BY <1>1, <2>1, <2>2, <3>1
  <2> QED BY <2>3, <2>4 DEF SeenIn
<1>3. ASSUME SeenIn(s, l + 1, i), i < e PROVE SeenIn(a, l + 2, i)
  <2>1. PICK j \in 1 .. l : s[j] = i /\ \A r \in j + 1 .. l : s[r] > i
    BY <1>1, <1>3 DEF SeenIn
  <2>2. j \in 1 .. (l + 2) - 1 /\ a[j] = i
    BY <1>1, <2>1
  <2>3. ASSUME NEW r \in j + 1 .. (l + 2) - 1 PROVE a[r] > i
    BY <1>1, <1>3, <2>1
  <2> QED BY <2>2, <2>3 DEF SeenIn
<1>4. SeenIn(a, l + 2, e)
  BY <1>1 DEF SeenIn
<1>5. Len(a) + 1 = l + 2
  BY <1>1
<1> QED BY <1>1, <1>2, <1>3, <1>4, <1>5 DEF SeenAll, l, a

\* A sequence cut behind place m.
LEMMA SeenCut ==
  ASSUME NEW s \in Seq(Nat), NEW m \in 1 .. Len(s), NEW i \in Nat
  PROVE  /\ \A k \in 1 .. m : SeenIn(s, k, i) => SeenIn(SubSeq(s, 1, m), k, i)
         /\ \A k \in m + 1 .. Len(s) + 1 :
               SeenIn(s, k, i) =>
                 \/ SeenIn(SubSeq(s, m + 1, Len(s)), k - m, i)
                 \/ /\ SeenAll(SubSeq(s, 1, m), i)
                    /\ \A p \in 1 .. k - m - 1 : SubSeq(s, m + 1, Len(s))[p] > i
<1> DEFINE l == Len(s)
           f == SubSeq(s, 1, m)
           g == SubSeq(s, m + 1, Len(s))
<1>1. /\ l \in Nat /\ m \in 1 .. l
      /\ Len(f) = m /\ \A j \in 1 .. m : f[j] = s[j]
      /\ \A j \in 1 .. l - m : g[j] = s[m + j]
      /\ \A j \in 1 .. l : s[j] \in Nat
  BY SubSeqProperties, LenProperties
<1> HIDE DEF l, f, g
<1>2. ASSUME NEW k \in 1 .. m, SeenIn(s, k, i) PROVE SeenIn(f, k, i)
  BY <1>1, <1>2 DEF SeenIn
<1>3. ASSUME NEW k \in m + 1 .. l + 1, SeenIn(s, k, i)
      PROVE  \/ SeenIn(g, k - m, i)
             \/ SeenIn(f, m + 1, i) /\ \A p \in 1 .. k - m - 1 : g[p] > i
  <2>1. PICK j \in 1 .. k - 1 : s[j] = i /\ \A r \in j + 1 .. k - 1 : s[r] > i
    BY <1>3 DEF SeenIn
  <2>2. CASE j <= m
    <3>1. SeenIn(f, m + 1, i)
      BY <1>1, <2>1, <2>2 DEF SeenIn
    <3>2. ASSUME NEW p \in 1 .. k - m - 1 PROVE g[p] > i
      <4>1. m + p \in j + 1 .. k - 1 /\ p \in 1 .. l - m
        BY <1>1, <2>2
      <4> QED BY <1>1, <2>1, <4>1
    <3> QED BY <3>1, <3>2
  <2>3. CASE j > m
    <3>1. j - m \in 1 .. (k - m) - 1 /\ j - m \in 1 .. l - m /\ m + (j - m) = j
      BY <1>1, <2>3
    <3>2. g[j - m] = i
      BY <1>1, <2>1, <3>1
    <3>3. ASSUME NEW r \in (j - m) + 1 .. (k - m) - 1 PROVE g[r] > i
      <4>1. m + r \in j + 1 .. k - 1 /\ r \in 1 .. l - m
        BY <1>1, <2>3
      <4> QED BY <1>1, <2>1, <4>1
    <3> QED BY <3>1, <3>2, <3>3 DEF SeenIn
  <2> QED BY <1>1, <2>2, <2>3
<1> QED BY <1>1, <1>2, <1>3 DEF SeenAll, l, f, g

\* The stream reads the next event.
LEMMA CoveredNext ==
  ASSUME NEW b \in Seq(Nat), NEW c \in Seq(Nat), NEW r \in Nat, NEW i \in Nat,
         CoveredIn(b, c, r, i)
  PROVE  CoveredIn(b, Append(c, r + 1), r + 1, i)
<1> DEFINE l == Len(c)
           a == Append(c, r + 1)
<1>1. /\ l \in Nat /\ Len(a) = l + 1 /\ a[l + 1] = r + 1
      /\ DOMAIN c = 1 .. l /\ DOMAIN a = 1 .. l + 1
      /\ \A j \in 1 .. l : a[j] = c[j] /\ c[j] \in Nat
  <2>1. a \in Seq(Nat)
    BY AppendProperties
  <2> QED BY <2>1, AppendProperties, LenProperties
<1>2. /\ \A k \in 1 .. l + 1 : SeenIn(c, k, i) => SeenIn(a, k, i)
      /\ SeenAll(c, i) /\ i < r + 1 => SeenAll(a, i)
      /\ i = r + 1 => SeenAll(a, i)
  BY SeenAppend
<1>3. SeenAll(c, i) <=> SeenIn(c, l + 1, i)
  BY DEF SeenAll
<1> HIDE DEF l, a
<1>4. ASSUME NEW k \in DOMAIN a, i < a[k]
      PROVE  SeenIn(a, k, i) \/ (SeenAll(b, i) /\ \A p \in 1 .. k - 1 : a[p] > i)
  <2>1. CASE k \in 1 .. l
    BY <1>1, <1>2, <1>4, <2>1 DEF CoveredIn
  <2>2. CASE k = l + 1
    <3>1. i <= r
      BY <1>1, <1>4, <2>2
    <3> QED BY <1>1, <1>2, <1>3, <2>2, <3>1 DEF CoveredIn
  <2> QED BY <1>1, <2>1, <2>2
<1>5. ASSUME i <= r + 1
      PROVE  SeenAll(a, i) \/ (SeenAll(b, i) /\ \A p \in DOMAIN a : a[p] > i)
  <2>1. CASE i = r + 1
    BY <1>2, <2>1
  <2>2. CASE i <= r
    <3>1. i < r + 1
      BY <2>2
    <3>2. SeenAll(c, i) \/ (SeenAll(b, i) /\ \A p \in DOMAIN c : c[p] > i)
      BY <2>2 DEF CoveredIn
    <3> QED BY <1>1, <1>2, <3>1, <3>2
  <2> QED BY <1>5, <2>1, <2>2
<1> QED BY <1>4, <1>5 DEF CoveredIn, a

\* The loop takes the first m events of the channel as its batch.
LEMMA CoveredGather ==
  ASSUME NEW c \in Seq(Nat), NEW m \in 1 .. Len(c), NEW r \in Nat, NEW i \in Nat,
         CoveredIn(<< >>, c, r, i)
  PROVE  CoveredIn(SubSeq(c, 1, m), SubSeq(c, m + 1, Len(c)), r, i)
<1> DEFINE l == Len(c)
           f == SubSeq(c, 1, m)
           g == SubSeq(c, m + 1, Len(c))
<1>1. /\ l \in Nat /\ m \in 1 .. l /\ DOMAIN c = 1 .. l
      /\ Len(f) = m /\ DOMAIN f = 1 .. m /\ \A j \in 1 .. m : f[j] = c[j]
      /\ Len(g) = l - m /\ DOMAIN g = 1 .. l - m /\ \A j \in 1 .. l - m : g[j] = c[m + j]
  <2>1. l \in Nat /\ DOMAIN c = 1 .. l /\ m \in 1 .. l /\ 1 \in 1 .. l + 1 /\ m + 1 \in 1 .. l + 1
        /\ m \in 1 - 1 .. l /\ l \in m .. l
    BY LenProperties
  <2>2. f \in Seq(Nat) /\ Len(f) = m /\ \A j \in 1 .. m : f[j] = c[j]
    BY <2>1, SubSeqProperties
  <2>3. g \in Seq(Nat) /\ Len(g) = l - m /\ \A j \in 1 .. l - m : g[j] = c[m + j]
    <3>1. g \in Seq(Nat)
      BY <2>1, SubSeqProperties
    <3>2. Len(g) = l - m
      <4>1. m + 1 \in Int /\ l \in Int /\ \A j \in m + 1 .. l : c[j] \in Nat
        BY <2>1
      <4>2. Len(g) = IF m + 1 <= l THEN l - (m + 1) + 1 ELSE 0
        BY <4>1, SubSeqProperties
      <4> HIDE DEF g, l
      <4> QED BY <2>1, <4>2
    <3>3. \A j \in 1 .. l - m : g[j] = c[m + j]
      BY <2>1, SubSeqProperties
    <3> QED BY <3>1, <3>2, <3>3
  <2> HIDE DEF f, g, l
  <2>4. DOMAIN f = 1 .. m /\ DOMAIN g = 1 .. l - m
    BY <2>2, <2>3, LenProperties
  <2> QED BY <2>1, <2>2, <2>3, <2>4
<1>2. /\ \A k \in 1 .. m : SeenIn(c, k, i) => SeenIn(f, k, i)
      /\ \A k \in m + 1 .. l + 1 : SeenIn(c, k, i) =>
            SeenIn(g, k - m, i) \/ (SeenAll(f, i) /\ \A p \in 1 .. k - m - 1 : g[p] > i)
  BY SeenCut
<1>3. ~SeenAll(<< >>, i)
  BY DEF SeenAll, SeenIn
<1>4. /\ \A k \in DOMAIN c : i < c[k] => SeenIn(c, k, i)
      /\ i <= r => SeenIn(c, l + 1, i)
  BY <1>3 DEF CoveredIn, SeenAll
<1>5. SeenAll(g, i) <=> SeenIn(g, l - m + 1, i)
  BY <1>1 DEF SeenAll
<1> HIDE DEF l, f, g
<1>6. ASSUME NEW k \in DOMAIN f, i < f[k] PROVE SeenIn(f, k, i)
  BY <1>1, <1>2, <1>4, <1>6
<1>7. ASSUME NEW k \in DOMAIN g, i < g[k]
      PROVE  SeenIn(g, k, i) \/ (SeenAll(f, i) /\ \A p \in 1 .. k - 1 : g[p] > i)
  <2>1. k \in 1 .. l - m /\ l \in Nat /\ m \in 1 .. l
    BY <1>1, <1>7
  <2>2. m + k \in m + 1 .. l + 1 /\ (m + k) - m = k /\ m + k \in 1 .. l
    BY <2>1
  <2>3. c[m + k] = g[k]
    BY <1>1, <2>1
  <2>4. SeenIn(c, m + k, i)
    BY <1>1, <1>4, <1>7, <2>2, <2>3
  <2> QED BY <1>2, <2>2, <2>4
<1>8. ASSUME i <= r
      PROVE  SeenAll(g, i) \/ (SeenAll(f, i) /\ \A p \in DOMAIN g : g[p] > i)
  <2>1. l + 1 \in m + 1 .. l + 1 /\ (l + 1) - m = l - m + 1 /\ (l + 1) - m - 1 = l - m
    BY <1>1
  <2> QED BY <1>1, <1>2, <1>4, <1>5, <1>8, <2>1
<1> QED BY <1>6, <1>7, <1>8 DEF CoveredIn, f, g

\* The batch is done with: nothing of it still waits.
LEMMA CoveredDone ==
  ASSUME NEW b, NEW c, NEW r, NEW i, CoveredIn(b, c, r, i), ~SeenAll(b, i)
  PROVE  CoveredIn(<< >>, c, r, i)
BY DEF CoveredIn

\* The stream starts, or restarts, before the event.
LEMMA CoveredStart ==
  ASSUME NEW b, NEW c, NEW r \in Nat, NEW i \in Nat, r < i
  PROVE  /\ CoveredIn(<< >>, << >>, r, i)
         /\ \A q : CoveredIn(b, c, q, i) => CoveredIn(b, c, r, i)
<1>1. ~(i <= r)
  OBVIOUS
<1> QED BY <1>1 DEF CoveredIn

\* A write makes the oplog longer, by the events of its transaction.
LEMMA WriteForm ==
  ASSUME TypeInv, Write
  PROVE  \E s \in TxnShapes :
            /\ Len(oplog') = Len(oplog) + Len(s) /\ Len(s) \in Nat /\ Len(oplog) \in Nat
            /\ DOMAIN s = 1 .. Len(s)
            /\ \A i \in 1 .. Len(s) : oplog'[Len(oplog) + i] =
                  [time |-> Len(oplog) + 1, doc |-> s[i].doc, ok |-> s[i].ok]
<1> DEFINE E == [time : Nat, doc : Docs, ok : BOOLEAN]
<1>1. PICK s \in TxnShapes :
         oplog' = oplog \o [i \in DOMAIN s |->
                               [time |-> Len(oplog) + 1, doc |-> s[i].doc, ok |-> s[i].ok]]
  BY DEF Write
<1> DEFINE a == [i \in DOMAIN s |->
                    [time |-> Len(oplog) + 1, doc |-> s[i].doc, ok |-> s[i].ok]]
<1>2. oplog \in Seq(E) /\ s \in Seq([doc : Docs, ok : BOOLEAN])
  BY ShapesAssumption DEF TypeInv, SharedType
<1>3. DOMAIN s = 1 .. Len(s) /\ Len(s) \in Nat /\ Len(oplog) \in Nat
  BY <1>2, LenProperties
<1>4. a \in Seq(Range(a)) /\ Len(a) = Len(s)
  <2>1. a \in [1 .. Len(s) -> Range(a)] /\ DOMAIN a = 1 .. Len(s)
    BY <1>3 DEF Range
  <2> HIDE DEF a
  <2>2. a \in Seq(Range(a))
    BY <1>3, <2>1, SeqDef
  <2>3. Len(a) \in Nat /\ DOMAIN a = 1 .. Len(a)
    BY <2>2, LenProperties
  <2> QED BY <1>3, <2>1, <2>2, <2>3, IntervalLength
<1>5. \A i \in 1 .. Len(s) :
         a[i] = [time |-> Len(oplog) + 1, doc |-> s[i].doc, ok |-> s[i].ok]
  BY <1>3
<1>6. oplog' = oplog \o a
  BY <1>1
<1> HIDE DEF a, E
<1>7. oplog \in Seq(E \cup Range(a)) /\ a \in Seq(E \cup Range(a))
  BY <1>2, <1>4, SeqMonotonic
<1>8. /\ Len(oplog \o a) = Len(oplog) + Len(a)
      /\ \A i \in 1 .. Len(oplog) + Len(a) :
            (oplog \o a)[i] = IF i <= Len(oplog) THEN oplog[i] ELSE a[i - Len(oplog)]
  BY <1>7, ConcatProperties
<1>9. ASSUME NEW i \in 1 .. Len(s)
      PROVE  oplog'[Len(oplog) + i] = a[i]
  <2> DEFINE l == Len(oplog)
  <2>1. l + i \in 1 .. l + Len(a) /\ ~(l + i <= l) /\ (l + i) - l = i
    BY <1>3, <1>4
  <2> QED BY <1>6, <1>8, <2>1
<1> QED BY <1>1, <1>3, <1>4, <1>5, <1>6, <1>8, <1>9

\* A write never shortens the oplog.
LEMMA WriteLonger ==
  ASSUME TypeInv, Write
  PROVE  Len(oplog') >= Len(oplog)
<1>1. PICK s \in TxnShapes :
         Len(oplog') = Len(oplog) + Len(s) /\ Len(s) \in Nat /\ Len(oplog) \in Nat
  BY WriteForm
<1> QED BY <1>1

\* The changes of a write come after all the others, and no two have the same cursor.
OplogOrder ==
    /\ \A i \in Events : oplog[i].time \in 1 .. i
    /\ \A i, j \in Events : i <= j => oplog[i].time <= oplog[j].time
    /\ \A i, j \in Events : Cursor(i) = Cursor(j) => i = j

\* The flow is done with everything up to k: with all before each place a stream may
\* start from, and with all before each node of the chain.
Below(k) == \A i \in Events : i <= k => Handled(i)
Starts ==
    /\ Below(token.tok) /\ Below(token.startAt)
    /\ \A x \in chain : Below(x.ev)
    /\ \A n \in Nodes : Below(opt[n].tok) /\ Below(opt[n].startAt)

\* While its loop runs, an unhandled event is in front of all that is later.
Doing == Working \cup {"sequence", "invalid"}
Running == Doing \cup {"start", "loop", "gather"}
StreamOK(n) ==
    /\ pc[n] \notin Doing => batch[n] = << >>
    /\ pc[n] \in Running =>
          \A i \in Events : ~Handled(i) => CoveredIn(batch[n], ch[n], rd[n], i)

\* The nodes to insert are those of the last occurrences in the batch.  Of the events
\* that are not handled, one without a node has lost it to a duplicate, and either that
\* is behind it and still to be removed, or whatever is behind it is read again.
LastPlace(s, j) == \A r \in DOMAIN s : r > j => s[r] # s[j]
Placed(n, base) ==
    \A x \in nodes[n] : \E p \in DOMAIN batch[n] :
        LastPlace(batch[n], p) /\ x = [id |-> base + p, ev |-> batch[n][p]]
Kept(n, base) ==
    \A j \in DOMAIN batch[n] :
        LastPlace(batch[n], j) /\ ~Handled(batch[n][j]) =>
            \/ [id |-> base + j, ev |-> batch[n][j]] \in nodes[n]
            \/ pc[n] = "insert" /\ \E x \in nodes[n] : x.id > base + j /\ Committed(x)
            \/ \A x \in nodes[n] : \E r \in DOMAIN batch[n] :
                  j < r /\ base + r <= x.id /\ batch[n][r] <= batch[n][j]
InsertOK(n) ==
    /\ pc[n] = "invalid" => \A i \in Events : SeenAll(batch[n], i) => Handled(i)
    /\ pc[n] \in Working => \E base \in Nat : Placed(n, base) /\ Kept(n, base)

LossInv ==
    TypeInv /\ OplogOrder /\ Starts /\ \A n \in Nodes : StreamOK(n) /\ InsertOK(n)

\* The numbers behind the types.
LEMMA FlowFacts ==
  ASSUME TypeInv
  PROVE  /\ Len(oplog) \in Nat /\ Events \subseteq Nat
         /\ \A i \in Events : i <= Len(oplog)
         /\ \A n \in Nodes : /\ batch[n] \in Seq(Nat) /\ ch[n] \in Seq(Nat) /\ rd[n] \in Nat
                             /\ batch[n] \in Seq(Events) /\ ch[n] \in Seq(Events)
                             /\ rd[n] <= Len(oplog)
                             /\ \A j \in DOMAIN batch[n] : batch[n][j] \in Events
                             /\ \A j \in DOMAIN ch[n] : ch[n][j] \in Events
<1>1. Len(oplog) \in Nat
  BY DEF TypeInv, SharedType
<1>2. Events \subseteq Nat /\ \A i \in Events : i <= Len(oplog)
  BY <1>1 DEF Events
<1>3. Seq(Events) \subseteq Seq(Nat)
  BY <1>2, SeqMonotonic
<1>4. ASSUME NEW n \in Nodes
      PROVE  /\ batch[n] \in Seq(Nat) /\ ch[n] \in Seq(Nat) /\ rd[n] \in Nat
             /\ batch[n] \in Seq(Events) /\ ch[n] \in Seq(Events)
             /\ rd[n] <= Len(oplog)
             /\ \A j \in DOMAIN batch[n] : batch[n][j] \in Events
             /\ \A j \in DOMAIN ch[n] : ch[n][j] \in Events
  <2>1. batch[n] \in Seq(Events) /\ ch[n] \in Seq(Events) /\ rd[n] \in 0 .. Len(oplog)
    BY DEF TypeInv, WorkType, StreamType
  <2> QED BY <1>1, <1>3, <2>1
<1> QED BY <1>1, <1>2, <1>4

\* What no step undoes: events stay as they are, and what is handled stays handled.
Grown ==
    /\ Events \subseteq Events' /\ \A i \in Events' : i \in Events \/ i > Len(oplog)
    /\ \A i \in Events : oplog'[i] = oplog[i]
    /\ chain \subseteq chain' /\ gaveUp \subseteq gaveUp' /\ swallowed \subseteq swallowed'

\* Every step keeps the events and what was done with them.
LEMMA GrownStep == TypeInv /\ [Next]_vars => Grown
<1> SUFFICES ASSUME TypeInv, [Next]_vars PROVE Grown
  OBVIOUS
<1>1. CASE oplog' = oplog
  <2>1. /\ chain' = chain \/ \E n \in Nodes : chain' = chain \cup nodes[n]
        /\ gaveUp' = gaveUp \/ \E n \in Nodes : gaveUp' = gaveUp \cup BatchEvents(n)
        /\ swallowed' = swallowed \/ \E n \in Nodes : swallowed' = swallowed \cup BatchEvents(n)
    <3>1. CASE UNCHANGED vars \/ Write
      BY <3>1 DEF vars, db, history, Write
    <3>2. ASSUME NEW n \in Nodes, StreamNext(n) \/ StreamRewind(n) \/ ViewChange(n) \/ Crash(n)
                                  \/ RunFlow(n) \/ StartLoop(n) \/ WatchRetry(n) \/ CanLoop(n)
                                  \/ Gather(n) \/ SkipInvalid(n)
          PROVE  UNCHANGED << chain, gaveUp, swallowed >>
      BY <3>2 DEF StreamNext, StreamRewind, ViewChange, Crash, RunFlow, StartLoop, WatchRetry,
         CanLoop, Gather, SkipInvalid, db, history
    <3>3. ASSUME NEW n \in Nodes, NextSequences(n) \/ StoreDetails(n) \/ InsertNodes(n)
                                  \/ SetTokenInTxn(n) \/ CommitTransaction(n)
          PROVE  /\ chain' = chain \/ chain' = chain \cup nodes[n]
                 /\ gaveUp' = gaveUp \/ gaveUp' = gaveUp \cup BatchEvents(n)
                 /\ swallowed' = swallowed \/ swallowed' = swallowed \cup BatchEvents(n)
      <4>1. BatchRetry(n) => gaveUp' = gaveUp \/ gaveUp' = gaveUp \cup BatchEvents(n)
        BY DEF BatchRetry
      <4>2. InsertError(n) => swallowed' = swallowed \cup BatchEvents(n)
        BY DEF InsertError
      <4>3. Commit(n) => chain' = chain \cup nodes[n]
        BY DEF Commit
      <4> QED BY <3>3, <4>1, <4>2, <4>3 DEF NextSequences, StoreDetails, InsertNodes,
           SetTokenInTxn, CommitTransaction, db, history
    <3> QED BY <3>1, <3>2, <3>3 DEF Next, LoopStep
  <2> QED BY <1>1, <2>1 DEF Grown, Events
<1>2. CASE oplog' # oplog
  <2>1. Write
    BY <1>2 DEF Next, LoopStep, vars, StreamNext, StreamRewind, ViewChange, Crash, RunFlow,
       StartLoop, WatchRetry, CanLoop, Gather, SkipInvalid, NextSequences, StoreDetails,
       InsertNodes, SetTokenInTxn, CommitTransaction
  <2>2. TypeInv'
    BY TypeStep
  <2>3. Len(oplog) \in Nat /\ Len(oplog') \in Nat
    BY <2>2 DEF TypeInv, SharedType
  <2>4. Len(oplog') >= Len(oplog)
    BY <2>1, WriteLonger
  <2>5. \A i \in Events : oplog'[i] = oplog[i]
    BY <2>1, WriteKeeps
  <2> QED BY <2>1, <2>3, <2>4, <2>5 DEF Grown, Events, Write, db, history
<1> QED BY <1>1, <1>2

\* What is handled stays so.
LEMMA HandledKept ==
  ASSUME TypeInv, Grown
  PROVE  \A i \in Events : (InChain(i) => InChain(i)') /\ (Handled(i) => Handled(i)')
<1> SUFFICES ASSUME NEW i \in Events
             PROVE  (InChain(i) => InChain(i)') /\ (Handled(i) => Handled(i)')
  OBVIOUS
<1>1. oplog'[i] = oplog[i] /\ \A x \in chain : x \in chain' /\ oplog'[x.ev] = oplog[x.ev]
  BY DEF Grown, TypeInv, ChainType
<1>2. InChain(i) => InChain(i)'
  BY <1>1 DEF InChain, Cursor
<1> QED BY <1>1, <1>2 DEF Handled, Grown

\* The flow stays done with what is up to k.
LEMMA BelowKept ==
  ASSUME TypeInv, Grown, NEW k \in 0 .. Len(oplog), Below(k)
  PROVE  Below(k)'
<1> SUFFICES ASSUME NEW i \in Events', i <= k PROVE Handled(i)'
  BY DEF Below
<1>1. i \in Events
  <2>1. Len(oplog) \in Nat
    BY FlowFacts
  <2>2. i \in Events \/ i > Len(oplog)
    BY DEF Grown
  <2>3. i \in Int
    BY DEF Events
  <2> QED BY <2>1, <2>2, <2>3
<1> QED BY <1>1, HandledKept DEF Below

\* Only a write changes the oplog: what it appends is later than the rest, and its
\* events, which share their time, differ by document.
LEMMA OplogStep ==
  ASSUME CursorsAssumed, TypeInv, OplogOrder, [Next]_vars
  PROVE  OplogOrder'
<1>1. CASE Write
  <2>1. PICK s \in TxnShapes :
            /\ Len(oplog') = Len(oplog) + Len(s) /\ Len(s) \in Nat /\ Len(oplog) \in Nat
            /\ DOMAIN s = 1 .. Len(s)
            /\ \A i \in 1 .. Len(s) : oplog'[Len(oplog) + i] =
                  [time |-> Len(oplog) + 1, doc |-> s[i].doc, ok |-> s[i].ok]
    BY <1>1, WriteForm
  <2> DEFINE l == Len(oplog)
             k == Len(s)
  <2>2. /\ l \in Nat /\ k \in Nat /\ Events = 1 .. l /\ Events' = 1 .. l + k
        /\ \A i \in 1 .. k : oplog'[l + i].time = l + 1 /\ oplog'[l + i].doc = s[i].doc
        /\ \A i \in 1 .. l : oplog'[i] = oplog[i]
    <3>1. l \in Nat /\ k \in Nat /\ Events = 1 .. l /\ Events' = 1 .. l + k
      BY <2>1 DEF Events
    <3>2. ASSUME NEW i \in 1 .. k
          PROVE  oplog'[l + i].time = l + 1 /\ oplog'[l + i].doc = s[i].doc
      <4>1. oplog'[l + i] = [time |-> l + 1, doc |-> s[i].doc, ok |-> s[i].ok]
        BY <2>1, Zenon
      <4> HIDE DEF l
      <4> QED BY <4>1
    <3>3. \A i \in 1 .. l : oplog'[i] = oplog[i]
      BY <1>1, WriteKeeps DEF Events
    <3> QED BY <3>1, <3>2, <3>3
  <2>3. \A i \in 1 .. l : oplog[i].time \in 1 .. i
    BY <2>2 DEF OplogOrder
  <2>4. \A i, j \in 1 .. k : s[i].doc = s[j].doc => i = j
    BY <2>1 DEF CursorsAssumed
  <2>5. \A i, j \in 1 .. l : i <= j => oplog[i].time <= oplog[j].time
    BY <2>2 DEF OplogOrder
  <2>6. \A i, j \in 1 .. l : oplog[i].time = oplog[j].time /\ oplog[i].doc = oplog[j].doc => i = j
    BY <2>2 DEF OplogOrder, Cursor
  <2> HIDE DEF l, k
  <2>7. ASSUME NEW i \in 1 .. l + k, i > l
        PROVE  oplog'[i].time = l + 1 /\ oplog'[i].doc = s[i - l].doc /\ i - l \in 1 .. k
    <3>1. i - l \in 1 .. k /\ l + (i - l) = i
      BY <2>2, <2>7
    <3> QED BY <2>2, <3>1
  <2>8. \A i \in 1 .. l : oplog'[i].time = oplog[i].time /\ oplog'[i].doc = oplog[i].doc
                          /\ oplog[i].time \in Nat /\ oplog[i].time <= l /\ oplog[i].time \in 1 .. i
    BY <2>2, <2>3
  <2>9. \A i \in 1 .. l + k : i \in 1 .. l \/ i > l
    BY <2>2
  <2>10. \A i \in Events' : oplog'[i].time \in 1 .. i
    <3> SUFFICES ASSUME NEW i \in 1 .. l + k PROVE oplog'[i].time \in 1 .. i
      BY <2>2
    <3> QED BY <2>2, <2>7, <2>8, <2>9
  <2>11. \A i, j \in Events' : i <= j => oplog'[i].time <= oplog'[j].time
    <3> SUFFICES ASSUME NEW i \in 1 .. l + k, NEW j \in 1 .. l + k, i <= j
                 PROVE  oplog'[i].time <= oplog'[j].time
      BY <2>2
    <3>1. CASE j \in 1 .. l
      <4>1. i \in 1 .. l
        BY <2>2, <3>1
      <4> QED BY <2>5, <2>8, <3>1, <4>1
    <3>2. CASE j > l
      BY <2>2, <2>7, <2>8, <2>9, <3>2
    <3> QED BY <2>9, <3>1, <3>2
  <2>12. \A i, j \in Events' : Cursor(i)' = Cursor(j)' => i = j
    <3> SUFFICES ASSUME NEW i \in 1 .. l + k, NEW j \in 1 .. l + k, Cursor(i)' = Cursor(j)'
                 PROVE  i = j
      BY <2>2
    <3>1. oplog'[i].time = oplog'[j].time /\ oplog'[i].doc = oplog'[j].doc
      BY DEF Cursor
    <3>2. CASE i \in 1 .. l /\ j \in 1 .. l
      BY <2>6, <2>8, <3>1, <3>2
    <3>3. CASE i > l /\ j > l
      <4>1. i - l = j - l
        BY <2>4, <2>7, <3>1, <3>3
      <4> QED BY <2>2, <4>1
    <3>4. ~(i \in 1 .. l /\ j > l) /\ ~(j \in 1 .. l /\ i > l)
      BY <2>2, <2>7, <2>8, <3>1
    <3> QED BY <2>9, <3>2, <3>3, <3>4
  <2> QED BY <2>10, <2>11, <2>12 DEF OplogOrder
<1>2. CASE oplog' = oplog
  BY <1>2 DEF OplogOrder, Events, Cursor
<1>3. CASE ~Write /\ oplog' # oplog
  BY <1>3 DEF Next, LoopStep, vars, StreamNext, StreamRewind, ViewChange, Crash, RunFlow,
     StartLoop, WatchRetry, CanLoop, Gather, SkipInvalid, NextSequences, StoreDetails,
     InsertNodes, SetTokenInTxn, CommitTransaction
<1> QED BY <1>1, <1>2, <1>3

\* The same of the state after a step.
LEMMA FlowFactsNext ==
  ASSUME TypeInv'
  PROVE  \A n \in Nodes : batch'[n] \in Seq(Nat) /\ ch'[n] \in Seq(Nat) /\ rd'[n] \in Nat
<1>1. Len(oplog') \in Nat
  BY DEF TypeInv, SharedType
<1>2. Events' \subseteq Nat
  BY <1>1 DEF Events
<1>3. Seq(Events') \subseteq Seq(Nat)
  BY <1>2, SeqMonotonic
<1>4. \A n \in Nodes : batch'[n] \in Seq(Events') /\ ch'[n] \in Seq(Events')
                        /\ rd'[n] \in 0 .. Len(oplog')
  BY DEF TypeInv, WorkType, StreamType
<1> QED BY <1>1, <1>3, <1>4

\* Nothing in the channel or the batch is later than an event that comes.
LEMMA CoveredLater ==
  ASSUME NEW l \in Nat, NEW b \in Seq(Nat), NEW c \in Seq(Nat), NEW r \in Nat, NEW i \in Nat,
         l < i, r <= l,
         \A j \in DOMAIN b : b[j] <= l, \A j \in DOMAIN c : c[j] <= l
  PROVE  CoveredIn(b, c, r, i)
<1>1. ~(i <= r)
  OBVIOUS
<1>2. \A j \in DOMAIN b : ~(i < b[j])
  <2>1. \A j \in DOMAIN b : b[j] \in Nat
    OBVIOUS
  <2> QED BY <2>1
<1>3. \A j \in DOMAIN c : ~(i < c[j])
  <2>1. \A j \in DOMAIN c : c[j] \in Nat
    OBVIOUS
  <2> QED BY <2>1
<1> QED BY <1>1, <1>2, <1>3 DEF CoveredIn

\* A loop whose batch, channel and position change so that what was covered stays so.
LEMMA StreamKept ==
  ASSUME TypeInv, TypeInv', Grown, NEW n \in Nodes,
         pc'[n] \notin Doing => batch'[n] = << >>,
         pc'[n] \in Running => \A i \in Events :
             ~Handled(i)' => CoveredIn(batch'[n], ch'[n], rd'[n], i),
         \A j \in DOMAIN batch'[n] : batch'[n][j] <= Len(oplog),
         \A j \in DOMAIN ch'[n] : ch'[n][j] <= Len(oplog),
         rd'[n] <= Len(oplog)
  PROVE  StreamOK(n)'
<1>1. ASSUME NEW i \in Events', i \notin Events
      PROVE  CoveredIn(batch'[n], ch'[n], rd'[n], i)
  <2>1. Len(oplog) \in Nat
    BY FlowFacts
  <2>2. i \in Nat /\ Len(oplog) < i
    BY <1>1, <2>1 DEF Grown, Events
  <2>3. batch'[n] \in Seq(Nat) /\ ch'[n] \in Seq(Nat) /\ rd'[n] \in Nat
    BY FlowFactsNext
  <2> DEFINE l == Len(oplog)
  <2>4. l \in Nat /\ l < i /\ rd'[n] <= l /\ (\A j \in DOMAIN batch'[n] : batch'[n][j] <= l)
        /\ \A j \in DOMAIN ch'[n] : ch'[n][j] <= l
    BY <2>1, <2>2
  <2> HIDE DEF l
  <2> QED BY <2>2, <2>3, <2>4, CoveredLater
<1> QED BY <1>1 DEF StreamOK

\* An instance whose goroutines did nothing.
LEMMA StreamFrame ==
  ASSUME TypeInv, TypeInv', Grown, NEW n \in Nodes, StreamOK(n),
         pc'[n] = pc[n], batch'[n] = batch[n], ch'[n] = ch[n], rd'[n] = rd[n]
  PROVE  StreamOK(n)'
<1>1. /\ \A j \in DOMAIN batch[n] : batch[n][j] <= Len(oplog)
      /\ \A j \in DOMAIN ch[n] : ch[n][j] <= Len(oplog)
      /\ rd[n] <= Len(oplog)
  BY FlowFacts
<1>2. ASSUME pc'[n] \in Running, NEW i \in Events, ~Handled(i)'
      PROVE  CoveredIn(batch'[n], ch'[n], rd'[n], i)
  BY <1>2, HandledKept DEF StreamOK
<1>3. pc'[n] \notin Doing => batch'[n] = << >>
  BY DEF StreamOK
<1> QED BY <1>1, <1>2, <1>3, StreamKept

\* A loop that keeps its batch and its nodes, or drops them, has nothing new to account
\* for.
LEMMA InsertFrame ==
  ASSUME TypeInv, TypeInv', Grown, NEW n \in Nodes, InsertOK(n),
         pc'[n] \in {"invalid"} \cup Working => pc'[n] = pc[n] /\ batch'[n] = batch[n] /\ nodes'[n] = nodes[n]
  PROVE  InsertOK(n)'
<1>1. ASSUME pc'[n] = "invalid", NEW i \in Events', SeenAll(batch'[n], i)
      PROVE  Handled(i)'
  <2>1. pc[n] = "invalid" /\ SeenAll(batch[n], i)
    BY <1>1
  <2>2. i \in Events
    <3>1. PICK j \in 1 .. Len(batch[n]) + 1 - 1 : batch[n][j] = i
      BY <2>1 DEF SeenAll, SeenIn
    <3>2. j \in DOMAIN batch[n]
      <4>1. batch[n] \in Seq(Nat)
        BY FlowFacts
      <4>2. Len(batch[n]) \in Nat /\ DOMAIN batch[n] = 1 .. Len(batch[n])
        BY <4>1, LenProperties
      <4> QED BY <4>2
    <3> QED BY <3>1, <3>2, FlowFacts
  <2> QED BY <2>1, <2>2, HandledKept DEF InsertOK
<1>2. ASSUME pc'[n] \in Working
      PROVE  \E base \in Nat : Placed(n, base)' /\ Kept(n, base)'
  <2>1. pc'[n] = pc[n] /\ batch'[n] = batch[n] /\ nodes'[n] = nodes[n]
    BY <1>2
  <2>2. PICK base \in Nat : Placed(n, base) /\ Kept(n, base)
    BY <1>2, <2>1 DEF InsertOK
  <2>3. Placed(n, base)'
    BY <2>1, <2>2 DEF Placed
  <2>4. \A x \in nodes[n] : Committed(x) => Committed(x)'
    <3>1. \A x \in nodes[n] : x.ev \in Events
      BY DEF TypeInv, WorkType
    <3> QED BY <3>1, HandledKept DEF Committed
  <2>5. \A j \in DOMAIN batch[n] : ~Handled(batch[n][j])' => ~Handled(batch[n][j])
    <3>1. \A j \in DOMAIN batch[n] : batch[n][j] \in Events
      BY FlowFacts
    <3> QED BY <2>1, <3>1, HandledKept DEF Handled, InChain, Cursor
  <2>7. Kept(n, base)'
    BY <2>1, <2>2, <2>4, <2>5 DEF Kept
  <2> QED BY <2>3, <2>7
<1> QED BY <1>1, <1>2 DEF InsertOK, Working

\* Steps that write neither the token record nor the chain nor a loop's options.
LEMMA StartsFrame ==
  ASSUME TypeInv, Grown, Starts, token' = token, chain' = chain, opt' = opt
  PROVE  Starts'
<1>1. Below(token.tok)' /\ Below(token.startAt)'
  <2>1. token.tok \in 0 .. Len(oplog) /\ token.startAt \in 0 .. Len(oplog)
    BY DEF TypeInv, ChainType
  <2>2. Below(token.tok) /\ Below(token.startAt)
    BY DEF Starts
  <2>3. \A k : k = token.tok \/ k = token.startAt => Below(k)'
    BY <2>1, <2>2, BelowKept
  <2> QED BY <2>3
<1>2. ASSUME NEW x \in chain PROVE Below(x.ev)'
  <2>1. x.ev \in 0 .. Len(oplog) /\ Below(x.ev)
    BY FlowFacts DEF TypeInv, ChainType, Starts, Events
  <2> QED BY <2>1, BelowKept
<1>3. ASSUME NEW n \in Nodes PROVE Below(opt[n].tok)' /\ Below(opt[n].startAt)'
  <2>1. opt[n].tok \in 0 .. Len(oplog) /\ opt[n].startAt \in 0 .. Len(oplog)
    BY DEF TypeInv, StreamType
  <2>2. Below(opt[n].tok) /\ Below(opt[n].startAt)
    BY DEF Starts
  <2> QED BY <2>1, <2>2, BelowKept
<1> QED BY <1>1, <1>2, <1>3 DEF Starts

\* The cluster time of an event begins before it.
LEMMA StartOfBelow ==
  ASSUME TypeInv, OplogOrder, NEW i \in Events
  PROVE  StartOf(i) \in 0 .. Len(oplog) /\ StartOf(i) <= i
<1> DEFINE T == {j \in Events : oplog[j].time < oplog[i].time}
<1>1. Len(oplog) \in Nat /\ i \in Nat /\ Events \subseteq Nat
  BY FlowFacts
<1>2. T \subseteq 1 .. i
  <2> SUFFICES ASSUME NEW j \in Events, oplog[j].time < oplog[i].time, ~(j <= i)
               PROVE  FALSE
    BY <1>1 DEF Events
  <2>1. i <= j /\ oplog[i].time \in Int /\ oplog[j].time \in Int
    BY <1>1 DEF OplogOrder
  <2>2. oplog[i].time <= oplog[j].time
    BY <2>1 DEF OplogOrder
  <2> QED BY <2>1, <2>2
<1>3. IsFiniteSet(1 .. i) /\ Cardinality(1 .. i) = i
  <2>1. 1 \in Int /\ i \in Int
    BY <1>1
  <2>2. IsFiniteSet(1 .. i) /\ Cardinality(1 .. i) = IF 1 > i THEN 0 ELSE i - 1 + 1
    BY <2>1, FS_Interval, Zenon
  <2> QED BY <1>1, <2>2 DEF Events
<1>4. IsFiniteSet(T) /\ Cardinality(T) <= Cardinality(1 .. i)
  <2> HIDE DEF T
  <2> QED BY <1>2, <1>3, FS_Subset
<1> QED BY <1>1, <1>3, <1>4, StartOfType DEF StartOf

\* An event with a node in the chain has all before it handled.
LEMMA CommittedBelow ==
  ASSUME TypeInv, OplogOrder, Starts, NEW e \in Events, InChain(e)
  PROVE  Below(e)
<1>1. PICK x \in chain : Cursor(x.ev) = Cursor(e)
  BY DEF InChain
<1>2. x.ev \in Events
  BY DEF TypeInv, ChainType
<1>3. x.ev = e
  BY <1>1, <1>2 DEF OplogOrder
<1> QED BY <1>3 DEF Starts

\* An event seen in a whole sequence has a last place there, with later events behind it.
LEMMA SeenPlace ==
  ASSUME NEW s \in Seq(Nat), NEW i \in Nat, SeenAll(s, i)
  PROVE  \E j \in DOMAIN s : /\ s[j] = i /\ LastPlace(s, j)
                             /\ \A r \in DOMAIN s : r > j => s[r] > i
<1> DEFINE l == Len(s)
<1>1. l \in Nat /\ DOMAIN s = 1 .. l /\ \A j \in 1 .. l : s[j] \in Nat
  BY LenProperties
<1>2. PICK j \in 1 .. (l + 1) - 1 : s[j] = i /\ \A r \in j + 1 .. (l + 1) - 1 : s[r] > i
  BY DEF SeenAll, SeenIn
<1> HIDE DEF l
<1>3. j \in 1 .. l /\ \A r \in 1 .. l : r > j => s[r] > i
  BY <1>1, <1>2
<1>4. \A r \in 1 .. l : r > j => s[r] # s[j]
  BY <1>1, <1>2, <1>3
<1> QED BY <1>1, <1>2, <1>3, <1>4 DEF LastPlace

\* The events of the batch seen are events of the batch.
LEMMA SeenBatch ==
  ASSUME TypeInv, NEW n \in Nodes, NEW i \in Nat, SeenAll(batch[n], i)
  PROVE  i \in BatchEvents(n) /\ i \in Events
<1>1. PICK j \in DOMAIN batch[n] : batch[n][j] = i
  BY FlowFacts, SeenPlace
<1> QED BY <1>1, FlowFacts DEF BatchEvents

\* What the loop has not handled of its batch, and does not read again, is among the
\* nodes it still inserts.
LEMMA KeptNode ==
  ASSUME TypeInv, OplogOrder, Starts, NEW n \in Nodes, NEW base \in Nat,
         Placed(n, base), Kept(n, base), nodes[n] # {},
         NEW i \in Events, SeenAll(batch[n], i), ~Handled(i)
  PROVE  \E x \in nodes[n] : x.ev = i
<1>1. batch[n] \in Seq(Nat) /\ i \in Nat /\ Events \subseteq Nat
      /\ \A j \in DOMAIN batch[n] : batch[n][j] \in Events
  BY FlowFacts
<1>2. PICK j \in DOMAIN batch[n] : /\ batch[n][j] = i /\ LastPlace(batch[n], j)
                                   /\ \A r \in DOMAIN batch[n] : r > j => batch[n][r] > i
  BY <1>1, SeenPlace
<1>3. DOMAIN batch[n] \subseteq Nat
  BY <1>1, LenProperties
<1>4. \/ [id |-> base + j, ev |-> batch[n][j]] \in nodes[n]
      \/ \E x \in nodes[n] : x.id > base + j /\ Committed(x)
      \/ \A x \in nodes[n] : \E r \in DOMAIN batch[n] :
            j < r /\ base + r <= x.id /\ batch[n][r] <= batch[n][j]
  BY <1>2 DEF Kept
<1>5. CASE [id |-> base + j, ev |-> batch[n][j]] \in nodes[n]
  BY <1>2, <1>5
<1>6. ASSUME NEW x \in nodes[n], x.id > base + j, Committed(x) PROVE FALSE
  <2>1. PICK p \in DOMAIN batch[n] : x = [id |-> base + p, ev |-> batch[n][p]]
    BY DEF Placed
  <2>2. p > j /\ x.ev = batch[n][p] /\ x.ev \in Events
    BY <1>1, <1>3, <1>6, <2>1
  <2>3. x.ev > i
    BY <1>2, <2>2
  <2>4. Below(x.ev)
    BY <1>6, <2>2, CommittedBelow DEF Committed
  <2>5. i <= x.ev
    BY <1>1, <2>2, <2>3
  <2> QED BY <2>4, <2>5 DEF Below
<1>7. ASSUME NEW x \in nodes[n], NEW r \in DOMAIN batch[n], j < r, batch[n][r] <= batch[n][j]
      PROVE  FALSE
  <2>1. r > j /\ batch[n][r] \in Nat
    BY <1>1, <1>3, <1>7
  <2>2. batch[n][r] > i
    BY <1>2, <2>1
  <2> QED BY <1>1, <1>2, <1>7, <2>1, <2>2
<1> QED BY <1>4, <1>5, <1>6, <1>7

\* The steps of the goroutines, with an oplog that stays.
LEMMA StreamSame ==
  ASSUME TypeInv, TypeInv', Grown, oplog' = oplog, NEW n \in Nodes,
         pc'[n] \notin Doing => batch'[n] = << >>,
         pc'[n] \in Running => \A i \in Events :
             ~Handled(i)' => CoveredIn(batch'[n], ch'[n], rd'[n], i)
  PROVE  StreamOK(n)'
<1>1. Events' = Events /\ Len(oplog) \in Nat /\ \A i \in Events : i <= Len(oplog)
  BY FlowFacts DEF Events
<1>2. batch'[n] \in Seq(Events) /\ ch'[n] \in Seq(Events) /\ rd'[n] \in 0 .. Len(oplog)
  BY <1>1 DEF TypeInv, WorkType, StreamType
<1> QED BY <1>1, <1>2, StreamKept

\* doBatch returns: the batch is handled, or the watch starts again.
LEMMA ReturnLoss ==
  ASSUME LossInv, TypeInv', Grown, oplog' = oplog, NEW n \in Nodes, rd' = rd, pc[n] \in Doing,
         \/ BatchDone(n) /\ \A i \in Events : SeenAll(batch[n], i) => Handled(i)'
         \/ BatchRetry(n)
  PROVE  StreamOK(n)' /\ InsertOK(n)'
<1>1. TypeInv /\ StreamOK(n) /\ pc[n] \in Running
  BY DEF LossInv, Running
<1>2. /\ batch'[n] = << >>
      /\ \/ pc'[n] = "retry"
         \/ /\ pc'[n] = "loop" /\ ch'[n] = ch[n]
            /\ \A i \in Events : SeenAll(batch[n], i) => Handled(i)'
  <2>1. batch'[n] = << >>
    BY <1>1 DEF BatchDone, BatchRetry, DropWork, TypeInv, WorkType
  <2>2. CASE BatchDone(n) /\ \A i \in Events : SeenAll(batch[n], i) => Handled(i)'
    BY <1>1, <2>1, <2>2 DEF BatchDone, TypeInv, LoopType
  <2>3. CASE BatchRetry(n)
    <3>1. CASE pc' = [pc EXCEPT ![n] = "retry"]
      BY <1>1, <2>1, <3>1 DEF TypeInv, LoopType
    <3>2. CASE gaveUp' = gaveUp \cup BatchEvents(n) /\ BatchDone(n)
      <4>1. ASSUME NEW i \in Events, SeenAll(batch[n], i) PROVE Handled(i)'
        BY <1>1, <3>2, <4>1, SeenBatch, FlowFacts DEF Handled
      <4> QED BY <1>1, <2>1, <3>2, <4>1 DEF BatchDone, TypeInv, LoopType
    <3> QED BY <2>3, <3>1, <3>2 DEF BatchRetry
  <2> QED BY <2>2, <2>3
<1>3. ASSUME pc'[n] \in Running, NEW i \in Events, ~Handled(i)'
      PROVE  CoveredIn(batch'[n], ch'[n], rd'[n], i)
  <2>1. ch'[n] = ch[n] /\ ~SeenAll(batch[n], i)
    BY <1>2, <1>3 DEF Running, Doing, Working
  <2>2. CoveredIn(batch[n], ch[n], rd[n], i)
    BY <1>1, <1>3, HandledKept DEF StreamOK
  <2> QED BY <1>2, <2>1, <2>2, CoveredDone
<1>4. StreamOK(n)'
  BY <1>1, <1>2, <1>3, StreamSame
<1>5. InsertOK(n)'
  BY <1>2 DEF InsertOK, Working
<1> QED BY <1>4, <1>5

\* doInsertEvents goes on with the same nodes.
LEMMA InsertMoved ==
  ASSUME TypeInv, TypeInv', Grown, NEW n \in Nodes, InsertOK(n),
         pc[n] \in Working, pc'[n] \in Working, batch'[n] = batch[n], nodes'[n] = nodes[n],
         pc'[n] = "insert" \/ pc[n] # "insert" \/ \A x \in nodes[n] : ~Committed(x)
  PROVE  InsertOK(n)'
<1>1. PICK base \in Nat : Placed(n, base) /\ Kept(n, base)
  BY DEF InsertOK
<1>2. Placed(n, base)'
  BY <1>1 DEF Placed
<1>3. \A x \in nodes[n] : Committed(x) => Committed(x)'
  <2>1. \A x \in nodes[n] : x.ev \in Events
    BY DEF TypeInv, WorkType
  <2> QED BY <2>1, HandledKept DEF Committed
<1>4. \A j \in DOMAIN batch[n] : ~Handled(batch[n][j])' => ~Handled(batch[n][j])
  <2>1. \A j \in DOMAIN batch[n] : batch[n][j] \in Events
    BY FlowFacts
  <2> QED BY <2>1, HandledKept DEF Handled, InChain, Cursor
<1>5. Kept(n, base)'
  BY <1>1, <1>3, <1>4 DEF Kept
<1> QED BY <1>2, <1>5 DEF InsertOK, Working

\* The loop goes on with its batch, its channel and its position.
LEMMA StreamMoved ==
  ASSUME TypeInv, TypeInv', Grown, oplog' = oplog, NEW n \in Nodes, StreamOK(n),
         pc[n] \in Running, pc'[n] \in Doing \/ pc[n] \notin Doing,
         batch'[n] = batch[n], ch'[n] = ch[n], rd'[n] = rd[n]
  PROVE  StreamOK(n)'
<1>1. ASSUME NEW i \in Events, ~Handled(i)'
      PROVE  CoveredIn(batch'[n], ch'[n], rd'[n], i)
  BY <1>1, HandledKept DEF StreamOK
<1>2. pc'[n] \notin Doing => batch'[n] = << >>
  BY DEF StreamOK
<1> QED BY <1>1, <1>2, StreamSame

\* A watch starts at a place with everything before it handled.
LEMMA WatchLoss ==
  ASSUME LossInv, TypeInv', Grown, NEW n \in Nodes, pc[n] \notin Doing, oplog' = oplog,
         batch' = batch, nodes' = nodes, chain' = chain, token' = token,
         NEW o \in [tok : 0 .. Len(oplog), startAt : 0 .. Len(oplog)],
         Watch(n, o), Below(o.tok), Below(o.startAt)
  PROVE  Starts' /\ StreamOK(n)' /\ InsertOK(n)'
<1>1. TypeInv /\ Starts /\ StreamOK(n) /\ InsertOK(n) /\ Len(oplog) \in Nat
  BY FlowFacts DEF LossInv
<1>2. /\ opt'[n] = o /\ \A m \in Nodes \ {n} : opt'[m] = opt[m]
      /\ rd'[n] = IF o.tok # 0 THEN o.tok ELSE o.startAt
      /\ ch'[n] = << >> /\ pc'[n] = "start" /\ batch'[n] = << >>
  BY <1>1 DEF Watch, TypeInv, StreamType, LoopType, StreamOK
<1>3. Below(o.tok)' /\ Below(o.startAt)'
  <2>1. \A k : k = o.tok \/ k = o.startAt => Below(k)'
    BY <1>1, BelowKept
  <2> QED BY <2>1
<1>4. Starts'
  <2>1. Below(token.tok)' /\ Below(token.startAt)'
    <3>1. token.tok \in 0 .. Len(oplog) /\ token.startAt \in 0 .. Len(oplog)
      BY <1>1 DEF TypeInv, ChainType
    <3>2. \A k : k = token.tok \/ k = token.startAt => Below(k)'
      BY <1>1, <3>1, BelowKept DEF Starts
    <3> QED BY <3>2
  <2>2. ASSUME NEW x \in chain PROVE Below(x.ev)'
    <3>1. x.ev \in 0 .. Len(oplog) /\ Below(x.ev)
      BY <1>1, FlowFacts DEF TypeInv, ChainType, Starts, Events
    <3> QED BY <1>1, <3>1, BelowKept
  <2>3. ASSUME NEW m \in Nodes PROVE Below(opt[m].tok)' /\ Below(opt[m].startAt)'
    <3>1. CASE m = n
      <4>1. \A k : Below(k)' => (k = opt'[n].tok => Below(opt[n].tok)')
                              /\ (k = opt'[n].startAt => Below(opt[n].startAt)')
        BY DEF Below, Handled, InChain, Cursor
      <4> QED BY <1>2, <1>3, <3>1, <4>1
    <3>2. CASE m # n
      <4>1. opt[m].tok \in 0 .. Len(oplog) /\ opt[m].startAt \in 0 .. Len(oplog)
        BY <1>1 DEF TypeInv, StreamType
      <4>2. Below(opt[m].tok) /\ Below(opt[m].startAt)
        BY <1>1 DEF Starts
      <4>3. \A k : k = opt[m].tok \/ k = opt[m].startAt => Below(k)'
        BY <1>1, <4>1, <4>2, BelowKept
      <4>4. opt'[m] = opt[m]
        BY <1>2, <3>2
      <4> QED BY <4>3, <4>4 DEF Below
    <3> QED BY <3>1, <3>2
  <2> QED BY <2>1, <2>2, <2>3 DEF Starts
<1>5. ASSUME NEW i \in Events, ~Handled(i)'
      PROVE  CoveredIn(batch'[n], ch'[n], rd'[n], i)
  <2>1. i > o.tok /\ i > o.startAt /\ i \in Nat /\ i \in Events'
    BY <1>1, <1>3, <1>5, FlowFacts DEF Below, Grown
  <2>2. rd'[n] < i /\ rd'[n] \in Nat
    BY <1>2, <2>1
  <2> QED BY <1>2, <2>1, <2>2, CoveredStart
<1>6. StreamOK(n)'
  BY <1>1, <1>2, <1>5, StreamSame
<1>7. InsertOK(n)'
  BY <1>2 DEF InsertOK, Working
<1> QED BY <1>4, <1>6, <1>7

\* Where a restart begins: the token of the record, or that of the chain's tail.
LEMMA LossRunFlow ==
  ASSUME LossInv, TypeInv', Grown, NEW n \in Nodes, RunFlow(n) \/ WatchRetry(n)
  PROVE  Starts' /\ StreamOK(n)' /\ InsertOK(n)'
<1>1. TypeInv /\ Starts /\ StreamOK(n) /\ InsertOK(n) /\ pc[n] \notin Doing
      /\ oplog' = oplog /\ batch' = batch /\ nodes' = nodes /\ chain' = chain /\ token' = token
  BY DEF LossInv, RunFlow, WatchRetry, Doing, Working, db, work
<1>2. Len(oplog) \in Nat /\ token.startAt \in 0 .. Len(oplog) /\ Below(token.startAt)
  BY <1>1, FlowFacts DEF TypeInv, ChainType, Starts
<1>3. ASSUME NEW t \in 0 .. Len(oplog), GetStartWatchToken(t)
      PROVE  Below(t)
  <2>1. CASE t = token.tok
    BY <1>1, <2>1 DEF Starts
  <2>2. CASE t = IF chain = {} THEN 0 ELSE Last(chain).ev
    <3>1. CASE chain = {}
      BY <1>1, <2>2, <3>1 DEF Below, Events
    <3>2. CASE chain # {}
      <4>1. chain \in SUBSET [id : 1 .. lastId, ev : Events] /\ lastId \in Nat
        BY <1>1 DEF TypeInv, ChainType
      <4>2. Last(chain) \in chain
        BY <3>2, <4>1, LastNode
      <4> QED BY <1>1, <2>2, <3>2, <4>2 DEF Starts
    <3> QED BY <3>1, <3>2
  <2> QED BY <1>3, <2>1, <2>2 DEF GetStartWatchToken
<1>4. CASE RunFlow(n)
  <2>1. PICK t \in 0 .. Len(oplog) :
            GetStartWatchToken(t) /\ Watch(n, [tok |-> t, startAt |-> token.startAt])
    BY <1>4 DEF RunFlow
  <2> DEFINE o == [tok |-> t, startAt |-> token.startAt]
  <2>2. o \in [tok : 0 .. Len(oplog), startAt : 0 .. Len(oplog)] /\ o.tok = t
        /\ o.startAt = token.startAt /\ Watch(n, o) /\ Below(t)
    BY <1>2, <1>3, <2>1
  <2> HIDE DEF o
  <2>3. Below(o.tok) /\ Below(o.startAt)
    BY <1>2, <2>2
  <2> QED BY <1>1, <2>2, <2>3, WatchLoss
<1>5. CASE WatchRetry(n) /\ \E t \in 0 .. Len(oplog) :
             /\ GetStartWatchToken(t)
             /\ Watch(n, [opt[n] EXCEPT !.tok = IF t # 0 THEN t ELSE @])
  <2>1. PICK t \in 0 .. Len(oplog) :
             /\ GetStartWatchToken(t)
             /\ Watch(n, [opt[n] EXCEPT !.tok = IF t # 0 THEN t ELSE @])
    BY <1>5
  <2> DEFINE o == [opt[n] EXCEPT !.tok = IF t # 0 THEN t ELSE @]
  <2>2. opt[n] \in [tok : 0 .. Len(oplog), startAt : 0 .. Len(oplog)]
    BY <1>1 DEF TypeInv, StreamType
  <2>3. o \in [tok : 0 .. Len(oplog), startAt : 0 .. Len(oplog)]
        /\ (o.tok = t \/ o.tok = opt[n].tok) /\ o.startAt = opt[n].startAt
        /\ Watch(n, o) /\ Below(t)
    BY <1>3, <2>1, <2>2
  <2> HIDE DEF o
  <2>4. Below(o.tok) /\ Below(o.startAt)
    BY <1>1, <2>3 DEF Starts
  <2> QED BY <1>1, <2>3, <2>4, WatchLoss
<1>6. CASE WatchRetry(n) /\ UNCHANGED << pc, opt, rd, ch >>
  <2>1. Starts'
    BY <1>1, <1>6, StartsFrame
  <2>2. StreamOK(n)' /\ InsertOK(n)'
    BY <1>1, <1>6, StreamFrame, InsertFrame
  <2> QED BY <2>1, <2>2
<1> QED BY <1>4, <1>5, <1>6 DEF WatchRetry

\* The loop before and after doBatch.
LEMMA LossLoop ==
  ASSUME LossInv, TypeInv', Grown, NEW n \in Nodes, StartLoop(n) \/ CanLoop(n)
  PROVE  Starts' /\ StreamOK(n)' /\ InsertOK(n)'
<1>1. /\ TypeInv /\ Starts /\ StreamOK(n) /\ InsertOK(n) /\ pc[n] \notin Doing /\ pc[n] \in Running
      /\ oplog' = oplog /\ token' = token /\ chain' = chain /\ opt' = opt /\ rd' = rd
      /\ batch' = batch /\ nodes' = nodes
  BY DEF LossInv, StartLoop, CanLoop, Doing, Working, Running, db, work
<1>2. pc'[n] \in {"loop", "gather", "retry"} /\ (pc'[n] # "retry" => ch'[n] = ch[n])
  BY <1>1 DEF StartLoop, CanLoop, TypeInv, LoopType, StreamType
<1>3. Starts'
  BY <1>1, StartsFrame
<1>4. InsertOK(n)'
  BY <1>2 DEF InsertOK, Working
<1>5. StreamOK(n)'
  <2>1. CASE pc'[n] = "retry"
    BY <1>1, <2>1, StreamSame DEF StreamOK, Running, Doing, Working
  <2>2. CASE pc'[n] # "retry"
    BY <1>1, <1>2, <2>2, StreamMoved
  <2> QED BY <2>1, <2>2
<1> QED BY <1>3, <1>4, <1>5

\* The change the stream reads is in the channel before its place moves on.
LEMMA LossStreamNext ==
  ASSUME LossInv, TypeInv', Grown, NEW n \in Nodes, StreamNext(n)
  PROVE  Starts' /\ StreamOK(n)' /\ InsertOK(n)'
<1>1. /\ TypeInv /\ Starts /\ StreamOK(n) /\ InsertOK(n)
      /\ oplog' = oplog /\ token' = token /\ chain' = chain /\ opt' = opt /\ pc' = pc
      /\ batch' = batch /\ nodes' = nodes
      /\ rd'[n] = rd[n] + 1 /\ ch'[n] = Append(ch[n], rd[n] + 1)
  BY DEF LossInv, StreamNext, db, work, TypeInv, StreamType
<1>2. ASSUME pc'[n] \in Running, NEW i \in Events, ~Handled(i)'
      PROVE  CoveredIn(batch'[n], ch'[n], rd'[n], i)
  <2>1. CoveredIn(batch[n], ch[n], rd[n], i)
    BY <1>1, <1>2, HandledKept DEF StreamOK
  <2>2. i \in Nat /\ batch[n] \in Seq(Nat) /\ ch[n] \in Seq(Nat) /\ rd[n] \in Nat
    BY <1>1, FlowFacts
  <2>3. CoveredIn(batch[n], Append(ch[n], rd[n] + 1), rd[n] + 1, i)
    BY <2>1, <2>2, CoveredNext
  <2> QED BY <1>1, <2>3
<1>3. StreamOK(n)'
  BY <1>1, <1>2, StreamSame DEF StreamOK
<1> QED BY <1>1, <1>3, StartsFrame, InsertFrame

\* What leaves the channel is in the batch.
LEMMA LossGather ==
  ASSUME LossInv, TypeInv', Grown, NEW n \in Nodes, Gather(n)
  PROVE  Starts' /\ StreamOK(n)' /\ InsertOK(n)'
<1>1. /\ TypeInv /\ Starts /\ StreamOK(n) /\ InsertOK(n) /\ pc[n] = "gather"
      /\ oplog' = oplog /\ token' = token /\ chain' = chain /\ opt' = opt /\ rd' = rd
      /\ nodes' = nodes /\ batch[n] = << >>
  BY DEF LossInv, Gather, db, StreamOK, Doing, Working
<1>2. Starts'
  BY <1>1, StartsFrame
<1>3. CASE UNCHANGED << pc, ch, batch >>
  BY <1>1, <1>2, <1>3, StreamFrame, InsertFrame
<1>4. CASE \E k \in 1 .. Len(ch[n]) :
            /\ batch' = [batch EXCEPT ![n] = SubSeq(ch[n], 1, k)]
            /\ ch' = [ch EXCEPT ![n] = SubSeq(@, k + 1, Len(@))]
            /\ pc' = [pc EXCEPT ![n] = "sequence"]
  <2>1. PICK k \in 1 .. Len(ch[n]) :
            /\ batch'[n] = SubSeq(ch[n], 1, k)
            /\ ch'[n] = SubSeq(ch[n], k + 1, Len(ch[n]))
            /\ pc'[n] = "sequence"
    BY <1>1, <1>4 DEF TypeInv, WorkType, StreamType, LoopType
  <2>2. ASSUME NEW i \in Events, ~Handled(i)'
        PROVE  CoveredIn(batch'[n], ch'[n], rd'[n], i)
    <3>1. CoveredIn(<< >>, ch[n], rd[n], i)
      BY <1>1, <2>2, HandledKept DEF StreamOK, Running
    <3>2. i \in Nat /\ ch[n] \in Seq(Nat) /\ rd[n] \in Nat
      BY <1>1, FlowFacts
    <3>3. CoveredIn(SubSeq(ch[n], 1, k), SubSeq(ch[n], k + 1, Len(ch[n])), rd[n], i)
      BY <3>1, <3>2, CoveredGather
    <3> QED BY <1>1, <2>1, <3>3
  <2>3. StreamOK(n)'
    BY <1>1, <2>1, <2>2, StreamSame DEF Doing
  <2>4. InsertOK(n)'
    BY <2>1 DEF InsertOK, Working
  <2> QED BY <1>2, <2>3, <2>4
<1> QED BY <1>3, <1>4 DEF Gather

\* A stream that restarts from a minute ago: nothing before that is unhandled.
LEMMA LossStreamRewind ==
  ASSUME RewindAssumed, LossInv, TypeInv', Grown, NEW n \in Nodes, StreamRewind(n)
  PROVE  Starts' /\ StreamOK(n)' /\ InsertOK(n)'
<1>1. /\ TypeInv /\ Starts /\ StreamOK(n) /\ InsertOK(n)
      /\ oplog' = oplog /\ chain' = chain /\ opt' = opt /\ pc' = pc /\ ch' = ch
      /\ batch' = batch /\ nodes' = nodes
  BY DEF LossInv, StreamRewind, work
<1>2. PICK q \in 0 .. Len(oplog) :
        /\ \A i \in 1 .. q : Handled(i)
        /\ rd'[n] = q
        /\ \/ token' = [token EXCEPT !.tok = 0, !.startAt = q]
           \/ token' = token
  <2>1. ~MinuteBehind
    BY DEF StreamRewind, Fail, RewindAssumed
  <2> QED BY <1>1, <2>1 DEF StreamRewind, SetToken, TypeInv, StreamType
<1>3. Below(q) /\ Below(0) /\ q \in Nat /\ 0 \in 0 .. Len(oplog)
  <2>1. Len(oplog) \in Nat
    BY <1>1, FlowFacts
  <2> QED BY <1>2, <2>1 DEF Below, Events
<1>4. Starts'
  <2>1. CASE token' = token
    BY <1>1, <2>1, StartsFrame
  <2>2. CASE token' = [token EXCEPT !.tok = 0, !.startAt = q]
    <3>1. Below(0)' /\ Below(q)'
      BY <1>1, <1>2, <1>3, BelowKept
    <3>2. token'.tok = 0 /\ token'.startAt = q
      BY <1>1, <2>2 DEF TypeInv, ChainType
    <3>3. Below(token.tok)' /\ Below(token.startAt)'
      BY <3>1, <3>2 DEF Below
    <3>4. ASSUME NEW x \in chain PROVE Below(x.ev)'
      <4>1. x.ev \in 0 .. Len(oplog) /\ Below(x.ev)
        BY <1>1, FlowFacts DEF TypeInv, ChainType, Starts, Events
      <4> QED BY <1>1, <4>1, BelowKept
    <3>5. ASSUME NEW m \in Nodes PROVE Below(opt[m].tok)' /\ Below(opt[m].startAt)'
      <4>1. opt[m].tok \in 0 .. Len(oplog) /\ opt[m].startAt \in 0 .. Len(oplog)
        BY <1>1 DEF TypeInv, StreamType
      <4>2. Below(opt[m].tok) /\ Below(opt[m].startAt)
        BY <1>1 DEF Starts
      <4> QED BY <1>1, <4>1, <4>2, BelowKept
    <3> QED BY <1>1, <3>3, <3>4, <3>5 DEF Starts
  <2> QED BY <1>2, <2>1, <2>2
<1>5. ASSUME pc'[n] \in Running, NEW i \in Events, ~Handled(i)'
      PROVE  CoveredIn(batch'[n], ch'[n], rd'[n], i)
  <2>1. ~Handled(i) /\ CoveredIn(batch[n], ch[n], rd[n], i)
    BY <1>1, <1>5, HandledKept DEF StreamOK
  <2>2. i \in Nat /\ q < i
    BY <1>1, <1>3, <2>1, FlowFacts DEF Below
  <2> QED BY <1>1, <1>2, <1>3, <2>1, <2>2, CoveredStart
<1>6. StreamOK(n)'
  BY <1>1, <1>5, StreamSame DEF StreamOK
<1> QED BY <1>1, <1>4, <1>6, InsertFrame

\* A restarted process has no watch yet.
LEMMA LossCrash ==
  ASSUME LossInv, TypeInv', Grown, NEW n \in Nodes, Crash(n)
  PROVE  Starts' /\ StreamOK(n)' /\ InsertOK(n)'
<1>1. /\ TypeInv /\ Starts
      /\ oplog' = oplog /\ token' = token /\ chain' = chain
      /\ pc'[n] = "down" /\ batch'[n] = << >>
      /\ opt'[n].tok = 0 /\ opt'[n].startAt = 0
      /\ \A m \in Nodes \ {n} : opt'[m] = opt[m]
  BY DEF LossInv, Crash, DropWork, TypeInv, StreamType, WorkType, LoopType
<1>2. Starts'
  <2>1. \A k \in 0 .. Len(oplog) : Below(k) => Below(k)'
    BY <1>1, BelowKept
  <2>2. Below(token.tok)' /\ Below(token.startAt)'
    <3>1. token.tok \in 0 .. Len(oplog) /\ token.startAt \in 0 .. Len(oplog)
      BY <1>1 DEF TypeInv, ChainType
    <3>2. Below(token.tok) /\ Below(token.startAt)
      BY <1>1 DEF Starts
    <3>3. \A k : k = token.tok \/ k = token.startAt => Below(k)'
      BY <1>1, <3>1, <3>2, BelowKept
    <3> QED BY <1>1, <3>3 DEF Below
  <2>3. ASSUME NEW x \in chain PROVE Below(x.ev)'
    <3>1. x.ev \in 0 .. Len(oplog) /\ Below(x.ev)
      BY <1>1, FlowFacts DEF TypeInv, ChainType, Starts, Events
    <3> QED BY <1>1, <3>1, BelowKept
  <2>4. ASSUME NEW m \in Nodes PROVE Below(opt[m].tok)' /\ Below(opt[m].startAt)'
    <3>1. CASE m = n
      <4>1. Events' \subseteq 1 .. Len(oplog')
        BY DEF Events
      <4>2. \A i \in Events' : ~(i <= 0)
        BY <4>1
      <4> QED BY <1>1, <3>1, <4>2 DEF Below
    <3>2. CASE m # n
      <4>1. opt[m].tok \in 0 .. Len(oplog) /\ opt[m].startAt \in 0 .. Len(oplog)
        BY <1>1 DEF TypeInv, StreamType
      <4>2. Below(opt[m].tok) /\ Below(opt[m].startAt)
        BY <1>1 DEF Starts
      <4>3. \A k : k = opt[m].tok \/ k = opt[m].startAt => Below(k)'
        BY <1>1, <4>1, <4>2, BelowKept
      <4>4. opt'[m] = opt[m]
        BY <1>1, <3>2
      <4> QED BY <4>3, <4>4 DEF Below
    <3> QED BY <3>1, <3>2
  <2> QED BY <1>1, <2>2, <2>3, <2>4 DEF Starts
<1>3. StreamOK(n)' /\ InsertOK(n)'
  BY <1>1 DEF StreamOK, InsertOK, Running, Doing, Working
<1> QED BY <1>2, <1>3

\* Nodes with ids of their own are finitely many.
LEMMA NodesFinite ==
  ASSUME NEW b \in Nat, NEW E, NEW ns \in SUBSET [id : 1 .. b, ev : E],
         \A x, y \in ns : x.id = y.id => x = y
  PROVE  IsFiniteSet(ns) /\ Cardinality(ns) \in Nat
<1> DEFINE S == {x.id : x \in ns}
           f == [k \in S |-> CHOOSE x \in ns : x.id = k]
<1>1. S \in SUBSET (0 .. b)
  OBVIOUS
<1>2. \A k \in S : f[k] \in ns /\ f[k].id = k
  OBVIOUS
<1>3. \A x \in ns : x.id \in S /\ f[x.id] = x
  BY <1>2
<1>4. f \in Surjection(S, ns)
  <2>1. f \in [S -> ns]
    BY <1>2
  <2> HIDE DEF f, S
  <2>2. \A x \in ns : \E k \in S : f[k] = x
    BY <1>3
  <2> QED BY <2>1, <2>2, Zenon DEF Surjection
<1>5. IsFiniteSet(S)
  <2> HIDE DEF S, f
  <2> QED BY <1>1, BoundedFinite
<1>6. IsFiniteSet(ns)
  <2> HIDE DEF S, f
  <2> QED BY <1>4, <1>5, FS_Surjection, Zenon
<1> QED BY <1>6, FS_CardinalityType

\* Every event of a sequence has a last place.
LEMMA LastPlaceExists ==
  ASSUME NEW s \in Seq(Nat), NEW j \in DOMAIN s
  PROVE  \E k \in DOMAIN s : k >= j /\ s[k] = s[j] /\ LastPlace(s, k)
<1> DEFINE l == Len(s)
           S == {k \in 1 .. l : k >= j /\ s[k] = s[j]}
<1>1. l \in Nat /\ DOMAIN s = 1 .. l
  BY LenProperties
<1> HIDE DEF l
<1>2. j \in S /\ S \in SUBSET (0 .. l)
  BY <1>1
<1>3. PICK k \in S : \A m \in S : m <= k
  BY <1>1, <1>2, MaxExists
<1>4. ASSUME NEW r \in 1 .. l, r > k PROVE s[r] # s[k]
  <2>1. r \notin S
    BY <1>1, <1>3, <1>4
  <2>2. r >= j
    BY <1>1, <1>3, <1>4
  <2> QED BY <1>3, <2>1, <2>2
<1> QED BY <1>1, <1>3, <1>4 DEF LastPlace

\* Picked makes a node of the last place of every valid event, and no other.
LEMMA PickedPlaces ==
  ASSUME TypeInv, OplogOrder, NEW n \in Nodes, NEW base \in Nat
  PROVE  /\ \A x \in Picked(batch[n], base) : \E p \in DOMAIN batch[n] :
               LastPlace(batch[n], p) /\ x = [id |-> base + p, ev |-> batch[n][p]]
         /\ \A j \in DOMAIN batch[n] : LastPlace(batch[n], j) /\ oplog[batch[n][j]].ok =>
               [id |-> base + j, ev |-> batch[n][j]] \in Picked(batch[n], base)
<1>1. \A j \in DOMAIN batch[n] : batch[n][j] \in Events
  BY FlowFacts
<1>2. \A i, j \in DOMAIN batch[n] :
         Cursor(batch[n][i]) = Cursor(batch[n][j]) => batch[n][i] = batch[n][j]
  BY <1>1 DEF OplogOrder
<1>3. ASSUME NEW x \in Picked(batch[n], base)
      PROVE  \E p \in DOMAIN batch[n] :
               LastPlace(batch[n], p) /\ x = [id |-> base + p, ev |-> batch[n][p]]
  <2>1. PICK p \in DOMAIN batch[n] :
           /\ oplog[batch[n][p]].ok /\ x = [id |-> base + p, ev |-> batch[n][p]]
           /\ \A j \in DOMAIN batch[n] :
                 j > p /\ oplog[batch[n][j]].ok => Cursor(batch[n][j]) # Cursor(batch[n][p])
    BY DEF Picked
  <2>2. LastPlace(batch[n], p)
    BY <2>1 DEF LastPlace
  <2> QED BY <2>1, <2>2
<1>4. ASSUME NEW j \in DOMAIN batch[n], LastPlace(batch[n], j), oplog[batch[n][j]].ok
      PROVE  [id |-> base + j, ev |-> batch[n][j]] \in Picked(batch[n], base)
  <2>1. \A r \in DOMAIN batch[n] : r > j => Cursor(batch[n][r]) # Cursor(batch[n][j])
    BY <1>2, <1>4 DEF LastPlace
  <2> QED BY <1>4, <2>1 DEF Picked
<1> QED BY <1>3, <1>4

\* Every valid event of the batch that is not in the chain gets a node.
LEMMA LossNextSequences ==
  ASSUME LossInv, TypeInv', Grown, NEW n \in Nodes, NextSequences(n)
  PROVE  Starts' /\ StreamOK(n)' /\ InsertOK(n)'
<1>1. /\ TypeInv /\ OplogOrder /\ Starts /\ StreamOK(n) /\ InsertOK(n) /\ pc[n] = "sequence"
      /\ oplog' = oplog /\ token' = token /\ chain' = chain /\ opt' = opt /\ rd' = rd
      /\ pc[n] \in Doing /\ pc[n] \in Running /\ lastId \in Nat
  BY DEF LossInv, NextSequences, Doing, Running, TypeInv, ChainType
<1>2. Starts'
  BY <1>1, StartsFrame
<1>3. CASE BatchRetry(n)
  BY <1>1, <1>2, <1>3, ReturnLoss
<1>4. CASE /\ nodes' = [nodes EXCEPT ![n] = Picked(batch[n], lastId)]
           /\ pc' = [pc EXCEPT ![n] =
                         IF Picked(batch[n], lastId) = {} THEN "invalid" ELSE "redis"]
           /\ UNCHANGED << ch, batch >>
  <2>1. /\ nodes'[n] = Picked(batch[n], lastId) /\ batch'[n] = batch[n] /\ ch'[n] = ch[n]
        /\ pc'[n] = IF Picked(batch[n], lastId) = {} THEN "invalid" ELSE "redis"
    BY <1>1, <1>4 DEF TypeInv, WorkType, LoopType
  <2>2. StreamOK(n)'
    BY <1>1, <2>1, StreamMoved DEF Doing, Working
  <2>3. ASSUME pc'[n] = "invalid", NEW i \in Events', SeenAll(batch'[n], i)
        PROVE  Handled(i)'
    <3>1. i \in Events /\ i \in Nat /\ Picked(batch[n], lastId) = {} /\ SeenAll(batch[n], i)
      BY <1>1, <2>1, <2>3, FlowFacts DEF Events
    <3>2. PICK j \in DOMAIN batch[n] : batch[n][j] = i /\ LastPlace(batch[n], j)
      BY <1>1, <3>1, FlowFacts, SeenPlace
    <3>3. ~oplog[i].ok
      BY <1>1, <3>1, <3>2, PickedPlaces
    <3> QED BY <1>1, <3>3 DEF Handled
  <2>4. PICK base \in Nat : base = lastId
    BY <1>1
  <2>5. Placed(n, base)'
    BY <1>1, <2>1, <2>4, PickedPlaces DEF Placed
  <2>6. Kept(n, base)'
    BY <1>1, <2>1, <2>4, PickedPlaces DEF Kept, Handled
  <2> QED BY <1>1, <1>2, <2>2, <2>3, <2>5, <2>6 DEF InsertOK
<1> QED BY <1>3, <1>4 DEF NextSequences

\* What is up to the batch's last event is seen in the batch, or handled.
LEMMA BatchEnd ==
  ASSUME NEW b \in Seq(Nat), b # << >>, NEW c, NEW r, NEW i \in Nat, CoveredIn(b, c, r, i),
         i <= b[Len(b)]
  PROVE  SeenAll(b, i)
<1> DEFINE l == Len(b)
<1>1. l \in Nat \ {0} /\ DOMAIN b = 1 .. l /\ \A j \in 1 .. l : b[j] \in Nat
  BY EmptySeq, LenProperties
<1> HIDE DEF l
<1>2. CASE i = b[l]
  <2>1. l \in 1 .. (l + 1) - 1 /\ \A p \in l + 1 .. (l + 1) - 1 : b[p] > i
    BY <1>1
  <2> QED BY <1>2, <2>1 DEF SeenAll, SeenIn, l
<1>3. CASE i < b[l]
  <2>1. SeenIn(b, l, i)
    BY <1>1, <1>3 DEF CoveredIn
  <2>2. PICK j \in 1 .. l - 1 : b[j] = i /\ \A p \in j + 1 .. l - 1 : b[p] > i
    BY <2>1 DEF SeenIn
  <2>3. j \in 1 .. (l + 1) - 1
    BY <1>1
  <2>4. ASSUME NEW p \in j + 1 .. (l + 1) - 1 PROVE b[p] > i
    <3>1. p = l \/ p \in j + 1 .. l - 1
      BY <1>1
    <3> QED BY <1>1, <1>3, <2>2, <3>1
  <2> QED BY <2>2, <2>3, <2>4 DEF SeenAll, SeenIn, l
<1>4. i = b[l] \/ i < b[l]
  BY <1>1 DEF l
<1> QED BY <1>2, <1>3, <1>4

\* Once a batch is handled as far as it is seen, all up to its last event is.
LEMMA TokenBelow ==
  ASSUME LossInv, Grown, NEW n \in Nodes, pc[n] \in Doing, batch[n] # << >>,
         \A i \in Events : SeenAll(batch[n], i) => Handled(i)'
  PROVE  /\ batch[n][Len(batch[n])] \in Events
         /\ \A i \in Events : i <= batch[n][Len(batch[n])] => Handled(i)'
<1>1. /\ TypeInv /\ StreamOK(n) /\ batch[n] \in Seq(Nat) /\ Events \subseteq Nat
      /\ \A j \in DOMAIN batch[n] : batch[n][j] \in Events
  BY FlowFacts DEF LossInv
<1>2. Len(batch[n]) \in DOMAIN batch[n]
  <2>1. Len(batch[n]) \in Nat \ {0} /\ DOMAIN batch[n] = 1 .. Len(batch[n])
    BY <1>1, EmptySeq, LenProperties
  <2> QED BY <2>1
<1>3. ASSUME NEW i \in Events, i <= batch[n][Len(batch[n])]
      PROVE  Handled(i)'
  <2>1. i \in Nat
    BY <1>1
  <2>2. CASE Handled(i)
    BY <1>1, <2>2, HandledKept
  <2>3. CASE ~Handled(i)
    <3>1. CoveredIn(batch[n], ch[n], rd[n], i)
      BY <1>1, <2>3 DEF StreamOK, Running
    <3>2. SeenAll(batch[n], i)
      BY <1>1, <1>3, <2>1, <3>1, BatchEnd
    <3> QED BY <3>2
  <2> QED BY <2>2, <2>3
<1> QED BY <1>1, <1>2, <1>3

\* The record and the chain move: the places a watch may start from are still behind
\* handled events.
LEMMA StartsMoved ==
  ASSUME TypeInv, Grown, Starts, opt' = opt, oplog' = oplog,
         NEW a \in Nat, NEW c \in Nat, token'.tok = a, token'.startAt = c,
         \A i \in Events : i <= a \/ i <= c => Handled(i)',
         \A x \in chain' : x \in chain \/ (x.ev \in Nat /\ \A i \in Events : i <= x.ev => Handled(i)')
  PROVE  Starts'
<1>1. Events' = Events
  BY DEF Events
<1>2. Below(token.tok)' /\ Below(token.startAt)'
  BY <1>1 DEF Below
<1>3. ASSUME NEW x \in chain' PROVE Below(x.ev)'
  <2>1. CASE x \in chain
    <3>1. x.ev \in 0 .. Len(oplog) /\ Below(x.ev)
      BY <2>1, FlowFacts DEF TypeInv, ChainType, Starts, Events
    <3> QED BY <3>1, BelowKept
  <2>2. CASE x \notin chain
    BY <1>1, <1>3, <2>2 DEF Below
  <2> QED BY <2>1, <2>2
<1>4. ASSUME NEW m \in Nodes PROVE Below(opt[m].tok)' /\ Below(opt[m].startAt)'
  <2>1. opt[m].tok \in 0 .. Len(oplog) /\ opt[m].startAt \in 0 .. Len(oplog)
    BY DEF TypeInv, StreamType
  <2>2. Below(opt[m].tok) /\ Below(opt[m].startAt)
    BY DEF Starts
  <2> QED BY <2>1, <2>2, BelowKept
<1> QED BY <1>2, <1>3, <1>4 DEF Starts

\* A batch without valid events has nothing to lose.
LEMMA LossSkipInvalid ==
  ASSUME LossInv, TypeInv', Grown, NEW n \in Nodes, SkipInvalid(n)
  PROVE  Starts' /\ StreamOK(n)' /\ InsertOK(n)'
<1>1. /\ TypeInv /\ OplogOrder /\ Starts /\ InsertOK(n) /\ pc[n] = "invalid"
      /\ oplog' = oplog /\ chain' = chain /\ opt' = opt /\ rd' = rd
      /\ pc[n] \in Doing /\ BatchDone(n) /\ batch[n] # << >>
  BY DEF LossInv, SkipInvalid, Doing, TypeInv, WorkOK, Working
<1>2. \A i \in Events : SeenAll(batch[n], i) => Handled(i)'
  BY <1>1, HandledKept DEF InsertOK
<1>3. StreamOK(n)' /\ InsertOK(n)'
  BY <1>1, <1>2, ReturnLoss
<1>4. CASE token' = token
  BY <1>1, <1>3, <1>4, StartsFrame
<1>5. CASE token' = [token EXCEPT !.tok = batch[n][Len(batch[n])],
                                  !.startAt = StartOf(batch[n][Len(batch[n])])]
  <2>1. /\ batch[n][Len(batch[n])] \in Events
        /\ \A i \in Events : i <= batch[n][Len(batch[n])] => Handled(i)'
    BY <1>1, <1>2, TokenBelow
  <2>2. PICK a \in Events : a = batch[n][Len(batch[n])]
    BY <2>1
  <2>3. StartOf(a) \in 0 .. Len(oplog) /\ StartOf(a) <= a
    BY <1>1, StartOfBelow
  <2>4. PICK c \in 0 .. Len(oplog) : c = StartOf(a)
    BY <2>3
  <2>5. token'.tok = a /\ token'.startAt = c
    BY <1>1, <1>5, <2>2, <2>4 DEF TypeInv, ChainType
  <2>6. a \in Nat /\ c \in Nat /\ c <= a /\ Events \subseteq Nat
    BY <1>1, <2>3, <2>4, FlowFacts
  <2>7. \A i \in Events : i <= a \/ i <= c => Handled(i)'
    BY <2>1, <2>2, <2>6
  <2>8. Starts'
    BY <1>1, <2>5, <2>6, <2>7, StartsMoved
  <2> QED BY <1>3, <2>8
<1> QED BY <1>1, <1>4, <1>5 DEF SkipInvalid, SetToken

\* Storing the details: the pipeline's failure makes the loop watch again.
LEMMA LossStoreDetails ==
  ASSUME LossInv, TypeInv', Grown, NEW n \in Nodes, StoreDetails(n)
  PROVE  Starts' /\ StreamOK(n)' /\ InsertOK(n)'
<1>1. /\ TypeInv /\ Starts /\ StreamOK(n) /\ InsertOK(n) /\ pc[n] = "redis"
      /\ oplog' = oplog /\ token' = token /\ chain' = chain /\ opt' = opt /\ rd' = rd
      /\ pc[n] \in Doing /\ pc[n] \in Running /\ pc[n] \in Working
  BY DEF LossInv, StoreDetails, Doing, Running, Working
<1>2. Starts'
  BY <1>1, StartsFrame
<1>3. CASE BatchRetry(n)
  BY <1>1, <1>2, <1>3, ReturnLoss
<1>4. CASE pc' = [pc EXCEPT ![n] = "insert"] /\ UNCHANGED << ch, work >>
  <2>1. /\ pc'[n] = "insert" /\ batch'[n] = batch[n] /\ ch'[n] = ch[n] /\ nodes'[n] = nodes[n]
        /\ pc'[n] \in Doing /\ pc'[n] \in Working
    BY <1>1, <1>4 DEF work, TypeInv, LoopType, Doing, Working
  <2>2. StreamOK(n)'
    BY <1>1, <2>1, StreamMoved
  <2>3. InsertOK(n)'
    BY <1>1, <2>1, InsertMoved
  <2> QED BY <1>2, <2>2, <2>3
<1> QED BY <1>3, <1>4 DEF StoreDetails

\* An error of the insert that nobody sees puts the whole batch among the swallowed.
LEMMA LossInsertError ==
  ASSUME LossInv, TypeInv', Grown, oplog' = oplog, NEW n \in Nodes, rd' = rd, pc[n] \in Doing,
         InsertError(n)
  PROVE  StreamOK(n)' /\ InsertOK(n)'
<1>1. TypeInv /\ BatchDone(n) /\ swallowed' = swallowed \cup BatchEvents(n)
  BY DEF LossInv, InsertError
<1>2. ASSUME NEW i \in Events, SeenAll(batch[n], i) PROVE Handled(i)'
  <2>1. i \in BatchEvents(n)
    BY <1>1, <1>2, FlowFacts, SeenBatch
  <2> QED BY <1>1, <2>1 DEF Handled
<1> QED BY <1>1, <1>2, ReturnLoss

\* The first node is taken out because a node of the batch has a duplicate: what
\* loses its node so is handled, or there is a committed node behind it.
LEMMA LossReduce ==
  ASSUME LossInv, TypeInv', Grown, oplog' = oplog, chain' = chain, NEW n \in Nodes,
         pc[n] = "insert", pc'[n] = "insert", batch'[n] = batch[n],
         Clashing(n) # {}, Committed(First(Clashing(n))),
         nodes'[n] = nodes[n] \ {First(nodes[n])}
  PROVE  InsertOK(n)'
<1>1. /\ TypeInv /\ OplogOrder /\ Starts /\ InsertOK(n) /\ pc[n] \in Working
      /\ gaveUp \subseteq gaveUp' /\ swallowed \subseteq swallowed'
  BY DEF LossInv, Working, Grown
<1>2. PICK base \in Nat : Placed(n, base) /\ Kept(n, base)
  BY <1>1 DEF InsertOK
<1>3. /\ nodes[n] \in SUBSET [id : 1 .. lastId, ev : Events] /\ lastId \in Nat
      /\ Clashing(n) \subseteq nodes[n] /\ nodes[n] # {}
      /\ \A x \in nodes[n] : x.id \in Nat /\ x.ev \in Events
  BY <1>1 DEF TypeInv, WorkType, ChainType, Clashing
<1>4. First(nodes[n]) \in nodes[n] /\ \A x \in nodes[n] : First(nodes[n]).id <= x.id
  BY <1>3, FirstNode
<1>5. First(Clashing(n)) \in nodes[n]
  <2>1. Clashing(n) \in SUBSET [id : 1 .. lastId, ev : Events]
    BY <1>3
  <2> QED BY <1>3, <2>1, FirstNode
<1>6. PICK y \in nodes[n] : y = First(nodes[n]) /\ \A x \in nodes[n] : y.id <= x.id
  BY <1>4
<1>7. PICK f \in nodes[n] : f = First(Clashing(n)) /\ Committed(f)
  BY <1>5
<1>8. /\ \A j \in DOMAIN batch[n] : batch[n][j] \in Events /\ j \in Nat
      /\ DOMAIN batch[n] \subseteq Nat
  <2>1. batch[n] \in Seq(Nat) /\ \A j \in DOMAIN batch[n] : batch[n][j] \in Events
    BY <1>1, FlowFacts
  <2> QED BY <2>1, LenProperties
<1>9. \A x \in nodes[n] : Committed(x) => Committed(x)'
  BY <1>1, <1>3, HandledKept DEF Committed
<1>10. \A j \in DOMAIN batch[n] : ~Handled(batch[n][j])' => ~Handled(batch[n][j])
  BY <1>1, <1>8, HandledKept DEF Handled, InChain, Cursor
<1>11. Placed(n, base)'
  BY <1>2 DEF Placed
<1>12. ASSUME NEW j \in DOMAIN batch[n], LastPlace(batch[n], j), ~Handled(batch[n][j])',
              [id |-> base + j, ev |-> batch[n][j]] \notin nodes'[n],
              NEW z \in nodes'[n],
              \A r \in DOMAIN batch[n] : ~(j < r /\ base + r <= z.id /\ batch[n][r] <= batch[n][j])
       PROVE  \E x \in nodes'[n] : x.id > base + j /\ Committed(x)'
  <2>1. ~Handled(batch[n][j]) /\ batch[n][j] \in Events /\ j \in Nat
    BY <1>8, <1>10, <1>12
  <2>2. \/ [id |-> base + j, ev |-> batch[n][j]] \in nodes[n]
        \/ \E x \in nodes[n] : x.id > base + j /\ Committed(x)
        \/ \A x \in nodes[n] : \E r \in DOMAIN batch[n] :
              j < r /\ base + r <= x.id /\ batch[n][r] <= batch[n][j]
    BY <1>2, <1>12, <2>1 DEF Kept
  <2>3. z \in nodes[n] /\ z # y
    BY <1>6, <1>12
  <2>4. CASE [id |-> base + j, ev |-> batch[n][j]] \in nodes[n]
    <3>1. y = [id |-> base + j, ev |-> batch[n][j]]
      BY <1>6, <1>12, <2>4
    <3>2. y.id = base + j /\ y.ev = batch[n][j]
      BY <3>1
    <3>3. f # y
      <4>1. ~InChain(y.ev)
        BY <2>1, <3>2 DEF Handled
      <4> QED BY <1>7, <4>1 DEF Committed
    <3>4. PICK p \in DOMAIN batch[n] : f = [id |-> base + p, ev |-> batch[n][p]]
      BY <1>2 DEF Placed
    <3>5. p # j
      BY <3>1, <3>3, <3>4
    <3>6. f.id = base + p /\ y.id <= f.id /\ p \in Nat /\ base \in Nat
      BY <1>6, <1>8, <3>4
    <3>7. f.id > base + j
      BY <2>1, <3>2, <3>5, <3>6
    <3>8. f \in nodes'[n]
      BY <1>6, <3>3
    <3> QED BY <1>7, <1>9, <3>7, <3>8
  <2>5. ASSUME NEW x \in nodes[n], x.id > base + j, Committed(x)
        PROVE  \E w \in nodes'[n] : w.id > base + j /\ Committed(w)'
    <3>1. CASE x # y
      <4>1. x \in nodes'[n]
        BY <1>6, <3>1
      <4> QED BY <1>9, <2>5, <4>1
    <3>2. CASE x = y
      <4>1. PICK p \in DOMAIN batch[n] : x = [id |-> base + p, ev |-> batch[n][p]]
        BY <1>2 DEF Placed
      <4>2. x.id = base + p /\ x.ev = batch[n][p] /\ p \in Nat /\ batch[n][p] \in Events
        BY <1>8, <4>1
      <4>3. p > j /\ base + p <= z.id
        <5>1. x.id <= z.id
          BY <1>6, <2>3, <3>2
        <5> QED BY <2>1, <2>5, <4>2, <5>1
      <4>4. Below(batch[n][p])
        BY <1>1, <2>5, <4>2, CommittedBelow DEF Committed
      <4>5. ~(batch[n][j] <= batch[n][p])
        BY <2>1, <4>4 DEF Below
      <4>6. batch[n][p] <= batch[n][j]
        <5>1. batch[n][p] \in Nat /\ batch[n][j] \in Nat
          BY <1>1, <2>1, <4>2, FlowFacts
        <5> QED BY <4>5, <5>1
      <4> QED BY <1>12, <2>1, <4>2, <4>3, <4>6
    <3> QED BY <3>1, <3>2
  <2>6. CASE \A x \in nodes[n] : \E r \in DOMAIN batch[n] :
                j < r /\ base + r <= x.id /\ batch[n][r] <= batch[n][j]
    BY <1>12, <2>3, <2>6
  <2> QED BY <2>2, <2>4, <2>5, <2>6
<1>13. Kept(n, base)'
  BY <1>12 DEF Kept
<1> QED BY <1>11, <1>13 DEF InsertOK, Working

\* The insert: it succeeds, it is tried without the first node, the last node was a
\* duplicate, or its error is swallowed.
LEMMA LossInsertNodes ==
  ASSUME LossInv, TypeInv', Grown, NEW n \in Nodes, InsertNodes(n)
  PROVE  Starts' /\ StreamOK(n)' /\ InsertOK(n)'
<1>1. /\ TypeInv /\ OplogOrder /\ Starts /\ StreamOK(n) /\ InsertOK(n) /\ pc[n] = "insert"
      /\ oplog' = oplog /\ token' = token /\ chain' = chain /\ opt' = opt /\ rd' = rd
      /\ pc[n] \in Doing /\ pc[n] \in Running /\ pc[n] \in Working
  BY DEF LossInv, InsertNodes, db, Doing, Running, Working
<1>2. Starts'
  BY <1>1, StartsFrame
<1>3. CASE Clashing(n) = {} /\ pc' = [pc EXCEPT ![n] = "token"] /\ UNCHANGED << ch, work >>
  <2>1. /\ pc'[n] = "token" /\ batch'[n] = batch[n] /\ ch'[n] = ch[n] /\ nodes'[n] = nodes[n]
        /\ pc'[n] \in Doing /\ pc'[n] \in Working
    BY <1>1, <1>3 DEF work, TypeInv, LoopType, Doing, Working
  <2>2. \A x \in nodes[n] : ~Committed(x)
    BY <1>3 DEF Clashing
  <2>3. StreamOK(n)'
    BY <1>1, <2>1, StreamMoved
  <2>4. InsertOK(n)'
    BY <1>1, <2>1, <2>2, InsertMoved
  <2> QED BY <1>2, <2>3, <2>4
<1>4. CASE /\ Clashing(n) # {} /\ Committed(First(Clashing(n)))
           /\ nodes' = [nodes EXCEPT ![n] = @ \ {First(@)}]
           /\ UNCHANGED << pc, ch, batch >>
  <2>1. /\ nodes'[n] = nodes[n] \ {First(nodes[n])}
        /\ pc'[n] = "insert" /\ batch'[n] = batch[n] /\ ch'[n] = ch[n] /\ pc'[n] \in Doing
    BY <1>1, <1>4 DEF TypeInv, WorkType
  <2>2. StreamOK(n)'
    BY <1>1, <2>1, StreamMoved
  <2>3. InsertOK(n)'
    BY <1>1, <1>4, <2>1, LossReduce
  <2> QED BY <1>2, <2>2, <2>3
<1>5. CASE /\ Clashing(n) # {} /\ Committed(First(Clashing(n)))
           /\ Cardinality(nodes[n]) = 1 /\ BatchDone(n)
  <2>1. PICK base \in Nat : Placed(n, base) /\ Kept(n, base)
    BY <1>1 DEF InsertOK
  <2>2. nodes[n] \in SUBSET [id : 1 .. lastId, ev : Events] /\ lastId \in Nat
        /\ Clashing(n) \subseteq nodes[n]
    BY <1>1 DEF TypeInv, WorkType, ChainType, Clashing
  <2>3. DOMAIN batch[n] \subseteq Nat
    <3>1. batch[n] \in Seq(Nat)
      BY <1>1, FlowFacts
    <3> QED BY <3>1, LenProperties
  <2>4. \A x, y \in nodes[n] : x.id = y.id => x = y
    <3> SUFFICES ASSUME NEW x \in nodes[n], NEW y \in nodes[n], x.id = y.id PROVE x = y
      OBVIOUS
    <3>1. PICK p \in DOMAIN batch[n] : x = [id |-> base + p, ev |-> batch[n][p]]
      BY <2>1 DEF Placed
    <3>2. PICK q \in DOMAIN batch[n] : y = [id |-> base + q, ev |-> batch[n][q]]
      BY <2>1 DEF Placed
    <3>3. base + p = base + q /\ p \in Nat /\ q \in Nat
      BY <2>3, <3>1, <3>2
    <3> QED BY <3>1, <3>2, <3>3
  <2>5. IsFiniteSet(nodes[n])
    BY <2>2, <2>4, NodesFinite
  <2>6. PICK y : nodes[n] = {y}
    BY <1>5, <2>5, FS_Singleton
  <2>7. First(Clashing(n)) \in nodes[n]
    <3>1. Clashing(n) \in SUBSET [id : 1 .. lastId, ev : Events]
      BY <2>2
    <3> QED BY <1>5, <2>2, <3>1, FirstNode
  <2>8. Committed(y)
    <3>1. First(Clashing(n)) = y
      BY <2>6, <2>7
    <3> QED BY <1>5, <3>1
  <2>9. ASSUME NEW i \in Events, SeenAll(batch[n], i) PROVE Handled(i)'
    <3>1. Handled(i)
      <4> SUFFICES ASSUME ~Handled(i) PROVE FALSE
        OBVIOUS
      <4>1. PICK x \in nodes[n] : x.ev = i
        BY <1>1, <2>1, <2>6, <2>9, KeptNode
      <4>2. InChain(i)
        BY <2>6, <2>8, <4>1 DEF Committed
      <4> QED BY <4>2 DEF Handled
    <3> QED BY <1>1, <3>1, HandledKept
  <2> QED BY <1>1, <1>2, <1>5, <2>9, ReturnLoss
<1>6. CASE InsertError(n)
  BY <1>1, <1>2, <1>6, LossInsertError
<1>7. CASE BatchRetry(n)
  BY <1>1, <1>2, <1>7, ReturnLoss
<1> QED BY <1>3, <1>4, <1>5, <1>6, <1>7 DEF InsertNodes

\* The token is set in the transaction, or the batch is retried: nothing is passed over.
LEMMA LossSetTokenInTxn ==
  ASSUME LossInv, TypeInv', Grown, NEW n \in Nodes, SetTokenInTxn(n)
  PROVE  Starts' /\ StreamOK(n)' /\ InsertOK(n)'
<1>1. /\ TypeInv /\ Starts /\ StreamOK(n) /\ InsertOK(n) /\ pc[n] = "token"
      /\ oplog' = oplog /\ token' = token /\ chain' = chain /\ opt' = opt /\ rd' = rd
      /\ pc[n] \in Doing /\ pc[n] \in Running /\ pc[n] \in Working
  BY DEF LossInv, SetTokenInTxn, Doing, Running, Working
<1>2. Starts'
  BY <1>1, StartsFrame
<1>3. CASE pc' = [pc EXCEPT ![n] = "commit"] /\ UNCHANGED << ch, work >>
  <2>1. /\ pc'[n] = "commit" /\ batch'[n] = batch[n] /\ ch'[n] = ch[n] /\ nodes'[n] = nodes[n]
        /\ pc'[n] \in Doing /\ pc'[n] \in Working
    BY <1>1, <1>3 DEF work, TypeInv, LoopType, Doing, Working
  <2>2. StreamOK(n)'
    BY <1>1, <2>1, StreamMoved
  <2>3. InsertOK(n)'
    BY <1>1, <2>1, InsertMoved
  <2> QED BY <1>2, <2>2, <2>3
<1>4. CASE InsertError(n)
  BY <1>1, <1>2, <1>4, LossInsertError
<1> QED BY <1>3, <1>4 DEF SetTokenInTxn

\* The commit puts a node of everything that is behind the token into the chain.
LEMMA CommitCovers ==
  ASSUME LossInv, TypeInv', Grown, oplog' = oplog, NEW n \in Nodes, pc[n] = "commit",
         nodes[n] # {}, batch[n] # << >>, chain' = chain \cup nodes[n]
  PROVE  /\ \A i \in Events : SeenAll(batch[n], i) => Handled(i)'
         /\ \A x \in nodes[n] : x.ev \in Events /\ \A i \in Events : i <= x.ev => Handled(i)'
<1>1. /\ TypeInv /\ OplogOrder /\ Starts /\ StreamOK(n) /\ InsertOK(n)
      /\ pc[n] \in Running /\ pc[n] \in Working
  BY DEF LossInv, Running, Doing, Working
<1>2. PICK base \in Nat : Placed(n, base) /\ Kept(n, base)
  BY <1>1 DEF InsertOK
<1>3. /\ batch[n] \in Seq(Nat) /\ Events \subseteq Nat /\ Len(batch[n]) \in Nat
      /\ DOMAIN batch[n] = 1 .. Len(batch[n])
      /\ \A j \in DOMAIN batch[n] : batch[n][j] \in Events /\ j \in Nat
  <2>1. batch[n] \in Seq(Nat) /\ Events \subseteq Nat
        /\ \A j \in DOMAIN batch[n] : batch[n][j] \in Events
    BY <1>1, FlowFacts
  <2> QED BY <2>1, LenProperties
<1>4. ASSUME NEW x \in nodes[n], NEW i \in Events, x.ev = i PROVE Handled(i)'
  <2>1. InChain(i)'
    BY <1>4 DEF InChain
  <2> QED BY <2>1 DEF Handled
<1>5. ASSUME NEW i \in Events, Handled(i) PROVE Handled(i)'
  BY <1>1, <1>5, HandledKept
<1>6. ASSUME NEW i \in Events, SeenAll(batch[n], i) PROVE Handled(i)'
  <2>1. CASE ~Handled(i)
    <3>1. \E x \in nodes[n] : x.ev = i
      BY <1>1, <1>2, <1>6, <2>1, KeptNode
    <3> QED BY <1>4, <3>1
  <2> QED BY <1>5, <2>1
<1>7. ASSUME NEW x \in nodes[n], NEW i \in Events, i <= x.ev PROVE Handled(i)'
  <2>1. PICK p \in DOMAIN batch[n] : x = [id |-> base + p, ev |-> batch[n][p]]
    BY <1>2 DEF Placed
  <2>2. x.id = base + p /\ x.ev = batch[n][p] /\ p \in Nat /\ x.ev \in Nat /\ i \in Nat
    BY <1>3, <2>1
  <2>3. CASE i = x.ev
    BY <1>4, <2>3
  <2>4. CASE i < x.ev /\ ~Handled(i)
    <3>1. CoveredIn(batch[n], ch[n], rd[n], i)
      BY <1>1, <2>4 DEF StreamOK
    <3>2. SeenIn(batch[n], p, i)
      BY <2>2, <2>4, <3>1 DEF CoveredIn
    <3>3. PICK j \in 1 .. p - 1 : batch[n][j] = i /\ \A r \in j + 1 .. p - 1 : batch[n][r] > i
      BY <3>2 DEF SeenIn
    <3>4. j \in DOMAIN batch[n]
      BY <1>3, <2>2
    <3>5. PICK k \in DOMAIN batch[n] : k >= j /\ batch[n][k] = i /\ LastPlace(batch[n], k)
      BY <1>3, <3>3, <3>4, LastPlaceExists
    <3>6. \/ [id |-> base + k, ev |-> batch[n][k]] \in nodes[n]
          \/ \A y \in nodes[n] : \E r \in DOMAIN batch[n] :
                k < r /\ base + r <= y.id /\ batch[n][r] <= batch[n][k]
      BY <1>2, <2>4, <3>5 DEF Kept
    <3>7. CASE [id |-> base + k, ev |-> batch[n][k]] \in nodes[n]
      <4>1. [id |-> base + k, ev |-> batch[n][k]].ev = i
        BY <3>5
      <4> QED BY <1>4, <3>7, <4>1
    <3>8. ASSUME NEW r \in DOMAIN batch[n], k < r, base + r <= x.id, batch[n][r] <= batch[n][k]
          PROVE  FALSE
      <4>1. r \in Nat /\ r <= p /\ j < r /\ batch[n][r] <= i /\ batch[n][r] \in Nat
        <5>1. j \in Nat /\ k \in Nat /\ r \in Nat /\ batch[n][r] \in Nat /\ base \in Nat
          <6>1. k \in Nat /\ r \in Nat /\ batch[n][r] \in Events /\ j \in Nat
            BY <1>3, <3>4
          <6> QED BY <1>3, <6>1
        <5>2. r <= p
          BY <2>2, <3>8, <5>1
        <5>3. j < r
          BY <3>5, <3>8, <5>1
        <5> QED BY <3>5, <3>8, <5>1, <5>2, <5>3
      <4>2. r # p
        BY <2>2, <2>4, <4>1
      <4>3. r \in j + 1 .. p - 1
        BY <2>2, <3>3, <4>1, <4>2
      <4> QED BY <2>2, <3>3, <4>1, <4>3
    <3> QED BY <3>6, <3>7, <3>8
  <2> QED BY <1>5, <1>7, <2>2, <2>3, <2>4
<1>8. \A x \in nodes[n] : x.ev \in Events
  BY <1>1 DEF TypeInv, WorkType
<1> QED BY <1>6, <1>7, <1>8

\* Nodes and token come into force together.
LEMMA LossCommitTransaction ==
  ASSUME LossInv, TypeInv', Grown, NEW n \in Nodes, CommitTransaction(n)
  PROVE  Starts' /\ StreamOK(n)' /\ InsertOK(n)'
<1>1. /\ TypeInv /\ OplogOrder /\ Starts /\ StreamOK(n) /\ InsertOK(n) /\ pc[n] = "commit"
      /\ oplog' = oplog /\ opt' = opt /\ rd' = rd /\ pc[n] \in Doing
      /\ batch[n] # << >> /\ nodes[n] # {}
  BY DEF LossInv, CommitTransaction, Doing, Working, TypeInv, WorkOK
<1>2. CASE UNCHANGED << chain, token >> /\ BatchRetry(n)
  <2>1. Starts'
    BY <1>1, <1>2, StartsFrame
  <2> QED BY <1>1, <1>2, <2>1, ReturnLoss
<1>3. CASE Commit(n) /\ (BatchDone(n) \/ BatchRetry(n))
  <2>1. chain' = chain \cup nodes[n]
    BY <1>3 DEF Commit
  <2>2. /\ \A i \in Events : SeenAll(batch[n], i) => Handled(i)'
        /\ \A x \in nodes[n] : x.ev \in Events /\ \A i \in Events : i <= x.ev => Handled(i)'
    BY <1>1, <2>1, CommitCovers
  <2>3. StreamOK(n)' /\ InsertOK(n)'
    BY <1>1, <1>3, <2>2, ReturnLoss
  <2>4. /\ batch[n][Len(batch[n])] \in Events
        /\ \A i \in Events : i <= batch[n][Len(batch[n])] => Handled(i)'
    BY <1>1, <2>2, TokenBelow
  <2>5. PICK a \in Events : a = batch[n][Len(batch[n])]
    BY <2>4
  <2>6. Last(nodes[n]) \in nodes[n]
    <3>1. nodes[n] \in SUBSET [id : 1 .. lastId, ev : Events] /\ lastId \in Nat
      BY <1>1 DEF TypeInv, WorkType, ChainType
    <3> QED BY <1>1, <3>1, LastNode
  <2>7. PICK e \in Events : e = Last(nodes[n]).ev /\ \A i \in Events : i <= e => Handled(i)'
    BY <2>2, <2>6
  <2>8. StartOf(e) \in 0 .. Len(oplog) /\ StartOf(e) <= e
    BY <1>1, StartOfBelow
  <2>9. PICK c \in 0 .. Len(oplog) : c = StartOf(e)
    BY <2>8
  <2>10. token'.tok = a /\ token'.startAt = c
    BY <1>3, <2>5, <2>7, <2>9 DEF Commit, SetToken
  <2>11. a \in Nat /\ c \in Nat /\ e \in Nat /\ c <= e /\ Events \subseteq Nat
    BY <1>1, <2>8, <2>9, FlowFacts
  <2>12. \A i \in Events : i <= a \/ i <= c => Handled(i)'
    <3> SUFFICES ASSUME NEW i \in Events, i <= a \/ i <= c PROVE Handled(i)'
      OBVIOUS
    <3>1. CASE i <= a
      BY <2>4, <2>5, <3>1
    <3>2. CASE i <= c
      <4>1. i <= e
        BY <2>11, <3>2
      <4> QED BY <2>7, <4>1
    <3> QED BY <3>1, <3>2
  <2>13. \A x \in chain' : x \in chain \/ (x.ev \in Nat /\ \A i \in Events : i <= x.ev => Handled(i)')
    BY <2>1, <2>2, <2>11
  <2>14. Starts'
    BY <1>1, <2>10, <2>11, <2>12, <2>13, StartsMoved
  <2> QED BY <2>3, <2>14
<1> QED BY <1>2, <1>3 DEF CommitTransaction

\* A step of one instance leaves what the others have.
LEMMA OthersStay ==
  ASSUME TypeInv, NEW n \in Nodes, NEW m \in Nodes, m # n,
         LoopStep(n) \/ StreamNext(n) \/ StreamRewind(n) \/ Crash(n)
  PROVE  pc'[m] = pc[m] /\ batch'[m] = batch[m] /\ ch'[m] = ch[m] /\ nodes'[m] = nodes[m]
         /\ rd'[m] = rd[m]
<1>1. BatchDone(n) \/ BatchRetry(n) =>
         pc'[m] = pc[m] /\ batch'[m] = batch[m] /\ ch'[m] = ch[m] /\ nodes'[m] = nodes[m]
  BY DEF BatchDone, BatchRetry, DropWork, TypeInv, LoopType, StreamType, WorkType
<1>2. InsertError(n) => BatchDone(n)
  BY DEF InsertError
<1>3. CASE RunFlow(n) \/ WatchRetry(n) \/ StartLoop(n) \/ CanLoop(n) \/ Gather(n)
           \/ StreamNext(n) \/ StreamRewind(n) \/ Crash(n)
  BY <1>3 DEF RunFlow, WatchRetry, Watch, StartLoop, CanLoop, Gather, StreamNext,
     StreamRewind, Crash, DropWork, work, TypeInv, LoopType, StreamType, WorkType
<1>4. CASE NextSequences(n) \/ SkipInvalid(n) \/ StoreDetails(n) \/ InsertNodes(n)
           \/ SetTokenInTxn(n) \/ CommitTransaction(n)
  BY <1>1, <1>2, <1>4 DEF NextSequences, SkipInvalid, StoreDetails, InsertNodes,
     SetTokenInTxn, CommitTransaction, work, TypeInv, LoopType, StreamType, WorkType
<1> QED BY <1>3, <1>4 DEF LoopStep

\* What holds of another instance's loop goes on to hold.
LEMMA LossOthers ==
  ASSUME LossInv, TypeInv', Grown, NEW n \in Nodes, NEW m \in Nodes, m # n,
         LoopStep(n) \/ StreamNext(n) \/ StreamRewind(n) \/ Crash(n)
  PROVE  StreamOK(m)' /\ InsertOK(m)'
<1>1. TypeInv /\ StreamOK(m) /\ InsertOK(m)
  BY DEF LossInv
<1> QED BY <1>1, OthersStay, StreamFrame, InsertFrame

\* Every step keeps the invariant.
LEMMA LossStep ==
  ASSUME CursorsAssumed, RewindAssumed, LossInv, [Next]_vars
  PROVE  LossInv'
<1>1. TypeInv /\ OplogOrder /\ Starts /\ \A m \in Nodes : StreamOK(m) /\ InsertOK(m)
  BY DEF LossInv
<1>2. TypeInv' /\ Grown /\ OplogOrder'
  BY <1>1, TypeStep, GrownStep, OplogStep
<1>3. CASE \/ UNCHANGED vars \/ Write \/ \E n \in Nodes : ViewChange(n)
  <2>1. UNCHANGED << token, chain, opt, pc, batch, ch, rd, nodes >>
    BY <1>3 DEF vars, db, loop, work, Write, ViewChange
  <2>2. Starts'
    BY <1>1, <1>2, <2>1, StartsFrame
  <2>3. ASSUME NEW m \in Nodes PROVE StreamOK(m)' /\ InsertOK(m)'
    BY <1>1, <1>2, <2>1, StreamFrame, InsertFrame
  <2> QED BY <1>2, <2>2, <2>3 DEF LossInv
<1>4. ASSUME NEW n \in Nodes, LoopStep(n) \/ StreamNext(n) \/ StreamRewind(n) \/ Crash(n)
      PROVE  LossInv'
  <2>1. Starts' /\ StreamOK(n)' /\ InsertOK(n)'
    <3>1. CASE RunFlow(n) \/ WatchRetry(n) \/ StartLoop(n) \/ CanLoop(n) \/ Gather(n)
      BY <1>2, <3>1, LossRunFlow, LossLoop, LossGather
    <3>2. CASE NextSequences(n) \/ SkipInvalid(n) \/ StoreDetails(n) \/ InsertNodes(n)
               \/ SetTokenInTxn(n) \/ CommitTransaction(n)
      BY <1>2, <3>2, LossNextSequences, LossSkipInvalid, LossStoreDetails, LossInsertNodes,
         LossSetTokenInTxn, LossCommitTransaction
    <3>3. CASE StreamNext(n) \/ StreamRewind(n) \/ Crash(n)
      BY <1>2, <3>3, LossStreamNext, LossStreamRewind, LossCrash
    <3> QED BY <1>4, <3>1, <3>2, <3>3 DEF LoopStep
  <2>2. ASSUME NEW m \in Nodes, m # n PROVE StreamOK(m)' /\ InsertOK(m)'
    BY <1>2, <1>4, <2>2, LossOthers
  <2>3. \A m \in Nodes : StreamOK(m)' /\ InsertOK(m)'
    BY <2>1, <2>2
  <2> QED BY <1>2, <2>1, <2>3 DEF LossInv
<1> QED BY <1>3, <1>4 DEF Next

\* It holds before anything happened.
LEMMA LossInit == Init => LossInv
<1> SUFFICES ASSUME Init PROVE LossInv
  OBVIOUS
<1>1. TypeInv
  BY TypeInit
<1>2. oplog = << >> /\ Events = {} /\ chain = {}
  <2>1. oplog = << >> /\ chain = {}
    BY DEF Init
  <2>2. Len(<< >>) = 0
    BY EmptySeq
  <2> QED BY <2>1, <2>2 DEF Events
<1>3. OplogOrder /\ Starts
  BY <1>2 DEF OplogOrder, Starts, Below
<1>4. \A n \in Nodes : StreamOK(n) /\ InsertOK(n)
  BY DEF Init, StreamOK, InsertOK, Running, Doing, Working
<1> QED BY <1>1, <1>3, <1>4 DEF LossInv

\* What the invariant is for: an event the token, or a node, is past is handled.
LEMMA LossSuffices == LossInv => LostOnlyWithBatch
<1> SUFFICES ASSUME LossInv, NEW i \in Events, oplog[i].ok, Passed(i), ~InChain(i)
             PROVE  i \in gaveUp \cup swallowed
  BY DEF LostOnlyWithBatch, Missing
<1>1. Below(token.tok) /\ \A x \in chain : Below(x.ev)
  BY DEF LossInv, Starts
<1>2. Handled(i)
  BY <1>1 DEF Passed, Below
<1> QED BY <1>2 DEF Handled

\* A valid event that the token or a chain node has passed is in the chain, or it was in
\* a batch that was given up after MaxRetry retries or whose insert error was swallowed:
\* duplicates taken out one by one, retries, crashes, handovers and streams that restart
\* a minute back lose nothing else (doInsertEvents, doBatch, watchRetry).
THEOREM LossesAreErrors ==
  ASSUME CursorsAssumed, RewindAssumed
  PROVE  Spec => []LostOnlyWithBatch
<1>1. LossInv /\ [Next]_vars => LossInv'
  BY LossStep
<1> QED BY <1>1, LossInit, LossSuffices, PTL DEF Spec

\* Whatever fails, for any number of masters: what a running loop's stream has read is in
\* the chain, in its channel or batch, or went with a batch that was given up or whose
\* insert error was swallowed (loopWatch, tryLoopWithBatch, doBatch).
THEOREM LoopsLeaveNone ==
  ASSUME CursorsAssumed, RewindAssumed
  PROVE  Spec => []NoneLeftBehind
<1>1. LossInv /\ [Next]_vars => LossInv'
  BY LossStep
<1>2. ASSUME LossInv PROVE NoneLeftBehind
  <2> SUFFICES ASSUME NEW n \in Nodes, pc[n] \notin {"down", "retry"},
                      NEW i \in 1 .. rd[n], ~Handled(i)
               PROVE  i \in BatchEvents(n) \/ \E k \in DOMAIN ch[n] : ch[n][k] = i
    BY DEF NoneLeftBehind
  <2>1. TypeInv /\ StreamOK(n)
    BY <1>2 DEF LossInv
  <2>2. /\ rd[n] \in Nat /\ rd[n] <= Len(oplog) /\ Len(oplog) \in Nat
        /\ batch[n] \in Seq(Nat) /\ ch[n] \in Seq(Nat)
    BY <2>1, FlowFacts
  <2>3. i \in Events /\ i \in Nat /\ i <= rd[n]
    BY <2>2 DEF Events
  <2>4. pc[n] \in Running
    BY <2>1 DEF TypeInv, LoopType, Running, Doing, Working
  <2>5. SeenAll(ch[n], i) \/ SeenAll(batch[n], i)
    BY <2>1, <2>3, <2>4 DEF StreamOK, CoveredIn
  <2> QED BY <2>2, <2>3, <2>5, SeenPlace DEF BatchEvents
<1> QED BY <1>1, <1>2, LossInit, PTL DEF Spec

-----------------------------------------------------------------------------
(* One loop: what holds while mastership does not move between instances.   *)

\* There is one instance, or mastership stays where it is.
OneLoop == (\A m, n \in Nodes : m = n) \/ MaxFlips = 0

\* The instance that can be the one that writes.
Main(n) == (\A m \in Nodes : m = n) \/ (MaxFlips = 0 /\ n \in isMaster)

\* Only that one gathers and handles batches; nodes wait to be inserted nowhere else.
Sole ==
    /\ MaxFlips = 0 => \A m, n \in isMaster : m = n
    /\ \A n \in Nodes : /\ pc[n] \in Doing \cup {"gather"} => Main(n)
                        /\ pc[n] \notin Working => nodes[n] = {}

\* Two instances that can work at all are the same one.
LEMMA OneMain ==
  ASSUME Sole, NEW m \in Nodes, NEW n \in Nodes, Main(m), Main(n)
  PROVE  m = n
BY DEF Main, Sole

\* What a step of instance n must leave for Sole.
LEMMA SoleMoved ==
  ASSUME Sole, NEW n \in Nodes, isMaster' = isMaster,
         \A m \in Nodes \ {n} : pc'[m] = pc[m] /\ nodes'[m] = nodes[m],
         pc'[n] \in Doing \cup {"gather"} => Main(n),
         pc'[n] \notin Working => nodes'[n] = {}
  PROVE  Sole'
<1>1. \A m \in Nodes : Main(m)' <=> Main(m)
  BY DEF Main
<1>2. ASSUME NEW m \in Nodes
      PROVE  /\ pc'[m] \in Doing \cup {"gather"} => Main(m)'
             /\ pc'[m] \notin Working => nodes'[m] = {}
  <2>1. CASE m = n
    BY <1>1, <2>1
  <2>2. CASE m # n
    BY <1>1, <2>2 DEF Sole
  <2> QED BY <2>1, <2>2
<1>3. MaxFlips = 0 => \A m, k \in isMaster' : m = k
  BY DEF Sole
<1> QED BY <1>2, <1>3 DEF Sole

\* With one loop no other ever gets a batch.
LEMMA SoleStep ==
  ASSUME OneLoop, TypeInv, Sole, [Next]_vars
  PROVE  Sole'
<1>1. CASE UNCHANGED vars \/ Write
  BY <1>1 DEF Sole, Main, vars, db, loop, work, Write
<1>2. ASSUME NEW n \in Nodes, ViewChange(n) PROVE Sole'
  <2>1. MaxFlips # 0
    BY <1>2, BoundsAssumption DEF ViewChange, TypeInv, SharedType
  <2>2. \A m \in Nodes : Main(m)'
    BY <2>1 DEF OneLoop, Main
  <2> QED BY <1>2, <2>1, <2>2 DEF ViewChange, Sole, loop, work
<1>3. ASSUME NEW n \in Nodes, LoopStep(n) \/ StreamNext(n) \/ StreamRewind(n) \/ Crash(n)
      PROVE  Sole'
  <2>1. /\ pc[n] \in Doing \cup {"gather"} => Main(n)
        /\ pc[n] \notin Working => nodes[n] = {}
        /\ n \in isMaster => Main(n)
    BY DEF Sole, OneLoop, Main
  <2> DEFINE Good == /\ isMaster' = isMaster
                     /\ \A m \in Nodes \ {n} : pc'[m] = pc[m] /\ nodes'[m] = nodes[m]
                     /\ pc'[n] \in Doing \cup {"gather"} => Main(n)
                     /\ pc'[n] \notin Working => nodes'[n] = {}
  <2>2. CASE RunFlow(n) \/ StartLoop(n) \/ WatchRetry(n) \/ CanLoop(n) \/ Gather(n)
    <3>1. Good
      BY <2>1, <2>2 DEF RunFlow, StartLoop, WatchRetry, Watch, CanLoop, Gather, work, db,
         TypeInv, LoopType, WorkType, Doing, Working
    <3> QED BY <3>1, SoleMoved
  <2>3. CASE StreamNext(n) \/ StreamRewind(n) \/ Crash(n)
    <3>1. Good
      BY <2>1, <2>3 DEF StreamNext, StreamRewind, Crash, DropWork, work, db,
         TypeInv, LoopType, WorkType, Doing, Working
    <3> QED BY <3>1, SoleMoved
  <2>4. BatchDone(n) \/ BatchRetry(n) =>
           /\ \A m \in Nodes \ {n} : pc'[m] = pc[m] /\ nodes'[m] = nodes[m]
           /\ pc'[n] \in {"loop", "retry"} /\ nodes'[n] = {}
    BY DEF BatchDone, BatchRetry, DropWork, TypeInv, LoopType, WorkType
  <2>5. CASE NextSequences(n)
    <3>1. CASE BatchRetry(n)
      <4>1. Good
        BY <2>4, <2>5, <3>1 DEF NextSequences, Doing, Working
      <4> QED BY <4>1, SoleMoved
    <3>2. CASE /\ nodes' = [nodes EXCEPT ![n] = Picked(batch[n], lastId)]
               /\ pc' = [pc EXCEPT ![n] =
                             IF Picked(batch[n], lastId) = {} THEN "invalid" ELSE "redis"]
      <4>1. Good
        BY <2>1, <2>5, <3>2 DEF NextSequences, TypeInv, LoopType, WorkType, Doing, Working
      <4> QED BY <4>1, SoleMoved
    <3> QED BY <2>5, <3>1, <3>2 DEF NextSequences
  <2>6. CASE SkipInvalid(n) \/ StoreDetails(n) \/ SetTokenInTxn(n) \/ CommitTransaction(n)
    <3>1. Good
      BY <2>1, <2>4, <2>6 DEF SkipInvalid, StoreDetails, SetTokenInTxn, CommitTransaction,
         InsertError, work, TypeInv, LoopType, WorkType, Doing, Working
    <3> QED BY <3>1, SoleMoved
  <2>7. CASE InsertNodes(n)
    <3>1. Good
      BY <2>1, <2>4, <2>7 DEF InsertNodes, InsertError, work, db, TypeInv, LoopType,
         WorkType, Doing, Working
    <3> QED BY <3>1, SoleMoved
  <2> QED BY <1>3, <2>2, <2>3, <2>5, <2>6, <2>7 DEF LoopStep
<1> QED BY <1>1, <1>2, <1>3 DEF Next

\* At the start nobody works and there is one master.
LEMMA SoleInit == Init => Sole
<1> SUFFICES ASSUME Init PROVE Sole
  OBVIOUS
<1>1. \A m, n \in isMaster : m = n
  BY DEF Init
<1> QED BY <1>1 DEF Init, Sole, Doing, Working

\* The token record has the id of the last chain node, and a loop's nodes come behind it.
LoopTail ==
    /\ \A x \in chain : x.id <= token.id
    /\ chain # {} => \E x \in chain : x.id = token.id
    /\ \A n \in Nodes : \A x \in nodes[n] : \A y \in chain : y.id < x.id

TailInv == TypeInv /\ Sole /\ LoopTail

\* Steps that leave the chain alone.
LEMMA TailFrame ==
  ASSUME LoopTail, chain' = chain, token'.id = token.id, \A m \in Nodes : nodes'[m] \subseteq nodes[m]
  PROVE  LoopTail'
BY DEF LoopTail

\* The chain grows by the nodes of the one loop.
LEMMA TailCommit ==
  ASSUME TailInv, NEW n \in Nodes, pc[n] = "commit", Commit(n),
         nodes' = [nodes EXCEPT ![n] = {}]
  PROVE  /\ LoopTail'
         /\ \A x \in chain, y \in chain' \ chain : x.id < y.id
<1>1. /\ TypeInv /\ Sole /\ LoopTail /\ nodes[n] # {} /\ lastId \in Nat
      /\ nodes[n] \in SUBSET [id : 1 .. lastId, ev : Events]
      /\ chain \in SUBSET [id : 1 .. lastId, ev : Events]
  BY DEF TailInv, TypeInv, WorkOK, Working, WorkType, ChainType
<1>2. chain' = chain \cup nodes[n] /\ token'.id = Last(nodes[n]).id
  BY DEF Commit, SetToken
<1>3. Last(nodes[n]) \in nodes[n] /\ \A x \in nodes[n] : x.id <= Last(nodes[n]).id
  BY <1>1, LastNode
<1>4. \A x \in chain : \A y \in nodes[n] : x.id < y.id
  BY <1>1 DEF LoopTail
<1>5. PICK z \in nodes[n] : z = Last(nodes[n])
  BY <1>3
<1>6. \A x \in chain' : x.id <= z.id
  <2>1. \A x \in chain : x.id <= z.id
    <3>1. \A x \in chain \cup nodes[n] : x.id \in Nat
      BY <1>1
    <3> QED BY <1>4, <3>1
  <2> QED BY <1>2, <1>3, <1>5, <2>1
<1>7. \A m \in Nodes : nodes'[m] = {}
  <2>1. nodes'[n] = {} /\ \A m \in Nodes \ {n} : nodes'[m] = nodes[m]
    BY <1>1 DEF TypeInv, WorkType
  <2>2. ASSUME NEW m \in Nodes \ {n} PROVE nodes[m] = {}
    <3>1. ~Main(m)
      BY <1>1, <2>2, OneMain DEF Sole, Doing, Working
    <3> QED BY <1>1, <3>1 DEF Sole, Doing
  <2> QED BY <2>1, <2>2
<1>8. z \in chain' /\ token'.id = z.id
  BY <1>2, <1>5
<1>9. LoopTail'
  BY <1>6, <1>7, <1>8 DEF LoopTail
<1> QED BY <1>2, <1>4, <1>9

\* A step keeps the tail and only appends to the chain.
LEMMA TailStep ==
  ASSUME OneLoop, TailInv, [Next]_vars
  PROVE  /\ TailInv'
         /\ chain \subseteq chain'
         /\ \A x \in chain, y \in chain' \ chain : x.id < y.id
<1>1. TypeInv /\ Sole /\ LoopTail /\ TypeInv' /\ Sole'
  BY TypeStep, SoleStep DEF TailInv
<1>2. SUFFICES /\ LoopTail' /\ chain \subseteq chain'
               /\ \A x \in chain, y \in chain' \ chain : x.id < y.id
  BY <1>1 DEF TailInv
<1>3. ASSUME NEW n \in Nodes, NextSequences(n), nodes' = [nodes EXCEPT ![n] = Picked(batch[n], lastId)]
      PROVE  LoopTail'
  <2> DEFINE new == Picked(batch[n], lastId)
  <2>1. lastId \in Nat /\ batch[n] \in Seq(Events)
    BY <1>1 DEF TypeInv, ChainType, WorkType
  <2>2. /\ new \subseteq [id : 1 .. lastId + Len(batch[n]), ev : Events]
        /\ \A x \in new : lastId < x.id
    BY <2>1, PickedType
  <2>3. nodes'[n] = new /\ \A m \in Nodes \ {n} : nodes'[m] = nodes[m]
    BY <1>1, <1>3 DEF TypeInv, WorkType
  <2> HIDE DEF new
  <2>4. \A x \in new : \A y \in chain : y.id < x.id
    <3>1. \A y \in chain : y.id \in Nat /\ y.id <= lastId
      BY <1>1, <2>1 DEF TypeInv, ChainType
    <3>2. Len(batch[n]) \in Nat
      BY <2>1
    <3> QED BY <2>1, <2>2, <3>1, <3>2
  <2>5. chain' = chain /\ token' = token
    BY <1>3 DEF NextSequences
  <2> QED BY <1>1, <2>3, <2>4, <2>5 DEF LoopTail
<1>4. ASSUME NEW n \in Nodes, CommitTransaction(n), Commit(n)
      PROVE  /\ LoopTail' /\ chain \subseteq chain'
             /\ \A x \in chain, y \in chain' \ chain : x.id < y.id
  <2>1. nodes' = [nodes EXCEPT ![n] = {}] /\ pc[n] = "commit"
    BY <1>4 DEF CommitTransaction, BatchRetry, BatchDone, DropWork
  <2> QED BY <1>4, <2>1, TailCommit DEF Commit
<1>5. ASSUME chain' = chain, token'.id = token.id, \A m \in Nodes : nodes'[m] \subseteq nodes[m]
      PROVE  LoopTail'
  BY <1>1, <1>5, TailFrame
<1>6. CASE \/ UNCHANGED vars \/ Write
           \/ \E n \in Nodes : \/ RunFlow(n) \/ StartLoop(n) \/ WatchRetry(n) \/ CanLoop(n)
                               \/ Gather(n) \/ StreamNext(n) \/ ViewChange(n)
  <2>1. chain' = chain /\ token' = token /\ nodes' = nodes
    BY <1>6 DEF vars, db, work, Write, RunFlow, StartLoop, WatchRetry, CanLoop, Gather,
       StreamNext, ViewChange
  <2> QED BY <1>5, <2>1
<1>7. ASSUME NEW n \in Nodes, \/ Crash(n) \/ StreamRewind(n) \/ SkipInvalid(n) \/ StoreDetails(n)
                              \/ InsertNodes(n) \/ SetTokenInTxn(n)
                              \/ NextSequences(n) /\ BatchRetry(n)
                              \/ CommitTransaction(n) /\ UNCHANGED << chain, token >>
      PROVE  chain' = chain /\ token'.id = token.id /\ \A m \in Nodes : nodes'[m] \subseteq nodes[m]
  <2>1. chain' = chain
    BY <1>7 DEF Crash, StreamRewind, SkipInvalid, StoreDetails, InsertNodes, SetTokenInTxn,
       NextSequences, db
  <2>2. token'.id = token.id
    BY <1>1, <1>7 DEF Crash, StreamRewind, SkipInvalid, SetToken, StoreDetails, InsertNodes,
       SetTokenInTxn, NextSequences, db, TypeInv, ChainType
  <2>3. \/ nodes' = nodes
        \/ nodes' = [nodes EXCEPT ![n] = {}]
        \/ nodes' = [nodes EXCEPT ![n] = nodes[n] \ {First(nodes[n])}]
    BY <1>7 DEF Crash, StreamRewind, SkipInvalid, StoreDetails, InsertNodes, SetTokenInTxn,
       NextSequences, CommitTransaction, InsertError, BatchDone, BatchRetry, DropWork, work
  <2>4. \A m \in Nodes : nodes'[m] \subseteq nodes[m]
    BY <1>1, <2>3 DEF TypeInv, WorkType
  <2> QED BY <2>1, <2>2, <2>4
<1>8. ASSUME NEW n \in Nodes, NextSequences(n) \/ CommitTransaction(n)
      PROVE  /\ LoopTail' /\ chain \subseteq chain'
             /\ \A x \in chain, y \in chain' \ chain : x.id < y.id
  <2>1. CASE NextSequences(n)
    <3>1. chain' = chain
      BY <2>1 DEF NextSequences
    <3>2. LoopTail'
      BY <1>3, <1>5, <1>7, <2>1 DEF NextSequences
    <3> QED BY <3>1, <3>2
  <2>2. CASE CommitTransaction(n)
    <3>1. Commit(n) \/ UNCHANGED << chain, token >>
      BY <2>2 DEF CommitTransaction
    <3>2. CASE Commit(n)
      BY <1>4, <2>2, <3>2
    <3>3. CASE UNCHANGED << chain, token >>
      BY <1>5, <1>7, <2>2, <3>3
    <3> QED BY <3>1, <3>2, <3>3
  <2> QED BY <1>8, <2>1, <2>2
<1> QED BY <1>5, <1>6, <1>7, <1>8 DEF Next, LoopStep

\* At the start there is no chain, hence no tail.
LEMMA TailInit == Init => TailInv
<1> SUFFICES ASSUME Init PROVE TailInv
  OBVIOUS
<1>1. TypeInv /\ Sole
  BY TypeInit, SoleInit
<1>2. LoopTail
  BY DEF Init, LoopTail
<1> QED BY <1>1, <1>2 DEF TailInv

\* Wherever a watch resumes from the id of the token record, that is the last node's:
\* with one loop no step, and no failure, moves one without the other.
THEOREM TokenNamesTail ==
  ASSUME OneLoop
  PROVE  Spec => []TokenAtTail
<1>1. TailInv /\ [Next]_vars => TailInv'
  BY TailStep
<1>2. ASSUME TailInv PROVE TokenAtTail
  <2>1. chain \in SUBSET [id : 1 .. lastId, ev : Events] /\ lastId \in Nat /\ token.id \in Nat
    BY <1>2 DEF TailInv, TypeInv, ChainType
  <2> SUFFICES ASSUME chain # {} PROVE token.id = Last(chain).id
    BY DEF TokenAtTail
  <2>2. Last(chain) \in chain /\ \A y \in chain : y.id <= Last(chain).id
    BY <2>1, LastNode
  <2>3. PICK x \in chain : x.id = token.id
    BY <1>2 DEF TailInv, LoopTail
  <2>4. PICK z \in chain : z = Last(chain)
    BY <2>2
  <2>5. z.id <= token.id /\ token.id <= z.id /\ z.id \in Nat
    BY <1>2, <2>1, <2>2, <2>3, <2>4 DEF TailInv, LoopTail
  <2> QED BY <2>1, <2>4, <2>5
<1> QED BY <1>1, <1>2, TailInit, PTL DEF Spec

\* Clients that read the chain up to its tail never miss a node: every step adds its
\* nodes behind all that were there, and takes none away.
THEOREM ChainOnlyGrows ==
  ASSUME OneLoop
  PROVE  Spec => AppendOnly
<1>1. TailInv /\ [Next]_vars => TailInv'
  BY TailStep
<1>2. ASSUME TailInv, [Next]_vars
      PROVE  [/\ chain \subseteq chain'
              /\ \A x \in chain, y \in chain' \ chain : x.id < y.id]_chain
  BY <1>2, TailStep
<1> QED BY <1>1, <1>2, TailInit, PTL DEF Spec, AppendOnly

-----------------------------------------------------------------------------
(* One loop whose failures are all reported.                                *)

\* Neither the insert nor the token update fails by itself, and no stream rewinds.
Reported == Faults \cap {"insert", "token", "rewind"} = {}

\* No error was swallowed, and no transaction finds the token record changed.
Quiet == swallowed = {} /\ stale = {}

\* With one loop nobody else's transaction is in the way of an insert.
LEMMA NothingPending ==
  ASSUME Sole, NEW n \in Nodes, pc[n] \in Doing
  PROVE  /\ \A x \in nodes[n] : ~Pending(n, x)
         /\ \A m \in Nodes : pc[m] \in Doing => m = n
<1>1. \A m \in Nodes : pc[m] \in Doing => m = n
  BY OneMain DEF Sole
<1>2. \A m \in Nodes : pc[m] \in {"token", "commit"} => m = n
  BY <1>1 DEF Doing, Working
<1> QED BY <1>1, <1>2 DEF Pending, InTxn

\* No reported failure lets the flow pass a batch over.
LEMMA QuietStep ==
  ASSUME Reported, TypeInv, Sole, Quiet, [Next]_vars
  PROVE  Quiet'
<1> USE DEF Quiet
<1>1. CASE UNCHANGED vars \/ Write
  BY <1>1 DEF vars, db, history, Write
<1>2. ASSUME NEW n \in Nodes, ViewChange(n) \/ Crash(n) \/ RunFlow(n) \/ StartLoop(n)
             \/ WatchRetry(n) \/ StreamNext(n) \/ CanLoop(n) \/ Gather(n)
             \/ NextSequences(n) \/ StoreDetails(n)
      PROVE  Quiet'
  BY <1>2 DEF ViewChange, Crash, RunFlow, StartLoop, WatchRetry, StreamNext, CanLoop, Gather,
     NextSequences, StoreDetails, db, history
<1>3. ASSUME NEW n \in Nodes, StreamRewind(n) PROVE Quiet'
  BY <1>3 DEF StreamRewind, Fail, Reported
<1>4. ASSUME NEW n \in Nodes, NEW t, pc[n] \in {"invalid", "commit"}, SetToken(t)
      PROVE  stale' = {}
  <2>1. ~\E m \in Nodes : pc[m] = "token"
    <3>1. \A m \in Nodes : pc[m] \in Doing => m = n
      BY <1>4, NothingPending DEF Doing, Working
    <3> QED BY <1>4, <3>1 DEF Doing, Working
  <2> QED BY <1>4, <2>1 DEF SetToken
<1>5. ASSUME NEW n \in Nodes, SkipInvalid(n) PROVE Quiet'
  BY <1>4, <1>5 DEF SkipInvalid, history
<1>6. ASSUME NEW n \in Nodes, CommitTransaction(n) PROVE Quiet'
  BY <1>4, <1>6 DEF CommitTransaction, Commit
<1>7. ASSUME NEW n \in Nodes, InsertNodes(n) PROVE Quiet'
  <2>1. pc[n] \in Doing /\ \A x \in nodes[n] : ~Pending(n, x)
    BY <1>7, NothingPending DEF InsertNodes, Doing, Working
  <2>2. Clashing(n) # {} => Committed(First(Clashing(n)))
    <3> SUFFICES ASSUME Clashing(n) # {} PROVE Committed(First(Clashing(n)))
      OBVIOUS
    <3>1. Clashing(n) \in SUBSET [id : 1 .. lastId, ev : Events] /\ lastId \in Nat
      BY DEF Clashing, TypeInv, WorkType, ChainType
    <3>2. First(Clashing(n)) \in Clashing(n)
      BY <3>1, FirstNode
    <3> QED BY <2>1, <3>2 DEF Clashing
  <2>3. ~Fail("insert")
    BY DEF Fail, Reported
  <2>4. swallowed' = swallowed
    BY <1>7, <2>2, <2>3 DEF InsertNodes, history
  <2> QED BY <1>7, <2>4 DEF InsertNodes, db
<1>8. ASSUME NEW n \in Nodes, SetTokenInTxn(n) PROVE Quiet'
  <2>1. TokenUnlocked
    <3>1. \A m \in Nodes : pc[m] \in Doing => m = n
      BY <1>8, NothingPending DEF SetTokenInTxn, Doing, Working
    <3> QED BY <1>8, <3>1 DEF TokenUnlocked, SetTokenInTxn, Doing, Working
  <2>2. ~Fail("token")
    BY DEF Fail, Reported
  <2> QED BY <1>8, <2>1, <2>2 DEF SetTokenInTxn
<1> QED BY <1>1, <1>2, <1>3, <1>5, <1>6, <1>7, <1>8 DEF Next, LoopStep

\* With one loop and reported failures a valid event that the token or a chain node has
\* passed is in the chain, unless its batch was given up after MaxRetry retries.
THEOREM NothingLost ==
  ASSUME CursorsAssumed, OneLoop, Reported
  PROVE  Spec => []NoLoss
<1>1. RewindAssumed
  BY DEF Reported, RewindAssumed
<1> DEFINE I == LossInv /\ Sole /\ Quiet
<1>2. Init => I
  BY LossInit, SoleInit DEF Init, Quiet
<1>3. I /\ [Next]_vars => I'
  <2> SUFFICES ASSUME I, [Next]_vars PROVE I'
    OBVIOUS
  <2>1. TypeInv
    BY DEF LossInv
  <2> QED BY <1>1, <2>1, LossStep, SoleStep, QuietStep
<1>4. I => NoLoss
  BY LossSuffices DEF Quiet, LostOnlyWithBatch, NoLoss
<1> QED BY <1>2, <1>3, <1>4, PTL DEF Spec

\* The parts of a sequence cut behind place m.
LEMMA CutFacts ==
  ASSUME NEW c \in Seq(Nat), NEW m \in 1 .. Len(c)
  PROVE  /\ DOMAIN SubSeq(c, 1, m) = 1 .. m
         /\ \A j \in 1 .. m : SubSeq(c, 1, m)[j] = c[j]
         /\ DOMAIN SubSeq(c, m + 1, Len(c)) = 1 .. Len(c) - m
         /\ \A j \in 1 .. Len(c) - m : SubSeq(c, m + 1, Len(c))[j] = c[m + j]
<1> DEFINE l == Len(c)
           f == SubSeq(c, 1, m)
           g == SubSeq(c, m + 1, Len(c))
<1>1. l \in Nat /\ DOMAIN c = 1 .. l /\ m \in 1 .. l /\ 1 \in 1 .. l + 1 /\ m + 1 \in 1 .. l + 1
      /\ m \in 1 - 1 .. l /\ l \in m .. l
  BY LenProperties
<1>2. f \in Seq(Nat) /\ Len(f) = m /\ \A j \in 1 .. m : f[j] = c[j]
  BY <1>1, SubSeqProperties
<1>3. g \in Seq(Nat) /\ Len(g) = l - m /\ \A j \in 1 .. l - m : g[j] = c[m + j]
  <2>1. g \in Seq(Nat)
    BY <1>1, SubSeqProperties
  <2>2. Len(g) = l - m
    <3>1. m + 1 \in Int /\ l \in Int /\ \A j \in m + 1 .. l : c[j] \in Nat
      BY <1>1
    <3>2. Len(g) = IF m + 1 <= l THEN l - (m + 1) + 1 ELSE 0
      BY <3>1, SubSeqProperties
    <3> HIDE DEF g, l
    <3> QED BY <1>1, <3>2
  <2>3. \A j \in 1 .. l - m : g[j] = c[m + j]
    <3>1. m + 1 \in Int /\ l \in Int /\ \A j \in m + 1 .. l : c[j] \in Nat
      BY <1>1
    <3> DEFINE p == m + 1
    <3>2. p \in Int /\ l \in Int /\ \A j \in p .. l : c[j] \in Nat
      BY <3>1
    <3>3. \A j \in 1 .. l - p + 1 : p + j - 1 = m + j
      BY <1>1
    <3>4. l - p + 1 = l - m
      BY <1>1
    <3>5. g = SubSeq(c, p, l)
      OBVIOUS
    <3> HIDE DEF g, l, p
    <3>6. \A j \in 1 .. l - p + 1 : SubSeq(c, p, l)[j] = c[p + j - 1]
      BY <3>2, SubSeqProperties
    <3> QED BY <3>3, <3>4, <3>5, <3>6
  <2> QED BY <2>1, <2>2, <2>3
<1> HIDE DEF f, g, l
<1>4. DOMAIN f = 1 .. m /\ DOMAIN g = 1 .. l - m
  BY <1>2, <1>3, LenProperties
<1> QED BY <1>2, <1>3, <1>4 DEF f, g, l

\* The channel and the batch of a stream that never rewinds: in the order of the oplog,
\* up to the stream's position.
Rising(s) == \A j, k \in DOMAIN s : j < k => s[j] < s[k]
Channel(n) ==
    /\ Rising(ch[n]) /\ Rising(batch[n])
    /\ \A k \in DOMAIN ch[n] : ch[n][k] <= rd[n]
    /\ \A j \in DOMAIN batch[n] : batch[n][j] <= rd[n]
    /\ \A j \in DOMAIN batch[n], k \in DOMAIN ch[n] : batch[n][j] < ch[n][k]

\* The one loop has nothing in its hands that the chain is past.
Ahead(n) ==
    Main(n) /\ pc[n] \notin {"down", "retry"} => \A x \in chain :
        /\ x.ev <= rd[n]
        /\ \A k \in DOMAIN ch[n] : x.ev < ch[n][k]
        /\ \A j \in DOMAIN batch[n] : x.ev < batch[n][j]

\* The chain is in the order of the oplog, has valid events, and is behind the token.
ChainOrder ==
    /\ \A x \in chain : oplog[x.ev].ok /\ x.ev <= token.tok
    /\ \A x, y \in chain : x.id < y.id => x.ev < y.ev

OrderInv ==
    /\ LossInv /\ IdInv /\ TailInv /\ Quiet /\ ChainOrder
    /\ \A n \in Nodes : Channel(n) /\ Ahead(n) /\ \A x \in nodes[n] : oplog[x.ev].ok

\* A step that leaves the stream's position, and leaves or drops the channel and the batch.
LEMMA OrderShrunk ==
  ASSUME NEW n \in Nodes, Channel(n), rd'[n] = rd[n], ch'[n] \in {ch[n], << >>},
         batch'[n] \in {batch[n], << >>}
  PROVE  Channel(n)'
<1>1. DOMAIN << >> = {}
  OBVIOUS
<1> QED BY <1>1 DEF Channel, Rising

\* A step that leaves the chain, and leaves or drops channel and batch, keeps the loop
\* in front of the chain.
LEMMA AheadShrunk ==
  ASSUME NEW n \in Nodes, Ahead(n), rd'[n] = rd[n], ch'[n] \in {ch[n], << >>},
         batch'[n] \in {batch[n], << >>}, chain' = chain, Main(n)' => Main(n),
         pc[n] \in {"down", "retry"} => pc'[n] \in {"down", "retry"}
  PROVE  Ahead(n)'
<1>1. DOMAIN << >> = {}
  OBVIOUS
<1> QED BY <1>1 DEF Ahead

\* The stream reads the next event.
LEMMA OrderStreamNext ==
  ASSUME TypeInv, NEW n \in Nodes, Channel(n), Ahead(n), StreamNext(n), Main(n)' => Main(n)
  PROVE  Channel(n)' /\ Ahead(n)'
<1> DEFINE l == Len(ch[n])
           r == rd[n]
           a == Append(ch[n], r + 1)
<1>1. /\ l \in Nat /\ r \in Nat /\ DOMAIN ch[n] = 1 .. l /\ DOMAIN a = 1 .. l + 1
      /\ \A j \in 1 .. l : a[j] = ch[n][j] /\ ch[n][j] \in Nat
      /\ a[l + 1] = r + 1
      /\ \A j \in DOMAIN batch[n] : batch[n][j] \in Nat
  <2>1. ch[n] \in Seq(Nat) /\ r \in Nat /\ batch[n] \in Seq(Nat)
    BY FlowFacts
  <2>2. a \in Seq(Nat) /\ Len(a) = l + 1
    BY <2>1, AppendProperties
  <2>3. l \in Nat /\ DOMAIN ch[n] = 1 .. l /\ DOMAIN a = 1 .. l + 1
    BY <2>1, <2>2, LenProperties
  <2> QED BY <2>1, <2>2, <2>3, AppendProperties
<1>2. ch'[n] = a /\ rd'[n] = r + 1 /\ batch' = batch /\ chain' = chain /\ pc' = pc
  BY DEF StreamNext, TypeInv, StreamType, work, db
<1> HIDE DEF l, r, a
<1>3. \A k \in 1 .. l + 1 : k \in 1 .. l \/ k = l + 1
  BY <1>1
<1>4. /\ \A k \in 1 .. l : a[k] <= r
      /\ \A j \in DOMAIN batch[n] : batch[n][j] <= r
      /\ \A j \in DOMAIN batch[n], k \in 1 .. l : batch[n][j] < a[k]
      /\ \A j, k \in 1 .. l : j < k => a[j] < a[k]
  BY <1>1 DEF Channel, Rising, r
<1>5. Rising(ch[n])'
  <2>1. \A j, k \in 1 .. l + 1 : j < k => a[j] < a[k]
    BY <1>1, <1>3, <1>4
  <2> QED BY <1>1, <1>2, <2>1 DEF Rising
<1>6. \A k \in 1 .. l + 1 : a[k] <= r + 1
  BY <1>1, <1>3, <1>4
<1>7. \A j \in DOMAIN batch[n] : batch[n][j] <= r + 1
  BY <1>1, <1>4
<1>8. \A j \in DOMAIN batch[n], k \in 1 .. l + 1 : batch[n][j] < a[k]
  BY <1>1, <1>3, <1>4
<1>9. Channel(n)'
  BY <1>1, <1>2, <1>5, <1>6, <1>7, <1>8 DEF Channel, Rising
<1>10. ASSUME Main(n)', pc[n] \notin {"down", "retry"}, NEW x \in chain
       PROVE  /\ x.ev <= r + 1
              /\ \A k \in 1 .. l + 1 : x.ev < a[k]
              /\ \A j \in DOMAIN batch[n] : x.ev < batch[n][j]
  <2>1. x.ev \in Nat
    BY FlowFacts DEF TypeInv, ChainType
  <2>2. /\ x.ev <= r /\ \A k \in 1 .. l : x.ev < a[k]
        /\ \A j \in DOMAIN batch[n] : x.ev < batch[n][j]
    BY <1>1, <1>10 DEF Ahead, r
  <2> QED BY <1>1, <1>3, <2>1, <2>2
<1> QED BY <1>1, <1>2, <1>9, <1>10 DEF Ahead

\* A part of the channel becomes the batch.
LEMMA OrderGather ==
  ASSUME TypeInv, NEW n \in Nodes, Channel(n), Ahead(n), Gather(n), batch[n] = << >>,
         Main(n)' => Main(n)
  PROVE  Channel(n)' /\ Ahead(n)'
<1>1. CASE UNCHANGED << pc, ch, batch >>
  <2>1. ch' = ch /\ batch' = batch /\ rd' = rd /\ chain' = chain /\ pc' = pc
    BY <1>1 DEF Gather, db
  <2> QED BY <2>1, OrderShrunk, AheadShrunk
<1>2. CASE \E k \in 1 .. Len(ch[n]) :
            /\ batch' = [batch EXCEPT ![n] = SubSeq(ch[n], 1, k)]
            /\ ch' = [ch EXCEPT ![n] = SubSeq(@, k + 1, Len(@))]
            /\ pc' = [pc EXCEPT ![n] = "sequence"]
  <2> DEFINE c == ch[n]
             l == Len(c)
  <2>1. PICK m \in 1 .. l :
            /\ batch'[n] = SubSeq(c, 1, m)
            /\ ch'[n] = SubSeq(c, m + 1, l)
    BY <1>2 DEF TypeInv, WorkType, StreamType
  <2>2. c \in Seq(Nat) /\ rd[n] \in Nat /\ rd' = rd /\ chain' = chain /\ pc[n] = "gather"
    BY FlowFacts DEF Gather, db
  <2>3. l \in Nat /\ DOMAIN c = 1 .. l /\ \A j \in 1 .. l : c[j] \in Nat
    BY <2>2, LenProperties
  <2> HIDE DEF l
  <2>4. /\ DOMAIN batch'[n] = 1 .. m /\ \A j \in 1 .. m : batch'[n][j] = c[j]
        /\ DOMAIN ch'[n] = 1 .. l - m /\ \A j \in 1 .. l - m : ch'[n][j] = c[m + j]
    BY <2>1, <2>2, <2>3, CutFacts DEF l
  <2>5. /\ \A j, k \in 1 .. l : j < k => c[j] < c[k]
        /\ \A k \in 1 .. l : c[k] <= rd[n]
        /\ Main(n)' => \A x \in chain : x.ev <= rd[n] /\ \A k \in 1 .. l : x.ev < c[k]
    BY <2>2, <2>3 DEF Channel, Rising, Ahead
  <2>6. \A j \in 1 .. m : j \in 1 .. l
    BY <2>3
  <2>7. \A j \in 1 .. l - m : m + j \in 1 .. l
    BY <2>3
  <2>8. /\ \A j, k \in 1 .. m : j < k => c[j] < c[k]
        /\ \A j, k \in 1 .. l - m : j < k => c[m + j] < c[m + k]
        /\ \A j \in 1 .. m, k \in 1 .. l - m : c[j] < c[m + k]
    <3>1. \A j, k \in 1 .. l - m : j < k => m + j < m + k
      BY <2>3
    <3>2. \A j \in 1 .. m, k \in 1 .. l - m : j < m + k
      BY <2>3
    <3> QED BY <2>5, <2>6, <2>7, <3>1, <3>2
  <2>9. Rising(batch[n])' /\ Rising(ch[n])'
    BY <2>4, <2>8 DEF Rising
  <2>10. Channel(n)'
    <3>1. /\ \A k \in DOMAIN ch'[n] : ch'[n][k] <= rd'[n]
          /\ \A j \in DOMAIN batch'[n] : batch'[n][j] <= rd'[n]
      BY <2>2, <2>4, <2>5, <2>6, <2>7
    <3>2. \A j \in DOMAIN batch'[n], k \in DOMAIN ch'[n] : batch'[n][j] < ch'[n][k]
      BY <2>4, <2>8
    <3> QED BY <2>9, <3>1, <3>2 DEF Channel
  <2>11. Ahead(n)'
    BY <2>2, <2>4, <2>5, <2>6, <2>7 DEF Ahead
  <2> QED BY <2>10, <2>11
<1> QED BY <1>1, <1>2 DEF Gather

\* A watch starts behind everything in the chain.
LEMMA OrderWatch ==
  ASSUME OrderInv, NEW n \in Nodes, RunFlow(n) \/ WatchRetry(n)
  PROVE  Channel(n)' /\ Ahead(n)'
<1>1. /\ TypeInv /\ Channel(n) /\ Ahead(n) /\ ChainOrder /\ batch[n] = << >>
      /\ batch' = batch /\ chain' = chain /\ token' = token /\ pc[n] \in {"down", "retry"}
  BY DEF OrderInv, LossInv, StreamOK, Doing, Working, RunFlow, WatchRetry, work, db
<1>2. CASE UNCHANGED << pc, opt, rd, ch >>
  <2>1. Channel(n)'
    BY <1>1, <1>2, OrderShrunk
  <2> QED BY <1>1, <1>2, <2>1 DEF Ahead
<1>3. CASE \E t \in 0 .. Len(oplog), o \in [tok : 0 .. Len(oplog), startAt : 0 .. Len(oplog)] :
             GetStartWatchToken(t) /\ Watch(n, o) /\ (t # 0 => o.tok = t)
  <2>1. PICK t \in 0 .. Len(oplog), o \in [tok : 0 .. Len(oplog), startAt : 0 .. Len(oplog)] :
             GetStartWatchToken(t) /\ Watch(n, o) /\ (t # 0 => o.tok = t)
    BY <1>3
  <2>2. /\ ch'[n] = << >> /\ batch'[n] = << >> /\ Len(oplog) \in Nat
        /\ rd'[n] = IF o.tok # 0 THEN o.tok ELSE o.startAt
    BY <1>1, <2>1, FlowFacts DEF Watch, TypeInv, StreamType
  <2>3. \A x \in chain : x.ev <= t
    <3> SUFFICES ASSUME NEW x \in chain PROVE x.ev <= t
      OBVIOUS
    <3>1. CASE t = token.tok
      BY <1>1, <3>1 DEF ChainOrder
    <3>2. CASE t = IF chain = {} THEN 0 ELSE Last(chain).ev
      <4>1. chain \in SUBSET [id : 1 .. lastId, ev : Events] /\ lastId \in Nat /\ chain # {}
        BY <1>1 DEF TypeInv, ChainType
      <4>2. Last(chain) \in chain /\ x.id <= Last(chain).id
        BY <4>1, LastNode
      <4>3. PICK z \in chain : z = Last(chain)
        BY <4>2
      <4>4. x = z \/ x.id < z.id
        <5>1. x.id = z.id => x = z
          BY DEF OrderInv, IdInv, IdsUnique
        <5>2. x.id \in Nat /\ z.id \in Nat /\ x.id <= z.id
          BY <4>1, <4>2, <4>3
        <5> QED BY <5>1, <5>2
      <4>5. x.ev = z.ev \/ x.ev < z.ev
        BY <1>1, <4>4 DEF ChainOrder
      <4>6. x.ev \in Nat /\ z.ev \in Nat
        BY <1>1, <4>1, FlowFacts
      <4> QED BY <3>2, <4>1, <4>3, <4>5, <4>6
    <3> QED BY <2>1, <3>1, <3>2 DEF GetStartWatchToken
  <2>4. ASSUME NEW x \in chain PROVE x.ev <= rd'[n]
    <3>1. x.ev \in 1 .. Len(oplog)
      BY <1>1 DEF TypeInv, ChainType, Events
    <3>2. t # 0
      BY <2>2, <2>3, <3>1
    <3> QED BY <2>1, <2>2, <2>3, <3>2
  <2>5. DOMAIN << >> = {}
    OBVIOUS
  <2>6. Channel(n)'
    BY <2>2, <2>5 DEF Channel, Rising
  <2> QED BY <1>1, <2>2, <2>4, <2>5, <2>6 DEF Ahead
<1>4. CASE RunFlow(n)
  <2>1. PICK t \in 0 .. Len(oplog) :
            GetStartWatchToken(t) /\ Watch(n, [tok |-> t, startAt |-> token.startAt])
    BY <1>4 DEF RunFlow
  <2>2. [tok |-> t, startAt |-> token.startAt] \in [tok : 0 .. Len(oplog), startAt : 0 .. Len(oplog)]
    BY <1>1 DEF TypeInv, ChainType
  <2>3. [tok |-> t, startAt |-> token.startAt].tok = t
    OBVIOUS
  <2> QED BY <1>3, <2>1, <2>2, <2>3
<1>5. CASE \E t \in 0 .. Len(oplog) :
             /\ GetStartWatchToken(t)
             /\ Watch(n, [opt[n] EXCEPT !.tok = IF t # 0 THEN t ELSE @])
  <2>1. PICK t \in 0 .. Len(oplog) :
             /\ GetStartWatchToken(t)
             /\ Watch(n, [opt[n] EXCEPT !.tok = IF t # 0 THEN t ELSE @])
    BY <1>5
  <2> DEFINE o == [opt[n] EXCEPT !.tok = IF t # 0 THEN t ELSE @]
  <2>2. opt[n] \in [tok : 0 .. Len(oplog), startAt : 0 .. Len(oplog)]
    BY <1>1 DEF TypeInv, StreamType
  <2>3. o \in [tok : 0 .. Len(oplog), startAt : 0 .. Len(oplog)] /\ (t # 0 => o.tok = t)
        /\ Watch(n, o)
    BY <2>1, <2>2
  <2> HIDE DEF o
  <2> QED BY <1>3, <2>1, <2>3
<1> QED BY <1>2, <1>4, <1>5 DEF WatchRetry

\* The last event of a batch, the loop's and the chain's events being in order.
LEMMA BatchLast ==
  ASSUME OrderInv, NEW n \in Nodes, pc[n] \in Doing
  PROVE  /\ batch[n][Len(batch[n])] \in Events
         /\ \A j \in DOMAIN batch[n] : batch[n][j] <= batch[n][Len(batch[n])]
         /\ \A x \in chain : x.ev <= batch[n][Len(batch[n])]
<1>1. TypeInv /\ Channel(n) /\ Ahead(n) /\ Main(n) /\ batch[n] # << >>
  BY DEF OrderInv, LossInv, TailInv, Sole, TypeInv, WorkOK, Doing
<1>2. /\ batch[n] \in Seq(Nat) /\ \A j \in DOMAIN batch[n] : batch[n][j] \in Events /\ batch[n][j] \in Nat
      /\ Len(batch[n]) \in Nat \ {0} /\ DOMAIN batch[n] = 1 .. Len(batch[n])
  <2>1. batch[n] \in Seq(Nat) /\ \A j \in DOMAIN batch[n] : batch[n][j] \in Events
    BY <1>1, FlowFacts
  <2> QED BY <1>1, <2>1, EmptySeq, LenProperties
<1>3. Len(batch[n]) \in DOMAIN batch[n]
  BY <1>2
<1>4. ASSUME NEW j \in DOMAIN batch[n] PROVE batch[n][j] <= batch[n][Len(batch[n])]
  <2>1. j = Len(batch[n]) \/ j < Len(batch[n])
    BY <1>2
  <2>2. j < Len(batch[n]) => batch[n][j] < batch[n][Len(batch[n])]
    BY <1>1, <1>3 DEF Channel, Rising
  <2>3. batch[n][j] \in Nat /\ batch[n][Len(batch[n])] \in Nat
    BY <1>2, <1>3
  <2> QED BY <2>1, <2>2, <2>3
<1>5. ASSUME NEW x \in chain PROVE x.ev <= batch[n][Len(batch[n])]
  <2>1. x.ev < batch[n][Len(batch[n])]
    BY <1>1, <1>3 DEF Ahead, Doing, Working
  <2>2. x.ev \in Nat /\ batch[n][Len(batch[n])] \in Nat
    BY <1>1, <1>2, <1>3, FlowFacts DEF TypeInv, ChainType
  <2> QED BY <2>1, <2>2
<1> QED BY <1>2, <1>3, <1>4, <1>5

\* The nodes of the one loop go into the chain behind all that were there.
LEMMA OrderCommit ==
  ASSUME OrderInv, TypeInv', Grown, oplog' = oplog, NEW n \in Nodes, pc[n] = "commit", Commit(n),
         rd' = rd, isMaster' = isMaster,
         batch'[n] = << >>, pc'[n] = "retry" \/ ch'[n] = ch[n]
  PROVE  ChainOrder' /\ Ahead(n)'
<1>1. /\ TypeInv /\ Channel(n) /\ Ahead(n) /\ Main(n) /\ ChainOrder /\ LoopTail /\ pc[n] \in Doing
      /\ \A x \in nodes[n] : oplog[x.ev].ok
  BY DEF OrderInv, LossInv, TailInv, Sole, Doing, Working
<1>2. PICK base \in Nat : Placed(n, base)
  BY DEF OrderInv, LossInv, InsertOK, Working
<1>3. chain' = chain \cup nodes[n] /\ token'.tok = batch[n][Len(batch[n])]
  BY DEF Commit, SetToken
<1>4. /\ batch[n][Len(batch[n])] \in Events
      /\ \A j \in DOMAIN batch[n] : batch[n][j] <= batch[n][Len(batch[n])]
      /\ \A x \in chain : x.ev <= batch[n][Len(batch[n])]
  BY <1>1, BatchLast
<1>5. \A x \in nodes[n] : \E p \in DOMAIN batch[n] : x.id = base + p /\ x.ev = batch[n][p]
  BY <1>2 DEF Placed
<1>6. DOMAIN batch[n] \subseteq Nat /\ \A j \in DOMAIN batch[n] : batch[n][j] \in Nat
  <2>1. batch[n] \in Seq(Nat)
    BY <1>1, FlowFacts
  <2> QED BY <2>1, LenProperties
<1>7. ASSUME NEW x \in chain' PROVE oplog[x.ev].ok /\ x.ev <= token'.tok
  BY <1>1, <1>3, <1>4, <1>5, <1>7 DEF ChainOrder
<1>8. ASSUME NEW x \in chain', NEW y \in chain', x.id < y.id PROVE x.ev < y.ev
  <2>1. CASE x \in chain /\ y \in chain
    BY <1>1, <1>8, <2>1 DEF ChainOrder
  <2>2. CASE x \in chain /\ y \in nodes[n]
    BY <1>1, <1>5, <2>2 DEF Ahead, Doing, Working
  <2>3. CASE x \in nodes[n] /\ y \in chain
    <3>1. y.id < x.id
      BY <1>1, <2>3 DEF LoopTail
    <3>2. x.id \in Nat /\ y.id \in Nat
      BY <1>1, <2>3 DEF TypeInv, ChainType, WorkType
    <3> QED BY <1>8, <3>1, <3>2
  <2>4. CASE x \in nodes[n] /\ y \in nodes[n]
    <3>1. PICK p \in DOMAIN batch[n] : x.id = base + p /\ x.ev = batch[n][p]
      BY <1>5, <2>4
    <3>2. PICK q \in DOMAIN batch[n] : y.id = base + q /\ y.ev = batch[n][q]
      BY <1>5, <2>4
    <3>3. p < q
      <4>1. p \in Nat /\ q \in Nat /\ base + p < base + q
        BY <1>6, <1>8, <3>1, <3>2
      <4> QED BY <4>1
    <3> QED BY <1>1, <3>1, <3>2, <3>3 DEF Channel, Rising
  <2> QED BY <1>3, <1>8, <2>1, <2>2, <2>3, <2>4
<1>9. ChainOrder'
  BY <1>7, <1>8 DEF ChainOrder
<1>10. ASSUME pc'[n] \notin {"down", "retry"}, NEW x \in chain'
       PROVE  /\ x.ev <= rd'[n]
              /\ \A k \in DOMAIN ch'[n] : x.ev < ch'[n][k]
              /\ \A j \in DOMAIN batch'[n] : x.ev < batch'[n][j]
  <2>1. ch'[n] = ch[n] /\ rd'[n] = rd[n]
    BY <1>10
  <2>2. CASE x \in chain
    BY <1>1, <2>1, <2>2 DEF Ahead, Doing, Working
  <2>3. CASE x \in nodes[n]
    <3>1. PICK p \in DOMAIN batch[n] : x.ev = batch[n][p]
      BY <1>5, <2>3
    <3> QED BY <1>1, <2>1, <3>1 DEF Channel
  <2> QED BY <1>3, <1>10, <2>2, <2>3
<1> QED BY <1>9, <1>10 DEF Ahead

\* The own step of an instance keeps its channel and its batch in order.
LEMMA OrderOwn ==
  ASSUME OrderInv, TypeInv', Reported, OneLoop, Grown, NEW n \in Nodes,
         LoopStep(n) \/ StreamNext(n) \/ StreamRewind(n) \/ Crash(n)
  PROVE  Channel(n)' /\ Ahead(n)'
<1>1. TypeInv /\ Channel(n) /\ Ahead(n) /\ StreamOK(n)
  BY DEF OrderInv, LossInv
<1>2. isMaster' = isMaster /\ (Main(n)' => Main(n))
  BY DEF LoopStep, RunFlow, StartLoop, WatchRetry, CanLoop, Gather, NextSequences, SkipInvalid,
     StoreDetails, InsertNodes, SetTokenInTxn, CommitTransaction, StreamNext, StreamRewind,
     Crash, db, Main
<1>3. CASE RunFlow(n) \/ WatchRetry(n)
  BY <1>3, OrderWatch
<1>4. CASE StreamNext(n)
  BY <1>1, <1>2, <1>4, OrderStreamNext
<1>5. CASE Gather(n)
  <2>1. batch[n] = << >>
    BY <1>1, <1>5 DEF StreamOK, Gather, Doing, Working
  <2> QED BY <1>1, <1>2, <1>5, <2>1, OrderGather
<1>6. CASE StreamRewind(n)
  BY <1>6 DEF StreamRewind, Fail, Reported
<1>7. CASE Crash(n)
  <2>1. ch'[n] = << >> /\ batch'[n] = << >> /\ pc'[n] = "down"
    BY <1>1, <1>7 DEF Crash, DropWork, TypeInv, StreamType, WorkType, LoopType
  <2>2. DOMAIN << >> = {}
    OBVIOUS
  <2> QED BY <2>1, <2>2 DEF Channel, Ahead, Rising
<1>8. ASSUME rd' = rd, ch'[n] \in {ch[n], << >>}, batch'[n] \in {batch[n], << >>},
             chain' = chain, pc[n] \notin {"down", "retry"}
      PROVE  Channel(n)' /\ Ahead(n)'
  BY <1>1, <1>2, <1>8, OrderShrunk, AheadShrunk
<1>9. CASE StartLoop(n) \/ CanLoop(n)
  <2>1. /\ rd' = rd /\ ch'[n] \in {ch[n], << >>} /\ batch' = batch /\ chain' = chain
        /\ pc[n] \notin {"down", "retry"}
    BY <1>1, <1>9 DEF StartLoop, CanLoop, work, db, TypeInv, StreamType
  <2> QED BY <1>8, <2>1
<1>10. BatchDone(n) \/ BatchRetry(n) =>
          /\ batch'[n] = << >> /\ ch'[n] \in {ch[n], << >>} /\ (pc'[n] = "retry" \/ ch'[n] = ch[n])
  BY <1>1 DEF BatchDone, BatchRetry, DropWork, TypeInv, LoopType, StreamType, WorkType
<1>11. InsertError(n) => BatchDone(n)
  BY DEF InsertError
<1>12. CASE \/ NextSequences(n) \/ SkipInvalid(n) \/ StoreDetails(n) \/ InsertNodes(n)
            \/ SetTokenInTxn(n)
            \/ CommitTransaction(n) /\ UNCHANGED << chain, token, stale >>
  <2>1. rd' = rd /\ chain' = chain /\ pc[n] \notin {"down", "retry"}
    BY <1>12 DEF NextSequences, SkipInvalid, StoreDetails, InsertNodes, SetTokenInTxn,
       CommitTransaction, db
  <2>2. ch'[n] \in {ch[n], << >>} /\ batch'[n] \in {batch[n], << >>}
    BY <1>10, <1>11, <1>12 DEF NextSequences, SkipInvalid, StoreDetails, InsertNodes,
       SetTokenInTxn, CommitTransaction, work
  <2> QED BY <1>8, <2>1, <2>2
<1>13. CASE CommitTransaction(n) /\ Commit(n)
  <2>1. oplog' = oplog /\ rd' = rd /\ pc[n] = "commit" /\ (BatchDone(n) \/ BatchRetry(n))
    BY <1>13 DEF CommitTransaction
  <2>2. Channel(n)'
    BY <1>1, <1>10, <2>1, OrderShrunk
  <2>3. Ahead(n)'
    BY <1>2, <1>10, <1>13, <2>1, OrderCommit
  <2> QED BY <2>2, <2>3
<1>14. CASE CommitTransaction(n)
  <2>1. Commit(n) \/ UNCHANGED << chain, token, stale >>
    BY <1>14 DEF CommitTransaction
  <2> QED BY <1>12, <1>13, <1>14, <2>1
<1> QED BY <1>3, <1>4, <1>5, <1>6, <1>7, <1>9, <1>12, <1>14 DEF LoopStep

\* The chain stays in order and behind the token.
LEMMA OrderChain ==
  ASSUME OrderInv, TypeInv', Reported, Grown, NEW n \in Nodes,
         LoopStep(n) \/ StreamNext(n) \/ StreamRewind(n) \/ Crash(n)
  PROVE  ChainOrder'
<1>1. /\ TypeInv /\ ChainOrder /\ \A x \in chain : x.ev \in Events /\ oplog'[x.ev] = oplog[x.ev]
  BY DEF OrderInv, LossInv, TypeInv, ChainType, Grown
<1>2. ASSUME chain' = chain, token'.tok = token.tok \/ \A x \in chain : x.ev <= token'.tok
      PROVE  ChainOrder'
  BY <1>1, <1>2 DEF ChainOrder
<1>3. CASE StreamNext(n) \/ Crash(n) \/ RunFlow(n) \/ StartLoop(n) \/ WatchRetry(n) \/ CanLoop(n)
           \/ Gather(n) \/ NextSequences(n) \/ StoreDetails(n) \/ InsertNodes(n) \/ SetTokenInTxn(n)
  <2>1. chain' = chain /\ token' = token
    BY <1>3 DEF StreamNext, Crash, RunFlow, StartLoop, WatchRetry, CanLoop, Gather,
       NextSequences, StoreDetails, InsertNodes, SetTokenInTxn, db
  <2> QED BY <1>2, <2>1
<1>4. CASE StreamRewind(n)
  BY <1>4 DEF StreamRewind, Fail, Reported
<1>5. CASE SkipInvalid(n)
  <2>1. chain' = chain /\ pc[n] \in Doing
    BY <1>5 DEF SkipInvalid, Doing
  <2>2. \A x \in chain : x.ev <= batch[n][Len(batch[n])]
    BY <2>1, BatchLast
  <2>3. token' = token \/ token'.tok = batch[n][Len(batch[n])]
    BY <1>1, <1>5 DEF SkipInvalid, SetToken, TypeInv, ChainType
  <2> QED BY <1>2, <2>1, <2>2, <2>3
<1>6. CASE CommitTransaction(n)
  <2>1. CASE UNCHANGED << chain, token, stale >>
    BY <1>2, <2>1
  <2>2. CASE Commit(n)
    <3>1. BatchDone(n) \/ BatchRetry(n) =>
             batch'[n] = << >> /\ (pc'[n] = "retry" \/ ch'[n] = ch[n])
      BY <1>1 DEF BatchDone, BatchRetry, DropWork, TypeInv, LoopType, StreamType, WorkType
    <3>2. oplog' = oplog /\ rd' = rd /\ isMaster' = isMaster /\ pc[n] = "commit"
          /\ (BatchDone(n) \/ BatchRetry(n))
      BY <1>6 DEF CommitTransaction
    <3> QED BY <2>2, <3>1, <3>2, OrderCommit
  <2> QED BY <1>6, <2>1, <2>2 DEF CommitTransaction
<1> QED BY <1>3, <1>4, <1>5, <1>6 DEF LoopStep

\* The nodes still to be inserted are those of valid events.
LEMMA NodesValid ==
  ASSUME TypeInv, Grown, NEW n \in Nodes, \A x \in nodes[n] : oplog[x.ev].ok,
         LoopStep(n) \/ StreamNext(n) \/ StreamRewind(n) \/ Crash(n)
  PROVE  \A x \in nodes'[n] : oplog'[x.ev].ok
<1>1. \A x \in nodes[n] : oplog'[x.ev] = oplog[x.ev]
  BY DEF TypeInv, WorkType, Grown
<1>2. \/ nodes'[n] \subseteq nodes[n]
      \/ oplog' = oplog /\ nodes'[n] = Picked(batch[n], lastId)
  BY DEF LoopStep, RunFlow, StartLoop, WatchRetry, CanLoop, Gather, NextSequences, SkipInvalid,
     StoreDetails, InsertNodes, SetTokenInTxn, CommitTransaction, StreamNext, StreamRewind,
     Crash, InsertError, BatchRetry, BatchDone, DropWork, work, TypeInv, WorkType
<1>3. \A x \in Picked(batch[n], lastId) : oplog[x.ev].ok
  BY DEF Picked
<1> QED BY <1>1, <1>2, <1>3

\* Every step keeps the invariant.
LEMMA OrderStep ==
  ASSUME CursorsAssumed, OneLoop, Reported, OrderInv, [Next]_vars
  PROVE  OrderInv' /\ Grown
<1>1. LossInv /\ IdInv /\ TailInv /\ Quiet /\ TypeInv /\ Sole /\ ChainOrder
  BY DEF OrderInv, TailInv
<1>2. LossInv' /\ IdInv' /\ TailInv' /\ Quiet' /\ TypeInv' /\ Grown
  <2>1. RewindAssumed
    BY DEF Reported, RewindAssumed
  <2> QED BY <1>1, <2>1, LossStep, IdStep, TailStep, QuietStep, TypeStep, GrownStep
<1>3. CASE UNCHANGED vars \/ Write \/ \E n \in Nodes : ViewChange(n)
  <2>1. UNCHANGED << token, chain, pc, batch, ch, rd, nodes >>
    BY <1>3 DEF vars, db, loop, work, Write, ViewChange
  <2>2. ASSUME NEW x \in [id : 1 .. lastId, ev : Events] PROVE oplog'[x.ev] = oplog[x.ev]
    BY <1>2 DEF Grown
  <2>3. ChainOrder'
    BY <1>1, <2>1, <2>2 DEF ChainOrder, TypeInv, ChainType
  <2>4. ASSUME NEW m \in Nodes
        PROVE  Channel(m)' /\ Ahead(m)' /\ \A x \in nodes'[m] : oplog'[x.ev].ok
    <3>1. Main(m)' => Main(m)
      <4>1. MaxFlips = 0 => isMaster' = isMaster
        BY <1>1, <1>3, BoundsAssumption DEF vars, Write, ViewChange, TypeInv, SharedType
      <4> QED BY <4>1 DEF Main
    <3>2. Channel(m) /\ Ahead(m) /\ \A x \in nodes[m] : oplog[x.ev].ok
      BY DEF OrderInv
    <3>3. \A x \in nodes[m] : oplog'[x.ev] = oplog[x.ev]
      BY <1>1, <2>2 DEF TypeInv, WorkType
    <3> QED BY <2>1, <3>1, <3>2, <3>3, OrderShrunk, AheadShrunk
  <2> QED BY <1>2, <2>3, <2>4 DEF OrderInv
<1>4. ASSUME NEW n \in Nodes, LoopStep(n) \/ StreamNext(n) \/ StreamRewind(n) \/ Crash(n)
      PROVE  OrderInv'
  <2>1. ChainOrder'
    BY <1>2, <1>4, OrderChain
  <2>2. Channel(n)' /\ Ahead(n)' /\ \A x \in nodes'[n] : oplog'[x.ev].ok
    <3>1. \A x \in nodes[n] : oplog[x.ev].ok
      BY DEF OrderInv
    <3> QED BY <1>1, <1>2, <1>4, <3>1, OrderOwn, NodesValid
  <2>3. ASSUME NEW m \in Nodes, m # n
        PROVE  Channel(m)' /\ Ahead(m)' /\ \A x \in nodes'[m] : oplog'[x.ev].ok
    <3>1. pc'[m] = pc[m] /\ batch'[m] = batch[m] /\ ch'[m] = ch[m] /\ nodes'[m] = nodes[m]
          /\ rd'[m] = rd[m]
      BY <1>1, <1>4, <2>3, OthersStay
    <3>2. Channel(m) /\ Ahead(m) /\ \A x \in nodes[m] : oplog[x.ev].ok
      BY DEF OrderInv
    <3>3. \A x \in nodes[m] : oplog'[x.ev] = oplog[x.ev]
      BY <1>1, <1>2 DEF TypeInv, WorkType, Grown
    <3>4. isMaster' = isMaster /\ (Main(m)' => Main(m))
      BY <1>4 DEF LoopStep, RunFlow, StartLoop, WatchRetry, CanLoop, Gather, NextSequences,
         SkipInvalid, StoreDetails, InsertNodes, SetTokenInTxn, CommitTransaction, StreamNext,
         StreamRewind, Crash, db, Main
    <3>5. CASE chain' = chain
      BY <3>1, <3>2, <3>3, <3>4, <3>5, OrderShrunk, AheadShrunk
    <3>6. CASE chain' # chain
      <4>1. pc[n] \in Doing
        BY <1>4, <3>6 DEF LoopStep, RunFlow, StartLoop, WatchRetry, CanLoop, Gather, NextSequences,
           SkipInvalid, StoreDetails, InsertNodes, SetTokenInTxn, CommitTransaction, StreamNext,
           StreamRewind, Crash, db, Doing, Working
      <4>2. ~Main(m)
        BY <1>1, <2>3, <4>1, OneMain DEF Sole
      <4>3. Ahead(m)'
        BY <3>4, <4>2 DEF Ahead
      <4> QED BY <3>1, <3>2, <3>3, <4>3, OrderShrunk
    <3> QED BY <3>5, <3>6
  <2>4. \A m \in Nodes : Channel(m)' /\ Ahead(m)' /\ \A x \in nodes'[m] : oplog'[x.ev].ok
    BY <2>2, <2>3
  <2> QED BY <1>2, <2>1, <2>4 DEF OrderInv
<1> QED BY <1>2, <1>3, <1>4 DEF Next

\* At the start there is nothing to be out of order.
LEMMA OrderInit == Init => OrderInv
<1> SUFFICES ASSUME Init PROVE OrderInv
  OBVIOUS
<1>1. LossInv /\ TailInv /\ Quiet
  BY LossInit, TailInit DEF Init, Quiet
<1>2. IdInv
  BY TypeInit DEF Init, IdInv, IdsUnique, OwnIdsDiffer
<1>3. ChainOrder
  BY DEF Init, ChainOrder
<1>4. DOMAIN << >> = {}
  OBVIOUS
<1>5. \A n \in Nodes : Channel(n) /\ Ahead(n) /\ \A x \in nodes[n] : oplog[x.ev].ok
  BY <1>4 DEF Init, Channel, Ahead, Rising
<1> QED BY <1>1, <1>2, <1>3, <1>5 DEF OrderInv

-----------------------------------------------------------------------------
(* The chain as its readers see it: refinement of EventChain.               *)

\* The nodes in the order of their ids.
Rank(ns, x) == Cardinality({y \in ns : y.id < x.id})
InOrder(ns) ==
    [k \in 1 .. Cardinality(ns) |-> (CHOOSE x \in ns : Rank(ns, x) = k - 1).ev]

\* What the readers see are the nodes of the chain in the order of their ids.
LEMMA PublishedInOrder == Published = InOrder(chain)
BY DEF Published, InOrder, Rank

\* As many ids as nodes.
LEMMA IdsCount ==
  ASSUME NEW b \in Nat, NEW E, NEW ns \in SUBSET [id : 1 .. b, ev : E],
         \A x, y \in ns : x.id = y.id => x = y
  PROVE  /\ IsFiniteSet(ns) /\ Cardinality(ns) \in Nat
         /\ IsFiniteSet({x.id : x \in ns}) /\ Cardinality({x.id : x \in ns}) = Cardinality(ns)
<1> DEFINE S == {x.id : x \in ns}
           f == [x \in ns |-> x.id]
<1>1. IsFiniteSet(ns) /\ Cardinality(ns) \in Nat
  BY NodesFinite
<1>2. f \in Surjection(ns, S) /\ f \in Injection(ns, S)
  <2>1. f \in [ns -> S] /\ \A x \in ns : f[x] = x.id
    OBVIOUS
  <2>2. \A k \in S : \E x \in ns : f[x] = k
    OBVIOUS
  <2> HIDE DEF f, S
  <2>3. \A x, y \in ns : f[x] = f[y] => x = y
    BY <2>1
  <2>4. f \in Surjection(ns, S)
    BY <2>1, <2>2, Zenon DEF Surjection
  <2>5. f \in Injection(ns, S)
    BY <2>1, <2>3 DEF Injection, IsInjective
  <2> QED BY <2>4, <2>5
<1> HIDE DEF S, f
<1>3. IsFiniteSet(S) /\ Cardinality(S) = Cardinality(ns)
  BY <1>1, <1>2, FS_Surjection, Zenon
<1> QED BY <1>1, <1>3 DEF S

\* Every rank is taken, by one node, and the ranks are in the order of the ids.
LEMMA NodeRanks ==
  ASSUME NEW b \in Nat, NEW E, NEW ns \in SUBSET [id : 1 .. b, ev : E],
         \A x, y \in ns : x.id = y.id => x = y
  PROVE  /\ \A k \in 1 .. Cardinality(ns) : \E x \in ns : Rank(ns, x) = k - 1
         /\ \A x \in ns : Rank(ns, x) + 1 \in 1 .. Cardinality(ns)
         /\ \A x, y \in ns : x.id < y.id => Rank(ns, x) < Rank(ns, y)
<1> DEFINE S == {x.id : x \in ns}
           L(x) == {y \in ns : y.id < x.id}
<1>1. IsFiniteSet(ns) /\ Cardinality(ns) \in Nat /\ Cardinality(S) = Cardinality(ns)
  BY IdsCount
<1>2. S \in SUBSET (0 .. b)
  OBVIOUS
<1>3. \A x \in ns : x.id \in Nat
  OBVIOUS
<1>4. ASSUME NEW x \in ns PROVE Rank(ns, x) = Cardinality({u \in S : u < x.id})
  <2>1. {u \in S : u < x.id} = {y.id : y \in L(x)}
    OBVIOUS
  <2>2. L(x) \in SUBSET [id : 1 .. b, ev : E] /\ \A y, z \in L(x) : y.id = z.id => y = z
    OBVIOUS
  <2> HIDE DEF L, S
  <2>3. Cardinality({y.id : y \in L(x)}) = Cardinality(L(x))
    BY <2>2, IdsCount
  <2> QED BY <2>1, <2>3 DEF Rank, L
<1>5. ASSUME NEW k \in 1 .. Cardinality(ns) PROVE \E x \in ns : Rank(ns, x) = k - 1
  <2>1. k - 1 \in 0 .. Cardinality(S) - 1
    BY <1>1
  <2>2. PICK t \in S : Cardinality({u \in S : u < t}) = k - 1
    <3> HIDE DEF S
    <3> QED BY <1>2, <2>1, RankExists
  <2>3. PICK x \in ns : x.id = t
    OBVIOUS
  <2> QED BY <1>4, <2>2, <2>3
<1>6. ASSUME NEW x \in ns
      PROVE  /\ IsFiniteSet(L(x)) /\ Cardinality(L(x)) \in Nat /\ L(x) \subseteq ns
             /\ Cardinality(L(x)) < Cardinality(ns)
  <2>1. L(x) \in SUBSET ns /\ x \notin L(x)
    BY <1>3
  <2> HIDE DEF L
  <2>2. IsFiniteSet(L(x)) /\ Cardinality(L(x)) <= Cardinality(ns)
        /\ (Cardinality(ns) = Cardinality(L(x)) => ns = L(x))
    BY <1>1, <2>1, FS_Subset
  <2>3. Cardinality(L(x)) \in Nat
    BY <2>2, FS_CardinalityType
  <2> QED BY <1>1, <2>1, <2>2, <2>3
<1>7. ASSUME NEW x \in ns, NEW y \in ns, x.id < y.id PROVE Rank(ns, x) < Rank(ns, y)
  <2>1. L(x) \in SUBSET L(y) /\ x \in L(y) /\ x \notin L(x)
    BY <1>3, <1>7
  <2>2. IsFiniteSet(L(y)) /\ Cardinality(L(y)) \in Nat /\ Cardinality(L(x)) \in Nat
    BY <1>6
  <2> HIDE DEF L
  <2>3. Cardinality(L(x)) <= Cardinality(L(y)) /\ (Cardinality(L(y)) = Cardinality(L(x)) => L(y) = L(x))
    BY <2>1, <2>2, FS_Subset
  <2>4. Cardinality(L(x)) < Cardinality(L(y))
    BY <2>1, <2>2, <2>3
  <2> QED BY <2>4 DEF Rank, L
<1>8. ASSUME NEW x \in ns PROVE Rank(ns, x) + 1 \in 1 .. Cardinality(ns)
  <2>1. Rank(ns, x) = Cardinality(L(x))
    BY DEF Rank
  <2> HIDE DEF L
  <2> QED BY <1>1, <1>6, <2>1
<1> QED BY <1>5, <1>7, <1>8

Numbered(b, E, ns) ==
    /\ b \in Nat /\ ns \in SUBSET [id : 1 .. b, ev : E]
    /\ \A x, y \in ns : x.id = y.id => x = y

\* The k-th element is the event of the node with rank k - 1.
LEMMA InOrderElements ==
  ASSUME NEW b, NEW E, NEW ns, Numbered(b, E, ns)
  PROVE  /\ DOMAIN InOrder(ns) = 1 .. Cardinality(ns) /\ Cardinality(ns) \in Nat
         /\ InOrder(ns) \in Seq(E) /\ Len(InOrder(ns)) = Cardinality(ns)
         /\ \A x \in ns, k \in 1 .. Cardinality(ns) : Rank(ns, x) = k - 1 => InOrder(ns)[k] = x.ev
         /\ \A k \in 1 .. Cardinality(ns) : \E x \in ns : Rank(ns, x) = k - 1 /\ InOrder(ns)[k] = x.ev
<1>0. b \in Nat /\ ns \in SUBSET [id : 1 .. b, ev : E] /\ \A x, y \in ns : x.id = y.id => x = y
  BY DEF Numbered
<1> USE <1>0
<1>1. DOMAIN InOrder(ns) = 1 .. Cardinality(ns) /\ Cardinality(ns) \in Nat
  BY IdsCount DEF InOrder
<1>2. /\ \A k \in 1 .. Cardinality(ns) : \E x \in ns : Rank(ns, x) = k - 1
      /\ \A x \in ns : Rank(ns, x) + 1 \in 1 .. Cardinality(ns)
      /\ \A x, y \in ns : x.id < y.id => Rank(ns, x) < Rank(ns, y)
  BY NodeRanks
<1>3. ASSUME NEW x \in ns, NEW y \in ns, Rank(ns, x) = Rank(ns, y) PROVE x = y
  <2>1. Rank(ns, x) \in Int
    <3>1. Rank(ns, x) + 1 \in 1 .. Cardinality(ns)
      BY <1>2
    <3>2. IsFiniteSet({z \in ns : z.id < x.id})
      <4>1. IsFiniteSet(ns)
        BY IdsCount
      <4> QED BY <4>1, FS_Subset
    <3> QED BY <3>2, FS_CardinalityType DEF Rank
  <2>2. ~(x.id < y.id) /\ ~(y.id < x.id)
    BY <1>2, <1>3, <2>1
  <2>3. x.id \in Nat /\ y.id \in Nat
    OBVIOUS
  <2> QED BY <2>2, <2>3
<1>4. ASSUME NEW x \in ns, NEW k \in 1 .. Cardinality(ns), Rank(ns, x) = k - 1
      PROVE  InOrder(ns)[k] = x.ev
  <2> DEFINE z == CHOOSE z \in ns : Rank(ns, z) = k - 1
  <2>1. InOrder(ns)[k] = z.ev
    BY DEF InOrder
  <2>2. z \in ns /\ Rank(ns, z) = k - 1
    BY <1>4
  <2> HIDE DEF z
  <2>3. z = x
    BY <1>3, <1>4, <2>2
  <2> QED BY <2>1, <2>3
<1>5. \A k \in 1 .. Cardinality(ns) : \E x \in ns : Rank(ns, x) = k - 1 /\ InOrder(ns)[k] = x.ev
  BY <1>2, <1>4
<1>6. InOrder(ns) \in Seq(E) /\ Len(InOrder(ns)) = Cardinality(ns)
  <2>1. InOrder(ns) \in [1 .. Cardinality(ns) -> E]
    <3>1. \A k \in 1 .. Cardinality(ns) : InOrder(ns)[k] \in E
      BY <1>5
    <3>2. InOrder(ns) = [k \in 1 .. Cardinality(ns) |-> InOrder(ns)[k]]
      BY DEF InOrder
    <3> QED BY <3>1, <3>2
  <2>2. InOrder(ns) \in Seq(E)
    BY <1>1, <2>1, SeqDef
  <2>3. DOMAIN InOrder(ns) = 1 .. Len(InOrder(ns)) /\ Len(InOrder(ns)) \in Nat
    BY <2>2, LenProperties
  <2> QED BY <1>1, <2>2, <2>3, IntervalLength
<1> QED BY <1>1, <1>4, <1>5, <1>6

\* Nodes with higher ids than all the others come behind them.
LEMMA InOrderExtends ==
  ASSUME NEW b, NEW E, NEW ns, NEW more, Numbered(b, E, ns \cup more), more # {},
         \A x \in ns, y \in more : x.id < y.id
  PROVE  /\ Len(InOrder(ns \cup more)) > Len(InOrder(ns))
         /\ SubSeq(InOrder(ns \cup more), 1, Len(InOrder(ns))) = InOrder(ns)
<1> DEFINE all == ns \cup more
<1>0. /\ b \in Nat /\ ns \in SUBSET [id : 1 .. b, ev : E] /\ more \in SUBSET [id : 1 .. b, ev : E]
      /\ \A x, y \in ns \cup more : x.id = y.id => x = y
  BY DEF Numbered
<1> USE <1>0
<1>1. all \in SUBSET [id : 1 .. b, ev : E] /\ ns \in SUBSET all /\ ns # all
  <2>1. PICK y \in more : TRUE
    OBVIOUS
  <2>2. y \notin ns
    <3>1. y.id \in Nat /\ ~(y.id < y.id)
      OBVIOUS
    <3> QED BY <3>1
  <2> QED BY <2>2
<1>2. \A x \in all, y \in all : x.id = y.id => x = y
  OBVIOUS
<1> DEFINE l == Cardinality(ns)
           m == Cardinality(all)
<1>3. \A x \in ns : Rank(all, x) = Rank(ns, x)
  <2>1. \A x \in ns : {y \in all : y.id < x.id} = {y \in ns : y.id < x.id}
    <3>1. \A x \in ns, y \in more : ~(y.id < x.id)
      <4>1. \A x \in ns, y \in more : x.id \in Nat /\ y.id \in Nat
        OBVIOUS
      <4> QED BY <4>1
    <3> QED BY <3>1
  <2> QED BY <2>1 DEF Rank
<1> HIDE DEF all
<1>4. /\ l \in Nat /\ InOrder(ns) \in Seq(E) /\ Len(InOrder(ns)) = l
      /\ \A k \in 1 .. l : \E x \in ns : Rank(ns, x) = k - 1 /\ InOrder(ns)[k] = x.ev
  <2>1. Numbered(b, E, ns)
    BY <1>1, <1>2 DEF Numbered
  <2> QED BY <2>1, InOrderElements
<1>5. /\ m \in Nat /\ InOrder(all) \in Seq(E) /\ Len(InOrder(all)) = m
      /\ DOMAIN InOrder(all) = 1 .. m
      /\ \A x \in all, k \in 1 .. m : Rank(all, x) = k - 1 => InOrder(all)[k] = x.ev
  <2>1. Numbered(b, E, all)
    BY DEF Numbered, all
  <2> QED BY <2>1, InOrderElements
<1>6. l < m
  <2>1. IsFiniteSet(all)
    BY <1>1, <1>2, IdsCount
  <2>2. l <= m /\ (m = l => all = ns)
    BY <1>1, <2>1, FS_Subset
  <2> QED BY <1>1, <1>4, <1>5, <2>2
<1> HIDE DEF l, m
<1>7. ASSUME NEW k \in 1 .. l PROVE InOrder(all)[k] = InOrder(ns)[k]
  <2>1. PICK x \in ns : Rank(ns, x) = k - 1 /\ InOrder(ns)[k] = x.ev
    BY <1>4
  <2>2. x \in all /\ k \in 1 .. m /\ Rank(all, x) = k - 1
    BY <1>1, <1>3, <1>4, <1>5, <1>6, <2>1
  <2> QED BY <1>5, <2>1, <2>2
<1>8. SubSeq(InOrder(all), 1, l) = InOrder(ns)
  <2> DEFINE s == SubSeq(InOrder(all), 1, l)
  <2>1. \A i \in 1 .. l : InOrder(all)[i] \in E
    <3>1. \A i \in 1 .. l : i \in 1 .. m
      BY <1>4, <1>5, <1>6
    <3> QED BY <1>5, <3>1
  <2>2. 1 \in Int /\ l \in Int
    BY <1>4
  <2>3. /\ s \in Seq(E) /\ Len(s) = IF 1 <= l THEN l - 1 + 1 ELSE 0
        /\ \A i \in 1 .. l - 1 + 1 : s[i] = InOrder(all)[1 + i - 1]
    BY <2>1, <2>2, SubSeqProperties
  <2> HIDE DEF s
  <2>4. Len(s) = l /\ \A i \in 1 .. l : s[i] = InOrder(all)[i]
    <3>1. l - 1 + 1 = l /\ \A i \in 1 .. l : 1 + i - 1 = i
      BY <1>4
    <3>2. Len(s) = l
      BY <1>4, <2>3
    <3> QED BY <2>3, <3>1, <3>2
  <2> QED BY <1>4, <1>7, <2>3, <2>4, SeqEqual DEF s
<1> QED BY <1>4, <1>5, <1>6, <1>8 DEF all

\* No batch is given up while there are fewer failures than retries.
FewFaults == MaxFaults <= MaxRetry
Patient == gaveUp = {} /\ \A n \in Nodes : retries[n] <= faults

\* Every retry has a failure of its own as its cause, so retries never run out.
LEMMA PatientStep ==
  ASSUME FewFaults, TypeInv, TypeInv', Patient, [Next]_vars
  PROVE  Patient'
<1>1. /\ faults \in 0 .. MaxFaults /\ faults' \in 0 .. MaxFaults
      /\ MaxFaults \in Nat /\ MaxRetry \in Nat
      /\ \A m \in Nodes : retries[m] \in Nat /\ retries[m] <= faults
  BY BoundsAssumption DEF TypeInv, SharedType, LoopType, Patient
<1>2. ASSUME NEW n \in Nodes, faults < MaxFaults, faults' = faults + 1, BatchRetry(n)
      PROVE  Patient'
  <2>1. retries[n] < MaxRetry
    BY <1>1, <1>2 DEF FewFaults
  <2>2. retries' = [retries EXCEPT ![n] = @ + 1] /\ gaveUp' = gaveUp
    BY <1>1, <1>2, <2>1 DEF BatchRetry
  <2>3. \A m \in Nodes : retries'[m] <= faults'
    BY <1>1, <1>2, <2>2 DEF TypeInv, LoopType
  <2> QED BY <2>2, <2>3 DEF Patient
<1>3. ASSUME gaveUp' = gaveUp, faults' = faults \/ faults' = faults + 1,
             retries' = retries \/ \E n \in Nodes : retries' = [retries EXCEPT ![n] = 0]
      PROVE  Patient'
  <2>1. \A m \in Nodes : retries'[m] = retries[m] \/ retries'[m] = 0
    BY <1>3 DEF TypeInv, LoopType
  <2>2. \A m \in Nodes : retries'[m] <= faults'
    BY <1>1, <1>3, <2>1
  <2> QED BY <1>3, <2>2 DEF Patient
<1>4. CASE UNCHANGED vars \/ Write
  BY <1>3, <1>4 DEF vars, loop, history, Write
<1>5. ASSUME NEW n \in Nodes, ViewChange(n) \/ Crash(n) \/ RunFlow(n) \/ StartLoop(n)
             \/ WatchRetry(n) \/ StreamNext(n) \/ StreamRewind(n) \/ CanLoop(n) \/ Gather(n)
             \/ SkipInvalid(n)
      PROVE  Patient'
  <2>1. gaveUp' = gaveUp
    BY <1>5 DEF ViewChange, Crash, RunFlow, StartLoop, WatchRetry, StreamNext, StreamRewind,
       CanLoop, Gather, SkipInvalid, history
  <2>2. retries' = retries \/ retries' = [retries EXCEPT ![n] = 0]
    BY <1>5 DEF ViewChange, Crash, RunFlow, StartLoop, WatchRetry, StreamNext, StreamRewind,
       CanLoop, Gather, SkipInvalid, BatchDone, loop
  <2>3. faults' = faults \/ faults' = faults + 1
    BY <1>5 DEF ViewChange, Crash, RunFlow, StartLoop, WatchRetry, StreamNext, StreamRewind,
       CanLoop, Gather, SkipInvalid, GetStartWatchToken, NoFail, Fail
  <2> QED BY <1>3, <2>1, <2>2, <2>3
<1>6. ASSUME NEW n \in Nodes, NEW kind, Fail(kind), BatchRetry(n) PROVE Patient'
  BY <1>2, <1>6 DEF Fail
<1>7. ASSUME NEW n \in Nodes, BatchDone(n), gaveUp' = gaveUp,
             NoFail \/ \E kind \in FaultKinds : Fail(kind)
      PROVE  Patient'
  BY <1>3, <1>7 DEF BatchDone, NoFail, Fail
<1>8. ASSUME NEW n \in Nodes, NextSequences(n) PROVE Patient'
  BY <1>3, <1>6, <1>8 DEF NextSequences, NoFail
<1>9. ASSUME NEW n \in Nodes, StoreDetails(n) PROVE Patient'
  BY <1>3, <1>6, <1>9 DEF StoreDetails, NoFail
<1>10. ASSUME NEW n \in Nodes, InsertNodes(n) PROVE Patient'
  <2>1. InsertError(n) => BatchDone(n)
    BY DEF InsertError
  <2>2. "insert" \in FaultKinds
    BY DEF FaultKinds
  <2>3. CASE BatchRetry(n) /\ Fail("begin")
    BY <1>6, <2>3
  <2>4. CASE ~(BatchRetry(n) /\ Fail("begin"))
    <3>1. gaveUp' = gaveUp /\ (NoFail \/ Fail("insert")) /\ (retries' = retries \/ BatchDone(n))
      BY <1>10, <2>1, <2>4 DEF InsertNodes, history
    <3> QED BY <1>3, <1>7, <2>2, <3>1 DEF NoFail, Fail
  <2> QED BY <2>3, <2>4
<1>11. ASSUME NEW n \in Nodes, SetTokenInTxn(n) PROVE Patient'
  <2>1. InsertError(n) => BatchDone(n)
    BY DEF InsertError
  <2>2. gaveUp' = gaveUp /\ (NoFail \/ Fail("token")) /\ (retries' = retries \/ BatchDone(n))
    BY <1>11, <2>1 DEF SetTokenInTxn
  <2> QED BY <1>3, <1>7, <2>2 DEF NoFail, Fail, FaultKinds
<1>12. ASSUME NEW n \in Nodes, CommitTransaction(n) PROVE Patient'
  BY <1>6, <1>7, <1>12 DEF CommitTransaction
<1> QED BY <1>4, <1>5, <1>8, <1>9, <1>10, <1>11, <1>12 DEF Next, LoopStep

\* What an ordered chain shows its readers is a prefix of the valid events.
LEMMA ChainIsPrefix ==
  ASSUME OrderInv, gaveUp = {}
  PROVE  Abstract!IsValidPrefix(Published)
<1>1. /\ TypeInv /\ OplogOrder /\ Starts /\ ChainOrder /\ swallowed = {}
      /\ chain \in SUBSET [id : 1 .. lastId, ev : Events] /\ lastId \in Nat
      /\ \A x, y \in chain : x.id = y.id => x = y
  BY DEF OrderInv, LossInv, Quiet, IdInv, IdsUnique, TypeInv, ChainType
<1> DEFINE s == InOrder(chain)
           l == Cardinality(chain)
<1>2. /\ DOMAIN s = 1 .. l /\ l \in Nat
      /\ \A x \in chain, k \in 1 .. l : Rank(chain, x) = k - 1 => s[k] = x.ev
      /\ \A k \in 1 .. l : \E x \in chain : Rank(chain, x) = k - 1 /\ s[k] = x.ev
  <2>1. /\ DOMAIN InOrder(chain) = 1 .. Cardinality(chain) /\ Cardinality(chain) \in Nat
        /\ \A x \in chain, k \in 1 .. Cardinality(chain) :
              Rank(chain, x) = k - 1 => InOrder(chain)[k] = x.ev
        /\ \A k \in 1 .. Cardinality(chain) :
              \E x \in chain : Rank(chain, x) = k - 1 /\ InOrder(chain)[k] = x.ev
    <3> HIDE DEF s, l
    <3>1. Numbered(lastId, Events, chain)
      BY <1>1 DEF Numbered
    <3> QED BY <3>1, InOrderElements
  <2> QED BY <2>1
<1>3. /\ \A x \in chain : Rank(chain, x) + 1 \in 1 .. l
      /\ \A x, y \in chain : x.id < y.id => Rank(chain, x) < Rank(chain, y)
  BY <1>1, NodeRanks
<1>4. \A x \in chain : x.id \in Nat
  BY <1>1
<1> HIDE DEF s, l
<1>5. ASSUME NEW j \in 1 .. l PROVE s[j] \in 1 .. Len(oplog) /\ oplog[s[j]].ok
  <2>1. PICK x \in chain : s[j] = x.ev
    BY <1>2
  <2>2. x.ev \in Events /\ oplog[x.ev].ok
    BY <1>1 DEF ChainOrder
  <2> QED BY <2>1, <2>2 DEF Events
<1>6. ASSUME NEW j \in 1 .. l, NEW k \in 1 .. l, j < k PROVE s[j] < s[k]
  <2>1. PICK x \in chain : Rank(chain, x) = j - 1 /\ s[j] = x.ev
    BY <1>2
  <2>2. PICK y \in chain : Rank(chain, y) = k - 1 /\ s[k] = y.ev
    BY <1>2
  <2>3. x.id < y.id
    <3>1. ~(y.id < x.id)
      <4>1. j - 1 < k - 1 /\ j - 1 \in Int /\ k - 1 \in Int
        BY <1>2, <1>6
      <4> QED BY <1>3, <2>1, <2>2, <4>1
    <3>2. x.id # y.id
      <4>1. x # y
        BY <1>2, <1>6, <2>1, <2>2
      <4> QED BY <1>1, <4>1
    <3> QED BY <1>4, <3>1, <3>2
  <2> QED BY <1>1, <2>1, <2>2, <2>3 DEF ChainOrder
<1>7. ASSUME NEW i \in 1 .. Len(oplog), oplog[i].ok, NEW j \in 1 .. l, i <= s[j]
      PROVE  \E k \in 1 .. l : s[k] = i
  <2>1. PICK x \in chain : s[j] = x.ev
    BY <1>2
  <2>2. i \in Events /\ Below(x.ev)
    BY <1>1 DEF Events, Starts
  <2>3. InChain(i)
    BY <1>1, <1>7, <2>1, <2>2 DEF Below, Handled
  <2>4. PICK y \in chain : Cursor(y.ev) = Cursor(i)
    BY <2>3 DEF InChain
  <2>5. y.ev = i
    BY <1>1, <2>2, <2>4 DEF OplogOrder
  <2>6. PICK k \in 1 .. l : k = Rank(chain, y) + 1
    BY <1>3
  <2>7. Rank(chain, y) = k - 1
    <3>1. IsFiniteSet({z \in chain : z.id < y.id})
      <4>1. IsFiniteSet(chain)
        BY <1>1, IdsCount
      <4> QED BY <4>1, FS_Subset
    <3>2. Rank(chain, y) \in Nat
      BY <3>1, FS_CardinalityType DEF Rank
    <3> QED BY <2>6, <3>2
  <2> QED BY <1>2, <2>5, <2>7
<1>8. Published = s /\ DOMAIN s = 1 .. l
  BY <1>2, PublishedInOrder DEF s
<1> QED BY <1>5, <1>6, <1>7, <1>8 DEF Abstract!IsValidPrefix

\* A write is an event that happens.
LEMMA WriteHappens ==
  ASSUME TypeInv, TypeInv', Write
  PROVE  Abstract!Extends(oplog', oplog)
<1> DEFINE E == [time : Nat, doc : Docs, ok : BOOLEAN]
           l == Len(oplog)
           s == SubSeq(oplog', 1, l)
<1>1. oplog \in Seq(E) /\ oplog' \in Seq(E) /\ l \in Nat /\ Len(oplog') \in Nat
  <2>1. oplog \in Seq(E) /\ oplog' \in Seq(E)
    BY DEF TypeInv, SharedType
  <2> QED BY <2>1, LenProperties
<1>2. Len(oplog') > l
  <2>1. PICK t \in TxnShapes : Len(oplog') = l + Len(t) /\ Len(t) \in Nat
    BY WriteForm
  <2>2. t # << >> /\ t \in Seq([doc : Docs, ok : BOOLEAN])
    BY ShapesAssumption
  <2>3. Len(t) # 0
    BY <2>2, EmptySeq
  <2> QED BY <1>1, <2>1, <2>3
<1>3. \A i \in 1 .. l : oplog'[i] = oplog[i]
  BY WriteKeeps DEF Events
<1> HIDE DEF E
<1>4. \A i \in 1 .. l : oplog'[i] \in E
  <2>1. \A i \in 1 .. l : i \in 1 .. Len(oplog')
    BY <1>1, <1>2
  <2> QED BY <1>1, <2>1, ElementOfSeq
<1>5. 1 \in Int /\ l \in Int
  BY <1>1
<1> HIDE DEF l
<1>6. /\ s \in Seq(E) /\ Len(s) = IF 1 <= l THEN l - 1 + 1 ELSE 0
      /\ \A i \in 1 .. l - 1 + 1 : s[i] = oplog'[1 + i - 1]
  BY <1>4, <1>5, SubSeqProperties
<1> HIDE DEF s
<1>7. Len(s) = l /\ \A i \in 1 .. l : s[i] = oplog[i]
  <2>1. l - 1 + 1 = l /\ \A i \in 1 .. l : 1 + i - 1 = i
    BY <1>1
  <2>2. Len(s) = l
    BY <1>1, <1>6
  <2> QED BY <1>3, <1>6, <2>1, <2>2
<1>8. s = oplog
  BY <1>1, <1>6, <1>7, SeqEqual DEF l
<1> QED BY <1>2, <1>8 DEF Abstract!Extends, s, l

\* Who commits a batch of nodes lengthens what the readers see; else it stays.
LEMMA CommitPublishes ==
  ASSUME OrderInv, OrderInv', [Next]_vars, chain' # chain
  PROVE  Abstract!Extends(Published', Published) /\ oplog' = oplog
<1>1. PICK n \in Nodes : chain' = chain \cup nodes[n] /\ lastId' = lastId /\ oplog' = oplog
  BY DEF Next, vars, db, Write, ViewChange, LoopStep, RunFlow, StartLoop, WatchRetry, CanLoop,
     Gather, NextSequences, SkipInvalid, StoreDetails, InsertNodes, SetTokenInTxn,
     CommitTransaction, Commit, StreamNext, StreamRewind, Crash
<1>2. /\ lastId \in Nat
      /\ chain \in SUBSET [id : 1 .. lastId, ev : Events]
      /\ chain' \in SUBSET [id : 1 .. lastId, ev : Events]
      /\ \A x, y \in chain' : x.id = y.id => x = y
      /\ \A x \in nodes[n] : \A y \in chain : y.id < x.id
  <2>1. TypeInv /\ TypeInv' /\ IdsUnique' /\ LoopTail /\ Events' = Events
    BY <1>1 DEF OrderInv, IdInv, TailInv, Events
  <2> QED BY <1>1, <2>1 DEF TypeInv, ChainType, IdsUnique, LoopTail
<1> DEFINE E == Events
           ns == chain
           more == nodes[n]
           b == lastId
<1> HIDE DEF E, ns, more, b
<1>3. /\ Numbered(b, E, ns \cup more) /\ more # {} /\ chain' = ns \cup more
      /\ \A x \in ns, y \in more : x.id < y.id
  BY <1>1, <1>2 DEF Numbered, E, ns, more, b
<1>4. /\ Len(InOrder(ns \cup more)) > Len(InOrder(ns))
      /\ SubSeq(InOrder(ns \cup more), 1, Len(InOrder(ns))) = InOrder(ns)
  BY <1>3, InOrderExtends
<1>5. Published = InOrder(ns) /\ Published' = InOrder(chain')
  BY DEF Published, InOrder, Rank, ns
<1> QED BY <1>1, <1>3, <1>4, <1>5 DEF Abstract!Extends

\* Without failures that lose a batch, what a single loop publishes is the abstract
\* chain: every step of the flow is one of its steps or leaves both as they are.
THEOREM ChainIsPublished ==
  ASSUME CursorsAssumed, OneLoop, Reported, FewFaults
  PROVE  Spec => ImplementsChain
<1> DEFINE I == OrderInv /\ Patient
<1>1. Init => I /\ Abstract!Init
  <2> SUFFICES ASSUME Init PROVE I /\ Abstract!Init
    OBVIOUS
  <2>1. TypeInv /\ OrderInv
    BY TypeInit, OrderInit
  <2>2. Patient
    BY DEF Init, Patient
  <2>3. Published = << >>
    BY FS_EmptySet DEF Init, Published
  <2> QED BY <2>1, <2>2, <2>3 DEF Init, Abstract!Init
<1>2. I /\ [Next]_vars => I'
  <2> SUFFICES ASSUME I, [Next]_vars PROVE I'
    OBVIOUS
  <2>1. OrderInv' /\ TypeInv /\ TypeInv'
    BY OrderStep DEF OrderInv, TailInv
  <2> QED BY <2>1, PatientStep
<1>3. I => Abstract!IsValidPrefix(Published)
  BY ChainIsPrefix DEF Patient
<1>4. ASSUME I, I', Abstract!IsValidPrefix(Published)', [Next]_vars
      PROVE  [Abstract!Happen \/ Abstract!Publish]_(Abstract!vars)
  <2>1. CASE chain' # chain
    <3>1. Abstract!Extends(Published', Published) /\ oplog' = oplog
      BY <1>4, <2>1, CommitPublishes
    <3>2. Abstract!IsValidPrefix(Published')
      BY <1>4, <3>1 DEF Abstract!IsValidPrefix
    <3> QED BY <3>1, <3>2 DEF Abstract!Publish
  <2>2. CASE chain' = chain
    <3>1. Published' = Published
      BY <2>2 DEF Published
    <3>2. CASE Write
      <4>1. Abstract!Extends(oplog', oplog)
        BY <1>4, <3>2, WriteHappens DEF OrderInv, TailInv
      <4> QED BY <3>1, <4>1 DEF Abstract!Happen
    <3>3. CASE ~Write
      <4>1. oplog' = oplog
        BY <1>4, <3>3 DEF Next, vars, db, ViewChange, LoopStep, RunFlow, StartLoop, WatchRetry,
           CanLoop, Gather, NextSequences, SkipInvalid, StoreDetails, InsertNodes,
           SetTokenInTxn, CommitTransaction, StreamNext, StreamRewind, Crash
      <4> QED BY <3>1, <4>1 DEF Abstract!vars
    <3> QED BY <3>2, <3>3
  <2> QED BY <2>1, <2>2
<1> QED BY <1>1, <1>2, <1>3, <1>4, PTL DEF Spec, ImplementsChain, Abstract!Spec
=============================================================================
