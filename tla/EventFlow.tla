------------------------------ MODULE EventFlow ------------------------------
(***************************************************************************)
(* The event flow of the cache service for one watched collection.         *)
(*                                                                         *)
(* Writers append changes to the collection's oplog.  Every cache service  *)
(* instance n runs one change stream and one batch loop (LoopsWatch).  The *)
(* instance that believes it is master turns each batch of changes into    *)
(* chain nodes: it reserves ids, stores the event details in redis, and in *)
(* one MongoDB transaction inserts the nodes and moves the resume token.   *)
(* Watching clients later read the chain by ascending id.                  *)
(*                                                                         *)
(* An event is named by its position in the oplog; a resume token by the   *)
(* position of the event it was issued with, 0 being the empty token.      *)
(***************************************************************************)
EXTENDS Naturals, Sequences, FiniteSets

CONSTANTS
    Nodes,          \* cache service instances
    Docs,           \* (document, operation type) pairs
    TxnShapes,      \* what one write transaction appends: [doc, ok] sequences
    MaxEvents,      \* bound on the length of the oplog
    BatchSize,      \* LoopBatchOptions.BatchSize
    ChanSize,       \* capacity of the stream's event channel
    MaxRetry,       \* RetryOptions.MaxRetryCount
    Faults,         \* kinds of failure that may occur
    MaxFaults,      \* bound on the number of failures
    MaxFlips,       \* bound on the number of mastership changes
    MinuteBehind    \* TRUE: an event may stay unhandled for over a minute

FaultKinds == {"read", "sequence", "redis", "begin", "insert", "token",
               "commit", "rewind", "crash"}

ASSUME ShapesAssumption ==
    \A s \in TxnShapes : s \in Seq([doc : Docs, ok : BOOLEAN]) /\ s # << >>
ASSUME BoundsAssumption ==
    /\ {MaxEvents, MaxRetry, MaxFaults, MaxFlips} \subseteq Nat
    /\ {BatchSize, ChanSize} \subseteq Nat \ {0}
ASSUME FaultsAssumption == Faults \subseteq FaultKinds /\ MinuteBehind \in BOOLEAN

VARIABLES
    oplog,      \* the changes of the collection: [time, doc, ok]
    chain,      \* the committed chain nodes: [id, ev]
    lastId,     \* cc_idgenerator's SequenceID of the chain
    token,      \* the collection's cc_WatchToken record: [tok, id, startAt]
    details,    \* cursors whose detail is stored in redis
    isMaster,   \* instances whose view of the registry makes them master
    pc,         \* where the instance's loop goroutine is
    opt,        \* opts.WatchOpt: [tok, startAt]
    rd,         \* position the change stream has read up to
    ch,         \* the stream's EventChan
    prev,       \* observer.previousStatus
    retries,    \* retryHandler.retryCounter
    batch,      \* the events given to doBatch
    nodes,      \* chain nodes doInsertEvents still has to insert
    stale,      \* instances whose open transaction saw an old token record
    faults,     \* number of failures so far
    flips,      \* number of mastership changes so far
    gaveUp,     \* history: events skipped after MaxRetry retries
    swallowed   \* history: events of batches whose failed insert was ignored

db == << chain, lastId, token, details, stale >>
loop == << pc, opt, rd, ch, prev, retries >>
work == << batch, nodes >>
history == << gaveUp, swallowed >>
vars == << oplog, db, isMaster, loop, work, faults, flips, history >>

-----------------------------------------------------------------------------
Cursor(i) == << oplog[i].time, oplog[i].doc >>

Events == 1 .. Len(oplog)

InChain(i) == \E x \in chain : Cursor(x.ev) = Cursor(i)

\* Stream position from which events of event i's cluster time are read again.
StartOf(i) == Cardinality({j \in Events : oplog[j].time < oplog[i].time})

\* Mutant of First: the list is walked from its end.
FirstFromEnd(ns) == CHOOSE x \in ns : \A y \in ns : y.id <= x.id

First(ns) == CHOOSE x \in ns : \A y \in ns : x.id <= y.id
Last(ns) == CHOOSE x \in ns : \A y \in ns : y.id <= x.id

BatchEvents(n) == {batch[n][i] : i \in DOMAIN batch[n]}

\* Mutants of Picked: the ids are numbered from one in every batch, they are
\* one ahead of the reserved ones, the events are not validated.
PickedFromOne(b, from) == {[id |-> i, ev |-> b[i]] : i \in {i \in DOMAIN b : oplog[b[i]].ok}}
PickedOneAhead(b, from) ==
    {[id |-> from + i + 1, ev |-> b[i]] : i \in {i \in DOMAIN b : oplog[b[i]].ok}}
PickedUnvalidated(b, from) == {[id |-> from + i, ev |-> b[i]] : i \in DOMAIN b}

\* The chain nodes of a batch: invalid events are dropped, and of the events
\* with one cursor the last stays.
Picked(b, from) ==
    {[id |-> from + i, ev |-> b[i]] : i \in
        {i \in DOMAIN b : /\ oplog[b[i]].ok
                          /\ \A j \in DOMAIN b :
                                 j > i /\ oplog[b[j]].ok => Cursor(b[j]) # Cursor(b[i])}}

\* Failures are drawn from a bounded budget.
Fail(kind) == kind \in Faults /\ faults < MaxFaults /\ faults' = faults + 1
NoFail == UNCHANGED faults

\* Instances with an open transaction: its inserts are done, its commit is not.
InTxn == {n \in Nodes : pc[n] \in {"token", "commit"}}

Init ==
    /\ oplog = << >>
    /\ chain = {}
    /\ lastId = 0
    /\ token = [tok |-> 0, id |-> 0, startAt |-> 0]
    /\ details = {}
    /\ \E n \in Nodes : isMaster = {n}
    /\ pc = [n \in Nodes |-> "down"]
    /\ opt = [n \in Nodes |-> [tok |-> 0, startAt |-> 0]]
    /\ rd = [n \in Nodes |-> 0]
    /\ ch = [n \in Nodes |-> << >>]
    /\ prev = [n \in Nodes |-> FALSE]
    /\ retries = [n \in Nodes |-> 0]
    /\ batch = [n \in Nodes |-> << >>]
    /\ nodes = [n \in Nodes |-> {}]
    /\ stale = {}
    /\ faults = 0
    /\ flips = 0
    /\ gaveUp = {}
    /\ swallowed = {}

-----------------------------------------------------------------------------
(* Writers, the registry and the process itself.                           *)

\* A write transaction commits: its operations share one cluster time.
Write ==
    /\ \E s \in TxnShapes :
        /\ Len(oplog) + Len(s) <= MaxEvents
        /\ oplog' = oplog \o [i \in DOMAIN s |->
                                 [time |-> Len(oplog) + 1, doc |-> s[i].doc, ok |-> s[i].ok]]
    /\ UNCHANGED << db, isMaster, loop, work, faults, flips, history >>

\* The registry tells one instance that it became, or no longer is, the master.
ViewChange(n) ==
    /\ flips < MaxFlips
    /\ flips' = flips + 1
    /\ isMaster' = IF n \in isMaster THEN isMaster \ {n} ELSE isMaster \cup {n}
    /\ UNCHANGED << oplog, db, loop, work, faults, history >>

\* The locals of doBatch when it returns.
DropWork(n) ==
    /\ batch' = [batch EXCEPT ![n] = << >>]
    /\ nodes' = [nodes EXCEPT ![n] = {}]

\* The process stops; the database rolls its open transaction back.
Crash(n) ==
    /\ pc[n] # "down"
    /\ Fail("crash")
    /\ pc' = [pc EXCEPT ![n] = "down"]
    /\ opt' = [opt EXCEPT ![n] = [tok |-> 0, startAt |-> 0]]
    /\ rd' = [rd EXCEPT ![n] = 0]
    /\ ch' = [ch EXCEPT ![n] = << >>]
    /\ prev' = [prev EXCEPT ![n] = FALSE]
    /\ retries' = [retries EXCEPT ![n] = 0]
    /\ DropWork(n)
    /\ stale' = stale \ {n}
    /\ UNCHANGED << oplog, chain, lastId, token, details, isMaster, flips, history >>

-----------------------------------------------------------------------------
(* Starting and restarting the watch.                                      *)

\* GetStartWatchToken: the token record's, or when that cannot be read the
\* one of the chain's tail.
GetStartWatchToken(t) ==
    \/ NoFail /\ t = token.tok
    \/ Fail("read") /\ t = IF chain = {} THEN 0 ELSE Last(chain).ev

\* Mutant of Watch: the stream starts from now.
WatchFromNow(n, o) ==
    /\ opt' = [opt EXCEPT ![n] = o]
    /\ rd' = [rd EXCEPT ![n] = Len(oplog)]
    /\ ch' = [ch EXCEPT ![n] = << >>]
    /\ pc' = [pc EXCEPT ![n] = "start"]

\* The stream of options o starts after the token if there is one.
Watch(n, o) ==
    /\ opt' = [opt EXCEPT ![n] = o]
    /\ rd' = [rd EXCEPT ![n] = IF o.tok # 0 THEN o.tok ELSE o.startAt]
    /\ ch' = [ch EXCEPT ![n] = << >>]
    /\ pc' = [pc EXCEPT ![n] = "start"]

\* RunFlow and WithBatch.
RunFlow(n) ==
    /\ pc[n] = "down"
    /\ \E t \in 0 .. Len(oplog) :
          GetStartWatchToken(t) /\ Watch(n, [tok |-> t, startAt |-> token.startAt])
    /\ UNCHANGED << oplog, db, isMaster, prev, retries, work, flips, history >>

\* tryLoopWithBatch remembers whether the instance is master now.
StartLoop(n) ==
    /\ pc[n] = "start"
    /\ prev' = [prev EXCEPT ![n] = n \in isMaster]
    /\ pc' = [pc EXCEPT ![n] = "loop"]
    /\ UNCHANGED << oplog, db, isMaster, opt, rd, ch, retries, work, faults, flips, history >>

\* watchRetry: cancel the former watch and watch again from the start token;
\* an empty token leaves the former options in place.
WatchRetry(n) ==
    /\ pc[n] = "retry"
    /\ \/ \E t \in 0 .. Len(oplog) :
             /\ GetStartWatchToken(t)
             /\ Watch(n, [opt[n] EXCEPT !.tok = IF t # 0 THEN t ELSE @])
       \/ Fail("read") /\ UNCHANGED << pc, opt, rd, ch >>
    /\ UNCHANGED << oplog, db, isMaster, prev, retries, work, flips, history >>

-----------------------------------------------------------------------------
(* The change stream.                                                      *)

\* The stream reads the next change and sends it on EventChan.
StreamNext(n) ==
    /\ pc[n] \notin {"down", "retry"}
    /\ rd[n] < Len(oplog)
    /\ Len(ch[n]) < ChanSize
    /\ rd' = [rd EXCEPT ![n] = @ + 1]
    /\ ch' = [ch EXCEPT ![n] = Append(@, rd[n] + 1)]
    /\ UNCHANGED << oplog, db, isMaster, pc, opt, prev, retries, work, faults, flips, history >>

\* The token record is written: open transactions that did not write it yet
\* will find it changed.
SetToken(t) ==
    /\ token' = t
    /\ stale' = stale \cup {m \in Nodes : pc[m] = "token"}

\* No transaction that already wrote the token record is open.
TokenUnlocked == \A m \in Nodes : pc[m] # "commit"

\* The flow is done with event i.
Handled(i) == oplog[i].ok => InChain(i) \/ i \in gaveUp \cup swallowed

\* The resume token is unusable: the stream restarts a minute back, and
\* resetWatchToken empties the token record (that may fail, and a stream that
\* was invalidated does not do it).
StreamRewind(n) ==
    /\ pc[n] # "down"
    /\ Fail("rewind")
    /\ \E q \in 0 .. Len(oplog) :
        /\ MinuteBehind \/ \A i \in 1 .. q : Handled(i)
        /\ rd' = [rd EXCEPT ![n] = q]
        /\ \/ /\ TokenUnlocked
              /\ SetToken([token EXCEPT !.tok = 0, !.startAt = q])
           \/ UNCHANGED << token, stale >>
    /\ UNCHANGED << oplog, chain, lastId, details, isMaster, pc, opt, ch, prev, retries,
                    work, flips, history >>

-----------------------------------------------------------------------------
(* The batch loop.                                                         *)

\* canLoop: a change of mastership since the last look makes the loop watch
\* again, a slave waits.
CanLoop(n) ==
    /\ pc[n] = "loop"
    /\ \/ /\ prev[n] # (n \in isMaster)
          /\ pc' = [pc EXCEPT ![n] = "retry"]
          /\ prev' = [prev EXCEPT ![n] = n \in isMaster]
          /\ ch' = [ch EXCEPT ![n] = << >>]
       \/ /\ prev[n] /\ n \in isMaster
          /\ pc' = [pc EXCEPT ![n] = "gather"]
          /\ UNCHANGED << prev, ch >>
       \/ /\ ~prev[n] /\ n \notin isMaster
          /\ UNCHANGED << pc, prev, ch >>
    /\ UNCHANGED << oplog, db, isMaster, opt, rd, retries, work, faults, flips, history >>

\* The tick, or a full batch, ends the gathering; a tick without events does not.
Gather(n) ==
    /\ pc[n] = "gather"
    /\ \/ /\ ch[n] = << >>
          /\ UNCHANGED << pc, ch, batch >>
       \/ \E k \in 1 .. Len(ch[n]) :
            /\ k <= BatchSize
            /\ batch' = [batch EXCEPT ![n] = SubSeq(ch[n], 1, k)]
            /\ ch' = [ch EXCEPT ![n] = SubSeq(@, k + 1, Len(@))]
            /\ pc' = [pc EXCEPT ![n] = "sequence"]
    /\ UNCHANGED << oplog, db, isMaster, opt, rd, prev, retries, nodes,
                    faults, flips, history >>

\* doBatch returned false: the loop takes the next batch.
BatchDone(n) ==
    /\ pc' = [pc EXCEPT ![n] = "loop"]
    /\ retries' = [retries EXCEPT ![n] = 0]
    /\ DropWork(n)
    /\ UNCHANGED ch

\* Mutant of BatchRetry: the error is only logged.
BatchIgnore(n) == BatchDone(n) /\ UNCHANGED gaveUp

\* doBatch returned true: watch again, or skip the batch when canStillRetry
\* says it was retried often enough.
BatchRetry(n) ==
    \/ /\ retries[n] < MaxRetry
       /\ retries' = [retries EXCEPT ![n] = @ + 1]
       /\ pc' = [pc EXCEPT ![n] = "retry"]
       /\ ch' = [ch EXCEPT ![n] = << >>]
       /\ DropWork(n)
       /\ UNCHANGED gaveUp
    \/ /\ retries[n] >= MaxRetry
       /\ gaveUp' = gaveUp \cup BatchEvents(n)
       /\ BatchDone(n)

\* getDeleteEventDetails and NextSequences reserve one id for each event.
NextSequences(n) ==
    /\ pc[n] = "sequence"
    /\ \/ /\ NoFail
          /\ lastId' = lastId + Len(batch[n])
          /\ nodes' = [nodes EXCEPT ![n] = Picked(batch[n], lastId)]
          /\ pc' = [pc EXCEPT ![n] =
                        IF Picked(batch[n], lastId) = {} THEN "invalid" ELSE "redis"]
          /\ UNCHANGED << ch, retries, batch, gaveUp >>
       \/ Fail("sequence") /\ BatchRetry(n) /\ UNCHANGED lastId
    /\ UNCHANGED << oplog, chain, token, details, stale, isMaster, opt, rd, prev, flips, swallowed >>

\* Every event of the batch was invalid: only the token moves, and a failure
\* to move it is ignored.
SkipInvalid(n) ==
    /\ pc[n] = "invalid"
    /\ \/ /\ NoFail
          /\ TokenUnlocked
          /\ SetToken([token EXCEPT !.tok = batch[n][Len(batch[n])],
                                    !.startAt = StartOf(batch[n][Len(batch[n])])])
       \/ Fail("token") /\ UNCHANGED << token, stale >>
    /\ BatchDone(n)
    /\ UNCHANGED << oplog, chain, lastId, details, isMaster, opt, rd, prev, flips, history >>

\* Mutant of DetailCursors: the last event of the batch is left out.
DetailCursorsButLast(n) ==
    {Cursor(batch[n][i]) : i \in {i \in 1 .. Len(batch[n]) - 1 : oplog[batch[n][i]].ok}}

\* The cursors of a batch's valid events.
DetailCursors(n) ==
    {Cursor(batch[n][i]) : i \in {i \in DOMAIN batch[n] : oplog[batch[n][i]].ok}}

\* The redis pipeline stores the details; one that fails stored some of them.
StoreDetails(n) ==
    /\ pc[n] = "redis"
    /\ \/ /\ NoFail
          /\ details' = details \cup DetailCursors(n)
          /\ pc' = [pc EXCEPT ![n] = "insert"]
          /\ UNCHANGED << ch, retries, work, gaveUp >>
       \/ /\ Fail("redis")
          /\ \E some \in SUBSET DetailCursors(n) : details' = details \cup some
          /\ BatchRetry(n)
    /\ UNCHANGED << oplog, chain, lastId, token, stale, isMaster, opt, rd, prev, flips,
                    swallowed >>

-----------------------------------------------------------------------------
(* doInsertEvents: one MongoDB transaction.  Its snapshot is the state at    *)
(* the insert; a write to what another open transaction wrote, or to what    *)
(* changed since the snapshot, fails with a write conflict.                  *)

Committed(x) == InChain(x.ev)
Pending(n, x) == \E m \in InTxn \ {n} : \E y \in nodes[m] : Cursor(y.ev) = Cursor(x.ev)
Clashing(n) == {x \in nodes[n] : Committed(x) \/ Pending(n, x)}

\* The insert or the token update failed and the transaction is aborted: the
\* error is assigned to a shadowing variable, so that doBatch sees none.
InsertError(n) ==
    /\ swallowed' = swallowed \cup BatchEvents(n)
    /\ BatchDone(n)

\* StartTransaction and Insert.  When the first node that cannot be inserted
\* has a duplicate cursor, the insert is tried again without the first node.
InsertNodes(n) ==
    /\ pc[n] = "insert"
    /\ \/ /\ NoFail
          /\ Clashing(n) = {}
          /\ pc' = [pc EXCEPT ![n] = "token"]
          /\ UNCHANGED << ch, retries, work, history >>
       \/ /\ NoFail
          /\ Clashing(n) # {} /\ Committed(First(Clashing(n)))
          /\ \/ /\ Cardinality(nodes[n]) > 1
                /\ nodes' = [nodes EXCEPT ![n] = @ \ {First(@)}]
                /\ UNCHANGED << pc, ch, retries, batch >>
             \/ /\ Cardinality(nodes[n]) = 1
                /\ BatchDone(n)
          /\ UNCHANGED history
       \/ /\ \/ NoFail /\ Clashing(n) # {} /\ ~Committed(First(Clashing(n)))
             \/ Fail("insert")
          /\ InsertError(n)
          /\ UNCHANGED gaveUp
       \/ /\ Fail("begin")
          /\ BatchRetry(n)
          /\ UNCHANGED swallowed
    /\ UNCHANGED << oplog, db, isMaster, opt, rd, prev, flips >>

\* setLastWatchToken in the transaction.
SetTokenInTxn(n) ==
    /\ pc[n] = "token"
    /\ \/ /\ NoFail
          /\ n \notin stale /\ TokenUnlocked
          /\ pc' = [pc EXCEPT ![n] = "commit"]
          /\ UNCHANGED << ch, retries, work, swallowed >>
       \/ /\ \/ NoFail /\ (n \in stale \/ ~TokenUnlocked)
             \/ Fail("token")
          /\ InsertError(n)
    /\ stale' = stale \ {n}
    /\ UNCHANGED << oplog, chain, lastId, token, details, isMaster, opt, rd, prev, flips,
                    gaveUp >>

\* Mutants of Commit: the token of the last event the stream has read, the id
\* of the first node.
CommitStreamToken(n) ==
    /\ chain' = chain \cup nodes[n]
    /\ SetToken([tok |-> rd[n], id |-> Last(nodes[n]).id,
                 startAt |-> StartOf(Last(nodes[n]).ev)])
CommitFirstId(n) ==
    /\ chain' = chain \cup nodes[n]
    /\ SetToken([tok |-> batch[n][Len(batch[n])], id |-> First(nodes[n]).id,
                 startAt |-> StartOf(Last(nodes[n]).ev)])

\* The nodes and the token become visible together.
Commit(n) ==
    /\ chain' = chain \cup nodes[n]
    /\ SetToken([tok |-> batch[n][Len(batch[n])],
                 id |-> Last(nodes[n]).id,
                 startAt |-> StartOf(Last(nodes[n]).ev)])

\* CommitTransaction: a commit that reports an error may have been applied.
CommitTransaction(n) ==
    /\ pc[n] = "commit"
    /\ \/ NoFail /\ Commit(n) /\ BatchDone(n) /\ UNCHANGED gaveUp
       \/ /\ Fail("commit")
          /\ Commit(n) \/ UNCHANGED << chain, token, stale >>
          /\ BatchRetry(n)
    /\ UNCHANGED << oplog, lastId, details, isMaster, opt, rd, prev, flips, swallowed >>

-----------------------------------------------------------------------------
\* The goroutine that runs the loop, or restarts it when it ended.
LoopStep(n) ==
    \/ RunFlow(n)
    \/ StartLoop(n)
    \/ WatchRetry(n)
    \/ CanLoop(n)
    \/ Gather(n)
    \/ NextSequences(n)
    \/ SkipInvalid(n)
    \/ StoreDetails(n)
    \/ InsertNodes(n)
    \/ SetTokenInTxn(n)
    \/ CommitTransaction(n)

Next ==
    \/ Write
    \/ \E n \in Nodes :
          LoopStep(n) \/ StreamNext(n) \/ StreamRewind(n) \/ ViewChange(n) \/ Crash(n)

Spec == Init /\ [][Next]_vars

\* Goroutines are scheduled for ever, the stream's and the loop's; failures,
\* crashes and changes of mastership need never happen.
Fairness ==
    \A n \in Nodes :
        /\ WF_vars(StreamNext(n))
        /\ WF_vars(LoopStep(n))

FairSpec == Spec /\ Fairness

-----------------------------------------------------------------------------
\* The variables have the types their comments give them.
TypeOK ==
    /\ oplog \in Seq([time : Nat, doc : Docs, ok : BOOLEAN]) /\ Len(oplog) <= MaxEvents
    /\ chain \subseteq [id : 1 .. lastId, ev : Events]
    /\ lastId \in Nat
    /\ token \in [tok : 0 .. Len(oplog), id : 0 .. lastId, startAt : 0 .. Len(oplog)]
    /\ details \subseteq Nat \X Docs
    /\ isMaster \subseteq Nodes
    /\ pc \in [Nodes -> {"down", "start", "retry", "loop", "gather", "sequence", "invalid",
                         "redis", "insert", "token", "commit"}]
    /\ opt \in [Nodes -> [tok : 0 .. Len(oplog), startAt : 0 .. Len(oplog)]]
    /\ rd \in [Nodes -> 0 .. Len(oplog)]
    /\ ch \in [Nodes -> Seq(Events)]
    /\ prev \in [Nodes -> BOOLEAN]
    /\ retries \in [Nodes -> 0 .. MaxRetry]
    /\ batch \in [Nodes -> Seq(Events)]
    /\ nodes \in [Nodes -> SUBSET [id : 1 .. lastId, ev : Events]]
    /\ stale \subseteq Nodes
    /\ faults \in 0 .. MaxFaults
    /\ flips \in 0 .. MaxFlips
    /\ gaveUp \subseteq Events
    /\ swallowed \subseteq Events

\* Valid events the chain has moved past without a node for their cursor.
\* The chain has moved past an event when the token, or a node of a later
\* event, lies behind it.
Passed(i) == i <= token.tok \/ \E x \in chain : i <= x.ev
Missing == {i \in Events : oplog[i].ok /\ Passed(i) /\ ~InChain(i)}

\* No event is lost: whenever the instance crashes, is deposed, retries or inserts
\* a batch twice, every valid event the token has moved past is in the chain,
\* unless its batch was given up after MaxRetry retries.
NoLoss == Missing \subseteq gaveUp

\* The same with several masters, whose write conflicts surface as errors of
\* the insert: an event is lost only with a batch whose insert error was
\* swallowed, never through the removal of duplicate nodes or a handover.  This needs
\* transactions that do not do the same to a document twice: otherwise the node that
\* is removed as a duplicate (the first) may be another one than the node that was.
LostOnlyWithBatch == Missing \subseteq gaveUp \cup swallowed

\* Two chain nodes never share an id, whoever reserved and inserted them; nor
\* do nodes that are still to be inserted by different instances.
IdsUnique ==
    /\ \A x, y \in chain : x.id = y.id => x = y
    /\ \A n \in Nodes : \A x \in nodes[n] :
          /\ \A y \in chain : x.id # y.id
          /\ \A m \in Nodes \ {n} : \A y \in nodes[m] : x.id # y.id

\* A client that finds a node in the chain finds its detail in redis: the
\* details are stored first, also when the insert is retried or reduced.
DetailBeforeNode == \A x \in chain : Cursor(x.ev) \in details

\* The token record names the chain's tail: a watch that resumes from its id
\* (searchFollowingEventChainNodes) continues exactly behind the last node.
TokenAtTail == chain # {} => token.id = Last(chain).id

\* What clients read below the tail never changes: a step only appends nodes
\* with ids above every id they may have read.
AppendOnly ==
    [][/\ chain \subseteq chain'
       /\ \A x \in chain, y \in chain' \ chain : x.id < y.id]_chain

\* Whichever step of a batch fails, whatever nodes were removed as duplicates and
\* wherever the stream restarted, a running loop leaves no event behind: what its stream
\* has read is in the chain, waits in the channel or the batch, or was in a batch that
\* was given up after MaxRetry retries or whose insert error was swallowed.  An error that
\* doBatch reports is thus always followed by a re-watch from the token or by the end of
\* the retries.  (An error of the insert or of the token update is not reported, although
\* flow.go:396 says "roll back and re-watch again": that is what swallowed holds.)
NoneLeftBehind ==
    \A n \in Nodes : pc[n] \notin {"down", "retry"} =>
        \A i \in 1 .. rd[n] :
            \/ Handled(i)
            \/ i \in BatchEvents(n)
            \/ \E k \in DOMAIN ch[n] : ch[n][k] = i

\* Once mastership has settled on some instance, no valid event waits for ever,
\* whatever crashes, failures and handovers came before: it reaches the chain, or
\* is in a batch that was given up or whose insert error was swallowed (a write
\* conflict of two masters does that).
Delivered ==
    <>[](isMaster # {}) =>
        \A i \in 1 .. MaxEvents :
            i \in Events ~> (i \in Events /\ Handled(i))

\* What the chain promises its readers: the events below the tail, by ascending
\* id, are exactly the valid events of a prefix of the oplog, in its order.
Published ==
    [k \in 1 .. Cardinality(chain) |->
        (CHOOSE x \in chain : Cardinality({y \in chain : y.id < x.id}) = k - 1).ev]
Abstract == INSTANCE EventChain WITH out <- Published
ImplementsChain == Abstract!Spec
=============================================================================
