------------------------------- MODULE ListWatch -------------------------------
(***************************************************************************)
(* A collection, its change stream, and a process that keeps a copy of the *)
(* collection: it opens the stream, counts the documents, lists them page  *)
(* by page with skip and limit, and only then reads the stream.  A stream  *)
(* that breaks is opened again behind the last event, or, when the server  *)
(* no longer has that point, one minute in the past.                       *)
(*                                                                         *)
(* The copy is the map from object ids to documents that the cloud server  *)
(* keeps of its synchronisation tasks.  The channel between the stream and *)
(* the map keeps the order and dies with the process, so that an event is  *)
(* put into the map in the step that reads it.                             *)
(*                                                                         *)
(* Times are positions in the log: "a minute ago", or the process's clock  *)
(* of "now", may lie any number of events back, and as many ahead as are   *)
(* written until the database's clock has come to the process's.           *)
(***************************************************************************)
EXTENDS Integers, Sequences, FiniteSets

CONSTANTS
    MaxDocs,        \* documents, in the order in which a page lists them
    Values,         \* what a document may hold
    PageSize,       \* PageSize
    Faults,         \* kinds of failure that may occur
    MaxFaults,      \* bound on the number of failures
    MaxWrites,      \* bound on the number of writes
    MaxSkew         \* bound on the changes before the process's clock is reached

ASSUME BoundsAssumption == {MaxDocs, MaxFaults, MaxWrites, MaxSkew} \subseteq Nat
ASSUME PageAssumption == PageSize \in Nat \ {0}
ASSUME FaultsAssumption ==
    Faults \subseteq {"find", "cursor", "decode", "stream", "watch", "fatal", "crash"}

Docs == 1 .. MaxDocs
Absent == "absent"      \* no document; in the map: no entry
Zero == "zero"          \* the zero value of EventStruct
ASSUME ValuesAssumption == {Absent, Zero} \cap Values = {}
None == -1              \* a start option that is not set

VARIABLES
    store,      \* the collection
    log,        \* its changes
    pc,         \* where the process is
    cnt,        \* totalCnt
    start,      \* start of lister
    pos,        \* changes the stream has passed, or passes over
    token,      \* currentToken
    startAt,    \* streamOptions.StartAtOperationTime
    tasklist,   \* tasklist
    faults,     \* number of failures so far
    writes,     \* number of writes so far
    breaks,     \* history: errors of the stream since the last event
    fatal,      \* history: one of them was fatal
    excused     \* history: documents a page or the stream left out, with the reason

collection == << store, log, writes >>
stream == << pos, token, startAt, breaks, fatal >>
lister == << cnt, start >>
vars == << collection, pc, lister, stream, tasklist, faults, excused >>

Fail(kind) == kind \in Faults /\ faults < MaxFaults /\ faults' = faults + 1
Excuse(D, why) == excused' = excused \cup [doc : D, why : {why}]

Present == {d \in Docs : store[d] # Absent}
\* How many documents precede it in the order of the pages, itself included.
Rank(d) == Cardinality({c \in Present : c <= d})
Page == {d \in Present : start < Rank(d) /\ Rank(d) <= start + PageSize}
\* Where the last page ends.
End == PageSize * ((cnt + PageSize - 1) \div PageSize)

Init ==
    /\ store \in [Docs -> Values \cup {Absent}]
    /\ log = << >>
    /\ pc = "open"
    /\ cnt = 0 /\ start = 0
    /\ pos = 0 /\ token = None
    /\ startAt = None
    /\ tasklist = [d \in Docs |-> Absent]
    /\ faults = 0 /\ writes = 0
    /\ breaks = 0 /\ fatal = FALSE
    /\ excused = {}

-----------------------------------------------------------------------------
\* The collection.  An object id is never used again.

\* A change before the time at which the stream starts is not in the stream.
Hidden(d) == IF Len(log) < pos THEN {d} ELSE {}
Write(d, op, v, shifted) ==
    /\ writes < MaxWrites
    /\ writes' = writes + 1
    /\ store' = [store EXCEPT ![d] = v]
    /\ log' = Append(log, [op |-> op, doc |-> d, val |-> v])
    /\ excused' = excused \cup [doc : shifted, why : {"shift"}] \cup [doc : Hidden(d), why : {"clock"}]
    /\ UNCHANGED << pc, lister, stream, tasklist, faults >>

\* A document that is inserted before the pages still to come pushes the one
\* after the last of them out.
PushedOut(d) == {c \in Present : pc = "list" /\ d < c /\ Rank(c) = End}
Insert(d, v) ==
    /\ store[d] = Absent
    /\ \A i \in DOMAIN log : log[i].doc # d
    /\ Write(d, "insert", v, PushedOut(d))

Update(d, v) ==
    /\ store[d] \notin {Absent, v}
    /\ Write(d, "update", v, {})

\* A document that is deleted from the pages already listed pulls the next one there.
PulledBack(d) == {c \in Present : pc = "list" /\ Rank(d) <= start /\ Rank(c) = start + 1}
Delete(d) ==
    /\ store[d] # Absent
    /\ Write(d, "delete", Absent, PulledBack(d))

-----------------------------------------------------------------------------
\* The receiver of the events.

\* changeOnLister, changeOnAdd, changeOnUpdate
AddTasks(D, val) == tasklist' = [d \in Docs |-> IF d \in D THEN val[d] ELSE tasklist[d]]
\* Mutant of DelTask: a deletion is ignored.
DelNothing(d) == UNCHANGED tasklist
\* changeOnDelete
DelTask(d) == tasklist' = [tasklist EXCEPT ![d] = Absent]

\* The document that comes with a change: as it was inserted; as it is now for an
\* update, whose document is looked up; none for a delete.
Document(e) ==
    CASE e.op = "insert" -> e.val
      [] e.op = "update" -> IF store[e.doc] = Absent THEN Zero ELSE store[e.doc]
      [] e.op = "delete" -> Zero

\* The reflector calls the handler of the change's type.
Receive(e) == IF e.op = "delete" THEN DelTask(e.doc)
              ELSE AddTasks({e.doc}, [d \in {e.doc} |-> Document(e)])
ReceivePage(D) == AddTasks(D, store)

-----------------------------------------------------------------------------
\* ListWatch opens the stream at the time of the process's own clock, or one minute in
\* the past when that is a fatal error; another error ends the process, which starts
\* again.
OpenStream ==
    /\ pc = "open"
    /\ \E p \in 0 .. Len(log) + MaxSkew : pos' = p /\ startAt' = p
    /\ pc' = "count"
    /\ UNCHANGED << collection, lister, token, breaks, fatal, tasklist, faults, excused >>

CountDocuments ==
    /\ pc = "count"
    /\ cnt' = Cardinality(Present) /\ start' = 0
    /\ pc' = "list"
    /\ UNCHANGED << collection, stream, tasklist, faults, excused >>

\* lister, one page: its documents, in one step, are put into the map.
ListPage ==
    /\ pc = "list" /\ start < cnt
    /\ ReceivePage(Page)
    /\ start' = start + PageSize
    /\ UNCHANGED << collection, pc, cnt, stream, faults, excused >>

\* Mutant of ListPageError: the next page follows.
ListPageSkip(d) ==
    /\ pc = "list" /\ start < cnt /\ d \in Page
    /\ Fail("cursor")
    /\ ReceivePage({c \in Page : c < d})
    /\ start' = start + PageSize
    /\ UNCHANGED << collection, pc, cnt, stream, excused >>

\* An error of the cursor, or a document that cannot be decoded: the page is
\* repeated, as it then is.
ListPageError(d) ==
    /\ pc = "list" /\ start < cnt /\ d \in Page
    /\ Fail("cursor")
    /\ ReceivePage({c \in Page : c < d})
    /\ UNCHANGED << collection, pc, lister, stream, excused >>

\* An error of the query: the next page follows.
ListFindError ==
    /\ pc = "list" /\ start < cnt
    /\ Fail("find")
    /\ Excuse(Page, "find")
    /\ start' = start + PageSize
    /\ UNCHANGED << collection, pc, cnt, stream, tasklist >>

ListDone ==
    /\ pc = "list" /\ start >= cnt
    /\ pc' = "watch"
    /\ UNCHANGED << collection, lister, stream, tasklist, faults, excused >>

\* loopWatch
Change == log[pos + 1]
StreamNext ==
    /\ pc = "watch" /\ pos < Len(log)
    /\ Receive(Change)
    /\ pos' = pos + 1 /\ token' = pos + 1
    /\ breaks' = 0 /\ fatal' = FALSE
    /\ UNCHANGED << collection, pc, lister, startAt, faults, excused >>

\* A change that cannot be decoded is left out.
StreamDecodeError ==
    /\ pc = "watch" /\ pos < Len(log)
    /\ Fail("decode")
    /\ Excuse({Change.doc}, "decode")
    /\ pos' = pos + 1
    /\ UNCHANGED << collection, pc, lister, token, startAt, breaks, fatal, tasklist >>

StreamError ==
    /\ pc = "watch"
    /\ Fail("stream")
    /\ breaks' = breaks + 1
    /\ pc' = "retry"
    /\ UNCHANGED << collection, lister, pos, token, startAt, fatal, tasklist, excused >>

\* Mutant of OpenAt: the change at p counts as seen when it is not there yet.
OpenBehind(p) == pos' = p + MaxSkew + 1 /\ UNCHANGED excused
\* A stream opened at p leaves out the changes after pos up to p.
OpenAt(p) ==
    /\ pos' = p
    /\ Excuse({log[i].doc : i \in (pos + 1 .. p) \cap DOMAIN log}, "gap")

\* Mutant of StartOptions: the token is not used.
TimeOnly == IF startAt # None THEN startAt ELSE Len(log)
\* StartAfter is the last event's token, if there is one, StartAtOperationTime the time
\* at which the stream was first opened, until it is cleared.
StartOptions == IF token # None THEN token ELSE IF startAt # None THEN startAt ELSE Len(log)
\* A request with both is refused, and not with a fatal error: the loop tries again with
\* the same options, without end.
Refused == token # None /\ startAt # None
Rewatch ==
    /\ pc = "retry" /\ ~Refused
    /\ OpenAt(StartOptions)
    /\ startAt' = None
    /\ pc' = "watch"
    /\ UNCHANGED << collection, lister, token, breaks, fatal, tasklist, faults >>

RewatchError ==
    /\ pc = "retry"
    /\ Fail("watch")
    /\ UNCHANGED << collection, pc, lister, stream, tasklist, excused >>

\* The token is given up for a time one minute ago, of the process's clock.
RewatchFatal ==
    /\ pc = "retry" /\ ~Refused
    /\ Fail("fatal")
    /\ fatal' = TRUE
    /\ token' = None /\ startAt' \in 0 .. Len(log) + MaxSkew
    /\ UNCHANGED << collection, pc, lister, pos, breaks, tasklist, excused >>

\* The process stops and is started again.
Crash ==
    /\ pc # "open" /\ Fail("crash")
    /\ pc' = "open" /\ cnt' = 0 /\ start' = 0 /\ pos' = 0
    /\ token' = None /\ startAt' = None
    /\ breaks' = 0 /\ fatal' = FALSE
    /\ tasklist' = [d \in Docs |-> Absent]
    /\ excused' = {}
    /\ UNCHANGED collection

Writes ==
    \E d \in Docs :
        \/ \E v \in Values : Insert(d, v) \/ Update(d, v)
        \/ Delete(d)
Failures == ListFindError \/ StreamDecodeError \/ StreamError \/ RewatchError \/ RewatchFatal

Next ==
    \/ Writes
    \/ OpenStream \/ CountDocuments \/ ListPage \/ ListDone \/ StreamNext \/ Rewatch
    \/ \E d \in Docs : ListPageError(d)
    \/ Failures
    \/ Crash

Spec == Init /\ [][Next]_vars

-----------------------------------------------------------------------------
(* Properties.                                                             *)

\* The stream is not further than the clock may be ahead, its last event is in the log,
\* pages are whole.
TypeOK ==
    /\ pc \in {"open", "count", "list", "watch", "retry"}
    /\ store \in [Docs -> Values \cup {Absent}]
    /\ tasklist \in [Docs -> Values \cup {Absent, Zero}]
    /\ pos \in 0 .. Len(log) + MaxSkew /\ startAt \in {None} \cup 0 .. Len(log) + MaxSkew
    /\ token \in {None} \cup 1 .. Len(log)
    /\ start % PageSize = 0 /\ start <= End

CaughtUp == pc = "watch" /\ Len(log) <= pos
Excused(d) == \E x \in excused : x.doc = d

\* When the process has read all changes, its copy is the collection: whatever was
\* written while it listed, however often a page was repeated or the stream
\* opened again, and although changes bring older or newer documents than the
\* listing.  Left out are only documents of a page whose query failed, that an
\* insertion or a deletion shifted out of the pages still to come, or of a change
\* that was not decoded, that lay before the point at which the stream was opened
\* again, or that was written before the time at which a stream was opened by a
\* clock ahead of the database's (list_watch.go:34 says so of itself).
CopyIsCollection == CaughtUp => \A d \in Docs : tasklist[d] = store[d] \/ Excused(d)

\* Opening the stream again leaves changes out only after a fatal error, or when the
\* stream broke twice without an event in between.
GapOnlyAfter ==
    [][\A x \in excused' \ excused : x.why = "gap" => fatal \/ breaks > 1]_vars
=============================================================================
