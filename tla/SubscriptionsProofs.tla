-------------------------- MODULE SubscriptionsProofs --------------------------
(***************************************************************************)
(* Proofs about a list-watch and about the subscriptions kept with it.     *)
(* The copy is the collection by an invariant of three parts: what the log *)
(* tells of the collection, what the pages still to come will list, and    *)
(* why a document that is neither in order nor to be listed will be: a     *)
(* change of it lies ahead of the stream.                                  *)
(***************************************************************************)
EXTENDS Subscriptions, SharedLemmas

Changes == [op : {"insert", "update", "delete"}, doc : Docs, val : Values \cup {Absent}]
Reasons == {"shift", "find", "decode", "gap", "clock"}

\* How many pages the lister has passed, and how many there are.
Pages == (cnt + PageSize - 1) \div PageSize
Whole == \E k \in Nat : start = PageSize * k /\ k <= Pages

TypeInv ==
    /\ pc \in {"open", "count", "list", "watch", "retry"}
    /\ store \in [Docs -> Values \cup {Absent}]
    /\ tasklist \in [Docs -> Values \cup {Absent, Zero}]
    /\ log \in Seq(Changes)
    /\ pos \in 0 .. Len(log) + MaxSkew
    /\ startAt \in {None} \cup 0 .. Len(log) + MaxSkew
    /\ token \in {None} \cup 1 .. Len(log)
    /\ cnt \in Nat /\ Whole
    /\ breaks \in Nat /\ fatal \in BOOLEAN /\ (pc = "retry" => breaks >= 1)
    /\ excused \subseteq [doc : Docs, why : Reasons]

\* The last change of a document is how the document is, a change holds a document
\* exactly when it is no deletion, and a deleted document does not come back.
LogTells ==
    \A i \in DOMAIN log :
        /\ log[i].val = Absent <=> log[i].op = "delete"
        /\ log[i].op = "delete" => \A j \in DOMAIN log : j > i => log[j].doc # log[i].doc
        /\ \/ store[log[i].doc] = log[i].val
           \/ \E j \in DOMAIN log : j > i /\ log[j].doc = log[i].doc

\* The documents among some that a page lists before d, and d.
UpTo(S, d) == {c \in S : c <= d}

\* The stream has yet to bring a change of the document.
Coming(d) == \E i \in DOMAIN log : i > pos /\ log[i].doc = d
\* A page to come lists the document.
ToList(d) == store[d] # Absent /\ start < Rank(d) /\ Rank(d) <= End

\* A document of the copy is explained, in each state of the process.
CopyOf(d) ==
    \/ pc = "open"
    \/ Excused(d) \/ Coming(d)
    \/ pc \notin {"count", "list"} /\ tasklist[d] = store[d]
    \/ pc = "list" /\ (tasklist[d] = store[d] \/ ToList(d))
    \/ pc = "count" /\ (tasklist[d] = store[d] \/ store[d] # Absent)
CopyTells == \A d \in Docs : CopyOf(d)
\* Until it lists, it is empty.
Empty == pc \in {"open", "count"} => tasklist = [d \in Docs |-> Absent]

\* The same of the subscriptions, for the documents there are: the deletion of a
\* subscription brings no id to remove it by.
MapOf(d) ==
    \/ pc \in {"open", "count"}
    \/ Excused(d) \/ Coming(d)
    \/ subscriptions[d] = store[d]
    \/ pc = "list" /\ ToList(d)
MapTells == \A d \in Present : MapOf(d)

CopyInv == TypeInv /\ LogTells /\ Empty /\ CopyTells

\* While the stream did not fail fatally it can be opened again where it was: behind
\* its last event, or where it was first opened, which it knows until it has broken
\* and been opened again.
Remembers ==
    /\ pc = "open" => token = None
    /\ token # None => token <= pos
    /\ token = None /\ ~fatal =>
        /\ startAt # None => startAt <= pos
        /\ startAt = None =>
            /\ pc \in {"open", "watch", "retry"}
            /\ pc = "watch" => breaks >= 1
            /\ pc = "retry" => breaks >= 2
GapInv == TypeInv /\ Remembers

\* The routes agree, and only the zero value has an id that is no document's.
MapTypes ==
    /\ subscriptions \in [Ids -> Values \cup {Absent, Zero}]
    /\ subscriptions[NoId] \in {Absent, Zero}
    /\ subscribers \in [Types \cup {NoType} -> SUBSET Ids]
RoutesInv == TypeInv /\ LogTells /\ MapTypes /\ RoutesAgree
MapInv == RoutesInv /\ MapTells

-----------------------------------------------------------------------------
(* Pages.                                                                  *)

\* As many pages as are needed hold all documents that were counted.
LEMMA DivMath ==
  ASSUME NEW P \in Nat \ {0}, NEW c \in Nat
  PROVE  /\ (c + P - 1) \div P \in Nat
         /\ P * ((c + P - 1) \div P) >= c
         /\ P * ((c + P - 1) \div P) <= c + P - 1
<1>1. DEFINE x == c + P - 1
<1>2. x \in Nat
  OBVIOUS
<1>3. x \div P \in Int /\ x % P \in 0 .. P - 1 /\ x = P * (x \div P) + (x % P)
  BY <1>2
<1>4. x \div P \in Nat
  BY <1>2, <1>3
<1> QED BY <1>3, <1>4

\* Multiples of the page size.
LEMMA Multiples ==
  ASSUME NEW P \in Nat \ {0}, NEW k \in Nat, NEW q \in Nat
  PROVE  /\ P * k \in Nat /\ (P * k) % P = 0
         /\ P * k + P = P * (k + 1)
         /\ P * k < P * q => k + 1 <= q
         /\ k <= q => P * k <= P * q
<1>1. P * k \in Nat /\ (P * k) % P = 0 /\ P * k + P = P * (k + 1)
  OBVIOUS
<1>2. P * k < P * q => k + 1 <= q
  OBVIOUS
<1>3. ASSUME k <= q
      PROVE  P * k <= P * q
  <2>1. P * (q - k) >= 0
    BY <1>3
  <2> QED BY <2>1
<1> QED BY <1>1, <1>2, <1>3

\* What TypeInv says of the lister: it is at the start of a page that is not behind
\* the last, all counted documents are before that one's end, and a page begins
\* where there is one more to list.
LEMMA PageFacts ==
  ASSUME cnt \in Nat, Whole
  PROVE  /\ Pages \in Nat /\ End \in Nat /\ End >= cnt
         /\ start \in Nat /\ start % PageSize = 0 /\ start <= End
         /\ start >= cnt => start = End
         /\ start < cnt => start + PageSize <= End
         /\ start < cnt => \E k \in Nat : start + PageSize = PageSize * k /\ k <= Pages
<1>1. PageSize \in Nat \ {0}
  BY PageAssumption
<1>2. /\ Pages \in Nat /\ End = PageSize * Pages
      /\ End >= cnt /\ End <= cnt + PageSize - 1
  BY <1>1, DivMath DEF Pages, End
<1>3. PICK k \in Nat : start = PageSize * k /\ k <= Pages
  BY DEF Whole
<1>4. /\ start \in Nat /\ start % PageSize = 0 /\ start <= End
      /\ start + PageSize = PageSize * (k + 1)
      /\ start < End => k + 1 <= Pages
  BY <1>1, <1>2, <1>3, Multiples
<1>5. End \in Nat
  BY <1>1, <1>2, Multiples
<1>6. ASSUME start < cnt
      PROVE  /\ start + PageSize <= End
             /\ start + PageSize = PageSize * (k + 1) /\ k + 1 <= Pages
  <2>1. k + 1 <= Pages
    BY <1>2, <1>4, <1>5, <1>6
  <2>2. PageSize * (k + 1) <= PageSize * Pages
    BY <1>1, <1>2, <2>1, Multiples
  <2> QED BY <1>2, <1>4, <2>1, <2>2
<1>7. ASSUME start >= cnt, start # End
      PROVE  FALSE
  <2>1. k + 1 <= Pages
    BY <1>4, <1>5, <1>7
  <2>2. PageSize * (k + 1) <= PageSize * Pages
    BY <1>1, <1>2, <2>1, Multiples
  <2> QED BY <1>1, <1>2, <1>4, <1>5, <1>7, <2>2
<1> QED BY <1>2, <1>3, <1>4, <1>5, <1>6, <1>7

-----------------------------------------------------------------------------
(* Types.                                                                  *)

\* The documents that are present are finitely many.
LEMMA PresentFinite ==
  /\ MaxDocs \in Nat /\ Docs \in SUBSET Nat
  /\ IsFiniteSet(Present) /\ Cardinality(Present) \in Nat
<1>1. MaxDocs \in Nat
  BY BoundsAssumption
<1>2. Present \in SUBSET (0 .. MaxDocs) /\ Docs \in SUBSET Nat
  BY <1>1 DEF Present, Docs
<1> QED BY <1>1, <1>2, BoundedFinite

\* The lister is where it was when its variables are.
LEMMA WholeKept == Whole /\ UNCHANGED lister => Whole'
  BY DEF Whole, Pages, lister

\* What is excused is a document with a reason.
LEMMA ExcuseType ==
  ASSUME NEW D \in SUBSET Docs, NEW why \in Reasons, NEW X \in SUBSET [doc : Docs, why : Reasons]
  PROVE  X \cup [doc : D, why : {why}] \in SUBSET [doc : Docs, why : Reasons]
  OBVIOUS

\* Initially every variable has its type.
LEMMA TypeInit == Init => TypeInv
<1> SUFFICES ASSUME Init PROVE TypeInv
  OBVIOUS
<1>1. Whole
  <2>1. Pages \in Nat
    BY PageAssumption, DivMath DEF Init, Pages
  <2>2. start = PageSize * 0
    BY PageAssumption DEF Init
  <2> QED BY <2>1, <2>2 DEF Whole
<1>2. log \in Seq(Changes) /\ Len(log) = 0 /\ MaxSkew \in Nat
  BY EmptySeq, BoundsAssumption DEF Init
<1>3. /\ store \in [Docs -> Values \cup {Absent}]
      /\ tasklist \in [Docs -> Values \cup {Absent, Zero}]
      /\ pc = "open" /\ pos = 0 /\ startAt = None /\ token = None
      /\ cnt = 0 /\ breaks = 0 /\ excused = {}
  BY DEF Init
<1>4. fatal \in BOOLEAN
  BY DEF Init
<1> QED BY <1>1, <1>2, <1>3, <1>4 DEF TypeInv

\* A write appends a change to the log, which has the type of one.
LEMMA TypeWrite ==
  ASSUME TypeInv, NEW d \in Docs, NEW op \in {"insert", "update", "delete"},
         NEW v \in Values \cup {Absent}, NEW D \in SUBSET Docs, Write(d, op, v, D)
  PROVE  TypeInv'
<1>1. [op |-> op, doc |-> d, val |-> v] \in Changes
  BY DEF Changes
<1>2. log' \in Seq(Changes) /\ Len(log') = Len(log) + 1 /\ Len(log) \in Nat /\ MaxSkew \in Nat
  BY <1>1, AppendProperties, LenProperties, BoundsAssumption DEF Write, TypeInv
<1>3. store' \in [Docs -> Values \cup {Absent}]
  BY DEF Write, TypeInv
<1>4. Whole'
  BY WholeKept DEF Write, TypeInv
<1>5. /\ pos' \in 0 .. Len(log') + MaxSkew
      /\ startAt' \in {None} \cup 0 .. Len(log') + MaxSkew
      /\ token' \in {None} \cup 1 .. Len(log')
  BY <1>2 DEF Write, TypeInv, stream
<1>6. excused' \in SUBSET [doc : Docs, why : Reasons]
  <2>1. Hidden(d) \in SUBSET Docs
    BY DEF Hidden
  <2>2. excused \cup [doc : D, why : {"shift"}] \in SUBSET [doc : Docs, why : Reasons]
    BY ExcuseType DEF TypeInv, Reasons
  <2>3. excused \cup [doc : D, why : {"shift"}] \cup [doc : Hidden(d), why : {"clock"}]
            \in SUBSET [doc : Docs, why : Reasons]
    BY <2>1, <2>2, ExcuseType DEF Reasons
  <2> QED BY <2>3 DEF Write
<1> QED BY <1>2, <1>3, <1>4, <1>5, <1>6 DEF Write, TypeInv, stream, lister

\* What a write shifts are documents.
LEMMA ShiftedDocs ==
  \A d \in Docs : PushedOut(d) \in SUBSET Docs /\ PulledBack(d) \in SUBSET Docs
  BY DEF PushedOut, PulledBack, Present

\* Insertions, updates and deletions are such writes.
LEMMA TypeWrites == TypeInv /\ Writes => TypeInv'
<1> SUFFICES ASSUME TypeInv, NEW d \in Docs,
                    (\E v \in Values : Insert(d, v) \/ Update(d, v)) \/ Delete(d)
             PROVE  TypeInv'
  BY DEF Writes
<1>1. ASSUME NEW v \in Values, Insert(d, v) PROVE TypeInv'
  BY <1>1, ShiftedDocs, TypeWrite DEF Insert
<1>2. ASSUME NEW v \in Values, Update(d, v) PROVE TypeInv'
  BY <1>2, TypeWrite DEF Update
<1>3. ASSUME Delete(d) PROVE TypeInv'
  BY <1>3, ShiftedDocs, TypeWrite DEF Delete
<1> QED BY <1>1, <1>2, <1>3

\* The document that comes with a change is a value, or none.
LEMMA DocumentType ==
  ASSUME TypeInv, NEW e \in Changes
  PROVE  /\ Document(e) \in Values \cup {Absent, Zero}
         /\ e.doc \in Docs
         /\ e.op = "delete" => Document(e) = Zero
         /\ e.op = "insert" => Document(e) = e.val
         /\ e.op = "update" =>
                Document(e) = IF store[e.doc] = Absent THEN Zero ELSE store[e.doc]
  BY DEF TypeInv, Changes, Document

\* The lister lists pages of the collection.
LEMMA TypeLists ==
  ASSUME TypeInv,
         \/ CountDocuments \/ ListPage \/ ListFindError \/ ListDone
         \/ \E d \in Docs : ListPageError(d)
  PROVE  TypeInv'
<1>1. Page \in SUBSET Docs
  BY DEF Page, Present
<1>2. \A D \in SUBSET Docs : ReceivePage(D) => tasklist' \in [Docs -> Values \cup {Absent, Zero}]
  BY DEF ReceivePage, AddTasks, TypeInv
<1>3. ASSUME CountDocuments PROVE TypeInv'
  <2>1. cnt' \in Nat /\ start' = PageSize * 0
    BY <1>3, PresentFinite, PageAssumption DEF CountDocuments
  <2>2. Pages' \in Nat
    BY <2>1, PageAssumption, DivMath DEF Pages
  <2>3. Whole'
    BY <2>1, <2>2 DEF Whole
  <2> QED BY <1>3, <2>1, <2>3 DEF CountDocuments, TypeInv, collection, stream
<1>4. ASSUME ListPage \/ ListFindError PROVE Whole'
  <2>1. \E k \in Nat : start' = PageSize * k /\ k <= Pages
    BY <1>4, PageFacts DEF ListPage, ListFindError, TypeInv
  <2>2. Pages' = Pages
    BY <1>4 DEF Pages, ListPage, ListFindError
  <2> QED BY <2>1, <2>2 DEF Whole
<1>5. ASSUME ListPage PROVE TypeInv'
  BY <1>1, <1>2, <1>4, <1>5 DEF ListPage, TypeInv, collection, stream
<1>6. ASSUME ListFindError PROVE TypeInv'
  <2>1. excused' \in SUBSET [doc : Docs, why : Reasons]
    BY <1>1, <1>6, ExcuseType DEF ListFindError, Excuse, TypeInv, Reasons
  <2> QED BY <1>4, <1>6, <2>1 DEF ListFindError, TypeInv, collection, stream
<1>7. ASSUME ListDone PROVE TypeInv'
  BY <1>7, WholeKept DEF ListDone, TypeInv, collection, stream, lister
<1>8. ASSUME NEW d \in Docs, ListPageError(d) PROVE TypeInv'
  <2>1. {c \in Page : c < d} \in SUBSET Docs
    BY <1>1
  <2> QED BY <1>2, <1>8, <2>1, WholeKept DEF ListPageError, TypeInv, collection, stream, lister
<1> QED BY <1>3, <1>5, <1>6, <1>7, <1>8

\* The stream is opened, read, breaks, and is opened again.
LEMMA TypeStreams ==
  ASSUME TypeInv,
         \/ OpenStream \/ StreamNext \/ StreamDecodeError \/ StreamError
         \/ Rewatch \/ RewatchError \/ RewatchFatal \/ Crash
  PROVE  TypeInv'
<1>1. Len(log) \in Nat /\ MaxSkew \in Nat
  BY LenProperties, BoundsAssumption DEF TypeInv
<1>2. ASSUME OpenStream PROVE TypeInv'
  BY <1>2, WholeKept DEF OpenStream, TypeInv, collection, lister
<1>3. ASSUME pc = "watch", pos < Len(log)
      PROVE  pos + 1 \in DOMAIN log /\ Change \in Changes
  <2>1. pos + 1 \in DOMAIN log
    BY <1>1, <1>3, LenProperties DEF TypeInv
  <2> QED BY <2>1, ElementOfSeq, LenProperties DEF TypeInv, Change
<1>4. ASSUME StreamNext PROVE TypeInv'
  <2>1. Change \in Changes /\ pos + 1 \in 1 .. Len(log)
    BY <1>1, <1>3, <1>4, LenProperties DEF StreamNext, TypeInv
  <2>2. tasklist' \in [Docs -> Values \cup {Absent, Zero}]
    <3>1. CASE Change.op = "delete"
      BY <1>4, <3>1 DEF StreamNext, Receive, DelTask, TypeInv
    <3>2. CASE Change.op # "delete"
      BY <1>4, <2>1, <3>2, DocumentType DEF StreamNext, Receive, AddTasks, TypeInv
    <3> QED BY <3>1, <3>2
  <2>3. pos' \in 0 .. Len(log) + MaxSkew /\ token' \in 1 .. Len(log) /\ log' = log
    BY <1>1, <1>4, <2>1 DEF StreamNext, TypeInv, collection
  <2>4. Whole' /\ breaks' = 0
    BY <1>4, WholeKept DEF StreamNext, TypeInv
  <2>5. fatal' \in BOOLEAN
    BY <1>4 DEF StreamNext
  <2> QED BY <1>4, <2>2, <2>3, <2>4, <2>5 DEF StreamNext, TypeInv, collection, lister
<1>5. ASSUME StreamDecodeError PROVE TypeInv'
  <2>1. {Change.doc} \in SUBSET Docs
    BY <1>3, <1>5 DEF StreamDecodeError, Changes
  <2>2. excused' \in SUBSET [doc : Docs, why : Reasons]
    BY <1>5, <2>1, ExcuseType DEF StreamDecodeError, Excuse, TypeInv, Reasons
  <2> QED BY <1>1, <1>5, <2>2, WholeKept DEF StreamDecodeError, TypeInv, collection, lister
<1>6. ASSUME StreamError PROVE TypeInv'
  BY <1>6, WholeKept DEF StreamError, TypeInv, collection, lister
<1>7. ASSUME Rewatch PROVE TypeInv'
  <2>1. StartOptions \in 0 .. Len(log) + MaxSkew
    BY <1>1 DEF StartOptions, TypeInv
  <2>2. {log[i].doc : i \in (pos + 1 .. StartOptions) \cap DOMAIN log} \in SUBSET Docs
    <3> SUFFICES ASSUME NEW i \in DOMAIN log PROVE log[i].doc \in Docs
      OBVIOUS
    <3>1. i \in 1 .. Len(log)
      BY LenProperties DEF TypeInv
    <3>2. log[i] \in Changes
      BY <3>1, ElementOfSeq DEF TypeInv
    <3> QED BY <3>2 DEF Changes
  <2>3. excused' \in SUBSET [doc : Docs, why : Reasons]
    BY <1>7, <2>2, ExcuseType DEF Rewatch, OpenAt, Excuse, TypeInv, Reasons
  <2> QED BY <1>1, <1>7, <2>1, <2>3, WholeKept DEF Rewatch, OpenAt, TypeInv, collection, lister
<1>8. ASSUME RewatchError PROVE TypeInv'
  BY <1>8, WholeKept DEF RewatchError, TypeInv, collection, lister, stream
<1>9. ASSUME RewatchFatal PROVE TypeInv'
  BY <1>1, <1>9, WholeKept DEF RewatchFatal, TypeInv, collection, lister
<1>10. ASSUME Crash PROVE TypeInv'
  <2>1. cnt' \in Nat /\ start' = PageSize * 0
    BY <1>10, PageAssumption DEF Crash
  <2>2. Pages' \in Nat
    BY <2>1, PageAssumption, DivMath DEF Pages
  <2>3. Whole'
    BY <2>1, <2>2 DEF Whole
  <2>4. fatal' \in BOOLEAN
    BY <1>10 DEF Crash
  <2> QED BY <1>1, <1>10, <2>1, <2>3, <2>4 DEF Crash, TypeInv, collection
<1> QED BY <1>2, <1>4, <1>5, <1>6, <1>7, <1>8, <1>9, <1>10

\* Every step keeps the types.
LEMMA TypeStep == TypeInv /\ [Next]_vars => TypeInv'
<1> SUFFICES ASSUME TypeInv, [Next]_vars PROVE TypeInv'
  OBVIOUS
<1>1. CASE Writes
  BY <1>1, TypeWrites
<1>2. CASE \/ CountDocuments \/ ListPage \/ ListFindError \/ ListDone
           \/ \E d \in Docs : ListPageError(d)
  BY <1>2, TypeLists
<1>3. CASE \/ OpenStream \/ StreamNext \/ StreamDecodeError \/ StreamError
           \/ Rewatch \/ RewatchError \/ RewatchFatal \/ Crash
  BY <1>3, TypeStreams
<1>4. CASE UNCHANGED vars
  BY <1>4, WholeKept DEF vars, collection, lister, stream, TypeInv
<1> QED BY <1>1, <1>2, <1>3, <1>4 DEF Next, Failures

\* The stream is not further than the clock may be ahead, its last event is in the log,
\* and the pages are whole.
THEOREM TypeCorrect == Spec => []TypeOK
<1>1. ASSUME TypeInv PROVE TypeOK
  <2>1. start % PageSize = 0 /\ start <= End
    BY <1>1, PageFacts DEF TypeInv
  <2> QED BY <1>1, <2>1 DEF TypeInv, TypeOK
<1> QED BY <1>1, TypeInit, TypeStep, PTL DEF Spec

-----------------------------------------------------------------------------
(* Where a stream is opened again.                                         *)

\* A stream that is opened where it can be misses no change it has not passed before,
\* unless there was a cause.
LEMMA NoGap ==
  ASSUME GapInv, pc = "retry", ~fatal, ~(breaks > 1)
  PROVE  StartOptions \in Nat /\ StartOptions <= pos
<1>1. Len(log) \in Nat /\ MaxSkew \in Nat
  BY LenProperties, BoundsAssumption DEF GapInv, Remembers, TypeInv
<1>2. CASE token # None
  BY <1>1, <1>2 DEF GapInv, Remembers, TypeInv, StartOptions
<1>3. CASE token = None
  <2>1. startAt # None
    BY <1>3 DEF GapInv, Remembers, TypeInv
  <2> QED BY <1>1, <1>3, <2>1 DEF GapInv, Remembers, TypeInv, StartOptions
<1> QED BY <1>2, <1>3

\* The stream can be opened again where it was, or fails fatally, or breaks twice.
LEMMA GapStep == GapInv /\ [Next]_vars => GapInv'
<1> SUFFICES ASSUME GapInv, [Next]_vars PROVE GapInv'
  OBVIOUS
<1>1. TypeInv' /\ TypeInv /\ Len(log) \in Nat /\ MaxSkew \in Nat
  BY TypeStep, LenProperties, BoundsAssumption DEF GapInv, Remembers, TypeInv
<1>2. SUFFICES Remembers'
  BY <1>1 DEF GapInv
<1>3. Remembers
  BY DEF GapInv
<1>4. ASSUME Writes \/ StreamDecodeError \/ RewatchError \/ UNCHANGED vars PROVE Remembers'
  <2>1. /\ pos' = pos \/ pos' = pos + 1
        /\ UNCHANGED << pc, token, startAt, breaks, fatal >>
    BY <1>4 DEF Writes, Insert, Update, Delete, Write, StreamDecodeError, RewatchError,
                stream, vars
  <2> QED BY <1>1, <1>3, <2>1 DEF Remembers, TypeInv
<1>5. ASSUME OpenStream \/ CountDocuments \/ ListPage \/ ListFindError \/ ListDone
             \/ (\E d \in Docs : ListPageError(d))
      PROVE  Remembers'
  <2>1. CASE OpenStream
    BY <1>1, <1>3, <2>1 DEF Remembers, OpenStream, TypeInv, None
  <2>2. CASE CountDocuments \/ ListPage \/ ListFindError \/ ListDone
             \/ (\E d \in Docs : ListPageError(d))
    <3>1. /\ UNCHANGED << pos, token, startAt, breaks, fatal >>
          /\ pc \in {"count", "list"} /\ pc' \in {"list", "watch"}
      BY <2>2 DEF CountDocuments, ListPage, ListFindError, ListDone, ListPageError, stream
    <3> QED BY <1>1, <1>3, <3>1 DEF Remembers
  <2> QED BY <1>5, <2>1, <2>2
<1>6. ASSUME StreamNext PROVE Remembers'
  BY <1>1, <1>6 DEF StreamNext, Remembers, TypeInv, None
<1>7. ASSUME StreamError PROVE Remembers'
  BY <1>1, <1>3, <1>7 DEF StreamError, Remembers, TypeInv
<1>8. ASSUME Rewatch PROVE Remembers'
  <2>1. pc = "retry" /\ pos' = StartOptions /\ startAt' = None /\ pc' = "watch"
        /\ UNCHANGED << token, breaks, fatal >>
    BY <1>8 DEF Rewatch, OpenAt
  <2>2. CASE token # None
    BY <1>1, <2>1, <2>2 DEF Remembers, StartOptions, TypeInv
  <2>3. CASE token = None
    BY <1>1, <2>1, <2>3 DEF Remembers, TypeInv
  <2> QED BY <2>2, <2>3
<1>9. ASSUME RewatchFatal PROVE Remembers'
  BY <1>9 DEF RewatchFatal, Remembers
<1>10. ASSUME Crash PROVE Remembers'
  BY <1>10 DEF Crash, Remembers
<1> QED BY <1>4, <1>5, <1>6, <1>7, <1>8, <1>9, <1>10 DEF Next, Failures

\* A process that starts may open its stream anywhere.
LEMMA GapInit == Init => GapInv
  BY TypeInit DEF GapInv, Remembers, Init

\* Opening the stream again leaves changes out only after a fatal error, or when it
\* broke twice without an event in between.
THEOREM GapsHaveCauses == Spec => GapOnlyAfter
<1>1. ASSUME GapInv, [Next]_vars
      PROVE  [\A x \in excused' \ excused : x.why = "gap" => fatal \/ breaks > 1]_vars
  <2>1. SUFFICES ASSUME NEW x \in excused' \ excused, x.why = "gap", ~fatal, ~(breaks > 1)
                 PROVE  FALSE
    BY Zenon
  <2>2. \A D, why : Excuse(D, why) => x.why = why /\ x.doc \in D
    <3> SUFFICES ASSUME NEW D, NEW why, Excuse(D, why) PROVE x.why = why /\ x.doc \in D
      OBVIOUS
    <3>1. x \in [doc : D, why : {why}]
      BY <2>1 DEF Excuse
    <3> QED BY <3>1
  <2>3. ASSUME NEW why \in {"find", "decode"}, NEW D, Excuse(D, why) PROVE FALSE
    BY <2>1, <2>2, <2>3
  <2>4. CASE Rewatch
    <3>1. /\ Excuse({log[i].doc : i \in (pos + 1 .. StartOptions) \cap DOMAIN log}, "gap")
          /\ pc = "retry"
      BY <2>4 DEF Rewatch, OpenAt
    <3>2. x.doc \in {log[i].doc : i \in (pos + 1 .. StartOptions) \cap DOMAIN log}
      BY <2>2, <3>1
    <3>3. pos + 1 .. StartOptions = {}
      BY <1>1, <2>1, <3>1, NoGap DEF GapInv, Remembers, TypeInv
    <3> QED BY <3>2, <3>3
  <2>5. CASE Writes
    <3>1. PICK d, D : excused' = excused \cup [doc : D, why : {"shift"}]
                                        \cup [doc : Hidden(d), why : {"clock"}]
      BY <2>5 DEF Writes, Insert, Update, Delete, Write
    <3>2. x \in [doc : D, why : {"shift"}] \/ x \in [doc : Hidden(d), why : {"clock"}]
      BY <2>1, <3>1
    <3> QED BY <2>1, <3>2
  <2>7. CASE ListFindError \/ StreamDecodeError
    <3>1. \E D : Excuse(D, "find") \/ Excuse(D, "decode")
      BY <2>7, Zenon DEF ListFindError, StreamDecodeError
    <3> QED BY <2>3, <3>1
  <2>6. CASE \/ OpenStream \/ CountDocuments \/ ListPage \/ ListDone \/ StreamNext
             \/ \E d \in Docs : ListPageError(d)
             \/ StreamError \/ RewatchError \/ RewatchFatal \/ Crash \/ UNCHANGED vars
    <3>1. excused' = excused \/ excused' = {}
      BY <2>6 DEF OpenStream, CountDocuments, ListPage, ListDone, StreamNext, ListPageError,
                  StreamError, RewatchError, RewatchFatal, Crash, vars
    <3> QED BY <2>1, <3>1
  <2> QED BY <1>1, <2>4, <2>5, <2>6, <2>7 DEF Next, Failures
<1> QED BY <1>1, GapInit, GapStep, PTL DEF Spec, GapOnlyAfter

-----------------------------------------------------------------------------
(* Ranks.                                                                  *)

\* A set of documents up to one of them is finite.
LEMMA UpToFinite ==
  ASSUME NEW S \in SUBSET Docs, NEW d
  PROVE  IsFiniteSet(UpTo(S, d)) /\ Cardinality(UpTo(S, d)) \in Nat
<1>1. MaxDocs \in Nat /\ S \in SUBSET (0 .. MaxDocs)
  BY BoundsAssumption DEF Docs
<1>2. UpTo(S, d) \in SUBSET (0 .. MaxDocs)
  BY <1>1 DEF UpTo
<1> QED BY <1>1, <1>2, BoundedFinite

\* One more document raises the rank of those behind it by one.
LEMMA RankInsert ==
  ASSUME NEW S \in SUBSET Docs, NEW x \in Docs, x \notin S, NEW d \in Docs
  PROVE  Cardinality(UpTo(S \cup {x}, d)) =
             IF x <= d THEN Cardinality(UpTo(S, d)) + 1 ELSE Cardinality(UpTo(S, d))
<1>1. CASE x <= d
  <2>1. UpTo(S \cup {x}, d) = UpTo(S, d) \cup {x} /\ x \notin UpTo(S, d)
    BY <1>1 DEF UpTo
  <2>2. Cardinality(UpTo(S, d) \cup {x}) = Cardinality(UpTo(S, d)) + 1
    BY <2>1, UpToFinite, FS_AddElement
  <2> QED BY <1>1, <2>1, <2>2
<1>2. CASE ~(x <= d)
  <2>1. UpTo(S \cup {x}, d) = UpTo(S, d)
    BY <1>2 DEF UpTo
  <2> QED BY <1>2, <2>1
<1> QED BY <1>1, <1>2

\* One less lowers it by one.
LEMMA RankRemove ==
  ASSUME NEW S \in SUBSET Docs, NEW x \in S, NEW d \in Docs
  PROVE  Cardinality(UpTo(S \ {x}, d)) =
             IF x <= d THEN Cardinality(UpTo(S, d)) - 1 ELSE Cardinality(UpTo(S, d))
<1>1. DEFINE T == S \ {x}
<1>2. T \in SUBSET Docs /\ x \in Docs /\ x \notin T /\ T \cup {x} = S
  OBVIOUS
<1>3. Cardinality(UpTo(T, d)) \in Nat
  BY <1>2, UpToFinite
<1>4. Cardinality(UpTo(S, d)) =
          IF x <= d THEN Cardinality(UpTo(T, d)) + 1 ELSE Cardinality(UpTo(T, d))
  <2> HIDE DEF T
  <2> QED BY <1>2, RankInsert
<1> QED BY <1>3, <1>4

\* Ranks follow the order of the documents, from 1 to their number.
LEMMA RankOrder ==
  ASSUME NEW S \in SUBSET Docs, NEW d \in S
  PROVE  /\ Cardinality(UpTo(S, d)) >= 1
         /\ IsFiniteSet(S) /\ Cardinality(UpTo(S, d)) <= Cardinality(S)
         /\ \A x \in S : x < d => Cardinality(UpTo(S, x)) < Cardinality(UpTo(S, d))
<1>1. MaxDocs \in Nat /\ S \in SUBSET (0 .. MaxDocs) /\ Docs \in SUBSET Nat
  BY BoundsAssumption DEF Docs
<1>2. IsFiniteSet(S) /\ Cardinality(S) \in Nat
  BY <1>1, BoundedFinite
<1>3. IsFiniteSet(UpTo(S, d)) /\ Cardinality(UpTo(S, d)) \in Nat /\ d \in UpTo(S, d)
  BY <1>1, UpToFinite DEF UpTo
<1>4. Cardinality(UpTo(S, d)) # 0
  BY <1>3, FS_EmptySet
<1>5. UpTo(S, d) \in SUBSET S
  BY DEF UpTo
<1>6. Cardinality(UpTo(S, d)) <= Cardinality(S)
  BY <1>2, <1>5, FS_Subset
<1>7. ASSUME NEW x \in S, x < d
      PROVE  Cardinality(UpTo(S, x)) < Cardinality(UpTo(S, d))
  <2>n. S \in SUBSET Nat /\ x \in Nat /\ d \in Nat
    BY <1>1
  <2>a. ~(d <= x) /\ \A c \in S : c <= x => c <= d
    BY <1>7, <2>n
  <2>1. UpTo(S, x) \in SUBSET UpTo(S, d) /\ d \notin UpTo(S, x)
    BY <2>a DEF UpTo
  <2>2. /\ Cardinality(UpTo(S, x)) \in Nat
        /\ Cardinality(UpTo(S, x)) <= Cardinality(UpTo(S, d))
        /\ Cardinality(UpTo(S, d)) = Cardinality(UpTo(S, x)) => UpTo(S, d) = UpTo(S, x)
    BY <1>3, <2>1, UpToFinite, FS_Subset
  <2> QED BY <1>3, <2>1, <2>2
<1> QED BY <1>2, <1>3, <1>4, <1>6, <1>7

\* The rank of a document is counted in the set of those there are.
LEMMA RankIs == Present \in SUBSET Docs /\ \A d : Rank(d) = Cardinality(UpTo(Present, d))
  BY DEF Present, Rank, UpTo

-----------------------------------------------------------------------------
(* The log.                                                                *)

\* A write of a document that is there, or never was, keeps the log telling.
LEMMA LogWrite ==
  ASSUME TypeInv, LogTells, NEW d \in Docs, NEW op \in {"insert", "update", "delete"},
         NEW v \in Values \cup {Absent}, NEW D, Write(d, op, v, D), v = Absent <=> op = "delete",
         (\A i \in DOMAIN log : log[i].doc # d) \/ store[d] # Absent
  PROVE  /\ LogTells'
         /\ Len(log') = Len(log) + 1 /\ Len(log) \in Nat
         /\ \A i \in DOMAIN log : i \in DOMAIN log' /\ log'[i] = log[i]
         /\ Len(log) + 1 \in DOMAIN log' /\ log'[Len(log) + 1].doc = d
<1>1. DEFINE e == [op |-> op, doc |-> d, val |-> v]
             n == Len(log)
<1>2. e \in Changes /\ e.op = op /\ e.doc = d /\ e.val = v
  BY DEF Changes
<1>3. /\ n \in Nat /\ Len(log') = n + 1 /\ DOMAIN log = 1 .. n /\ DOMAIN log' = 1 .. n + 1
      /\ \A i \in 1 .. n : log'[i] = log[i]
      /\ log'[n + 1] = e
  BY <1>2, AppendProperties, LenProperties DEF Write, TypeInv
<1>4. /\ store'[d] = v /\ \A c \in Docs : c # d => store'[c] = store[c]
  BY DEF Write, TypeInv
<1>5. \A i \in 1 .. n : log[i].doc \in Docs
  <2> SUFFICES ASSUME NEW i \in 1 .. n PROVE log[i].doc \in Docs
    OBVIOUS
  <2>1. log[i] \in Changes
    BY ElementOfSeq DEF TypeInv
  <2> QED BY <2>1 DEF Changes
<1> HIDE DEF e, n
<1>6. ASSUME NEW i \in 1 .. n, log[i].op = "delete" PROVE log[i].doc # d
  BY <1>3, <1>6 DEF LogTells
<1>7. LogTells'
  <2> SUFFICES ASSUME NEW i \in DOMAIN log'
               PROVE  /\ log'[i].val = Absent <=> log'[i].op = "delete"
                      /\ log'[i].op = "delete" =>
                             \A j \in DOMAIN log' : j > i => log'[j].doc # log'[i].doc
                      /\ \/ store'[log'[i].doc] = log'[i].val
                         \/ \E j \in DOMAIN log' : j > i /\ log'[j].doc = log'[i].doc
    BY DEF LogTells
  <2>1. CASE i = n + 1
    BY <1>2, <1>3, <1>4, <2>1
  <2>2. CASE i \in 1 .. n
    <3>1. log'[i] = log[i]
      BY <1>3, <2>2
    <3>2. log[i].val = Absent <=> log[i].op = "delete"
      BY <1>3, <2>2 DEF LogTells
    <3>3. ASSUME log[i].op = "delete", NEW j \in DOMAIN log', j > i
          PROVE  log'[j].doc # log[i].doc
      BY <1>2, <1>3, <1>6, <2>2, <3>3 DEF LogTells
    <3>4. \/ store'[log[i].doc] = log[i].val
          \/ \E j \in DOMAIN log' : j > i /\ log'[j].doc = log[i].doc
      <4>1. CASE log[i].doc = d
        BY <1>2, <1>3, <2>2, <4>1
      <4>2. CASE log[i].doc # d
        <5>1. store'[log[i].doc] = store[log[i].doc]
          BY <1>4, <1>5, <2>2, <4>2
        <5>2. \/ store[log[i].doc] = log[i].val
              \/ \E j \in 1 .. n : j > i /\ log[j].doc = log[i].doc
          BY <1>3, <2>2 DEF LogTells
        <5> QED BY <1>3, <5>1, <5>2
      <4> QED BY <4>1, <4>2
    <3> QED BY <3>1, <3>2, <3>3, <3>4
  <2> QED BY <1>3, <2>1, <2>2
<1> QED BY <1>2, <1>3, <1>7 DEF n

\* Every write is such a write.
LEMMA WritesWrite ==
  ASSUME TypeInv, Writes
  PROVE  \E d \in Docs, op \in {"insert", "update", "delete"}, v \in Values \cup {Absent},
            D \in SUBSET Docs :
            /\ Write(d, op, v, D)
            /\ v = Absent <=> op = "delete"
            /\ (\A i \in DOMAIN log : log[i].doc # d) \/ store[d] # Absent
            /\ op = "insert" => Insert(d, v) /\ D = PushedOut(d)
            /\ op = "update" => Update(d, v)
            /\ op = "delete" => Delete(d) /\ D = PulledBack(d)
<1>1. \A v \in Values : v # Absent
  BY ValuesAssumption
<1>2. PICK d \in Docs : (\E v \in Values : Insert(d, v) \/ Update(d, v)) \/ Delete(d)
  BY DEF Writes
<1>3. ASSUME NEW v \in Values, Insert(d, v)
      PROVE  Write(d, "insert", v, PushedOut(d)) /\ \A i \in DOMAIN log : log[i].doc # d
  BY <1>3 DEF Insert
<1>4. ASSUME NEW v \in Values, Update(d, v)
      PROVE  Write(d, "update", v, {}) /\ store[d] # Absent
  BY <1>4 DEF Update
<1>5. ASSUME Delete(d)
      PROVE  Write(d, "delete", Absent, PulledBack(d)) /\ store[d] # Absent
  BY <1>5 DEF Delete
<1>6. PushedOut(d) \in SUBSET Docs /\ PulledBack(d) \in SUBSET Docs /\ {} \in SUBSET Docs
  BY ShiftedDocs
<1>7. CASE \E v \in Values : Insert(d, v)
  <2>1. PICK v \in Values : Insert(d, v)
    BY <1>7
  <2> QED BY <1>1, <1>3, <1>6, <2>1
<1>8. CASE \E v \in Values : Update(d, v)
  <2>1. PICK v \in Values : Update(d, v)
    BY <1>8
  <2> QED BY <1>1, <1>4, <1>6, <2>1
<1>9. CASE Delete(d)
  BY <1>5, <1>6, <1>9
<1> QED BY <1>2, <1>7, <1>8, <1>9

\* The log tells of the collection after every step.
LEMMA LogStep == TypeInv /\ LogTells /\ [Next]_vars => LogTells'
<1> SUFFICES ASSUME TypeInv, LogTells, [Next]_vars PROVE LogTells'
  OBVIOUS
<1>1. CASE Writes
  BY <1>1, WritesWrite, LogWrite
<1>2. CASE ~Writes
  <2>1. log' = log /\ store' = store
    BY <1>2 DEF Next, vars, collection, OpenStream, CountDocuments, ListPage, ListDone,
                StreamNext, Rewatch, ListPageError, Failures, ListFindError,
                StreamDecodeError, StreamError, RewatchError, RewatchFatal, Crash
  <2> QED BY <2>1 DEF LogTells
<1> QED BY <1>1, <1>2

\* The document that comes with a change is how the document now is, unless there is
\* a later change of it.
LEMMA ChangeTells ==
  ASSUME TypeInv, LogTells, pos < Len(log)
  PROVE  /\ Change \in Changes /\ Change.doc \in Docs
         /\ \/ \E j \in DOMAIN log : j > pos + 1 /\ log[j].doc = Change.doc
            \/ Change.op = "delete" /\ store[Change.doc] = Absent
            \/ /\ Change.op # "delete" /\ store[Change.doc] # Absent
               /\ Document(Change) = store[Change.doc]
<1>1. pos + 1 \in DOMAIN log /\ pos + 1 \in 1 .. Len(log)
  BY LenProperties DEF TypeInv
<1>2. Change \in Changes
  BY <1>1, ElementOfSeq DEF TypeInv, Change
<1>3. /\ Change.val = Absent <=> Change.op = "delete"
      /\ \/ store[Change.doc] = Change.val
         \/ \E j \in DOMAIN log : j > pos + 1 /\ log[j].doc = Change.doc
  BY <1>1 DEF LogTells, Change
<1>4. /\ Change.op \in {"insert", "update", "delete"} /\ Change.doc \in Docs
      /\ Change.op = "insert" => Document(Change) = Change.val
      /\ Change.op = "update" =>
             Document(Change) = IF store[Change.doc] = Absent THEN Zero ELSE store[Change.doc]
  BY <1>2, DocumentType DEF Changes
<1> QED BY <1>2, <1>3, <1>4

-----------------------------------------------------------------------------
(* The pages still to come.                                                *)

\* What a write leaves to be listed, it leaves to be listed, or excuses.
LEMMA WriteLists ==
  ASSUME TypeInv, LogTells, Writes, NEW d \in Docs
  PROVE  /\ UNCHANGED << pc, tasklist, start, cnt, pos, token >>
         /\ \/ Coming(d)' \/ Excused(d)'
            \/ /\ store'[d] = store[d] /\ ~Coming(d) /\ ~Excused(d)
               /\ pc = "list" /\ ToList(d) => ToList(d)'
<1>1. PICK x \in Docs, op \in {"insert", "update", "delete"}, v \in Values \cup {Absent},
            D \in SUBSET Docs :
            /\ Write(x, op, v, D)
            /\ v = Absent <=> op = "delete"
            /\ (\A i \in DOMAIN log : log[i].doc # x) \/ store[x] # Absent
            /\ op = "insert" => Insert(x, v) /\ D = PushedOut(x)
            /\ op = "update" => Update(x, v)
            /\ op = "delete" => Delete(x) /\ D = PulledBack(x)
  BY WritesWrite
<1>2. /\ Len(log') = Len(log) + 1 /\ Len(log) \in Nat
      /\ \A i \in DOMAIN log : i \in DOMAIN log' /\ log'[i] = log[i]
      /\ Len(log) + 1 \in DOMAIN log' /\ log'[Len(log) + 1].doc = x
  BY <1>1, LogWrite
<1>3. UNCHANGED << pc, tasklist, start, cnt, pos, token >>
  BY <1>1 DEF Write, lister, stream
<1>4. ASSUME x = d PROVE Coming(d)' \/ Excused(d)'
  <2>1. CASE Len(log) < pos
    <3>1. [doc |-> d, why |-> "clock"] \in excused'
      BY <1>1, <1>4, <2>1 DEF Write, Hidden
    <3> QED BY <3>1 DEF Excused
  <2>2. CASE ~(Len(log) < pos)
    <3>1. pos \in Int
      BY <1>2, BoundsAssumption DEF TypeInv
    <3> QED BY <1>2, <1>3, <1>4, <2>2, <3>1 DEF Coming
  <2> QED BY <2>1, <2>2
<1>5. Coming(d) => Coming(d)'
  BY <1>2, <1>3 DEF Coming
<1>6. excused \subseteq excused'
  BY <1>1 DEF Write
<1>7. Excused(d) => Excused(d)'
  BY <1>6 DEF Excused
<1>8. ASSUME x # d, pc = "list", ToList(d), ~Excused(d)'
      PROVE  ToList(d)'
  <2>1. /\ store' = [store EXCEPT ![x] = v] /\ store \in [Docs -> Values \cup {Absent}]
        /\ store'[d] = store[d] /\ store[d] # Absent
    BY <1>1, <1>8 DEF Write, TypeInv, ToList
  <2>2. /\ Present \in SUBSET Docs /\ \A c : Rank(c) = Cardinality(UpTo(Present, c))
        /\ Present' = {c \in Docs : store'[c] # Absent}
        /\ Rank(d)' = Cardinality(UpTo(Present', d))
        /\ d \in Present
    BY <2>1 DEF Present, Rank, UpTo
  <2>3. /\ Rank(d) \in Nat /\ start \in Nat /\ End \in Nat
        /\ start < Rank(d) /\ Rank(d) <= End
        /\ End' = End /\ start' = start /\ x \in Nat /\ d \in Nat
    <3>1. Rank(d) \in Nat
      BY <2>2, UpToFinite
    <3>2. start \in Nat /\ End \in Nat
      BY PageFacts DEF TypeInv
    <3>3. End' = End
      BY <1>3 DEF End
    <3> QED BY <1>3, <1>8, <3>1, <3>2, <3>3, PresentFinite DEF ToList
  <2>4. SUFFICES start < Rank(d)' /\ Rank(d)' <= End
    BY <2>1, <2>3 DEF ToList
  <2>5. d \notin D
    <3> SUFFICES ASSUME d \in D PROVE FALSE
      OBVIOUS
    <3>1. [doc |-> d, why |-> "shift"] \in excused'
      BY <1>1 DEF Write
    <3> QED BY <1>8, <3>1 DEF Excused
  <2>6. CASE op = "insert"
    <3>1. Insert(x, v) /\ v # Absent
      BY <1>1, <2>6
    <3>2. x \notin Present /\ Present' = Present \cup {x}
      BY <2>1, <2>2, <3>1 DEF Insert, Present
    <3>3. Rank(d)' = IF x <= d THEN Rank(d) + 1 ELSE Rank(d)
      BY <2>2, <3>2, RankInsert
    <3>4. d \notin PushedOut(x)
      BY <1>1, <2>5, <2>6
    <3>5. ~(x < d /\ Rank(d) = End)
      BY <1>8, <2>2, <3>4 DEF PushedOut
    <3> QED BY <1>8, <2>3, <3>3, <3>5
  <2>7. CASE op = "delete"
    <3>1. Delete(x) /\ v = Absent
      BY <1>1, <2>7
    <3>2. x \in Present /\ Present' = Present \ {x}
      BY <2>1, <2>2, <3>1 DEF Delete, Present
    <3>3. Rank(d)' = IF x <= d THEN Rank(d) - 1 ELSE Rank(d)
      BY <2>2, <3>2, RankRemove
    <3>4. d \notin PulledBack(x)
      BY <1>1, <2>5, <2>7
    <3>5. Rank(x) <= start => Rank(d) # start + 1
      BY <1>8, <2>2, <3>4 DEF PulledBack
    <3>6. Rank(x) \in Nat
      BY <2>2, UpToFinite
    <3>7. x < d => Rank(x) < Rank(d)
      BY <2>2, <3>2, RankOrder
    <3> QED BY <1>8, <2>3, <3>3, <3>5, <3>6, <3>7
  <2>8. CASE op = "update"
    <3>1. Update(x, v) /\ v # Absent
      BY <1>1, <2>8
    <3>2. Present' = Present
      BY <2>1, <2>2, <3>1 DEF Update, Present
    <3> QED BY <2>2, <2>3, <3>2
  <2> QED BY <2>6, <2>7, <2>8
<1>9. x # d => store'[d] = store[d]
  BY <1>1 DEF Write, TypeInv
<1> QED BY <1>3, <1>4, <1>5, <1>7, <1>8, <1>9

\* When the documents are counted, all that are there are to be listed.
LEMMA CountLists ==
  ASSUME TypeInv, CountDocuments, NEW d \in Docs, store[d] # Absent
  PROVE  ToList(d)' /\ UNCHANGED << store, log, pos, tasklist, excused >>
<1>1. Present \in SUBSET Docs /\ d \in Present /\ Rank(d) = Cardinality(UpTo(Present, d))
  BY RankIs DEF Present
<1>2. Rank(d) >= 1 /\ Rank(d) <= Cardinality(Present)
  BY <1>1, RankOrder
<1>3. UNCHANGED << store, log, pos, tasklist, excused >>
  BY DEF CountDocuments, collection, stream
<1>4. Rank(d)' = Rank(d)
  BY <1>3 DEF Rank, Present
<1>5. cnt' \in Nat /\ cnt' = Cardinality(Present) /\ start' = 0
  BY PresentFinite DEF CountDocuments
<1>6. End' \in Nat /\ End' >= cnt'
  BY <1>5, PageAssumption, DivMath, Multiples DEF End
<1>7. Rank(d) \in Nat
  BY <1>1, UpToFinite
<1> QED BY <1>2, <1>3, <1>4, <1>5, <1>6, <1>7 DEF ToList

\* What a page does not list, of what is to be listed, is behind it.
LEMMA PageLists ==
  ASSUME TypeInv, pc = "list", start < cnt, NEW d \in Docs, ToList(d)
  PROVE  /\ d \in Page \/ start + PageSize < Rank(d)
         /\ \A c \in Page : c \in Docs /\ store[c] # Absent
<1>1. Rank(d) \in Nat
  BY RankIs, UpToFinite
<1>2. start \in Nat /\ PageSize \in Nat
  BY PageFacts, PageAssumption DEF TypeInv
<1> QED BY <1>1, <1>2 DEF Page, Present, ToList

\* Nothing is left to be listed by a lister that is done.
LEMMA NoneToList ==
  ASSUME TypeInv, start >= cnt, NEW d \in Docs
  PROVE  ~ToList(d)
<1>1. Rank(d) \in Nat
  BY RankIs, UpToFinite
<1>2. start = End /\ start \in Nat
  BY PageFacts DEF TypeInv
<1> QED BY <1>1, <1>2 DEF ToList

-----------------------------------------------------------------------------
(* What explains a document that is not in order.                          *)

\* Steps that leave the log, the stream and what is excused alone.
Quiet == CountDocuments \/ ListPage \/ ListDone \/ (\E d \in Docs : ListPageError(d))
             \/ StreamError \/ RewatchError \/ RewatchFatal

\* A change to come still comes, and a document stays excused, whatever the lister
\* does and when the stream breaks.
LEMMA QuietKeeps ==
  ASSUME Quiet \/ UNCHANGED vars \/ ListFindError, NEW d \in Docs
  PROVE  /\ Coming(d) => Coming(d)'
         /\ Excused(d) => Excused(d)'
         /\ store' = store
<1>1. log' = log /\ pos' = pos /\ store' = store /\ excused \subseteq excused'
  BY DEF Quiet, vars, CountDocuments, ListPage, ListDone, ListPageError, ListFindError, Excuse,
         StreamError, RewatchError, RewatchFatal, collection, stream
<1> QED BY <1>1 DEF Coming, Excused

\* A change that is left out is excused, by the stream that cannot decode it and by
\* the one that is opened behind it.
LEMMA LeftOut ==
  ASSUME TypeInv, StreamDecodeError \/ Rewatch, NEW d \in Docs
  PROVE  /\ Coming(d) => Coming(d)' \/ Excused(d)'
         /\ Excused(d) => Excused(d)'
         /\ UNCHANGED << store, tasklist >>
<1>1. log' = log /\ store' = store /\ tasklist' = tasklist /\ excused \subseteq excused'
  BY DEF StreamDecodeError, Rewatch, OpenAt, Excuse, collection
<1>2. Excused(d) => Excused(d)'
  BY <1>1 DEF Excused
<1>3. \A D, why : Excuse(D, why) /\ d \in D => Excused(d)'
  <2> SUFFICES ASSUME NEW D, NEW why, Excuse(D, why), d \in D PROVE Excused(d)'
    OBVIOUS
  <2>1. [doc |-> d, why |-> why] \in excused'
    BY DEF Excuse
  <2> QED BY <2>1 DEF Excused
<1>4. ASSUME NEW i \in DOMAIN log, i > pos, log[i].doc = d PROVE Coming(d)' \/ Excused(d)'
  <2>1. i \in Nat /\ pos \in Nat /\ pos + 1 \in Nat
    BY LenProperties, BoundsAssumption DEF TypeInv
  <2>2. CASE StreamDecodeError
    <3>1. pos' = pos + 1 /\ Excuse({log[pos + 1].doc}, "decode")
      BY <2>2 DEF StreamDecodeError, Change
    <3>2. CASE i = pos + 1
      BY <1>3, <1>4, <3>1, <3>2
    <3>3. CASE i > pos + 1
      BY <1>1, <1>4, <3>1, <3>3 DEF Coming
    <3> QED BY <1>4, <2>1, <3>2, <3>3
  <2>3. CASE Rewatch
    <3>1. /\ pos' = StartOptions /\ StartOptions \in Int
          /\ Excuse({log[j].doc : j \in (pos + 1 .. StartOptions) \cap DOMAIN log}, "gap")
      BY <2>3, LenProperties, BoundsAssumption
         DEF Rewatch, OpenAt, StartOptions, TypeInv, None
    <3>2. CASE i \in (pos + 1 .. StartOptions) \cap DOMAIN log
      BY <1>3, <1>4, <3>1, <3>2
    <3>3. CASE i > StartOptions
      BY <1>1, <1>4, <3>1, <3>3 DEF Coming
    <3> QED BY <1>4, <2>1, <3>1, <3>2, <3>3
  <2> QED BY <2>2, <2>3
<1> QED BY <1>1, <1>2, <1>4 DEF Coming

\* A change that is read comes no more; those of other documents still do.
LEMMA NextComes ==
  ASSUME TypeInv, LogTells, StreamNext, NEW d \in Docs
  PROVE  /\ Excused(d) => Excused(d)'
         /\ Coming(d) => Coming(d)' \/ d = Change.doc
         /\ d = Change.doc => \/ Coming(d)'
                              \/ Change.op = "delete" /\ store[d] = Absent
                              \/ /\ Change.op # "delete" /\ store[d] # Absent
                                 /\ Document(Change) = store[d]
         /\ UNCHANGED store
<1>1. log' = log /\ store' = store /\ excused' = excused /\ pos' = pos + 1
  BY DEF StreamNext, collection
<1>2. pos < Len(log) /\ pos \in Nat
  BY LenProperties, BoundsAssumption DEF StreamNext, TypeInv
<1>3. ASSUME NEW i \in DOMAIN log, i > pos, log[i].doc = d PROVE Coming(d)' \/ d = Change.doc
  <2>1. i = pos + 1 \/ i > pos + 1
    BY <1>2, <1>3, LenProperties DEF TypeInv
  <2> QED BY <1>1, <1>3, <2>1 DEF Coming, Change
<1>4. d = Change.doc => \/ Coming(d)'
                        \/ Change.op = "delete" /\ store[d] = Absent
                        \/ /\ Change.op # "delete" /\ store[d] # Absent
                           /\ Document(Change) = store[d]
  BY <1>1, <1>2, ChangeTells DEF Coming
<1> QED BY <1>1, <1>3, <1>4 DEF Coming, Excused

-----------------------------------------------------------------------------
(* The copy.                                                               *)

\* Until it lists, a process has no copy.
LEMMA EmptyStep == TypeInv /\ Empty /\ [Next]_vars => Empty'
<1> SUFFICES ASSUME TypeInv, Empty, [Next]_vars PROVE Empty'
  OBVIOUS
<1>1. CASE Crash
  BY <1>1 DEF Crash, Empty
<1>2. CASE Writes
  <2>1. UNCHANGED << pc, tasklist >>
    BY <1>2, WritesWrite DEF Write
  <2> QED BY <2>1 DEF Empty
<1>3. CASE ~Crash /\ ~Writes
  BY <1>3 DEF Next, vars, OpenStream, CountDocuments, ListPage, ListDone, Empty,
                StreamNext, Rewatch, ListPageError, Failures, ListFindError,
                StreamDecodeError, StreamError, RewatchError, RewatchFatal
<1> QED BY <1>1, <1>2, <1>3

\* Every step keeps the copy explained.
LEMMA CopyStep == CopyInv /\ [Next]_vars => CopyInv'
<1> SUFFICES ASSUME CopyInv, [Next]_vars PROVE CopyInv'
  OBVIOUS
<1>1. TypeInv /\ LogTells /\ Empty /\ CopyTells
  BY DEF CopyInv
<1>2. TypeInv' /\ LogTells' /\ Empty'
  BY <1>1, TypeStep, LogStep, EmptyStep
<1>3. SUFFICES ASSUME NEW d \in Docs PROVE CopyOf(d)'
  BY <1>2 DEF CopyInv, CopyTells
<1>4. CopyOf(d) /\ d \in DOMAIN tasklist
  BY <1>1 DEF CopyTells, TypeInv
<1>5. \A D : ReceivePage(D) =>
          tasklist'[d] = IF d \in D THEN store[d] ELSE tasklist[d]
  BY DEF ReceivePage, AddTasks
<1>6. CASE Writes
  <2>1. /\ UNCHANGED << pc, tasklist, start, cnt, pos, token >>
        /\ \/ Coming(d)' \/ Excused(d)'
           \/ /\ store'[d] = store[d] /\ ~Coming(d) /\ ~Excused(d)
              /\ pc = "list" /\ ToList(d) => ToList(d)'
    BY <1>1, <1>6, WriteLists
  <2> QED BY <1>4, <2>1 DEF CopyOf
<1>7. CASE OpenStream
  <2>1. pc' = "count" /\ UNCHANGED << tasklist, store >> /\ pc = "open"
    BY <1>7 DEF OpenStream, collection
  <2>2. tasklist[d] = Absent
    BY <1>1, <2>1 DEF Empty
  <2> QED BY <2>1, <2>2 DEF CopyOf
<1>8. CASE CountDocuments
  <2>1. pc = "count" /\ pc' = "list" /\ UNCHANGED << tasklist, store >>
    BY <1>8 DEF CountDocuments, collection
  <2>2. store[d] # Absent => ToList(d)'
    BY <1>1, <1>8, CountLists
  <2>3. tasklist[d] = Absent
    BY <1>1, <2>1 DEF Empty
  <2> QED BY <2>1, <2>2, <2>3 DEF CopyOf
<1>9. CASE ListPage
  <2>1. /\ pc = "list" /\ pc' = pc /\ start < cnt /\ ReceivePage(Page)
        /\ start' = start + PageSize /\ UNCHANGED << store, cnt >>
    BY <1>9 DEF ListPage, collection
  <2>2. (Coming(d) => Coming(d)') /\ (Excused(d) => Excused(d)')
    BY <1>9, QuietKeeps DEF Quiet
  <2>3. ASSUME ToList(d), d \notin Page PROVE ToList(d)'
    <3>1. start + PageSize < Rank(d)
      BY <1>1, <2>1, <2>3, PageLists
    <3>2. Rank(d)' = Rank(d) /\ End' = End
      BY <2>1 DEF Rank, Present, End
    <3> QED BY <2>1, <2>3, <3>1, <3>2 DEF ToList
  <2> QED BY <1>4, <1>5, <2>1, <2>2, <2>3 DEF CopyOf
<1>10. CASE \E c \in Docs : ListPageError(c)
  <2>1. PICK c \in Docs : ListPageError(c)
    BY <1>10
  <2>2. /\ pc = "list" /\ pc' = pc /\ ReceivePage({b \in Page : b < c})
        /\ UNCHANGED << store, cnt, start >>
    BY <2>1 DEF ListPageError, collection, lister
  <2>3. (Coming(d) => Coming(d)') /\ (Excused(d) => Excused(d)')
    BY <1>10, QuietKeeps DEF Quiet
  <2>4. ToList(d) => ToList(d)'
    BY <2>2 DEF ToList, Rank, Present, End
  <2> QED BY <1>4, <1>5, <2>2, <2>3, <2>4 DEF CopyOf
<1>11. CASE ListFindError
  <2>1. /\ pc = "list" /\ pc' = pc /\ start < cnt /\ Excuse(Page, "find")
        /\ start' = start + PageSize /\ UNCHANGED << store, cnt, tasklist >>
    BY <1>11 DEF ListFindError, collection
  <2>2. (Coming(d) => Coming(d)') /\ (Excused(d) => Excused(d)')
    BY <1>11, QuietKeeps
  <2>3. ASSUME d \in Page PROVE Excused(d)'
    <3>1. [doc |-> d, why |-> "find"] \in excused'
      BY <2>1, <2>3 DEF Excuse
    <3> QED BY <3>1 DEF Excused
  <2>4. ASSUME ToList(d), d \notin Page PROVE ToList(d)'
    <3>1. start + PageSize < Rank(d)
      BY <1>1, <2>1, <2>4, PageLists
    <3>2. Rank(d)' = Rank(d) /\ End' = End
      BY <2>1 DEF Rank, Present, End
    <3> QED BY <2>1, <2>4, <3>1, <3>2 DEF ToList
  <2> QED BY <1>4, <2>1, <2>2, <2>3, <2>4 DEF CopyOf
<1>12. CASE ListDone
  <2>1. pc = "list" /\ pc' = "watch" /\ start >= cnt /\ UNCHANGED << tasklist, store >>
    BY <1>12 DEF ListDone, collection
  <2>2. (Coming(d) => Coming(d)') /\ (Excused(d) => Excused(d)')
    BY <1>12, QuietKeeps DEF Quiet
  <2>3. ~ToList(d)
    BY <1>1, <2>1, NoneToList
  <2> QED BY <1>4, <2>1, <2>2, <2>3 DEF CopyOf
<1>13. CASE StreamNext
  <2>1. pc = "watch" /\ pc' = pc /\ Receive(Change)
    BY <1>13 DEF StreamNext
  <2>2. /\ Excused(d) => Excused(d)'
        /\ Coming(d) => Coming(d)' \/ d = Change.doc
        /\ d = Change.doc => \/ Coming(d)'
                             \/ Change.op = "delete" /\ store[d] = Absent
                             \/ /\ Change.op # "delete" /\ store[d] # Absent
                                /\ Document(Change) = store[d]
        /\ UNCHANGED store
    BY <1>1, <1>13, NextComes
  <2>3. tasklist'[d] = IF d # Change.doc THEN tasklist[d]
                       ELSE IF Change.op = "delete" THEN Absent ELSE Document(Change)
    BY <1>4, <2>1 DEF Receive, DelTask, AddTasks
  <2> QED BY <1>4, <2>1, <2>2, <2>3 DEF CopyOf
<1>14. CASE StreamDecodeError \/ Rewatch
  <2>1. pc \in {"watch", "retry"} /\ pc' \in {"watch", "retry"}
    BY <1>14 DEF StreamDecodeError, Rewatch
  <2>2. /\ Coming(d) => Coming(d)' \/ Excused(d)'
        /\ Excused(d) => Excused(d)'
        /\ UNCHANGED << store, tasklist >>
    BY <1>1, <1>14, LeftOut
  <2> QED BY <1>4, <2>1, <2>2 DEF CopyOf
<1>15. CASE StreamError \/ RewatchError \/ RewatchFatal
  <2>1. pc \in {"watch", "retry"} /\ pc' \in {"watch", "retry"} /\ tasklist' = tasklist
    BY <1>15 DEF StreamError, RewatchError, RewatchFatal
  <2>2. (Coming(d) => Coming(d)') /\ (Excused(d) => Excused(d)') /\ store' = store
    BY <1>15, QuietKeeps DEF Quiet
  <2> QED BY <1>4, <2>1, <2>2 DEF CopyOf
<1>16. CASE Crash
  BY <1>16 DEF Crash, CopyOf
<1>17. CASE UNCHANGED vars
  <2>1. UNCHANGED << pc, tasklist, start, cnt >>
    BY <1>17 DEF vars, lister
  <2>2. (Coming(d) => Coming(d)') /\ (Excused(d) => Excused(d)') /\ store' = store
    BY <1>17, QuietKeeps
  <2>3. ToList(d) => ToList(d)'
    BY <2>1, <2>2 DEF ToList, Rank, Present, End
  <2> QED BY <1>4, <2>1, <2>2, <2>3 DEF CopyOf
<1> QED BY <1>6, <1>7, <1>8, <1>9, <1>10, <1>11, <1>12, <1>13, <1>14, <1>15, <1>16, <1>17
        DEF Next, Failures

\* A process that starts has no copy.
LEMMA CopyInit == Init => CopyInv
<1> SUFFICES ASSUME Init PROVE CopyInv
  OBVIOUS
<1>1. DOMAIN log = {}
  BY DEF Init
<1> QED BY <1>1, TypeInit DEF Init, CopyInv, LogTells, Empty, CopyTells, CopyOf

\* A process that has read all changes expects none.
LEMMA NoneComing ==
  ASSUME TypeInv, CaughtUp, NEW d \in Docs
  PROVE  ~Coming(d) /\ pc = "watch"
  BY LenProperties, BoundsAssumption DEF TypeInv, CaughtUp, Coming

\* When the process has read all changes its copy is the collection, but for the documents
\* that a cause left out.
THEOREM CopyIsRight == Spec => []CopyIsCollection
<1>1. ASSUME CopyInv PROVE CopyIsCollection
  BY <1>1, NoneComing DEF CopyInv, CopyTells, CopyOf, CopyIsCollection
<1> QED BY <1>1, CopyInit, CopyStep, PTL DEF Spec

-----------------------------------------------------------------------------
(* The subscriptions: a list-watch with another receiver.                  *)

\* A step of the event server is a step of the list-watch.
LEMMA ListWatchStep == [SNext]_svars => [Next]_vars
<1>1. SNext => Next
  BY DEF SNext, Next, SListPage, SStreamNext, SListPageError, SCrash
<1> QED BY <1>1 DEF svars

\* The event server list-watches its subscriptions.
THEOREM SubscriptionsListWatch == SSpec => Spec
<1>1. SInit => Init
  BY DEF SInit
<1> QED BY <1>1, ListWatchStep, PTL DEF SSpec, Spec

\* The id of no document is not a document.
LEMMA IdsAreDocs ==
  /\ NoId \in Ids /\ NoId \notin Docs /\ Docs \subseteq Ids
  /\ \A i \in Ids : i # NoId => i \in Docs
  BY BoundsAssumption DEF Ids, NoId, Docs

\* What a change brings, with the id it brings it under.
LEMMA IdFacts ==
  ASSUME TypeInv, LogTells, NEW e \in DOMAIN log
  PROVE  /\ Document(log[e]) = Zero <=> IdOf(log[e]) = NoId
         /\ Document(log[e]) \in Values \cup {Zero}
         /\ log[e].op = "delete" => Document(log[e]) = Zero
         /\ IdOf(log[e]) = log[e].doc \/ IdOf(log[e]) = NoId
         /\ IdOf(log[e]) \in Ids /\ log[e].doc \in Docs
<1>1. log[e] \in Changes
  BY ElementOfSeq, LenProperties DEF TypeInv
<1>2. log[e].val = Absent <=> log[e].op = "delete"
  BY DEF LogTells
<1>3. /\ log[e].doc \in Docs /\ log[e].op \in {"insert", "update", "delete"}
      /\ log[e].val \in Values \cup {Absent}
      /\ store[log[e].doc] \in Values \cup {Absent}
      /\ log[e].op = "delete" => Document(log[e]) = Zero
      /\ log[e].op = "insert" => Document(log[e]) = log[e].val
      /\ log[e].op = "update" =>
             Document(log[e]) = IF store[log[e].doc] = Absent THEN Zero ELSE store[log[e].doc]
  BY <1>1, DocumentType DEF Changes, TypeInv
<1>4. log[e].doc # NoId /\ Zero # Absent
  BY <1>3, IdsAreDocs DEF Zero, Absent
<1> QED BY <1>1, <1>2, <1>3, <1>4, IdsAreDocs DEF IdOf

\* An upsert of documents, or of the zero value under the id of none.
LEMMA UpsertRoutes ==
  ASSUME MapTypes, RoutesAgree, NEW D \in SUBSET Ids, NEW val,
         \A i \in D : val[i] \in Values \cup {Zero},
         NoId \in D => val[NoId] = Zero,
         OnUpsert(D, val)
  PROVE  MapTypes' /\ RoutesAgree'
<1>1. subscriptions' \in [Ids -> Values \cup {Absent, Zero}]
  BY DEF MapTypes, OnUpsert
<1>2. subscriptions'[NoId] \in {Absent, Zero}
  BY IdsAreDocs DEF MapTypes, OnUpsert
<1>3. /\ DOMAIN subscribers' = DOMAIN subscribers
      /\ DOMAIN subscribers = Types \cup {NoType}
      /\ \A t \in DOMAIN subscribers : subscribers'[t] =
            (subscribers[t] \ {i \in D : t \in Form(subscriptions[i]) \ Form(val[i])})
                \cup {i \in D : t \in Form(val[i]) \ Form(subscriptions[i])}
  BY DEF MapTypes, OnUpsert, Resubscribe
<1>4. subscribers' \in [Types \cup {NoType} -> SUBSET Ids]
  <2>1. \A t \in Types \cup {NoType} : subscribers[t] \in SUBSET Ids
    BY DEF MapTypes
  <2>2. subscribers' = [t \in Types \cup {NoType} |-> subscribers'[t]]
    BY <1>3 DEF OnUpsert, Resubscribe
  <2>3. \A t \in Types \cup {NoType} : subscribers'[t] \in SUBSET Ids
    BY <1>3, <2>1
  <2> QED BY <2>2, <2>3
<1>5. ASSUME NEW t \in DOMAIN subscribers
      PROVE  subscribers'[t] = {i \in Ids : t \in Form(subscriptions'[i])}
  <2>1. subscribers[t] = {i \in Ids : t \in Form(subscriptions[i])}
    BY DEF RoutesAgree
  <2>2. \A i \in Ids : subscriptions'[i] = IF i \in D THEN val[i] ELSE subscriptions[i]
    BY DEF OnUpsert
  <2>3. \A i \in Ids : i \in subscribers'[t] <=> t \in Form(subscriptions'[i])
    BY <1>3, <2>1, <2>2
  <2>4. subscribers'[t] \subseteq Ids
    BY <1>3, <2>1
  <2> QED BY <2>3, <2>4
<1>6. RoutesAgree'
  BY <1>3, <1>5 DEF RoutesAgree
<1> QED BY <1>1, <1>2, <1>4, <1>6 DEF MapTypes

\* A deletion brings the zero value, whose id and type only are removed.
LEMMA DeleteRoutes ==
  ASSUME MapTypes, RoutesAgree, NEW e, Document(e) = Zero, OnDelete(e)
  PROVE  /\ MapTypes' /\ RoutesAgree'
         /\ \A i \in Docs : subscriptions'[i] = subscriptions[i]
<1>1. IdOf(e) = NoId /\ Form(Document(e)) = {NoType}
  BY DEF IdOf, Form
<1>2. /\ subscriptions' = [subscriptions EXCEPT ![NoId] = Absent]
      /\ subscribers' = [t \in DOMAIN subscribers |->
                IF t \in {NoType} THEN subscribers[t] \ {NoId} ELSE subscribers[t]]
  BY <1>1 DEF OnDelete
<1>3. /\ DOMAIN subscribers = Types \cup {NoType}
      /\ \A t \in Types \cup {NoType} : subscribers[t] \in SUBSET Ids
  BY DEF MapTypes
<1>4. MapTypes'
  <2>1. subscriptions' \in [Ids -> Values \cup {Absent, Zero}] /\ subscriptions'[NoId] = Absent
    BY <1>2, IdsAreDocs DEF MapTypes
  <2>2. subscribers' \in [Types \cup {NoType} -> SUBSET Ids]
    BY <1>2, <1>3
  <2> QED BY <2>1, <2>2 DEF MapTypes
<1>5. Form(Absent) = {} /\ Form(Zero) = {NoType}
  BY DEF Form, Absent, Zero
<1>6. ASSUME NEW t \in DOMAIN subscribers
      PROVE  subscribers'[t] = {i \in Ids : t \in Form(subscriptions'[i])}
  <2>1. subscribers[t] = {i \in Ids : t \in Form(subscriptions[i])}
    BY DEF RoutesAgree
  <2>2. /\ subscriptions'[NoId] = Absent
        /\ \A i \in Ids : i # NoId => subscriptions'[i] = subscriptions[i]
        /\ subscriptions[NoId] \in {Absent, Zero}
    BY <1>2, IdsAreDocs DEF MapTypes
  <2>3. subscribers'[t] = IF t = NoType THEN subscribers[t] \ {NoId} ELSE subscribers[t]
    BY <1>2
  <2>4. NoId \in subscribers'[t] <=> t \in Form(subscriptions'[NoId])
    <3>1. t # NoType => t \notin Form(subscriptions[NoId])
      BY <1>5, <2>2
    <3> QED BY <1>5, <2>1, <2>2, <2>3, <3>1
  <2>5. \A i \in Ids : i # NoId => (i \in subscribers'[t] <=> t \in Form(subscriptions'[i]))
    BY <2>1, <2>2, <2>3
  <2>6. subscribers'[t] \subseteq Ids
    BY <2>1, <2>3
  <2> QED BY <2>4, <2>5, <2>6
<1>7. RoutesAgree'
  BY <1>2, <1>6 DEF RoutesAgree
<1>8. \A i \in Docs : subscriptions'[i] = subscriptions[i]
  BY <1>2, IdsAreDocs DEF MapTypes
<1> QED BY <1>4, <1>7, <1>8

\* No routes, of no subscriptions, agree.
LEMMA EmptyRoutes ==
  ASSUME subscriptions = [i \in Ids |-> Absent],
         subscribers = [t \in Types \cup {NoType} |-> {}]
  PROVE  MapTypes /\ RoutesAgree
  BY IdsAreDocs DEF MapTypes, RoutesAgree, Form, Absent, Zero

\* What a step of the event server does to the maps.
LEMMA RoutesNext == RoutesInv /\ [SNext]_svars => MapTypes' /\ RoutesAgree'
<1> SUFFICES ASSUME RoutesInv, [SNext]_svars PROVE MapTypes' /\ RoutesAgree'
  OBVIOUS
<1>1. TypeInv /\ LogTells /\ MapTypes /\ RoutesAgree
  BY DEF RoutesInv
<1>2. \A i \in Page : i \in Docs /\ i \in Ids /\ store[i] \in Values \cup {Zero} /\ i # NoId
  BY <1>1, IdsAreDocs DEF Page, Present, TypeInv
<1>3. CASE UNCHANGED maps
  BY <1>1, <1>3 DEF maps, MapTypes, RoutesAgree
<1>4. CASE SListPage
  <2>1. OnUpsert(Page, store)
    BY <1>4 DEF SListPage
  <2> QED BY <1>1, <1>2, <2>1, UpsertRoutes
<1>5. CASE \E d \in Docs : SListPageError(d)
  <2>1. PICK d \in Docs : OnUpsert({c \in Page : c < d}, store)
    BY <1>5 DEF SListPageError
  <2>2. /\ {c \in Page : c < d} \in SUBSET Ids
        /\ \A i \in {c \in Page : c < d} : store[i] \in Values \cup {Zero} /\ i # NoId
    BY <1>2
  <2> QED BY <1>1, <2>1, <2>2, UpsertRoutes
<1>6. CASE SStreamNext
  <2>1. /\ IF Change.op = "delete" THEN OnDelete(Change)
           ELSE OnUpsert({IdOf(Change)}, [i \in {IdOf(Change)} |-> Document(Change)])
        /\ pos + 1 \in DOMAIN log
    BY <1>1, <1>6, LenProperties DEF SStreamNext, StreamNext, TypeInv
  <2>2. /\ Document(Change) = Zero <=> IdOf(Change) = NoId
        /\ Document(Change) \in Values \cup {Zero}
        /\ Change.op = "delete" => Document(Change) = Zero
        /\ IdOf(Change) \in Ids
    BY <1>1, <2>1, IdFacts DEF Change
  <2>3. CASE Change.op = "delete"
    BY <1>1, <2>1, <2>2, <2>3, DeleteRoutes
  <2>4. CASE Change.op # "delete"
    BY <1>1, <2>1, <2>2, <2>4, UpsertRoutes
  <2> QED BY <2>3, <2>4
<1>7. CASE SCrash
  <2>1. /\ subscriptions' = [i \in Ids |-> Absent]
        /\ subscribers' = [t \in Types \cup {NoType} |-> {}]
    BY <1>1, <1>7 DEF SCrash, MapTypes
  <2> QED BY <2>1, IdsAreDocs DEF MapTypes, RoutesAgree, Form, Absent, Zero
<1> QED BY <1>3, <1>4, <1>5, <1>6, <1>7 DEF SNext, svars

\* The routes agree after every step.
LEMMA RoutesStep == RoutesInv /\ [SNext]_svars => RoutesInv'
  BY RoutesNext, ListWatchStep, TypeStep, LogStep DEF RoutesInv

\* And at first.
LEMMA RoutesInit == SInit => RoutesInv
<1> SUFFICES ASSUME SInit PROVE RoutesInv
  OBVIOUS
<1>1. TypeInv /\ LogTells
  BY CopyInit DEF SInit, CopyInv
<1>2. MapTypes /\ RoutesAgree
  BY EmptyRoutes DEF SInit
<1> QED BY <1>1, <1>2 DEF RoutesInv

\* The two maps agree after any sequence of lists, changes and updates of the form.
THEOREM RoutesAlwaysAgree == SSpec => []RoutesAgree
<1>1. RoutesInv => RoutesAgree
  BY DEF RoutesInv
<1> QED BY <1>1, RoutesInit, RoutesStep, PTL DEF SSpec

-----------------------------------------------------------------------------
(* The subscriptions an event server knows.                                *)

\* What an upsert leaves in the map under the id of a document.
LEMMA UpsertPuts ==
  ASSUME NEW D, NEW val, OnUpsert(D, val), NEW d \in Docs
  PROVE  subscriptions'[d] = IF d \in D THEN val[d] ELSE subscriptions[d]
  BY IdsAreDocs DEF OnUpsert

\* Every step keeps the subscriptions explained.
LEMMA MapStep == MapInv /\ [SNext]_svars => MapInv'
<1> SUFFICES ASSUME MapInv, [SNext]_svars PROVE MapInv'
  OBVIOUS
<1>1. TypeInv /\ LogTells /\ MapTypes /\ RoutesAgree /\ MapTells
  BY DEF MapInv, RoutesInv
<1>2. SUFFICES ASSUME NEW d \in Docs, store'[d] # Absent PROVE MapOf(d)'
  <2>1. RoutesInv'
    BY RoutesStep DEF MapInv
  <2> QED BY <1>2, <2>1 DEF MapInv, MapTells, Present
<1>3. store[d] # Absent => MapOf(d)
  BY <1>1 DEF MapTells, Present
<1>4. CASE Writes /\ UNCHANGED maps
  <2>1. /\ UNCHANGED << pc, tasklist, start, cnt, pos, token >>
        /\ \/ Coming(d)' \/ Excused(d)'
           \/ /\ store'[d] = store[d] /\ ~Coming(d) /\ ~Excused(d)
              /\ pc = "list" /\ ToList(d) => ToList(d)'
    BY <1>1, <1>4, WriteLists
  <2> QED BY <1>2, <1>3, <1>4, <2>1 DEF MapOf, maps
<1>5. CASE OpenStream /\ UNCHANGED maps
  BY <1>5 DEF OpenStream, MapOf
<1>6. CASE CountDocuments /\ UNCHANGED maps
  <2>1. pc' = "list" /\ store' = store
    BY <1>6 DEF CountDocuments, collection
  <2>2. ToList(d)'
    BY <1>1, <1>2, <1>6, <2>1, CountLists
  <2> QED BY <2>1, <2>2 DEF MapOf
<1>7. CASE SListPage
  <2>1. /\ pc = "list" /\ pc' = pc /\ start < cnt /\ OnUpsert(Page, store) /\ ListPage
        /\ start' = start + PageSize /\ UNCHANGED << store, cnt >>
    BY <1>7 DEF SListPage, ListPage, collection
  <2>2. (Coming(d) => Coming(d)') /\ (Excused(d) => Excused(d)')
    BY <2>1, QuietKeeps DEF Quiet
  <2>3. ASSUME ToList(d), d \notin Page PROVE ToList(d)'
    <3>1. start + PageSize < Rank(d)
      BY <1>1, <2>1, <2>3, PageLists
    <3>2. Rank(d)' = Rank(d) /\ End' = End
      BY <2>1 DEF Rank, Present, End
    <3> QED BY <2>1, <2>3, <3>1, <3>2 DEF ToList
  <2>4. subscriptions'[d] = IF d \in Page THEN store[d] ELSE subscriptions[d]
    BY <2>1, UpsertPuts
  <2> QED BY <1>2, <1>3, <2>1, <2>2, <2>3, <2>4 DEF MapOf
<1>8. CASE \E c \in Docs : SListPageError(c)
  <2>1. PICK c \in Docs : SListPageError(c)
    BY <1>8
  <2>2. /\ pc = "list" /\ pc' = pc /\ OnUpsert({b \in Page : b < c}, store)
        /\ UNCHANGED << store, cnt, start >> /\ ListPageError(c)
    BY <2>1 DEF SListPageError, ListPageError, collection, lister
  <2>3. (Coming(d) => Coming(d)') /\ (Excused(d) => Excused(d)')
    BY <2>2, QuietKeeps DEF Quiet
  <2>4. ToList(d) => ToList(d)'
    BY <2>2 DEF ToList, Rank, Present, End
  <2>5. subscriptions'[d] = store[d] \/ subscriptions'[d] = subscriptions[d]
    BY <2>2, UpsertPuts
  <2> QED BY <1>2, <1>3, <2>2, <2>3, <2>4, <2>5 DEF MapOf
<1>9. CASE ListDone /\ UNCHANGED maps
  <2>1. pc = "list" /\ pc' = "watch" /\ start >= cnt /\ store' = store
    BY <1>9 DEF ListDone, collection
  <2>2. (Coming(d) => Coming(d)') /\ (Excused(d) => Excused(d)')
    BY <1>9, QuietKeeps DEF Quiet
  <2>3. ~ToList(d)
    BY <1>1, <2>1, NoneToList
  <2> QED BY <1>2, <1>3, <1>9, <2>1, <2>2, <2>3 DEF MapOf, maps
<1>10. CASE SStreamNext
  <2>1. /\ StreamNext /\ pc = "watch" /\ pc' = pc /\ pos + 1 \in DOMAIN log
        /\ IF Change.op = "delete" THEN OnDelete(Change)
           ELSE OnUpsert({IdOf(Change)}, [i \in {IdOf(Change)} |-> Document(Change)])
    BY <1>1, <1>10, LenProperties DEF SStreamNext, StreamNext, TypeInv
  <2>2. /\ Excused(d) => Excused(d)'
        /\ Coming(d) => Coming(d)' \/ d = Change.doc
        /\ d = Change.doc => \/ Coming(d)'
                             \/ Change.op = "delete" /\ store[d] = Absent
                             \/ /\ Change.op # "delete" /\ store[d] # Absent
                                /\ Document(Change) = store[d]
        /\ UNCHANGED store
    BY <1>1, <2>1, NextComes
  <2>3. /\ Document(Change) = Zero <=> IdOf(Change) = NoId
        /\ Change.op = "delete" => Document(Change) = Zero
        /\ IdOf(Change) = Change.doc \/ IdOf(Change) = NoId
    BY <1>1, <2>1, IdFacts DEF Change
  <2>4. CASE Change.op = "delete"
    <3>1. subscriptions'[d] = subscriptions[d]
      BY <1>1, <2>1, <2>3, <2>4, DeleteRoutes
    <3> QED BY <1>2, <1>3, <2>1, <2>2, <2>4, <3>1 DEF MapOf
  <2>5. CASE Change.op # "delete"
    <3>1. subscriptions'[d] = IF d = IdOf(Change) THEN Document(Change) ELSE subscriptions[d]
      BY <2>1, <2>5, UpsertPuts
    <3>2. store[d] # Zero /\ d # NoId
      BY <1>1, ValuesAssumption, IdsAreDocs DEF TypeInv, Absent, Zero
    <3> QED BY <1>2, <1>3, <2>1, <2>2, <2>3, <2>5, <3>1, <3>2 DEF MapOf
  <2> QED BY <2>4, <2>5
<1>11. CASE (StreamDecodeError \/ Rewatch) /\ UNCHANGED maps
  <2>1. pc \in {"watch", "retry"} /\ pc' \in {"watch", "retry"}
    BY <1>11 DEF StreamDecodeError, Rewatch
  <2>2. /\ Coming(d) => Coming(d)' \/ Excused(d)'
        /\ Excused(d) => Excused(d)'
        /\ UNCHANGED store
    BY <1>1, <1>11, LeftOut
  <2> QED BY <1>2, <1>3, <1>11, <2>1, <2>2 DEF MapOf, maps
<1>12. CASE (StreamError \/ RewatchError \/ RewatchFatal) /\ UNCHANGED maps
  <2>1. pc \in {"watch", "retry"} /\ pc' \in {"watch", "retry"}
    BY <1>12 DEF StreamError, RewatchError, RewatchFatal
  <2>2. (Coming(d) => Coming(d)') /\ (Excused(d) => Excused(d)') /\ store' = store
    BY <1>12, QuietKeeps DEF Quiet
  <2> QED BY <1>2, <1>3, <1>12, <2>1, <2>2 DEF MapOf, maps
<1>13. CASE ListFindError /\ UNCHANGED maps
  <2>1. /\ pc = "list" /\ pc' = pc /\ start < cnt /\ Excuse(Page, "find")
        /\ start' = start + PageSize /\ UNCHANGED << store, cnt >>
    BY <1>13 DEF ListFindError, collection
  <2>2. (Coming(d) => Coming(d)') /\ (Excused(d) => Excused(d)')
    BY <1>13, QuietKeeps
  <2>3. ASSUME d \in Page PROVE Excused(d)'
    <3>1. [doc |-> d, why |-> "find"] \in excused'
      BY <2>1, <2>3 DEF Excuse
    <3> QED BY <3>1 DEF Excused
  <2>4. ASSUME ToList(d), d \notin Page PROVE ToList(d)'
    <3>1. start + PageSize < Rank(d)
      BY <1>1, <2>1, <2>4, PageLists
    <3>2. Rank(d)' = Rank(d) /\ End' = End
      BY <2>1 DEF Rank, Present, End
    <3> QED BY <2>1, <2>4, <3>1, <3>2 DEF ToList
  <2> QED BY <1>2, <1>3, <1>13, <2>1, <2>2, <2>3, <2>4 DEF MapOf, maps
<1>14. CASE SCrash
  BY <1>14 DEF SCrash, Crash, MapOf
<1>15. CASE UNCHANGED svars
  <2>1. UNCHANGED << pc, subscriptions, start, cnt >>
    BY <1>15 DEF svars, vars, maps, lister
  <2>2. (Coming(d) => Coming(d)') /\ (Excused(d) => Excused(d)') /\ store' = store
    BY <1>15, QuietKeeps DEF svars
  <2>3. ToList(d) => ToList(d)'
    BY <2>1, <2>2 DEF ToList, Rank, Present, End
  <2> QED BY <1>2, <1>3, <2>1, <2>2, <2>3 DEF MapOf
<1> QED BY <1>4, <1>5, <1>6, <1>7, <1>8, <1>9, <1>10, <1>11, <1>12, <1>13, <1>14, <1>15
        DEF SNext, Failures

\* An event server that starts knows no subscription.
LEMMA MapInit == SInit => MapInv
  BY RoutesInit DEF SInit, Init, MapInv, MapTells, MapOf

\* An event server that has read all changes knows every subscription there is, as it
\* is, but for those that a cause left out.
THEOREM SubscriptionsAreKnown == SSpec => []KnowsSubscriptions
<1>1. ASSUME MapInv PROVE KnowsSubscriptions
  <2>1. SUFFICES ASSUME CaughtUp, NEW d \in Present
                 PROVE  subscriptions[d] = store[d] \/ Excused(d)
    BY DEF KnowsSubscriptions
  <2>2. ~Coming(d) /\ pc = "watch"
    BY <1>1, <2>1, NoneComing DEF MapInv, RoutesInv, Present
  <2> QED BY <1>1, <2>2 DEF MapInv, MapTells, MapOf
<1> QED BY <1>1, MapInit, MapStep, PTL DEF SSpec
=============================================================================
