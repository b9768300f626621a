------------------------------ MODULE EventWatch ------------------------------
(***************************************************************************)
(* The watch API of the cache service: a client reads the chain of one     *)
(* collection by a start time, from now, or after a cursor, and goes on    *)
(* with the cursor of each answer.  A request reads the database several   *)
(* times while the event flow commits nodes and old nodes expire.          *)
(*                                                                         *)
(* Chain nodes are named by their rank in the chain (ids may have gaps); a *)
(* cursor by its node, 0 being NoEventCursor.  The token record names the  *)
(* last node, with which it is committed.                                  *)
(***************************************************************************)
EXTENDS Integers, Sequences, FiniteSets

CONSTANTS
    MaxEvents,      \* bound on the length of the chain
    MaxTime,        \* bound on the clock
    TTL,            \* Key.TTLSeconds: nodes older than this are expired
    EventStep,      \* eventStep: limit of one search
    Lag             \* nodes a read may miss: 0 when reads go to the primary

ASSUME BoundsAssumption ==
    /\ {MaxEvents, TTL, Lag} \subseteq Nat
    /\ {MaxTime, EventStep} \subseteq Nat \ {0}

VARIABLES
    chain,      \* the chain nodes: [time, hit], hit if the client asks for their type
    now,        \* the clock
    pc,         \* "new": the client has no cursor, "idle": it has one, else where its request is
    pos,        \* the client's cursor
    at,         \* nodeID: the request returns nodes behind this one
    upto,       \* tail of the chain in the request's last read
    base,       \* history: the client's watch is for nodes behind this one ...
    since,      \* ... with a later time than this
    got,        \* the events of the last answer
    seen,       \* history: the events of all answers of this watch
    late        \* history: nodes committed between the last search and the answer's cursor

request == << at, upto >>
watching == << base, since >>
vars == << chain, now, pc, pos, request, watching, got, seen, late >>

-----------------------------------------------------------------------------
LastTime == IF chain = << >> THEN 1 ELSE chain[Len(chain)].time

Live(i) == chain[i].time + TTL >= now
Expired == {i \in DOMAIN chain : ~Live(i)}
\* Mutant of LiveUpTo: a node as old as the TTL is not found.
LiveUpToYounger(v) == {i \in 1 .. v : chain[i].time + TTL > now}
LiveUpTo(v) == {i \in 1 .. v : Live(i)}

\* The length of the chain a read may see.
Visible == {v \in 0 .. Len(chain) : v + Lag >= Len(chain)}

Least(S) == CHOOSE i \in S : \A j \in S : i <= j
Greatest(S) == CHOOSE i \in S : \A j \in S : j <= i

Hits(S) == {i \in S : chain[i].hit}

\* Mutant of Following: the limit takes the newest nodes.
FollowingNewest(k, v) ==
    {i \in Hits(k + 1 .. v) : Cardinality({j \in Hits(k + 1 .. v) : j > i}) < EventStep}

\* searchFollowingEventChainNodesByID: the first nodes of the client's types.
Following(k, v) ==
    {i \in Hits(k + 1 .. v) : Cardinality({j \in Hits(k + 1 .. v) : j < i}) < EventStep}

Init ==
    /\ chain = << >>
    /\ now = 1
    /\ pc = "new"
    /\ pos = 0 /\ at = 0 /\ upto = 0 /\ base = 0 /\ since = 0
    /\ got = {} /\ seen = {} /\ late = {}

-----------------------------------------------------------------------------
\* The event flow commits a node; the event may have happened a while ago.
CommitNode ==
    /\ Len(chain) < MaxEvents
    /\ \E t \in LastTime .. now, h \in BOOLEAN : chain' = Append(chain, [time |-> t, hit |-> h])
    /\ UNCHANGED << now, pc, pos, request, watching, got, seen, late >>

Tick ==
    /\ now < MaxTime
    /\ now' = now + 1
    /\ UNCHANGED << chain, pc, pos, request, watching, got, seen, late >>

-----------------------------------------------------------------------------
(* Answers.                                                                *)

\* The locals of a request that returned.
Returned == at' = 0 /\ upto' = 0

\* Mutants of AnswerEvents: the cursor is that of the last node read, or the
\* one after the last event.
AnswerTail(s, v) ==
    /\ pc' = "idle"
    /\ pos' = v
    /\ got' = s
    /\ seen' = seen \cup s
    /\ Returned
AnswerNext(s, v) ==
    /\ pc' = "idle"
    /\ pos' = Greatest(s) + 1
    /\ got' = s
    /\ seen' = seen \cup s
    /\ Returned

\* The events found; the client goes on from the last one.
AnswerEvents(s, v) ==
    /\ pc' = "idle"
    /\ pos' = Greatest(s)
    /\ got' = s
    /\ seen' = seen \cup s
    /\ Returned

\* No event, but a cursor to go on from.
AnswerCursor(k) ==
    /\ pc' = "idle"
    /\ pos' = k
    /\ got' = {}
    /\ UNCHANGED seen
    /\ Returned

\* The client forgets what it knew and starts again.
Restart ==
    /\ pc' = "new"
    /\ pos' = 0
    /\ got' = {} /\ seen' = {} /\ late' = {}
    /\ Returned

\* The node of the least age is answered if the client asks for its type, and
\* NoEventCursor if not.
AnswerLatest(k, v) ==
    \/ chain[k].hit /\ AnswerEvents({k}, v)
    \/ ~chain[k].hit /\ AnswerCursor(0)

-----------------------------------------------------------------------------
(* Requests without a cursor.                                              *)

WatchFromNow ==
    /\ pc = "new"
    /\ \E v \in Visible :
        /\ \/ LiveUpTo(v) = {} /\ AnswerCursor(0)
           \/ LiveUpTo(v) # {} /\ AnswerLatest(v, v)
    /\ base' = Len(chain)
    /\ since' = 0
    /\ UNCHANGED << chain, now, late >>

\* WatchWithStartFrom: the latest node decides whether to search at all.
WatchWithStartFrom ==
    /\ pc = "new"
    /\ \E t \in 1 .. now, v \in Visible :
        /\ now - t <= TTL
        /\ since' = t
        /\ \/ LiveUpTo(v) = {} /\ AnswerCursor(0)
           \/ /\ LiveUpTo(v) # {}
              /\ \/ chain[v].time <= t /\ AnswerLatest(v, v)
                 \/ /\ chain[v].time > t
                    /\ pc' = "since"
                    /\ upto' = v
                    /\ UNCHANGED << pos, at, got, seen >>
        /\ base' = Cardinality({i \in DOMAIN chain : chain[i].time <= t})
    /\ UNCHANGED << chain, now, late >>

\* The first node with a later cluster time.
FindSince ==
    /\ pc = "since"
    /\ \E v \in Visible :
        LET newer == {i \in 1 .. v : chain[i].time > since}
        IN  \/ /\ newer = {}
               /\ AnswerCursor(0)
            \/ /\ newer # {}
               /\ at' = Least(newer)
               /\ pc' = "sinceList"
               /\ UNCHANGED << pos, upto, got, seen >>
    /\ UNCHANGED << chain, now, watching, late >>

\* That node and those that follow it, or the cursor of the tail read first.
ListSince ==
    /\ pc = "sinceList"
    /\ \E v \in Visible :
        LET found == Hits({at}) \cup Following(at, v)
        IN  \/ found # {} /\ AnswerEvents(found, v)
            \/ found = {} /\ AnswerCursor(upto)
    /\ UNCHANGED << chain, now, watching, late >>

-----------------------------------------------------------------------------
(* WatchWithCursor.                                                        *)

\* A client without a cursor may send NoEventCursor too.
WatchWithCursor ==
    /\ pc \in {"new", "idle"}
    /\ pc' = "find"
    /\ IF pc = "new" THEN base' = 0 /\ since' = 0 ELSE UNCHANGED watching
    /\ UNCHANGED << chain, now, pos, request, got, seen, late >>

\* searchFollowingEventChainNodes: find the cursor's node, or for
\* NoEventCursor the earliest; expired nodes are not found (and no longer owed
\* to a client that starts from the earliest).
FindStart ==
    /\ pc = "find"
    /\ \E v \in Visible :
        LET live == LiveUpTo(v)
        IN  /\ upto' = v
            /\ \/ /\ pos = 0 /\ live # {}
                  /\ at' = Least(live)
                  /\ pc' = "listFirst"
               \/ /\ pos # 0 /\ pos \in live
                  /\ at' = pos
                  /\ pc' = "list"
               \/ /\ IF pos = 0 THEN live = {} ELSE pos \notin live
                  /\ pc' = "token"
                  /\ UNCHANGED at
    /\ base' = IF pos = 0 /\ Cardinality(Expired) > base THEN Cardinality(Expired) ELSE base
    /\ UNCHANGED << chain, now, pos, since, got, seen, late >>

\* The token record stands for a tail that is expired: NoEventCursor waits for
\* nodes behind it, a cursor has to be the tail's.
ReadToken ==
    /\ pc = "token"
    /\ \E v \in Visible :
        \/ /\ pos = 0
           /\ at' = v
           /\ pc' = "poll"
           /\ late' = late \cup (upto + 1 .. v)
           /\ UNCHANGED << pos, upto, got, seen >>
        \/ /\ pos # 0 /\ v = pos
           /\ at' = v
           /\ pc' = "list"
           /\ UNCHANGED << pos, upto, got, seen, late >>
        \/ pos # 0 /\ v # pos /\ Restart
    /\ UNCHANGED << chain, now, watching >>

\* A search answers what it found; else the request polls.
Search(found, v) ==
    /\ \/ found # {} /\ AnswerEvents(found, v)
       \/ found = {} /\ pc' = "poll" /\ upto' = v /\ UNCHANGED << pos, at, got, seen >>
    /\ UNCHANGED << chain, now, watching, late >>

ListFirst == pc = "listFirst" /\ \E v \in Visible : Search(Hits({at}) \cup Following(at, v), v)
ListNodes == pc \in {"list", "poll"} /\ \E v \in Visible : Search(Following(at, v), v)

\* After timeoutWatchLoopSeconds the latest node's cursor is answered, or
\* NoEventCursor when every node is expired.
TimeOut ==
    /\ pc = "poll"
    /\ \E v \in Visible :
        \/ LiveUpTo(v) = {} /\ AnswerCursor(0) /\ UNCHANGED late
        \/ /\ LiveUpTo(v) # {}
           /\ AnswerCursor(v)
           /\ late' = late \cup (upto + 1 .. v)
    /\ UNCHANGED << chain, now, watching >>

-----------------------------------------------------------------------------
ClientStep ==
    \/ WatchFromNow
    \/ WatchWithStartFrom
    \/ FindSince
    \/ ListSince
    \/ WatchWithCursor
    \/ FindStart
    \/ ReadToken
    \/ ListFirst
    \/ ListNodes

Next ==
    \/ CommitNode
    \/ Tick
    \/ ClientStep
    \/ TimeOut

Spec == Init /\ [][Next]_vars

\* Requests are answered and the client asks again; a request need not time out.
FairSpec == Spec /\ WF_vars(ClientStep)

-----------------------------------------------------------------------------
\* The variables have the types their comments give them.
TypeOK ==
    /\ chain \in Seq([time : 1 .. MaxTime, hit : BOOLEAN]) /\ Len(chain) <= MaxEvents
    /\ now \in 1 .. MaxTime
    /\ pc \in {"new", "idle", "since", "sinceList", "find", "token", "listFirst", "list", "poll"}
    /\ {pos, at, upto, base} \subseteq 0 .. Len(chain)
    /\ since \in 0 .. MaxTime
    /\ got \subseteq DOMAIN chain /\ seen \subseteq DOMAIN chain /\ late \subseteq DOMAIN chain

Owed(i) == i > base /\ chain[i].time > since /\ chain[i].hit
Skipped == {i \in 1 .. pos : Owed(i) /\ i \notin seen}

\* A client that goes on from the cursor of each answer gets every event of its
\* types: limits, expired cursors and searches that race with commits skip
\* nothing, except a node committed after the last search of the request whose
\* answer names a later cursor.
SkippedOnlyLate == Skipped \subseteq late

\* The cursor of a watch only moves forward, and an answer holds only events
\* behind the cursor it was asked with, so that no event comes twice: what reading
\* the primary is to ensure ("read all data from db in case secondary node's latency
\* causes data inconsistency").
AnswersFollowCursor ==
    [][pos # 0 /\ pc' = "idle" =>
          /\ pos' = 0 \/ pos' >= pos
          /\ got' # got => \A i \in got' : i > pos]_vars

\* What the code ensures for reads of any lag: an answer with events moves the cursor
\* forward over events behind it; only an answer without events moves it back, to
\* NoEventCursor or by no more nodes than a read may miss.
BackAtMostLag ==
    [][pos # 0 /\ pc' = "idle" =>
          /\ got' # got => \A i \in got' : i > pos
          /\ \/ pos' = 0 \/ pos' >= pos
             \/ got' = {} /\ pos' + Lag >= pos]_vars

\* A cursor is refused only when its node is expired: one that the client got
\* within the TTL is good for going on.
RefusedOnlyExpired ==
    [][pc = "token" /\ pc' = "new" => pos \in Expired]_vars

\* Every event of the client's types that is committed during its watch reaches
\* it before it expires, unless the cursor was moved past it.
Reached ==
    \A i \in 1 .. MaxEvents :
        (pc # "new" /\ i \in DOMAIN chain /\ Owed(i))
            ~> (i \in seen \cup late \/ i \in Expired \/ pc = "new")
=============================================================================
