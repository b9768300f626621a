------------------------------- MODULE EventDist -------------------------------
(***************************************************************************)
(* The event server: it reads the chain of one resource and pushes each    *)
(* event to the callbacks of the subscribers.  Every instance n runs       *)
(*   - the distributor, which reads the subscribers' stored cursors, one   *)
(*     by one, to find where to resume, and then puts the chain nodes      *)
(*     behind that into the main queue,                                    *)
(*   - the event handler, which moves them to the subscribers' queues,     *)
(*   - a pusher for each subscriber, which calls back and then stores the  *)
(*     subscriber's cursor, from which a later distributor resumes,        *)
(*   - cleaners, which shorten queues that became too long.                *)
(* The queues and cursors are in redis; each goroutine asks whether its    *)
(* instance is master before it blocks on its next piece of work.          *)
(*                                                                         *)
(* Events are named by their rank in the chain, 0 is no event; queues hold *)
(* the oldest event first.                                                 *)
(***************************************************************************)
EXTENDS Integers, Sequences, FiniteSets

CONSTANTS
    Nodes,              \* event server instances
    Subs,               \* subscribers of the resource's event type
    MaxEvents,          \* bound on the length of the chain
    SecondSteps,        \* seconds that pass between an event and the next
    StepSize,           \* defaultWatchEventStepSize
    TrimThreshold,      \* defaultCleanTrimThreshold
    DelThreshold,       \* defaultCleanDelThreshold
    CleanUnit,          \* defaultCleanUnit
    Faults,             \* kinds of failure that may occur
    MaxFaults,          \* bound on the number of failures
    MaxCrashes,         \* bound on the number of crashes
    MaxFlips            \* bound on the number of mastership changes

ASSUME BoundsAssumption ==
    /\ {MaxEvents, MaxFaults, MaxCrashes, MaxFlips, CleanUnit} \subseteq Nat
    /\ {StepSize, TrimThreshold, DelThreshold} \subseteq Nat \ {0}
    /\ CleanUnit <= TrimThreshold
ASSUME SecondsAssumption == SecondSteps \subseteq Nat
ASSUME FaultsAssumption ==
    Faults \subseteq {"get", "latest", "nodes", "queue", "expired", "send", "callback", "cursor"}

Main == "main"          \* the main queue's key
Queues == {Main} \cup Subs
ASSUME SubsAssumption == Subs # {} /\ Main \notin Subs

Checking == -1          \* a goroutine before its IsMaster check
Trimmed == -2           \* a cleaner after LTrim

VARIABLES
    chain,      \* the second of each event's cluster time
    queue,      \* EventCacheEventQueueKey and the subscribers' queues
    cursor,     \* EventCacheSubscriberCursorKey of each subscriber
    isMaster,   \* instances that take themselves for the master
    dpc,        \* where the distributor's goroutine is
    oldest,     \* resourceCursors
    toread,     \* subscribers whose cursor getResourceCursor has yet to GET
    start,      \* startCursor
    todo,       \* events Handle still has to put into the main queue
    hev,        \* the event the handler popped
    hsubs,      \* subscribers the handler still has to send it to
    pev,        \* the event each pusher popped
    count,      \* the queue length each cleaner read
    faults,     \* number of failures so far
    crashes,    \* number of crashes so far
    flips,      \* number of mastership changes so far
    received,   \* history: events each subscriber confirmed
    lost,       \* history: [sub, ev, why] the event server gave up
    seen        \* history: cursors a distributor has read, 0 where it got none

redis == << queue, cursor >>
reading == << oldest, toread, seen >>
dist == << dpc, reading, start, todo >>
handler == << hev, hsubs >>
budget == << faults, crashes, flips >>
history == << received, lost >>
vars == << chain, redis, isMaster, dist, handler, pev, count, budget, history >>

Events == 1 .. Len(chain)
Elems(q) == {q[i] : i \in DOMAIN q}
Lose(S, E, why) == lost' = lost \cup [sub : S, ev : E, why : {why}]

Fail(kind) == kind \in Faults /\ faults < MaxFaults /\ faults' = faults + 1
NoFail == UNCHANGED faults

Init ==
    /\ chain = << >>
    /\ queue = [q \in Queues |-> << >>]
    /\ cursor = [s \in Subs |-> 0]
    /\ \E n \in Nodes : isMaster = {n}
    /\ dpc = [n \in Nodes |-> "idle"]
    /\ oldest = [n \in Nodes |-> 0]
    /\ toread = [n \in Nodes |-> {}]
    /\ seen = [n \in Nodes |-> [s \in Subs |-> 0]]
    /\ start = [n \in Nodes |-> 0]
    /\ todo = [n \in Nodes |-> << >>]
    /\ hev = [n \in Nodes |-> Checking]
    /\ hsubs = [n \in Nodes |-> {}]
    /\ pev = [n \in Nodes |-> [s \in Subs |-> Checking]]
    /\ count = [n \in Nodes |-> [q \in Queues |-> Checking]]
    /\ faults = 0 /\ crashes = 0 /\ flips = 0
    /\ received = [s \in Subs |-> {}]
    /\ lost = {}

-----------------------------------------------------------------------------
\* The event flow appends a chain node, perhaps in the last one's second.
Publish ==
    /\ Len(chain) < MaxEvents
    /\ \E later \in SecondSteps :
          chain' = Append(chain, later + IF chain = << >> THEN 0 ELSE chain[Len(chain)])
    /\ UNCHANGED << redis, isMaster, dist, handler, pev, count, budget, history >>

ViewChange(n) ==
    /\ flips < MaxFlips
    /\ flips' = flips + 1
    /\ isMaster' = IF n \in isMaster THEN isMaster \ {n} ELSE isMaster \cup {n}
    /\ UNCHANGED << chain, redis, dist, handler, pev, count, faults, crashes, history >>

\* The process stops and is started again.
Crash(n) ==
    /\ crashes < MaxCrashes /\ crashes' = crashes + 1
    /\ dpc' = [dpc EXCEPT ![n] = "idle"]
    /\ oldest' = [oldest EXCEPT ![n] = 0]
    /\ toread' = [toread EXCEPT ![n] = {}]
    /\ seen' = [seen EXCEPT ![n] = [s \in Subs |-> 0]]
    /\ start' = [start EXCEPT ![n] = 0]
    /\ todo' = [todo EXCEPT ![n] = << >>]
    /\ hev' = [hev EXCEPT ![n] = Checking]
    /\ hsubs' = [hsubs EXCEPT ![n] = {}]
    /\ pev' = [pev EXCEPT ![n] = [s \in Subs |-> Checking]]
    /\ count' = [count EXCEPT ![n] = [q \in Queues |-> Checking]]
    /\ UNCHANGED << chain, redis, isMaster, faults, flips, history >>

-----------------------------------------------------------------------------
(* The distributor.                                                        *)

Received(s, i) == i \in received[s]

\* The event is somewhere between the chain and the subscriber's callback.
InFlight(s, i) ==
    \/ i \in Elems(queue[Main]) \cup Elems(queue[s])
    \/ \E n \in Nodes :
        \/ i \in Elems(todo[n])
        \/ hev[n] = i /\ s \in hsubs[n]
        \/ pev[n][s] = i

\* The loop of watchAndDistribute: getResourceCursor asks for each subscriber's cursor.
Resume(n) ==
    /\ dpc[n] = "idle" /\ n \in isMaster
    /\ dpc' = [dpc EXCEPT ![n] = "cursors"]
    /\ toread' = [toread EXCEPT ![n] = Subs]
    /\ UNCHANGED << chain, redis, isMaster, oldest, seen, start, todo, handler, pev, count, budget,
                    received, lost >>

\* Mutant of Older: the youngest cursor is kept.
Newer(c, kept) == c # 0 /\ (kept = 0 \/ chain[c] > chain[kept])

\* Cursors are compared by their seconds only.
Older(c, kept) == c # 0 /\ (kept = 0 \/ chain[c] < chain[kept])

\* One GET of getResourceCursor: an older cursor replaces the one kept, in earlier
\* rounds too; a subscriber whose cursor is missing or cannot be read is passed over.
ReadCursor(n, s) ==
    /\ dpc[n] = "cursors" /\ s \in toread[n]
    /\ toread' = [toread EXCEPT ![n] = @ \ {s}]
    /\ \/ /\ NoFail
          /\ seen' = [seen EXCEPT ![n][s] = cursor[s]]
          /\ oldest' = [oldest EXCEPT ![n] = IF Older(cursor[s], @) THEN cursor[s] ELSE @]
       \/ /\ Fail("get")
          /\ UNCHANGED << seen, oldest >>
    /\ UNCHANGED << chain, redis, isMaster, dpc, start, todo, handler, pev, count, crashes, flips,
                    received, lost >>

\* The distributor goes on behind from: of the events up to it, those that follow the
\* cursor it read for a subscriber, if any, and are nowhere else are skipped.
StartAt(n, from) ==
    /\ start' = [start EXCEPT ![n] = from]
    /\ dpc' = [dpc EXCEPT ![n] = "watch"]
    /\ lost' = lost \cup {l \in [sub : Subs, ev : 1 .. from, why : {"skipped"}] :
                            /\ l.ev > seen[n][l.sub]
                            /\ ~Received(l.sub, l.ev) /\ ~InFlight(l.sub, l.ev)}

\* watchAndDistributeWithCursor starts: from the oldest cursor, else from the latest
\* node; when GetLatestEvent fails it returns.
StartWatch(n) ==
    /\ dpc[n] = "cursors" /\ toread[n] = {}
    /\ \/ NoFail /\ oldest[n] # 0 /\ StartAt(n, oldest[n])
       \/ NoFail /\ oldest[n] = 0 /\ StartAt(n, Len(chain))
       \/ /\ Fail("latest") /\ oldest[n] = 0
          /\ dpc' = [dpc EXCEPT ![n] = "idle"]
          /\ UNCHANGED << start, lost >>
    /\ seen' = [seen EXCEPT ![n] = [s \in Subs |-> 0]]
    /\ UNCHANGED << chain, redis, isMaster, oldest, toread, todo, handler, pev, count, crashes,
                    flips, received >>

\* Mutant of NodesFrom: a step is always full.
StepFrom(cur) == [k \in 1 .. StepSize |-> cur + k]

\* GetNodesFromCursor: at most StepSize nodes after the cursor.
NodesFrom(cur) ==
    [k \in 1 .. (IF Len(chain) - cur < StepSize THEN Len(chain) - cur ELSE StepSize) |-> cur + k]

\* Mutant of Fetch: a deposed distributor leaves its loop for good.
FetchOnce(n) ==
    /\ dpc[n] = "watch"
    /\ \/ /\ n \notin isMaster
          /\ dpc' = [dpc EXCEPT ![n] = "gone"]
          /\ UNCHANGED << todo, faults >>
       \/ /\ n \in isMaster /\ start[n] < Len(chain)
          /\ todo' = [todo EXCEPT ![n] = NodesFrom(start[n])]
          /\ dpc' = [dpc EXCEPT ![n] = "handle"]
          /\ NoFail
    /\ UNCHANGED << chain, redis, isMaster, reading, start, handler, pev, count, crashes, flips,
                    received, lost >>

\* A round of watchAndDistributeWithCursor: the next nodes after startCursor.  A deposed
\* instance and one that cannot read them return; the loop then resumes.
Fetch(n) ==
    /\ dpc[n] = "watch"
    /\ \/ /\ (n \notin isMaster /\ NoFail) \/ (n \in isMaster /\ Fail("nodes"))
          /\ dpc' = [dpc EXCEPT ![n] = "idle"]
          /\ UNCHANGED todo
       \/ /\ n \in isMaster /\ start[n] < Len(chain) /\ NoFail
          /\ todo' = [todo EXCEPT ![n] = NodesFrom(start[n])]
          /\ dpc' = [dpc EXCEPT ![n] = "handle"]
    /\ UNCHANGED << chain, redis, isMaster, reading, start, handler, pev, count, crashes, flips,
                    received, lost >>

\* Handle: an event that cannot be put into the main queue is skipped; after
\* the last one startCursor moves.
HandleNext(n) ==
    /\ dpc[n] = "handle"
    /\ \/ /\ NoFail
          /\ queue' = [queue EXCEPT ![Main] = Append(@, Head(todo[n]))]
          /\ UNCHANGED lost
       \/ /\ Fail("queue")
          /\ Lose(Subs, {Head(todo[n])}, "queue")
          /\ UNCHANGED queue
    /\ todo' = [todo EXCEPT ![n] = Tail(@)]
    /\ IF Len(todo[n]) = 1
       THEN /\ start' = [start EXCEPT ![n] = Head(todo[n])]
            /\ dpc' = [dpc EXCEPT ![n] = "watch"]
       ELSE UNCHANGED << start, dpc >>
    /\ UNCHANGED << chain, cursor, isMaster, reading, handler, pev, count, crashes, flips, received >>

-----------------------------------------------------------------------------
(* The event handler and the pushers.                                      *)

\* Mutant of Pop: the newest event is taken.
PopNewest(q, ev) ==
    /\ queue[q] # << >>
    /\ ev = queue[q][Len(queue[q])]
    /\ queue' = [queue EXCEPT ![q] = SubSeq(@, 1, Len(@) - 1)]

\* BRPop of a queue that LPush fills: the oldest event is taken.
Pop(q, ev) ==
    /\ queue[q] # << >>
    /\ ev = Head(queue[q])
    /\ queue' = [queue EXCEPT ![q] = Tail(@)]

\* popEvent blocks, so that a deposed master may still pop one event.  An event
\* older than defaultFusingEventExpireSec is dropped.
HandlerCheck(n) ==
    /\ hev[n] = Checking /\ n \in isMaster
    /\ hev' = [hev EXCEPT ![n] = 0]
    /\ UNCHANGED << chain, redis, isMaster, dist, hsubs, pev, count, budget, history >>

PopEvent(n) ==
    /\ hev[n] = 0
    /\ \E ev \in Elems(queue[Main]) :
        /\ Pop(Main, ev)
        /\ \/ /\ NoFail
              /\ hev' = [hev EXCEPT ![n] = ev]
              /\ hsubs' = [hsubs EXCEPT ![n] = Subs]
              /\ UNCHANGED lost
           \/ /\ Fail("expired")
              /\ hev' = [hev EXCEPT ![n] = Checking]
              /\ Lose(Subs, {ev}, "expired")
              /\ UNCHANGED hsubs
    /\ UNCHANGED << chain, cursor, isMaster, dist, pev, count, crashes, flips, received >>

\* Mutant of SendToPusher: the first error ends the loop.
SendUntilError(n) ==
    /\ hsubs[n] # {}
    /\ \/ /\ NoFail
          /\ \E s \in hsubs[n] :
                /\ queue' = [queue EXCEPT ![s] = Append(@, hev[n])]
                /\ hsubs' = [hsubs EXCEPT ![n] = @ \ {s}]
          /\ UNCHANGED lost
       \/ /\ Fail("send")
          /\ \E s \in hsubs[n] : Lose({s}, {hev[n]}, "send")
          /\ hsubs' = [hsubs EXCEPT ![n] = {}]
          /\ UNCHANGED queue
    /\ hev' = [hev EXCEPT ![n] = IF hsubs'[n] = {} THEN Checking ELSE @]
    /\ UNCHANGED << chain, cursor, isMaster, dist, pev, count, crashes, flips, received >>

\* sendToPusher puts the event into the subscriber's queue; an error is logged.
SendToPusher(n) ==
    /\ hsubs[n] # {}
    /\ \E s \in hsubs[n] :
        /\ \/ /\ NoFail
              /\ queue' = [queue EXCEPT ![s] = Append(@, hev[n])]
              /\ UNCHANGED lost
           \/ /\ Fail("send")
              /\ Lose({s}, {hev[n]}, "send")
              /\ UNCHANGED queue
        /\ hsubs' = [hsubs EXCEPT ![n] = @ \ {s}]
    /\ hev' = [hev EXCEPT ![n] = IF hsubs'[n] = {} THEN Checking ELSE @]
    /\ UNCHANGED << chain, cursor, isMaster, dist, pev, count, crashes, flips, received >>

PusherCheck(n, s) ==
    /\ pev[n][s] = Checking /\ n \in isMaster
    /\ pev' = [pev EXCEPT ![n][s] = 0]
    /\ UNCHANGED << chain, redis, isMaster, dist, handler, count, budget, history >>

\* Mutant of PopDist: a deposed instance drops what it popped.
PopDeposed(n, s) ==
    /\ pev[n][s] = 0
    /\ \E ev \in Elems(queue[s]) :
        /\ Pop(s, ev)
        /\ pev' = [pev EXCEPT ![n][s] = IF n \in isMaster THEN ev ELSE Checking]
    /\ UNCHANGED << chain, cursor, isMaster, dist, handler, count, budget, history >>

\* The pusher blocks as the handler does, and drops an old event too.
PopDist(n, s) ==
    /\ pev[n][s] = 0
    /\ \E ev \in Elems(queue[s]) :
        /\ Pop(s, ev)
        /\ \/ /\ NoFail
              /\ pev' = [pev EXCEPT ![n][s] = ev]
              /\ UNCHANGED lost
           \/ /\ Fail("expired")
              /\ pev' = [pev EXCEPT ![n][s] = Checking]
              /\ Lose({s}, {ev}, "expired")
    /\ UNCHANGED << chain, cursor, isMaster, dist, handler, count, crashes, flips, received >>

\* push: one call; the cursor of a confirmed event is stored, an event that is not
\* confirmed is dropped.
Push(n, s) ==
    /\ pev[n][s] > 0
    /\ \/ /\ NoFail
          /\ received' = [received EXCEPT ![s] = @ \cup {pev[n][s]}]
          /\ cursor' = [cursor EXCEPT ![s] = pev[n][s]]
          /\ UNCHANGED lost
       \/ /\ Fail("callback")
          /\ Lose({s}, {pev[n][s]}, "callback")
          /\ UNCHANGED << cursor, received >>
       \/ /\ Fail("cursor")
          /\ received' = [received EXCEPT ![s] = @ \cup {pev[n][s]}]
          /\ UNCHANGED << cursor, lost >>
    /\ pev' = [pev EXCEPT ![n][s] = Checking]
    /\ UNCHANGED << chain, queue, isMaster, dist, handler, count, crashes, flips >>

-----------------------------------------------------------------------------
(* Cleaning of the queues (the same code for each).                        *)

Receivers(q) == IF q = Main THEN Subs ELSE {q}

\* The tick: a queue below the trim threshold is left alone.  (The IsMaster check
\* is one tick earlier; the steps below do not repeat it.)
CleanCount(n, q) ==
    /\ count[n][q] = Checking /\ n \in isMaster
    /\ Len(queue[q]) >= TrimThreshold
    /\ count' = [count EXCEPT ![n][q] = Len(queue[q])]
    /\ UNCHANGED << chain, redis, isMaster, dist, handler, pev, budget, history >>

\* LTrim keeps the newest elements, one more than the count without CleanUnit ...
CleanTrim(n, q) ==
    /\ count[n][q] > 0 /\ count[n][q] < DelThreshold
    /\ LET keep == count[n][q] - CleanUnit + 1
           cut  == IF Len(queue[q]) > keep THEN Len(queue[q]) - keep ELSE 0
       IN  /\ queue' = [queue EXCEPT ![q] = SubSeq(@, cut + 1, Len(@))]
           /\ Lose(Receivers(q), Elems(SubSeq(queue[q], 1, cut)), "clean")
    /\ count' = [count EXCEPT ![n][q] = Trimmed]
    /\ UNCHANGED << chain, cursor, isMaster, dist, handler, pev, budget, received >>

\* ... and then the queue is deleted, as one above DelThreshold is.
CleanDel(n, q) ==
    /\ count[n][q] = Trimmed \/ count[n][q] >= DelThreshold
    /\ queue' = [queue EXCEPT ![q] = << >>]
    /\ Lose(Receivers(q), Elems(queue[q]), "clean")
    /\ count' = [count EXCEPT ![n][q] = Checking]
    /\ UNCHANGED << chain, cursor, isMaster, dist, handler, pev, budget, received >>

-----------------------------------------------------------------------------
NodeStep(n) ==
    \/ Resume(n) \/ (\E s \in Subs : ReadCursor(n, s)) \/ StartWatch(n)
    \/ Fetch(n) \/ HandleNext(n)
    \/ HandlerCheck(n) \/ PopEvent(n) \/ SendToPusher(n)
    \/ \E s \in Subs : PusherCheck(n, s) \/ PopDist(n, s) \/ Push(n, s)

Next ==
    \/ Publish
    \/ \E n \in Nodes :
        \/ NodeStep(n)
        \/ \E q \in Queues : CleanCount(n, q) \/ CleanTrim(n, q) \/ CleanDel(n, q)
        \/ ViewChange(n)
        \/ Crash(n)

Spec == Init /\ [][Next]_vars

\* Each goroutine keeps running; cleaning, failures and mastership need not happen.
FairSpec ==
    /\ Spec
    /\ \A n \in Nodes :
        /\ WF_vars(Resume(n)) /\ (\A s \in Subs : WF_vars(ReadCursor(n, s)))
        /\ WF_vars(StartWatch(n)) /\ WF_vars(Fetch(n)) /\ WF_vars(HandleNext(n))
        /\ WF_vars(HandlerCheck(n)) /\ SF_vars(PopEvent(n)) /\ WF_vars(SendToPusher(n))
        /\ \A s \in Subs :
            WF_vars(PusherCheck(n, s)) /\ SF_vars(PopDist(n, s)) /\ WF_vars(Push(n, s))

-----------------------------------------------------------------------------
(* Properties.                                                             *)

\* The variables hold what the code puts into them: queues hold events of the chain,
\* a popped event is being sent to some subscriber, and a distributor that is not
\* handling events has none left.
TypeOK ==
    /\ \A i, j \in Events : i <= j => chain[i] <= chain[j]
    /\ \A q \in Queues : Elems(queue[q]) \subseteq Events
    /\ cursor \in [Subs -> 0 .. Len(chain)]
    /\ \A n \in Nodes :
        /\ dpc[n] \in {"idle", "cursors", "watch", "handle"}
        /\ {start[n], oldest[n]} \subseteq 0 .. Len(chain)
        /\ Elems(todo[n]) \subseteq Events
        /\ (todo[n] # << >>) <=> (dpc[n] = "handle")
        /\ hev[n] \in {Checking, 0} \cup Events
        /\ (hev[n] \in Events) <=> (hsubs[n] # {})
        /\ \A s \in Subs : pev[n][s] \in {Checking, 0} \cup Events

LostBy(s, i) == \E l \in lost : l.sub = s /\ l.ev = i
Watching(n) == dpc[n] \in {"watch", "handle"}
\* A distributor will still read it, or there is none and the one that starts next
\* either does or skips it.
Ahead(i) ==
    \/ \E n \in Nodes : Watching(n) /\ i > start[n]
    \/ \A n \in Nodes : ~Watching(n)

\* A younger event is confirmed already.
Overtaken(s, i) == \E j \in received[s] : j > i

\* No event disappears between two goroutines: whatever those of the instances
\* interleave and whoever is master, an event of the chain is confirmed by the
\* subscriber, given up at one of the places known for it, on its way, or still to be
\* read by a distributor.  Those places are: an error of a queue or a callback, which
\* is logged; the age of the event, for which a metric is counted; a queue that is
\* cleaned; and, leaving no trace of the event, a distributor that starts behind it and
\* had read no cursor for the subscriber, or an older one.  After a crash an event that
\* was in the hands of the process is redistributed from the stored cursor, unless
\* events left in the queues have meanwhile moved the cursor past it.  When there are
\* crashes this needs a master that lasts: a deposed instance that stops takes along an
\* event that the next distributor has passed.
Accounted ==
    \A s \in Subs : \A i \in Events :
        \/ Received(s, i) \/ LostBy(s, i) \/ InFlight(s, i) \/ Ahead(i)
        \/ crashes > 0 /\ Overtaken(s, i)

\* getResourceCursor finds the oldest cursor: a distributor keeps none that is younger
\* than one it has read for a subscriber, and so resumes behind no event which that
\* subscriber may still need.
FromOldest ==
    \A n \in Nodes : \A s \in Subs : seen[n][s] # 0 => oldest[n] \in 1 .. seen[n][s]

\* While one instance is master and does not crash, failures lose events but do not
\* reorder them: the stored cursor of a subscriber only moves forward, unless the
\* distributor resumed, which then takes a failed read of the chain.  Confirmed events
\* are distributed again in that case, but none up to the cursor it has kept.
CursorForward ==
    [][crashes' + flips' = 0 => \A s \in Subs :
        \/ cursor'[s] >= cursor[s]
        \/ \E n \in Nodes : oldest[n] # 0 /\ cursor'[s] > oldest[n]]_vars

\* Once there is a master for good, every event is confirmed by each subscriber or given up.
Delivered ==
    <>[](isMaster # {}) =>
        \A s \in Subs : \A i \in 1 .. MaxEvents :
            (i \in Events) ~> (Received(s, i) \/ LostBy(s, i))
=============================================================================
