------------------------------- MODULE HostCache -------------------------------
(***************************************************************************)
(* The cache of hosts in redis: the detail of each host and the list of all *)
(* host ids.  A watcher of the host collection refreshes a host when it    *)
(* changes, a request that misses a key refreshes it with what it read     *)
(* from MongoDB, and a request for a page of hosts renews the list.  All   *)
(* of them run concurrently, under locks in redis that expire; details     *)
(* carry a TTL.                                                            *)
(*                                                                         *)
(* The key from an address to its host is left out: it is set and deleted  *)
(* in the same pipelines, and a request that misses it is one that misses  *)
(* the host.  A request of which MongoDB has no host has no effect.        *)
(***************************************************************************)
EXTENDS Naturals, Sequences, FiniteSets

CONSTANTS
    MaxHosts,       \* host ids, in the order in which a page lists them
    Docs,           \* what the document of a host can be
    Readers,        \* requests for hosts, and the goroutines that refresh for them
    Listers,        \* requests for a page of hosts, and their goroutines
    Watcher,        \* the watcher of the collection
    ListStep,       \* listStep
    MaxWrites,      \* bound on the number of writes
    Faults,         \* kinds of failure that may occur
    MaxFaults       \* bound on the number of failures

Hosts == 1 .. MaxHosts
Nothing == 0        \* no document yet, no key
Gone == 1           \* a document that was deleted: ids are not used again
Free == "free"      \* no lock
ASSUME BoundsAssumption ==
    /\ {MaxHosts, MaxWrites, MaxFaults} \subseteq Nat
    /\ ListStep \in Nat \ {0}
ASSUME ProcsAssumption ==
    /\ Watcher \notin Readers \cup Listers
    /\ Readers \cap Listers = {} /\ Free \notin {Watcher} \cup Readers \cup Listers
ASSUME DocsAssumption == Docs \cap {Nothing, Gone} = {}
ASSUME FaultsAssumption == Faults \subseteq {"redis", "mongo", "timeout", "crash"}

Procs == {Watcher} \cup Readers \cup Listers
IdList == MaxHosts + 1
Keys == Hosts \cup {IdList}

VARIABLES
    db,         \* the host collection
    log,        \* its changes the watcher has not received: [host, deleted]
    writes,     \* number of changes so far
    details,    \* HostDetailKey
    idList,     \* HostIDListKey; redis has no empty one
    lock,       \* HostDetailLockKey, HostIDListLockKey: their holder
    refreshing, \* the keys of RefreshingLock
    pc, req,    \* where each process is, and the key it is about
    copy,       \* what it read from MongoDB
    todo,       \* commands of its pipeline that are not executed yet
    total, start, \* of a lister: the count and the position
    temp,       \* of a lister: HostIDListTempKey
    faults,     \* number of failures so far
    lapsed,     \* history: locks that expired under a process, until none works on the key
    outdated    \* history: << key, host >> that are wrong, with a cause that no event corrects

collection == << db, writes >>
cached == << details, idList >>
locals == << copy, todo >>
listing == << total, start, temp >>
vars == << collection, log, cached, lock, refreshing, pc, req, locals, listing,
           faults, lapsed, outdated >>

Existing == {h \in Hosts : db[h] \in Docs}
Rank(h) == Cardinality({g \in Existing : g <= h})
Page(l) == {h \in Existing : start[l] < Rank(h) /\ Rank(h) <= start[l] + ListStep}

Fail(kind) == kind \in Faults /\ faults < MaxFaults /\ faults' = faults + 1
NoFail == UNCHANGED faults
Goto(p, l) == pc' = [pc EXCEPT ![p] = l]

\* A change of the host has not reached the key yet.
Logged(h) == \E i \in DOMAIN log : log[i].host = h
Pending(key, h) ==
    \/ Logged(h)
    \/ pc[Watcher] \in {"read", "lock"} /\ req[Watcher] = h
    \/ \E i \in DOMAIN todo[Watcher] : todo[Watcher][i].key = key /\ todo[Watcher][i].host = h
\* Hosts whose detail is not their document, or that are wrongly in or out of the list.
Wrong(cache, list) ==
    {"detail"} \X {h \in Hosts : cache[h] \notin {Nothing, db[h]}}
        \cup {"list"} \X {h \in Hosts : list # {} /\ (h \in list <=> h \notin Existing)}
\* With this cache, these keys are wrong for a cause, unless an event is to follow.
Blame(keys, cache, list) ==
    outdated' = (outdated \cup {k \in keys : ~Pending(k[1], k[2])}) \cap Wrong(cache, list)
Both == {"detail", "list"}

\* A process that has taken the lock of the key.
Works(p, k) ==
    /\ k = (IF p \in Listers THEN IdList ELSE req[p])
    /\ \/ pc[p] \in {"count", "page", "unlock"}
       \/ pc[p] = "pipe" /\ Head(todo[p]).doc # Nothing
Leaves(p) == lapsed' = {k \in lapsed : \E q \in Procs \ {p} : Works(q, k)}

Init ==
    /\ db \in [Hosts -> Docs \cup {Nothing}]
    /\ log = << >> /\ writes = 0
    /\ details = [h \in Hosts |-> Nothing]
    /\ idList = {}
    /\ lock = [k \in Keys |-> Free]
    /\ refreshing = {}
    /\ pc = [p \in Procs |-> "idle"]
    /\ req = [p \in Procs |-> IdList]
    /\ copy = [p \in Procs |-> Nothing]
    /\ todo = [p \in Procs |-> << >>]
    /\ total = [l \in Listers |-> 0] /\ start = [l \in Listers |-> 0]
    /\ temp = [l \in Listers |-> {}]
    /\ faults = 0 /\ lapsed = {} /\ outdated = {}

-----------------------------------------------------------------------------
\* The collection.  A host id is never used again.

Write(h, doc) ==
    /\ writes < MaxWrites /\ writes' = writes + 1
    /\ db' = [db EXCEPT ![h] = doc]
    /\ log' = Append(log, [host |-> h, deleted |-> doc = Gone])
    /\ outdated' = outdated \ (Both \X {h})
    /\ UNCHANGED << cached, lock, refreshing, pc, req, locals, listing, faults, lapsed >>
Save(h) == \E doc \in Docs : db[h] \notin {doc, Gone} /\ Write(h, doc)
Remove(h) == h \in Existing /\ Write(h, Gone)

-----------------------------------------------------------------------------
\* Commands of redis.

\* The pipelines that write a host's detail and put it into the list, and that remove it.
SetAll(h, doc) == << [key |-> "detail", host |-> h, doc |-> doc],
                     [key |-> "list", host |-> h, doc |-> doc] >>
\* Mutant of DelAll: the id stays in the list.
DelDetail(h) == << [key |-> "detail", host |-> h, doc |-> Nothing] >>
DelAll(h) == SetAll(h, Nothing)

\* A request may write an older copy than the watcher did.
Command(p, c) ==
    \/ /\ c.key = "detail"
       /\ details' = [details EXCEPT ![c.host] = c.doc]
       /\ Blame(IF p = Watcher THEN {} ELSE {<< "detail", c.host >>}, details', idList)
       /\ UNCHANGED idList
    \* A list of which there was no key has only this id.
    \/ /\ c.key = "list"
       /\ idList' = IF c.doc = Nothing THEN idList \ {c.host} ELSE idList \cup {c.host}
       /\ Blame({"list"} \X {h \in Hosts : idList = {} \/ (h = c.host /\ p # Watcher)},
                details, idList')
       /\ UNCHANGED details

-----------------------------------------------------------------------------
\* The watcher.

Receive ==
    /\ pc[Watcher] = "idle" /\ log # << >>
    /\ LET e == Head(log)
       IN /\ req' = [req EXCEPT ![Watcher] = e.host]
          /\ IF e.deleted
             THEN Goto(Watcher, "pipe") /\ todo' = [todo EXCEPT ![Watcher] = DelAll(e.host)]
             ELSE Goto(Watcher, "read") /\ UNCHANGED todo
    /\ log' = Tail(log)
    /\ NoFail
    /\ UNCHANGED << collection, cached, lock, refreshing, copy, listing, lapsed, outdated >>
\* The archive of the deleted document is not found.
ReceiveError ==
    /\ pc[Watcher] = "idle" /\ log # << >> /\ Head(log).deleted
    /\ Fail("mongo")
    /\ log' = Tail(log)
    /\ outdated' = (outdated \cup Both \X {Head(log).host}) \cap Wrong(details, idList)
    /\ UNCHANGED << collection, cached, lock, refreshing, pc, req, locals, listing, lapsed >>

\* A process is done; the watcher's change is not in the cache if it failed.
Quit(p) ==
    /\ Goto(p, "idle")
    /\ req' = [req EXCEPT ![p] = IdList]
    /\ copy' = [copy EXCEPT ![p] = Nothing]
GiveUp(p) ==
    outdated' = IF p = Watcher /\ ~Logged(req[p])
                THEN (outdated \cup Both \X {req[p]}) \cap Wrong(details, idList) ELSE outdated

ReadAgain ==
    /\ pc[Watcher] = "read"
    /\ LET h == req[Watcher]
       IN \/ /\ h \in Existing /\ NoFail
             /\ copy' = [copy EXCEPT ![Watcher] = db[h]]
             /\ Goto(Watcher, "lock")
             /\ UNCHANGED << req, outdated >>
          \/ /\ (h \notin Existing /\ NoFail) \/ (h \in Existing /\ Fail("mongo"))
             /\ Quit(Watcher)
             /\ IF h \notin Existing THEN UNCHANGED outdated ELSE GiveUp(Watcher)
    /\ UNCHANGED << collection, log, cached, lock, refreshing, todo, listing, lapsed >>

-----------------------------------------------------------------------------
\* A request that misses a host reads it from MongoDB, and goes on to refresh it in a
\* goroutine unless one of this process does: CanRefresh here and SetRefreshing when
\* it goes on are two calls.
ReadHost(r) ==
    /\ pc[r] = "idle"
    /\ \E h \in Existing \ refreshing :
        /\ details[h] = Nothing
        /\ copy' = [copy EXCEPT ![r] = db[h]]
        /\ req' = [req EXCEPT ![r] = h]
    /\ Goto(r, "lock")
    /\ UNCHANGED << collection, log, cached, lock, refreshing, todo, listing, faults, lapsed,
                    outdated >>

-----------------------------------------------------------------------------
\* refreshHostDetailCache

Flag(p) == refreshing' = IF p \in Readers THEN refreshing \cup {req[p]} ELSE refreshing
Unflag(p) == refreshing' = IF p \in Readers THEN refreshing \ {req[p]} ELSE refreshing

\* Mutant of LockHost: the lock's key is set although it is there.
LockAnyway(p) ==
    /\ pc[p] = "lock"
    /\ lock' = [lock EXCEPT ![req[p]] = p]
    /\ todo' = [todo EXCEPT ![p] = SetAll(req[p], copy[p])]
    /\ Flag(p)
    /\ Goto(p, "pipe") /\ NoFail
    /\ UNCHANGED << collection, log, cached, req, copy, listing, lapsed, outdated >>
LockHost(p) ==
    /\ pc[p] = "lock"
    /\ \/ /\ lock[req[p]] = Free /\ NoFail
          /\ lock' = [lock EXCEPT ![req[p]] = p]
          /\ todo' = [todo EXCEPT ![p] = SetAll(req[p], copy[p])]
          /\ Flag(p)
          /\ Goto(p, "pipe")
          /\ UNCHANGED << req, copy, outdated >>
       \/ /\ (lock[req[p]] # Free /\ NoFail) \/ Fail("redis")
          /\ Unflag(p)
          /\ Quit(p)
          /\ GiveUp(p)
          /\ UNCHANGED << lock, todo >>
    /\ UNCHANGED << collection, log, cached, listing, lapsed >>

\* Behind the pipeline that sets, the lock's key is deleted.
Leave(p) ==
    IF Head(todo[p]).doc = Nothing THEN Quit(p) ELSE Goto(p, "unlock") /\ UNCHANGED << req, copy >>
\* The commands of a pipeline are executed in order, not as one.
Pipe(p) ==
    /\ pc[p] = "pipe"
    /\ Command(p, Head(todo[p]))
    /\ todo' = [todo EXCEPT ![p] = Tail(@)]
    /\ IF Len(todo[p]) > 1 THEN UNCHANGED << pc, req, copy >> ELSE Leave(p)
    /\ NoFail
    /\ UNCHANGED << collection, log, lock, refreshing, listing, lapsed >>
\* Mutant of PipeError: the commands left are kept.
PipeErrorKeeps(p) ==
    /\ pc[p] = "pipe" /\ Fail("redis")
    /\ Leave(p)
    /\ GiveUp(p)
    /\ UNCHANGED << collection, log, cached, lock, refreshing, todo, listing, lapsed >>
PipeError(p) ==
    /\ pc[p] = "pipe" /\ Fail("redis")
    /\ todo' = [todo EXCEPT ![p] = << >>]
    /\ Leave(p)
    /\ GiveUp(p)
    /\ UNCHANGED << collection, log, cached, lock, refreshing, listing, lapsed >>

\* The lock's key is deleted, whoever holds it.
UnlockHost(p) ==
    /\ pc[p] = "unlock" /\ p \notin Listers
    /\ \/ lock' = [lock EXCEPT ![req[p]] = Free] /\ NoFail
       \/ Fail("redis") /\ UNCHANGED lock
    /\ Unflag(p)
    /\ Quit(p) /\ Leaves(p)
    /\ UNCHANGED << collection, log, cached, todo, listing, outdated >>

-----------------------------------------------------------------------------
\* The list of host ids.

\* A request for a page finds no list, or its expiry key lets it renew the list.  Its
\* flag is cleared before its goroutine starts: only the lock excludes others.
LockList(l) ==
    /\ pc[l] = "idle" /\ lock[IdList] = Free
    /\ lock' = [lock EXCEPT ![IdList] = l]
    /\ Goto(l, "count")
    /\ UNCHANGED << collection, log, cached, refreshing, req, locals, listing, faults, lapsed,
                    outdated >>
EndListing(l) ==
    /\ Goto(l, "unlock")
    /\ total' = [total EXCEPT ![l] = 0] /\ start' = [start EXCEPT ![l] = 0]
    /\ temp' = [temp EXCEPT ![l] = {}]
CountHosts(l) ==
    /\ pc[l] = "count"
    /\ \/ /\ total' = [total EXCEPT ![l] = Cardinality(Existing)]
          /\ Goto(l, "page") /\ NoFail
          /\ UNCHANGED << start, temp >>
       \/ Fail("mongo") /\ EndListing(l)
    /\ UNCHANGED << collection, log, cached, lock, refreshing, req, locals, lapsed, outdated >>
ListPage(l) ==
    /\ pc[l] = "page" /\ start[l] < total[l]
    /\ \/ /\ temp' = [temp EXCEPT ![l] = @ \cup Page(l)]
          /\ start' = [start EXCEPT ![l] = @ + ListStep]
          /\ NoFail /\ UNCHANGED << pc, total >>
       \/ Fail("mongo") /\ EndListing(l)
    /\ UNCHANGED << collection, log, cached, lock, refreshing, req, locals, lapsed, outdated >>

\* The new list replaces the old one, unless it is empty: then there is no key to
\* rename, and the old one stays.
Rename(l) ==
    /\ pc[l] = "page" /\ start[l] >= total[l]
    /\ \/ /\ NoFail
          /\ idList' = IF temp[l] = {} THEN idList ELSE temp[l]
          /\ Blame({"list"} \X Hosts, details, idList')
       \/ Fail("redis") /\ UNCHANGED << idList, outdated >>
    /\ EndListing(l)
    /\ UNCHANGED << collection, log, details, lock, refreshing, req, locals, lapsed >>
UnlockList(l) ==
    /\ pc[l] = "unlock" /\ l \in Listers
    /\ \/ lock' = [lock EXCEPT ![IdList] = Free] /\ NoFail
       \/ Fail("redis") /\ UNCHANGED lock
    /\ Goto(l, "idle") /\ Leaves(l)
    /\ UNCHANGED << collection, log, cached, refreshing, req, locals, listing, outdated >>

-----------------------------------------------------------------------------
\* Time.

ExpireDetail(h) ==
    /\ details[h] # Nothing
    /\ details' = [details EXCEPT ![h] = Nothing]
    /\ Blame({}, details', idList)
    /\ UNCHANGED << collection, log, idList, lock, refreshing, pc, req, locals, listing, faults,
                    lapsed >>
\* The lock of a process that has ended, or that is slower than the lock lives.
ExpireLock(k) ==
    /\ lock[k] # Free
    /\ lock' = [lock EXCEPT ![k] = Free]
    /\ IF \E p \in Procs : lock[k] = p /\ Works(p, k)
       THEN Fail("timeout") /\ lapsed' = lapsed \cup {k}
       ELSE NoFail /\ UNCHANGED lapsed
    /\ UNCHANGED << collection, log, cached, refreshing, pc, req, locals, listing, outdated >>

\* The process stops.  It watches from now on when it is started again.
Crash ==
    /\ Fail("crash")
    /\ outdated' = Wrong(details, idList) /\ lapsed' = {}
    /\ log' = << >>
    /\ refreshing' = {}
    /\ pc' = [p \in Procs |-> "idle"] /\ req' = [p \in Procs |-> IdList]
    /\ copy' = [p \in Procs |-> Nothing] /\ todo' = [p \in Procs |-> << >>]
    /\ total' = [l \in Listers |-> 0] /\ start' = [l \in Listers |-> 0]
    /\ temp' = [l \in Listers |-> {}]
    /\ UNCHANGED << collection, cached, lock >>

-----------------------------------------------------------------------------
Writes == \E h \in Hosts : Save(h) \/ Remove(h)
Refresh(p) == LockHost(p) \/ Pipe(p) \/ UnlockHost(p)
RenewList(l) == CountHosts(l) \/ ListPage(l) \/ Rename(l) \/ UnlockList(l)
Expire == (\E h \in Hosts : ExpireDetail(h)) \/ (\E k \in Keys : ExpireLock(k))

Next ==
    \/ Writes
    \/ Receive \/ ReceiveError \/ ReadAgain
    \/ \E r \in Readers : ReadHost(r)
    \/ \E p \in Procs : Refresh(p) \/ PipeError(p)
    \/ \E l \in Listers : LockList(l) \/ RenewList(l)
    \/ Expire
    \/ Crash

Spec == Init /\ [][Next]_vars

-----------------------------------------------------------------------------
\* Keys, locks and commands are what the code writes, and a process has
\* commands to send only in its pipeline.
TypeOK ==
    /\ db \in [Hosts -> Docs \cup {Nothing, Gone}] /\ writes \in 0 .. MaxWrites
    /\ \A i \in DOMAIN log : log[i].host \in Hosts
    /\ details \in [Hosts -> Docs \cup {Nothing}] /\ idList \subseteq Hosts
    /\ lock \in [Keys -> Procs \cup {Free}]
    /\ refreshing \subseteq Keys
    /\ \A p \in Procs : (pc[p] = "pipe") <=> (todo[p] # << >>)
    /\ \A l \in Listers : temp[l] \subseteq Hosts

\* Two processes refresh one host at a time only when a lock expired while it was
\* held: neither the flags of the process, which are read and set in two calls,
\* nor a request that finds the lock taken let a second one in.
OneRefresher == \A k \in Keys \ lapsed : Cardinality({p \in Procs : Works(p, k)}) <= 1

\* When the changes of a host have been received, its detail and its place in the list
\* are those of the collection, whatever pipelines were interleaved.  They are
\* not only for hosts whose event was given up or found the lock taken, or
\* that a process refreshed after the event with what it had read before it.
Current == \A k \in Wrong(details, idList) \ outdated : Pending(k[1], k[2])

=============================================================================
