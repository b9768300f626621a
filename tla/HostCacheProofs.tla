---------------------------- MODULE HostCacheProofs ----------------------------
(***************************************************************************)
(* Proofs about the cache of hosts, for any hosts, requests, writes and    *)
(* failures.                                                               *)
(***************************************************************************)
EXTENDS HostCache, SharedLemmas, SequenceTheorems, TLAPS

-----------------------------------------------------------------------------
(* Type correctness.                                                       *)

Cached == Docs \cup {Nothing}
Events == [host : Hosts, deleted : BOOLEAN]
Commands == [key : Both, host : Hosts, doc : Cached]
RefresherPlaces == {"idle", "read", "lock", "pipe", "unlock"}
ListerPlaces == {"idle", "count", "page", "unlock"}

StoreType ==
    /\ db \in [Hosts -> Docs \cup {Nothing, Gone}] /\ writes \in 0 .. MaxWrites
    /\ log \in Seq(Events)
    /\ details \in [Hosts -> Cached] /\ idList \in SUBSET Hosts
LockType ==
    /\ lock \in [Keys -> Procs \cup {Free}]
    /\ refreshing \in SUBSET Keys /\ lapsed \in SUBSET Keys
ProcType ==
    /\ pc \in [Procs -> RefresherPlaces \cup ListerPlaces]
    /\ req \in [Procs -> Keys]
    /\ copy \in [Procs -> Cached]
    /\ todo \in [Procs -> Seq(Commands)]
    /\ total \in [Listers -> Nat] /\ start \in [Listers -> Nat]
    /\ temp \in [Listers -> SUBSET Hosts]
\* A process that refreshes is about a host, and its commands are about this host and
\* its copy of it; a pipeline that removes has no copy.
ProcOK ==
    /\ \A p \in Procs :
        /\ p \in Listers => pc[p] \in ListerPlaces /\ copy[p] = Nothing
        /\ p \notin Listers => pc[p] \in RefresherPlaces
        /\ pc[p] = "read" => p = Watcher
        /\ pc[p] \in {"read", "lock", "pipe"} => req[p] \in Hosts
        /\ pc[p] = "unlock" /\ p \notin Listers => req[p] \in Hosts
        /\ pc[p] \in {"idle", "read"} => copy[p] = Nothing
        /\ pc[p] = "lock" => copy[p] \in Docs
        /\ (pc[p] = "pipe") <=> (todo[p] # << >>)
    /\ \A p \in Procs : \A i \in DOMAIN todo[p] :
        todo[p][i].host = req[p] /\ todo[p][i].doc = copy[p]

TypeInv == StoreType /\ LockType /\ ProcType /\ ProcOK

-----------------------------------------------------------------------------
(* Who refreshes a key.                                                    *)

\* Who works on a key has its lock, unless one expired under a process.
WorkerHolds == \A k \in Keys \ lapsed : \A p \in Procs : Works(p, k) => lock[k] = p
WorkInv == TypeInv /\ WorkerHolds

-----------------------------------------------------------------------------
(* What the watcher knows.                                                 *)

\* A deletion is for good; a host of which the last change is not one exists.
LogTells ==
    \A i \in DOMAIN log :
        /\ log[i].deleted => db[log[i].host] = Gone
        /\ ~log[i].deleted =>
              \/ db[log[i].host] \in Docs
              \/ \E j \in DOMAIN log : j > i /\ log[j].host = log[i].host
\* The watcher's copy is the document, or another change of the host is in the log.
CopyTells ==
    /\ pc[Watcher] = "read" => req[Watcher] \in Existing \/ Logged(req[Watcher])
    /\ pc[Watcher] \in {"lock", "pipe"} /\ copy[Watcher] # Nothing =>
          db[req[Watcher]] = copy[Watcher] \/ Logged(req[Watcher])
    /\ pc[Watcher] = "pipe" /\ copy[Watcher] = Nothing => db[req[Watcher]] = Gone
\* What is wrong in the cache has a cause, or an event is to follow.
WrongDetail(h) == details[h] \notin {Nothing, db[h]}
WrongPlace(h) == idList # {} /\ (h \in idList <=> h \notin Existing)
WrongExplained ==
    \A h \in Hosts :
        /\ WrongDetail(h) => << "detail", h >> \in outdated \/ Pending("detail", h)
        /\ WrongPlace(h) => << "list", h >> \in outdated \/ Pending("list", h)
CurrentInv == TypeInv /\ LogTells /\ CopyTells /\ WrongExplained

-----------------------------------------------------------------------------
(* The steps keep the types.                                               *)

\* What the run checks is part of the inductive type invariant.
LEMMA TypeInvTypes == TypeInv => TypeOK
<1> SUFFICES ASSUME TypeInv
             PROVE  TypeOK
  OBVIOUS
<1>1. \A i \in DOMAIN log : log[i].host \in Hosts
  <2>1. log \in [1 .. Len(log) -> Events] /\ DOMAIN log = 1 .. Len(log)
    BY LenProperties DEF TypeInv, StoreType
  <2> QED BY <2>1 DEF Events
<1> QED BY <1>1 DEF TypeInv, StoreType, LockType, ProcType, ProcOK, TypeOK, Cached

\* The initial states have the types.
LEMMA TypeInit == Init => TypeInv
<1> SUFFICES ASSUME Init
             PROVE  TypeInv
  OBVIOUS
<1> USE DEF Init
<1>1. StoreType
  BY BoundsAssumption, EmptySeq DEF StoreType, Cached
<1>2. LockType
  BY DEF LockType
<1>3. ProcType
  BY BoundsAssumption, EmptySeq DEF ProcType, RefresherPlaces, Cached, Keys, IdList
<1>4. ProcOK
  BY DEF ProcOK, ListerPlaces, RefresherPlaces
<1> QED BY <1>1, <1>2, <1>3, <1>4 DEF TypeInv

\* A pipeline is of two commands about one host.
Pipeline(q, h, doc) ==
    /\ q \in Seq(Commands) /\ q # << >> /\ DOMAIN q = {1, 2}
    /\ q[1].key = "detail" /\ q[2].key = "list"
    /\ \A i \in DOMAIN q : q[i].host = h /\ q[i].doc = doc

\* A pipeline that sets a host's keys is one of its pipelines.
LEMMA SetAllType == \A h \in Hosts : \A doc \in Cached : Pipeline(SetAll(h, doc), h, doc)
BY DEF SetAll, Commands, Both, Pipeline

\* What a process has still to send is about its host.
LEMMA HeadType ==
  ASSUME TypeInv, NEW p \in Procs, pc[p] = "pipe"
  PROVE  /\ 1 \in DOMAIN todo[p] /\ Head(todo[p]) = todo[p][1] /\ Head(todo[p]) \in Commands
         /\ Head(todo[p]).host = req[p] /\ Head(todo[p]).doc = copy[p]
         /\ Tail(todo[p]) \in Seq(Commands) /\ Len(todo[p]) \in Nat \ {0}
         /\ (Tail(todo[p]) = << >> <=> Len(todo[p]) = 1)
         /\ \A i \in DOMAIN Tail(todo[p]) :
                i + 1 \in DOMAIN todo[p] /\ Tail(todo[p])[i] = todo[p][i + 1]
         /\ p \notin Listers /\ req[p] \in Hosts
<1>1. todo[p] \in Seq(Commands) /\ todo[p] # << >>
  BY DEF TypeInv, ProcType, ProcOK
<1>2. /\ 1 \in DOMAIN todo[p] /\ Head(todo[p]) = todo[p][1] /\ Head(todo[p]) \in Commands
      /\ Tail(todo[p]) \in Seq(Commands) /\ Len(todo[p]) \in Nat \ {0}
      /\ (Tail(todo[p]) = << >> <=> Len(todo[p]) = 1)
  BY <1>1, TailFacts
<1>3. \A i \in DOMAIN Tail(todo[p]) :
          i + 1 \in DOMAIN todo[p] /\ Tail(todo[p])[i] = todo[p][i + 1]
  BY <1>1, TailFacts
<1>4. p \notin Listers /\ req[p] \in Hosts
  BY DEF TypeInv, ProcOK, ListerPlaces
<1> QED BY <1>2, <1>3, <1>4 DEF TypeInv, ProcOK

\* A host is written, or deleted, in the database.
LEMMA TypeWrite ==
  ASSUME TypeInv, NEW h \in Hosts, NEW doc \in Docs \cup {Gone}, Write(h, doc)
  PROVE  TypeInv'
<1>1. [host |-> h, deleted |-> doc = Gone] \in Events
  BY DEF Events
<1>2. StoreType'
  BY <1>1, BoundsAssumption DEF Write, TypeInv, StoreType, cached
<1> QED BY <1>2 DEF Write, TypeInv, LockType, ProcType, ProcOK, locals, listing

\* The first event of the log and the rest of it.
LEMMA EventType ==
  ASSUME TypeInv, log # << >>
  PROVE  /\ Head(log) \in Events /\ Tail(log) \in Seq(Events) /\ Head(log) = log[1]
         /\ 1 \in DOMAIN log
         /\ \A i \in DOMAIN Tail(log) : i + 1 \in DOMAIN log /\ Tail(log)[i] = log[i + 1]
         /\ \A i \in DOMAIN log \ {1} : i - 1 \in DOMAIN Tail(log) /\ Tail(log)[i - 1] = log[i]
<1>1. log \in Seq(Events)
  BY DEF TypeInv, StoreType
<1> QED BY <1>1, TailFacts

\* The watcher takes an event, or fails to.
LEMMA TypeReceive ==
  ASSUME TypeInv, Receive \/ ReceiveError
  PROVE  TypeInv'
<1> USE DEF TypeInv
<1>1. /\ pc[Watcher] = "idle" /\ log' = Tail(log) /\ Head(log) \in Events /\ log' \in Seq(Events)
      /\ UNCHANGED << collection, cached, lock, refreshing, copy, listing, lapsed >>
  BY EventType DEF Receive, ReceiveError, locals
<1>2. StoreType' /\ LockType'
  BY <1>1 DEF StoreType, LockType, collection, cached
<1>3. CASE ReceiveError
  BY <1>1, <1>2, <1>3 DEF ReceiveError, ProcType, ProcOK, locals, listing
<1>4. CASE Receive
  <2> DEFINE h == Head(log).host
  <2>1. h \in Hosts /\ Watcher \in Procs /\ Watcher \notin Listers /\ copy[Watcher] = Nothing
    BY <1>1, ProcsAssumption DEF Events, Procs, ProcOK
  <2>2. req' = [req EXCEPT ![Watcher] = h]
    BY <1>4 DEF Receive
  <2> HIDE DEF h
  <2>3. CASE pc' = [pc EXCEPT ![Watcher] = "pipe"] /\ todo' = [todo EXCEPT ![Watcher] = DelAll(h)]
    <3> Nothing \in Cached
      BY DEF Cached
    <3>1. /\ DelAll(h) \in Seq(Commands) /\ DelAll(h) # << >>
          /\ \A i \in DOMAIN DelAll(h) : DelAll(h)[i].host = h /\ DelAll(h)[i].doc = Nothing
      BY <2>1, SetAllType DEF DelAll, Pipeline
    <3>2. ProcType'
      BY <1>1, <2>1, <2>2, <2>3, <3>1 DEF ProcType, RefresherPlaces, Keys, listing
    <3>3. ProcOK'
      BY <1>1, <2>1, <2>2, <2>3, <3>1 DEF ProcType, ProcOK, RefresherPlaces
    <3> QED BY <1>2, <3>2, <3>3
  <2>4. CASE pc' = [pc EXCEPT ![Watcher] = "read"] /\ UNCHANGED todo
    <3>1. ProcType'
      BY <1>1, <2>1, <2>2, <2>4 DEF ProcType, RefresherPlaces, Keys, listing
    <3>2. ProcOK'
      BY <1>1, <2>1, <2>2, <2>4 DEF ProcType, ProcOK, RefresherPlaces
    <3> QED BY <1>2, <3>1, <3>2
  <2> QED BY <1>4, <2>3, <2>4 DEF Receive, Goto, h
<1> QED BY <1>3, <1>4

\* A process that is done is as it was before.
LEMMA QuitType ==
  ASSUME TypeInv, NEW p \in Procs \ Listers, Quit(p), UNCHANGED listing,
         todo' = [todo EXCEPT ![p] = << >>]
  PROVE  ProcType' /\ ProcOK'
<1> USE DEF TypeInv, Quit, Goto
<1>1. ProcType'
  BY EmptySeq DEF ProcType, RefresherPlaces, Keys, Cached, listing
<1>2. ProcOK'
  BY DEF ProcType, ProcOK, RefresherPlaces
<1> QED BY <1>1, <1>2

\* The watcher reads the host that its event is about.
LEMMA TypeReadAgain ==
  ASSUME TypeInv, ReadAgain
  PROVE  TypeInv'
<1> USE DEF TypeInv
<1>1. /\ Watcher \in Procs \ Listers /\ req[Watcher] \in Hosts /\ pc[Watcher] = "read"
      /\ todo[Watcher] = << >>
  BY ProcsAssumption DEF ReadAgain, Procs, ProcOK
<1>2. StoreType' /\ LockType'
  BY DEF ReadAgain, StoreType, LockType, collection, cached
<1>3. todo' = [todo EXCEPT ![Watcher] = << >>] /\ UNCHANGED listing
  BY <1>1 DEF ReadAgain, ProcType
<1>4. CASE Quit(Watcher)
  BY <1>1, <1>2, <1>3, <1>4, QuitType
<1>5. CASE /\ req[Watcher] \in Existing /\ copy' = [copy EXCEPT ![Watcher] = db[req[Watcher]]]
           /\ Goto(Watcher, "lock") /\ UNCHANGED << req, todo >>
  <2>1. db[req[Watcher]] \in Docs
    BY <1>5 DEF Existing
  <2>2. ProcType'
    BY <1>1, <1>3, <1>5, <2>1 DEF ProcType, RefresherPlaces, Cached, Goto, listing
  <2>3. ProcOK'
    BY <1>1, <1>5, <2>1 DEF ProcType, ProcOK, RefresherPlaces, Goto
  <2> QED BY <1>2, <2>2, <2>3
<1> QED BY <1>4, <1>5 DEF ReadAgain

\* A request reads a host that the cache lacks.
LEMMA TypeReadHost ==
  ASSUME TypeInv, NEW r \in Readers, ReadHost(r)
  PROVE  TypeInv'
<1> USE DEF TypeInv
<1>1. r \in Procs \ Listers /\ r # Watcher /\ pc[r] = "idle" /\ todo[r] = << >>
  BY ProcsAssumption DEF ReadHost, Procs, ProcOK
<1>2. PICK h \in Hosts : /\ db[h] \in Docs /\ copy' = [copy EXCEPT ![r] = db[h]]
                         /\ req' = [req EXCEPT ![r] = h]
  BY DEF ReadHost, Existing
<1>3. StoreType' /\ LockType'
  BY DEF ReadHost, StoreType, LockType, collection, cached
<1>4. ProcType'
  BY <1>1, <1>2 DEF ReadHost, ProcType, RefresherPlaces, Cached, Keys, Goto, listing
<1>5. ProcOK'
  BY <1>1, <1>2 DEF ReadHost, ProcType, ProcOK, RefresherPlaces, Goto
<1> QED BY <1>3, <1>4, <1>5

\* Someone tries to get the lock of a host.
LEMMA TypeLockHost ==
  ASSUME TypeInv, NEW p \in Procs, LockHost(p)
  PROVE  TypeInv'
<1> USE DEF TypeInv
<1>1. /\ p \notin Listers /\ pc[p] = "lock" /\ req[p] \in Hosts /\ req[p] \in Keys
      /\ copy[p] \in Docs /\ copy[p] \in Cached /\ todo[p] = << >>
  BY DEF LockHost, ProcOK, ListerPlaces, Keys, Cached
<1>2. StoreType'
  BY DEF LockHost, StoreType, collection, cached
<1>3. LockType'
  BY <1>1 DEF LockHost, LockType, Flag, Unflag
<1>4. CASE /\ todo' = [todo EXCEPT ![p] = SetAll(req[p], copy[p])] /\ Goto(p, "pipe")
           /\ UNCHANGED << req, copy >>
  <2>1. /\ SetAll(req[p], copy[p]) \in Seq(Commands) /\ SetAll(req[p], copy[p]) # << >>
        /\ \A i \in DOMAIN SetAll(req[p], copy[p]) :
              SetAll(req[p], copy[p])[i].host = req[p] /\ SetAll(req[p], copy[p])[i].doc = copy[p]
    BY <1>1, SetAllType DEF Pipeline
  <2>2. ProcType'
    BY <1>4, <2>1 DEF LockHost, ProcType, RefresherPlaces, Goto, listing
  <2>3. ProcOK'
    BY <1>1, <1>4, <2>1 DEF ProcType, ProcOK, RefresherPlaces, Goto
  <2> QED BY <1>2, <1>3, <2>2, <2>3
<1>5. CASE Quit(p) /\ UNCHANGED todo
  <2>1. todo' = [todo EXCEPT ![p] = << >>] /\ UNCHANGED listing
    BY <1>1, <1>5 DEF LockHost, ProcType
  <2> QED BY <1>1, <1>2, <1>3, <1>5, <2>1, QuitType
<1> QED BY <1>4, <1>5 DEF LockHost

\* A command writes what is cached of its host.
LEMMA CommandType ==
  ASSUME TypeInv, NEW p \in Procs, NEW c \in Commands, Command(p, c)
  PROVE  details' \in [Hosts -> Cached] /\ idList' \in SUBSET Hosts
BY DEF Command, Commands, TypeInv, StoreType

\* Behind its pipeline a process unlocks or is done.
LEMMA LeaveType ==
  ASSUME TypeInv, NEW p \in Procs, pc[p] = "pipe", Leave(p), UNCHANGED listing,
         todo' = [todo EXCEPT ![p] = << >>]
  PROVE  ProcType' /\ ProcOK'
<1> USE DEF TypeInv
<1>1. p \in Procs \ Listers /\ req[p] \in Hosts
  BY HeadType
<1>2. CASE Quit(p)
  BY <1>1, <1>2, QuitType
<1>3. CASE Goto(p, "unlock") /\ UNCHANGED << req, copy >>
  <2>1. ProcType'
    BY <1>1, <1>3, EmptySeq DEF ProcType, RefresherPlaces, Goto, listing
  <2>2. ProcOK'
    BY <1>1, <1>3 DEF ProcType, ProcOK, RefresherPlaces, Goto
  <2> QED BY <2>1, <2>2
<1> QED BY <1>2, <1>3 DEF Leave

\* The next command of a pipeline reaches redis.
LEMMA TypePipe ==
  ASSUME TypeInv, NEW p \in Procs, Pipe(p)
  PROVE  TypeInv'
<1> USE DEF TypeInv
<1>1. pc[p] = "pipe" /\ Head(todo[p]) \in Commands
  BY HeadType DEF Pipe
<1>2. StoreType'
  BY <1>1, CommandType DEF Pipe, StoreType, collection
<1>3. LockType'
  BY DEF Pipe, LockType
<1>4. CASE Len(todo[p]) > 1
  <2>1. Tail(todo[p]) \in Seq(Commands) /\ Tail(todo[p]) # << >>
        /\ \A i \in DOMAIN Tail(todo[p]) :
               Tail(todo[p])[i].host = req[p] /\ Tail(todo[p])[i].doc = copy[p]
    BY <1>1, <1>4, HeadType DEF ProcOK
  <2>2. UNCHANGED << pc, req, copy, listing >> /\ todo' = [todo EXCEPT ![p] = Tail(@)]
    BY <1>4 DEF Pipe
  <2>3. ProcType'
    BY <2>1, <2>2 DEF ProcType, listing
  <2>4. ProcOK'
    BY <2>1, <2>2 DEF ProcType, ProcOK
  <2> QED BY <1>2, <1>3, <2>3, <2>4
<1>5. CASE ~(Len(todo[p]) > 1)
  <2>1. Tail(todo[p]) = << >>
    BY <1>1, <1>5, HeadType
  <2>2. Leave(p) /\ UNCHANGED listing /\ todo' = [todo EXCEPT ![p] = << >>]
    BY <1>5, <2>1 DEF Pipe, ProcType
  <2> QED BY <1>1, <1>2, <1>3, <2>2, LeaveType
<1> QED BY <1>4, <1>5

\* A pipeline fails: the commands that are left never reach redis.
LEMMA TypePipeError ==
  ASSUME TypeInv, NEW p \in Procs, PipeError(p)
  PROVE  TypeInv'
<1> USE DEF TypeInv
<1>1. StoreType' /\ LockType'
  BY DEF PipeError, StoreType, LockType, collection, cached
<1> QED BY <1>1, LeaveType DEF PipeError

\* The lock is given up.
LEMMA TypeUnlockHost ==
  ASSUME TypeInv, NEW p \in Procs, UnlockHost(p)
  PROVE  TypeInv'
<1> USE DEF TypeInv
<1>1. p \in Procs \ Listers /\ req[p] \in Keys /\ todo[p] = << >>
  BY DEF UnlockHost, ProcOK, Keys
<1>2. StoreType'
  BY DEF UnlockHost, StoreType, collection, cached
<1>3. LockType'
  <2>1. lock' \in [Keys -> Procs \cup {Free}]
    BY DEF UnlockHost, LockType
  <2>2. lapsed' \subseteq lapsed
    BY DEF UnlockHost, Leaves
  <2> QED BY <1>1, <2>1, <2>2 DEF UnlockHost, LockType, Unflag
<1>4. todo' = [todo EXCEPT ![p] = << >>] /\ UNCHANGED listing
  BY <1>1 DEF UnlockHost, ProcType
<1> QED BY <1>1, <1>2, <1>3, <1>4, QuitType DEF UnlockHost

\* A lister has only its own places and variables.
LEMMA ListerStep ==
  ASSUME TypeInv, NEW l \in Listers, NEW d \in ListerPlaces, pc' \in {pc, [pc EXCEPT ![l] = d]},
         UNCHANGED << req, locals >>,
         total' \in [Listers -> Nat], start' \in [Listers -> Nat],
         temp' \in [Listers -> SUBSET Hosts]
  PROVE  ProcType' /\ ProcOK'
<1> USE DEF TypeInv
<1>1. l \in Procs /\ pc[l] \in ListerPlaces /\ copy[l] \in Cached
  BY DEF Procs, ProcOK, ProcType
<1>2. ProcType'
  BY <1>1 DEF ProcType, locals
<1>3. l # Watcher /\ todo[l] = << >> /\ pc[l] # "pipe" /\ d # "pipe"
  BY <1>1, ProcsAssumption DEF ProcOK, ListerPlaces
<1>4. ProcOK'
  BY <1>1, <1>3 DEF ProcType, ProcOK, ListerPlaces, locals
<1> QED BY <1>2, <1>4

\* The host id list is locked, and renewed step by step.
LEMMA TypeListing ==
  ASSUME TypeInv, NEW l \in Listers, LockList(l) \/ RenewList(l)
  PROVE  TypeInv'
<1> USE DEF TypeInv
<1>1. l \in Procs /\ IdList \in Keys /\ pc[l] \in ListerPlaces
  BY DEF Procs, Keys, ProcOK
<1>2. StoreType'
  <2>1. CASE Rename(l)
    BY <2>1 DEF Rename, StoreType, collection, ProcType
  <2> QED BY <2>1 DEF LockList, RenewList, CountHosts, ListPage, UnlockList, StoreType, collection, cached
<1>3. LockType'
  <2>1. lapsed' \in SUBSET Keys
    BY DEF LockList, RenewList, CountHosts, ListPage, Rename, UnlockList, Leaves, LockType
  <2>2. lock' \in [Keys -> Procs \cup {Free}] /\ refreshing' \in SUBSET Keys
    BY <1>1 DEF LockList, RenewList, CountHosts, ListPage, Rename, UnlockList, LockType
  <2> QED BY <2>1, <2>2 DEF LockType
<1>4. UNCHANGED << req, locals >> /\ \E d \in ListerPlaces : pc' \in {pc, [pc EXCEPT ![l] = d]}
  BY DEF LockList, RenewList, CountHosts, ListPage, Rename, UnlockList, EndListing, Goto, ListerPlaces
<1>5. /\ total' \in [Listers -> Nat] /\ start' \in [Listers -> Nat]
      /\ temp' \in [Listers -> SUBSET Hosts]
  <2>1. Existing \in SUBSET (0 .. MaxHosts) /\ Page(l) \subseteq Hosts
    BY BoundsAssumption DEF Existing, Hosts, Page
  <2>2. Cardinality(Existing) \in Nat
    BY <2>1, BoundsAssumption, BoundedFinite
  <2>3. CASE EndListing(l)
    BY <2>3 DEF EndListing, ProcType
  <2>4. CASE UNCHANGED << start, temp >> /\ total' = [total EXCEPT ![l] = Cardinality(Existing)]
    BY <2>2, <2>4 DEF ProcType
  <2>5. CASE /\ temp' = [temp EXCEPT ![l] = @ \cup Page(l)]
             /\ start' = [start EXCEPT ![l] = @ + ListStep] /\ UNCHANGED total
    <3>1. start[l] \in Nat /\ start[l] + ListStep \in Nat /\ temp[l] \cup Page(l) \in SUBSET Hosts
      BY <2>1, BoundsAssumption DEF ProcType
    <3> QED BY <2>5, <3>1 DEF ProcType
  <2>6. CASE UNCHANGED listing
    BY <2>6 DEF listing, ProcType
  <2> HIDE DEF TypeInv
  <2> QED BY <2>3, <2>4, <2>5, <2>6
          DEF LockList, RenewList, CountHosts, ListPage, Rename, UnlockList
<1> QED BY <1>2, <1>3, <1>4, <1>5, ListerStep

\* A cached detail, or a lock, is gone when its time is over.
LEMMA TypeExpire ==
  ASSUME TypeInv, Expire
  PROVE  TypeInv'
<1> USE DEF TypeInv
<1>1. StoreType'
  BY DEF Expire, ExpireDetail, ExpireLock, StoreType, collection, cached, Cached
<1>2. LockType'
  BY DEF Expire, ExpireDetail, ExpireLock, LockType
<1>3. ProcType' /\ ProcOK'
  BY DEF Expire, ExpireDetail, ExpireLock, ProcType, ProcOK, locals, listing
<1> QED BY <1>1, <1>2, <1>3

\* The process stops, and starts anew with nothing in its hands.
LEMMA TypeCrash ==
  ASSUME TypeInv, Crash
  PROVE  TypeInv'
<1> USE DEF TypeInv
<1>1. StoreType' /\ LockType'
  BY EmptySeq DEF Crash, StoreType, LockType, collection, cached
<1>2. ProcType'
  BY EmptySeq, BoundsAssumption DEF Crash, ProcType, RefresherPlaces, Cached, Keys, IdList
<1>3. ProcOK'
  BY DEF Crash, ProcOK, RefresherPlaces, ListerPlaces
<1> QED BY <1>1, <1>2, <1>3

\* Every step keeps the types.
LEMMA TypeStep == TypeInv /\ [Next]_vars => TypeInv'
<1> SUFFICES ASSUME TypeInv, [Next]_vars
             PROVE  TypeInv'
  OBVIOUS
<1>1. CASE UNCHANGED vars
  BY <1>1 DEF vars, collection, cached, locals, listing, TypeInv, StoreType, LockType, ProcType, ProcOK
<1>2. CASE Writes
  BY <1>2, TypeWrite DEF Writes, Save, Remove
<1>3. ASSUME NEW p \in Procs, Refresh(p) \/ PipeError(p)
      PROVE  TypeInv'
  BY <1>3, TypeLockHost, TypePipe, TypeUnlockHost, TypePipeError DEF Refresh
<1> QED BY <1>1, <1>2, <1>3, TypeReceive, TypeReadAgain, TypeReadHost, TypeListing, TypeExpire,
           TypeCrash DEF Next

\* Type correctness: the keys hold what is cached, and a process has commands to send
\* exactly while it is in its pipeline.
THEOREM TypeCorrect == Spec => []TypeOK
<1> QED BY TypeInit, TypeStep, TypeInvTypes, PTL DEF Spec

-----------------------------------------------------------------------------
(* One process refreshes a key.                                            *)

\* What a process does.
Acts(p) ==
    \/ p = Watcher /\ (Receive \/ ReceiveError \/ ReadAgain)
    \/ p \in Readers /\ ReadHost(p)
    \/ Refresh(p) \/ PipeError(p)
    \/ p \in Listers /\ (LockList(p) \/ RenewList(p))

\* A step is a write, an expiry, a crash or someone's act.
LEMMA NextActs == Next <=> Writes \/ Expire \/ Crash \/ \E p \in Procs : Acts(p)
BY DEF Next, Acts, Procs

\* It leaves the other processes alone.
LEMMA OthersKept ==
  ASSUME TypeInv, NEW p \in Procs, Acts(p)
  PROVE  \A q \in Procs \ {p} :
            pc'[q] = pc[q] /\ req'[q] = req[q] /\ copy'[q] = copy[q] /\ todo'[q] = todo[q]
<1> USE DEF TypeInv, ProcType, Goto, Quit, Leave, locals
<1>1. Receive \/ ReceiveError \/ ReadAgain =>
        /\ pc' \in {pc, [pc EXCEPT ![Watcher] = pc'[Watcher]]}
        /\ req' \in {req, [req EXCEPT ![Watcher] = req'[Watcher]]}
        /\ copy' \in {copy, [copy EXCEPT ![Watcher] = copy'[Watcher]]}
        /\ todo' \in {todo, [todo EXCEPT ![Watcher] = todo'[Watcher]]}
  BY DEF Receive, ReceiveError, ReadAgain
<1>2. CASE p = Watcher /\ (Receive \/ ReceiveError \/ ReadAgain)
  BY <1>1, <1>2
<1>3. CASE ReadHost(p)
  BY <1>3 DEF ReadHost
<1>4. CASE LockHost(p) \/ UnlockHost(p) \/ PipeError(p)
  BY <1>4 DEF LockHost, UnlockHost, PipeError
<1>5. CASE Pipe(p)
  BY <1>5 DEF Pipe
<1>6. CASE LockList(p) \/ RenewList(p)
  BY <1>6 DEF LockList, RenewList, CountHosts, ListPage, Rename, UnlockList, EndListing
<1> QED BY <1>2, <1>3, <1>4, <1>5, <1>6 DEF Acts, Refresh

\* A process works on a key when it has taken its lock, and not when it has given it back.
Takes(p, k) == lock[k] = Free /\ lock' = [lock EXCEPT ![k] = p]

\* What an act does to the locks: nothing, it takes one, or it leaves one.
LEMMA WorkAct ==
  ASSUME TypeInv, NEW p \in Procs, Acts(p)
  PROVE  \/ /\ UNCHANGED << lock, lapsed >>
            /\ \A k \in Keys : Works(p, k)' => Works(p, k)
         \/ /\ UNCHANGED lapsed
            /\ \E k \in Keys : Takes(p, k) /\ \A l \in Keys \ {k} : ~Works(p, l)'
         \/ /\ Leaves(p) /\ \A k \in Keys : ~Works(p, k)'
            /\ lock' = lock \/ \E k \in Keys : Works(p, k) /\ lock' = [lock EXCEPT ![k] = Free]
<1> USE DEF TypeInv, ProcType
<1>1. CASE p = Watcher /\ (Receive \/ ReceiveError \/ ReadAgain)
  <2>1. UNCHANGED << lock, lapsed >>
    BY <1>1 DEF Receive, ReceiveError, ReadAgain
  <2>2. CASE ReceiveError
    BY <1>1, <2>1, <2>2 DEF ReceiveError, Works, locals
  <2>3. CASE ReadAgain
    <3>1. pc'[p] \in {"idle", "lock"} /\ p \notin Listers
      BY <1>1, <2>3, ProcsAssumption DEF ReadAgain, Quit, Goto
    <3> QED BY <2>1, <3>1 DEF Works
  <2>4. CASE Receive
    <3>1. Head(log).host \in Hosts
      BY <2>4, EventType DEF Receive, Events
    <3>2. Head(DelAll(Head(log).host)).doc = Nothing
      BY DEF DelAll, SetAll
    <3>3. \/ pc'[p] = "read"
          \/ pc'[p] = "pipe" /\ todo'[p] = DelAll(Head(log).host)
      BY <1>1, <2>4 DEF Receive, Goto
    <3>4. \A k \in Keys : ~Works(p, k)'
      BY <3>2, <3>3 DEF Works
    <3> QED BY <2>1, <3>4
  <2> QED BY <1>1, <2>2, <2>3, <2>4
<1>2. CASE ReadHost(p)
  <2>1. pc'[p] = "lock" /\ UNCHANGED << lock, lapsed >>
    BY <1>2 DEF ReadHost, Goto
  <2> QED BY <2>1 DEF Works
<1>3. CASE LockHost(p)
  <2>1. p \notin Listers /\ req[p] \in Keys
    BY <1>3 DEF LockHost, ProcOK, ListerPlaces
  <2>2. CASE lock[req[p]] = Free /\ lock' = [lock EXCEPT ![req[p]] = p] /\ UNCHANGED req
    <3>1. \A l \in Keys \ {req[p]} : ~Works(p, l)'
      BY <2>1, <2>2 DEF Works
    <3> QED BY <1>3, <2>1, <2>2, <3>1 DEF LockHost, Takes
  <2>3. CASE Quit(p) /\ UNCHANGED lock
    <3>1. pc'[p] = "idle"
      BY <2>3 DEF Quit, Goto
    <3> QED BY <1>3, <2>3, <3>1 DEF LockHost, Works
  <2> QED BY <1>3, <2>2, <2>3 DEF LockHost
<1>4. CASE Pipe(p) \/ PipeError(p)
  <2>1. pc[p] = "pipe" /\ UNCHANGED << lock, lapsed >>
    BY <1>4 DEF Pipe, PipeError
  <2>2. p \notin Listers
    BY <2>1 DEF ProcOK, ListerPlaces
  <2>3. CASE Leave(p)
    <3>1. CASE Head(todo[p]).doc = Nothing
      <4>1. pc'[p] = "idle"
        BY <2>3, <3>1 DEF Leave, Quit, Goto
      <4> QED BY <2>1, <4>1 DEF Works
    <3>2. CASE Head(todo[p]).doc # Nothing
      <4>1. req' = req /\ pc'[p] = "unlock"
        BY <2>3, <3>2 DEF Leave, Goto
      <4> QED BY <2>1, <2>2, <3>2, <4>1 DEF Works
    <3> QED BY <3>1, <3>2
  <2>4. CASE Pipe(p) /\ Len(todo[p]) > 1
    <3>1. UNCHANGED << pc, req >> /\ todo' = [todo EXCEPT ![p] = Tail(@)]
      BY <2>4 DEF Pipe
    <3>2. Head(Tail(todo[p])).doc = Head(todo[p]).doc
      <4> HIDE DEF ProcType, TypeInv
      <4>1. Tail(todo[p]) # << >> /\ Tail(todo[p]) \in Seq(Commands)
        <5> DEFINE n == Len(todo[p])
        <5>1. n > 1
          BY <2>4
        <5>2. Tail(todo[p]) \in Seq(Commands) /\ (Tail(todo[p]) = << >> <=> n = 1)
          BY <2>1, HeadType
        <5> HIDE DEF n
        <5> QED BY <5>1, <5>2
      <4>2. 1 \in DOMAIN Tail(todo[p]) /\ Head(Tail(todo[p])) = Tail(todo[p])[1]
        BY <4>1, TailFacts
      <4> QED BY <2>1, <4>2, HeadType DEF TypeInv, ProcOK
    <3> QED BY <2>1, <2>4, <3>1, <3>2 DEF Works
  <2> QED BY <1>4, <2>3, <2>4 DEF Pipe, PipeError
<1>5. CASE UnlockHost(p)
  <2>1. p \notin Listers /\ req[p] \in Keys /\ pc[p] = "unlock" /\ Works(p, req[p])
    BY <1>5 DEF UnlockHost, Works
  <2>2. pc'[p] = "idle"
    BY <1>5 DEF UnlockHost, Quit, Goto
  <2> QED BY <1>5, <2>1, <2>2 DEF UnlockHost, Works
<1>6. CASE p \in Listers /\ LockList(p)
  <2>1. \A l \in Keys \ {IdList} : ~Works(p, l)'
    BY <1>6 DEF Works
  <2> QED BY <1>6, <2>1 DEF LockList, Takes, Keys
<1>7. CASE p \in Listers /\ (CountHosts(p) \/ ListPage(p) \/ Rename(p))
  <2>1. UNCHANGED << lock, lapsed >> /\ pc[p] \in {"count", "page"}
    BY <1>7 DEF CountHosts, ListPage, Rename
  <2> QED BY <1>7, <2>1 DEF Works
<1>8. CASE p \in Listers /\ UnlockList(p)
  <2>1. pc[p] = "unlock" /\ Works(p, IdList) /\ pc'[p] = "idle" /\ IdList \in Keys
    BY <1>8 DEF UnlockList, Works, Goto, Keys
  <2> QED BY <1>8, <2>1 DEF UnlockList, Works
<1> QED BY <1>1, <1>2, <1>3, <1>4, <1>5, <1>6, <1>7, <1>8 DEF Acts, Refresh, RenewList

\* Every step keeps the owners of locks apart.
LEMMA WorkStep == WorkInv /\ [Next]_vars => WorkInv'
<1> SUFFICES ASSUME WorkInv, [Next]_vars
             PROVE  WorkInv'
  OBVIOUS
<1> USE DEF WorkInv
<1>1. TypeInv'
  BY TypeStep
<1>2. CASE UNCHANGED << lock, pc, req, todo, lapsed >>
  <2>1. \A p \in Procs : \A k \in Keys : Works(p, k)' <=> Works(p, k)
    BY <1>2 DEF Works
  <2> QED BY <1>1, <1>2, <2>1 DEF WorkerHolds
<1>3. UNCHANGED vars \/ Writes => UNCHANGED << lock, pc, req, todo, lapsed >>
  BY DEF vars, locals, Writes, Save, Remove, Write
<1>4. CASE Crash
  BY <1>1, <1>4 DEF Crash, WorkerHolds, Works
<1>5. CASE Expire
  <2>1. \A p \in Procs : \A k \in Keys : Works(p, k)' <=> Works(p, k)
    BY <1>5 DEF Expire, ExpireDetail, ExpireLock, Works, locals
  <2>2. CASE UNCHANGED << lock, lapsed >>
    BY <1>1, <2>1, <2>2 DEF WorkerHolds
  <2>3. ASSUME NEW k \in Keys, ExpireLock(k)
        PROVE  WorkerHolds'
    <3>1. lock' = [lock EXCEPT ![k] = Free] /\ lapsed \subseteq lapsed'
      BY <2>3 DEF ExpireLock
    <3>2. k \in lapsed' \/ \A p \in Procs : lock[k] = p => ~Works(p, k)
      BY <2>3 DEF ExpireLock
    <3> QED BY <2>1, <3>1, <3>2 DEF WorkerHolds, TypeInv, LockType
  <2> QED BY <1>1, <1>5, <2>2, <2>3 DEF Expire, ExpireDetail
<1>6. ASSUME NEW p \in Procs, Acts(p)
      PROVE  WorkerHolds'
  <2>1. \A q \in Procs \ {p} : \A k \in Keys : Works(q, k)' <=> Works(q, k)
    BY <1>6, OthersKept DEF Works
  <2>2. CASE UNCHANGED << lock, lapsed >> /\ \A k \in Keys : Works(p, k)' => Works(p, k)
    BY <2>1, <2>2 DEF WorkerHolds
  <2>3. CASE UNCHANGED lapsed /\ \E k \in Keys : Takes(p, k) /\ \A l \in Keys \ {k} : ~Works(p, l)'
    <3>1. PICK k \in Keys : Takes(p, k) /\ \A l \in Keys \ {k} : ~Works(p, l)'
      BY <2>3
    <3>2. lock'[k] = p /\ \A l \in Keys \ {k} : lock'[l] = lock[l]
      BY <3>1 DEF Takes, TypeInv, LockType
    <3>3. k \notin lapsed => \A q \in Procs : ~Works(q, k)
      BY <3>1, ProcsAssumption DEF WorkerHolds, Takes, Procs
    <3> QED BY <2>1, <2>3, <3>1, <3>2, <3>3 DEF WorkerHolds
  <2>4. CASE /\ Leaves(p) /\ \A k \in Keys : ~Works(p, k)'
             /\ lock' = lock \/ \E k \in Keys : Works(p, k) /\ lock' = [lock EXCEPT ![k] = Free]
    <3>1. SUFFICES ASSUME NEW k \in Keys, k \notin lapsed', NEW q \in Procs, Works(q, k)'
                   PROVE  lock'[k] = q
      BY DEF WorkerHolds
    <3>2. q # p /\ Works(q, k)
      BY <2>1, <2>4, <3>1
    <3>3. k \notin lapsed
      BY <2>4, <3>1, <3>2 DEF Leaves
    <3>4. lock[k] = q /\ ~Works(p, k)
      BY <3>2, <3>3 DEF WorkerHolds
    <3> QED BY <2>4, <3>4 DEF TypeInv, LockType
  <2> QED BY <1>6, <2>2, <2>3, <2>4, WorkAct
<1> QED BY <1>1, <1>2, <1>3, <1>4, <1>5, <1>6, NextActs

\* Two processes refresh one key at a time only when a lock expired while it was held.
THEOREM OneRefresherAtATime == Spec => []OneRefresher
<1>1. Init => WorkInv
  BY TypeInit DEF Init, WorkInv, WorkerHolds, Works
<1>2. WorkInv => OneRefresher
  <2> SUFFICES ASSUME WorkInv, NEW k \in Keys \ lapsed
               PROVE  Cardinality({p \in Procs : Works(p, k)}) <= 1
    BY DEF OneRefresher
  <2> DEFINE W == {p \in Procs : Works(p, k)}
  <2>1. \A p, q \in W : p = q
    BY DEF WorkInv, WorkerHolds
  <2> HIDE DEF W
  <2>2. CASE W = {}
    BY <2>2, FS_EmptySet DEF W
  <2>3. CASE W # {}
    <3>1. PICK p \in W : TRUE
      BY <2>3
    <3>2. W = {p}
      BY <2>1, <3>1, Zenon
    <3>3. Cardinality(W) = 1
      BY <3>2, FS_Singleton, Zenon
    <3> QED BY <3>3 DEF W
  <2> QED BY <2>2, <2>3
<1> QED BY <1>1, <1>2, WorkStep, PTL DEF Spec

-----------------------------------------------------------------------------
(* The cache is current.                                                   *)

\* Only a write changes the collection, and only the watcher receives.
LEMMA CollectionKept ==
  ASSUME TypeInv, Next, ~Writes
  PROVE  /\ db' = db /\ Existing' = Existing
         /\ ~Receive /\ ~ReceiveError /\ ~Crash => log' = log
<1>1. db' = db /\ (~Receive /\ ~ReceiveError /\ ~Crash => log' = log)
  BY DEF Next, Refresh, RenewList, Expire, Receive, ReceiveError, ReadAgain, ReadHost, LockHost, Pipe,
         UnlockHost, PipeError, LockList, CountHosts, ListPage, Rename, UnlockList, ExpireDetail,
         ExpireLock, Crash, collection
<1> QED BY <1>1 DEF Existing

\* A write of a host is logged, and changes nothing about another.
LEMMA WriteEffect ==
  ASSUME TypeInv, Writes
  PROVE  \E h \in Hosts : \E doc \in Docs \cup {Gone} :
            /\ Write(h, doc) /\ db[h] # Gone /\ (doc = Gone => h \in Existing)
            /\ Logged(h)' /\ \A g \in Hosts : Logged(g) => Logged(g)'
            /\ db' \in [Hosts -> Docs \cup {Nothing, Gone}]
            /\ \A g \in Hosts \ {h} : db'[g] = db[g] /\ (g \in Existing' <=> g \in Existing)
            /\ db'[h] = doc
            /\ log' = Append(log, [host |-> h, deleted |-> doc = Gone])
            /\ UNCHANGED << details, idList, pc, req, copy, todo >>
<1>1. PICK h \in Hosts : \E doc \in Docs \cup {Gone} :
          Write(h, doc) /\ db[h] # Gone /\ (doc = Gone => h \in Existing)
  BY DocsAssumption DEF Writes, Save, Remove, Existing
<1>2. PICK doc \in Docs \cup {Gone} : Write(h, doc) /\ db[h] # Gone /\ (doc = Gone => h \in Existing)
  BY <1>1
<1> DEFINE e == [host |-> h, deleted |-> doc = Gone]
<1>3. log \in Seq(Events) /\ e \in Events /\ log' = Append(log, e)
  BY <1>2 DEF TypeInv, StoreType, Events, Write
<1>4. /\ Len(log) \in Nat /\ DOMAIN log = 1 .. Len(log) /\ DOMAIN log' = 1 .. Len(log) + 1
      /\ log'[Len(log) + 1] = e /\ \A i \in 1 .. Len(log) : log'[i] = log[i]
  BY <1>3, AppendProperties, LenProperties
<1>5. Logged(h)'
  BY <1>4 DEF Logged
<1>6. \A g \in Hosts : Logged(g) => Logged(g)'
  BY <1>4 DEF Logged
<1>7. /\ db' \in [Hosts -> Docs \cup {Nothing, Gone}]
      /\ \A g \in Hosts \ {h} : db'[g] = db[g] /\ (g \in Existing' <=> g \in Existing)
      /\ db'[h] = doc
  BY <1>2 DEF Write, TypeInv, StoreType, Existing
<1> QED BY <1>2, <1>3, <1>5, <1>6, <1>7 DEF Write, cached, locals

\* Every step keeps the log telling all that the watcher has not seen.
LEMMA LogTellsStep ==
  ASSUME TypeInv, LogTells, Next
  PROVE  LogTells'
<1>1. CASE Writes
  <2>1. PICK h \in Hosts, doc \in Docs \cup {Gone} :
            /\ db[h] # Gone /\ db'[h] = doc /\ \A g \in Hosts \ {h} : db'[g] = db[g]
            /\ log' = Append(log, [host |-> h, deleted |-> doc = Gone])
    BY <1>1, WriteEffect
  <2> DEFINE e == [host |-> h, deleted |-> doc = Gone]
             n == Len(log)
  <2>2. log \in Seq(Events) /\ e \in Events
    BY DEF TypeInv, StoreType, Events
  <2>3. /\ n \in Nat /\ DOMAIN log = 1 .. n /\ DOMAIN log' = 1 .. n + 1
        /\ log'[n + 1] = e /\ \A i \in 1 .. n : log'[i] = log[i] /\ log[i] \in Events
    BY <2>1, <2>2, AppendProperties, LenProperties
  <2> HIDE DEF n
  <2>4. ASSUME NEW i \in 1 .. n
        PROVE  /\ log'[i].deleted => db'[log'[i].host] = Gone
               /\ ~log'[i].deleted => \/ db'[log'[i].host] \in Docs
                                      \/ \E j \in 1 .. n + 1 : j > i /\ log'[j].host = log'[i].host
    <3>1. log'[i] = log[i] /\ log[i].host \in Hosts
      BY <2>3 DEF Events
    <3>2. CASE log[i].host = h
      <4>1. ~log[i].deleted
        BY <2>1, <2>3, <3>2 DEF LogTells
      <4>2. n + 1 \in 1 .. n + 1 /\ n + 1 > i /\ log'[n + 1].host = h
        BY <2>3
      <4> QED BY <3>1, <3>2, <4>1, <4>2
    <3>3. CASE log[i].host # h
      <4>1. db'[log[i].host] = db[log[i].host]
        BY <2>1, <3>1, <3>3
      <4>2. \A j \in 1 .. n : j \in 1 .. n + 1 /\ log'[j] = log[j]
        BY <2>3
      <4> QED BY <2>3, <3>1, <4>1, <4>2 DEF LogTells
    <3> QED BY <3>2, <3>3
  <2>5. /\ log'[n + 1].deleted => db'[log'[n + 1].host] = Gone
        /\ ~log'[n + 1].deleted => db'[log'[n + 1].host] \in Docs
    <3>1. e.host = h /\ (e.deleted <=> doc = Gone)
      OBVIOUS
    <3> HIDE DEF e
    <3>2. log'[n + 1] = e
      BY <2>3
    <3> QED BY <2>1, <3>1, <3>2
  <2>6. \A i \in 1 .. n + 1 : i \in 1 .. n \/ i = n + 1
    BY <2>3
  <2> QED BY <2>3, <2>4, <2>5, <2>6 DEF LogTells
<1>2. CASE Receive \/ ReceiveError
  <2>1. log' = Tail(log) /\ log # << >> /\ db' = db /\ log \in Seq(Events)
    BY <1>2 DEF Receive, ReceiveError, collection, TypeInv, StoreType
  <2>2. SUFFICES ASSUME NEW i \in DOMAIN Tail(log)
                 PROVE  /\ Tail(log)[i].deleted => db[Tail(log)[i].host] = Gone
                        /\ ~Tail(log)[i].deleted =>
                              \/ db[Tail(log)[i].host] \in Docs
                              \/ \E j \in DOMAIN Tail(log) :
                                    j > i /\ Tail(log)[j].host = Tail(log)[i].host
    BY <2>1 DEF LogTells
  <2>3. i + 1 \in DOMAIN log /\ Tail(log)[i] = log[i + 1] /\ i \in Nat
    BY <2>1, TailFacts, LenProperties
  <2>4. ASSUME NEW j \in DOMAIN log, j > i + 1
        PROVE  j - 1 \in DOMAIN Tail(log) /\ j - 1 > i /\ Tail(log)[j - 1] = log[j]
    <3>1. j \in Nat /\ j # 1 /\ j - 1 > i
      BY <2>1, <2>3, <2>4, LenProperties
    <3> QED BY <2>1, <3>1, TailKeeps
  <2> QED BY <2>3, <2>4 DEF LogTells
<1>3. CASE Crash
  <2>1. DOMAIN log' = {}
    BY <1>3 DEF Crash
  <2> QED BY <2>1 DEF LogTells
<1>4. CASE ~Writes /\ ~Receive /\ ~ReceiveError /\ ~Crash
  <2>1. UNCHANGED << db, log >>
    BY <1>4, CollectionKept
  <2> QED BY <2>1 DEF LogTells
<1> QED BY <1>1, <1>2, <1>3, <1>4

\* A step of another process, or of the clock, leaves the watcher and the events to come
\* as they are.
LEMMA WatcherKept ==
  ASSUME TypeInv, Next, ~Writes, ~Crash, \A p \in Procs : Acts(p) => p # Watcher
  PROVE  UNCHANGED << log, pc[Watcher], req[Watcher], copy[Watcher], todo[Watcher] >>
<1>1. Watcher \in Procs
  BY DEF Procs
<1>2. ~Receive /\ ~ReceiveError
  BY <1>1 DEF Acts
<1>3. log' = log
  BY <1>2, CollectionKept
<1>4. CASE Expire
  BY <1>3, <1>4 DEF Expire, ExpireDetail, ExpireLock, locals
<1>5. ASSUME NEW p \in Procs, Acts(p)
      PROVE  UNCHANGED << pc[Watcher], req[Watcher], copy[Watcher], todo[Watcher] >>
  BY <1>1, <1>5, OthersKept
<1> QED BY <1>3, <1>4, <1>5, NextActs

\* The steps of the watcher.
LEMMA WatcherActs ==
  ASSUME TypeInv, Acts(Watcher)
  PROVE  Receive \/ ReceiveError \/ ReadAgain \/ LockHost(Watcher) \/ Pipe(Watcher)
            \/ PipeError(Watcher) \/ UnlockHost(Watcher)
BY ProcsAssumption DEF Acts, Refresh

\* Every step keeps what is read in line with the log.
LEMMA CopyTellsStep ==
  ASSUME TypeInv, LogTells, CopyTells, Next
  PROVE  CopyTells'
<1> USE DEF TypeInv, ProcType
<1>1. Watcher \in Procs /\ Watcher \notin Listers
  BY ProcsAssumption DEF Procs
<1>2. CASE Writes
  <2>1. PICK h \in Hosts :
            /\ db[h] # Gone /\ Logged(h)' /\ \A g \in Hosts : Logged(g) => Logged(g)'
            /\ \A g \in Hosts \ {h} : db'[g] = db[g] /\ (g \in Existing' <=> g \in Existing)
            /\ UNCHANGED << pc, req, copy >>
    BY <1>2, WriteEffect
  <2>2. pc[Watcher] \in {"read", "lock", "pipe"} => req[Watcher] \in Hosts
    BY <1>1 DEF ProcOK
  <2> QED BY <2>1, <2>2 DEF CopyTells
<1>3. CASE Crash
  BY <1>1, <1>3 DEF Crash, CopyTells
<1>4. CASE ~Writes /\ ~Crash /\ \A p \in Procs : Acts(p) => p # Watcher
  <2>1. UNCHANGED << db, Existing, log, pc[Watcher], req[Watcher], copy[Watcher] >>
    BY <1>4, CollectionKept, WatcherKept
  <2> QED BY <2>1 DEF CopyTells, Logged
<1>5. CASE Acts(Watcher) /\ ~Writes /\ ~Crash
  <2>1. db' = db /\ Existing' = Existing
    BY <1>5, CollectionKept
  <2>2. ~Receive /\ ~ReceiveError => log' = log
    BY <1>5, CollectionKept
  <2>3. CASE Receive
    <3>1. /\ Head(log) = log[1] /\ Head(log) \in Events /\ 1 \in DOMAIN log
          /\ \A j \in DOMAIN log \ {1} : j - 1 \in DOMAIN Tail(log) /\ Tail(log)[j - 1] = log[j]
      BY <2>3, EventType DEF Receive
    <3> DEFINE h == Head(log).host
    <3>2. req'[Watcher] = h /\ log' = Tail(log) /\ copy'[Watcher] = Nothing
      BY <1>1, <2>3 DEF Receive, ProcOK
    <3>3. CASE Head(log).deleted
      <4>1. pc'[Watcher] = "pipe" /\ db[h] = Gone
        BY <1>1, <2>3, <3>1, <3>3 DEF Receive, Goto, LogTells
      <4> QED BY <2>1, <3>2, <4>1 DEF CopyTells
    <3>4. CASE ~Head(log).deleted
      <4>1. pc'[Watcher] = "read" /\ h \in Hosts
        BY <1>1, <2>3, <3>1, <3>4 DEF Receive, Goto, Events
      <4>2. db[h] \in Docs \/ \E j \in DOMAIN log : j > 1 /\ log[j].host = h
        BY <3>1, <3>4 DEF LogTells
      <4>3. h \in Existing \/ \E i \in DOMAIN log' : log'[i].host = h
        <5>1. CASE db[h] \in Docs
          BY <4>1, <5>1 DEF Existing
        <5>2. ASSUME NEW j \in DOMAIN log, j > 1, log[j].host = h
              PROVE  \E i \in DOMAIN log' : log'[i].host = h
          <6>1. j \in DOMAIN log \ {1}
            BY <5>2
          <6>2. j - 1 \in DOMAIN Tail(log) /\ Tail(log)[j - 1] = log[j]
            BY <3>1, <6>1
          <6> QED BY <3>2, <5>2, <6>2
        <5> QED BY <4>2, <5>1, <5>2
      <4> QED BY <2>1, <3>2, <4>1, <4>3 DEF CopyTells, Logged
    <3> QED BY <3>3, <3>4
  <2>4. CASE ReceiveError
    BY <2>4 DEF ReceiveError, CopyTells
  <2>5. CASE ReadAgain
    <3>1. \/ pc'[Watcher] = "idle"
          \/ pc'[Watcher] = "lock" /\ req' = req /\ copy'[Watcher] = db[req[Watcher]]
      BY <1>1, <2>5 DEF ReadAgain, Quit, Goto
    <3> QED BY <2>1, <3>1 DEF CopyTells
  <2>6. CASE LockHost(Watcher)
    <3>1. \/ pc'[Watcher] = "idle"
          \/ pc'[Watcher] = "pipe" /\ UNCHANGED << req, copy >>
      BY <1>1, <2>6 DEF LockHost, Quit, Goto
    <3>2. log' = log /\ copy[Watcher] # Nothing /\ pc[Watcher] = "lock"
      BY <1>1, <2>6, DocsAssumption DEF LockHost, ProcOK
    <3> QED BY <2>1, <3>1, <3>2 DEF CopyTells, Logged
  <2>7. CASE Pipe(Watcher) \/ PipeError(Watcher)
    <3>1. \/ pc'[Watcher] \in {"idle", "unlock"}
          \/ UNCHANGED << pc, req, copy >>
      BY <1>1, <2>7 DEF Pipe, PipeError, Leave, Quit, Goto
    <3>2. log' = log
      BY <2>7 DEF Pipe, PipeError
    <3> QED BY <2>1, <3>1, <3>2 DEF CopyTells, Logged
  <2>8. CASE UnlockHost(Watcher)
    <3>1. pc'[Watcher] = "idle"
      BY <1>1, <2>8 DEF UnlockHost, Quit, Goto
    <3> QED BY <3>1 DEF CopyTells
  <2> QED BY <1>5, <2>3, <2>4, <2>5, <2>6, <2>7, <2>8, WatcherActs
<1> QED BY <1>2, <1>3, <1>4, <1>5

\* What is wrong, key by key.
LEMMA WrongKeys ==
  \A cache, list : \A h \in Hosts :
    /\ << "detail", h >> \in Wrong(cache, list) <=> cache[h] \notin {Nothing, db[h]}
    /\ << "list", h >> \in Wrong(cache, list) <=> list # {} /\ (h \in list <=> h \notin Existing)
BY DEF Wrong

\* A blamed key stays outdated while it is wrong.
LEMMA BlameKeys ==
  ASSUME NEW keys, db' = db, Existing' = Existing, Blame(keys, details', idList'), NEW h \in Hosts
  PROVE  /\ WrongDetail(h)' /\ << "detail", h >> \notin outdated' =>
                /\ << "detail", h >> \notin outdated
                /\ << "detail", h >> \in keys => Pending("detail", h)
         /\ WrongPlace(h)' /\ << "list", h >> \notin outdated' =>
                /\ << "list", h >> \notin outdated
                /\ << "list", h >> \in keys => Pending("list", h)
<1>1. /\ << "detail", h >> \in Wrong(details', idList') <=> WrongDetail(h)'
      /\ << "list", h >> \in Wrong(details', idList') <=> WrongPlace(h)'
  BY WrongKeys DEF WrongDetail, WrongPlace
<1>2. \A k \in Wrong(details', idList') :
          k \notin outdated' => k \notin outdated /\ (k \in keys => Pending(k[1], k[2]))
  BY DEF Blame
<1> QED BY <1>1, <1>2

\* A process that gives up answers for its host.
LEMMA GiveUpKeys ==
  ASSUME NEW p, GiveUp(p), UNCHANGED << db, details, idList >>, NEW h \in Hosts
  PROVE  /\ WrongDetail(h)' /\ << "detail", h >> \notin outdated' =>
                /\ WrongDetail(h) /\ << "detail", h >> \notin outdated
                /\ p = Watcher /\ req[p] = h => Logged(h)
         /\ WrongPlace(h)' /\ << "list", h >> \notin outdated' =>
                /\ WrongPlace(h) /\ << "list", h >> \notin outdated
                /\ p = Watcher /\ req[p] = h => Logged(h)
<1>1. (WrongDetail(h)' <=> WrongDetail(h)) /\ (WrongPlace(h)' <=> WrongPlace(h))
  BY DEF WrongDetail, WrongPlace, Existing
<1>2. /\ << "detail", h >> \in Wrong(details, idList) <=> WrongDetail(h)
      /\ << "list", h >> \in Wrong(details, idList) <=> WrongPlace(h)
  BY WrongKeys DEF WrongDetail, WrongPlace
<1>3. CASE p = Watcher /\ ~Logged(req[p])
  <2>1. outdated' = (outdated \cup Both \X {req[p]}) \cap Wrong(details, idList)
    BY <1>3 DEF GiveUp
  <2>2. req[p] = h => << "detail", h >> \in Both \X {req[p]} /\ << "list", h >> \in Both \X {req[p]}
    BY DEF Both
  <2> QED BY <1>1, <1>2, <1>3, <2>1, <2>2
<1>4. CASE ~(p = Watcher /\ ~Logged(req[p]))
  <2>1. outdated' = outdated
    BY <1>4 DEF GiveUp
  <2> QED BY <1>1, <1>4, <2>1
<1> QED BY <1>3, <1>4

\* What a command of a host makes wrong.
LEMMA CommandWrong ==
  ASSUME TypeInv, NEW p \in Procs, NEW c \in Commands, Command(p, c), db' = db, NEW h \in Hosts
  PROVE  /\ WrongDetail(h)' =>
                \/ WrongDetail(h)
                \/ c.key = "detail" /\ h = c.host /\ c.doc \notin {Nothing, db[h]}
         /\ WrongPlace(h)' =>
                \/ WrongPlace(h)
                \/ c.key = "list" /\ idList = {} /\ h # c.host
                \/ /\ c.key = "list" /\ h = c.host
                   /\ c.doc = Nothing => h \in Existing
                   /\ c.doc # Nothing => h \notin Existing
         /\ c.key = "detail" /\ h = c.host /\ WrongDetail(h)' => c.doc \notin {Nothing, db[h]}
         /\ c.key = "list" /\ h = c.host /\ WrongPlace(h)' =>
                /\ c.doc = Nothing => h \in Existing
                /\ c.doc # Nothing => h \notin Existing
<1> USE DEF TypeInv, StoreType, WrongDetail, WrongPlace
<1>1. Existing' = Existing
  BY DEF Existing
<1>2. CASE c.key = "detail" /\ details' = [details EXCEPT ![c.host] = c.doc] /\ UNCHANGED idList
  BY <1>1, <1>2
<1>3. CASE /\ c.key = "list" /\ UNCHANGED details
           /\ idList' = IF c.doc = Nothing THEN idList \ {c.host} ELSE idList \cup {c.host}
  BY <1>1, <1>3
<1> QED BY <1>2, <1>3 DEF Command

\* Where the watcher and the log stay, an event that is to follow still is.
LEMMA PendingSame ==
  ASSUME UNCHANGED << log, pc[Watcher], req[Watcher], todo[Watcher] >>
  PROVE  \A key, h : Pending(key, h)' <=> Pending(key, h)
BY DEF Pending, Logged

\* Nothing becomes wrong, outdated keys stay, and events that were to follow still are.
LEMMA ExplainedFrame ==
  ASSUME WrongExplained,
         \A h \in Hosts :
            /\ WrongDetail(h)' /\ << "detail", h >> \notin outdated' /\ ~Pending("detail", h)' =>
                  /\ WrongDetail(h) /\ << "detail", h >> \notin outdated /\ ~Pending("detail", h)
            /\ WrongPlace(h)' /\ << "list", h >> \notin outdated' /\ ~Pending("list", h)' =>
                  /\ WrongPlace(h) /\ << "list", h >> \notin outdated /\ ~Pending("list", h)
  PROVE  WrongExplained'
BY DEF WrongExplained

\* A write, the clock and a crash.
LEMMA ExplainedEnvironment ==
  ASSUME CurrentInv, Next, Writes \/ Expire \/ Crash
  PROVE  WrongExplained'
<1> USE DEF CurrentInv
<1>1. CASE Writes
  <2>1. PICK h \in Hosts, doc \in Docs \cup {Gone} :
            /\ Write(h, doc) /\ Logged(h)' /\ \A g \in Hosts : Logged(g) => Logged(g)'
            /\ \A g \in Hosts \ {h} : db'[g] = db[g] /\ (g \in Existing' <=> g \in Existing)
            /\ UNCHANGED << details, idList, pc, req, todo >>
    BY <1>1, WriteEffect
  <2>2. \A g \in Hosts : << "detail", g >> \in outdated /\ g # h => << "detail", g >> \in outdated'
    BY <2>1 DEF Write
  <2>3. \A g \in Hosts : << "list", g >> \in outdated /\ g # h => << "list", g >> \in outdated'
    BY <2>1 DEF Write
  <2>4. \A g \in Hosts : \A key : Pending(key, g) \/ g = h => Pending(key, g)'
    BY <2>1 DEF Pending
  <2>5. \A g \in Hosts \ {h} : (WrongDetail(g)' => WrongDetail(g)) /\ (WrongPlace(g)' => WrongPlace(g))
    BY <2>1 DEF WrongDetail, WrongPlace
  <2> QED BY <2>2, <2>3, <2>4, <2>5, ExplainedFrame
<1>2. CASE Crash
  <2>1. /\ UNCHANGED << db, details, idList, Existing >>
        /\ outdated' = Wrong(details, idList)
    BY <1>2 DEF Crash, collection, cached, Existing
  <2>2. \A h \in Hosts : /\ WrongDetail(h)' => << "detail", h >> \in outdated'
                         /\ WrongPlace(h)' => << "list", h >> \in outdated'
    BY <2>1, WrongKeys DEF WrongDetail, WrongPlace
  <2> QED BY <2>2 DEF WrongExplained
<1>3. CASE Expire /\ ~Writes /\ ~Crash
  <2>1. UNCHANGED << db, log, pc, req, todo, idList >>
    BY <1>3 DEF Expire, ExpireDetail, ExpireLock, collection, locals, cached
  <2>2. db' = db /\ Existing' = Existing
    BY <2>1 DEF Existing
  <2>3. \A key, h : Pending(key, h)' <=> Pending(key, h)
    BY <2>1, PendingSame
  <2>4. CASE \E k \in Keys : ExpireLock(k)
    <3>1. UNCHANGED << details, idList, outdated >>
      BY <2>4 DEF ExpireLock, cached
    <3>2. \A h \in Hosts : (WrongDetail(h)' <=> WrongDetail(h)) /\ (WrongPlace(h)' <=> WrongPlace(h))
      BY <2>2, <3>1 DEF WrongDetail, WrongPlace
    <3> QED BY <2>3, <3>1, <3>2, ExplainedFrame
  <2>5. ASSUME NEW g \in Hosts, ExpireDetail(g)
        PROVE  WrongExplained'
    <3>1. Blame({}, details', idList') /\ details' = [details EXCEPT ![g] = Nothing]
      BY <2>1, <2>5 DEF ExpireDetail
    <3>2. \A h \in Hosts : (WrongDetail(h)' => WrongDetail(h)) /\ (WrongPlace(h)' => WrongPlace(h))
      BY <2>1, <2>2, <3>1 DEF WrongDetail, WrongPlace, TypeInv, StoreType
    <3> QED BY <2>2, <2>3, <3>1, <3>2, BlameKeys, ExplainedFrame
  <2> QED BY <1>3, <2>4, <2>5 DEF Expire
<1> QED BY <1>1, <1>2, <1>3

\* A request and the renewal of the list blame what they make wrong.
LEMMA ExplainedRequest ==
  ASSUME CurrentInv, Next, NEW p \in Procs \ {Watcher}, Acts(p)
  PROVE  WrongExplained'
<1> USE DEF CurrentInv
<1>1. UNCHANGED << log, db, Existing, pc[Watcher], req[Watcher], todo[Watcher] >>
  <2>1. Watcher \in Procs
    BY DEF Procs
  <2>2. UNCHANGED << log, db >>
    BY DEF Acts, Refresh, RenewList, ReadHost, LockHost, Pipe, UnlockHost, PipeError, LockList,
           CountHosts, ListPage, Rename, UnlockList, collection
  <2>3. UNCHANGED << pc[Watcher], req[Watcher], todo[Watcher] >>
    BY <2>1, OthersKept
  <2> QED BY <2>2, <2>3 DEF Existing
<1>2. \A key, h : Pending(key, h)' <=> Pending(key, h)
  BY <1>1, PendingSame
<1>3. CASE UNCHANGED << details, idList, outdated >>
  <2>1. \A h \in Hosts : (WrongDetail(h)' <=> WrongDetail(h)) /\ (WrongPlace(h)' <=> WrongPlace(h))
    BY <1>1, <1>3 DEF WrongDetail, WrongPlace
  <2> QED BY <1>2, <1>3, <2>1, ExplainedFrame
<1>4. CASE GiveUp(p) /\ UNCHANGED << details, idList >>
  <2>1. outdated' = outdated
    BY <1>4 DEF GiveUp
  <2> QED BY <1>3, <1>4, <2>1
<1>5. CASE Pipe(p)
  <2> DEFINE c == Head(todo[p])
  <2>1. Command(p, c) /\ c \in Commands
    BY <1>5, HeadType DEF Pipe
  <2> HIDE DEF c
  <2>2. \A h \in Hosts :
          /\ WrongDetail(h)' => \/ WrongDetail(h)
                                \/ c.key = "detail" /\ h = c.host
          /\ WrongPlace(h)' => \/ WrongPlace(h)
                               \/ c.key = "list" /\ (idList = {} \/ h = c.host)
    BY <1>1, <2>1, CommandWrong
  <2>3. CASE c.key = "detail"
    <3>1. Blame({<< "detail", c.host >>}, details', idList')
      BY <2>1, <2>3 DEF Command
    <3> QED BY <1>1, <1>2, <2>2, <2>3, <3>1, BlameKeys, ExplainedFrame
  <2>4. CASE c.key = "list"
    <3>1. Blame({"list"} \X {h \in Hosts : idList = {} \/ h = c.host}, details', idList')
      BY <2>1, <2>4 DEF Command
    <3>2. \A h \in Hosts : idList = {} \/ h = c.host =>
              << "list", h >> \in {"list"} \X {g \in Hosts : idList = {} \/ g = c.host}
      OBVIOUS
    <3> QED BY <1>1, <1>2, <2>2, <2>4, <3>1, <3>2, BlameKeys, ExplainedFrame
  <2> QED BY <2>1, <2>3, <2>4 DEF Commands, Both
<1>6. CASE Rename(p)
  <2>1. CASE Blame({"list"} \X Hosts, details, idList') /\ UNCHANGED details
    <3>1. \A h \in Hosts : << "list", h >> \in {"list"} \X Hosts
      OBVIOUS
    <3>2. \A h \in Hosts : WrongDetail(h)' => WrongDetail(h)
      BY <1>1, <2>1 DEF WrongDetail
    <3>3. Blame({"list"} \X Hosts, details', idList')
      BY <2>1
    <3> QED BY <1>1, <1>2, <3>1, <3>2, <3>3, BlameKeys DEF WrongExplained
  <2> QED BY <1>3, <1>6, <2>1 DEF Rename
<1> QED BY <1>3, <1>4, <1>5, <1>6 DEF Acts, Refresh, RenewList, ReadHost, LockHost, UnlockHost,
           PipeError, LockList, CountHosts, ListPage, UnlockList, cached

\* The watcher's pipeline is to bring its host: what it has not yet sent is pending, what
\* it has sent is right, or another change of the host is to follow.
LEMMA ExplainedPipe ==
  ASSUME CurrentInv, Pipe(Watcher), Watcher \in Procs
  PROVE  WrongExplained'
<1> USE DEF CurrentInv
<1> DEFINE c == Head(todo[Watcher])
           g == req[Watcher]
<1>1. /\ Command(Watcher, c) /\ c \in Commands /\ c.host = g /\ c.doc = copy[Watcher]
      /\ g \in Hosts /\ pc[Watcher] = "pipe" /\ copy[Watcher] \in Cached
      /\ db' = db /\ Existing' = Existing /\ log' = log
  BY HeadType DEF Pipe, collection, TypeInv, ProcType, Existing
<1>2. /\ todo'[Watcher] = Tail(todo[Watcher])
      /\ todo[Watcher] \in Seq(Commands) /\ todo[Watcher] # << >> /\ todo[Watcher][1] = c
  BY HeadType DEF Pipe, TypeInv, ProcType, ProcOK
<1>3. \A key : \A h \in Hosts :
          Pending(key, h) => Pending(key, h)' \/ (key = c.key /\ h = g)
  <2> HIDE DEF c, g
  <2>1. ASSUME NEW key, NEW h \in Hosts, NEW i \in DOMAIN todo[Watcher],
               todo[Watcher][i].key = key, todo[Watcher][i].host = h
        PROVE  Pending(key, h)' \/ (key = c.key /\ h = g)
    <3>1. CASE i = 1
      BY <1>1, <1>2, <2>1, <3>1
    <3>2. CASE i # 1
      <4>1. i - 1 \in DOMAIN Tail(todo[Watcher]) /\ Tail(todo[Watcher])[i - 1] = todo[Watcher][i]
        BY <1>2, <3>2, TailKeeps
      <4> QED BY <1>2, <2>1, <4>1 DEF Pending
    <3> QED BY <3>1, <3>2
  <2>2. \A key : \A h \in Hosts : Logged(h) => Pending(key, h)'
    BY <1>1 DEF Pending, Logged
  <2>3. \A key : \A h \in Hosts : Pending(key, h) => \/ Logged(h)
            \/ \E i \in DOMAIN todo[Watcher] : todo[Watcher][i].key = key /\ todo[Watcher][i].host = h
    BY <1>1 DEF Pending
  <2> QED BY <2>1, <2>2, <2>3
<1>4. copy[Watcher] = Nothing => db[g] = Gone
  BY <1>1 DEF CopyTells
<1>5. copy[Watcher] # Nothing => db[g] = copy[Watcher] \/ Logged(g)
  BY <1>1 DEF CopyTells
<1>6. Logged(g) => \A key : \A h \in Hosts : h = g => Pending(key, h)'
  BY <1>1 DEF Pending, Logged
<1> HIDE DEF c, g
<1>7. \A h \in Hosts : /\ c.key = "detail" /\ h = g /\ WrongDetail(h)' => Logged(g)
                       /\ c.key = "list" /\ h = g /\ WrongPlace(h)' => Logged(g)
  <2>1. SUFFICES ASSUME NEW h \in Hosts, h = g
                 PROVE  /\ c.key = "detail" /\ WrongDetail(h)' => Logged(h)
                        /\ c.key = "list" /\ WrongPlace(h)' => Logged(h)
    OBVIOUS
  <2>2. c.key = "detail" /\ WrongDetail(h)' => Logged(h)
    <3>1. c.key = "detail" /\ WrongDetail(h)' => c.doc \notin {Nothing, db[h]}
      BY <1>1, <2>1, CommandWrong
    <3> QED BY <1>1, <1>5, <2>1, <3>1
  <2>3. c.key = "list" /\ WrongPlace(h)' => Logged(h)
    <3>1. copy[Watcher] = Nothing => h \notin Existing
      BY <1>4, <2>1, DocsAssumption DEF Existing
    <3>2. copy[Watcher] # Nothing /\ db[h] = copy[Watcher] => h \in Existing
      BY <1>1 DEF Cached, Existing
    <3>3. c.key = "list" /\ WrongPlace(h)' => /\ c.doc = Nothing => h \in Existing
                                              /\ c.doc # Nothing => h \notin Existing
      BY <1>1, <2>1, CommandWrong
    <3> QED BY <1>1, <1>5, <2>1, <3>1, <3>2, <3>3
  <2> QED BY <2>2, <2>3
<1>8. CASE c.key = "detail"
  <2>1. Blame({}, details', idList')
    BY <1>1, <1>8 DEF Command
  <2>2. \A h \in Hosts : /\ WrongDetail(h)' => WrongDetail(h) \/ h = g
                         /\ WrongPlace(h)' => WrongPlace(h)
    BY <1>1, <1>8, CommandWrong
  <2>3. \A h \in Hosts :
            /\ WrongDetail(h)' /\ << "detail", h >> \notin outdated' => << "detail", h >> \notin outdated
            /\ WrongPlace(h)' /\ << "list", h >> \notin outdated' => << "list", h >> \notin outdated
    BY <1>1, <2>1, BlameKeys
  <2>4. \A h \in Hosts : WrongDetail(h)' => Pending("detail", h)' \/ (WrongDetail(h) /\ h # g)
    BY <1>6, <1>7, <1>8, <2>2
  <2>5. \A h \in Hosts : /\ h # g /\ Pending("detail", h) => Pending("detail", h)'
                         /\ Pending("list", h) => Pending("list", h)'
    BY <1>3, <1>8
  <2> QED BY <2>2, <2>3, <2>4, <2>5 DEF WrongExplained
<1>9. CASE c.key = "list"
  <2>1. Blame({"list"} \X {h \in Hosts : idList = {}}, details', idList')
    BY <1>1, <1>9 DEF Command
  <2>2. \A h \in Hosts : /\ WrongDetail(h)' => WrongDetail(h)
                         /\ WrongPlace(h)' => WrongPlace(h) \/ h = g \/ idList = {}
    BY <1>1, <1>9, CommandWrong
  <2>3. \A h \in Hosts : idList = {} => << "list", h >> \in {"list"} \X {f \in Hosts : idList = {}}
    OBVIOUS
  <2>4. \A h \in Hosts :
            /\ WrongDetail(h)' /\ << "detail", h >> \notin outdated' => << "detail", h >> \notin outdated
            /\ WrongPlace(h)' /\ << "list", h >> \notin outdated' =>
                  << "list", h >> \notin outdated /\ (idList = {} => Pending("list", h))
    BY <1>1, <2>1, <2>3, BlameKeys
  <2>5. \A h \in Hosts : h = g /\ WrongPlace(h)' => Pending("list", h)'
    BY <1>6, <1>7, <1>9
  <2>6. \A h \in Hosts : /\ Pending("detail", h) => Pending("detail", h)'
                         /\ h # g /\ Pending("list", h) => Pending("list", h)'
    BY <1>3, <1>9
  <2> QED BY <2>2, <2>4, <2>5, <2>6 DEF WrongExplained
<1> QED BY <1>1, <1>8, <1>9 DEF Commands, Both

\* The watcher hands the change it has received on to its copy and to its pipeline, or
\* gives it up.
LEMMA ExplainedWatcher ==
  ASSUME CurrentInv, Acts(Watcher), Watcher \in Procs \ Listers
  PROVE  WrongExplained'
<1> USE DEF CurrentInv, TypeInv, ProcType
<1> DEFINE Same == UNCHANGED << db, Existing, details, idList >>
<1>1. ~Pipe(Watcher) => Same
  BY WatcherActs DEF Receive, ReceiveError, ReadAgain, LockHost, PipeError, UnlockHost, collection,
                     cached, Existing
<1>2. Same => \A h \in Hosts : (WrongDetail(h)' <=> WrongDetail(h)) /\ (WrongPlace(h)' <=> WrongPlace(h))
  BY DEF WrongDetail, WrongPlace
<1> HIDE DEF Same
<1>3. CASE Receive \/ ReceiveError
  <2> DEFINE h == Head(log).host
  <2>1. /\ log' = Tail(log) /\ pc[Watcher] = "idle" /\ todo[Watcher] = << >> /\ h \in Hosts
        /\ h = log[1].host
        /\ \A i \in DOMAIN log \ {1} : i - 1 \in DOMAIN Tail(log) /\ Tail(log)[i - 1] = log[i]
    BY <1>3, EventType DEF Receive, ReceiveError, ProcOK, Events
  <2>2. \A key : \A g \in Hosts : Pending(key, g) => Pending(key, g)' \/ g = h
    <3>1. \A g \in Hosts : Logged(g) => Logged(g)' \/ g = h
      BY <2>1 DEF Logged
    <3>2. \A key : \A g \in Hosts : Pending(key, g) => Logged(g)
      BY <2>1 DEF Pending
    <3> QED BY <3>1, <3>2 DEF Pending
  <2>3. CASE Receive
    <3>1. req'[Watcher] = h /\ outdated' = outdated
      BY <2>3 DEF Receive
    <3>2. \/ pc'[Watcher] = "read"
          \/ todo'[Watcher] = SetAll(h, Nothing)
      BY <2>3 DEF Receive, Goto, DelAll
    <3>3. \A g \in Hosts : g = h => Pending("detail", g)' /\ Pending("list", g)'
      <4>1. CASE pc'[Watcher] = "read"
        BY <3>1, <4>1 DEF Pending
      <4>2. CASE todo'[Watcher] = SetAll(h, Nothing)
        <5>1. Pipeline(SetAll(h, Nothing), h, Nothing)
          BY <2>1, SetAllType DEF Cached
        <5> QED BY <4>2, <5>1 DEF Pipeline, Pending
      <4> QED BY <3>2, <4>1, <4>2
    <3> HIDE DEF h
    <3> QED BY <1>1, <1>2, <2>2, <2>3, <3>1, <3>3, ExplainedFrame DEF Receive, Pipe
  <2>4. CASE ReceiveError
    <3>1. outdated' = (outdated \cup Both \X {h}) \cap Wrong(details, idList) /\ Same
      BY <2>4 DEF ReceiveError, Same, collection, cached, Existing
    <3>2. << "detail", h >> \in Both \X {h} /\ << "list", h >> \in Both \X {h}
      BY DEF Both
    <3>3. \A g \in Hosts : /\ << "detail", g >> \in Wrong(details, idList) <=> WrongDetail(g)
                           /\ << "list", g >> \in Wrong(details, idList) <=> WrongPlace(g)
      BY WrongKeys DEF WrongDetail, WrongPlace
    <3> HIDE DEF h
    <3> QED BY <1>2, <2>2, <3>1, <3>2, <3>3, ExplainedFrame
  <2> QED BY <1>3, <2>3, <2>4
<1>4. CASE ReadAgain
  <2>1. /\ log' = log /\ todo' = todo /\ pc[Watcher] = "read" /\ req[Watcher] \in Hosts /\ Same
    BY <1>4, <1>1 DEF ReadAgain, Pipe, ProcOK
  <2>2. CASE Goto(Watcher, "lock") /\ UNCHANGED << req, outdated >>
    <3>1. \A key, h : Pending(key, h) => Pending(key, h)'
      BY <2>1, <2>2 DEF Pending, Logged, Goto
    <3> QED BY <1>2, <2>1, <2>2, <3>1, ExplainedFrame
  <2>3. \A key, h : Pending(key, h) => Pending(key, h)' \/ (h = req[Watcher] /\ ~Logged(h))
    BY <2>1 DEF Pending, Logged
  <2>4. CASE req[Watcher] \notin Existing /\ outdated' = outdated
    <3>1. Logged(req[Watcher])
      BY <2>1, <2>4 DEF CopyTells
    <3> QED BY <1>2, <2>1, <2>3, <2>4, <3>1, ExplainedFrame
  <2>5. CASE GiveUp(Watcher)
    <3>1. UNCHANGED << db, details, idList >>
      BY <2>1 DEF Same
    <3> QED BY <2>3, <2>5, <3>1, GiveUpKeys, ExplainedFrame
  <2> QED BY <1>4, <2>2, <2>4, <2>5 DEF ReadAgain
<1>5. CASE LockHost(Watcher)
  <2>1. /\ log' = log /\ pc[Watcher] = "lock" /\ req[Watcher] \in Hosts /\ Same
        /\ copy[Watcher] \in Cached /\ todo[Watcher] = << >>
    BY <1>5, <1>1 DEF LockHost, Pipe, ProcOK
  <2>2. CASE /\ todo' = [todo EXCEPT ![Watcher] = SetAll(req[Watcher], copy[Watcher])]
             /\ UNCHANGED outdated
    <3>1. \A h \in Hosts : h = req[Watcher] => Pending("detail", h)' /\ Pending("list", h)'
      <4>1. Pipeline(SetAll(req[Watcher], copy[Watcher]), req[Watcher], copy[Watcher])
        BY <2>1, SetAllType
      <4>2. todo'[Watcher] = SetAll(req[Watcher], copy[Watcher])
        BY <2>2
      <4> QED BY <4>1, <4>2 DEF Pipeline, Pending
    <3>2. \A key : \A h \in Hosts : Pending(key, h) => Logged(h) \/ h = req[Watcher]
      BY <2>1 DEF Pending
    <3>3. \A key : \A h \in Hosts : Logged(h) => Pending(key, h)'
      BY <2>1 DEF Pending, Logged
    <3> QED BY <1>2, <2>1, <2>2, <3>1, <3>2, <3>3, ExplainedFrame
  <2>3. CASE GiveUp(Watcher)
    <3>1. UNCHANGED << db, details, idList >>
      BY <2>1 DEF Same
    <3>2. \A key, h : Pending(key, h) => Pending(key, h)' \/ (h = req[Watcher] /\ ~Logged(h))
      BY <2>1 DEF Pending, Logged
    <3> QED BY <2>3, <3>1, <3>2, GiveUpKeys, ExplainedFrame
  <2> QED BY <1>5, <2>2, <2>3 DEF LockHost
<1>6. CASE PipeError(Watcher)
  <2>1. /\ log' = log /\ pc[Watcher] = "pipe" /\ GiveUp(Watcher)
        /\ UNCHANGED << db, details, idList >>
    BY <1>6 DEF PipeError, collection, cached
  <2>2. \A key, h : Pending(key, h) => Pending(key, h)' \/ (h = req[Watcher] /\ ~Logged(h))
    BY <2>1 DEF Pending, Logged, ProcOK
  <2> QED BY <2>1, <2>2, GiveUpKeys, ExplainedFrame
<1>7. CASE UnlockHost(Watcher)
  <2>1. log' = log /\ pc[Watcher] = "unlock" /\ todo' = todo /\ outdated' = outdated /\ Same
    BY <1>7, <1>1 DEF UnlockHost, Pipe
  <2>2. \A key, h : Pending(key, h) => Pending(key, h)'
    BY <2>1 DEF Pending, Logged
  <2> QED BY <1>2, <2>1, <2>2, ExplainedFrame
<1> QED BY <1>3, <1>4, <1>5, <1>6, <1>7, WatcherActs, ExplainedPipe

\* Every step keeps the cache current.
LEMMA CurrentStep == CurrentInv /\ [Next]_vars => CurrentInv'
<1> SUFFICES ASSUME CurrentInv, [Next]_vars
             PROVE  CurrentInv'
  OBVIOUS
<1>1. TypeInv'
  BY TypeStep DEF CurrentInv
<1>2. CASE UNCHANGED vars
  <2>1. UNCHANGED << db, log, details, idList, pc, req, copy, todo, outdated >>
    BY <1>2 DEF vars, collection, cached, locals
  <2>2. LogTells' /\ CopyTells'
    BY <2>1 DEF CurrentInv, LogTells, CopyTells, Logged, Existing
  <2>3. \A h \in Hosts : (WrongDetail(h)' <=> WrongDetail(h)) /\ (WrongPlace(h)' <=> WrongPlace(h))
    BY <2>1 DEF WrongDetail, WrongPlace, Existing
  <2>4. WrongExplained'
    BY <2>1, <2>3, PendingSame, ExplainedFrame DEF CurrentInv
  <2> QED BY <1>1, <2>2, <2>4 DEF CurrentInv
<1>3. CASE Next
  <2>1. LogTells' /\ CopyTells'
    BY <1>3, LogTellsStep, CopyTellsStep DEF CurrentInv
  <2>2. Watcher \in Procs \ Listers
    BY ProcsAssumption DEF Procs
  <2>3. WrongExplained'
    BY <1>3, <2>2, NextActs, ExplainedEnvironment, ExplainedRequest, ExplainedWatcher
  <2> QED BY <1>1, <2>1, <2>3 DEF CurrentInv
<1> QED BY <1>2, <1>3

\* At the start the cache is empty, which is current.
LEMMA CurrentInit == Init => CurrentInv
<1> SUFFICES ASSUME Init
             PROVE  CurrentInv
  OBVIOUS
<1>1. Watcher \in Procs
  BY DEF Procs
<1>2. LogTells /\ CopyTells
  BY <1>1 DEF Init, LogTells, CopyTells
<1>3. WrongExplained
  BY DEF Init, WrongExplained, WrongDetail, WrongPlace
<1> QED BY <1>2, <1>3, TypeInit DEF CurrentInv

\* When the changes of a host have been received, what is cached of it is its document and
\* its place, unless a known cause made it wrong.
THEOREM CacheIsCurrent == Spec => []Current
<1>1. ASSUME CurrentInv
      PROVE  Current
  <2>1. SUFFICES ASSUME NEW k \in Wrong(details, idList), k \notin outdated
                 PROVE  Pending(k[1], k[2])
    BY DEF Current
  <2>2. \/ \E h \in Hosts : k = << "detail", h >> /\ WrongDetail(h)
        \/ \E h \in Hosts : k = << "list", h >> /\ WrongPlace(h)
    BY DEF Wrong, WrongDetail, WrongPlace
  <2>3. ASSUME NEW h \in Hosts, k = << "detail", h >>, WrongDetail(h)
        PROVE  Pending(k[1], k[2])
    <3>1. k[1] = "detail" /\ k[2] = h
      BY <2>3
    <3> QED BY <1>1, <2>1, <2>3, <3>1 DEF CurrentInv, WrongExplained
  <2>4. ASSUME NEW h \in Hosts, k = << "list", h >>, WrongPlace(h)
        PROVE  Pending(k[1], k[2])
    <3>1. k[1] = "list" /\ k[2] = h
      BY <2>4
    <3> QED BY <1>1, <2>1, <2>4, <3>1 DEF CurrentInv, WrongExplained
  <2> QED BY <2>2, <2>3, <2>4
<1> QED BY <1>1, CurrentInit, CurrentStep, PTL DEF Spec
=============================================================================
