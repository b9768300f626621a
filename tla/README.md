# A TLA+ model of bk-cmdb

bk-cmdb keeps the configuration of hosts, businesses and their topology in
MongoDB and tells other systems of every change. The repository holds a dozen
servers in Go (`src/src`); paths below are relative to that directory. The part
with the hardest concurrency is the way of a change from MongoDB to whoever
watches it:

    MongoDB change stream ──► event flow ──► chain (MongoDB) + details (redis)
       storage/stream          cacheservice/event/flow        │
                                                              ├──► watch API ──► API clients
                                                              │    cacheservice/event/watch
                                                              └──► event server ──► callbacks
                                                                   event_server/distribution

Beside it the project models the list-watch with which servers keep copies of a
collection, the subscriptions that one of them keeps, the cache of hosts, the task
queue, and the transfers of hosts between modules in the transactions that several
servers share.

## 1. Inventory

Each entry gives the component's state, its operations, what makes it hard and
what it has to guarantee. `PROJECT.json` lists all components with their
sources, and every hazard at its line.

**Event flow** (`source_controller/cacheservice/event/flow`,
`storage/stream/loop`). State: per collection the chain of nodes, the id
generator, the token record (resume token, id of the last node, start time), the
details in redis; per instance a change stream with its channel, a batch, a
retry counter and the last seen mastership. Operations: gather a batch, reserve
ids, store details, insert nodes and token in one transaction, drop a node whose
cursor is a duplicate, retry, watch again from the token. Hard: several
instances that believe to be master, crashes between two steps, commits of
unknown outcome, streams that lose their resume token. To guarantee: nothing is
lost or swapped, ids are unique, a detail precedes its node, the token is at the
tail.

**Change stream watcher** (`storage/stream/event/watch.go`). State: the stream,
its current token, the options of the next retry. Operations: watch, read,
retry, restart one minute in the past after a fatal error. Hard: which of token
and start time the next retry uses. To guarantee: no change falls between two
watches.

**List and list-watch** (`storage/stream/event/list.go`, `list_watch.go`,
`storage/reflector`). State: the page position, the stream opened before the
list. Operations: list the pages, then deliver the stream. Hard: errors of a
page, writes while the list runs. To guarantee: the receiver ends with the
collection's content.

**Watch API** (`source_controller/cacheservice/event/watch`,
`cacheservice/service/cache.go`). State: the chain, its expiry, the clients'
cursors. Operations: watch from now, from a time, with a cursor; long polling.
Hard: nodes committed or expired between two reads of one request; reads of a
secondary. To guarantee: a client that follows the answered cursors misses and
repeats nothing, as far as its reads are up to date.

**Event retention** (`event/key.go`, `flow/gc.go`, the indexes made by
`admin_server`). TTLs of nodes (six hours for readers, five days in the
database), details and deletion archives. To guarantee: what a node needs
outlives it.

**Event distribution** (`scene_server/event_server/distribution`). State: the
main queue and a queue and a cursor per subscriber in redis; per instance the
distributor's position, the popped events, the cached oldest cursor.
Operations: read the cursors, fetch nodes, push, pop, call back, store the cursor,
trim queues. Hard: events in memory at a crash or handover, cursors that are stored
while they are read, blocking pops of a deposed master, failures of one step. To
guarantee: at-least-once but for the places where the code is known to give an event
up, in order while one instance is master and reads of the chain succeed.

**Subscriptions** (`event_server/service/subscription.go`, `distributer.go`).
The subscriber maps, fed by a list-watch. To guarantee: a subscriber is served
from its creation to its deletion.

**Host identifier events** (`event_server/identifier`). Pops a duplicate queue
and adds identifier events to the main one.

**Mastership** (`apimachinery/discovery`, `common/backbone`, ZooKeeper). Each
instance takes itself for master when it is the first server of the list it read
last. To guarantee: nothing; every user of it must tolerate two masters or none.

**Task server** (`scene_server/task_server`). State: tasks and subtasks in
MongoDB, a lock per task in redis. Operations: take, execute by HTTP with
retries, report, compensate what has run for twenty minutes. Hard: locks that
expire while a task runs, crashes, reports that race the executor. To guarantee: a
task is executed once at a time and ends with the status of its subtasks.

**Distributed transactions** (`storage/dal/mongo/local`,
`apimachinery/coreservice/transaction`). State: a Mongo session shared through
HTTP headers, a counter in redis that tells the first command. Hard: counter
expiry, failed commits, panics. To guarantee: all or nothing.

**Host transfer** (`source_controller/coreservice/core/host/transfer`). State:
relations of hosts and modules. Hard: checks and writes in snapshot transactions.
To guarantee: a host is in one default module or in ordinary ones of one business.

**Locks** (`common/lock`, `core/host/lock.go`, `cacheservice/cache/tools`). Redis
keys with expiry, a collection of host locks, refreshing flags in memory. To
guarantee: mutual exclusion.

**Cloud synchronisation** (`scene_server/cloud_server/cloudsync`). State: the
task list (list-watch) and a hash ring per server. To guarantee: each task runs on
one server.

**Caches** (`cacheservice/cache/{business,host,topo_tree,topology}`). Redis
copies refreshed by single-event watches and on expiry, under a flag in memory and a
lock in redis per key. Hard: a request's older copy beside the watcher's, pipelines
that interleave, a list read in pages while it changes. To guarantee: what is out of
date is so for a known reason, and not longer than its TTL.

**Core service** (`source_controller/coreservice/core`): models, instances,
associations, mainline topology, processes, templates; checks before writes, in
the caller's transaction. **Topo, host and process servers** orchestrate these
calls. **Admin server**: schema upgrades. **API, web, auth servers**: routing,
sessions, permissions. **Data collection, operation, synchronisation servers**:
import, statistics, copies. **Backbone and clients**: configuration,
registration, HTTP. None of these has concurrency of its own beyond the
transactions, locks and caches above; the requests of the host and topo servers that
move hosts and delete modules are part of the host transfer.

## 2. Modules

| module | models | extends or instantiates |
|---|---|---|
| `EventChain` | what the event flow promises its readers (abstract) | |
| `EventFlow` | event flow, batch loop, change stream, token record | `EventChain` (refinement) |
| `MCEventFlow` | values of its constants for TLC | `EventFlow` |
| `EventFlowProofs` | theorems about `EventFlow`, its refinement of `EventChain` included | `EventFlow`, TLAPS |
| `EventWatchProofs`, `EventDistProofs`, `SubscriptionsProofs`, `TaskQueueProofs`, `HostTransferProofs`, `HostCacheProofs` | theorems about these components; `SubscriptionsProofs` also about `ListWatch`, `HostTransferProofs` about `Transactions` | the component, TLAPS |
| `SharedLemmas` | numbers, sequences and finite sets for the proofs | TLAPS |
| `EventWatch` | watch API, one client, node expiry | |
| `EventDist` | distributor, event handler, pushers, cleaners | |
| `MCEventDist` | symmetry for TLC | `EventDist` |
| `ListWatch` | a collection, its stream, lister, stream retries, a local copy | |
| `Subscriptions` | the distributor's two maps, fed by the same list-watch | `ListWatch` (composition) |
| `MCSubscriptions` | forms of subscriptions for TLC | `Subscriptions` |
| `TaskQueue` | executors, compensation and status calls of the task server | |
| `Transactions` | sessions shared through a counter, on snapshots of MongoDB | |
| `HostTransfer` | requests that move, create and delete hosts and modules | `Transactions` (composition) |
| `MCHostTransfer` | modules and requests for TLC | `HostTransfer` |
| `HostCache` | watcher, refreshing requests, list of ids, locks of the host cache | |
| `MCHostCache` | symmetry for TLC | `HostCache` |

The three modules of the event path meet at the chain. `EventFlow` produces it;
`EventWatch` and `EventDist` see it as a log that grows at its end, which is
what `EventFlow` is proved to implement (`EventChain`) for one master.

### EventFlow

An event is its position in the oplog; its cursor is its cluster time and
document. `chain`, `lastId`, `token` and `details` are the database and redis.
For each instance, `pc` says where its loop goroutine is:

| action | code |
|---|---|
| `Write`, `ViewChange`, `Crash` | the writers of the collection, the registry, the process |
| `RunFlow`, `StartLoop`, `WatchRetry` | `RunFlow`, `WithBatch`, `watchRetry`: read the token, open the stream |
| `StreamNext`, `StreamRewind` | `loopWatch` fills the channel; a fatal error starts one minute in the past and resets the stored token |
| `CanLoop`, `Gather` | `tryLoopWithBatch`: mastership, then up to `BatchSize` events or a tick |
| `NextSequences`, `SkipInvalid`, `StoreDetails` | `doBatch` up to the redis pipeline |
| `InsertNodes`, `SetTokenInTxn`, `CommitTransaction` | `doInsertEvents` with its transaction, reduction and retries |

The failures are kinds in `Faults`, drawn from the budget `MaxFaults`. A
transaction of MongoDB is a snapshot: `stale` and the pending nodes of other
open transactions decide which writes conflict. `gaveUp` and `swallowed` are
history variables: events of batches that ended after `MaxRetry` retries, and of
batches whose insertion error was ignored.

### EventWatch

One client and one chain. A request takes several reads (`pc`), between which
nodes are committed (`CommitNode`) and time passes (`Tick`): `WatchFromNow`,
`WatchWithStartFrom`/`FindSince`/`ListSince`, and `WatchWithCursor` with
`FindStart`/`ReadToken`/`ListFirst`, `Search`/`ListNodes` and `TimeOut`. `Lag`
is how many of the last nodes a read may miss. Only some nodes are of the types
the client asked for.

### EventDist

Every instance is a distributor (`Resume`, `ReadCursor` for each subscriber,
`StartWatch`, `Fetch`, `HandleNext`), an event handler (`HandlerCheck`, `PopEvent`, `SendToPusher`), a pusher per subscriber
(`PusherCheck`, `PopDist`, `Push`) and a cleaner per queue (`CleanCount`,
`CleanTrim`, `CleanDel`). The check of the mastership is a step of its own where
the code blocks after it. The subscribers' cursors are read one at a time, and the
latest node after them; meanwhile pushers store cursors and nodes are appended. A
failed read of the chain (`Fetch`) leads back to `Resume`, which keeps the oldest
cursor of earlier rounds (`oldest`, `resourceCursors` in the code). `lost` records each
event the code gives up and where, `seen` the cursors a distributor has read.
`Subs` are the subscribers of one event type: in the code a subscriber has one
queue and a cursor for each event type.

### ListWatch and Subscriptions

`store` and `log` are a collection and its changes. The process opens the stream
(`OpenStream`), counts (`CountDocuments`), lists pages by skip and limit
(`ListPage`, `ListPageError`, `ListFindError`, `ListDone`) and then reads the stream
(`StreamNext`). An error (`StreamError`) leads to `Rewatch`, whose options
(`StartOptions`) are the token of the last event or else the start time, unless both
are set (`Refused`); `RewatchFatal` gives the token up for a time a minute ago. A time
is a position in the log: it may lie any number of events back, and, since it is that
of the process's clock, up to `MaxSkew` changes ahead (`Hidden` names what is written
before it and is not in the stream). The copy `tasklist` is the map of
the cloud server's scheduler. `excused` names each document that a page or the
stream left out, and why.

`Subscriptions` runs the distributor's handlers in the same steps: `OnUpsert` and
`OnDelete` keep `subscriptions`, and through `Resubscribe` the `subscribers` of each
event type. A value of a document is what `GetCacheKey` tells apart.

The channel between stream and map is part of the reading step: it keeps the order
and dies with the process. An error of the first watch or of the count ends the
process (`Crash`). MongoDB refuses a stream with both start options; this is not a fatal
error for the code, which tries again with the same options for ever: neither `Rewatch`
nor `RewatchFatal` is then possible.

### TaskQueue

A step of an executor is one access: `GetWaitExecute`, `LockTask`, `CountReady`,
`ChangeToExecuting`, then for each subtask `PassOver` or `Post` and `Record`, and
`Finish` and `Unlock`. `LockExpires` may happen at any time, `CompensateDBExecute`
to any task that executes and counts as a mishap when an executor is at work on it.
`ChangeStatusCheck`, `ChangeSubStatus` and `ChangeTaskStatus` are the three accesses
of a status call. `causes` names, for each task, what allows a repetition: an
expired or removed lock between the count and the update ("late"), a compensation of
a task an executor has read ("stale") or is executing ("overrun"), a status call.

### Transactions and HostTransfer

`Transactions` is the database as the core service uses it: `Execute` is a command
of a session, whose counter decides whether it starts the transaction; `Commit`,
`Abort`, and the mishaps `Lifetime` and `LoseCounter`. A write that meets a change
committed since the snapshot, or pending, aborts the transaction. Documents are
hosts, modules and relations, of which `HostTransfer` makes the keys.

A request of `HostTransfer` is one of twelve kinds. Those of the core service
(`ToNormal`, `ToInner`, `RemoveFrom`, `Across`, `Delete`, `Create`) validate and
delete and add relations (`ValidHosts`, `ValidModules`, `Removed`, `Added`), the
check being a first command with all reads; `DeleteModule` is the topo server's. The
host server computes a plan before its transaction (`MakePlan`, `RunPlan`), and
imports (`NewHost`, `Place`, `PutNext`) and changes of a directory (`Find`, `Update`)
run outside one. `Call`, `CallFails`, `Deliver`, `CallCommit`, `CommitFails` and
`CallAbort` are the automatic transaction and its network. History variables name
the hosts and requests whose commits did not know each other (`skewed`, `emptied`),
and what led to it (`blind`, `strayed`, `outdated`). A deletion names a business: the
routed request always names the pool (`host.go:191`), the other one is not routed
(`service_initfunc.go:168`); the model allows both.

### HostCache

The watcher (`Receive`, `ReadAgain`), a request that misses a host (`ReadHost`) and
their common `LockHost`, `Pipe`, `PipeError`, `UnlockHost`; a request that renews the
list of ids (`LockList`, `CountHosts`, `ListPage`, `Rename`, `UnlockList`); the TTLs
(`ExpireDetail`, `ExpireLock`). A pipeline's commands are steps, since redis executes
others between them. `outdated` names what is wrong in the cache for a cause that no
later event corrects, `lapsed` the locks that expired under a process.

## 3. Runs

All run within the limit of five minutes on two workers.

| run | instance | shows |
|---|---|---|
| `flow_single` | 1 instance, 3 events, 2 failures, 2 mastership changes | `NoLoss`, `TokenAtTail`, `AppendOnly`, `EventChain` is implemented; `Delivered`: every event gets into the chain |
| `flow_handover` | 2 instances, one or two of them master, 2 events, 1 retry, 2 failures: lost resume tokens, failed inserts, unknown commits, crashes | `IdsUnique`; `LostOnlyWithBatch`, `NoneLeftBehind`: only a given-up or swallowed batch loses events; details first |
| `watch_primary` | 3 events, 4 ticks, TTL 1, 2 events per answer, reads of the primary | `SkippedOnlyLate`, `RefusedOnlyExpired`, `Reached` |
| `dist_failures` | 1 instance, 2 subscribers, 2 events, queues trimmed at 2 and deleted at 3, any failure, 1 crash | `Accounted`, `FromOldest`, `CursorForward` |
| `dist_handover` | 2 instances, 2 events in one second, 2 mastership changes | `Accounted`, `Delivered` |
| `list_watch` | 3 documents in pages of 2, 2 writes, 2 failures, clock ahead by 1 change | `CopyIsCollection`, `KnowsSubscriptions`, `GapOnlyAfter`, `Converges` |
| `task_queue` | 2 executors, 1 task of 2 subtasks, 2 posts, 2 mishaps | `OneExecutor`, `NoRepetition`, `SuccessPerformed`, `EndedStays`, `Ends` |
| `host_transfer` | 1 host, 5 modules, 3 requests, or 2 and a mishap | `Placed`, `OneBusiness`, `SkewOnlyBlind`, `ModulesExist`, `AppliesRequest` |
| `host_cache` | 2 hosts with 2 documents, 2 changes, 1 request of each kind, 1 failure | `OneRefresher`, `Current` |

Three more runs each check one statement of a comment or a log message that the code
does not keep; the findings in `PROJECT.json` quote it.

| run | statement | what happens |
|---|---|---|
| `watch_secondary` | `AnswersFollowCursor` | the context with the primary preference is dropped (`cache.go:417`); a read that misses the last node answers a cursor before the one asked with |
| `subscription_delete` | `DeletedRemoved` | the event of a deletion brings no document: id 0 is removed and the subscription stays |
| `host_import` | `ImportsWhole` | an imported host is written with the header from before the transaction, outside of it, and stays when the import fails |

Further observations made while modelling are visible in the definitions:

* `EventFlow`. The error of an insert or of the token update is assigned to a shadowing
  variable (`flow.go:343`, `360`), so that doBatch reports success: the batch is dropped
  and the loop goes on, although `flow.go:396` says "if an error occurred, roll back and
  re-watch again" (`InsertError`). `swallowed` names the events of such batches;
  `flow_handover` has these failures, `flow_single` only those that are reported. With two
  masters the ids reserved first may be inserted last, so that ids do not follow the events
  (`flow.go:143`): TLC finds `AppendOnly` violated with two instances. After a duplicate key
  the first node is removed though another one may have collided (a transaction that
  changes one document twice, split over two batches).
* `EventWatch`. An empty answer's cursor may be behind a node committed after the
  last search (`watch.go:324`), which `SkippedOnlyLate` excepts. A watch from now
  whose latest node is of another type is answered the cursor that means the
  beginning (`AnswerLatest`). With reads of a secondary `SkippedOnlyLate`,
  `RefusedOnlyExpired` and `Reached` are not claimed either; what holds of them is
  `BackAtMostLag`, which is proved for every lag.
* `EventDist`. A queue to be trimmed is also deleted (`event.go:448`,
  `pusher.go:152`). An event that cannot be put into the main queue is skipped, not
  retried (`HandleNext`). A cursor that cannot be read is passed over (`ReadCursor`), and
  a subscriber without a stored cursor does not get again what the process held when it
  stopped: what is so skipped is `lost` as "skipped", and leaves no trace in a log. A
  failed read of the chain lets confirmed events be distributed again (`Fetch`). Of two
  cursors in one second the one read first is kept (`Older`, `distributer.go:292`), and the
  other subscriber may not be sent again what it needs: with two subscribers and two events
  in one second TLC finds `FromOldest` violated.
* `ListWatch`. A page whose query fails is passed over, though the log of `list.go:83` says
  it will be retried (`ListFindError`). A stream that breaks after its first event is opened
  again with a token and a start time at once, and refused for ever (`Refused`,
  `watch.go:130`). After a successful re-watch the start time is cleared, so
  that a second error before any event starts at the present (`GapOnlyAfter`). A
  deletion that shifts a page hides a document that was there all the time. A clock
  ahead of the database's hides what is written until the database gets there, as
  `list_watch.go:34` says of itself.
* `TaskQueue`. The success of one subtask, set by a status call, makes the whole task a
  success, since `allSuccess` is never false (`ChangeTaskStatus`, `task.go:195`):
  `SuccessPerformed` excepts the tasks with such a call. The lock is deleted by whoever ends, also when another executor holds it
  by then.
* `HostTransfer`. An incremental transfer adds relations without writing those it
  relied on, so that two commits leave a host in its idle module and another one, or
  with a third request in two businesses (`skewed`); a transfer and a deletion of its
  module likewise (`emptied`). A plan is made outside its transaction and may undo what
  was done since (`outdated`), and the first host's plan serves all hosts of a request.
  The change of a directory may give a host of a business a relation of the pool
  (`strayed`). A crash leaves a transaction open until its lifetime ends.
* `HostCache`. The watcher skips a host whose lock a request holds with an older copy; a
  request may write its copy after a change or a deletion was applied; a lock that
  expired is deleted under its next holder. A host put into a list that has no key makes
  one with this host only, from which pages are then answered. A renewal replaces what
  the watcher put into the list meanwhile, and when no host is left the rename fails and
  the old list stays. The flag of a renewal is cleared before its goroutine starts. After
  a restart the watcher starts from now.
* The host lock (`core/host/lock.go`) counts and inserts under an index that is not
  unique: two calls may lock a host twice, and the query for locks limits its result to
  the number of ids.

**Bounds.** In `EventFlow` three events and batches of two let one batch follow
another, a retry overlap a partly handled one, and a duplicate be reduced from a
batch with a second node; a transaction over two documents gives equal cluster times
(`flow_handover` changes one document per transaction). Two
failures allow one during the recovery from another, or end the one retry of
`flow_handover`. Two mastership changes in `flow_single` are the loss and the return of the
mastership; the one in `flow_handover` makes both instances masters for good or leaves none,
and a crash of one of two masters is a takeover by the other. Liveness is checked with one instance. In `EventWatch` three nodes exceed
the limit of an answer, and with TTL 1 both the client's node and the first listed one
can expire between two reads; a lag of one node is enough to answer a cursor before the
one asked with. In `EventDist` two events can overtake each other; a queue that holds both is trimmed, and one
into which an event comes again, after a crash or a failed read, reaches the second threshold.
`dist_failures` gives each event a second of its own, `dist_handover` puts both into one. Instances share only redis and the chain: a deposed one and its successor are two.
In `ListWatch` three documents in pages of two make a second page that an insertion or
deletion shifts, and two writes are one during the list and one after it, or one
on each side of a broken stream; with two failures one stream breaks twice without an
event. With `MaxSkew` 1 a stream may open ahead of one of the two writes and before the
other. In `TaskQueue` two executors are all that can meet at one task, and two
mishaps are an expired lock or a crash and its compensation; tasks share nothing
else. In `HostTransfer` two requests give every pair of kinds, and the third reaches the
hosts that a skew of the first two has left; a mishap concerns one call of two requests
(`Exposed`). In `HostCache` two hosts and a step of one make a renewal of two pages, two
changes let the watcher meet a newer document than that of its event, and the watcher and
one request are the two that can hold a host's lock. Symmetry is used for instances,
subscribers and documents in runs without liveness; no definition distinguishes them.

**Deadlock.** `EventFlow`, `EventWatch` and `TaskQueue` never stop: a loop polls. In
`EventDist` all goroutines block when the bounded number of events is distributed, in
`ListWatch` a stream without further changes blocks, in `HostTransfer` all requests
end, and in `HostCache` nothing is left to do when the changes are bounded and no
request comes, so these runs do not check deadlock.

**Fairness.** Goroutines are scheduled for ever: weak fairness of each stream and
loop in `EventFlow`, of each request step in `EventWatch`, of each goroutine's
steps in `EventDist` (each read of a cursor is one). `EventDist` has strong fairness of the blocking pops, since
redis serves the client that has waited longest, so that a pop is not passed
over while two instances wait at one queue. In `TaskQueue` executors go on, locks
expire, the compensation runs every ten minutes (`queue.go:332`), and a status call that began
ends; in `Subscriptions` the process goes on (`Process`). Writes, failures, crashes,
cleaning and mastership changes are never forced; `Delivered` assumes that in the end
some instance is master.

**Mutants.** Each property of a passing run has a mutant: an operator beside the
definition it changes, with the kind of error a change of the code could bring
(a full page assumed, an error that ends a loop, the wrong node's token, a cursor
stored too early, a lock set though it is there), which makes TLC report the property.

## 4. Proofs

Each component has a module of theorems that `EXTENDS` the component's module;
`SharedLemmas` has the facts about numbers, sequences and finite sets that several of them
need. Every theorem is for all values of the constants: any number
of instances, events, tasks, hosts and documents, any length of the oplog, any bounds and any
number of failures. What is assumed of the constants are the named assumptions of the
modules (types of the constants, no empty transaction), which TLC evaluates in every
run, and, where a theorem needs more, a hypothesis that its statement names. Each invariant was
checked by TLC on the instance of a run before it was proved.

A safety theorem has the same shape everywhere: an inductive invariant, a lemma per
action (or per group of actions) that says what it keeps, a lemma that combines them, and a
last step that applies the temporal rule. An action property is proved from the invariant
before and after the step.

### EventFlow

| theorem | property | hypotheses |
|---|---|---|
| `TypeCorrect`, `IdsDistinct`, `DetailsFirst` | `TypeOK`, `IdsUnique`, `DetailBeforeNode` | none |
| `LossesAreErrors` | `LostOnlyWithBatch` | `CursorsAssumed`, `RewindAssumed` |
| `TokenNamesTail`, `ChainOnlyGrows` | `TokenAtTail`, `AppendOnly` | `OneLoop` |
| `LoopsLeaveNone` | `NoneLeftBehind` | the same |
| `NothingLost` | `NoLoss` | `CursorsAssumed`, `OneLoop`, `Reported` |
| `ChainIsPublished` | `ImplementsChain` | the same and `FewFaults` |

* *Types.* `TypeInv` adds to the types what each step of `doBatch` hands to the next
  (`WorkOK`): the batch is not empty while it is handled, the nodes to insert come from it and
  are not empty while a transaction is open, so that `First` and `Last` are members of the
  set they choose from and the token stays a position of the oplog.
* *Ids and details.* `IdInv` adds that the nodes of one instance have different
  ids (`OwnIdsDiffer`); with `lastId` above every id in use the ids `NextSequences` reserves
  are new. `DetailInv` adds that the nodes to be inserted come from the batch and that their
  details are stored from the redis step on.
* *Losses.* `LossInv` follows an event from the stream to the chain. Everything below a place
  a stream may start from is handled (`Starts`: the token, its start time, the options of
  each loop, and each node of the chain). An event that is not handled is
  ahead of each running stream, or in its channel or its batch, with nothing but later events
  behind it that would be passed over (`StreamOK`). While nodes are inserted, an event
  of the batch that has no node lost it to a duplicate, and either that duplicate is a later
  node that is still to be removed, or what follows reads the event again (`InsertOK`). The
  invariant needs neither one master nor reported errors: handovers and overlapping masters
  are covered.
* *One loop.* With one instance, or a mastership that never moves, only one loop has a
  batch (`Sole`), the token names the last node, and the loop's nodes come behind it
  (`LoopTail`).
* *Order.* `OrderInv` combines all of these: the channel and the batch are in the order of the oplog
  (`Channel`), behind the chain (`Ahead`), and the chain's ids follow the events (`ChainOrder`).
* *Refinement.* `Published` lists the chain by ranks. The lemmas `NodeRanks`,
  `InOrderElements` and `InOrderExtends` (by counting nodes with lower ids) give that the
  k-th element is the event of the k-th node, and that nodes with higher ids only extend the
  list. `ChainIsPrefix` is the state's part of the mapping; a write maps to `Happen`, a commit
  (also one that is reported as failed) to `Publish`, every other step to a stutter.

The hypotheses, and what TLC finds without them:

* `CursorsAssumed`: no transaction does the same to one document twice. For a transaction
  on documents a, b, a that is split over two batches an event is lost without any
  failure: the insert reports the cursor of the *last* node as a duplicate, and the code drops the first
  (`flow.go:393`).
* `RewindAssumed`: a stream that restarts one minute in the past skips nothing that
  is not handled. Otherwise the minute is a loss by design. It follows from `Reported`.
* `OneLoop`: with two masters ids may be inserted in another order than they were reserved.
* `Reported`: no failed insertion or token update, whose error is shadowed (`flow.go:397`;
  `LoopsLeaveNone` and `LossesAreErrors` hold all the same and name the batch),
  and no stream that loses its resume token, which empties the token record while a transaction
  may be open: its conflict is such a failed insertion.
* `FewFaults`: at most `MaxRetry` failures. One more may end a batch, which is a gap in the chain.

### EventWatch

`TypeCorrect` and `CursorNeverFarBack` (`BackAtMostLag`) hold for every `Lag`: a client with
a cursor makes only requests with it, and these search behind its node (`HeldInv`), so that
an answer without events can only name a latest node that the read saw, at most `Lag` before
the client's. `NothingSkipped` (`SkippedOnlyLate`) and `LiveCursorsAreGood`
(`RefusedOnlyExpired`) are for `Lag = 0`, reads that go to the primary, which the code asks
for but does not get by itself (`cache.go:417`): they hold where the connection reads the
primary. `WatchInv` says how far a request has come in each of its steps (`Progress`):
up to which node nothing is owed to the client (`Done`) but what it got and what is
late. It rests on the order of times in the chain (`Ordered`), which makes what has expired a
beginning of the chain between any two reads.

### EventDist

`TypeCorrect` says that all queues and goroutines hold events of the chain. `NothingDisappears`
(`Accounted`) has the hypothesis `Undisturbed`: no crashes, with any changes of masters, or any
crashes of a lasting master. Its invariant `DistInv` says of each event and subscriber where the
event is (`Traced`): known (confirmed, given up, in a queue or in a goroutine's hands), not yet
read by anybody (`Unread`), the next one of some distributor (`NextUp`), or, after a crash,
behind a younger confirmed event or in front of each distributor. When a distributor starts behind
an event that it did not read, the event was confirmed, or is in the queues, or was behind every
cursor it read, and is then recorded as skipped: this needs that a stored cursor names a
confirmed event (`Stored`), and nothing of the order in which cursors are read. Outside
the hypothesis TLC finds events that disappear: an instance that was deposed crashes with an
event in its hands that the next distributor has passed.

`OldestIsTaken` (`FromOldest`) assumes that no two events share a second: the seconds then rise
with the chain (`Distinct`), so that a kept cursor is replaced by an older one only, and never
misses one. With equal seconds it is false.

`NeverReordered` (`CursorForward`) has no hypothesis: in the invariant `OrderInv` each place
holds younger events than the next one on the way to the subscriber, or events behind the cursor
the distributor keeps (`Behind`), which have been read again; cleaning, failures and lost events
take elements out but never swap them. A kept cursor is only replaced by an older one, so that
what was behind it stays there.

### ListWatch and Subscriptions

`SubscriptionsProofs` is about both, since `Subscriptions` composes `ListWatch`;
`SubscriptionsListWatch` carries the theorems of one over to the other. `CopyIsRight` and
`SubscriptionsAreKnown` rest on what explains a document of the copy in each state of the
process (`CopyOf`, `MapOf`): its last change is still to come from the stream, or a page to come
lists it (a rank among the documents that exist, with the lemmas on what an insertion or a
deletion does to ranks), or it is as it should be, or a cause names it, for any skew of the clock. `GapsHaveCauses` needs that the
process remembers where to open the stream again (`Remembers`). `RoutesAlwaysAgree` (`RoutesAgree`) needs that
only the zero value has an id that is no document's.

### TaskQueue

`OneExecutorAtATime`: without an overlap that `causes` records, who counts or updates a task has its
lock, a pushed task is not ready, and nobody updates a task another one pushes
(`OverlapInv`). `NoRepetitionWithoutCause` and `EndedIsFinal` add what an executor knows
of a task to which nothing happened (`RepeatInv`): it stays ready between count and update,
executing while it is pushed, and its subtasks are as they were read.
`SuccessIsPerformed` follows the successes from the callee through the results and the
batches that executors have read (`SuccessInv`); it needs neither the locks nor
`OverlapInv`, and holds with every expiry, crash and compensation.

### HostCache

`OneRefresherAtATime`: who works on a key has its lock unless one lapsed (`WorkInv`).
`CacheIsCurrent`: what is wrong in the cache has a cause in `outdated`, or an event in the log or
in the watcher's hands that will correct it (`CurrentInv`), at every single command of a
pipeline; the watcher's copy is the document or another change of the host is in the log
(`CopyTells`), and a deletion is for good (`LogTells`).

### Transactions and HostTransfer

| theorem | property | relies on |
|---|---|---|
| `TypeCorrect` | `TypeOK` | `TypeInv` |
| `HostsArePlaced` | `Placed` | `Placing` |
| `HostsInOneBusiness`, `NoDeletedModule` | `OneBusiness`, `ModulesExist` | `Sound` |
| `OnlyBlindSkew` | `SkewOnlyBlind` | `Collides` |
| `CommitsApply` | `AppliesRequest` | `Asking` |

`Placing` adds to `Sound` what the transactions in progress are about to do (`Standing`): in the
snapshot of each live one and in its goal, every host of its request exists exactly when it has
a relation, appended hosts included; only hosts in `skewed` and imported ones are excepted.

None has a hypothesis beyond the assumptions of `HostTransfer`: each module has a business,
the inner modules of a business include its idle one, names of different things differ, hosts
are at first where transfers can take them, and requests are of the forms the code accepts.

* *Transactions.* What `Execute`, `Commit`, `Abort`, `Lifetime` and `Write` do to all
  sessions are the lemmas `ExecuteFacts`, `CommitFacts`, `AbortFacts` and `PublishFacts`: a session's
  writes meet neither those of another nor what was committed since its snapshot (`Alone`).
* *What a transaction will have written.* A transaction is not described by what it has
  written so far but by `Goal`: the rest of its commands on top of that. A call moves a
  command from one to the other and leaves the goal (`CallGoal`).
* *Snapshots.* The goal of a running transaction was right in some database that agrees
  with the present one outside `stale` (`Snapshot`): its relations name existing
  modules, the hosts it takes are taken from all their modules, and it leaves each in a legal place
  (`Fits`, shown for each kind of request by `CheckedFits`). A commit of somebody else moves
  documents from the agreeing part to `stale` (`SnapshotPublish`), and at its own commit what nobody
  touched is as it was (`SnapshotLands`).
* *Conflicts.* A transaction that takes a host from its modules deletes a relation of it, or
  makes the host. If another one committed the same, the documents meet and one is aborted:
  what is stale of a host in no way blind then conflicts with the goal (`Collides`,
  `CommitSound`). That fails for an append, which writes no relation the host had: `blind`.
* *The database.* `Sound` is what the runs check, with the deletion of hosts and the inner modules:
  relations name their module's business, and an absent host has none. An import and a change of
  a directory keep it command by command (`Imports`, `PlaceCommands`, `UpdateStep`).
* *What is asked.* `AsAsked` says of the same snapshots that the goal takes each host where
  the request asks from where it is in the snapshot, and that a plan is the one that would be
  made there; a commit of a transaction that knows the relations of a host therefore does it to
  the relations of now (`CommitApplies`).

The proof found that the exception for changes of a directory was too narrow in the model
(`strayed`): the update goes by the id of the host alone, so that it may also hit a host that has
been moved to other modules of the pool's business.

### Only model-checked

All liveness (`Delivered`, `Reached`, `Converges`, `Ends`), which the proof system cannot
express; and, outside of the hypotheses above, the instances of the runs: `flow_handover`
for two masters. Two theorems cannot be had in a
stronger form, because the property is false there (`EventFlow` with repeated documents, `EventDist` outside `Undisturbed`).

## 5. Not modelled

* In `EventFlow`: a plain error of the stream, which `ListWatch` has (its retry would be
  refused as there when an event came before), the content of details and cursors, alarms and metrics, errors of
  cursor encoding (which skip the batch), the five-day TTL index of the chain.
* In `EventWatch`: the fetch of details after nodes are chosen, removal of nodes by
  the TTL index, more than one client (they share nothing).
* In `EventDist`: changes of the subscriptions, several event types per subscriber,
  the removal of nodes from the chain, after which a distributor reads from its head
  (`StartCursorNotExistError`), the duplicate queue of the identifier, counters. The
  six-hour expiry of a stored cursor is the failure of its read. A callback and the
  storing of its cursor are one step, between which a crash would send the event again.
  An error of redis means that the command had no effect.
* In `ListWatch`: the Invalidate event of a dropped collection, a page with a document
  that cannot be decoded; in `Subscriptions`: the uniqueness of names, the caches in redis
  that a deletion removes, the ping of a callback.
* In `TaskQueue`: the stop of a queue, differences between the servers' clocks, lists of
  tasks and the removal of old ones. Every task is ready when its queue reads it: its
  flow's name is registered.
* In `HostTransfer`: service instances, host apply rules, host locks, changes of a directory
  for several hosts, an error between the hosts of one transfer, the fault and recycle
  modules, the audit log (written last). A commit whose answer is lost has been executed or never will be. `AddHostToResourcePool` (`import.go:259`) has
  no transaction at all.
* In `HostCache`: the keys by address (the one of a host's old address stays until its
  TTL), the 48 hours of the list, the expiry key that may hold a renewal back, an order of
  the pages other than that of the ids, several hosts per request.
* The components `PROJECT.json` lists as not modelled. Most of the repository's code
  validates requests, builds queries, converts between representations and computes
  permissions from URLs, one request at a time on the state of one collection: `ac/parser`,
  `common/metadata`, the searches and templates of the topo, process and host servers.
  A model of it would restate it line by line. That is why the modules cover the
  servers' concurrent core and a small share of the repository's lines.

## 6. Plan

What is left, in this order:

1. `EventDist`: the removal of old nodes from the chain, and a stored cursor whose node is gone.
2. `EventFlow`: `LossesAreErrors` without `CursorsAssumed`, with the batch that splits a
   transaction named as a cause.
3. `HostTransfer`: changes of a directory for several hosts, some of which are elsewhere.
