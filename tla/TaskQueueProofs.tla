--------------------------- MODULE TaskQueueProofs ---------------------------
(***************************************************************************)
(* Proofs about the task server, for any number of instances, tasks and    *)
(* subtasks and any mishaps.                                               *)
(***************************************************************************)
EXTENDS TaskQueue, SharedLemmas, SequenceTheorems, TLAPS

-----------------------------------------------------------------------------
(* Type correctness.                                                       *)

SubStatus == {"new"} \cup Ended
Entries == [task : Tasks, detail : [SubTasks -> SubStatus]]
Calls == [pc : {"sub", "task"}, task : Tasks, sub : SubTasks, status : Ended]
Causes == {"late", "overrun", "stale", "call"}
Places == {"idle", "lock", "unlock"} \cup Holding \cup Pushing

DbType ==
    /\ status \in [Tasks -> {"none", "execute"} \cup Ready \cup Ended]
    /\ sub \in [Tasks -> [SubTasks -> SubStatus]]
    /\ lock \in [Tasks -> Executors \cup {Free}]
ExecType ==
    /\ pc \in [Executors -> Places]
    /\ batch \in [Executors -> Seq(Entries)]
    /\ next \in [Executors -> 1 .. Last + 1]
    /\ tries \in [Executors -> 0 .. Retry - 1]
    /\ allSucc \in [Executors -> BOOLEAN]
    /\ result \in [Executors -> {"success", "fail"}]
\* An executor at work has a task, one that records has a subtask, and the
\* variables of executePush are as at its start outside of it.
ExecOK ==
    \A e \in Executors :
        /\ (pc[e] = "idle") <=> (batch[e] = << >>)
        /\ pc[e] = "record" => next[e] <= Last
        /\ pc[e] \notin Pushing => next[e] = 1 /\ allSucc[e]
CallType == caller \in Calls \cup {Idle}
HistoryType ==
    /\ done \in [Tasks -> SUBSET SubTasks]
    /\ repeated \subseteq Tasks
    /\ causes \in [Tasks -> SUBSET Causes]

TypeInv == DbType /\ ExecType /\ ExecOK /\ CallType /\ HistoryType

\* What the run checks is part of the inductive type invariant.
LEMMA TypeInvTypes == TypeInv => TypeOK
BY DEF TypeInv, TypeOK, DbType, ExecType, ExecOK, SubStatus, Places

\* The variables have their types at first.
LEMMA TypeInit == Init => TypeInv
<1> SUFFICES ASSUME Init
             PROVE  TypeInv
  OBVIOUS
<1> USE SizesAssumption DEF Init
<1>1. DbType
  BY DEF DbType, SubStatus
<1>2. ExecType
  BY DEF ExecType, Places
<1>3. ExecOK
  BY DEF ExecOK, Pushing
<1>4. CallType
  BY DEF CallType
<1>5. HistoryType
  BY DEF HistoryType
<1> QED BY <1>1, <1>2, <1>3, <1>4, <1>5 DEF TypeInv

\* An executor at work has a task to work on.
LEMMA TaskType ==
  ASSUME TypeInv, NEW e \in Executors, pc[e] # "idle"
  PROVE  /\ batch[e] # << >> /\ Len(batch[e]) \in Nat \ {0}
         /\ batch[e][1] \in Entries
         /\ Task(e) \in Tasks /\ Detail(e) \in [SubTasks -> SubStatus]
<1>1. batch[e] \in Seq(Entries) /\ batch[e] # << >>
  BY DEF TypeInv, ExecType, ExecOK
<1>2. batch[e][1] \in Entries /\ Len(batch[e]) \in Nat \ {0}
  BY <1>1
<1> QED BY <1>1, <1>2 DEF Task, Detail, Entries

\* A batch is of tasks with the details of their subtasks.
LEMMA EntryType ==
  ASSUME NEW b \in Seq(Entries), NEW i \in DOMAIN b
  PROVE  /\ b[i] \in Entries
         /\ b[i].task \in Tasks /\ b[i].detail \in [SubTasks -> SubStatus]
<1>1. b \in [1 .. Len(b) -> Entries] /\ DOMAIN b = 1 .. Len(b)
  BY LenProperties
<1>2. b[i] \in Entries
  BY <1>1
<1> QED BY <1>2 DEF Entries

\* The entries of a batch.
LEMMA BatchType ==
  ASSUME TypeInv, NEW e \in Executors, NEW i \in DOMAIN batch[e]
  PROVE  /\ batch[e][i] \in Entries
         /\ batch[e][i].task \in Tasks /\ batch[e][i].detail \in [SubTasks -> SubStatus]
<1>1. batch[e] \in Seq(Entries)
  BY DEF TypeInv, ExecType
<1> QED BY <1>1, EntryType

\* Behind its task an executor has the rest of its batch, and is idle without one.
LEMMA DropType ==
  ASSUME TypeInv, NEW e \in Executors, pc[e] # "idle", Drop(e)
  PROVE  /\ pc' \in [Executors -> Places] /\ batch' \in [Executors -> Seq(Entries)]
         /\ pc' = [pc EXCEPT ![e] = pc'[e]] /\ batch' = [batch EXCEPT ![e] = Tail(@)]
         /\ pc'[e] \in {"idle", "lock"}
         /\ (pc'[e] = "idle") <=> (batch'[e] = << >>)
<1>1. batch[e] \in Seq(Entries) /\ batch[e] # << >>
  BY DEF TypeInv, ExecType, ExecOK
<1>2. Tail(batch[e]) \in Seq(Entries) /\ (Len(batch[e]) = 1 <=> Tail(batch[e]) = << >>)
  BY <1>1, TailFacts
<1>3. batch' = [batch EXCEPT ![e] = Tail(@)]
  BY DEF Drop
<1>4. batch' \in [Executors -> Seq(Entries)] /\ batch'[e] = Tail(batch[e])
  BY <1>2, <1>3 DEF TypeInv, ExecType
<1>5. pc' = [pc EXCEPT ![e] = IF Len(batch[e]) = 1 THEN "idle" ELSE "lock"]
  BY DEF Drop, Goto
<1>6. pc'[e] = IF Len(batch[e]) = 1 THEN "idle" ELSE "lock"
  BY <1>5 DEF TypeInv, ExecType
<1> QED BY <1>2, <1>3, <1>4, <1>5, <1>6 DEF TypeInv, ExecType, Places

\* The oldest ready tasks are a sequence of ready tasks, which is empty only when
\* there is none.
LEMMA OldestType ==
  ASSUME TypeInv
  PROVE  /\ InOrder(Oldest) \in Seq(ReadyTasks)
         /\ InOrder(Oldest) = << >> <=> ReadyTasks = {}
<1>1. MaxTasks \in Nat /\ Limit \in Nat \ {0}
  BY BoundsAssumption, SizesAssumption
<1>2. ReadyTasks \in SUBSET (0 .. MaxTasks) /\ Oldest \in SUBSET ReadyTasks
      /\ Oldest \in SUBSET (0 .. MaxTasks)
  BY <1>1 DEF ReadyTasks, Oldest, Tasks
<1>3. Cardinality(Oldest) \in Nat /\ IsFiniteSet(Oldest)
  BY <1>1, <1>2, BoundedFinite
<1>4. \A i \in 1 .. Cardinality(Oldest) : InOrder(Oldest)[i] \in Oldest
  <2>1. \A i \in 0 .. Cardinality(Oldest) - 1 :
            \E t \in Oldest : Cardinality({u \in Oldest : u < t}) = i
    BY <1>1, <1>2, RankExists
  <2>2. ASSUME NEW i \in 1 .. Cardinality(Oldest)
        PROVE  \E t \in Oldest : Cardinality({u \in Oldest : u < t}) = i - 1
    <3>1. i - 1 \in 0 .. Cardinality(Oldest) - 1
      BY <1>3
    <3> QED BY <2>1, <3>1
  <2> HIDE DEF Oldest
  <2> QED BY <2>2 DEF InOrder
<1>5. InOrder(Oldest) = [i \in 1 .. Cardinality(Oldest) |-> InOrder(Oldest)[i]]
  BY DEF InOrder
<1>6. InOrder(Oldest) \in Seq(ReadyTasks) /\ Len(InOrder(Oldest)) = Cardinality(Oldest)
  BY <1>2, <1>3, <1>4, <1>5
<1>7. ReadyTasks # {} => Oldest # {}
  <2>1. SUFFICES ASSUME ReadyTasks # {}
                 PROVE  Oldest # {}
    OBVIOUS
  <2>2. ReadyTasks \in SUBSET Nat
    BY <1>1, <1>2
  <2>3. PICK t \in ReadyTasks : \A u \in ReadyTasks : t <= u
    BY <2>1, <2>2, MinExists
  <2>4. {u \in ReadyTasks : u < t} = {}
    <3>1. \A u \in ReadyTasks : ~(u < t)
      BY <2>2, <2>3
    <3> QED BY <3>1, Zenon
  <2>5. Cardinality({u \in ReadyTasks : u < t}) = 0
    BY <2>4, FS_EmptySet, Zenon
  <2>6. Cardinality({u \in ReadyTasks : u < t}) < Limit
    BY <1>1, <2>5
  <2> QED BY <2>6 DEF Oldest
<1>8. Oldest = {} <=> Cardinality(Oldest) = 0
  BY <1>3, FS_EmptySet, Zenon
<1>9. InOrder(Oldest) = << >> <=> Len(InOrder(Oldest)) = 0
  BY <1>6, EmptyIff
<1> QED BY <1>2, <1>6, <1>7, <1>8, <1>9
\* The cause of a lock that goes is recorded or not.
LEMMA RemoveLockType ==
  ASSUME TypeInv, NEW t \in Tasks, RemoveLock(t)
  PROVE  /\ lock' = [lock EXCEPT ![t] = Free] /\ lock' \in [Tasks -> Executors \cup {Free}]
         /\ causes' \in [Tasks -> SUBSET Causes]
         /\ \A u \in Tasks : causes[u] \subseteq causes'[u]
         /\ \A u \in Tasks \ {t} : causes'[u] = causes[u]
<1>1. causes' = [causes EXCEPT ![t] = @ \cup {"late"}] \/ causes' = causes
  BY DEF RemoveLock, Cause
<1>2. "late" \in Causes
  BY DEF Causes
<1>3. causes' \in [Tasks -> SUBSET Causes]
  BY <1>1, <1>2 DEF TypeInv, HistoryType
<1>4. /\ \A u \in Tasks : causes[u] \subseteq causes'[u]
      /\ \A u \in Tasks \ {t} : causes'[u] = causes[u]
  BY <1>1 DEF TypeInv, HistoryType
<1>5. lock' = [lock EXCEPT ![t] = Free]
  BY DEF RemoveLock
<1>6. lock' \in [Tasks -> Executors \cup {Free}]
  BY <1>5 DEF TypeInv, DbType
<1> QED BY <1>3, <1>4, <1>5, <1>6

\* Each step of an executor keeps the types.
LEMMA TypeGetWaitExecute ==
  ASSUME TypeInv, NEW e \in Executors, GetWaitExecute(e)
  PROVE  TypeInv'
<1> USE DEF TypeInv
<1> DEFINE q == InOrder(Oldest)
           read == [i \in DOMAIN q |-> [task |-> q[i], detail |-> sub[q[i]]]]
<1>1. q \in Seq(Tasks) /\ (q = << >> <=> ReadyTasks = {})
  BY OldestType, SeqMonotonic DEF ReadyTasks
<1>2. read \in Seq(Entries) /\ (read = << >> <=> q = << >>)
  <2> HIDE DEF q
  <2>1. DOMAIN q = 1 .. Len(q) /\ Len(q) \in Nat /\ \A i \in 1 .. Len(q) : q[i] \in Tasks
    BY <1>1
  <2>2. read \in Seq(Entries) /\ Len(read) = Len(q)
    BY <2>1 DEF Entries, DbType
  <2> HIDE DEF read
  <2> QED BY <1>1, <2>2, EmptyIff
<1>3. /\ batch' = [batch EXCEPT ![e] = read]
      /\ pc' = [pc EXCEPT ![e] = IF ReadyTasks = {} THEN "idle" ELSE "lock"]
      /\ UNCHANGED << db, lock, next, tries, allSucc, result, caller, faults, history >>
  BY DEF GetWaitExecute, Goto
<1> HIDE DEF q, read
<1>4. DbType' /\ CallType' /\ HistoryType'
  BY <1>3 DEF DbType, CallType, HistoryType, db, history
<1>5. ExecType'
  BY <1>2, <1>3 DEF ExecType, Places
<1>6. ExecOK'
  BY <1>1, <1>2, <1>3 DEF ExecOK, ExecType, GetWaitExecute, Pushing
<1> QED BY <1>4, <1>5, <1>6

\* An executor tries to lock a task.
LEMMA TypeLockTask ==
  ASSUME TypeInv, NEW e \in Executors, LockTask(e)
  PROVE  TypeInv'
<1> USE DEF TypeInv
<1>1. pc[e] = "lock" /\ Task(e) \in Tasks
  BY TaskType DEF LockTask
<1>2. HistoryType' /\ CallType'
  BY DEF LockTask, HistoryType, history, CallType
<1>3. CASE Drop(e) /\ UNCHANGED lock
  BY <1>1, <1>2, <1>3, DropType DEF LockTask, DbType, ExecType, ExecOK, db, Pushing
<1>4. CASE lock' = [lock EXCEPT ![Task(e)] = e] /\ Goto(e, "count") /\ UNCHANGED batch
  BY <1>1, <1>2, <1>4 DEF LockTask, Goto, DbType, ExecType, ExecOK, db, Places, Holding, Pushing
<1> QED BY <1>3, <1>4 DEF LockTask

\* An executor gives the lock back.
LEMMA TypeUnlock ==
  ASSUME TypeInv, NEW e \in Executors, Unlock(e)
  PROVE  TypeInv'
<1> USE DEF TypeInv
<1>1. pc[e] = "unlock" /\ Task(e) \in Tasks /\ Drop(e)
  BY TaskType DEF Unlock
<1>2. lock' \in [Tasks -> Executors \cup {Free}] /\ causes' \in [Tasks -> SUBSET Causes]
  BY <1>1, RemoveLockType DEF Unlock, DbType, HistoryType
<1> QED BY <1>1, <1>2, DropType
        DEF Unlock, DbType, ExecType, ExecOK, db, HistoryType, CallType, Pushing

\* An executor looks whether the task still waits.
LEMMA TypeCountReady ==
  ASSUME TypeInv, NEW e \in Executors, CountReady(e)
  PROVE  TypeInv'
<1> USE DEF TypeInv
<1>1. \E l \in {"unlock", "update"} : pc' = [pc EXCEPT ![e] = l]
  BY DEF CountReady, Goto
<1> QED BY <1>1 DEF CountReady, DbType, ExecType, ExecOK, db, HistoryType, history, CallType, Places,
                    Holding, Pushing

\* The update of a task's status to executing changes that of no other.
LEMMA UpdateType ==
  ASSUME TypeInv, NEW t \in Tasks, UpdateReady(t)
  PROVE  /\ status' \in [Tasks -> {"none", "execute"} \cup Ready \cup Ended]
         /\ \A u \in Tasks \ {t} : status'[u] = status[u]
         /\ status'[t] = IF status[t] \in Ready THEN "execute" ELSE status[t]
BY DEF UpdateReady, SetStatus, TypeInv, DbType

\* An executor takes a task.
LEMMA TypeChangeToExecuting ==
  ASSUME TypeInv, NEW e \in Executors, ChangeToExecuting(e)
  PROVE  TypeInv'
<1> USE DEF TypeInv
<1>1. \E l \in {"unlock", "push"} : pc' = [pc EXCEPT ![e] = l]
  BY DEF ChangeToExecuting, Goto
<1>2. Task(e) \in Tasks
  BY TaskType DEF ChangeToExecuting
<1>3. status' \in [Tasks -> {"none", "execute"} \cup Ready \cup Ended]
  BY <1>2, UpdateType DEF ChangeToExecuting, DbType
<1> QED BY <1>1, <1>3 DEF ChangeToExecuting, DbType, ExecType, ExecOK, HistoryType, history, CallType,
                    Places, Holding, Pushing

\* An executor passes an entry of its batch over.
LEMMA TypePassOver ==
  ASSUME TypeInv, NEW e \in Executors, PassOver(e)
  PROVE  TypeInv'
<1> USE DEF TypeInv
<1>1. PICK k \in 1 .. Last + 1 : next' = [next EXCEPT ![e] = k]
  <2>1. next[e] + 1 \in 1 .. Last + 1 /\ Last + 1 \in 1 .. Last + 1
    BY SizesAssumption DEF PassOver, ExecType
  <2> QED BY <2>1 DEF PassOver, ExecType
<1>2. next' \in [Executors -> 1 .. Last + 1] /\ \A f \in Executors \ {e} : next'[f] = next[f]
  BY <1>1 DEF ExecType
<1>3. /\ allSucc' \in [Executors -> BOOLEAN]
      /\ \A f \in Executors \ {e} : allSucc'[f] = allSucc[f]
  BY DEF PassOver, ExecType
<1> QED BY <1>2, <1>3 DEF PassOver, DbType, ExecType, ExecOK, db, HistoryType, history, CallType, Pushing

\* An executor posts a subtask.
LEMMA TypePost ==
  ASSUME TypeInv, NEW e \in Executors, Post(e)
  PROVE  TypeInv'
<1> USE DEF TypeInv
<1>1. Task(e) \in Tasks /\ next[e] \in SubTasks
  BY TaskType DEF Post, ExecType, SubTasks
<1>2. done' \in [Tasks -> SUBSET SubTasks] /\ repeated' \subseteq Tasks
  BY <1>1 DEF Post, HistoryType
<1>3. /\ tries' \in [Executors -> 0 .. Retry - 1]
      /\ result' \in [Executors -> {"success", "fail"}]
      /\ pc' = pc \/ pc' = [pc EXCEPT ![e] = "record"]
  <2>1. Retry \in Nat \ {0} /\ tries[e] \in 0 .. Retry - 1
    BY SizesAssumption DEF ExecType
  <2>2. \/ /\ tries[e] + 1 < Retry /\ tries' = [tries EXCEPT ![e] = @ + 1]
           /\ pc' = pc /\ result' = result
        \/ /\ tries' = [tries EXCEPT ![e] = 0] /\ pc' = [pc EXCEPT ![e] = "record"]
           /\ \E r : result' = [result EXCEPT ![e] = IF r = "success" THEN r ELSE "fail"]
    BY DEF Post, Goto
  <2>3. 0 \in 0 .. Retry - 1 /\ (tries[e] + 1 < Retry => tries[e] + 1 \in 0 .. Retry - 1)
    BY <2>1
  <2>4. tries' \in [Executors -> 0 .. Retry - 1]
    BY <2>2, <2>3 DEF ExecType
  <2>5. result' \in [Executors -> {"success", "fail"}]
    BY <2>2 DEF ExecType
  <2> QED BY <2>2, <2>4, <2>5
<1>4. pc[e] = "push" /\ next[e] <= Last /\ UNCHANGED << db, lock, batch, next, allSucc, caller, causes >>
  BY DEF Post
<1> QED BY <1>2, <1>3, <1>4 DEF DbType, ExecType, ExecOK, db, HistoryType, CallType, Places, Pushing

\* The outcome of a subtask is written.
LEMMA TypeRecord ==
  ASSUME TypeInv, NEW e \in Executors, Record(e)
  PROVE  TypeInv'
<1> USE DEF TypeInv
<1>1. Task(e) \in Tasks /\ next[e] \in SubTasks
  BY TaskType, SizesAssumption DEF Record, ExecType, ExecOK, SubTasks
<1>2. /\ status' \in [Tasks -> {"none", "execute"} \cup Ready \cup Ended]
      /\ sub' \in [Tasks -> [SubTasks -> SubStatus]]
  <2>1. result[e] \in SubStatus
    BY DEF ExecType, SubStatus, Ended
  <2>2. sub' = [sub EXCEPT ![Task(e)][next[e]] = result[e]] \/ sub' = sub
    BY DEF Record, SetSub, db
  <2>3. status' = [status EXCEPT ![Task(e)] = "fail"] \/ status' = status
    BY DEF Record, SetStatus, db
  <2>4. sub' \in [Tasks -> [SubTasks -> SubStatus]]
    BY <1>1, <2>1, <2>2 DEF DbType
  <2>5. status' \in [Tasks -> {"none", "execute"} \cup Ready \cup Ended]
    BY <1>1, <2>3 DEF DbType, Ended
  <2> QED BY <2>4, <2>5
<1>3. /\ next' \in [Executors -> 1 .. Last + 1] /\ allSucc' \in [Executors -> BOOLEAN]
      /\ result' \in [Executors -> {"success", "fail"}]
  BY <1>1, SizesAssumption DEF Record, ExecType, SubTasks
<1>4. /\ pc[e] = "record" /\ pc' = [pc EXCEPT ![e] = "push"]
      /\ UNCHANGED << lock, batch, tries, caller, history >>
      /\ \A f \in Executors \ {e} : next'[f] = next[f] /\ allSucc'[f] = allSucc[f]
  BY DEF Record, Goto, ExecType
<1> QED BY <1>2, <1>3, <1>4
        DEF DbType, ExecType, ExecOK, HistoryType, history, CallType, Places, Pushing

\* The variables of executePush are as at its start when it has ended.
LEMMA EndPushType ==
  ASSUME TypeInv, NEW e \in Executors, EndPush(e)
  PROVE  /\ next' \in [Executors -> 1 .. Last + 1] /\ tries' \in [Executors -> 0 .. Retry - 1]
         /\ allSucc' \in [Executors -> BOOLEAN]
         /\ result' \in [Executors -> {"success", "fail"}]
         /\ next'[e] = 1 /\ allSucc'[e]
         /\ \A f \in Executors \ {e} :
               next'[f] = next[f] /\ allSucc'[f] = allSucc[f] /\ result'[f] = result[f]
BY SizesAssumption DEF EndPush, TypeInv, ExecType

\* The outcome of a task is written.
LEMMA TypeFinish ==
  ASSUME TypeInv, NEW e \in Executors, Finish(e)
  PROVE  TypeInv'
<1> USE DEF TypeInv
<1>1. Task(e) \in Tasks /\ pc[e] = "push" /\ Drop(e) /\ EndPush(e)
  BY TaskType DEF Finish
<1>2. status' \in [Tasks -> {"none", "execute"} \cup Ready \cup Ended]
  BY <1>1 DEF Finish, DbType, SetStatus, Ended
<1>3. UNCHANGED << sub, lock, caller, history >>
  BY DEF Finish
<1>4. DbType' /\ HistoryType' /\ CallType'
  BY <1>2, <1>3 DEF DbType, HistoryType, history, CallType
<1>5. ExecType'
  BY <1>1, DropType, EndPushType DEF ExecType
<1>6. pc[e] # "idle"
  BY <1>1
<1>7. /\ pc'[e] \in {"idle", "lock"}
      /\ (pc'[e] = "idle") <=> (batch'[e] = << >>)
      /\ \A f \in Executors \ {e} : pc'[f] = pc[f] /\ batch'[f] = batch[f]
  BY <1>1, <1>6, DropType DEF ExecType
<1>8. ExecOK'
  BY <1>1, <1>7, EndPushType DEF ExecOK, Pushing
<1> QED BY <1>4, <1>5, <1>8

\* A crash, the clock, compensations and calls keep the types.
LEMMA TypeCrash ==
  ASSUME TypeInv, NEW e \in Executors, Crash(e)
  PROVE  TypeInv'
<1> USE DEF TypeInv
<1>1. /\ EndPush(e) /\ pc' = [pc EXCEPT ![e] = "idle"] /\ batch' = [batch EXCEPT ![e] = << >>]
      /\ UNCHANGED << db, lock, caller, history >>
  BY DEF Crash, Goto
<1>2. DbType' /\ HistoryType' /\ CallType'
  BY <1>1 DEF DbType, HistoryType, history, CallType, db
<1>3. << >> \in Seq(Entries)
  BY EmptySeq
<1>4. ExecType'
  BY <1>1, <1>3, EndPushType DEF ExecType, Places
<1>5. ExecOK'
  BY <1>1, EndPushType DEF ExecType, ExecOK, Pushing
<1> QED BY <1>2, <1>4, <1>5

\* A task is created.
LEMMA TypeCreate ==
  ASSUME TypeInv, NEW t \in Tasks, Create(t)
  PROVE  TypeInv'
BY DEF TypeInv, Create, SetStatus, DbType, ExecType, ExecOK, HistoryType, CallType, exec, history, Ready

\* A lock expires.
LEMMA TypeLockExpires ==
  ASSUME TypeInv, NEW t \in Tasks, LockExpires(t)
  PROVE  TypeInv'
<1>1. lock' \in [Tasks -> Executors \cup {Free}] /\ causes' \in [Tasks -> SUBSET Causes]
  BY RemoveLockType DEF LockExpires
<1> QED BY <1>1 DEF TypeInv, LockExpires, DbType, ExecType, ExecOK, HistoryType, CallType, exec, db

\* Tasks that have executed for too long are to be executed again.
LEMMA TypeCompensate ==
  ASSUME TypeInv, NEW S \in SUBSET Tasks, CompensateDBExecute(S)
  PROVE  TypeInv'
<1>1. \A t \in Tasks : Surprised(t) \subseteq Causes
  BY DEF Surprised, Causes
<1>2. causes' \in [Tasks -> SUBSET Causes]
  BY <1>1 DEF CompensateDBExecute, TypeInv, HistoryType
<1>3. status' \in [Tasks -> {"none", "execute"} \cup Ready \cup Ended]
  BY DEF CompensateDBExecute, TypeInv, DbType, Ready
<1> QED BY <1>2, <1>3
        DEF TypeInv, CompensateDBExecute, DbType, ExecType, ExecOK, HistoryType, CallType, exec

\* The check of a status change that the callee asks for.
LEMMA TypeCheck ==
  ASSUME TypeInv, NEW t \in Tasks, NEW k \in SubTasks, NEW s \in Ended, ChangeStatusCheck(t, k, s)
  PROVE  TypeInv'
<1>1. causes' \in [Tasks -> SUBSET Causes]
  BY DEF ChangeStatusCheck, Cause, TypeInv, HistoryType, Causes
<1>2. CallType'
  BY DEF ChangeStatusCheck, CallType, Calls
<1> QED BY <1>1, <1>2
        DEF TypeInv, ChangeStatusCheck, DbType, ExecType, ExecOK, HistoryType, exec, db

\* The two writes of a status change.
LEMMA TypeCall ==
  ASSUME TypeInv, ChangeSubStatus \/ ChangeTaskStatus
  PROVE  TypeInv'
<1>1. caller \in Calls
  BY DEF ChangeSubStatus, ChangeTaskStatus, TypeInv, CallType, Idle
<1>2. CallType'
  BY <1>1 DEF ChangeSubStatus, ChangeTaskStatus, CallType, Calls
<1>3. /\ status' \in [Tasks -> {"none", "execute"} \cup Ready \cup Ended]
      /\ sub' \in [Tasks -> [SubTasks -> SubStatus]]
  <2>1. /\ caller.pc = "sub" => caller.task \in Tasks /\ caller.sub \in SubTasks
        /\ caller.pc = "sub" => caller.status \in SubStatus
        /\ caller.pc = "task" => caller.task \in Tasks
    BY <1>1 DEF Calls, Idle, SubStatus, Ended
  <2>2. CASE ChangeSubStatus
    BY <2>1, <2>2 DEF ChangeSubStatus, TypeInv, DbType, SetSub, SetStatus, Ended
  <2>3. CASE ChangeTaskStatus
    BY <2>1, <2>3 DEF ChangeTaskStatus, TypeInv, DbType, SetStatus, Ended
  <2> QED BY <2>2, <2>3
<1>4. UNCHANGED << lock, exec, history >>
  BY DEF ChangeSubStatus, ChangeTaskStatus
<1>5. ExecType' /\ ExecOK'
  BY <1>4 DEF TypeInv, ExecType, ExecOK, exec
<1>6. DbType' /\ HistoryType'
  BY <1>3, <1>4 DEF TypeInv, DbType, HistoryType, history
<1> QED BY <1>2, <1>5, <1>6 DEF TypeInv

\* Every step keeps the types.
LEMMA TypeStep == TypeInv /\ [Next]_vars => TypeInv'
<1> SUFFICES ASSUME TypeInv, [Next]_vars
             PROVE  TypeInv'
  OBVIOUS
<1>1. CASE UNCHANGED vars
  BY <1>1 DEF vars, db, exec, history, TypeInv, DbType, ExecType, ExecOK, CallType, HistoryType
<1>2. ASSUME NEW e \in Executors, GetWaitExecute(e) \/ Execute(e) \/ Crash(e)
      PROVE  TypeInv'
  BY <1>2, TypeGetWaitExecute, TypeLockTask, TypeUnlock, TypeCountReady, TypeChangeToExecuting,
     TypePassOver, TypePost, TypeRecord, TypeFinish, TypeCrash DEF Execute
<1> QED BY <1>1, <1>2, TypeCreate, TypeLockExpires, TypeCompensate, TypeCheck, TypeCall DEF Next

\* Type correctness: every variable keeps its type, an executor at work has a task,
\* and posts of a subtask are counted below the limit of retries.
THEOREM TypeCorrect == Spec => []TypeOK
<1>1. Init => TypeInv
  BY TypeInit
<1>2. TypeInv /\ [Next]_vars => TypeInv'
  BY TypeStep
<1>3. TypeInv => TypeOK
  BY TypeInvTypes
<1> QED BY <1>1, <1>2, <1>3, PTL DEF Spec
-----------------------------------------------------------------------------
(* Who executes a task.                                                    *)

Pushes(e, t) == pc[e] \in Pushing /\ Task(e) = t
Holds(e, t) == pc[e] \in Holding /\ Task(e) = t
Exclusive(t) == causes[t] \cap {"late", "overrun"} = {}

\* What an executor has read exists.
ReadExists == \A e \in Executors : \A i \in DOMAIN batch[e] : status[batch[e][i].task] # "none"
\* Without an overlap who counts or updates a task has its lock,
HolderOwns ==
    \A t \in Tasks : Exclusive(t) => \A e \in Executors : Holds(e, t) => lock[t] = e
\* a task that is pushed is not ready, so that no count finds it,
PushedTaken ==
    \A t \in Tasks : Exclusive(t) =>
        \A e \in Executors : Pushes(e, t) => status[t] \notin Ready
\* a task is pushed by nobody while one that counted it is to update it,
UpdateAlone ==
    \A t \in Tasks : Exclusive(t) => \A e, f \in Executors :
        Pushes(e, t) => ~(Holds(f, t) /\ pc[f] = "update")
\* and by one at most.
OnePusher ==
    \A t \in Tasks : Exclusive(t) => \A e, f \in Executors :
        Pushes(e, t) /\ Pushes(f, t) => e = f

OverlapInv ==
    TypeInv /\ ReadExists /\ HolderOwns /\ PushedTaken /\ UpdateAlone /\ OnePusher

-----------------------------------------------------------------------------
(* What an executor knows of a task to which nothing special happened.     *)

Undisturbed(t) == causes[t] = {}

\* A call that has started is a cause.
CallCaused == caller # Idle => "call" \in causes[caller.task]
\* While the task is ready, what has been read of its subtasks is what they are.
ReadCurrent ==
    \A e \in Executors : \A i \in DOMAIN batch[e] :
        Undisturbed(batch[e][i].task) /\ status[batch[e][i].task] \in Ready =>
            batch[e][i].detail = sub[batch[e][i].task]
\* Between the count and the update the task stays ready.
CountHolds ==
    \A e \in Executors : \A t \in Tasks :
        Undisturbed(t) /\ Holds(e, t) /\ pc[e] = "update" => status[t] \in Ready
\* A task that is pushed is executing, or failed as its executor knows,
PushedStatus ==
    \A e \in Executors : \A t \in Tasks : Undisturbed(t) /\ Pushes(e, t) =>
        status[t] = "execute" \/ (status[t] = "fail" /\ ~allSucc[e])
\* and the subtasks still to come are as they were read.
PushCurrent ==
    \A e \in Executors : \A t \in Tasks : Undisturbed(t) /\ Pushes(e, t) =>
        \A k \in next[e] .. Last : sub[t][k] = Detail(e)[k]

RepeatInv ==
    OverlapInv /\ CallCaused /\ ReadCurrent /\ CountHolds /\ PushedStatus /\ PushCurrent
        /\ NoRepetition

-----------------------------------------------------------------------------
(* What the callee has performed.                                          *)

NoCall(t) == "call" \notin causes[t]
\* A subtask that is a success in the database, in what was read of it, or in the
\* hands of an executor, was performed.
RecordedDone ==
    \A t \in Tasks : NoCall(t) => \A k \in SubTasks : sub[t][k] = "success" => k \in done[t]
ReadDone ==
    \A e \in Executors : \A i \in DOMAIN batch[e] :
        NoCall(batch[e][i].task) => \A k \in SubTasks :
            batch[e][i].detail[k] = "success" => k \in done[batch[e][i].task]
ResultDone ==
    \A e \in Executors :
        pc[e] = "record" /\ result[e] = "success" => next[e] \in done[Task(e)]
\* An executor without a failure has passed only subtasks that were performed.
PassedDone ==
    \A e \in Executors : pc[e] \in Pushing /\ NoCall(Task(e)) /\ allSucc[e] =>
        \A k \in SubTasks : k < next[e] => k \in done[Task(e)]

SuccessInv ==
    TypeInv /\ CallCaused /\ RecordedDone /\ ReadDone /\ ResultDone /\ PassedDone
        /\ SuccessPerformed
-----------------------------------------------------------------------------
(* What every step leaves alone.                                           *)

\* A step of an executor leaves the others where they are.
LEMMA OthersKept ==
  ASSUME TypeInv, NEW e \in Executors, GetWaitExecute(e) \/ Execute(e) \/ Crash(e)
  PROVE  \A f \in Executors \ {e} :
            /\ pc'[f] = pc[f] /\ batch'[f] = batch[f]
            /\ next'[f] = next[f] /\ allSucc'[f] = allSucc[f] /\ result'[f] = result[f]
<1> USE DEF TypeInv, ExecType
<1>1. CASE GetWaitExecute(e)
  BY <1>1 DEF GetWaitExecute, Goto
<1>2. CASE LockTask(e)
  BY <1>2 DEF LockTask, Goto, Drop
<1>3. CASE Unlock(e)
  BY <1>3 DEF Unlock, Goto, Drop
<1>4. CASE CountReady(e) \/ ChangeToExecuting(e)
  BY <1>4 DEF CountReady, ChangeToExecuting, Goto
<1>5. CASE PassOver(e)
  BY <1>5 DEF PassOver
<1>6. CASE Post(e)
  <2>1. /\ pc' = pc \/ pc' = [pc EXCEPT ![e] = "record"]
        /\ result' = result \/ \E r : result' = [result EXCEPT ![e] = r]
        /\ UNCHANGED << batch, next, allSucc >>
    BY <1>6 DEF Post, Goto
  <2> QED BY <2>1
<1>7. CASE Record(e)
  BY <1>7 DEF Record, Goto
<1>8. CASE Finish(e)
  BY <1>8 DEF Finish, Goto, Drop, EndPush
<1>9. CASE Crash(e)
  BY <1>9 DEF Crash, Goto, EndPush
<1> QED BY <1>1, <1>2, <1>3, <1>4, <1>5, <1>6, <1>7, <1>8, <1>9 DEF Execute

\* The steps that are not an executor's leave the executors where they are.
Environment ==
    \/ \E t \in Tasks :
        \/ Create(t) \/ LockExpires(t)
        \/ \E k \in SubTasks, s \in Ended : ChangeStatusCheck(t, k, s)
    \/ \E S \in SUBSET Tasks : CompensateDBExecute(S)
    \/ ChangeSubStatus \/ ChangeTaskStatus

\* Only executors act for executors.
LEMMA ExecKept ==
  /\ Next <=> Environment \/ \E e \in Executors : GetWaitExecute(e) \/ Execute(e) \/ Crash(e)
  /\ Environment => UNCHANGED exec
<1>1. Environment => UNCHANGED exec
  BY DEF Environment, Create, LockExpires, ChangeStatusCheck, CompensateDBExecute,
         ChangeSubStatus, ChangeTaskStatus
<1>2. Next <=> Environment \/ \E e \in Executors : GetWaitExecute(e) \/ Execute(e) \/ Crash(e)
  BY DEF Next, Environment
<1> QED BY <1>1, <1>2

\* An executor that does not read keeps what it has of its batch.
LEMMA BatchKept ==
  ASSUME TypeInv, NEW e \in Executors, Execute(e) \/ Crash(e)
  PROVE  \A f \in Executors : \A i \in DOMAIN batch'[f] :
            \E j \in DOMAIN batch[f] : batch'[f][i] = batch[f][j]
<1>1. batch' \in {batch, [batch EXCEPT ![e] = Tail(@)], [batch EXCEPT ![e] = << >>]}
  BY DEF Execute, LockTask, Unlock, CountReady, ChangeToExecuting, PassOver, Post, Record, Finish,
         Crash, Drop
<1>2. pc[e] # "idle"
  BY DEF Execute, LockTask, Unlock, CountReady, ChangeToExecuting, PassOver, Post, Record, Finish,
         Crash
<1>3. batch[e] \in Seq(Entries) /\ batch[e] # << >>
  BY <1>2 DEF TypeInv, ExecType, ExecOK
<1>4. \A i \in DOMAIN Tail(batch[e]) : i + 1 \in DOMAIN batch[e] /\ Tail(batch[e])[i] = batch[e][i + 1]
  BY <1>3, TailFacts
<1>5. \A f \in Executors \ {e} : batch'[f] = batch[f]
  BY <1>1 DEF TypeInv, ExecType
<1>6. batch'[e] \in {batch[e], Tail(batch[e]), << >>}
  BY <1>1 DEF TypeInv, ExecType
<1>7. DOMAIN << >> = {}
  OBVIOUS
<1> QED BY <1>4, <1>5, <1>6, <1>7

\* A task that exists does not go, and what happened to it is not forgotten.
LEMMA TasksKept ==
  ASSUME TypeInv, Next
  PROVE  \A t \in Tasks : /\ status[t] # "none" => status'[t] # "none"
                          /\ causes[t] \subseteq causes'[t]
<1> USE DEF TypeInv, DbType, HistoryType
<1>1. ASSUME NEW t \in Tasks, Create(t)
      PROVE  /\ UNCHANGED causes
             /\ \A u \in Tasks : status[u] # "none" => status'[u] # "none"
  BY <1>1 DEF Create, SetStatus, history
<1>2. ASSUME NEW t \in Tasks, LockExpires(t)
      PROVE  UNCHANGED status /\ \A u \in Tasks : causes[u] \subseteq causes'[u]
  BY <1>2, RemoveLockType DEF LockExpires, db
<1>3. ASSUME NEW t \in Tasks, NEW k \in SubTasks, NEW s \in Ended, ChangeStatusCheck(t, k, s)
      PROVE  UNCHANGED status /\ \A u \in Tasks : causes[u] \subseteq causes'[u]
  BY <1>3 DEF ChangeStatusCheck, Cause, db
<1>4. ASSUME NEW S \in SUBSET Tasks, CompensateDBExecute(S)
      PROVE  \A u \in Tasks : /\ status[u] # "none" => status'[u] # "none"
                              /\ causes[u] \subseteq causes'[u]
  BY <1>4 DEF CompensateDBExecute
<1>5. ASSUME ChangeSubStatus \/ ChangeTaskStatus
      PROVE  /\ UNCHANGED causes
             /\ \A u \in Tasks : status[u] # "none" => status'[u] # "none"
  <2>1. caller \in Calls
    BY <1>5 DEF ChangeSubStatus, ChangeTaskStatus, CallType, Idle
  <2> QED BY <1>5, <2>1 DEF ChangeSubStatus, ChangeTaskStatus, SetStatus, history
<1>6. ASSUME NEW e \in Executors, Execute(e)
      PROVE  \A u \in Tasks : /\ status[u] # "none" => status'[u] # "none"
                              /\ causes[u] \subseteq causes'[u]
  <2>1. CASE Unlock(e)
    <3>1. Task(e) \in Tasks
      BY <2>1, TaskType DEF Unlock
    <3> QED BY <2>1, <3>1, RemoveLockType DEF Unlock, db
  <2>2. CASE ChangeToExecuting(e)
    <3>1. Task(e) \in Tasks
      BY <2>2, TaskType DEF ChangeToExecuting
    <3>2. status' = status \/ UpdateReady(Task(e))
      BY <2>2 DEF ChangeToExecuting
    <3> QED BY <2>2, <3>1, <3>2, UpdateType DEF ChangeToExecuting, history
  <2>3. CASE Record(e)
    <3>1. status' = status \/ status' = [status EXCEPT ![Task(e)] = "fail"]
      BY <2>3 DEF Record, SetStatus, db
    <3> QED BY <2>3, <3>1 DEF Record, history
  <2>4. CASE Finish(e)
    <3>1. status' = status \/ \E x \in Ended : status' = [status EXCEPT ![Task(e)] = x]
      BY <2>4 DEF Finish, SetStatus, Ended
    <3> QED BY <2>4, <3>1 DEF Finish, history, Ended
  <2> QED BY <1>6, <2>1, <2>2, <2>3, <2>4
          DEF Execute, LockTask, CountReady, PassOver, Post, db, history
<1> QED BY <1>1, <1>2, <1>3, <1>4, <1>5, <1>6 DEF Next, GetWaitExecute, Crash, db, history

-----------------------------------------------------------------------------
(* One executor.                                                           *)

\* No step removes a task that an executor has read.
LEMMA ReadExistsStep ==
  ASSUME TypeInv, ReadExists, Next
  PROVE  ReadExists'
<1> USE DEF ReadExists
<1>1. \A t \in Tasks : status[t] # "none" => status'[t] # "none"
  BY TasksKept
<1>2. \A f \in Executors : \A i \in DOMAIN batch[f] : batch[f][i].task \in Tasks
  BY BatchType
<1>3. CASE UNCHANGED batch
  BY <1>1, <1>2, <1>3
<1>4. ASSUME NEW e \in Executors, Execute(e) \/ Crash(e)
      PROVE  ReadExists'
  BY <1>1, <1>2, <1>4, BatchKept
<1>5. ASSUME NEW e \in Executors, GetWaitExecute(e)
      PROVE  ReadExists'
  <2> DEFINE q == InOrder(Oldest)
  <2>1. q \in Seq(ReadyTasks)
    BY OldestType
  <2>2. /\ \A f \in Executors \ {e} : batch'[f] = batch[f]
        /\ batch'[e] = [i \in DOMAIN q |-> [task |-> q[i], detail |-> sub[q[i]]]]
        /\ status' = status
    BY <1>5, OthersKept DEF GetWaitExecute, db, TypeInv, ExecType
  <2> HIDE DEF q
  <2>3. \A i \in DOMAIN batch'[e] : batch'[e][i].task \in ReadyTasks
    <3>1. \A i \in DOMAIN q : q[i] \in ReadyTasks
      BY <2>1, LenProperties
    <3> QED BY <2>2, <3>1
  <2>4. \A t \in ReadyTasks : t \in Tasks /\ status[t] # "none"
    BY DEF ReadyTasks, Ready
  <2> QED BY <2>2, <2>3, <2>4
<1> QED BY <1>3, <1>4, <1>5, ExecKept DEF exec

\* A step after which each executor that holds or pushes a task did so before, no
\* lock has gone without a cause, and no task in work became ready without one.
LEMMA OverlapFrame ==
  ASSUME OverlapInv,
         \A t \in Tasks : causes[t] \subseteq causes'[t],
         \A e \in Executors : \A t \in Tasks :
            /\ Pushes(e, t)' => Pushes(e, t)
            /\ Holds(e, t)' => Holds(e, t) /\ (pc'[e] = "update" => pc[e] = "update")
            /\ Exclusive(t)' /\ Holds(e, t) /\ lock[t] = e => lock'[t] = e
            /\ Exclusive(t)' /\ Pushes(e, t) /\ status'[t] \in Ready => status[t] \in Ready
  PROVE  HolderOwns' /\ PushedTaken' /\ UpdateAlone' /\ OnePusher'
<1>1. \A t \in Tasks : Exclusive(t)' => Exclusive(t)
  BY DEF Exclusive
<1>2. HolderOwns'
  BY <1>1 DEF HolderOwns, OverlapInv
<1>3. PushedTaken'
  BY <1>1 DEF PushedTaken, OverlapInv
<1>4. UpdateAlone'
  BY <1>1 DEF UpdateAlone, OverlapInv
<1>5. OnePusher'
  BY <1>1 DEF OnePusher, OverlapInv
<1> QED BY <1>2, <1>3, <1>4, <1>5

\* A step of executors that keeps their places and their batches.
LEMMA SamePlaces ==
  ASSUME UNCHANGED << pc, batch >>
  PROVE  \A e \in Executors : \A t \in Tasks :
            (Pushes(e, t)' <=> Pushes(e, t)) /\ (Holds(e, t)' <=> Holds(e, t))
BY DEF Pushes, Holds, Task

\* A step of one executor changes nothing about who else holds or pushes.
LEMMA OtherPlaces ==
  ASSUME TypeInv, NEW e \in Executors, GetWaitExecute(e) \/ Execute(e) \/ Crash(e)
  PROVE  \A f \in Executors \ {e} : \A t \in Tasks :
            (Pushes(f, t)' <=> Pushes(f, t)) /\ (Holds(f, t)' <=> Holds(f, t))
BY OthersKept DEF Pushes, Holds, Task

\* Whoever gets the lock is its only holder.
LEMMA OverlapLockTask ==
  ASSUME OverlapInv, Next, NEW e \in Executors, LockTask(e)
  PROVE  HolderOwns' /\ PushedTaken' /\ UpdateAlone' /\ OnePusher'
<1> USE DEF OverlapInv
<1>1. \A f \in Executors \ {e} : \A t \in Tasks :
          (Pushes(f, t)' <=> Pushes(f, t)) /\ (Holds(f, t)' <=> Holds(f, t))
  BY OtherPlaces DEF Execute
<1>2. \A f \in Executors \ {e} : pc'[f] = pc[f]
  BY OthersKept DEF Execute
<1>3. /\ status' = status /\ causes' = causes
      /\ \A t \in Tasks : Exclusive(t)' <=> Exclusive(t)
  BY DEF LockTask, db, history, Exclusive
<1>4. CASE Drop(e) /\ UNCHANGED lock
  <2>1. pc'[e] \in {"idle", "lock"}
    BY <1>4, DropType DEF LockTask
  <2>2. \A t \in Tasks : ~Pushes(e, t)' /\ ~Holds(e, t)'
    BY <2>1 DEF Pushes, Holds, Pushing, Holding
  <2>3. \A f \in Executors : \A t \in Tasks :
            /\ Pushes(f, t)' => Pushes(f, t)
            /\ Holds(f, t)' => Holds(f, t) /\ (pc'[f] = "update" => pc[f] = "update")
    BY <1>1, <1>2, <2>2
  <2> QED BY <1>3, <1>4, <2>3, OverlapFrame
<1>5. CASE /\ lock[Task(e)] = Free /\ lock' = [lock EXCEPT ![Task(e)] = e]
           /\ Goto(e, "count") /\ UNCHANGED batch
  <2>1. pc'[e] = "count" /\ Task(e) \in Tasks
    BY <1>5, TaskType DEF LockTask, Goto, TypeInv, ExecType
  <2>2. /\ \A t \in Tasks : ~Pushes(e, t)'
        /\ \A t \in Tasks : Holds(e, t)' <=> t = Task(e)
    BY <1>5, <2>1 DEF Pushes, Holds, Pushing, Holding, Task
  <2>3. lock'[Task(e)] = e /\ \A t \in Tasks \ {Task(e)} : lock'[t] = lock[t]
    BY <1>5, <2>1 DEF TypeInv, DbType
  <2>4. HolderOwns'
    <3>1. \A f \in Executors : \A t \in Tasks : Exclusive(t) /\ Holds(f, t) => lock[t] = f
      BY DEF HolderOwns
    <3>2. \A f \in Executors : Exclusive(Task(e)) => ~Holds(f, Task(e))
      BY <1>5, <2>1, <3>1, ExecutorsAssumption
    <3> QED BY <1>1, <1>3, <2>1, <2>2, <2>3, <3>1, <3>2 DEF HolderOwns
  <2>5. PushedTaken' /\ UpdateAlone' /\ OnePusher'
    BY <1>1, <1>2, <1>3, <2>1, <2>2 DEF PushedTaken, UpdateAlone, OnePusher
  <2> QED BY <2>4, <2>5
<1> QED BY <1>4, <1>5 DEF LockTask

\* A holder that finds the task waiting is the only one to take it.
LEMMA OverlapCountReady ==
  ASSUME OverlapInv, Next, NEW e \in Executors, CountReady(e)
  PROVE  HolderOwns' /\ PushedTaken' /\ UpdateAlone' /\ OnePusher'
<1> USE DEF OverlapInv
<1>1. \A f \in Executors \ {e} : \A t \in Tasks :
          (Pushes(f, t)' <=> Pushes(f, t)) /\ (Holds(f, t)' <=> Holds(f, t))
  BY OtherPlaces DEF Execute
<1>2. \A f \in Executors \ {e} : pc'[f] = pc[f]
  BY OthersKept DEF Execute
<1>3. /\ status' = status /\ causes' = causes /\ lock' = lock /\ batch' = batch
      /\ \A t \in Tasks : Exclusive(t)' <=> Exclusive(t)
  BY DEF CountReady, db, history, Exclusive
<1>4. /\ pc[e] = "count" /\ pc'[e] \in {"unlock", "update"}
      /\ pc'[e] = "update" => status[Task(e)] \in Ready
  BY DEF CountReady, Goto, TypeInv, ExecType
<1>5. \A t \in Tasks : ~Pushes(e, t)' /\ ~Pushes(e, t) /\ (Holds(e, t)' => Holds(e, t))
  BY <1>3, <1>4 DEF Pushes, Holds, Pushing, Holding, Task
<1>6. HolderOwns' /\ PushedTaken' /\ OnePusher'
  BY <1>1, <1>3, <1>5 DEF HolderOwns, PushedTaken, OnePusher
<1>7. UpdateAlone'
  <2> SUFFICES ASSUME NEW t \in Tasks, Exclusive(t), NEW f \in Executors, NEW g \in Executors,
                      Pushes(f, t)', Holds(g, t)', pc'[g] = "update"
               PROVE  FALSE
    BY <1>3 DEF UpdateAlone
  <2>1. Pushes(f, t) /\ status[t] \notin Ready
    BY <1>1, <1>5 DEF PushedTaken
  <2>2. CASE g = e
    BY <1>3, <1>4, <2>1, <2>2 DEF Holds, Task
  <2>3. CASE g # e
    BY <1>1, <1>2, <2>1, <2>3 DEF UpdateAlone
  <2> QED BY <2>2, <2>3
<1> QED BY <1>6, <1>7

\* Whoever takes a task is the only one to push it.
LEMMA OverlapChangeToExecuting ==
  ASSUME OverlapInv, Next, NEW e \in Executors, ChangeToExecuting(e)
  PROVE  HolderOwns' /\ PushedTaken' /\ UpdateAlone' /\ OnePusher'
<1> USE DEF OverlapInv
<1>1. \A f \in Executors \ {e} : \A t \in Tasks :
          (Pushes(f, t)' <=> Pushes(f, t)) /\ (Holds(f, t)' <=> Holds(f, t))
  BY OtherPlaces DEF Execute
<1>2. \A f \in Executors \ {e} : pc'[f] = pc[f]
  BY OthersKept DEF Execute
<1>3. /\ causes' = causes /\ lock' = lock /\ batch' = batch
      /\ \A t \in Tasks : Exclusive(t)' <=> Exclusive(t)
  BY DEF ChangeToExecuting, history, Exclusive
<1>4. /\ pc[e] = "update" /\ pc'[e] \in {"unlock", "push"} /\ Task(e) \in Tasks
  BY TaskType DEF ChangeToExecuting, Goto, TypeInv, ExecType
<1>5. /\ \A t \in Tasks : status'[t] \in Ready => status[t] \in Ready
      /\ pc'[e] = "push" => status'[Task(e)] \notin Ready
  <2>1. UpdateReady(Task(e)) \/ (status' = status /\ pc'[e] # "push")
    BY DEF ChangeToExecuting, Goto, TypeInv, ExecType
  <2>2. "execute" \notin Ready
    BY DEF Ready
  <2> QED BY <1>4, <2>1, <2>2, UpdateType
<1>6. /\ \A t \in Tasks : ~Pushes(e, t) /\ ~Holds(e, t)'
      /\ \A t \in Tasks : Holds(e, t) <=> t = Task(e)
      /\ \A t \in Tasks : Pushes(e, t)' => t = Task(e) /\ pc'[e] = "push"
  BY <1>3, <1>4 DEF Pushes, Holds, Pushing, Holding, Task
<1>7. HolderOwns'
  BY <1>1, <1>3, <1>6 DEF HolderOwns
<1>8. PushedTaken'
  BY <1>1, <1>3, <1>5, <1>6 DEF PushedTaken
<1>9. UpdateAlone'
  <2> SUFFICES ASSUME NEW t \in Tasks, Exclusive(t), NEW f \in Executors, NEW g \in Executors,
                      Pushes(f, t)', Holds(g, t)', pc'[g] = "update"
               PROVE  FALSE
    BY <1>3 DEF UpdateAlone
  <2>1. g # e /\ Holds(g, t) /\ pc[g] = "update"
    BY <1>1, <1>2, <1>6
  <2>2. CASE f = e
    <3>1. Holds(e, t)
      BY <1>6, <2>2
    <3> QED BY <2>1, <3>1 DEF HolderOwns
  <2>3. CASE f # e
    BY <1>1, <2>1, <2>3 DEF UpdateAlone
  <2> QED BY <2>2, <2>3
<1>10. OnePusher'
  BY <1>1, <1>3, <1>4, <1>6 DEF OnePusher, UpdateAlone
<1> QED BY <1>7, <1>8, <1>9, <1>10

\* The other steps of an executor take no lock and start no push.
LEMMA OverlapExecutor ==
  ASSUME OverlapInv, Next, NEW e \in Executors,
         GetWaitExecute(e) \/ Unlock(e) \/ PassOver(e) \/ Post(e) \/ Record(e) \/ Finish(e) \/ Crash(e)
  PROVE  HolderOwns' /\ PushedTaken' /\ UpdateAlone' /\ OnePusher'
<1> USE DEF OverlapInv
<1>1. \A t \in Tasks : causes[t] \subseteq causes'[t]
  BY TasksKept
<1>2. \A f \in Executors \ {e} : pc'[f] = pc[f] /\ \A t \in Tasks :
          (Pushes(f, t)' <=> Pushes(f, t)) /\ (Holds(f, t)' <=> Holds(f, t))
  BY OtherPlaces, OthersKept DEF Execute
<1>3. \A t \in Tasks : (Pushes(e, t)' => Pushes(e, t)) /\ ~Holds(e, t)'
  <2>1. CASE pc'[e] \in {"idle", "lock"}
    BY <2>1 DEF Pushes, Holds, Pushing, Holding
  <2>2. CASE pc[e] \in Pushing /\ pc'[e] \in Pushing /\ batch' = batch
    BY <2>2 DEF Pushes, Holds, Pushing, Holding, Task
  <2>3. GetWaitExecute(e) \/ Crash(e) => pc'[e] \in {"idle", "lock"}
    BY DEF GetWaitExecute, Crash, Goto, TypeInv, ExecType
  <2>4. Unlock(e) \/ Finish(e) => pc'[e] \in {"idle", "lock"}
    BY DropType DEF Unlock, Finish
  <2>5. PassOver(e) \/ Record(e) => pc[e] \in Pushing /\ pc'[e] \in Pushing /\ batch' = batch
    BY DEF PassOver, Record, Goto, Pushing, TypeInv, ExecType
  <2>6. Post(e) => pc[e] \in Pushing /\ pc'[e] \in Pushing /\ batch' = batch
    <3>1. Post(e) => pc[e] = "push" /\ pc' \in {pc, [pc EXCEPT ![e] = "record"]} /\ batch' = batch
      BY DEF Post, Goto
    <3> QED BY <3>1 DEF Pushing, TypeInv, ExecType
  <2> QED BY <2>1, <2>2, <2>3, <2>4, <2>5, <2>6
<1>4. \A f \in Executors : \A t \in Tasks :
          Exclusive(t)' /\ Holds(f, t) /\ lock[t] = f => lock'[t] = f
  <2>1. CASE Unlock(e)
    <3>1. Task(e) \in Tasks
      BY <2>1, TaskType DEF Unlock
    <3>2. CASE UNCHANGED lock
      BY <3>2
    <3>3. CASE RemoveLock(Task(e))
      <4> SUFFICES ASSUME NEW f \in Executors, NEW t \in Tasks,
                          Exclusive(t)', Holds(f, t), lock[t] = f, t = Task(e)
                   PROVE  FALSE
        BY <3>1, <3>3, RemoveLockType
      <4>1. "late" \in causes'[t]
        BY <3>3 DEF RemoveLock, Cause, Holds, TypeInv, HistoryType
      <4> QED BY <4>1 DEF Exclusive
    <3> QED BY <2>1, <3>2, <3>3 DEF Unlock
  <2>2. ~Unlock(e) => UNCHANGED lock
    BY DEF GetWaitExecute, PassOver, Post, Record, Finish, Crash
  <2> QED BY <2>1, <2>2
<1>5. \A t \in Tasks : status'[t] \in Ready => status[t] \in Ready
  <2>1. status' = status \/ \E x \in Ended : status' = [status EXCEPT ![Task(e)] = x]
    BY DEF GetWaitExecute, Unlock, PassOver, Post, Record, Finish, Crash, SetStatus, db, Ended
  <2>2. Ready \cap Ended = {}
    BY DEF Ready, Ended
  <2> QED BY <2>1, <2>2 DEF TypeInv, DbType
<1>6. \A f \in Executors : \A t \in Tasks :
            /\ Pushes(f, t)' => Pushes(f, t)
            /\ Holds(f, t)' => Holds(f, t) /\ (pc'[f] = "update" => pc[f] = "update")
  BY <1>2, <1>3
<1> QED BY <1>1, <1>4, <1>5, <1>6, OverlapFrame

\* A lock that expires, a compensation, a call and a new task.
LEMMA OverlapEnvironment ==
  ASSUME OverlapInv, Next, Environment
  PROVE  HolderOwns' /\ PushedTaken' /\ UpdateAlone' /\ OnePusher'
<1> USE DEF OverlapInv
<1>1. \A t \in Tasks : causes[t] \subseteq causes'[t]
  BY TasksKept
<1>2. pc' = pc /\ batch' = batch
  BY ExecKept DEF exec
<1>3. \A f \in Executors : \A t \in Tasks :
            /\ Pushes(f, t)' => Pushes(f, t)
            /\ Holds(f, t)' => Holds(f, t) /\ (pc'[f] = "update" => pc[f] = "update")
  BY <1>2, SamePlaces
<1>4. \A f \in Executors : \A t \in Tasks :
          Exclusive(t)' /\ Holds(f, t) /\ lock[t] = f => lock'[t] = f
  <2>1. CASE \E u \in Tasks : LockExpires(u)
    <3>1. PICK u \in Tasks : RemoveLock(u)
      BY <2>1 DEF LockExpires
    <3> SUFFICES ASSUME NEW f \in Executors, NEW t \in Tasks,
                        Exclusive(t)', Holds(f, t), lock[t] = f, t = u
                 PROVE  FALSE
      BY <3>1, RemoveLockType
    <3>2. "late" \in causes'[t]
      BY <3>1 DEF RemoveLock, Cause, Holds, TypeInv, HistoryType
    <3> QED BY <3>2 DEF Exclusive
  <2>2. ~(\E u \in Tasks : LockExpires(u)) => UNCHANGED lock
    BY DEF Environment, Create, ChangeStatusCheck, CompensateDBExecute, ChangeSubStatus,
           ChangeTaskStatus
  <2> QED BY <2>1, <2>2
<1>5. \A f \in Executors : \A t \in Tasks :
          Exclusive(t)' /\ Pushes(f, t) /\ status'[t] \in Ready => status[t] \in Ready
  <2> SUFFICES ASSUME NEW f \in Executors, NEW t \in Tasks,
                      Exclusive(t)', Pushes(f, t), status'[t] \in Ready, status[t] \notin Ready
               PROVE  FALSE
    OBVIOUS
  <2>1. ASSUME NEW u \in Tasks, Create(u)
        PROVE  FALSE
    <3>1. pc[f] # "idle"
      BY DEF Pushes, Pushing
    <3>2. batch[f] \in Seq(Entries) /\ batch[f] # << >>
      BY <3>1, TaskType DEF TypeInv, ExecType
    <3>3. 1 \in DOMAIN batch[f] /\ batch[f][1].task = t
      BY <3>2, TailFacts DEF Pushes, Task
    <3>4. status[t] # "none"
      BY <3>3 DEF ReadExists
    <3>5. status'[t] = status[t]
      BY <2>1, <3>4 DEF Create, SetStatus, TypeInv, DbType
    <3> QED BY <3>5
  <2>2. ASSUME NEW S \in SUBSET Tasks, CompensateDBExecute(S)
        PROVE  FALSE
    <3>1. t \in S
      BY <2>2 DEF CompensateDBExecute
    <3>2. Executes(f, t)
      BY DEF Executes, Pushes
    <3>3. "overrun" \in causes'[t]
      BY <2>2, <3>1, <3>2 DEF CompensateDBExecute, Surprised
    <3> QED BY <3>3 DEF Exclusive
  <2>3. ASSUME ChangeSubStatus \/ ChangeTaskStatus
        PROVE  FALSE
    <3>1. status' = status \/ \E x \in Ended : status' = [status EXCEPT ![caller.task] = x]
      BY <2>3 DEF ChangeSubStatus, ChangeTaskStatus, SetStatus, Ended
    <3> QED BY <3>1 DEF TypeInv, DbType, Ready, Ended
  <2>4. (\E u \in Tasks : LockExpires(u) \/ \E k \in SubTasks, s \in Ended : ChangeStatusCheck(u, k, s))
            => UNCHANGED status
    BY DEF LockExpires, ChangeStatusCheck, db
  <2> QED BY <2>1, <2>2, <2>3, <2>4 DEF Environment
<1> QED BY <1>1, <1>3, <1>4, <1>5, OverlapFrame

\* Every step keeps the executors of a task apart.
LEMMA OverlapStep == OverlapInv /\ [Next]_vars => OverlapInv'
<1> SUFFICES ASSUME OverlapInv, [Next]_vars
             PROVE  OverlapInv'
  OBVIOUS
<1>1. CASE UNCHANGED vars
  <2>1. UNCHANGED << status, lock, pc, batch, causes >> /\ TypeInv'
    BY <1>1, TypeStep DEF OverlapInv, vars, db, exec, history
  <2>2. ReadExists'
    BY <2>1 DEF OverlapInv, ReadExists
  <2>3. \A e \in Executors : \A t \in Tasks :
            (Pushes(e, t)' <=> Pushes(e, t)) /\ (Holds(e, t)' <=> Holds(e, t))
    BY <2>1, SamePlaces
  <2>4. HolderOwns' /\ PushedTaken' /\ UpdateAlone' /\ OnePusher'
    BY <2>1, <2>3, OverlapFrame DEF OverlapInv
  <2> QED BY <2>1, <2>2, <2>4 DEF OverlapInv
<1>2. CASE Next
  <2>1. TypeInv' /\ ReadExists'
    BY <1>2, TypeStep, ReadExistsStep DEF OverlapInv
  <2>2. ASSUME NEW e \in Executors, GetWaitExecute(e) \/ Execute(e) \/ Crash(e)
        PROVE  HolderOwns' /\ PushedTaken' /\ UpdateAlone' /\ OnePusher'
    BY <1>2, <2>2, OverlapLockTask, OverlapCountReady, OverlapChangeToExecuting, OverlapExecutor
       DEF Execute
  <2>3. HolderOwns' /\ PushedTaken' /\ UpdateAlone' /\ OnePusher'
    BY <1>2, <2>2, OverlapEnvironment, ExecKept
  <2> QED BY <2>1, <2>3 DEF OverlapInv
<1> QED BY <1>1, <1>2

\* At the start nobody holds or executes anything.
LEMMA OverlapInit == Init => OverlapInv
<1> SUFFICES ASSUME Init
             PROVE  OverlapInv
  OBVIOUS
<1>1. TypeInv
  BY TypeInit
<1>2. \A e \in Executors : batch[e] = << >> /\ pc[e] = "idle"
  BY DEF Init
<1>3. \A e \in Executors : \A t \in Tasks : ~Pushes(e, t) /\ ~Holds(e, t)
  BY <1>2 DEF Pushes, Holds, Pushing, Holding
<1>4. ReadExists
  BY <1>2 DEF ReadExists
<1> QED BY <1>1, <1>3, <1>4 DEF OverlapInv, HolderOwns, PushedTaken, UpdateAlone, OnePusher

\* Two executors push the subtasks of one task at the same time only when a lock went
\* between the count and the update of its owner, or when a task in work was compensated.
THEOREM OneExecutorAtATime == Spec => []OneExecutor
<1>1. OverlapInv => OneExecutor
  <2> SUFFICES ASSUME OverlapInv, NEW t \in Tasks, Exclusive(t)
               PROVE  ~(Cardinality(Pushers(t)) > 1)
    BY DEF OneExecutor, Exclusive
  <2>1. \A e, f \in Pushers(t) : e = f
    BY DEF OverlapInv, OnePusher, Pushers, Pushes
  <2>2. CASE Pushers(t) = {}
    BY <2>2, FS_EmptySet
  <2>3. CASE Pushers(t) # {}
    <3>1. PICK e \in Pushers(t) : TRUE
      BY <2>3
    <3>2. Pushers(t) = {e}
      BY <2>1, <3>1, Zenon
    <3>3. Cardinality(Pushers(t)) = 1
      BY <3>2, FS_Singleton, Zenon
    <3> QED BY <3>3
  <2> QED BY <2>2, <2>3
<1> QED BY <1>1, OverlapInit, OverlapStep, PTL DEF Spec

\* A call that has started stays among the causes of its task.
LEMMA CallCausedStep ==
  ASSUME TypeInv, CallCaused, Next
  PROVE  CallCaused'
<1> USE DEF CallCaused
<1>1. \A t \in Tasks : causes[t] \subseteq causes'[t]
  BY TasksKept
<1>2. caller # Idle => caller \in Calls /\ caller.task \in Tasks
  BY DEF TypeInv, CallType, Calls
<1>3. CASE UNCHANGED caller
  BY <1>1, <1>2, <1>3
<1>4. ASSUME NEW t \in Tasks, NEW k \in SubTasks, NEW s \in Ended, ChangeStatusCheck(t, k, s)
      PROVE  CallCaused'
  BY <1>4 DEF ChangeStatusCheck, Cause, TypeInv, HistoryType
<1>5. CASE ChangeSubStatus \/ ChangeTaskStatus
  <2>1. caller # Idle
    BY <1>5 DEF ChangeSubStatus, ChangeTaskStatus, Idle
  <2>2. caller' = Idle \/ caller'.task = caller.task
    BY <1>2, <1>5, <2>1 DEF ChangeSubStatus, ChangeTaskStatus, Calls
  <2> QED BY <1>1, <1>2, <2>1, <2>2
<1>6. UNCHANGED caller \/ ChangeSubStatus \/ ChangeTaskStatus
        \/ \E t \in Tasks, k \in SubTasks, s \in Ended : ChangeStatusCheck(t, k, s)
  BY DEF Next, Create, LockExpires, CompensateDBExecute, GetWaitExecute, Crash, Execute, LockTask,
         Unlock, CountReady, ChangeToExecuting, PassOver, Post, Record, Finish
<1> QED BY <1>3, <1>4, <1>5, <1>6

\* The status of a task to which nothing special happened changes when it is created,
\* taken, compensated, or by the executor that pushes it.
LEMMA StatusChange ==
  ASSUME RepeatInv, Next, NEW t \in Tasks, Undisturbed(t), status'[t] # status[t]
  PROVE  \/ status[t] = "none"
         \/ \E e \in Executors : /\ ChangeToExecuting(e) /\ Holds(e, t) /\ pc[e] = "update"
                                 /\ status[t] \in Ready /\ status'[t] = "execute"
         \/ \E e \in Executors : /\ Record(e) /\ Pushes(e, t)
                                 /\ result[e] = "fail" /\ status'[t] = "fail"
         \/ \E e \in Executors : /\ Finish(e) /\ Pushes(e, t)
                                 /\ status'[t] = IF allSucc[e] THEN "success" ELSE "fail"
         \/ \E S \in SUBSET Tasks : CompensateDBExecute(S) /\ t \in S /\ status[t] = "execute"
<1> USE DEF RepeatInv, OverlapInv
<1>1. ASSUME NEW e \in Executors, ChangeToExecuting(e)
      PROVE  /\ Holds(e, t) /\ pc[e] = "update"
             /\ status[t] \in Ready /\ status'[t] = "execute"
  <2>1. pc[e] = "update" /\ Task(e) \in Tasks
    BY <1>1, TaskType DEF ChangeToExecuting
  <2>2. UpdateReady(Task(e))
    BY <1>1 DEF ChangeToExecuting
  <2>3. Task(e) = t /\ status[t] \in Ready /\ status'[t] = "execute"
    BY <2>1, <2>2, UpdateType
  <2> QED BY <2>1, <2>3 DEF Holds, Holding
<1>2. ASSUME NEW e \in Executors, Record(e)
      PROVE  Pushes(e, t) /\ result[e] = "fail" /\ status'[t] = "fail"
  <2>1. result[e] = "fail" /\ status' = [status EXCEPT ![Task(e)] = "fail"]
    BY <1>2 DEF Record, SetStatus, db
  <2> QED BY <1>2, <2>1 DEF Record, Pushes, Pushing, TypeInv, DbType
<1>3. ASSUME NEW e \in Executors, Finish(e)
      PROVE  Pushes(e, t) /\ status'[t] = IF allSucc[e] THEN "success" ELSE "fail"
  <2>1. status' = [status EXCEPT ![Task(e)] = IF allSucc[e] THEN "success" ELSE "fail"]
    BY <1>3 DEF Finish, SetStatus
  <2> QED BY <1>3, <2>1 DEF Finish, Pushes, Pushing, TypeInv, DbType
<1>4. ASSUME NEW S \in SUBSET Tasks, CompensateDBExecute(S)
      PROVE  t \in S /\ status[t] = "execute"
  BY <1>4 DEF CompensateDBExecute
<1>5. ASSUME NEW u \in Tasks, Create(u)
      PROVE  status[t] = "none"
  BY <1>5 DEF Create, SetStatus, TypeInv, DbType
<1>6. ASSUME ChangeSubStatus \/ ChangeTaskStatus
      PROVE  FALSE
  <2>1. caller # Idle
    BY <1>6 DEF ChangeSubStatus, ChangeTaskStatus, Idle
  <2>2. caller.task \in Tasks /\ caller.task # t
    BY <2>1 DEF CallCaused, Undisturbed, TypeInv, CallType, Calls
  <2> QED BY <1>6, <2>2 DEF ChangeSubStatus, ChangeTaskStatus, SetStatus, TypeInv, DbType
<1>7. \/ \E u \in Tasks : Create(u)
      \/ \E e \in Executors : ChangeToExecuting(e) \/ Record(e) \/ Finish(e)
      \/ \E S \in SUBSET Tasks : CompensateDBExecute(S)
      \/ ChangeSubStatus \/ ChangeTaskStatus
  BY DEF Next, Execute, LockExpires, ChangeStatusCheck, GetWaitExecute, Crash, LockTask, Unlock,
         CountReady, PassOver, Post, db
<1> QED BY <1>1, <1>2, <1>3, <1>4, <1>5, <1>6, <1>7

\* Its subtasks change only when their executor records a result.
LEMMA SubChange ==
  ASSUME RepeatInv, Next, NEW t \in Tasks, Undisturbed(t), sub'[t] # sub[t]
  PROVE  \E e \in Executors : /\ Record(e) /\ Pushes(e, t) /\ pc[e] = "record"
                              /\ \A k \in SubTasks \ {next[e]} : sub'[t][k] = sub[t][k]
<1> USE DEF RepeatInv, OverlapInv
<1>1. ASSUME NEW e \in Executors, Record(e)
      PROVE  /\ Pushes(e, t) /\ pc[e] = "record"
             /\ \A k \in SubTasks \ {next[e]} : sub'[t][k] = sub[t][k]
  <2>1. sub' = [sub EXCEPT ![Task(e)][next[e]] = result[e]]
    BY <1>1 DEF Record, SetSub, db
  <2>2. Task(e) = t /\ pc[e] = "record"
    BY <1>1, <2>1 DEF Record, TypeInv, DbType
  <2>3. \A k \in SubTasks \ {next[e]} : sub'[t][k] = sub[t][k]
    BY <2>1, <2>2 DEF TypeInv, DbType
  <2> QED BY <2>2, <2>3 DEF Pushes, Pushing
<1>2. ASSUME ChangeSubStatus
      PROVE  FALSE
  <2>1. caller # Idle
    BY <1>2 DEF ChangeSubStatus, Idle
  <2>2. caller.task \in Tasks /\ caller.task # t
    BY <2>1 DEF CallCaused, Undisturbed, TypeInv, CallType, Calls
  <2> QED BY <1>2, <2>2 DEF ChangeSubStatus, SetSub, TypeInv, DbType
<1>3. ChangeSubStatus \/ \E e \in Executors : Record(e)
  BY DEF Next, Execute, Create, LockExpires, CompensateDBExecute, ChangeStatusCheck, ChangeTaskStatus,
         GetWaitExecute, Crash, LockTask, Unlock, CountReady, ChangeToExecuting, PassOver, Post,
         Finish, db
<1> QED BY <1>1, <1>2, <1>3

\* A compensation of a task that an executor has read is a cause.
LEMMA CompensateRead ==
  ASSUME TypeInv, NEW S \in SUBSET Tasks, CompensateDBExecute(S), NEW t \in S,
         NEW e \in Executors, NEW i \in DOMAIN batch[e], batch[e][i].task = t
  PROVE  causes'[t] # {}
<1>1. HasRead(e, t)
  BY DEF HasRead
<1>2. Surprised(t) # {}
  BY <1>1 DEF Surprised
<1> QED BY <1>2 DEF CompensateDBExecute

\* Who pushes or holds a task has read it.
LEMMA PushesReads ==
  ASSUME TypeInv, NEW e \in Executors, NEW t, Pushes(e, t) \/ Holds(e, t)
  PROVE  /\ 1 \in DOMAIN batch[e] /\ batch[e][1].task = t /\ Task(e) = t
         /\ Detail(e) = batch[e][1].detail
<1>1. pc[e] # "idle"
  BY DEF Pushes, Holds, Pushing, Holding
<1>2. batch[e] \in Seq(Entries) /\ batch[e] # << >>
  BY <1>1, TaskType DEF TypeInv, ExecType
<1> QED BY <1>2, TailFacts DEF Pushes, Holds, Task, Detail

\* What has been read of a ready task stays what it is: only who pushes it changes it.
LEMMA ReadCurrentStep ==
  ASSUME RepeatInv, Next
  PROVE  ReadCurrent'
<1> USE DEF RepeatInv, OverlapInv
<1>1. SUFFICES ASSUME NEW e \in Executors, NEW i \in DOMAIN batch'[e], NEW t \in Tasks,
                      t = batch'[e][i].task, causes'[t] = {}, status'[t] \in Ready
               PROVE  batch'[e][i].detail = sub'[t]
  <2>1. TypeInv'
    BY TypeStep
  <2>2. ASSUME NEW e \in Executors, NEW i \in DOMAIN batch'[e]
        PROVE  batch'[e][i].task \in Tasks
    <3>1. batch'[e] \in Seq(Entries)
      BY <2>1 DEF TypeInv, ExecType
    <3> QED BY <3>1, EntryType
  <2> QED BY <2>2 DEF ReadCurrent, Undisturbed
<1>2. Undisturbed(t)
  BY <1>1, TasksKept DEF Undisturbed
<1>3. CASE \E j \in DOMAIN batch[e] : batch'[e][i] = batch[e][j]
  <2>1. PICK j \in DOMAIN batch[e] : batch'[e][i] = batch[e][j]
    BY <1>3
  <2>2. status[t] # "none"
    BY <1>1, <2>1 DEF ReadExists
  <2>3. status[t] \in Ready
    <3>1. SUFFICES ASSUME status'[t] # status[t]
                   PROVE  FALSE
      BY <1>1
    <3>2. status'[t] \notin {"execute"} \cup Ended
      BY <1>1 DEF Ready, Ended
    <3>3. PICK S \in SUBSET Tasks : CompensateDBExecute(S) /\ t \in S
      BY <1>2, <2>2, <3>1, <3>2, StatusChange DEF Ended
    <3> QED BY <1>1, <2>1, <3>3, CompensateRead
  <2>4. batch'[e][i].detail = sub[t]
    BY <1>1, <1>2, <2>1, <2>3 DEF ReadCurrent
  <2>5. sub'[t] = sub[t]
    <3>1. SUFFICES ASSUME sub'[t] # sub[t]
                   PROVE  FALSE
      OBVIOUS
    <3>2. PICK f \in Executors : Pushes(f, t)
      BY <1>2, <3>1, SubChange
    <3> QED BY <1>2, <2>3, <3>2 DEF PushedTaken, Exclusive, Undisturbed
  <2> QED BY <2>4, <2>5
<1>4. CASE GetWaitExecute(e)
  <2> DEFINE q == InOrder(Oldest)
  <2>1. /\ batch'[e] = [j \in DOMAIN q |-> [task |-> q[j], detail |-> sub[q[j]]]]
        /\ sub' = sub
    BY <1>4 DEF GetWaitExecute, db, TypeInv, ExecType
  <2> HIDE DEF q
  <2> QED BY <1>1, <2>1
<1>5. \/ GetWaitExecute(e)
      \/ \E j \in DOMAIN batch[e] : batch'[e][i] = batch[e][j]
  <2>1. CASE UNCHANGED batch
    BY <2>1
  <2>2. ASSUME NEW f \in Executors, Execute(f) \/ Crash(f)
        PROVE  \E j \in DOMAIN batch[e] : batch'[e][i] = batch[e][j]
    BY <2>2, BatchKept
  <2>3. ASSUME NEW f \in Executors \ {e}, GetWaitExecute(f)
        PROVE  \E j \in DOMAIN batch[e] : batch'[e][i] = batch[e][j]
    BY <2>3, OthersKept
  <2> QED BY <2>1, <2>2, <2>3, ExecKept DEF exec
<1> QED BY <1>3, <1>4, <1>5

\* An executor comes to update or to push a task only from the count or the update of it;
\* while it pushes, it does not go back and does not forget a failure.
LEMMA PlaceSteps ==
  ASSUME TypeInv, Next, NEW e \in Executors, NEW t \in Tasks
  PROVE  /\ Pushes(e, t)' =>
              /\ Detail(e)' = Detail(e)
              /\ \/ Pushes(e, t) /\ next'[e] >= next[e] /\ (allSucc'[e] => allSucc[e])
                 \/ /\ ChangeToExecuting(e) /\ Holds(e, t) /\ pc[e] = "update"
                    /\ UpdateReady(t) /\ next'[e] = 1 /\ sub' = sub
         /\ Holds(e, t)' /\ pc'[e] = "update" => Holds(e, t) /\
              \/ pc[e] = "update" /\ ~ChangeToExecuting(e)
              \/ pc[e] = "count" /\ status[t] \in Ready /\ status' = status
<1> USE DEF TypeInv, ExecType
<1>1. CASE Environment
  BY <1>1, ExecKept DEF exec, Pushes, Holds, Task, Detail, ChangeToExecuting, Goto
<1>2. ASSUME NEW f \in Executors \ {e}, GetWaitExecute(f) \/ Execute(f) \/ Crash(f)
      PROVE  /\ Pushes(e, t)' => Pushes(e, t)
             /\ Holds(e, t)' => Holds(e, t)
             /\ Detail(e)' = Detail(e) /\ pc'[e] = pc[e]
             /\ next'[e] = next[e] /\ allSucc'[e] = allSucc[e]
  BY <1>2, OthersKept, OtherPlaces DEF Detail
<1>3. CASE pc'[e] \in {"idle", "lock", "unlock"}
  BY <1>3 DEF Pushes, Holds, Pushing, Holding
<1>4. GetWaitExecute(e) \/ Crash(e) => pc'[e] \in {"idle", "lock", "unlock"}
  BY DEF GetWaitExecute, Crash, Goto
<1>5. Unlock(e) \/ Finish(e) => pc'[e] \in {"idle", "lock", "unlock"}
  BY DropType DEF Unlock, Finish
<1>6. CASE LockTask(e)
  <2>1. pc'[e] \in {"idle", "lock", "count"}
    BY <1>6, DropType DEF LockTask, Goto
  <2> QED BY <2>1 DEF Pushes, Holds, Pushing, Holding
<1>7. CASE CountReady(e)
  BY <1>7 DEF CountReady, Goto, Pushes, Holds, Pushing, Holding, Task, db
<1>8. CASE ChangeToExecuting(e)
  <2>1. /\ pc[e] = "update" /\ pc'[e] \in {"unlock", "push"} /\ batch' = batch /\ sub' = sub
        /\ next' = next /\ (pc'[e] = "push" => UpdateReady(Task(e)))
    BY <1>8 DEF ChangeToExecuting, Goto
  <2>2. next[e] = 1
    BY <2>1 DEF ExecOK, Pushing
  <2> QED BY <1>8, <2>1, <2>2 DEF Pushes, Holds, Pushing, Holding, Task, Detail
<1>9. CASE PassOver(e)
  <2>1. /\ pc' = pc /\ pc[e] = "push" /\ batch' = batch /\ next'[e] >= next[e]
        /\ allSucc'[e] => allSucc[e]
    BY <1>9, SizesAssumption DEF PassOver
  <2> QED BY <2>1 DEF Pushes, Holds, Pushing, Holding, Task, Detail
<1>10. CASE Post(e)
  <2>1. pc[e] = "push" /\ pc' \in {pc, [pc EXCEPT ![e] = "record"]} /\ UNCHANGED << batch, next, allSucc >>
    BY <1>10 DEF Post, Goto
  <2> QED BY <2>1 DEF Pushes, Holds, Pushing, Holding, Task, Detail
<1>11. CASE Record(e)
  <2>1. /\ pc[e] = "record" /\ pc'[e] = "push" /\ batch' = batch /\ next'[e] = next[e] + 1
        /\ allSucc'[e] => allSucc[e]
    BY <1>11 DEF Record, Goto
  <2> QED BY <2>1 DEF Pushes, Holds, Pushing, Holding, Task, Detail
<1>12. \/ Environment \/ \E f \in Executors \ {e} : GetWaitExecute(f) \/ Execute(f) \/ Crash(f)
       \/ GetWaitExecute(e) \/ Execute(e) \/ Crash(e)
  BY ExecKept
<1>13. ASSUME NEW f \in Executors \ {e}, GetWaitExecute(f) \/ Execute(f) \/ Crash(f),
              Holds(e, t)', pc'[e] = "update"
       PROVE  ~ChangeToExecuting(e) \/ pc[e] = "count"
  <2> SUFFICES ASSUME ChangeToExecuting(e) PROVE FALSE
    OBVIOUS
  <2>1. pc'[e] \in {"unlock", "push"}
    BY DEF ChangeToExecuting, Goto
  <2> QED BY <1>13, <2>1
<1> QED BY <1>1, <1>2, <1>3, <1>4, <1>5, <1>6, <1>7, <1>8, <1>9, <1>10, <1>11, <1>12, <1>13 DEF Execute

\* A task that was counted stays ready until it is updated.
LEMMA CountHoldsStep ==
  ASSUME RepeatInv, Next
  PROVE  CountHolds'
<1> USE DEF RepeatInv, OverlapInv
<1>1. SUFFICES ASSUME NEW e \in Executors, NEW t \in Tasks, causes'[t] = {},
                      Holds(e, t)', pc'[e] = "update", status'[t] \notin Ready
               PROVE  FALSE
  BY DEF CountHolds, Undisturbed
<1>2. Undisturbed(t) /\ Exclusive(t)
  BY <1>1, TasksKept DEF Undisturbed, Exclusive
<1>3. Holds(e, t) /\ pc[e] = "update" /\ ~ChangeToExecuting(e)
  BY <1>1, PlaceSteps
<1>4. status[t] \in Ready
  BY <1>2, <1>3 DEF CountHolds
<1>5. status'[t] # status[t] /\ status[t] \notin {"none", "execute"}
  BY <1>1, <1>4 DEF Ready
<1>6. lock[t] = e
  BY <1>2, <1>3 DEF HolderOwns
<1>7. ASSUME NEW f \in Executors, ChangeToExecuting(f), Holds(f, t)
      PROVE  FALSE
  BY <1>2, <1>3, <1>6, <1>7 DEF HolderOwns
<1>8. ASSUME NEW f \in Executors, Pushes(f, t)
      PROVE  FALSE
  BY <1>2, <1>3, <1>8 DEF UpdateAlone
<1> QED BY <1>2, <1>5, <1>7, <1>8, StatusChange

\* A pushed task stays in execution, or failed with its executor's knowledge.
LEMMA PushedStatusStep ==
  ASSUME RepeatInv, Next
  PROVE  PushedStatus'
<1> USE DEF RepeatInv, OverlapInv
<1>1. SUFFICES ASSUME NEW e \in Executors, NEW t \in Tasks, causes'[t] = {}, Pushes(e, t)'
               PROVE  status'[t] = "execute" \/ (status'[t] = "fail" /\ ~allSucc'[e])
  BY DEF PushedStatus, Undisturbed
<1>2. Undisturbed(t) /\ Exclusive(t)
  BY <1>1, TasksKept DEF Undisturbed, Exclusive
<1>3. CASE ChangeToExecuting(e) /\ Holds(e, t) /\ pc[e] = "update" /\ UpdateReady(t)
  <2>1. status[t] \in Ready
    BY <1>2, <1>3 DEF CountHolds
  <2> QED BY <1>3, <2>1, UpdateType
<1>4. CASE Pushes(e, t) /\ (allSucc'[e] => allSucc[e])
  <2>1. status[t] = "execute" \/ (status[t] = "fail" /\ ~allSucc[e])
    BY <1>2, <1>4 DEF PushedStatus
  <2>2. CASE status'[t] = status[t]
    BY <1>4, <2>1, <2>2
  <2>3. CASE status'[t] # status[t]
    <3>1. status[t] \notin Ready \cup {"none"}
      BY <2>1 DEF Ready
    <3>2. ASSUME NEW S \in SUBSET Tasks, CompensateDBExecute(S), t \in S
          PROVE  FALSE
      BY <1>1, <1>4, <3>2, CompensateRead, PushesReads
    <3>3. ASSUME NEW f \in Executors, Finish(f), Pushes(f, t)
          PROVE  FALSE
      <4>1. f = e
        BY <1>2, <1>4, <3>3 DEF OnePusher
      <4>2. pc'[e] \in {"idle", "lock"}
        BY <3>3, <4>1, DropType DEF Finish
      <4> QED BY <1>1, <4>2 DEF Pushes, Pushing
    <3>4. ASSUME NEW f \in Executors, Record(f), Pushes(f, t), result[f] = "fail"
          PROVE  ~allSucc'[e]
      <4>1. f = e
        BY <1>2, <1>4, <3>4 DEF OnePusher
      <4> QED BY <3>4, <4>1 DEF Record, TypeInv, ExecType
    <3> QED BY <1>2, <2>3, <3>1, <3>2, <3>3, <3>4, StatusChange
  <2> QED BY <2>2, <2>3
<1> QED BY <1>1, <1>3, <1>4, PlaceSteps

\* The subtasks that are still to be pushed stay as they were read.
LEMMA PushCurrentStep ==
  ASSUME RepeatInv, Next
  PROVE  PushCurrent'
<1> USE DEF RepeatInv, OverlapInv
<1>1. SUFFICES ASSUME NEW e \in Executors, NEW t \in Tasks, causes'[t] = {}, Pushes(e, t)',
                      NEW k \in next'[e] .. Last
               PROVE  sub'[t][k] = Detail(e)[k]
  BY PlaceSteps DEF PushCurrent, Undisturbed
<1>2. Undisturbed(t) /\ Exclusive(t)
  BY <1>1, TasksKept DEF Undisturbed, Exclusive
<1>3. CASE ChangeToExecuting(e) /\ Holds(e, t) /\ pc[e] = "update" /\ sub' = sub
  <2>1. status[t] \in Ready
    BY <1>2, <1>3 DEF CountHolds
  <2>2. Detail(e) = sub[t]
    BY <1>2, <1>3, <2>1, PushesReads DEF ReadCurrent
  <2> QED BY <1>3, <2>2
<1>4. CASE Pushes(e, t) /\ next'[e] >= next[e]
  <2>1. next[e] \in 1 .. Last + 1 /\ Last \in Nat
    BY SizesAssumption DEF TypeInv, ExecType
  <2>2. next'[e] \in Nat
    BY TypeStep DEF TypeInv, ExecType
  <2>3. k \in next[e] .. Last /\ k \in SubTasks
    BY <1>4, <2>1, <2>2 DEF SubTasks
  <2>4. sub[t][k] = Detail(e)[k]
    BY <1>2, <1>4, <2>3 DEF PushCurrent
  <2>5. CASE sub'[t] = sub[t]
    BY <2>4, <2>5
  <2>6. CASE sub'[t] # sub[t]
    <3>1. PICK f \in Executors : /\ Record(f) /\ Pushes(f, t)
                                 /\ \A l \in SubTasks \ {next[f]} : sub'[t][l] = sub[t][l]
      BY <1>2, <2>6, SubChange
    <3>2. f = e
      BY <1>2, <1>4, <3>1 DEF OnePusher
    <3>3. next'[e] = next[e] + 1
      BY <3>1, <3>2 DEF Record, TypeInv, ExecType
    <3>4. k # next[e]
      BY <2>1, <3>3
    <3> QED BY <2>3, <2>4, <3>1, <3>2, <3>4
  <2> QED BY <2>5, <2>6
<1> QED BY <1>1, <1>3, <1>4, PlaceSteps

\* No step posts a subtask that nothing asked for again.
LEMMA NoRepetitionStep ==
  ASSUME RepeatInv, Next
  PROVE  NoRepetition'
<1> USE DEF RepeatInv, OverlapInv
<1>1. \A t \in Tasks : causes[t] \subseteq causes'[t]
  BY TasksKept
<1>2. repeated \subseteq Tasks
  BY DEF TypeInv, HistoryType
<1>3. CASE UNCHANGED repeated
  BY <1>1, <1>2, <1>3 DEF NoRepetition
<1>4. ASSUME NEW e \in Executors, Post(e)
      PROVE  NoRepetition'
  <2>1. Task(e) \in Tasks /\ next[e] \in SubTasks /\ pc[e] = "push" /\ next[e] \in next[e] .. Last
    BY <1>4, TaskType, SizesAssumption DEF Post, TypeInv, ExecType, SubTasks
  <2>2. Pushes(e, Task(e)) /\ Detail(e)[next[e]] \in Ready
    BY <1>4, <2>1 DEF Post, Pushes, Pushing
  <2>3. causes' = causes
    BY <1>4 DEF Post
  <2>4. causes[Task(e)] = {} => sub[Task(e)][next[e]] # "success"
    BY <2>1, <2>2 DEF PushCurrent, Undisturbed, Ready
  <2>5. repeated' = IF sub[Task(e)][next[e]] = "success" THEN repeated \cup {Task(e)} ELSE repeated
    BY <1>4 DEF Post
  <2> QED BY <2>3, <2>4, <2>5 DEF NoRepetition
<1>5. UNCHANGED repeated \/ \E e \in Executors : Post(e)
  BY DEF Next, Execute, Create, LockExpires, CompensateDBExecute, ChangeStatusCheck, ChangeSubStatus,
         ChangeTaskStatus, GetWaitExecute, Crash, LockTask, Unlock, CountReady, ChangeToExecuting,
         PassOver, Record, Finish, history
<1> QED BY <1>3, <1>4, <1>5

\* Every step keeps the invariant.
LEMMA RepeatStep == RepeatInv /\ [Next]_vars => RepeatInv'
<1> SUFFICES ASSUME RepeatInv, [Next]_vars
             PROVE  RepeatInv'
  OBVIOUS
<1>1. OverlapInv'
  BY OverlapStep DEF RepeatInv
<1>2. CASE UNCHANGED vars
  <2>1. CallCaused' /\ ReadCurrent' /\ CountHolds' /\ PushedStatus' /\ PushCurrent' /\ NoRepetition'
    BY <1>2 DEF RepeatInv, vars, db, exec, history, CallCaused, ReadCurrent, CountHolds, PushedStatus,
                PushCurrent, NoRepetition, Undisturbed, Pushes, Holds, Task, Detail
  <2> QED BY <1>1, <2>1 DEF RepeatInv
<1>3. CASE Next
  <2>1. TypeInv /\ CallCaused
    BY DEF RepeatInv, OverlapInv
  <2> QED BY <1>1, <1>3, <2>1, CallCausedStep, ReadCurrentStep, CountHoldsStep, PushedStatusStep,
             PushCurrentStep, NoRepetitionStep DEF RepeatInv
<1> QED BY <1>2, <1>3

\* At the start nothing was posted.
LEMMA RepeatInit == Init => RepeatInv
<1> SUFFICES ASSUME Init
             PROVE  RepeatInv
  OBVIOUS
<1>1. \A e \in Executors : batch[e] = << >> /\ pc[e] = "idle"
  BY DEF Init
<1>2. \A e \in Executors : \A t \in Tasks : ~Pushes(e, t) /\ ~Holds(e, t)
  BY <1>1 DEF Pushes, Holds, Pushing, Holding
<1>3. CallCaused /\ ReadCurrent /\ CountHolds /\ PushedStatus /\ PushCurrent /\ NoRepetition
  BY <1>1, <1>2 DEF Init, CallCaused, ReadCurrent, CountHolds, PushedStatus, PushCurrent, NoRepetition
<1> QED BY <1>3, OverlapInit DEF RepeatInv

\* A subtask that is recorded as a success is posted again only after an overlap, by an
\* executor that had read the task before it was compensated, or after a call.
THEOREM NoRepetitionWithoutCause == Spec => []NoRepetition
<1>1. RepeatInv => NoRepetition
  BY DEF RepeatInv
<1> QED BY <1>1, RepeatInit, RepeatStep, PTL DEF Spec

\* The status of a task that has ended stays, unless one of the same things happened to it.
THEOREM EndedIsFinal == Spec => EndedStays
<1>1. ASSUME RepeatInv, [Next]_vars
      PROVE  [\A t \in Tasks :
                  status[t] \in Ended /\ causes[t] = {} => status'[t] = status[t]]_vars
  <2>1. SUFFICES ASSUME Next, NEW t \in Tasks, status[t] \in Ended, causes[t] = {},
                        status'[t] # status[t]
                 PROVE  FALSE
    BY <1>1
  <2>2. Undisturbed(t)
    BY <2>1 DEF Undisturbed
  <2>3. status[t] \notin Ready \cup {"none", "execute"}
    BY <2>1 DEF Ready, Ended
  <2>4. ASSUME NEW e \in Executors, Pushes(e, t)
        PROVE  status[t] = "fail" /\ ~allSucc[e]
    BY <1>1, <2>2, <2>3, <2>4 DEF RepeatInv, PushedStatus
  <2> QED BY <1>1, <2>1, <2>2, <2>3, <2>4, StatusChange
<1>2. RepeatInv /\ [Next]_vars =>
        [\A t \in Tasks : status[t] \in Ended /\ causes[t] = {} => status'[t] = status[t]]_vars
  BY <1>1
<1> QED BY <1>2, RepeatInit, RepeatStep, PTL DEF Spec, EndedStays

-----------------------------------------------------------------------------
(* Success.                                                                *)

\* What the callee has performed stays performed.
LEMMA DoneKept ==
  ASSUME TypeInv, Next
  PROVE  \A t \in Tasks : done[t] \subseteq done'[t] /\ (NoCall(t)' => NoCall(t))
<1>1. ASSUME NEW e \in Executors, Post(e)
      PROVE  \A t \in Tasks : done[t] \subseteq done'[t]
  BY <1>1 DEF Post, TypeInv, HistoryType
<1>2. UNCHANGED done \/ \E e \in Executors : Post(e)
  BY DEF Next, Execute, Create, LockExpires, CompensateDBExecute, ChangeStatusCheck, ChangeSubStatus,
         ChangeTaskStatus, GetWaitExecute, Crash, LockTask, Unlock, CountReady, ChangeToExecuting,
         PassOver, Record, Finish, history
<1>3. \A t \in Tasks : done[t] \subseteq done'[t]
  BY <1>1, <1>2
<1> QED BY <1>3, TasksKept DEF NoCall

\* A result that is recorded as a success, by an executor or by a call, is one of a
\* subtask that was performed, or the call is known.
LEMMA RecordedDoneStep ==
  ASSUME SuccessInv, Next
  PROVE  RecordedDone'
<1> USE DEF SuccessInv
<1>1. SUFFICES ASSUME NEW t \in Tasks, NEW k \in SubTasks, NoCall(t)', sub'[t][k] = "success"
               PROVE  k \in done[t]
  BY DoneKept DEF RecordedDone
<1>2. NoCall(t)
  BY <1>1, DoneKept
<1>3. CASE UNCHANGED sub
  BY <1>1, <1>2, <1>3 DEF RecordedDone
<1>4. ASSUME NEW e \in Executors, Record(e)
      PROVE  k \in done[t]
  <2>1. sub' = [sub EXCEPT ![Task(e)][next[e]] = result[e]] \/ sub' = sub
    BY <1>4 DEF Record, SetSub, db
  <2>2. CASE t = Task(e) /\ k = next[e] /\ result[e] = "success"
    BY <1>4, <2>2 DEF ResultDone, Record
  <2>3. CASE sub'[t][k] = sub[t][k]
    BY <1>1, <1>2, <2>3 DEF RecordedDone
  <2>4. sub'[t][k] = sub[t][k] \/ (t = Task(e) /\ k = next[e] /\ sub'[t][k] = result[e])
    BY <2>1 DEF TypeInv, DbType
  <2> QED BY <1>1, <2>2, <2>3, <2>4
<1>5. CASE ChangeSubStatus
  <2>1. caller # Idle
    BY <1>5 DEF ChangeSubStatus, Idle
  <2>2. caller.task \in Tasks /\ caller.task # t
    BY <1>2, <2>1 DEF CallCaused, NoCall, TypeInv, CallType, Calls
  <2>3. sub'[t] = sub[t]
    BY <1>5, <2>2 DEF ChangeSubStatus, SetSub, TypeInv, DbType
  <2> QED BY <1>1, <1>2, <2>3 DEF RecordedDone
<1>6. UNCHANGED sub \/ ChangeSubStatus \/ \E e \in Executors : Record(e)
  BY DEF Next, Execute, Create, LockExpires, CompensateDBExecute, ChangeStatusCheck, ChangeTaskStatus,
         GetWaitExecute, Crash, LockTask, Unlock, CountReady, ChangeToExecuting, PassOver, Post,
         Finish, db
<1> QED BY <1>3, <1>4, <1>5, <1>6

\* What an executor has read as successful was performed.
LEMMA ReadDoneStep ==
  ASSUME SuccessInv, Next
  PROVE  ReadDone'
<1> USE DEF SuccessInv
<1>1. SUFFICES ASSUME NEW e \in Executors, NEW i \in DOMAIN batch'[e], NEW t \in Tasks,
                      t = batch'[e][i].task, NoCall(t)', NEW k \in SubTasks,
                      batch'[e][i].detail[k] = "success"
               PROVE  k \in done[t]
  <2>1. TypeInv'
    BY TypeStep
  <2>2. ASSUME NEW e \in Executors, NEW i \in DOMAIN batch'[e]
        PROVE  batch'[e][i].task \in Tasks
    <3>1. batch'[e] \in Seq(Entries)
      BY <2>1 DEF TypeInv, ExecType
    <3> QED BY <3>1, EntryType
  <2> QED BY <2>2, DoneKept DEF ReadDone, NoCall
<1>2. NoCall(t)
  BY <1>1, DoneKept
<1>3. CASE \E j \in DOMAIN batch[e] : batch'[e][i] = batch[e][j]
  BY <1>1, <1>2, <1>3 DEF ReadDone
<1>4. CASE GetWaitExecute(e)
  <2> DEFINE q == InOrder(Oldest)
  <2>1. batch'[e] = [j \in DOMAIN q |-> [task |-> q[j], detail |-> sub[q[j]]]]
    BY <1>4 DEF GetWaitExecute, TypeInv, ExecType
  <2> HIDE DEF q
  <2> QED BY <1>1, <1>2, <2>1 DEF RecordedDone
<1>5. \/ GetWaitExecute(e)
      \/ \E j \in DOMAIN batch[e] : batch'[e][i] = batch[e][j]
  <2>1. CASE UNCHANGED batch
    BY <2>1
  <2>2. ASSUME NEW f \in Executors, Execute(f) \/ Crash(f)
        PROVE  \E j \in DOMAIN batch[e] : batch'[e][i] = batch[e][j]
    BY <2>2, BatchKept
  <2>3. ASSUME NEW f \in Executors \ {e}, GetWaitExecute(f)
        PROVE  \E j \in DOMAIN batch[e] : batch'[e][i] = batch[e][j]
    BY <2>3, OthersKept
  <2> QED BY <2>1, <2>2, <2>3, ExecKept DEF exec
<1> QED BY <1>3, <1>4, <1>5

\* An executor has a success in its hands only from the answer of the callee.
LEMMA ResultDoneStep ==
  ASSUME SuccessInv, Next
  PROVE  ResultDone'
<1> USE DEF SuccessInv
<1>1. SUFFICES ASSUME NEW e \in Executors, pc'[e] = "record", result'[e] = "success"
               PROVE  (next[e] \in done[Task(e)])'
  BY DEF ResultDone
<1>2. CASE Post(e) /\ pc[e] = "push"
  <2>1. next' = next /\ Task(e)' = Task(e) /\ Task(e) \in Tasks
    BY <1>2, TaskType DEF Post, Task
  <2>2. pc' # pc
    BY <1>1, <1>2
  <2>3. PICK a \in Answers : \E r \in {a.result, "error"} :
          /\ done' = IF a.performed THEN [done EXCEPT ![Task(e)] = @ \cup {next[e]}] ELSE done
          /\ result' = [result EXCEPT ![e] = IF r = "success" THEN r ELSE "fail"]
    BY <1>2, <2>2 DEF Post
  <2>4. a.result = "success"
    BY <1>1, <2>3 DEF TypeInv, ExecType
  <2>5. a.performed
    BY <2>4 DEF Answers
  <2> QED BY <2>1, <2>3, <2>5 DEF TypeInv, HistoryType
<1>3. CASE pc[e] = "record" /\ UNCHANGED << pc[e], batch[e], next[e], result[e] >>
  <2>1. Task(e) \in Tasks /\ Task(e)' = Task(e)
    BY <1>3, TaskType DEF Task
  <2> QED BY <1>1, <1>3, <2>1, DoneKept DEF ResultDone
<1>4. \/ Post(e) /\ pc[e] = "push"
      \/ pc[e] = "record" /\ UNCHANGED << pc[e], batch[e], next[e], result[e] >>
  <2> USE DEF TypeInv, ExecType
  <2>1. CASE Environment
    BY <1>1, <2>1, ExecKept DEF exec
  <2>2. ASSUME NEW f \in Executors \ {e}, GetWaitExecute(f) \/ Execute(f) \/ Crash(f)
        PROVE  pc[e] = "record" /\ UNCHANGED << pc[e], batch[e], next[e], result[e] >>
    BY <1>1, <2>2, OthersKept
  <2>3. GetWaitExecute(e) \/ Execute(e) \/ Crash(e) => Post(e) /\ pc[e] = "push"
    <3>1. Unlock(e) \/ Finish(e) => pc'[e] \in {"idle", "lock"}
      BY DropType DEF Unlock, Finish
    <3>2. LockTask(e) => pc'[e] \in {"idle", "lock", "count"}
      BY DropType DEF LockTask, Goto
    <3>3. GetWaitExecute(e) \/ Crash(e) \/ CountReady(e) \/ ChangeToExecuting(e) \/ PassOver(e)
            \/ Record(e) => pc'[e] # "record"
      BY DEF GetWaitExecute, Crash, CountReady, ChangeToExecuting, PassOver, Record, Goto
    <3> QED BY <1>1, <3>1, <3>2, <3>3 DEF Execute, Post
  <2> QED BY <2>1, <2>2, <2>3, ExecKept
<1> QED BY <1>2, <1>3, <1>4

\* A push starts at the first subtask, and passes one when it was a success as it was read
\* or when it is answered with a success; otherwise it knows of a failure.
LEMMA PassedDoneStep ==
  ASSUME SuccessInv, Next
  PROVE  PassedDone'
<1> USE DEF SuccessInv
<1>1. SUFFICES ASSUME NEW e \in Executors, NEW t \in Tasks, Pushes(e, t)', NoCall(t)', allSucc'[e],
                      NEW k \in SubTasks, k < next'[e]
               PROVE  k \in done[t]
  <2>1. TypeInv'
    BY TypeStep
  <2>2. ASSUME NEW e \in Executors, pc'[e] \in Pushing
        PROVE  Task(e)' \in Tasks
    <3>1. batch'[e] \in Seq(Entries) /\ batch'[e] # << >>
      BY <2>1, <2>2 DEF TypeInv, ExecType, ExecOK, Pushing
    <3>2. 1 \in DOMAIN batch'[e]
      BY <3>1, TailFacts
    <3> QED BY <3>1, <3>2, EntryType DEF Task
  <2> QED BY <2>2, DoneKept DEF PassedDone, Pushes, NoCall
<1>2. NoCall(t) /\ next[e] \in 1 .. Last + 1 /\ k \in Nat \ {0}
  BY <1>1, DoneKept DEF TypeInv, ExecType, SubTasks
<1>3. CASE ChangeToExecuting(e) /\ next'[e] = 1
  BY <1>1, <1>2, <1>3
<1>4. CASE Pushes(e, t) /\ allSucc[e]
  <2>1. k < next[e] => k \in done[t]
    BY <1>2, <1>4 DEF PassedDone, Pushes
  <2>2. CASE next'[e] = next[e]
    BY <1>1, <2>1, <2>2
  <2>3. CASE PassOver(e)
    <3>1. next[e] <= Last /\ Detail(e)[next[e]] = "success" /\ next'[e] = next[e] + 1
      BY <1>1, <2>3 DEF PassOver, TypeInv, ExecType
    <3>2. 1 \in DOMAIN batch[e] /\ batch[e][1].task = t /\ Detail(e) = batch[e][1].detail
      BY <1>4, PushesReads
    <3>3. next[e] \in SubTasks
      BY <1>2, <3>1, SizesAssumption DEF SubTasks
    <3>4. next[e] \in done[t]
      BY <1>2, <3>1, <3>2, <3>3 DEF ReadDone
    <3> QED BY <1>1, <1>2, <2>1, <3>1, <3>4
  <2>4. CASE Record(e)
    <3>1. pc[e] = "record" /\ result[e] = "success" /\ next'[e] = next[e] + 1
      BY <1>1, <2>4 DEF Record, TypeInv, ExecType
    <3>2. next[e] \in done[t]
      BY <1>4, <3>1 DEF ResultDone, Pushes
    <3> QED BY <1>1, <1>2, <2>1, <3>1, <3>2
  <2>5. next'[e] = next[e] \/ PassOver(e) \/ Record(e)
    <3>1. CASE Environment
      BY <3>1, ExecKept DEF exec
    <3>2. ASSUME NEW f \in Executors \ {e}, GetWaitExecute(f) \/ Execute(f) \/ Crash(f)
          PROVE  next'[e] = next[e]
      BY <3>2, OthersKept
    <3>3. Finish(e) \/ Crash(e) => pc'[e] \in {"idle", "lock"}
      BY DropType DEF Finish, Crash, Goto, TypeInv, ExecType
    <3>4. GetWaitExecute(e) \/ Execute(e) \/ Crash(e) => next'[e] = next[e] \/ PassOver(e) \/ Record(e)
      BY <1>1, <3>3 DEF Execute, GetWaitExecute, LockTask, Unlock, CountReady, ChangeToExecuting, Post,
                        Pushes, Pushing
    <3> QED BY <3>1, <3>2, <3>4, ExecKept
  <2> QED BY <2>2, <2>3, <2>4, <2>5
<1> QED BY <1>1, <1>3, <1>4, PlaceSteps

\* A task becomes a success at the end of a push without a failure, or by a call.
LEMMA SuccessPerformedStep ==
  ASSUME SuccessInv, Next
  PROVE  SuccessPerformed'
<1> USE DEF SuccessInv
<1>1. SUFFICES ASSUME NEW t \in Tasks, NoCall(t)', status'[t] = "success"
               PROVE  SubTasks \subseteq done[t]
  <2>1. done' \in [Tasks -> SUBSET SubTasks]
    BY TypeStep DEF TypeInv, HistoryType
  <2> QED BY <2>1, DoneKept DEF SuccessPerformed, NoCall
<1>2. NoCall(t)
  BY <1>1, DoneKept
<1>3. CASE status[t] = "success"
  BY <1>2, <1>3 DEF SuccessPerformed, NoCall
<1>4. ASSUME NEW e \in Executors, Finish(e), status[t] # "success"
      PROVE  SubTasks \subseteq done[t]
  <2>1. pc[e] \in Pushing /\ next[e] > Last /\ allSucc[e] /\ Task(e) = t
    BY <1>1, <1>4 DEF Finish, SetStatus, Pushing, TypeInv, DbType
  <2>2. \A k \in SubTasks : k < next[e]
    BY <2>1, SizesAssumption DEF SubTasks, TypeInv, ExecType
  <2> QED BY <1>2, <2>1, <2>2 DEF PassedDone
<1>5. ASSUME ChangeTaskStatus, status[t] # "success"
      PROVE  FALSE
  <2>1. caller # Idle
    BY <1>5 DEF ChangeTaskStatus, Idle
  <2>2. caller.task \in Tasks /\ caller.task # t
    BY <1>2, <2>1 DEF CallCaused, NoCall, TypeInv, CallType, Calls
  <2> QED BY <1>1, <1>5, <2>2 DEF ChangeTaskStatus, SetStatus, TypeInv, DbType
<1>6. status'[t] = status[t] \/ status'[t] # "success" \/ ChangeTaskStatus \/ \E e \in Executors : Finish(e)
  <2> USE DEF TypeInv, DbType
  <2>1. ASSUME NEW e \in Executors, ChangeToExecuting(e)
        PROVE  status'[t] = status[t] \/ status'[t] # "success"
    <3>1. Task(e) \in Tasks
      BY <2>1, TaskType DEF ChangeToExecuting
    <3> QED BY <2>1, <3>1, UpdateType DEF ChangeToExecuting
  <2>2. ASSUME NEW e \in Executors, Record(e)
        PROVE  status'[t] = status[t] \/ status'[t] # "success"
    BY <2>2 DEF Record, SetStatus, db
  <2>3. CASE ChangeSubStatus
    BY <2>3 DEF ChangeSubStatus, SetStatus
  <2>4. ASSUME NEW u \in Tasks, Create(u)
        PROVE  status'[t] = status[t] \/ status'[t] # "success"
    BY <2>4 DEF Create, SetStatus
  <2>5. ASSUME NEW S \in SUBSET Tasks, CompensateDBExecute(S)
        PROVE  status'[t] = status[t] \/ status'[t] # "success"
    BY <2>5 DEF CompensateDBExecute
  <2> QED BY <2>1, <2>2, <2>3, <2>4, <2>5
          DEF Next, Execute, LockExpires, ChangeStatusCheck, GetWaitExecute, Crash, LockTask, Unlock,
              CountReady, PassOver, Post, db
<1> QED BY <1>1, <1>3, <1>4, <1>5, <1>6

\* Every step keeps the invariant.
LEMMA SuccessStep == SuccessInv /\ [Next]_vars => SuccessInv'
<1> SUFFICES ASSUME SuccessInv, [Next]_vars
             PROVE  SuccessInv'
  OBVIOUS
<1>1. TypeInv'
  BY TypeStep DEF SuccessInv
<1>2. CASE UNCHANGED vars
  <2>1. CallCaused' /\ RecordedDone' /\ ReadDone' /\ ResultDone' /\ PassedDone' /\ SuccessPerformed'
    BY <1>2 DEF SuccessInv, vars, db, exec, history, CallCaused, RecordedDone, ReadDone, ResultDone,
                PassedDone, SuccessPerformed, NoCall, Task
  <2> QED BY <1>1, <2>1 DEF SuccessInv
<1>3. CASE Next
  <2>1. TypeInv /\ CallCaused
    BY DEF SuccessInv
  <2> QED BY <1>1, <1>3, <2>1, CallCausedStep, RecordedDoneStep, ReadDoneStep, ResultDoneStep,
             PassedDoneStep, SuccessPerformedStep DEF SuccessInv
<1> QED BY <1>2, <1>3

\* At the start nothing is successful.
LEMMA SuccessInit == Init => SuccessInv
<1> SUFFICES ASSUME Init
             PROVE  SuccessInv
  OBVIOUS
<1>1. CallCaused /\ RecordedDone /\ ReadDone /\ ResultDone /\ PassedDone /\ SuccessPerformed
  BY DEF Init, CallCaused, RecordedDone, ReadDone, ResultDone, PassedDone, SuccessPerformed, Pushing
<1> QED BY <1>1, TypeInit DEF SuccessInv

\* A task is a success only when each of its subtasks was performed, or after a call.
THEOREM SuccessIsPerformed == Spec => []SuccessPerformed
<1>1. SuccessInv => SuccessPerformed
  BY DEF SuccessInv
<1> QED BY <1>1, SuccessInit, SuccessStep, PTL DEF Spec
=============================================================================
