------------------------------- MODULE TaskQueue -------------------------------
(***************************************************************************)
(* The task server.  A task is a document with a status and a list of      *)
(* subtasks; every instance runs, for the tasks of one name, an executor   *)
(* that                                                                    *)
(*   - reads the oldest ready tasks, with their subtasks,                  *)
(*   - takes a lock in redis, which expires after two minutes,             *)
(*   - counts the task as ready and makes it executing,                    *)
(*   - posts its subtasks one after the other and records each result.     *)
(* Every instance also makes the tasks ready again that have been          *)
(* executing without a change for twenty minutes, and the callee may set   *)
(* the status of a subtask.  A step of an executor is one access to the    *)
(* database, to redis or to the callee.                                    *)
(***************************************************************************)
EXTENDS Integers, Sequences, FiniteSets

CONSTANTS
    Executors,      \* one per instance
    MaxTasks,       \* bound on the tasks of the name
    Last,           \* subtasks of each task
    Limit,          \* tasks an executor reads at once
    Retry,          \* TaskInfo.Retry
    Faults,         \* kinds of mishap that may occur
    MaxFaults       \* bound on the number of mishaps

ASSUME SizesAssumption == {Last, Limit, Retry} \subseteq Nat \ {0}
ASSUME BoundsAssumption == {MaxTasks, MaxFaults} \subseteq Nat
ASSUME FaultsAssumption ==
    Faults \subseteq {"lock", "unlock", "ready", "post", "answer", "record",
                      "crash", "overrun", "call"}

Free == "free"
ASSUME ExecutorsAssumption == Free \notin Executors
Tasks == 1 .. MaxTasks      \* in the order of their creation
SubTasks == 1 .. Last
Ready == {"new", "wait"}
Ended == {"success", "fail"}

VARIABLES
    status,     \* status of each task, "none" before it is created
    sub,        \* status of its subtasks
    lock,       \* the task's key in redis: who set it, or Free
    pc,         \* where each executor is
    batch,      \* [task, detail] it has read and not yet done, as they were then
    next,       \* the subtask it is at
    tries,      \* posts of this subtask so far
    allSucc,    \* allSucc
    result,     \* the last response
    caller,     \* the call that sets a subtask's status
    faults,     \* number of mishaps so far
    done,       \* history: subtasks the callee performed
    repeated,   \* history: tasks of which a subtask was posted after its success
    causes      \* history: what happened to each task that allows a repetition

db == << status, sub >>
exec == << pc, batch, next, tries, allSucc, result >>
history == << done, repeated, causes >>
vars == << db, lock, exec, caller, faults, history >>

Task(e) == batch[e][1].task
Detail(e) == batch[e][1].detail
Holding == {"count", "update"}
Pushing == {"push", "record"}
HasRead(e, t) == \E i \in DOMAIN batch[e] : batch[e][i].task = t
Executes(e, t) == pc[e] \in Holding \cup Pushing /\ Task(e) = t
Idle == [pc |-> "idle"]

Fail(kind) == kind \in Faults /\ faults < MaxFaults /\ faults' = faults + 1
NoFail == UNCHANGED faults
Goto(e, l) == pc' = [pc EXCEPT ![e] = l]
\* Mutant of Drop: the last task of a batch is not left.
DropNone(e) ==
    /\ batch' = [batch EXCEPT ![e] = Tail(@)]
    /\ Goto(e, "lock")
\* The task is done with, or is left for the next read.
Drop(e) ==
    /\ batch' = [batch EXCEPT ![e] = Tail(@)]
    /\ Goto(e, IF Len(batch[e]) = 1 THEN "idle" ELSE "lock")
SetStatus(t, s) == status' = [status EXCEPT ![t] = s]
SetSub(t, k, s) == sub' = [sub EXCEPT ![t][k] = s]
\* The variables of executePush end with it.
EndPush(e) ==
    /\ next' = [next EXCEPT ![e] = 1]
    /\ tries' = [tries EXCEPT ![e] = 0]
    /\ allSucc' = [allSucc EXCEPT ![e] = TRUE]
    /\ result' = [result EXCEPT ![e] = "success"]
Cause(t, c) == causes' = [causes EXCEPT ![t] = @ \cup {c}]
\* The key goes; its owner may still rely on it.
RemoveLock(t) ==
    /\ lock' = [lock EXCEPT ![t] = Free]
    /\ IF \E e \in Executors : lock[t] = e /\ pc[e] \in Holding /\ Task(e) = t
       THEN Cause(t, "late") ELSE UNCHANGED causes

Init ==
    /\ status = [t \in Tasks |-> "none"]
    /\ sub = [t \in Tasks |-> [k \in SubTasks |-> "new"]]
    /\ lock = [t \in Tasks |-> Free]
    /\ pc = [e \in Executors |-> "idle"]
    /\ batch = [e \in Executors |-> << >>]
    /\ next = [e \in Executors |-> 1]
    /\ tries = [e \in Executors |-> 0]
    /\ allSucc = [e \in Executors |-> TRUE]
    /\ result = [e \in Executors |-> "success"]
    /\ caller = Idle
    /\ faults = 0
    /\ done = [t \in Tasks |-> {}]
    /\ repeated = {}
    /\ causes = [t \in Tasks |-> {}]

Create(t) ==
    /\ status[t] = "none"
    /\ \A u \in Tasks : u < t => status[u] # "none"
    /\ SetStatus(t, "new")
    /\ UNCHANGED << sub, lock, exec, caller, faults, history >>

-----------------------------------------------------------------------------
\* The executor.

\* What getWaitExectue finds: the oldest ready tasks, up to the limit.
ReadyTasks == {t \in Tasks : status[t] \in Ready}
Oldest == {t \in ReadyTasks : Cardinality({u \in ReadyTasks : u < t}) < Limit}
InOrder(S) ==
    [i \in 1 .. Cardinality(S) |-> CHOOSE t \in S : Cardinality({u \in S : u < t}) = i - 1]

GetWaitExecute(e) ==
    /\ pc[e] = "idle"
    /\ LET q == InOrder(Oldest)
       IN batch' = [batch EXCEPT ![e] =
              [i \in DOMAIN q |-> [task |-> q[i], detail |-> sub[q[i]]]]]
    /\ Goto(e, IF ReadyTasks = {} THEN "idle" ELSE "lock")
    /\ UNCHANGED << db, lock, next, tries, allSucc, result, caller, faults, history >>

LockTask(e) ==
    /\ pc[e] = "lock"
    /\ \/ /\ lock[Task(e)] = Free
          /\ lock' = [lock EXCEPT ![Task(e)] = e]
          /\ Goto(e, "count")
          /\ NoFail /\ UNCHANGED batch
       \/ /\ IF lock[Task(e)] = Free THEN Fail("lock") ELSE NoFail
          /\ Drop(e) /\ UNCHANGED lock
    /\ UNCHANGED << db, next, tries, allSucc, result, caller, history >>

\* unLockTask deletes the key whoever set it; an error leaves it to its expiry.
Unlock(e) ==
    /\ pc[e] = "unlock"
    /\ \/ RemoveLock(Task(e)) /\ NoFail
       \/ Fail("unlock") /\ UNCHANGED << lock, causes >>
    /\ Drop(e)
    /\ UNCHANGED << db, next, tries, allSucc, result, caller, done, repeated >>

\* Mutant of CountReady: the count has no condition on the status.
CountAny(e) ==
    /\ pc[e] = "count"
    /\ Goto(e, "update")
    /\ UNCHANGED << db, lock, batch, next, tries, allSucc, result, caller, faults, history >>
\* changeTaskToExecuting: the count, with its error and its early return ...
CountReady(e) ==
    /\ pc[e] = "count"
    /\ \/ Fail("ready") /\ Goto(e, "unlock")
       \/ NoFail /\ Goto(e, IF status[Task(e)] \in Ready THEN "update" ELSE "unlock")
    /\ UNCHANGED << db, lock, batch, next, tries, allSucc, result, caller, history >>

\* ... and the update, whose condition repeats the status and whose effect nobody reads.
UpdateReady(t) ==
    IF status[t] \in Ready THEN SetStatus(t, "execute") ELSE UNCHANGED status
ChangeToExecuting(e) ==
    /\ pc[e] = "update"
    /\ \/ NoFail /\ UpdateReady(Task(e)) /\ Goto(e, "push")
       \/ /\ Fail("ready")
          /\ UpdateReady(Task(e)) \/ UNCHANGED status
          /\ Goto(e, "unlock")
    /\ UNCHANGED << sub, lock, batch, next, tries, allSucc, result, caller, history >>

\* executePush, one subtask: as it was when the task was read.
PassOver(e) ==
    /\ pc[e] = "push" /\ next[e] <= Last
    /\ Detail(e)[next[e]] \notin Ready
    /\ IF Detail(e)[next[e]] = "success"
       THEN next' = [next EXCEPT ![e] = @ + 1] /\ UNCHANGED allSucc
       ELSE next' = [next EXCEPT ![e] = Last + 1] /\ allSucc' = [allSucc EXCEPT ![e] = FALSE]
    /\ UNCHANGED << db, lock, pc, batch, tries, result, caller, faults, history >>

\* The callee performs it or refuses it; the request or its answer may get lost.
Answers == {[performed |-> TRUE, result |-> "success"], [performed |-> FALSE, result |-> "fail"]}
Post(e) ==
    LET t == Task(e)  k == next[e] IN
    /\ pc[e] = "push" /\ k <= Last
    /\ Detail(e)[k] \in Ready
    /\ \E a \in Answers : \E r \in {a.result, "error"} :
          /\ IF r = "error" THEN Fail(IF a.performed THEN "answer" ELSE "post") ELSE NoFail
          /\ done' = IF a.performed THEN [done EXCEPT ![t] = @ \cup {k}] ELSE done
          /\ IF r = "error" /\ tries[e] + 1 < Retry
             THEN tries' = [tries EXCEPT ![e] = @ + 1] /\ UNCHANGED << pc, result >>
             ELSE /\ tries' = [tries EXCEPT ![e] = 0]
                  /\ result' = [result EXCEPT ![e] = IF r = "success" THEN r ELSE "fail"]
                  /\ Goto(e, "record")
    /\ repeated' = IF sub[t][k] = "success" THEN repeated \cup {t} ELSE repeated
    /\ UNCHANGED << db, lock, batch, next, allSucc, caller, causes >>

\* Mutant of Record: a failure does not reset allSucc.
RecordOnly(e) ==
    LET t == Task(e) IN
    /\ pc[e] = "record"
    /\ SetSub(t, next[e], result[e])
    /\ IF result[e] = "fail" THEN SetStatus(t, "fail") ELSE UNCHANGED status
    /\ next' = [next EXCEPT ![e] = @ + 1]
    /\ result' = [result EXCEPT ![e] = "success"]
    /\ Goto(e, "push")
    /\ UNCHANGED << lock, batch, tries, allSucc, caller, faults, history >>
\* The result is recorded, unless the database fails dbMaxRetry times.
Record(e) ==
    LET t == Task(e)  k == next[e] IN
    /\ pc[e] = "record"
    /\ \/ /\ NoFail
          /\ SetSub(t, k, result[e])
          /\ IF result[e] = "fail" THEN SetStatus(t, "fail") ELSE UNCHANGED status
       \/ Fail("record") /\ UNCHANGED db
    /\ allSucc' = [allSucc EXCEPT ![e] = @ /\ result[e] = "success"]
    /\ next' = [next EXCEPT ![e] = @ + 1]
    /\ result' = [result EXCEPT ![e] = "success"]
    /\ Goto(e, "push")
    /\ UNCHANGED << lock, batch, tries, caller, history >>

\* The task's own status; the lock is left to its expiry.
Finish(e) ==
    LET t == Task(e) IN
    /\ pc[e] = "push" /\ next[e] > Last
    /\ \/ NoFail /\ SetStatus(t, IF allSucc[e] THEN "success" ELSE "fail")
       \/ Fail("record") /\ UNCHANGED status
    /\ Drop(e) /\ EndPush(e)
    /\ UNCHANGED << sub, lock, caller, history >>

-----------------------------------------------------------------------------
\* Time: two minutes after the lock, twenty minutes after the last change.
\* Mutant of LockExpires: the lock is set without an expiry.
LockStays(t) == FALSE /\ UNCHANGED vars
LockExpires(t) ==
    /\ lock[t] # Free
    /\ RemoveLock(t)
    /\ UNCHANGED << db, exec, caller, faults, done, repeated >>

\* Which executors a compensation of the task surprises.
Surprised(t) ==
    IF \E e \in Executors : Executes(e, t) THEN {"overrun"}
    ELSE IF \E e \in Executors : HasRead(e, t) THEN {"stale"} ELSE {}

\* last_time is twenty minutes old for some of the tasks that are executing.
CompensateDBExecute(S) ==
    /\ S # {} /\ \A t \in S : status[t] = "execute"
    /\ status' = [t \in Tasks |-> IF t \in S THEN "wait" ELSE status[t]]
    /\ causes' = [t \in Tasks |-> IF t \in S THEN causes[t] \cup Surprised(t) ELSE causes[t]]
    /\ IF \E t \in S : Surprised(t) # {} THEN Fail("overrun") ELSE NoFail
    /\ UNCHANGED << sub, lock, exec, caller, done, repeated >>

\* The process stops and is started again.
Crash(e) ==
    /\ pc[e] # "idle"
    /\ Fail("crash")
    /\ Goto(e, "idle")
    /\ batch' = [batch EXCEPT ![e] = << >>] /\ EndPush(e)
    /\ UNCHANGED << db, lock, caller, history >>

-----------------------------------------------------------------------------
\* changeStatus, on behalf of the callee: the check, the update of the subtask and,
\* after a success, the update of the task, which allSuccess never prevents.
ChangeStatusCheck(t, k, s) ==
    /\ caller = Idle
    /\ status[t] # "none"
    /\ sub[t][k] \in {"new", "execute"} \ {s}
    /\ Fail("call")
    /\ caller' = [pc |-> "sub", task |-> t, sub |-> k, status |-> s]
    /\ Cause(t, "call")
    /\ UNCHANGED << db, lock, exec, done, repeated >>

ChangeSubStatus ==
    LET t == caller.task IN
    /\ caller.pc = "sub"
    /\ SetSub(t, caller.sub, caller.status)
    /\ IF caller.status = "fail"
       THEN SetStatus(t, "fail") /\ caller' = Idle
       ELSE UNCHANGED status /\ caller' = [caller EXCEPT !.pc = "task"]
    /\ UNCHANGED << lock, exec, faults, history >>

ChangeTaskStatus ==
    /\ caller.pc = "task"
    /\ SetStatus(caller.task, "success")
    /\ caller' = Idle
    /\ UNCHANGED << sub, lock, exec, faults, history >>

-----------------------------------------------------------------------------
Execute(e) ==
    \/ LockTask(e) \/ Unlock(e) \/ CountReady(e) \/ ChangeToExecuting(e)
    \/ PassOver(e) \/ Post(e) \/ Record(e) \/ Finish(e)

Next ==
    \/ \E t \in Tasks :
        \/ Create(t) \/ LockExpires(t)
        \/ \E k \in SubTasks, s \in Ended : ChangeStatusCheck(t, k, s)
    \/ \E e \in Executors : GetWaitExecute(e) \/ Execute(e) \/ Crash(e)
    \/ \E S \in SUBSET Tasks : CompensateDBExecute(S)
    \/ ChangeSubStatus \/ ChangeTaskStatus

Spec == Init /\ [][Next]_vars

\* Executors and the compensation run for ever, time passes, and a call that started ends.
FairSpec ==
    /\ Spec
    /\ \A e \in Executors : WF_vars(GetWaitExecute(e)) /\ WF_vars(Execute(e))
    /\ \A t \in Tasks : WF_vars(LockExpires(t)) /\ WF_vars(CompensateDBExecute({t}))
    /\ WF_vars(ChangeSubStatus) /\ WF_vars(ChangeTaskStatus)

-----------------------------------------------------------------------------
(* Properties.                                                             *)

\* The variables hold what the code puts into them; an executor at work has a task.
TypeOK ==
    /\ status \in [Tasks -> {"none", "execute"} \cup Ready \cup Ended]
    /\ sub \in [Tasks -> [SubTasks -> {"new"} \cup Ended]]
    /\ lock \in [Tasks -> Executors \cup {Free}]
    /\ \A e \in Executors :
        /\ pc[e] \in {"idle", "lock", "unlock"} \cup Holding \cup Pushing
        /\ (pc[e] = "idle") <=> (batch[e] = << >>)
        /\ next[e] \in 1 .. Last + 1 /\ tries[e] \in 0 .. Retry - 1

Pushers(t) == {e \in Executors : pc[e] \in Pushing /\ Task(e) = t}

\* Two executors push the subtasks of one task at the same time only when a lock
\* expired, or was deleted by another executor, between the count and the update
\* of its owner, or when the task was compensated while it was being executed:
\* otherwise the lock, the count and the status keep the others out, long after
\* the lock has expired and when executors crash.
OneExecutor ==
    \A t \in Tasks : Cardinality(Pushers(t)) > 1 => causes[t] \cap {"late", "overrun"} # {}

\* A subtask recorded as a success is posted again only after such an overlap, by an
\* executor that still had the task as it was before a compensation, or when the callee
\* itself set the status.
NoRepetition == \A t \in repeated : causes[t] # {}

\* A task is a success only when the callee performed each of its subtasks, whatever
\* results could not be recorded and however often it was made ready again, unless
\* a status was set by a call.
SuccessPerformed ==
    \A t \in Tasks : status[t] = "success" => done[t] = SubTasks \/ "call" \in causes[t]

\* A task that has ended keeps its status, unless two executors overlapped, one of
\* them had read it before a compensation, or a call sets a subtask's status.
EndedStays ==
    [][\A t \in Tasks :
        status[t] \in Ended /\ causes[t] = {} => status'[t] = status[t]]_vars

\* Every task that is created ends for good, after crashes, failures and compensations.
Ends == \A t \in Tasks : (status[t] = "new") ~> [](status[t] \in Ended)
=============================================================================
