----------------------------- MODULE HostTransfer -----------------------------
(***************************************************************************)
(* Which modules a host is in.  A relation is a document of a host and a   *)
(* module that names the business; a host is in one business, in one of    *)
(* its inner modules (idle, or a directory of the resource pool) or in     *)
(* some of its other modules.  Every transfer reads the relations, checks  *)
(* them and writes what it computed, in a transaction of its own; an       *)
(* import and the change of a directory are not in a transaction.          *)
(***************************************************************************)
EXTENDS Naturals, Sequences, FiniteSets

CONSTANTS
    Hosts, Modules, Businesses,
    Pool,           \* the business of the resource pool
    BizOf,          \* business of each module
    Inner,          \* modules with a default flag
    IdleOf,         \* the idle module of each business
    Places,         \* sets of modules a host may be in at first; {} if it is new
    Requests,       \* what may be asked
    MaxRequests,    \* bound on the requests
    Faults,         \* kinds of mishap that may occur
    MaxFaults,      \* bound on the number of mishaps
    Exposed         \* bound on the requests of a run with mishaps

ASSUME ModulesAssumption ==
    /\ Pool \in Businesses /\ IsFiniteSet(Modules)
    /\ BizOf \in [Modules -> Businesses]
    /\ Inner \subseteq Modules
    /\ IdleOf \in [Businesses -> Inner]
    /\ \A b \in Businesses : BizOf[IdleOf[b]] = b
ASSUME NamesAssumption ==
    /\ Hosts \cap Modules = {} /\ (Hosts \cup Modules) \cap (Hosts \X Modules) = {}
    /\ Businesses \cap {"absent", "present", "gone"} = {}

ModulesOf(b) == {m \in Modules : BizOf[m] = b}
\* Where transfers one after the other can take a host.
Legal(S) == S # {} /\ \E b \in Businesses :
    S \subseteq ModulesOf(b) /\ (S \cap Inner # {} => Cardinality(S) = 1)
ASSUME PlacesAssumption == \A S \in Places : S = {} \/ Legal(S)
\* The core service removes one host from a module, and an import has one host, as has here
\* the change of a directory; a host is moved to one module of another business, and
\* imported or moved to one directory.
ASSUME RequestsAssumption == \A r \in Requests :
    /\ r.kind \in {"normal", "append", "inner", "remove", "auto", "across", "delete", "create",
                   "deletemodule", "import", "directory"}
    /\ r.hosts \subseteq Hosts /\ r.modules \subseteq Modules /\ r.biz \in Businesses
    /\ r.kind \in {"remove", "import", "directory"} => \E h \in Hosts : r.hosts = {h}
    /\ r.kind \in {"remove", "across", "import", "directory", "deletemodule"} =>
          \E m \in Modules : r.modules = {m}
    /\ r.kind = "across" => r.src \in Businesses
    /\ r.kind = "deletemodule" => r.hosts = {}
ASSUME BoundsAssumption == {MaxRequests, MaxFaults, Exposed} \subseteq Nat
ASSUME FaultsAssumption ==
    Faults \subseteq {"call", "commit", "abort", "counter", "lifetime", "crash"}

Txns == 1 .. MaxRequests
Relations == Hosts \X Modules
Docs == Hosts \cup Modules \cup Relations
Absent == "absent"
Present == "present"
Gone == "gone"      \* deleted; ids are not used again

VARIABLES
    db, counted, session, buf, stale,   \* see Transactions
    pc,         \* where the service that runs each request is
    req,        \* the request
    plan,       \* modules it transfers the hosts to, when it computed them
    todo,       \* writes of the commands still to be called
    late,       \* calls given up that have not reached the core service
    answer,     \* what the caller was told
    faults,     \* number of mishaps so far
    skewed,     \* history: hosts whose relations a commit did not know
    blind,      \* history: hosts appended to modules, or imported
    strayed,    \* history: hosts given a directory while in no inner module of its business
    emptied,    \* history: modules deleted, or joined, by such a commit
    outdated    \* history: requests with a plan for other relations

INSTANCE Transactions WITH Keys <- Docs, Values <- Businesses \cup {Absent, Present, Gone}

store == << db, counted, session, buf, stale >>
client == << pc, req, plan, todo, late, answer >>
history == << skewed, blind, strayed, emptied, outdated >>
vars == << store, client, faults, history >>

Exists(d) == db[d] \notin {Absent, Gone}
In(h) == {m \in Modules : db[<<h, m>>] # Absent}
InBiz(h, b) == {m \in Modules : db[<<h, m>>] = b}
Fail(kind) ==
    /\ kind \in Faults /\ faults < MaxFaults
    /\ \A t \in Txns : t > Exposed => pc[t] = "idle"
    /\ faults' = faults + 1
NoFail == UNCHANGED faults
Goto(t, l) == pc' = [pc EXCEPT ![t] = l]
Answer(t, a) == answer' = [answer EXCEPT ![t] = a]

Init ==
    /\ \E f \in [Hosts -> Places] :
           db = [d \in Docs |->
                 CASE d \in Modules -> Present
                   [] d \in Hosts -> IF f[d] = {} THEN Absent ELSE Present
                   [] OTHER -> IF d[2] \in f[d[1]] THEN BizOf[d[2]] ELSE Absent]
    /\ TxnInit
    /\ pc = [t \in Txns |-> "idle"]
    /\ req = [t \in Txns |-> [kind |-> "none", hosts |-> {}]]
    /\ plan = [t \in Txns |-> {}]
    /\ todo = [t \in Txns |-> << >>]
    /\ late = [t \in Txns |-> << >>]
    /\ answer = [t \in Txns |-> "none"]
    /\ faults = 0
    /\ skewed = {} /\ blind = {} /\ strayed = {} /\ emptied = {} /\ outdated = {}

-----------------------------------------------------------------------------
\* The core service: what a transfer checks and writes.

ValidHosts(hs, b) == \A h \in hs : Exists(h) /\ In(h) \subseteq InBiz(h, b)
ValidModules(ms, b, append) ==
    /\ ms # {} /\ \A m \in ms : Exists(m) /\ BizOf[m] = b
    /\ Cardinality(ms) # 1 \/ append => ms \cap Inner = {}

\* Mutant of Removed: an append leaves the host in its inner module.
RemovedAll(hs, b, append) ==
    IF append THEN {} ELSE {r \in hs \X Modules : db[r] = b}
\* delHostModuleRelation, of the relations with the source business.
Removed(hs, b, append) ==
    {r \in hs \X Modules : db[r] = b /\ (append => r[2] \in Inner /\ BizOf[r[2]] = b)}
\* addHostModuleRelation; an append filters what exists.
Added(hs, ms, b, append) == {r \in hs \X ms : append => db[r] # b}

Put(ds, v) == [d \in ds |-> v]
Audit == Nothing
Commands(del, add, b) ==
    << Put(del, Absent) >> \o (IF add = {} THEN << >> ELSE << Put(add, b) >>) \o << Audit >>
Transfer(hs, src, dst, ms, append) ==
    Commands(Removed(hs, src, append), Added(hs, ms, dst, append), dst)

ToNormal(hs, b, ms, append) ==
    [ok |-> ms \cap Inner = {} /\ ValidModules(ms, b, append) /\ ValidHosts(hs, b),
     todo |-> Transfer(hs, b, b, ms, append)]
ToInner(hs, b, m) ==
    [ok |-> m \in Inner /\ ValidModules({m}, b, FALSE) /\ ValidHosts(hs, b),
     todo |-> Transfer(hs, b, b, {m}, FALSE)]
To(hs, b, ms) ==
    IF ms \cap Inner # {} THEN ToInner(hs, b, CHOOSE m \in ms : TRUE)
    ELSE ToNormal(hs, b, ms, FALSE)

\* RemoveFromModule: the last module is replaced by the idle module.
RemoveFrom(h, b, m) ==
    LET rest == InBiz(h, b) \ {m}
        r == To({h}, b, IF rest = {} THEN {IdleOf[b]} ELSE rest)
    IN [r EXCEPT !.ok = @ /\ InBiz(h, b) # {} /\ InBiz(h, b) \cap Inner = {}]

\* To another business, from its inner modules or, to the pool, its idle module.
Across(hs, src, dst, m) ==
    [ok |-> /\ m \in Inner /\ src # dst
            /\ \A h \in hs : InBiz(h, src) \cap
                   (IF dst = Pool THEN {IdleOf[src]} ELSE Inner \cap ModulesOf(src)) # {}
            /\ ValidModules({m}, dst, FALSE) /\ ValidHosts(hs, src),
     todo |-> Transfer(hs, src, dst, {m}, FALSE)]

\* Mutant of Delete: the host goes and its relations stay.
DeleteHost(hs, b) ==
    [ok |-> \A h \in hs : In(h) \subseteq InBiz(h, b), todo |-> << Put(hs, Gone), Audit >>]
\* The requests that the host server routes name the pool; any business may be named.
Delete(hs, b) ==
    [ok |-> \A h \in hs : In(h) \subseteq InBiz(h, b),
     todo |-> << Put(Removed(hs, b, FALSE), Absent), Put(hs, Gone), Audit >>]

\* A new host, then its transfer to the idle module.
Create(hs, b) ==
    [ok |-> \A h \in hs : db[h] = Absent,
     todo |-> << Put(hs, Present) >> \o Transfer(hs, b, b, {IdleOf[b]}, FALSE)]

\* Mutant of DeleteModule: its hosts are not looked for.
DeleteModuleAny(m) == [ok |-> Exists(m), todo |-> << Put({m}, Gone), Audit >>]
DeleteModule(m) ==
    [ok |-> Exists(m) /\ m \notin Inner /\ \A h \in Hosts : db[<<h, m>>] # BizOf[m],
     todo |-> << Put({m}, Gone), Audit >>]

Checked(r, ms) ==
    CASE r.kind = "normal" -> ToNormal(r.hosts, r.biz, r.modules, FALSE)
      [] r.kind = "append" -> ToNormal(r.hosts, r.biz, r.modules, TRUE)
      [] r.kind = "inner" -> ToInner(r.hosts, r.biz, IdleOf[r.biz])
      [] r.kind = "remove" -> RemoveFrom(CHOOSE h \in r.hosts : TRUE, r.biz,
                                         CHOOSE m \in r.modules : TRUE)
      [] r.kind = "auto" -> To(r.hosts, r.biz, ms)
      [] r.kind = "across" -> Across(r.hosts, r.src, r.biz, CHOOSE m \in r.modules : TRUE)
      [] r.kind = "delete" -> Delete(r.hosts, r.biz)
      [] r.kind = "create" -> Create(r.hosts, r.biz)
      [] r.kind = "deletemodule" -> DeleteModule(CHOOSE m \in r.modules : TRUE)

-----------------------------------------------------------------------------
\* A request in a transaction.

Fresh(t) ==
    /\ pc[t] = "idle" /\ \A u \in Txns : u < t => pc[u] # "idle"
    /\ t > Exposed => faults = 0
First(t, c) ==
    /\ Execute(t, Nothing)
    /\ todo' = [todo EXCEPT ![t] = IF c.ok THEN c.todo ELSE << >>]
    /\ Goto(t, IF c.ok THEN "write" ELSE "abort")
    /\ NoFail

Start(t) == Fresh(t) /\ \E r \in Requests :
    /\ r.kind \notin {"auto", "import", "directory"}
    /\ req' = [req EXCEPT ![t] = r]
    /\ First(t, Checked(r, {}))
    /\ UNCHANGED << plan, late, answer, history >>

\* generateTransferPlan, for one of the hosts.
Final(r, h) ==
    LET S == (InBiz(h, r.biz) \ r.remove) \cup r.modules
    IN IF S = {} THEN {IdleOf[r.biz]} ELSE S
\* The plans are computed before the transaction, and any one serves all hosts.
MakePlan(t) == Fresh(t) /\ \E r \in Requests :
    /\ r.kind = "auto"
    /\ req' = [req EXCEPT ![t] = r]
    /\ LET known == {h \in r.hosts : InBiz(h, r.biz) # {}}
           good == /\ \A m \in r.modules : Exists(m) /\ BizOf[m] = r.biz
                   /\ \A h \in known : Final(r, h) \cap Inner # {}
                                          => Cardinality(Final(r, h)) = 1
       IN \/ ~good /\ Goto(t, "done") /\ Answer(t, "error") /\ UNCHANGED plan
          \/ /\ good /\ Goto(t, "check") /\ UNCHANGED answer
             /\ IF known = {} THEN UNCHANGED plan
                ELSE \E h \in known : plan' = [plan EXCEPT ![t] = Final(r, h)]
    /\ NoFail
    /\ UNCHANGED << store, todo, late, history >>
RunPlan(t) ==
    /\ pc[t] = "check"
    /\ First(t, Checked(req[t], plan[t]))
    /\ outdated' = IF \A h \in req[t].hosts : Final(req[t], h) = plan[t]
                   THEN outdated ELSE outdated \cup {t}
    /\ UNCHANGED << req, plan, late, answer, skewed, blind, strayed, emptied >>

Call(t) ==
    /\ pc[t] = "write"
    /\ LET w == Head(todo[t])
       IN /\ Execute(t, w)
          /\ IF Succeeds(t, w)
             THEN /\ todo' = [todo EXCEPT ![t] = Tail(@)]
                  /\ Goto(t, IF Len(todo[t]) = 1 THEN "commit" ELSE "write")
             ELSE todo' = [todo EXCEPT ![t] = << >>] /\ Goto(t, "abort")
    /\ NoFail
    /\ UNCHANGED << req, plan, late, answer, history >>
\* The call fails: its command is executed, or may be later, or never.
CallFails(t) ==
    /\ pc[t] = "write" /\ Fail("call")
    /\ \/ Execute(t, Head(todo[t])) /\ UNCHANGED late
       \/ late' = [late EXCEPT ![t] = << Head(todo[t]) >>] /\ UNCHANGED store
    /\ todo' = [todo EXCEPT ![t] = << >>]
    /\ Goto(t, "abort")
    /\ UNCHANGED << req, plan, answer, history >>
Deliver(t) ==
    /\ late[t] # << >>
    /\ Execute(t, Head(late[t]))
    /\ late' = [late EXCEPT ![t] = << >>]
    /\ NoFail
    /\ UNCHANGED << pc, req, plan, todo, answer, history >>

\* What a commit leaves to be told of it: see the variables of the history.
Unknown(t) == {h \in req[t].hosts : \E m \in Modules : <<h, m>> \in stale[t]}
Vanished(t) ==
    IF req[t].kind = "deletemodule"
    THEN {m \in req[t].modules : \E h \in Hosts : <<h, m>> \in stale[t]}
    ELSE {m \in stale[t] \cap Modules :
             \E h \in Hosts : <<h, m>> \in DOMAIN buf[t] /\ buf[t][<<h, m>>] # Absent}
CommitKnown(t) ==
    /\ Commit(t)
    /\ skewed' = IF Active(t) THEN skewed \cup Unknown(t) ELSE skewed
    /\ blind' = IF Active(t) /\ req[t].kind = "append" THEN blind \cup req[t].hosts ELSE blind
    /\ emptied' = IF Active(t) THEN emptied \cup Vanished(t) ELSE emptied
    /\ UNCHANGED << strayed, outdated >>
CallCommit(t) ==
    /\ pc[t] = "commit"
    /\ CommitKnown(t)
    /\ Answer(t, IF Active(t) THEN "ok" ELSE "error")
    /\ Goto(t, "done") /\ NoFail
    /\ UNCHANGED << req, plan, todo, late >>
\* Nothing is done about a commit of which no answer came.
CommitFails(t) ==
    /\ pc[t] = "commit" /\ Fail("commit")
    /\ CommitKnown(t) \/ UNCHANGED << store, history >>
    /\ Answer(t, "error") /\ Goto(t, "done")
    /\ UNCHANGED << req, plan, todo, late >>
CallAbort(t) ==
    /\ pc[t] = "abort"
    /\ \/ Abort(t) /\ NoFail
       \/ Fail("abort") /\ UNCHANGED store
    /\ Answer(t, "error") /\ Goto(t, "done")
    /\ UNCHANGED << req, plan, todo, late, history >>

-----------------------------------------------------------------------------
\* Without a transaction.

\* addHostInstance: the header it sends is not the one with the session.
NewHost(t) == Fresh(t) /\ \E r \in Requests : \E h \in r.hosts :
    /\ r.kind = "import" /\ db[h] = Absent
    /\ req' = [req EXCEPT ![t] = r]
    /\ \/ Write(Put({h}, Present)) /\ Goto(t, "place") /\ NoFail /\ UNCHANGED answer
       \/ /\ Fail("call") /\ Goto(t, "done") /\ Answer(t, "error")
          /\ Write(Put({h}, Present)) \/ UNCHANGED store
    /\ blind' = blind \cup {h}
    /\ UNCHANGED << plan, todo, late, skewed, strayed, emptied, outdated >>
\* Its transfer to a directory is checked, then written command by command;
\* the audit log is the last.
Place(t) ==
    /\ pc[t] = "place"
    /\ LET c == ToInner(req[t].hosts, req[t].biz, CHOOSE m \in req[t].modules : TRUE)
       IN IF c.ok
          THEN todo' = [todo EXCEPT ![t] = c.todo] /\ Goto(t, "put") /\ UNCHANGED answer
          ELSE Goto(t, "done") /\ Answer(t, "error") /\ UNCHANGED todo
    /\ NoFail
    /\ UNCHANGED << store, req, plan, late, history >>
PutNext(t) ==
    /\ pc[t] = "put"
    /\ LET w == Head(todo[t])
           again == \E d \in DOMAIN w : w[d] # Absent /\ Exists(d)   \* a unique index
       IN \/ /\ ~again /\ NoFail /\ Write(w)
             /\ todo' = [todo EXCEPT ![t] = Tail(@)]
             /\ Goto(t, IF Len(todo[t]) = 1 THEN "done" ELSE "put")
             /\ Answer(t, IF Len(todo[t]) = 1 THEN "ok" ELSE "none")
          \/ /\ \/ again /\ NoFail /\ UNCHANGED store
                \/ Fail("call") /\ UNCHANGED store
                \/ Fail("call") /\ ~again /\ Write(w)
             /\ todo' = [todo EXCEPT ![t] = << >>]
             /\ Goto(t, "done") /\ Answer(t, "error")
    /\ skewed' = skewed \cup {h \in req[t].hosts : In(h) # {} /\ db' # db}
    /\ UNCHANGED << req, plan, late, blind, strayed, emptied, outdated >>

\* TransferResourceDirectory finds the hosts of the pool, then updates their
\* relations by the hosts' ids alone.
Find(t) == Fresh(t) /\ \E r \in Requests :
    /\ r.kind = "directory"
    /\ req' = [req EXCEPT ![t] = r]
    /\ IF /\ \A m \in r.modules : m \in Inner /\ Exists(m)
          /\ \A h \in r.hosts : InBiz(h, Pool) # {}
       THEN Goto(t, "update") /\ UNCHANGED answer
       ELSE Goto(t, "done") /\ Answer(t, "error")
    /\ NoFail
    /\ UNCHANGED << store, plan, todo, late, history >>
Update(t) ==
    /\ pc[t] = "update"
    /\ \E h \in req[t].hosts, m \in req[t].modules :
        /\ IF m \in In(h) \/ In(h) = {}
           THEN UNCHANGED << store, strayed >>
           ELSE \E old \in In(h) :
               /\ Write([d \in {<<h, old>>, <<h, m>>} |->
                         IF d[2] = m THEN db[<<h, old>>] ELSE Absent])
               /\ strayed' = IF old \in Inner /\ db[<<h, old>>] = BizOf[m]
                             THEN strayed ELSE strayed \cup {h}
        \* The second relation would be the same.
        /\ Answer(t, IF Cardinality(In(h)) > 1 THEN "error" ELSE "ok")
    /\ Goto(t, "done") /\ NoFail
    /\ UNCHANGED << req, plan, todo, late, skewed, blind, emptied, outdated >>

-----------------------------------------------------------------------------
Crash(t) ==
    /\ pc[t] \notin {"idle", "done"} /\ Fail("crash")
    /\ Goto(t, "done")
    /\ todo' = [todo EXCEPT ![t] = << >>]
    /\ UNCHANGED << store, req, plan, late, answer, history >>
CounterLost(t) ==
    /\ pc[t] # "done" /\ Fail("counter")
    /\ LoseCounter(t)
    /\ UNCHANGED << client, history >>
\* The age of a transaction ends it, of which the service learns later.
TooOld(t) ==
    /\ IF pc[t] = "done" THEN NoFail ELSE Fail("lifetime")
    /\ Lifetime(t)
    /\ UNCHANGED << client, history >>

Begin(t) == MakePlan(t) \/ Start(t) \/ NewHost(t) \/ Find(t)
Continue(t) ==
    \/ RunPlan(t) \/ Call(t) \/ CallCommit(t) \/ CallAbort(t)
    \/ Place(t) \/ PutNext(t) \/ Update(t)
Mishap(t) == CallFails(t) \/ Deliver(t) \/ CommitFails(t) \/ Crash(t) \/ CounterLost(t)
Next == \E t \in Txns : Begin(t) \/ Continue(t) \/ Mishap(t) \/ TooOld(t)
Spec == Init /\ [][Next]_vars

-----------------------------------------------------------------------------
\* What each request and session may hold: a command is left exactly while one is to be called.
TypeOK ==
    /\ TxnType
    /\ pc \in [Txns -> {"idle", "check", "write", "commit", "abort", "place", "put",
                        "update", "done"}]
    /\ \A t \in Txns :
        /\ pc[t] # "idle" => req[t] \in Requests
        /\ plan[t] \subseteq Modules
        /\ todo[t] # << >> <=> pc[t] \in {"write", "put"}
    /\ answer \in [Txns -> {"none", "ok", "error"}]
    /\ faults \in 0 .. MaxFaults
    /\ skewed \cup blind \cup strayed \subseteq Hosts
    /\ emptied \subseteq Modules
    /\ outdated \subseteq Txns

\* Hosts of imports, which write the host and its relation outside transactions.
Imported == {h \in Hosts : \E t \in Txns : req[t].kind = "import" /\ h \in req[t].hosts}
\* A host has a relation and a relation has its host (host and relation are
\* written by different commands, and only a transfer that is not incremental
\* writes what another one has removed), except for an imported host and after
\* a commit that did not know the host's relations.
Placed == \A h \in Hosts \ (skewed \cup Imported) : Exists(h) <=> In(h) # {}

\* A host is in the modules of one business, which its relations name, and in
\* no other module beside an inner one, except after such a commit and after a
\* change of directory that found the host in the pool and updated it in another
\* business or in other modules.
OneBusiness == \A h \in Hosts \ (skewed \cup strayed) :
    /\ \A m \in In(h) : db[<<h, m>>] = BizOf[m]
    /\ In(h) # {} => Legal(In(h))

\* Two transactions that move a host write a common relation, so that one of
\* them is aborted, unless one appends the host to modules or imports it.
SkewOnlyBlind == skewed \subseteq blind

\* No relation is with a deleted module, whichever of the module's deletion
\* and the transfer commits first, unless each commits on a snapshot without
\* the other.
ModulesExist == \A h \in Hosts : \A m \in In(h) \ emptied : Exists(m)

\* What a request asks of the modules of a host.
Wanted(r, h) ==
    CASE r.kind \in {"normal", "across"} -> r.modules
      [] r.kind = "append" -> (In(h) \ Inner) \cup r.modules
      [] r.kind \in {"inner", "create"} -> {IdleOf[r.biz]}
      [] r.kind = "remove" ->
            IF In(h) \subseteq r.modules THEN {IdleOf[r.biz]} ELSE In(h) \ r.modules
      [] r.kind = "auto" -> Final(r, h)
      [] r.kind = "delete" -> {}
      [] OTHER -> In(h)
\* A commit does to the relations what the request asks of them as they are
\* then, all of it and nothing else, however many commands it took and
\* whatever became of any of them; not if the plan was made for others.
AppliesRequest == [][\A t \in Txns \ outdated :
    session'[t] = "committed" /\ session[t] # "committed" =>
        \A h \in Hosts \ (skewed' \cup strayed) :
            In(h)' = IF h \in req[t].hosts THEN Wanted(req[t], h) ELSE In(h)]_vars

\* The comment on the import of hosts: it uses a transaction of its own.  A host
\* that an import created is not there when the import is answered with an error.
ImportsWhole == \A t \in Txns :
    pc[t] = "done" /\ req[t].kind = "import" /\ answer[t] = "error" =>
        \A h \in req[t].hosts : ~Exists(h)
=============================================================================
