------------------------- MODULE HostTransferProofs -------------------------
(***************************************************************************)
(* Proofs about HostTransfer.  A transaction that may still be committed   *)
(* is described by what it will have written when all its commands have    *)
(* been called; snapshots and conflicts make that right when it commits.   *)
(***************************************************************************)
EXTENDS HostTransfer, SharedLemmas, SequenceTheorems, TLAPS

Vals == Businesses \cup {Absent, Present, Gone}
Writes == UNION {[K -> Vals] : K \in SUBSET Docs}
Labels == {"idle", "check", "write", "commit", "abort", "place", "put", "update", "done"}
NoRequest == [kind |-> "none", hosts |-> {}]

StoreType ==
    /\ db \in [Docs -> Vals]
    /\ counted \in SUBSET Txns
    /\ session \in [Txns -> {"none", "active", "committed", "aborted"}]
    /\ buf \in [Txns -> Writes]
    /\ stale \in [Txns -> SUBSET Docs]
    /\ \A t \in Txns : ~Active(t) => buf[t] = Nothing /\ stale[t] = {}
\* A request that has not come to its transaction has none, and only one that has left it
\* behind has a call that may still be delivered.
ClientType ==
    /\ pc \in [Txns -> Labels]
    /\ req \in [Txns -> Requests \cup {NoRequest}]
    /\ plan \in [Txns -> SUBSET Modules]
    /\ todo \in [Txns -> Seq(Writes)]
    /\ late \in [Txns -> Seq(Writes)]
    /\ answer \in [Txns -> {"none", "ok", "error"}]
    /\ \A t \in Txns :
        /\ pc[t] # "idle" => req[t] \in Requests
        /\ (todo[t] # << >>) <=> (pc[t] \in {"write", "put"})
        /\ pc[t] \in {"idle", "check"} => session[t] = "none" /\ t \notin counted
        /\ pc[t] \in {"write", "commit"} => session[t] # "none"
        /\ pc[t] = "check" => req[t].kind = "auto"
        /\ late[t] # << >> => pc[t] \in {"abort", "done"}
HistoryType ==
    /\ faults \in 0 .. MaxFaults
    /\ skewed \in SUBSET Hosts /\ blind \in SUBSET Hosts /\ strayed \in SUBSET Hosts
    /\ emptied \in SUBSET Modules /\ outdated \in SUBSET Txns
TypeInv == StoreType /\ ClientType /\ HistoryType

-----------------------------------------------------------------------------
(* Writes.                                                                 *)

\* A write is a function from some documents to values.
LEMMA WriteFacts ==
  ASSUME NEW w
  PROVE  w \in Writes <=> /\ DOMAIN w \in SUBSET Docs /\ \A k \in DOMAIN w : w[k] \in Vals
                          /\ w = [k \in DOMAIN w |-> w[k]]
<1>1. ASSUME w \in Writes
      PROVE  /\ DOMAIN w \in SUBSET Docs /\ \A k \in DOMAIN w : w[k] \in Vals
             /\ w = [k \in DOMAIN w |-> w[k]]
  <2>1. PICK K \in SUBSET Docs : w \in [K -> Vals]
    BY <1>1 DEF Writes
  <2> QED BY <2>1
<1>2. ASSUME DOMAIN w \in SUBSET Docs, \A k \in DOMAIN w : w[k] \in Vals,
             w = [k \in DOMAIN w |-> w[k]]
      PROVE  w \in Writes
  <2>1. w \in [DOMAIN w -> Vals]
    BY <1>2
  <2> QED BY <1>2, <2>1 DEF Writes
<1> QED BY <1>1, <1>2

\* The write of one value to some documents.
LEMMA PutFacts ==
  ASSUME NEW ds \in SUBSET Docs, NEW v \in Vals
  PROVE  Put(ds, v) \in Writes /\ DOMAIN Put(ds, v) = ds /\ \A k \in ds : Put(ds, v)[k] = v
<1>1. Put(ds, v) = [k \in ds |-> v]
  BY DEF Put
<1>2. [k \in ds |-> v] \in [ds -> Vals]
  OBVIOUS
<1> QED BY <1>1, <1>2 DEF Writes

\* The write of nothing, a read or the audit log.
LEMMA NothingFacts == Nothing \in Writes /\ DOMAIN Nothing = {} /\ Audit = Nothing
<1>1. Nothing = [k \in {} |-> "none"]
  BY DEF Nothing
<1>2. [k \in {} |-> "none"] \in [{} -> Vals]
  OBVIOUS
<1> QED BY <1>1, <1>2 DEF Writes, Audit

\* One write over another, and over the database.
LEMMA OverFacts ==
  ASSUME NEW w \in Writes, NEW f \in Writes
  PROVE  /\ Over(w, f) \in Writes /\ DOMAIN Over(w, f) = DOMAIN f \cup DOMAIN w
         /\ \A k \in DOMAIN f \cup DOMAIN w :
               Over(w, f)[k] = IF k \in DOMAIN w THEN w[k] ELSE f[k]
<1>1. /\ DOMAIN w \in SUBSET Docs /\ \A k \in DOMAIN w : w[k] \in Vals
      /\ DOMAIN f \in SUBSET Docs /\ \A k \in DOMAIN f : f[k] \in Vals
  BY WriteFacts
<1>2. Over(w, f) = [k \in DOMAIN f \cup DOMAIN w |-> IF k \in DOMAIN w THEN w[k] ELSE f[k]]
  BY DEF Over
<1>3. DOMAIN f \cup DOMAIN w \in SUBSET Docs
  BY <1>1
<1>4. Over(w, f) \in [DOMAIN f \cup DOMAIN w -> Vals]
  BY <1>1, <1>2
<1> QED BY <1>2, <1>3, <1>4 DEF Writes

\* What a write makes of the database.
LEMMA OverDb ==
  ASSUME NEW w \in Writes, NEW d \in [Docs -> Vals]
  PROVE  /\ Over(w, d) \in [Docs -> Vals]
         /\ \A k \in Docs : Over(w, d)[k] = IF k \in DOMAIN w THEN w[k] ELSE d[k]
<1>1. DOMAIN w \in SUBSET Docs /\ \A k \in DOMAIN w : w[k] \in Vals
  BY WriteFacts
<1>2. Over(w, d) = [k \in DOMAIN d \cup DOMAIN w |-> IF k \in DOMAIN w THEN w[k] ELSE d[k]]
  BY DEF Over
<1>3. DOMAIN d \cup DOMAIN w = Docs
  BY <1>1
<1>4. Over(w, d) = [k \in Docs |-> IF k \in DOMAIN w THEN w[k] ELSE d[k]]
  BY <1>2, <1>3
<1> QED BY <1>1, <1>4

-----------------------------------------------------------------------------
(* The inductive invariant.                                                *)

At(d, h) == {m \in Modules : d[<<h, m>>] # Absent}
There(d, k) == d[k] \notin {Absent, Gone}
HostKeys(h) == {k \in Docs : k = h \/ \E m \in Modules : k = <<h, m>>}

\* The writes q after f, of at most four commands.
Then(q, f) ==
    IF Len(q) = 0 THEN f
    ELSE IF Len(q) = 1 THEN Over(q[1], f)
    ELSE IF Len(q) = 2 THEN Over(q[2], Over(q[1], f))
    ELSE IF Len(q) = 3 THEN Over(q[3], Over(q[2], Over(q[1], f)))
    ELSE Over(q[4], Over(q[3], Over(q[2], Over(q[1], f))))
\* What a transaction will have written.
Goal(t) == Then(todo[t], buf[t])
Live(t) == pc[t] \in {"write", "commit"} /\ Active(t)

\* What the writes g of a request are to the database d it was checked in.  bl are the
\* hosts of which nothing more is said, odd those that may be in any modules.
WritesRelations(r, d, g) == \A h \in Hosts, m \in Modules : <<h, m>> \in DOMAIN g =>
    /\ h \in r.hosts
    /\ g[<<h, m>>] # Absent => g[<<h, m>>] = BizOf[m] /\ There(d, m)
    /\ g[<<h, m>>] # Absent /\ d[h] = Absent => h \in DOMAIN g
WritesHosts(r, g) == \A h \in Hosts \cap DOMAIN g : h \in r.hosts /\ g[h] \in {Present, Gone}
WritesModules(r, d, g) == \A m \in Modules \cap DOMAIN g :
    /\ r.kind = "deletemodule" /\ m \in r.modules /\ m \notin Inner
    /\ \A h \in Hosts : d[<<h, m>>] # BizOf[m]
Takes(r, d, g, bl) == r.kind # "append" => \A h \in r.hosts \ bl :
    /\ \A m \in At(d, h) : <<h, m>> \in DOMAIN g
    /\ At(d, h) = {} => h \in DOMAIN g
    /\ There(Over(g, d), h) <=> At(Over(g, d), h) # {}
Settles(r, d, g, odd) == \A h \in r.hosts \ odd :
    At(Over(g, d), h) = {} \/ Legal(At(Over(g, d), h))
Fits(r, d, g, bl, odd) ==
    /\ g \in Writes
    /\ WritesRelations(r, d, g) /\ WritesHosts(r, g) /\ WritesModules(r, d, g)
    /\ Takes(r, d, g, bl) /\ Settles(r, d, g, odd)

\* D is the snapshot d of a transaction but for the keys st committed since.
Snapshot(D, st, r, g, bl, odd) == \E d \in [Docs -> Vals] :
    (\A k \in Docs \ st : d[k] = D[k]) /\ Fits(r, d, g, bl, odd)
\* If others have touched one of its hosts, they have touched what it writes.
Collides(st, r, g, bl) == r.kind # "append" => \A h \in r.hosts \ bl :
    st \cap HostKeys(h) # {} => st \cap DOMAIN g # {}

Alone ==
    /\ \A t \in Txns : Active(t) => DOMAIN buf[t] \cap stale[t] = {}
    /\ \A t, u \in Txns : t # u => DOMAIN buf[t] \cap DOMAIN buf[u] = {}
\* No document of a host becomes absent.
Lasting == \A t \in Txns : \A h \in Hosts \cap stale[t] : db[h] # Absent
Runs(t) ==
    /\ Len(todo[t]) <= 4
    /\ Snapshot(db, stale[t], req[t], Goal(t), blind, skewed \cup strayed)
    /\ Collides(stale[t], req[t], Goal(t), blind)
Running == \A t \in Txns : Live(t) => Runs(t)
\* The commands of an import.
ImportWrite(h, w) ==
    \/ \E ds \in SUBSET ({h} \X Modules) : w = Put(ds, Absent)
    \/ \E m \in Inner : \E ds \in SUBSET ({h} \X {m}) : w = Put(ds, BizOf[m])
Imports(t) == \E h \in Hosts :
    /\ req[t].kind = "import" /\ req[t].hosts = {h} /\ h \in blind /\ db[h] # Absent
    /\ \A i \in DOMAIN todo[t] : ImportWrite(h, todo[t][i])
Importing == \A t \in Txns : pc[t] \in {"place", "put"} => Imports(t)

\* Each host as it is to be, but for those that others name.
Sound(D, bl, sk, str, em) ==
    /\ \A h \in Hosts \ bl : There(D, h) <=> At(D, h) # {}
    /\ \A h \in Hosts, m \in Modules :
          D[<<h, m>>] \in {Absent, BizOf[m]} \/ (h \in str /\ m \in Inner)
    /\ \A h \in Hosts \ (sk \cup str) : At(D, h) = {} \/ Legal(At(D, h))
    /\ \A h \in Hosts : \A m \in At(D, h) \ em : There(D, m)
    /\ \A h \in Hosts : D[h] = Absent => At(D, h) = {}
    /\ \A m \in Inner : There(D, m)
Updating == \A t \in Txns : pc[t] = "update" => req[t].modules \subseteq Inner
Inv ==
    /\ Alone /\ Lasting /\ Running /\ Importing /\ Updating
    /\ Sound(db, blind, skewed, strayed, emptied)
    /\ skewed \subseteq blind

-----------------------------------------------------------------------------
(* The steps of the store.                                                 *)

\* Two writes to a function of the requests.
LEMMA SetFacts ==
  ASSUME NEW S, NEW f \in [Txns -> S], NEW t \in Txns, NEW v \in S
  PROVE  /\ [f EXCEPT ![t] = v] \in [Txns -> S]
         /\ [f EXCEPT ![t] = v][t] = v
         /\ \A u \in Txns : u # t => [f EXCEPT ![t] = v][u] = f[u]
OBVIOUS

\* What a step leaves as it is for the transactions other than that of t.
OthersKept(t) == \A u \in Txns : u # t =>
    session'[u] = session[u] /\ buf'[u] = buf[u] /\ stale'[u] = stale[u]

\* The end of a transaction forgets its writes and its snapshot.
LEMMA EndFacts ==
  ASSUME StoreType, Alone, NEW t \in Txns, NEW how \in {"aborted"},
         Ends(t, how), stale' = [stale EXCEPT ![t] = {}], counted' \in SUBSET Txns
  PROVE  StoreType' /\ Alone' /\ db' = db /\ OthersKept(t) /\ ~Active(t)'
<1>1. /\ db' = db
      /\ session' = [session EXCEPT ![t] = "aborted"]
      /\ buf' = [buf EXCEPT ![t] = Nothing]
  BY DEF Ends
<1>2. /\ session' \in [Txns -> {"none", "active", "committed", "aborted"}]
      /\ session'[t] = "aborted" /\ \A u \in Txns : u # t => session'[u] = session[u]
  BY <1>1 DEF StoreType
<1>3. /\ buf' \in [Txns -> Writes]
      /\ buf'[t] = Nothing /\ \A u \in Txns : u # t => buf'[u] = buf[u]
  BY <1>1, NothingFacts DEF StoreType
<1>4. /\ stale' \in [Txns -> SUBSET Docs]
      /\ stale'[t] = {} /\ \A u \in Txns : u # t => stale'[u] = stale[u]
  BY DEF StoreType
<1>5. StoreType'
  BY <1>1, <1>2, <1>3, <1>4 DEF StoreType, Active
<1>6. Alone'
  BY <1>2, <1>3, <1>4, NothingFacts DEF Alone, Active
<1> QED BY <1>1, <1>2, <1>3, <1>4, <1>5, <1>6 DEF OthersKept, Active

\* A command leaves the database as it is; one that succeeds adds its write, to keys that
\* nobody else writes or has written since the snapshot.
LEMMA ExecuteFacts ==
  ASSUME StoreType, Alone, NEW t \in Txns, NEW w \in Writes, Execute(t, w)
  PROVE  /\ StoreType' /\ Alone' /\ db' = db /\ OthersKept(t) /\ counted' = counted \cup {t}
         /\ stale'[t] \in {{}, stale[t]}
         /\ Succeeds(t, w) => /\ Active(t)' /\ buf'[t] = Over(w, buf[t])
                              /\ stale'[t] = stale[t]
<1>1. CASE ~Accepts(t)
  <2>1. UNCHANGED << db, session, buf, stale >> /\ counted' = counted \cup {t}
    BY <1>1 DEF Execute, Succeeds
  <2>2. StoreType' /\ Alone' /\ OthersKept(t)
    BY <2>1 DEF StoreType, Alone, OthersKept, Active
  <2> QED BY <1>1, <2>1, <2>2 DEF Succeeds
<1>2. CASE Accepts(t) /\ Conflicts(t, w)
  <2>1. /\ Ends(t, "aborted") /\ stale' = [stale EXCEPT ![t] = {}]
        /\ counted' = counted \cup {t}
    BY <1>2 DEF Execute, Succeeds
  <2>2. counted' \in SUBSET Txns
    BY <2>1 DEF StoreType
  <2>3. StoreType' /\ Alone' /\ db' = db /\ OthersKept(t)
    BY <2>1, <2>2, EndFacts
  <2>4. stale'[t] = {}
    BY <2>1 DEF StoreType
  <2> QED BY <1>2, <2>1, <2>3, <2>4 DEF Succeeds
<1>3. CASE Succeeds(t, w)
  <2>1. /\ counted' = counted \cup {t}
        /\ session' = [session EXCEPT ![t] = "active"]
        /\ buf' = [buf EXCEPT ![t] = Over(w, @)]
        /\ UNCHANGED << db, stale >>
    BY <1>3 DEF Execute, Succeeds
  <2>2. buf[t] \in Writes /\ DOMAIN Over(w, buf[t]) = DOMAIN buf[t] \cup DOMAIN w
        /\ Over(w, buf[t]) \in Writes
    BY OverFacts DEF StoreType
  <2>3. /\ buf' \in [Txns -> Writes] /\ buf'[t] = Over(w, buf[t])
        /\ \A u \in Txns : u # t => buf'[u] = buf[u]
    BY <2>1, <2>2 DEF StoreType
  <2>4. /\ session' \in [Txns -> {"none", "active", "committed", "aborted"}]
        /\ session'[t] = "active" /\ \A u \in Txns : u # t => session'[u] = session[u]
    BY <2>1 DEF StoreType
  <2>5. StoreType'
    BY <2>1, <2>3, <2>4 DEF StoreType, Active
  <2>6. DOMAIN w \cap stale[t] = {} /\ \A u \in Txns \ {t} : DOMAIN w \cap DOMAIN buf[u] = {}
    BY <1>3 DEF Succeeds, Conflicts
  <2>7. DOMAIN buf[t] \cap stale[t] = {}
    <3>1. CASE Active(t)
      BY <3>1 DEF Alone
    <3>2. CASE ~Active(t)
      BY <3>2 DEF StoreType
    <3> QED BY <3>1, <3>2
  <2>8. Alone'
    <3>1. \A u \in Txns : Active(u)' => DOMAIN buf'[u] \cap stale'[u] = {}
      <4> SUFFICES ASSUME NEW u \in Txns, Active(u)'
                   PROVE  DOMAIN buf'[u] \cap stale'[u] = {}
        OBVIOUS
      <4>1. CASE u = t
        BY <4>1, <2>1, <2>2, <2>3, <2>6, <2>7
      <4>2. CASE u # t
        BY <4>2, <2>1, <2>3, <2>4 DEF Alone, Active
      <4> QED BY <4>1, <4>2
    <3>2. \A x, u \in Txns : x # u => DOMAIN buf'[x] \cap DOMAIN buf'[u] = {}
      <4> SUFFICES ASSUME NEW x \in Txns, NEW u \in Txns, x # u
                   PROVE  DOMAIN buf'[x] \cap DOMAIN buf'[u] = {}
        OBVIOUS
      <4>1. CASE x = t
        BY <4>1, <2>2, <2>3, <2>6 DEF Alone
      <4>2. CASE u = t
        BY <4>2, <2>2, <2>3, <2>6 DEF Alone
      <4>3. CASE x # t /\ u # t
        BY <4>3, <2>3 DEF Alone
      <4> QED BY <4>1, <4>2, <4>3
    <3> QED BY <3>1, <3>2 DEF Alone
  <2>9. Active(t)'
    BY <2>4 DEF Active
  <2> QED BY <2>1, <2>3, <2>4, <2>5, <2>8, <2>9 DEF OthersKept
<1> QED BY <1>1, <1>2, <1>3 DEF Succeeds

\* An abort, and the age of a transaction.
LEMMA AbortFacts ==
  ASSUME StoreType, Alone, NEW t \in Txns, Abort(t) \/ Lifetime(t)
  PROVE  StoreType' /\ Alone' /\ db' = db /\ OthersKept(t) /\ ~Active(t)'
         /\ counted' \in SUBSET counted
<1>1. CASE Active(t)
  <2>1. Ends(t, "aborted") /\ stale' = [stale EXCEPT ![t] = {}] /\ counted' \in SUBSET counted
    BY <1>1 DEF Abort, Lifetime
  <2>2. counted' \in SUBSET Txns
    BY <2>1 DEF StoreType
  <2> QED BY <2>1, <2>2, EndFacts
<1>2. CASE ~Active(t)
  <2>1. UNCHANGED << db, session, buf, stale >> /\ counted' \in SUBSET counted
    BY <1>2 DEF Abort, Lifetime
  <2>2. StoreType' /\ Alone' /\ OthersKept(t)
    BY <2>1 DEF StoreType, Alone, OthersKept, Active
  <2> QED BY <1>2, <2>1, <2>2 DEF Active
<1> QED BY <1>1, <1>2

\* What a step that publishes w makes of the transactions but that of t.
OthersStale(t, w) == \A u \in Txns : u # t =>
    /\ session'[u] = session[u] /\ buf'[u] = buf[u]
    /\ stale'[u] = IF Active(u) THEN stale[u] \cup DOMAIN w ELSE stale[u]

\* A commit publishes the writes of the transaction, which no other has in its own.
LEMMA CommitFacts ==
  ASSUME StoreType, Alone, NEW t \in Txns, Commit(t), Active(t)
  PROVE  /\ StoreType' /\ Alone' /\ db' = Over(buf[t], db) /\ ~Active(t)'
         /\ OthersStale(t, buf[t]) /\ counted' \in SUBSET counted /\ stale'[t] = {}
         /\ session'[t] = "committed"
<1>1. /\ db' = Over(buf[t], db)
      /\ stale' = [u \in Txns |-> IF u \notin Txns \ {t} THEN {}
                                  ELSE IF Active(u) THEN stale[u] \cup DOMAIN buf[t]
                                  ELSE stale[u]]
      /\ session' = [session EXCEPT ![t] = "committed"]
      /\ buf' = [buf EXCEPT ![t] = Nothing]
      /\ counted' = counted \ {t}
  BY DEF Commit, Publish
<1>2. buf[t] \in Writes /\ DOMAIN buf[t] \in SUBSET Docs
  BY WriteFacts DEF StoreType
<1>3. db' \in [Docs -> Vals]
  BY <1>1, <1>2, OverDb DEF StoreType
<1>4. /\ session' \in [Txns -> {"none", "active", "committed", "aborted"}]
      /\ session'[t] = "committed" /\ \A u \in Txns : u # t => session'[u] = session[u]
  BY <1>1 DEF StoreType
<1>5. /\ buf' \in [Txns -> Writes]
      /\ buf'[t] = Nothing /\ \A u \in Txns : u # t => buf'[u] = buf[u]
  BY <1>1, NothingFacts DEF StoreType
<1>6. /\ stale'[t] = {}
      /\ \A u \in Txns : u # t => stale'[u] = IF Active(u) THEN stale[u] \cup DOMAIN buf[t]
                                               ELSE stale[u]
  BY <1>1
<1>7. stale' \in [Txns -> SUBSET Docs]
  <2>1. \A u \in Txns : stale'[u] \in SUBSET Docs
    BY <1>2, <1>6 DEF StoreType
  <2> QED BY <1>1, <2>1
<1>8. \A u \in Txns : u # t => (Active(u)' <=> Active(u))
  BY <1>4 DEF Active
<1>9. ~Active(t)'
  BY <1>4 DEF Active
<1>10. StoreType'
  <2>1. counted' \in SUBSET Txns
    BY <1>1 DEF StoreType
  <2>2. \A u \in Txns : ~Active(u)' => buf'[u] = Nothing /\ stale'[u] = {}
    BY <1>5, <1>6, <1>8 DEF StoreType
  <2> QED BY <2>1, <2>2, <1>3, <1>4, <1>5, <1>7 DEF StoreType, Active
<1>11. Alone'
  <2>1. \A u \in Txns : Active(u)' => DOMAIN buf'[u] \cap stale'[u] = {}
    <3> SUFFICES ASSUME NEW u \in Txns, Active(u)'
                 PROVE  DOMAIN buf'[u] \cap stale'[u] = {}
      OBVIOUS
    <3>1. u # t /\ Active(u)
      BY <1>8, <1>9
    <3> QED BY <3>1, <1>5, <1>6 DEF Alone
  <2>2. \A x, u \in Txns : x # u => DOMAIN buf'[x] \cap DOMAIN buf'[u] = {}
    BY <1>5, NothingFacts DEF Alone
  <2> QED BY <2>1, <2>2 DEF Alone
<1> QED BY <1>1, <1>4, <1>5, <1>6, <1>9, <1>10, <1>11 DEF OthersStale

\* A write without a transaction waits for the transactions that write its documents.
LEMMA PublishFacts ==
  ASSUME StoreType, Alone, NEW w \in Writes, Write(w)
  PROVE  /\ StoreType' /\ Alone' /\ db' = Over(w, db) /\ \A t \in Txns : OthersStale(t, w)
         /\ UNCHANGED << counted, session, buf >>
<1>1. /\ \A t \in Txns : DOMAIN w \cap DOMAIN buf[t] = {}
      /\ db' = Over(w, db)
      /\ stale' = [u \in Txns |-> IF u \notin Txns THEN {}
                                  ELSE IF Active(u) THEN stale[u] \cup DOMAIN w ELSE stale[u]]
      /\ UNCHANGED << counted, session, buf >>
  BY DEF Write, Publish
<1>2. db' \in [Docs -> Vals] /\ DOMAIN w \in SUBSET Docs
  BY <1>1, OverDb, WriteFacts DEF StoreType
<1>3. \A u \in Txns : stale'[u] = IF Active(u) THEN stale[u] \cup DOMAIN w ELSE stale[u]
  BY <1>1
<1>4. stale' \in [Txns -> SUBSET Docs]
  <2>1. \A u \in Txns : stale'[u] \in SUBSET Docs
    BY <1>2, <1>3 DEF StoreType
  <2> QED BY <1>1, <2>1
<1>5. StoreType'
  BY <1>1, <1>2, <1>3, <1>4 DEF StoreType, Active
<1>6. Alone'
  BY <1>1, <1>3 DEF Alone, Active
<1> QED BY <1>1, <1>3, <1>5, <1>6 DEF OthersStale

-----------------------------------------------------------------------------
(* Commands.                                                               *)

\* The first command's write, then the others, is all of them.
LEMMA ThenTail ==
  ASSUME NEW q \in Seq(Writes), q # << >>, Len(q) <= 4, NEW f
  PROVE  Then(Tail(q), Over(Head(q), f)) = Then(q, f)
<1>1. /\ Head(q) = q[1] /\ Len(q) \in Nat \ {0} /\ Tail(q) \in Seq(Writes)
      /\ Len(Tail(q)) = Len(q) - 1
      /\ \A i \in DOMAIN Tail(q) : Tail(q)[i] = q[i + 1]
  BY TailFacts
<1>2. DOMAIN Tail(q) = 1 .. Len(q) - 1
  BY <1>1
<1>3. /\ Len(q) >= 2 => Tail(q)[1] = q[2]
      /\ Len(q) >= 3 => Tail(q)[2] = q[3]
      /\ Len(q) >= 4 => Tail(q)[3] = q[4]
  BY <1>1, <1>2
<1> QED BY <1>1, <1>3 DEF Then

\* Some commands after a write are a write.
LEMMA ThenType ==
  ASSUME NEW q \in Seq(Writes), Len(q) <= 4, NEW f \in Writes
  PROVE  Then(q, f) \in Writes
<1>1. Len(q) \in Nat /\ \A i \in 1 .. Len(q) : q[i] \in Writes
  OBVIOUS
<1>2. Len(q) = 0 => Then(q, f) \in Writes
  BY DEF Then
<1> DEFINE W == Writes
<1>o. \A w, g \in W : Over(w, g) \in W
  BY OverFacts
<1> HIDE DEF W
<1>q. Len(q) \in Nat /\ \A i \in 1 .. Len(q) : q[i] \in W
  BY <1>1 DEF W
<1>f. f \in W
  BY DEF W
<1>3. Len(q) >= 1 => Over(q[1], f) \in W
  BY <1>q, <1>f, <1>o
<1>4. Len(q) >= 2 => Over(q[2], Over(q[1], f)) \in W
  BY <1>q, <1>3, <1>o
<1>5. Len(q) >= 3 => Over(q[3], Over(q[2], Over(q[1], f))) \in W
  BY <1>q, <1>4, <1>o
<1>6. Len(q) >= 4 => Over(q[4], Over(q[3], Over(q[2], Over(q[1], f)))) \in W
  BY <1>q, <1>5, <1>o
<1>7. Len(q) \in {0, 1, 2, 3, 4}
  <2> DEFINE n == Len(q)
  <2>1. n \in Nat /\ n <= 4
    BY <1>1
  <2> HIDE DEF n
  <2>2. n \in {0, 1, 2, 3, 4}
    BY <2>1
  <2> QED BY <2>2 DEF n
<1>8. Len(q) # 0 => Then(q, f) \in W
  BY <1>7, <1>3, <1>4, <1>5, <1>6 DEF Then
<1> QED BY <1>2, <1>8 DEF W

\* A command and then others.
LEMMA ConsFacts ==
  ASSUME NEW q \in Seq(Writes), Len(q) <= 3, NEW w \in Writes, NEW f
  PROVE  /\ << w >> \o q \in Seq(Writes) /\ Len(<< w >> \o q) = Len(q) + 1
         /\ Then(<< w >> \o q, f) = Then(q, Over(w, f))
<1> DEFINE p == << w >> \o q
<1>1. /\ p \in Seq(Writes) /\ Len(p) = Len(q) + 1 /\ p[1] = w
      /\ \A i \in 1 .. Len(q) : p[i + 1] = q[i]
  OBVIOUS
<1>2. Len(q) \in Nat
  OBVIOUS
<1>3. /\ Len(q) >= 1 => p[2] = q[1]
      /\ Len(q) >= 2 => p[3] = q[2]
      /\ Len(q) >= 3 => p[4] = q[3]
  BY <1>1, <1>2
<1> HIDE DEF p
<1>4. Then(p, f) = Then(q, Over(w, f))
  <2> DEFINE n == Len(q)
             l == Len(p)
  <2>1. l = n + 1 /\ n \in Nat /\ n <= 3
    BY <1>1, <1>2
  <2> HIDE DEF n, l
  <2>2. l = n + 1 /\ n \in {0, 1, 2, 3}
    BY <2>1
  <2>3. CASE n = 0
    <3>1. l = 1 /\ p[1] = w
      BY <2>2, <2>3, <1>1
    <3> QED BY <2>3, <3>1 DEF Then, n, l
  <2>4. CASE n = 1
    <3>1. l = 2 /\ p[1] = w /\ p[2] = q[1]
      BY <2>2, <2>4, <1>1, <1>3 DEF n
    <3> QED BY <2>4, <3>1 DEF Then, n, l
  <2>5. CASE n = 2
    <3>1. l = 3 /\ p[1] = w /\ p[2] = q[1] /\ p[3] = q[2]
      BY <2>2, <2>5, <1>1, <1>3 DEF n
    <3> QED BY <2>5, <3>1 DEF Then, n, l
  <2>6. CASE n = 3
    <3>1. l = 4 /\ p[1] = w /\ p[2] = q[1] /\ p[3] = q[2] /\ p[4] = q[3]
      BY <2>2, <2>6, <1>1, <1>3 DEF n
    <3> QED BY <2>6, <3>1 DEF Then, n, l
  <2> QED BY <2>2, <2>3, <2>4, <2>5, <2>6
<1> QED BY <1>1, <1>4 DEF p

\* The commands of a transfer, as a sequence.
LEMMA CommandsAre ==
  ASSUME NEW del, NEW add, NEW b
  PROVE  Commands(del, add, b) = IF add = {} THEN << Put(del, Absent), Audit >>
                                 ELSE << Put(del, Absent), Put(add, b), Audit >>
<1> DEFINE x == Put(del, Absent)
           y == Put(add, b)
           z == Audit
<1> HIDE DEF x, y, z
<1> DEFINE S == {x, y, z}
<1>0. /\ << x >> \in Seq(S) /\ << z >> \in Seq(S) /\ << x, y >> \in Seq(S)
      /\ << x, z >> \in Seq(S) /\ << x, y, z >> \in Seq(S) /\ << y >> \in Seq(S)
  OBVIOUS
<1>1. << x >> \o << >> \o << z >> = << x, z >>
  <2>1. << x >> \o << >> = << x >>
    BY <1>0, ConcatEmptySeq
  <2>2. << x >> \o << z >> = << x, z >>
    <3> DEFINE p == << x >> \o << z >>
               r == << x, z >>
    <3>1. p \in Seq(S) /\ Len(p) = 2 /\ p[1] = x /\ p[2] = z
      BY <1>0
    <3>2. r \in Seq(S) /\ Len(r) = 2 /\ r[1] = x /\ r[2] = z
      BY <1>0
    <3> HIDE DEF p, r
    <3>3. \A i \in 1 .. Len(p) : p[i] = r[i]
      BY <3>1, <3>2
    <3>4. p = r
      BY <3>1, <3>2, <3>3, SeqEqual
    <3> QED BY <3>4 DEF p, r
  <2> QED BY <2>1, <2>2
<1>2. << x >> \o << y >> \o << z >> = << x, y, z >>
  <2> DEFINE p == << x >> \o << y >> \o << z >>
             r == << x, y, z >>
  <2>1. p \in Seq(S) /\ Len(p) = 3 /\ p[1] = x /\ p[2] = y /\ p[3] = z
    BY <1>0
  <2>2. r \in Seq(S) /\ Len(r) = 3 /\ r[1] = x /\ r[2] = y /\ r[3] = z
    BY <1>0
  <2> HIDE DEF p, r
  <2>3. \A i \in 1 .. Len(p) : p[i] = r[i]
    BY <2>1, <2>2
  <2>4. p = r
    BY <2>1, <2>2, <2>3, SeqEqual
  <2> QED BY <2>4 DEF p, r
<1>3. CASE add = {}
  <2>1. Commands(del, add, b) = << x >> \o << >> \o << z >>
    BY <1>3 DEF Commands, x, z
  <2> QED BY <2>1, <1>1, <1>3 DEF x, z
<1>4. CASE add # {}
  <2>1. Commands(del, add, b) = << x >> \o << y >> \o << z >>
    BY <1>4 DEF Commands, x, y, z
  <2> QED BY <2>1, <1>2, <1>4 DEF x, y, z
<1> QED BY <1>3, <1>4

\* The audit log adds nothing.
LEMMA OverAudit ==
  ASSUME NEW f \in Writes
  PROVE  Over(Audit, f) = f
<1>1. DOMAIN Audit = {}
  BY NothingFacts
<1>2. Over(Audit, f) = [k \in DOMAIN f |-> f[k]]
  BY <1>1 DEF Over
<1> QED BY <1>2, WriteFacts

\* What the commands q of a transfer make of the writes f.
Moved(q, f, del, add, b) ==
    /\ q \in Seq(Writes) /\ Len(q) \in {2, 3} /\ Then(q, f) \in Writes
    /\ DOMAIN Then(q, f) = DOMAIN f \cup del \cup add
    /\ \A k \in DOMAIN f \cup del \cup add :
          Then(q, f)[k] = IF k \in add THEN b ELSE IF k \in del THEN Absent ELSE f[k]

\* The commands of a transfer.
LEMMA CommandsFacts ==
  ASSUME NEW del \in SUBSET Docs, NEW add \in SUBSET Docs, NEW b \in Vals, NEW f \in Writes
  PROVE  Moved(Commands(del, add, b), f, del, add, b)
<1> DEFINE x == Put(del, Absent)
           y == Put(add, b)
           q == Commands(del, add, b)
           g == Over(x, f)
           e == Over(y, g)
<1>1. x \in Writes /\ DOMAIN x = del /\ \A k \in del : x[k] = Absent
  <2>1. Absent \in Vals
    BY DEF Vals
  <2> QED BY <2>1, PutFacts
<1>2. y \in Writes /\ DOMAIN y = add /\ \A k \in add : y[k] = b
  BY PutFacts
<1> HIDE DEF x, y
<1>3. /\ g \in Writes /\ DOMAIN g = DOMAIN f \cup DOMAIN x
      /\ \A k \in DOMAIN f \cup DOMAIN x : g[k] = IF k \in DOMAIN x THEN x[k] ELSE f[k]
  BY <1>1, OverFacts
<1> HIDE DEF g
<1>4. /\ e \in Writes /\ DOMAIN e = DOMAIN g \cup DOMAIN y
      /\ \A k \in DOMAIN g \cup DOMAIN y : e[k] = IF k \in DOMAIN y THEN y[k] ELSE g[k]
  BY <1>2, <1>3, OverFacts
<1> HIDE DEF e
<1>5. Audit \in Writes /\ Over(Audit, g) = g /\ Over(Audit, e) = e
  BY <1>3, <1>4, NothingFacts, OverAudit
<1>6. CASE add = {}
  <2>1. q = << x, Audit >>
    BY <1>6, CommandsAre DEF x
  <2> HIDE DEF q
  <2>2. Then(q, f) = Over(Audit, g) /\ q \in Seq(Writes) /\ Len(q) = 2
    BY <2>1, <1>1, <1>5 DEF Then, g
  <2>3. Then(q, f) = g
    BY <2>2, <1>5
  <2>4. DOMAIN g = DOMAIN f \cup del \cup add
    BY <1>1, <1>3, <1>6
  <2>5. \A k \in DOMAIN f \cup del \cup add :
            g[k] = IF k \in add THEN b ELSE IF k \in del THEN Absent ELSE f[k]
    BY <1>1, <1>3, <1>6
  <2>6. q \in Seq(Writes) /\ Len(q) \in {2, 3} /\ g \in Writes
    BY <2>2, <1>3
  <2> QED BY <2>3, <2>4, <2>5, <2>6 DEF q, Moved
<1>7. CASE add # {}
  <2>1. q = << x, y, Audit >>
    BY <1>7, CommandsAre DEF x, y
  <2> HIDE DEF q
  <2>2. Then(q, f) = Over(Audit, e) /\ q \in Seq(Writes) /\ Len(q) = 3
    BY <2>1, <1>1, <1>2, <1>5 DEF Then, g, e
  <2>3. Then(q, f) = e
    BY <2>2, <1>5
  <2>4. DOMAIN e = DOMAIN f \cup del \cup add
    BY <1>1, <1>2, <1>3, <1>4
  <2>5. \A k \in DOMAIN f \cup del \cup add :
            e[k] = IF k \in add THEN b ELSE IF k \in del THEN Absent ELSE f[k]
    BY <1>1, <1>2, <1>3, <1>4
  <2>6. q \in Seq(Writes) /\ Len(q) \in {2, 3} /\ e \in Writes
    BY <2>2, <1>4
  <2> QED BY <2>3, <2>4, <2>5, <2>6 DEF q, Moved
<1> QED BY <1>6, <1>7

\* A host, a module and a relation are different documents.
LEMMA DocFacts ==
  /\ \A h \in Hosts : h \in Docs /\ h \notin Modules /\ h \notin Relations
  /\ \A m \in Modules : m \in Docs /\ m \notin Hosts /\ m \notin Relations
  /\ \A h \in Hosts, m \in Modules : <<h, m>> \in Relations /\ <<h, m>> \in Docs
  /\ \A k \in Relations : \E h \in Hosts, m \in Modules : k = <<h, m>>
<1>1. Hosts \cap Modules = {} /\ (Hosts \cup Modules) \cap Relations = {}
  BY NamesAssumption DEF Relations
<1>2. \A h \in Hosts, m \in Modules : <<h, m>> \in Relations
  BY DEF Relations
<1>3. \A k \in Relations : \E h \in Hosts, m \in Modules : k = <<h, m>>
  BY DEF Relations
<1> QED BY <1>1, <1>2, <1>3 DEF Docs

\* The name of a business is none of the other values.
LEMMA ValueFacts ==
  /\ \A b \in Businesses : b \in Vals /\ b # Absent /\ b # Present /\ b # Gone
  /\ Absent \in Vals /\ Present \in Vals /\ Gone \in Vals
  /\ Absent # Present /\ Absent # Gone /\ Present # Gone
BY NamesAssumption DEF Vals, Absent, Present, Gone

\* Which relations a transfer adds, and which it removes.
Adds(h, m, hs, ms, b, append) == h \in hs /\ m \in ms /\ (append => db[<<h, m>>] # b)
Dels(h, m, hs, b, append) ==
    h \in hs /\ db[<<h, m>>] = b /\ (append => m \in Inner /\ BizOf[m] = b)

\* What a transfer has written that has written g after f.
Carried(g, f, hs, src, dst, ms, append) ==
    /\ \A h \in Hosts, m \in Modules :
          /\ <<h, m>> \in DOMAIN g <=>
                 Adds(h, m, hs, ms, dst, append) \/ Dels(h, m, hs, src, append)
          /\ Adds(h, m, hs, ms, dst, append) => g[<<h, m>>] = dst
          /\ ~Adds(h, m, hs, ms, dst, append) /\ Dels(h, m, hs, src, append)
                 => g[<<h, m>>] = Absent
    /\ \A h \in Hosts : (h \in DOMAIN g <=> h \in DOMAIN f) /\ (h \in DOMAIN f => g[h] = f[h])
    /\ \A m \in Modules : m \notin DOMAIN g

\* What the commands of a transfer write, after f.
LEMMA TransferFacts ==
  ASSUME NEW hs \in SUBSET Hosts, NEW src \in Businesses, NEW dst \in Businesses,
         NEW ms \in SUBSET Modules, NEW append \in BOOLEAN,
         NEW f \in Writes, DOMAIN f \subseteq Hosts,
         NEW q, q = Transfer(hs, src, dst, ms, append), NEW g, g = Then(q, f)
  PROVE  /\ q \in Seq(Writes) /\ Len(q) \in {2, 3} /\ g \in Writes
         /\ Carried(g, f, hs, src, dst, ms, append)
<1> DEFINE del == Removed(hs, src, append)
           add == Added(hs, ms, dst, append)
<1>1. del \in SUBSET Relations /\ add \in SUBSET Relations
  BY DEF Removed, Added, Relations
<1>2. \A h \in Hosts, m \in Modules :
          /\ <<h, m>> \in del <=> Dels(h, m, hs, src, append)
          /\ <<h, m>> \in add <=> Adds(h, m, hs, ms, dst, append)
  BY DEF Removed, Added, Dels, Adds
<1> HIDE DEF del, add
<1>3. del \in SUBSET Docs /\ add \in SUBSET Docs /\ dst \in Vals
  BY <1>1, ValueFacts DEF Docs
<1>4. q = Commands(del, add, dst)
  BY DEF Transfer, del, add
<1>5. /\ q \in Seq(Writes) /\ Len(q) \in {2, 3} /\ g \in Writes
      /\ DOMAIN g = DOMAIN f \cup del \cup add
      /\ \A k \in DOMAIN f \cup del \cup add :
            g[k] = IF k \in add THEN dst ELSE IF k \in del THEN Absent ELSE f[k]
  <2>1. Moved(Commands(del, add, dst), f, del, add, dst)
    BY <1>3, CommandsFacts
  <2> QED BY <2>1, <1>4 DEF Moved
<1>6. \A h \in Hosts, m \in Modules : <<h, m>> \notin DOMAIN f
  BY DocFacts
<1>7. \A h \in Hosts : h \notin del /\ h \notin add
  BY <1>1, DocFacts
<1>8. \A m \in Modules : m \notin DOMAIN f /\ m \notin del /\ m \notin add
  BY <1>1, DocFacts
<1>9. \A h \in Hosts, m \in Modules :
          /\ <<h, m>> \in DOMAIN g <=> <<h, m>> \in add \/ <<h, m>> \in del
          /\ <<h, m>> \in add => g[<<h, m>>] = dst
          /\ <<h, m>> \notin add /\ <<h, m>> \in del => g[<<h, m>>] = Absent
  BY <1>5, <1>6
<1>10. \A h \in Hosts :
          (h \in DOMAIN g <=> h \in DOMAIN f) /\ (h \in DOMAIN f => g[h] = f[h])
  BY <1>5, <1>7
<1>11. \A m \in Modules : m \notin DOMAIN g
  BY <1>5, <1>8
<1> QED BY <1>2, <1>5, <1>9, <1>10, <1>11 DEF Carried

\* What the database is where writes were made over it, and elsewhere.
LEMMA AtOver ==
  ASSUME NEW d \in [Docs -> Vals], NEW g \in Writes, NEW h \in Hosts
  PROVE  /\ \A m \in Modules : m \in At(Over(g, d), h) <=>
               IF <<h, m>> \in DOMAIN g THEN g[<<h, m>>] # Absent ELSE m \in At(d, h)
         /\ There(Over(g, d), h) <=>
               IF h \in DOMAIN g THEN g[h] \notin {Absent, Gone} ELSE There(d, h)
         /\ At(Over(g, d), h) \in SUBSET Modules
<1>1. \A k \in Docs : Over(g, d)[k] = IF k \in DOMAIN g THEN g[k] ELSE d[k]
  BY OverDb
<1>2. h \in Docs /\ \A m \in Modules : <<h, m>> \in Docs
  BY DocFacts
<1> DEFINE e == Over(g, d)
<1>3. \A k \in Docs : e[k] = IF k \in DOMAIN g THEN g[k] ELSE d[k]
  BY <1>1
<1> HIDE DEF e
<1>4. /\ \A m \in Modules : m \in At(e, h) <=>
            IF <<h, m>> \in DOMAIN g THEN g[<<h, m>>] # Absent ELSE m \in At(d, h)
      /\ There(e, h) <=> IF h \in DOMAIN g THEN g[h] \notin {Absent, Gone} ELSE There(d, h)
      /\ At(e, h) \in SUBSET Modules
  BY <1>2, <1>3 DEF At, There
<1> QED BY <1>4 DEF e

\* The writes g leave each host of request r there with a relation or gone without one.
Stands(r, d, g) == \A h \in r.hosts : There(Over(g, d), h) <=> At(Over(g, d), h) # {}
\* The commands q are right for request r, checked in the database d.
Planned(r, d, q, bl, odd) ==
    /\ q \in Seq(Writes) /\ Len(q) \in 1 .. 4 /\ Fits(r, d, Then(q, Nothing), bl, odd)
    /\ Stands(r, d, Then(q, Nothing))

\* They put all its hosts into the modules S and nowhere else.
Moves(r, d, q, bl, odd, S) ==
    /\ Planned(r, d, q, bl, odd)
    /\ \A h \in r.hosts : At(Over(Then(q, Nothing), d), h) = S

\* A transfer that is valid puts its hosts into its modules and nowhere else.
LEMMA TransferFits ==
  ASSUME StoreType, Sound(db, blind, skewed, strayed, emptied),
         NEW r \in Requests, r.kind # "append",
         NEW src \in Businesses, NEW dst \in Businesses, NEW ms \in SUBSET Modules,
         ValidHosts(r.hosts, src), ValidModules(ms, dst, FALSE)
  PROVE  Moves(r, db, Transfer(r.hosts, src, dst, ms, FALSE), blind, skewed \cup strayed, ms)
<1> DEFINE q == Transfer(r.hosts, src, dst, ms, FALSE)
           g == Then(q, Nothing)
<1>1. r.hosts \in SUBSET Hosts
  BY RequestsAssumption
<1>2. q \in Seq(Writes) /\ Len(q) \in {2, 3} /\ g \in Writes
      /\ Carried(g, Nothing, r.hosts, src, dst, ms, FALSE)
  BY <1>1, NothingFacts, TransferFacts
<1> HIDE DEF q, g
<1>3. /\ ms # {} /\ \A m \in ms : Exists(m) /\ BizOf[m] = dst
      /\ Cardinality(ms) # 1 => ms \cap Inner = {}
  BY DEF ValidModules
<1>4. \A h \in r.hosts : There(db, h) /\ \A m \in Modules : m \in At(db, h) => db[<<h, m>>] = src
  BY DEF ValidHosts, Exists, There, At, In, InBiz
<1>5. \A h \in Hosts, m \in Modules :
        /\ <<h, m>> \in DOMAIN g <=> h \in r.hosts /\ (m \in ms \/ db[<<h, m>>] = src)
        /\ h \in r.hosts /\ m \in ms => g[<<h, m>>] = dst
        /\ h \in r.hosts /\ m \notin ms /\ db[<<h, m>>] = src => g[<<h, m>>] = Absent
  BY <1>2 DEF Carried, Adds, Dels
<1>6. (\A h \in Hosts : h \notin DOMAIN g) /\ (\A m \in Modules : m \notin DOMAIN g)
  BY <1>2, NothingFacts DEF Carried
<1>7. db \in [Docs -> Vals] /\ dst # Absent /\ src # Absent
  BY ValueFacts DEF StoreType
<1>8. ASSUME NEW h \in r.hosts
      PROVE  At(Over(g, db), h) = ms /\ There(Over(g, db), h)
  <2>0. h \in Hosts
    BY <1>1
  <2>1. \A m \in Modules : m \in At(Over(g, db), h) <=>
               IF <<h, m>> \in DOMAIN g THEN g[<<h, m>>] # Absent ELSE m \in At(db, h)
    BY <1>2, <1>7, <2>0, AtOver
  <2>2. There(Over(g, db), h)
    BY <1>2, <1>4, <1>6, <1>7, <2>0, AtOver
  <2>3. At(Over(g, db), h) \in SUBSET Modules
    BY <1>2, <1>7, <2>0, AtOver
  <2>4. \A m \in Modules : m \in At(Over(g, db), h) <=> m \in ms
    <3> SUFFICES ASSUME NEW m \in Modules
                 PROVE  m \in At(Over(g, db), h) <=> m \in ms
      OBVIOUS
    <3>1. CASE m \in ms
      BY <3>1, <2>0, <2>1, <1>5, <1>7
    <3>2. CASE m \notin ms /\ db[<<h, m>>] = src
      BY <3>2, <2>0, <2>1, <1>5, <1>7
    <3>3. CASE m \notin ms /\ db[<<h, m>>] # src
      BY <3>3, <2>0, <2>1, <1>4, <1>5
    <3> QED BY <3>1, <3>2, <3>3
  <2> QED BY <2>2, <2>3, <2>4
<1>9. Legal(ms)
  BY <1>3 DEF Legal, ModulesOf
<1>10. WritesRelations(r, db, g)
  BY <1>1, <1>3, <1>4, <1>5, <1>7 DEF WritesRelations, There, Exists
<1>11. WritesHosts(r, g) /\ WritesModules(r, db, g)
  BY <1>6 DEF WritesHosts, WritesModules
<1>12. Takes(r, db, g, blind)
  <2> SUFFICES ASSUME NEW h \in r.hosts \ blind
               PROVE  /\ \A m \in At(db, h) : <<h, m>> \in DOMAIN g
                      /\ At(db, h) = {} => h \in DOMAIN g
                      /\ There(Over(g, db), h) <=> At(Over(g, db), h) # {}
    BY DEF Takes
  <2>1. \A m \in At(db, h) : <<h, m>> \in DOMAIN g
    BY <1>1, <1>4, <1>5 DEF At
  <2>2. At(db, h) # {}
    BY <1>1, <1>4 DEF Sound
  <2> QED BY <2>1, <2>2, <1>3, <1>8
<1>13. Settles(r, db, g, skewed \cup strayed)
  BY <1>8, <1>9 DEF Settles
<1>14. Fits(r, db, g, blind, skewed \cup strayed)
  BY <1>2, <1>10, <1>11, <1>12, <1>13 DEF Fits
<1>15. Planned(r, db, q, blind, skewed \cup strayed)
  <2>1. Stands(r, db, g)
    BY <1>3, <1>8 DEF Stands
  <2> QED BY <2>1, <1>2, <1>14 DEF Planned, g
<1>16. \A h \in r.hosts : At(Over(g, db), h) = ms
  BY <1>8
<1> QED BY <1>15, <1>16 DEF q, g, Moves

\* The commands q add the modules ms to those of the hosts and remove the inner ones.
Joins(hs, d, q, ms) == \A h \in hs :
    At(Over(Then(q, Nothing), d), h) = (At(d, h) \ Inner) \cup ms

\* A transfer that appends adds its modules to those of its hosts, and removes the inner ones.
LEMMA AppendFits ==
  ASSUME StoreType, Sound(db, blind, skewed, strayed, emptied),
         NEW r \in Requests, r.kind = "append",
         NEW b \in Businesses, NEW ms \in SUBSET Modules,
         ValidHosts(r.hosts, b), ValidModules(ms, b, TRUE)
  PROVE  /\ Planned(r, db, Transfer(r.hosts, b, b, ms, TRUE), blind, skewed \cup strayed)
         /\ Joins(r.hosts \ strayed, db, Transfer(r.hosts, b, b, ms, TRUE), ms)
<1> DEFINE q == Transfer(r.hosts, b, b, ms, TRUE)
           g == Then(q, Nothing)
<1>1. r.hosts \in SUBSET Hosts
  BY RequestsAssumption
<1>2. q \in Seq(Writes) /\ Len(q) \in {2, 3} /\ g \in Writes
      /\ Carried(g, Nothing, r.hosts, b, b, ms, TRUE)
  BY <1>1, NothingFacts, TransferFacts
<1> HIDE DEF q, g
<1>3. /\ ms # {} /\ \A m \in ms : Exists(m) /\ BizOf[m] = b
      /\ ms \cap Inner = {}
  BY DEF ValidModules
<1>4. \A h \in r.hosts : There(db, h) /\ \A m \in Modules : m \in At(db, h) => db[<<h, m>>] = b
  BY DEF ValidHosts, Exists, There, At, In, InBiz
<1>5. \A h \in Hosts, m \in Modules :
        /\ <<h, m>> \in DOMAIN g => h \in r.hosts
        /\ h \in r.hosts /\ m \in ms /\ db[<<h, m>>] # b
              => <<h, m>> \in DOMAIN g /\ g[<<h, m>>] = b
        /\ h \in r.hosts /\ db[<<h, m>>] = b /\ m \in Inner /\ BizOf[m] = b
              => <<h, m>> \in DOMAIN g /\ g[<<h, m>>] = Absent
        /\ h \in r.hosts /\ <<h, m>> \in DOMAIN g
              => (m \in ms /\ db[<<h, m>>] # b)
                 \/ (db[<<h, m>>] = b /\ m \in Inner /\ BizOf[m] = b)
  BY <1>2 DEF Carried, Adds, Dels
<1>6. (\A h \in Hosts : h \notin DOMAIN g) /\ (\A m \in Modules : m \notin DOMAIN g)
  BY <1>2, NothingFacts DEF Carried
<1>7. db \in [Docs -> Vals] /\ b # Absent
  BY ValueFacts DEF StoreType
<1>8. ASSUME NEW h \in r.hosts \ strayed
      PROVE  /\ At(Over(g, db), h) = (At(db, h) \ Inner) \cup ms
             /\ \A m \in At(db, h) : BizOf[m] = b
  <2>0. h \in Hosts /\ h \in r.hosts /\ h \notin strayed
    BY <1>1
  <2>1. \A m \in Modules : m \in At(Over(g, db), h) <=>
               IF <<h, m>> \in DOMAIN g THEN g[<<h, m>>] # Absent ELSE m \in At(db, h)
    BY <1>2, <1>7, <2>0, AtOver
  <2>2. At(Over(g, db), h) \in SUBSET Modules /\ At(db, h) \in SUBSET Modules
    BY <1>2, <1>7, <2>0, AtOver DEF At
  <2>3. \A m \in At(db, h) : BizOf[m] = b
    <3> SUFFICES ASSUME NEW m \in At(db, h)
                 PROVE  BizOf[m] = b
      OBVIOUS
    <3>1. m \in Modules /\ db[<<h, m>>] = b
      BY <2>0, <2>2, <1>4
    <3>2. db[<<h, m>>] \in {Absent, BizOf[m]}
      BY <2>0, <3>1 DEF Sound
    <3> QED BY <3>1, <3>2, <1>7
  <2>4. \A m \in Modules : m \in At(Over(g, db), h) <=> (m \in At(db, h) /\ m \notin Inner) \/ m \in ms
    <3> SUFFICES ASSUME NEW m \in Modules
                 PROVE  m \in At(Over(g, db), h)
                           <=> (m \in At(db, h) /\ m \notin Inner) \/ m \in ms
      OBVIOUS
    <3>1. m \in At(db, h) <=> db[<<h, m>>] = b
      BY <2>0, <1>4, <1>7 DEF At
    <3>2. CASE m \in ms /\ db[<<h, m>>] # b
      BY <3>2, <2>0, <2>1, <1>5, <1>7
    <3>3. CASE db[<<h, m>>] = b /\ m \in Inner
      <4>1. BizOf[m] = b /\ m \notin ms
        BY <3>1, <3>3, <2>3, <1>3
      <4>2. <<h, m>> \in DOMAIN g /\ g[<<h, m>>] = Absent
        BY <4>1, <3>3, <2>0, <1>5
      <4> QED BY <4>1, <4>2, <3>3, <2>1
    <3>4. CASE db[<<h, m>>] = b /\ m \notin Inner
      <4>1. <<h, m>> \notin DOMAIN g
        BY <3>4, <2>0, <1>5
      <4> QED BY <4>1, <3>1, <3>4, <2>1
    <3>5. CASE db[<<h, m>>] # b /\ m \notin ms
      <4>1. <<h, m>> \notin DOMAIN g
        BY <3>5, <2>0, <1>5
      <4> QED BY <4>1, <3>1, <3>5, <2>1
    <3> QED BY <3>2, <3>3, <3>4, <3>5
  <2>5. At(Over(g, db), h) = (At(db, h) \ Inner) \cup ms
    BY <2>2, <2>4
  <2> QED BY <2>3, <2>5
<1>10. WritesRelations(r, db, g)
  <2> SUFFICES ASSUME NEW h \in Hosts, NEW m \in Modules, <<h, m>> \in DOMAIN g
               PROVE  /\ h \in r.hosts
                      /\ g[<<h, m>>] # Absent => g[<<h, m>>] = BizOf[m] /\ There(db, m)
                      /\ g[<<h, m>>] # Absent /\ db[h] = Absent => h \in DOMAIN g
    BY DEF WritesRelations
  <2>1. h \in r.hosts /\ db[h] # Absent
    BY <1>4, <1>5 DEF There
  <2>2. CASE m \in ms /\ db[<<h, m>>] # b
    BY <2>1, <2>2, <1>3, <1>5 DEF There, Exists
  <2>3. CASE db[<<h, m>>] = b /\ m \in Inner /\ BizOf[m] = b
    BY <2>1, <2>3, <1>5
  <2> QED BY <2>1, <2>2, <2>3, <1>5
<1>11. WritesHosts(r, g) /\ WritesModules(r, db, g) /\ Takes(r, db, g, blind)
  BY <1>6 DEF WritesHosts, WritesModules, Takes
<1>13. Settles(r, db, g, skewed \cup strayed)
  <2> SUFFICES ASSUME NEW h \in r.hosts \ (skewed \cup strayed)
               PROVE  Legal(At(Over(g, db), h))
    BY DEF Settles
  <2>1. h \in r.hosts \ strayed
    OBVIOUS
  <2>2. /\ At(Over(g, db), h) = (At(db, h) \ Inner) \cup ms
        /\ \A m \in At(db, h) : BizOf[m] = b
    BY <2>1, <1>8
  <2> DEFINE S == At(Over(g, db), h)
  <2>3. S # {} /\ S \subseteq ModulesOf(b) /\ S \cap Inner = {}
    BY <2>2, <1>3 DEF At, ModulesOf
  <2> HIDE DEF S
  <2>4. Legal(S)
    BY <2>3 DEF Legal
  <2> QED BY <2>4 DEF S
<1>14. Fits(r, db, g, blind, skewed \cup strayed)
  BY <1>2, <1>10, <1>11, <1>13 DEF Fits
<1>17. ASSUME NEW h \in r.hosts
       PROVE  There(Over(g, db), h) /\ At(Over(g, db), h) # {}
  <2>0. h \in Hosts
    BY <1>1
  <2>1. There(Over(g, db), h)
    BY <1>2, <1>4, <1>6, <1>7, <2>0, AtOver
  <2>2. \A m \in Modules : m \in At(Over(g, db), h) <=>
               IF <<h, m>> \in DOMAIN g THEN g[<<h, m>>] # Absent ELSE m \in At(db, h)
    BY <1>2, <1>7, <2>0, AtOver
  <2>3. PICK m \in ms : m \in Modules /\ m \notin Inner
    BY <1>3
  <2>4. CASE db[<<h, m>>] # b
    BY <2>4, <2>0, <2>1, <2>2, <2>3, <1>5, <1>7
  <2>5. CASE db[<<h, m>>] = b
    <3>1. m \in At(db, h) /\ <<h, m>> \notin DOMAIN g
      BY <2>0, <2>3, <2>5, <1>5, <1>7 DEF At
    <3> QED BY <3>1, <2>2, <2>3, <2>1
  <2> QED BY <2>1, <2>4, <2>5
<1>15. Planned(r, db, q, blind, skewed \cup strayed)
  <2>1. Stands(r, db, g)
    BY <1>17 DEF Stands
  <2> QED BY <2>1, <1>2, <1>14 DEF Planned, g
<1>16. \A h \in r.hosts \ strayed : At(Over(g, db), h) = (At(db, h) \ Inner) \cup ms
  BY <1>8
<1> QED BY <1>15, <1>16 DEF q, g, Joins

\* The deletion of hosts takes their relations with them.
LEMMA DeleteFits ==
  ASSUME StoreType, NEW r \in Requests, NEW b \in Businesses, Delete(r.hosts, b).ok
  PROVE  Moves(r, db, Delete(r.hosts, b).todo, blind, skewed \cup strayed, {})
<1> DEFINE del == Removed(r.hosts, b, FALSE)
           x == Put(del, Absent)
           y == Put(r.hosts, Gone)
           q == << x, y, Audit >>
           f == Over(x, Nothing)
           g == Over(y, f)
<1>1. r.hosts \in SUBSET Hosts
  BY RequestsAssumption
<1>2. /\ \A h \in r.hosts : In(h) \subseteq InBiz(h, b)
      /\ Delete(r.hosts, b).todo = q
  BY DEF Delete
<1>3. del \in SUBSET Relations /\ \A h \in Hosts, m \in Modules :
          <<h, m>> \in del <=> h \in r.hosts /\ db[<<h, m>>] = b
  BY <1>1 DEF Removed, Relations
<1> HIDE DEF del
<1>4. x \in Writes /\ DOMAIN x = del /\ \A k \in del : x[k] = Absent
  <2>1. del \in SUBSET Docs
    BY <1>1, <1>3 DEF Docs
  <2> QED BY <2>1, PutFacts, ValueFacts
<1>5. y \in Writes /\ DOMAIN y = r.hosts /\ \A k \in r.hosts : y[k] = Gone
  <2>1. r.hosts \in SUBSET Docs
    BY <1>1 DEF Docs
  <2> QED BY <2>1, PutFacts, ValueFacts
<1> HIDE DEF x, y
<1>6. /\ f \in Writes /\ DOMAIN f = DOMAIN Nothing \cup DOMAIN x
      /\ \A k \in DOMAIN Nothing \cup DOMAIN x :
            f[k] = IF k \in DOMAIN x THEN x[k] ELSE Nothing[k]
  BY <1>4, NothingFacts, OverFacts
<1> HIDE DEF f
<1>7. /\ g \in Writes /\ DOMAIN g = DOMAIN f \cup DOMAIN y
      /\ \A k \in DOMAIN f \cup DOMAIN y : g[k] = IF k \in DOMAIN y THEN y[k] ELSE f[k]
  BY <1>5, <1>6, OverFacts
<1> HIDE DEF g
<1>8. /\ \A h \in Hosts, m \in Modules :
            /\ <<h, m>> \in DOMAIN g <=> h \in r.hosts /\ db[<<h, m>>] = b
            /\ <<h, m>> \in DOMAIN g => g[<<h, m>>] = Absent
      /\ \A h \in Hosts : /\ h \in DOMAIN g <=> h \in r.hosts
                          /\ h \in r.hosts => g[h] = Gone
      /\ \A m \in Modules : m \notin DOMAIN g
  <2>1. \A k \in del : k \notin r.hosts
    BY <1>1, <1>3, DocFacts
  <2>2. \A h \in Hosts, m \in Modules : <<h, m>> \notin r.hosts
    BY <1>1, DocFacts
  <2>3. \A h \in Hosts : h \notin del
    BY <1>3, DocFacts
  <2>4. \A m \in Modules : m \notin del /\ m \notin r.hosts
    BY <1>1, <1>3, DocFacts
  <2>5. DOMAIN f = del /\ \A k \in del : f[k] = Absent
    BY <1>4, <1>6, NothingFacts
  <2>6. DOMAIN g = del \cup r.hosts
    BY <2>5, <1>5, <1>7
  <2>7. \A k \in del : k \notin r.hosts => g[k] = Absent
    BY <2>5, <1>5, <1>7
  <2>8. \A k \in r.hosts : g[k] = Gone
    BY <1>5, <1>7
  <2> QED BY <2>1, <2>2, <2>3, <2>4, <2>6, <2>7, <2>8, <1>3
<1>9. Then(q, Nothing) = g
  <2>1. Over(Audit, g) = g
    BY <1>7, OverAudit
  <2>2. Then(q, Nothing) = Over(Audit, g)
    BY DEF Then, g, f
  <2> QED BY <2>1, <2>2
<1>10. q \in Seq(Writes) /\ Len(q) = 3
  BY <1>4, <1>5, NothingFacts
<1> HIDE DEF q
<1>11. db \in [Docs -> Vals] /\ b # Absent
  BY ValueFacts DEF StoreType
<1>12. \A h \in r.hosts, m \in Modules : m \in At(db, h) => db[<<h, m>>] = b
  BY <1>2 DEF At, In, InBiz
<1>13. ASSUME NEW h \in r.hosts
       PROVE  At(Over(g, db), h) = {} /\ ~There(Over(g, db), h)
  <2>0. h \in Hosts
    BY <1>1
  <2>1. \A m \in Modules : m \in At(Over(g, db), h) <=>
               IF <<h, m>> \in DOMAIN g THEN g[<<h, m>>] # Absent ELSE m \in At(db, h)
    BY <1>7, <1>11, <2>0, AtOver
  <2>2. ~There(Over(g, db), h)
    BY <1>7, <1>8, <1>11, <2>0, AtOver
  <2>3. At(Over(g, db), h) \in SUBSET Modules
    BY <1>7, <1>11, <2>0, AtOver
  <2>4. \A m \in Modules : m \notin At(Over(g, db), h)
    BY <2>0, <2>1, <1>8, <1>12
  <2> QED BY <2>2, <2>3, <2>4
<1>14. WritesRelations(r, db, g) /\ WritesHosts(r, g) /\ WritesModules(r, db, g)
  BY <1>1, <1>8 DEF WritesRelations, WritesHosts, WritesModules
<1>15. Takes(r, db, g, blind)
  <2> SUFFICES ASSUME NEW h \in r.hosts \ blind
               PROVE  /\ \A m \in At(db, h) : <<h, m>> \in DOMAIN g
                      /\ At(db, h) = {} => h \in DOMAIN g
                      /\ There(Over(g, db), h) <=> At(Over(g, db), h) # {}
    BY DEF Takes
  <2>1. \A m \in At(db, h) : <<h, m>> \in DOMAIN g
    BY <1>1, <1>8, <1>12 DEF At
  <2> QED BY <2>1, <1>1, <1>8, <1>13
<1>16. Settles(r, db, g, skewed \cup strayed)
  BY <1>13 DEF Settles
<1>17. Fits(r, db, g, blind, skewed \cup strayed)
  BY <1>7, <1>14, <1>15, <1>16 DEF Fits
<1>18. Stands(r, db, g)
  BY <1>13 DEF Stands
<1> QED BY <1>2, <1>9, <1>10, <1>13, <1>17, <1>18 DEF Planned, Moves

\* A new host is put into the idle module.
LEMMA CreateFits ==
  ASSUME StoreType, Sound(db, blind, skewed, strayed, emptied),
         NEW r \in Requests, r.kind # "append", NEW b \in Businesses, Create(r.hosts, b).ok
  PROVE  Moves(r, db, Create(r.hosts, b).todo, blind, skewed \cup strayed, {IdleOf[b]})
<1> DEFINE i == IdleOf[b]
           p == Transfer(r.hosts, b, b, {i}, FALSE)
           y == Put(r.hosts, Present)
           f == Over(y, Nothing)
           g == Then(p, f)
           q == << y >> \o p
<1>1. r.hosts \in SUBSET Hosts /\ i \in Inner /\ i \in Modules /\ BizOf[i] = b
  BY RequestsAssumption, ModulesAssumption
<1>2. (\A h \in r.hosts : db[h] = Absent) /\ Create(r.hosts, b).todo = q
  BY DEF Create
<1>3. y \in Writes /\ DOMAIN y = r.hosts /\ \A k \in r.hosts : y[k] = Present
  <2>1. r.hosts \in SUBSET Docs
    BY <1>1 DEF Docs
  <2> QED BY <2>1, PutFacts, ValueFacts
<1> HIDE DEF i, y
<1>4. f \in Writes /\ DOMAIN f = r.hosts /\ \A k \in r.hosts : f[k] = Present
  <2>1. /\ f \in Writes /\ DOMAIN f = DOMAIN Nothing \cup DOMAIN y
        /\ \A k \in DOMAIN Nothing \cup DOMAIN y :
              f[k] = IF k \in DOMAIN y THEN y[k] ELSE Nothing[k]
    BY <1>3, NothingFacts, OverFacts
  <2> HIDE DEF f
  <2> QED BY <2>1, <1>3, NothingFacts
<1> HIDE DEF f
<1>5. p \in Seq(Writes) /\ Len(p) \in {2, 3} /\ g \in Writes
      /\ Carried(g, f, r.hosts, b, b, {i}, FALSE)
  <2>1. {i} \in SUBSET Modules /\ DOMAIN f \subseteq Hosts /\ FALSE \in BOOLEAN
    BY <1>1, <1>4
  <2>2. r.hosts \in SUBSET Hosts /\ f \in Writes
    BY <1>1, <1>4
  <2> QED BY <2>1, <2>2, TransferFacts
<1> HIDE DEF p
<1>6. q \in Seq(Writes) /\ Len(q) \in 1 .. 4 /\ Then(q, Nothing) = g
  <2>1. Len(p) <= 3
    <3> DEFINE n == Len(p)
    <3>1. n \in {2, 3}
      BY <1>5
    <3> HIDE DEF n
    <3>2. n <= 3
      BY <3>1
    <3> QED BY <3>2 DEF n
  <2>2. q \in Seq(Writes) /\ Len(q) = Len(p) + 1 /\ Then(q, Nothing) = Then(p, Over(y, Nothing))
    BY <2>1, <1>3, <1>5, ConsFacts
  <2> HIDE DEF q
  <2>3. Len(q) \in {3, 4}
    <3> DEFINE n == Len(p)
               l == Len(q)
    <3>1. n \in {2, 3} /\ l = n + 1
      BY <2>2, <1>5
    <3> HIDE DEF n, l
    <3>2. l \in {3, 4}
      BY <3>1
    <3> QED BY <3>2 DEF l
  <2> QED BY <2>2, <2>3 DEF f
<1> HIDE DEF g, q
<1>7. \A h \in r.hosts : At(db, h) = {}
  BY <1>1, <1>2 DEF Sound
<1>8. db \in [Docs -> Vals] /\ b # Absent
  BY ValueFacts DEF StoreType
<1>9. \A h \in Hosts, m \in Modules :
        /\ <<h, m>> \in DOMAIN g <=> h \in r.hosts /\ m = i
        /\ h \in r.hosts /\ m = i => g[<<h, m>>] = b
  <2>1. \A h \in r.hosts, m \in Modules : db[<<h, m>>] # b
    BY <1>7, <1>8 DEF At
  <2> QED BY <2>1, <1>5 DEF Carried, Adds, Dels
<1>10. (\A h \in Hosts : (h \in DOMAIN g <=> h \in r.hosts) /\ (h \in r.hosts => g[h] = Present))
       /\ (\A m \in Modules : m \notin DOMAIN g)
  BY <1>4, <1>5 DEF Carried
<1>11. ASSUME NEW h \in r.hosts
       PROVE  At(Over(g, db), h) = {i} /\ There(Over(g, db), h)
  <2>0. h \in Hosts
    BY <1>1
  <2>1. \A m \in Modules : m \in At(Over(g, db), h) <=>
               IF <<h, m>> \in DOMAIN g THEN g[<<h, m>>] # Absent ELSE m \in At(db, h)
    BY <1>5, <1>8, <2>0, AtOver
  <2>2. There(Over(g, db), h)
    BY <1>5, <1>8, <1>10, <2>0, AtOver, ValueFacts
  <2>3. At(Over(g, db), h) \in SUBSET Modules
    BY <1>5, <1>8, <2>0, AtOver
  <2>4. \A m \in Modules : m \in At(Over(g, db), h) <=> m = i
    BY <2>0, <2>1, <1>7, <1>8, <1>9
  <2> QED BY <2>2, <2>3, <2>4, <1>1
<1>12. WritesRelations(r, db, g)
  <2>1. There(db, i)
    BY <1>1 DEF Sound
  <2> QED BY <2>1, <1>1, <1>9, <1>10 DEF WritesRelations
<1>13. WritesHosts(r, g) /\ WritesModules(r, db, g)
  BY <1>10 DEF WritesHosts, WritesModules
<1>14. Takes(r, db, g, blind)
  BY <1>1, <1>7, <1>10, <1>11 DEF Takes
<1>15. Settles(r, db, g, skewed \cup strayed)
  <2>1. Legal({i})
    <3>1. Cardinality({i}) = 1
      BY FS_Singleton
    <3>2. {i} \subseteq ModulesOf(b)
      BY <1>1 DEF ModulesOf
    <3> QED BY <3>1, <3>2 DEF Legal
  <2> QED BY <2>1, <1>11 DEF Settles
<1>16. Fits(r, db, g, blind, skewed \cup strayed)
  BY <1>5, <1>12, <1>13, <1>14, <1>15 DEF Fits
<1>17. Stands(r, db, g)
  BY <1>11 DEF Stands
<1> QED BY <1>2, <1>6, <1>11, <1>16, <1>17 DEF Planned, Moves, i

\* The deletion of a module writes only that.
LEMMA DeleteModuleFits ==
  ASSUME StoreType,  NEW r \in Requests, r.kind = "deletemodule",
         NEW m \in Modules, r.modules = {m}, DeleteModule(m).ok
  PROVE  Planned(r, db, DeleteModule(m).todo, blind, skewed \cup strayed)
<1> DEFINE y == Put({m}, Gone)
           q == << y, Audit >>
           g == Over(y, Nothing)
<1>1. /\ m \notin Inner /\ \A h \in Hosts : db[<<h, m>>] # BizOf[m]
      /\ DeleteModule(m).todo = q
  BY DEF DeleteModule
<1>2. y \in Writes /\ DOMAIN y = {m} /\ y[m] = Gone
  <2>1. {m} \in SUBSET Docs
    BY DEF Docs
  <2> QED BY <2>1, PutFacts, ValueFacts
<1> HIDE DEF y
<1>3. /\ g \in Writes /\ DOMAIN g = {m}
  <2>1. /\ g \in Writes /\ DOMAIN g = DOMAIN Nothing \cup DOMAIN y
    BY <1>2, NothingFacts, OverFacts
  <2> HIDE DEF g
  <2> QED BY <2>1, <1>2, NothingFacts
<1> HIDE DEF g
<1>4. Then(q, Nothing) = g /\ q \in Seq(Writes) /\ Len(q) = 2
  <2>1. Over(Audit, g) = g
    BY <1>3, OverAudit
  <2>2. Then(q, Nothing) = Over(Audit, g)
    BY DEF Then, g
  <2>3. q \in Seq(Writes) /\ Len(q) = 2
    BY <1>2, NothingFacts
  <2> QED BY <2>1, <2>2, <2>3
<1> HIDE DEF q
<1>5. r.hosts = {}
  BY RequestsAssumption
<1>6. /\ \A h \in Hosts : h \notin DOMAIN g
      /\ \A h \in Hosts, x \in Modules : <<h, x>> \notin DOMAIN g
  BY <1>3, DocFacts
<1>7. Fits(r, db, g, blind, skewed \cup strayed)
  BY <1>1, <1>3, <1>5, <1>6
  DEF Fits, WritesRelations, WritesHosts, WritesModules, Takes, Settles
<1>8. Stands(r, db, g)
  BY <1>5 DEF Stands
<1> QED BY <1>1, <1>4, <1>7, <1>8 DEF Planned

\* What a request makes of the modules of a host that has the modules S of the business of
\* the request: see Wanted.
Asked(r, ms, S) ==
    CASE r.kind \in {"normal", "across"} -> r.modules
      [] r.kind = "append" -> (S \ Inner) \cup r.modules
      [] r.kind \in {"inner", "create"} -> {IdleOf[r.biz]}
      [] r.kind = "remove" -> IF S \subseteq r.modules THEN {IdleOf[r.biz]} ELSE S \ r.modules
      [] r.kind = "auto" -> ms
      [] r.kind = "delete" -> {}
\* The commands q of request r do that to its hosts.
Does(r, ms, d, q, str) == \A h \in r.hosts \ str :
    At(Over(Then(q, Nothing), d), h) = Asked(r, ms, At(d, h))

\* A transfer to inner modules, to others, or to either.
LEMMA ToFits ==
  ASSUME StoreType, Sound(db, blind, skewed, strayed, emptied),
         NEW r \in Requests, r.kind # "append", NEW b \in Businesses, NEW ms \in SUBSET Modules
  PROVE  /\ ToNormal(r.hosts, b, ms, FALSE).ok =>
               Moves(r, db, ToNormal(r.hosts, b, ms, FALSE).todo, blind, skewed \cup strayed, ms)
         /\ \A m : ToInner(r.hosts, b, m).ok =>
               Moves(r, db, ToInner(r.hosts, b, m).todo, blind, skewed \cup strayed, {m})
         /\ To(r.hosts, b, ms).ok =>
               \E S : /\ Moves(r, db, To(r.hosts, b, ms).todo, blind, skewed \cup strayed, S)
                      /\ (ms \cap Inner = {} \/ \E m : ms = {m}) => S = ms
<1>1. ASSUME ToNormal(r.hosts, b, ms, FALSE).ok
      PROVE  Moves(r, db, ToNormal(r.hosts, b, ms, FALSE).todo, blind, skewed \cup strayed, ms)
  <2>1. ValidModules(ms, b, FALSE) /\ ValidHosts(r.hosts, b)
    BY <1>1 DEF ToNormal
  <2>2. ToNormal(r.hosts, b, ms, FALSE).todo = Transfer(r.hosts, b, b, ms, FALSE)
    BY DEF ToNormal
  <2> QED BY <2>1, <2>2, TransferFits
<1>2. ASSUME NEW m, ToInner(r.hosts, b, m).ok
      PROVE  Moves(r, db, ToInner(r.hosts, b, m).todo, blind, skewed \cup strayed, {m})
  <2>1. m \in Inner /\ ValidModules({m}, b, FALSE) /\ ValidHosts(r.hosts, b)
    BY <1>2 DEF ToInner
  <2>2. ToInner(r.hosts, b, m).todo = Transfer(r.hosts, b, b, {m}, FALSE)
    BY DEF ToInner
  <2>3. {m} \in SUBSET Modules
    BY <2>1, ModulesAssumption
  <2> QED BY <2>1, <2>2, <2>3, TransferFits
<1>3. ASSUME To(r.hosts, b, ms).ok
      PROVE  \E S : /\ Moves(r, db, To(r.hosts, b, ms).todo, blind, skewed \cup strayed, S)
                    /\ (ms \cap Inner = {} \/ \E m : ms = {m}) => S = ms
  <2>1. CASE ms \cap Inner # {}
    <3> DEFINE m == CHOOSE x \in ms : TRUE
    <3>1. To(r.hosts, b, ms) = ToInner(r.hosts, b, m)
      BY <2>1 DEF To
    <3>2. (\E x : ms = {x}) => ms = {m}
      BY <2>1
    <3> HIDE DEF m
    <3>3. Moves(r, db, To(r.hosts, b, ms).todo, blind, skewed \cup strayed, {m})
      BY <3>1, <1>2, <1>3
    <3> QED BY <2>1, <3>2, <3>3
  <2>2. CASE ms \cap Inner = {}
    <3>1. To(r.hosts, b, ms) = ToNormal(r.hosts, b, ms, FALSE)
      BY <2>2 DEF To
    <3> QED BY <3>1, <1>1, <1>3
  <2> QED BY <2>1, <2>2
<1> QED BY <1>1, <1>2, <1>3

\* A set of modules with one element.
LEMMA OneModule ==
  ASSUME NEW S \in SUBSET Modules, Cardinality(S) = 1, NEW m \in S
  PROVE  S = {m}
<1>1. IsFiniteSet(S)
  BY ModulesAssumption, FS_Subset
<1>2. \E x : S = {x}
  BY <1>1, FS_Singleton
<1> QED BY <1>2

\* The removal of the host of a request from its module.
LEMMA RemoveFits ==
  ASSUME StoreType, Sound(db, blind, skewed, strayed, emptied),
         NEW r \in Requests, r.kind # "append", NEW b \in Businesses,
         NEW h \in Hosts, r.hosts = {h}, NEW m \in Modules, RemoveFrom(h, b, m).ok
  PROVE  Moves(r, db, RemoveFrom(h, b, m).todo, blind, skewed \cup strayed,
               IF At(db, h) \subseteq {m} THEN {IdleOf[b]} ELSE At(db, h) \ {m})
<1> DEFINE rest == InBiz(h, b) \ {m}
           ms == IF rest = {} THEN {IdleOf[b]} ELSE rest
<1>1. ms \in SUBSET Modules
  BY ModulesAssumption DEF InBiz
<1>2. /\ To({h}, b, ms).ok /\ InBiz(h, b) \cap Inner = {}
      /\ RemoveFrom(h, b, m).todo = To({h}, b, ms).todo
  BY DEF RemoveFrom, To, ToInner, ToNormal
<1>3. ms \cap Inner = {} \/ \E x : ms = {x}
  BY <1>2
<1>4. At(db, h) = InBiz(h, b)
  <2>1. ValidHosts({h}, b)
    BY <1>2 DEF To, ToInner, ToNormal
  <2>2. b # Absent
    BY ValueFacts
  <2> QED BY <2>1, <2>2 DEF ValidHosts, At, In, InBiz
<1>5. ms = IF At(db, h) \subseteq {m} THEN {IdleOf[b]} ELSE At(db, h) \ {m}
  BY <1>4
<1> HIDE DEF ms
<1>6. Moves(r, db, To(r.hosts, b, ms).todo, blind, skewed \cup strayed, ms)
  <2>1. To(r.hosts, b, ms).ok
    BY <1>2
  <2>2. PICK S : /\ Moves(r, db, To(r.hosts, b, ms).todo, blind, skewed \cup strayed, S)
                 /\ (ms \cap Inner = {} \/ \E x : ms = {x}) => S = ms
    BY <2>1, <1>1, ToFits
  <2> QED BY <2>2, <1>3
<1> QED BY <1>2, <1>5, <1>6

\* Whatever is asked: what a check allows is right for the database it was checked in.
LEMMA CheckedFits ==
  ASSUME StoreType, Sound(db, blind, skewed, strayed, emptied),
         NEW r \in Requests, r.kind \notin {"import", "directory"}, NEW ms \in SUBSET Modules,
         Checked(r, ms).ok
  PROVE  /\ Planned(r, db, Checked(r, ms).todo, blind, skewed \cup strayed)
         /\ (ms \cap Inner = {} \/ \E m : ms = {m})
               => Does(r, ms, db, Checked(r, ms).todo, strayed)
<1> DEFINE c == Checked(r, ms)
           P(q) == Planned(r, db, q, blind, skewed \cup strayed)
           M(q, S) == Moves(r, db, q, blind, skewed \cup strayed, S)
           D(q) == Does(r, ms, db, q, strayed)
<1>r. /\ r.hosts \in SUBSET Hosts /\ r.modules \in SUBSET Modules /\ r.biz \in Businesses
      /\ r.kind \in {"remove", "import"} => \E h \in Hosts : r.hosts = {h}
      /\ r.kind \in {"remove", "across", "import", "deletemodule"} =>
            \E m \in Modules : r.modules = {m}
      /\ r.kind = "across" => r.src \in Businesses
      /\ r.kind = "deletemodule" => r.hosts = {}
  BY RequestsAssumption
<1>i. IdleOf[r.biz] \in Inner /\ IdleOf[r.biz] \in Modules
  BY <1>r, ModulesAssumption
<1>k. r.kind \in {"normal", "append", "inner", "remove", "auto", "across", "delete", "create",
                  "deletemodule"}
  BY RequestsAssumption
<1>d. ASSUME NEW q, NEW S, M(q, S), \A h \in r.hosts \ strayed : S = Asked(r, ms, At(db, h))
      PROVE  P(q) /\ D(q)
  BY <1>d DEF Moves, Does
<1>1. CASE r.kind = "normal"
  <2>1. c = ToNormal(r.hosts, r.biz, r.modules, FALSE)
    BY <1>1 DEF Checked
  <2>2. M(c.todo, r.modules)
    BY <2>1, <1>1, <1>r, ToFits
  <2>3. \A S : Asked(r, ms, S) = r.modules
    BY <1>1 DEF Asked
  <2> HIDE DEF c, P, M, D
  <2> QED BY <2>2, <2>3, <1>d DEF c, P, D
<1>2. CASE r.kind = "append"
  <2>1. c = ToNormal(r.hosts, r.biz, r.modules, TRUE)
    BY <1>2 DEF Checked
  <2>2. /\ ValidModules(r.modules, r.biz, TRUE) /\ ValidHosts(r.hosts, r.biz)
        /\ c.todo = Transfer(r.hosts, r.biz, r.biz, r.modules, TRUE)
    <3>1. /\ ToNormal(r.hosts, r.biz, r.modules, TRUE).ok
          /\ c.todo = ToNormal(r.hosts, r.biz, r.modules, TRUE).todo
      BY <2>1
    <3> HIDE DEF c
    <3> QED BY <3>1 DEF ToNormal
  <2>3. /\ P(Transfer(r.hosts, r.biz, r.biz, r.modules, TRUE))
        /\ Joins(r.hosts \ strayed, db, Transfer(r.hosts, r.biz, r.biz, r.modules, TRUE), r.modules)
    BY <2>2, <1>2, <1>r, AppendFits
  <2>4. \A S : Asked(r, ms, S) = (S \ Inner) \cup r.modules
    BY <1>2 DEF Asked
  <2>5. Does(r, ms, db, Transfer(r.hosts, r.biz, r.biz, r.modules, TRUE), strayed)
    BY <2>3, <2>4 DEF Does, Joins
  <2> QED BY <2>2, <2>3, <2>5
<1>3. CASE r.kind = "inner"
  <2>1. c = ToInner(r.hosts, r.biz, IdleOf[r.biz])
    BY <1>3 DEF Checked
  <2>2. M(c.todo, {IdleOf[r.biz]})
    <3>1. {} \in SUBSET Modules /\ r.kind # "append" /\ ToInner(r.hosts, r.biz, IdleOf[r.biz]).ok
      BY <2>1, <1>3
    <3>2. M(ToInner(r.hosts, r.biz, IdleOf[r.biz]).todo, {IdleOf[r.biz]})
      BY <3>1, <1>r, ToFits
    <3> QED BY <3>2, <2>1
  <2>3. \A S : Asked(r, ms, S) = {IdleOf[r.biz]}
    BY <1>3 DEF Asked
  <2> HIDE DEF c, P, M, D
  <2> QED BY <2>2, <2>3, <1>d DEF c, P, D
<1>4. CASE r.kind = "remove"
  <2>1. PICK h \in Hosts, m \in Modules : r.hosts = {h} /\ r.modules = {m}
    BY <1>4, <1>r
  <2>2. (CHOOSE x \in r.hosts : TRUE) = h /\ (CHOOSE x \in r.modules : TRUE) = m
    BY <2>1
  <2>3. c = RemoveFrom(h, r.biz, m)
    BY <2>2, <1>4 DEF Checked
  <2> DEFINE S == IF At(db, h) \subseteq {m} THEN {IdleOf[r.biz]} ELSE At(db, h) \ {m}
  <2>4. M(c.todo, S)
    <3>1. RemoveFrom(h, r.biz, m).ok /\ r.kind # "append"
      BY <2>3, <1>4
    <3>2. M(RemoveFrom(h, r.biz, m).todo, S)
      BY <3>1, <2>1, <1>r, RemoveFits
    <3> QED BY <3>2, <2>3
  <2>5. \A x \in r.hosts \ strayed : S = Asked(r, ms, At(db, x))
    BY <2>1, <1>4 DEF Asked
  <2> HIDE DEF c, P, M, D, S
  <2> QED BY <2>4, <2>5, <1>d DEF c, P, D
<1>5. CASE r.kind = "auto"
  <2>1. c = To(r.hosts, r.biz, ms)
    BY <1>5 DEF Checked
  <2>2. \E S : M(c.todo, S) /\ ((ms \cap Inner = {} \/ \E m : ms = {m}) => S = ms)
    <3>1. To(r.hosts, r.biz, ms).ok /\ r.kind # "append"
      BY <2>1, <1>5
    <3>2. \E S : /\ M(To(r.hosts, r.biz, ms).todo, S)
                 /\ (ms \cap Inner = {} \/ \E m : ms = {m}) => S = ms
      BY <3>1, <1>r, ToFits
    <3> QED BY <3>2, <2>1
  <2>3. \A S : Asked(r, ms, S) = ms
    BY <1>5 DEF Asked
  <2>4. PICK S : M(c.todo, S) /\ ((ms \cap Inner = {} \/ \E m : ms = {m}) => S = ms)
    BY <2>2
  <2>5. P(c.todo)
    BY <2>4 DEF Moves
  <2> HIDE DEF c, P, M, D
  <2> QED BY <2>3, <2>4, <2>5, <1>d DEF c, P, D
<1>6. CASE r.kind = "across"
  <2>1. PICK m \in Modules : r.modules = {m}
    BY <1>6, <1>r
  <2>2. (CHOOSE x \in r.modules : TRUE) = m
    BY <2>1
  <2>3. c = Across(r.hosts, r.src, r.biz, m)
    BY <2>2, <1>6 DEF Checked
  <2>4. /\ ValidModules({m}, r.biz, FALSE) /\ ValidHosts(r.hosts, r.src)
        /\ c.todo = Transfer(r.hosts, r.src, r.biz, {m}, FALSE)
    <3>1. /\ Across(r.hosts, r.src, r.biz, m).ok
          /\ c.todo = Across(r.hosts, r.src, r.biz, m).todo
      BY <2>3
    <3> HIDE DEF c
    <3> QED BY <3>1 DEF Across
  <2>5. M(Transfer(r.hosts, r.src, r.biz, {m}, FALSE), {m})
    <3>1. {m} \in SUBSET Modules /\ r.src \in Businesses /\ r.kind # "append"
      BY <1>6, <1>r
    <3> QED BY <3>1, <2>4, <1>r, TransferFits
  <2>6. \A S : Asked(r, ms, S) = {m}
    BY <2>1, <1>6 DEF Asked
  <2>7. M(c.todo, {m})
    BY <2>4, <2>5
  <2> HIDE DEF c, P, M, D
  <2> QED BY <2>6, <2>7, <1>d DEF c, P, D
<1>7. CASE r.kind = "delete"
  <2>1. c = Delete(r.hosts, r.biz)
    BY <1>7 DEF Checked
  <2>2. M(c.todo, {})
    BY <2>1, <1>r, DeleteFits
  <2>3. \A S : Asked(r, ms, S) = {}
    BY <1>7 DEF Asked
  <2> HIDE DEF c, P, M, D
  <2> QED BY <2>2, <2>3, <1>d DEF c, P, D
<1>8. CASE r.kind = "create"
  <2>1. c = Create(r.hosts, r.biz)
    BY <1>8 DEF Checked
  <2>2. M(c.todo, {IdleOf[r.biz]})
    BY <2>1, <1>8, <1>r, CreateFits
  <2>3. \A S : Asked(r, ms, S) = {IdleOf[r.biz]}
    BY <1>8 DEF Asked
  <2> HIDE DEF c, P, M, D
  <2> QED BY <2>2, <2>3, <1>d DEF c, P, D
<1>9. CASE r.kind = "deletemodule"
  <2>1. PICK m \in Modules : r.modules = {m}
    BY <1>9, <1>r
  <2>2. (CHOOSE x \in r.modules : TRUE) = m
    BY <2>1
  <2>3. c = DeleteModule(m)
    BY <2>2, <1>9 DEF Checked
  <2>4. P(c.todo)
    BY <2>1, <2>3, <1>9, DeleteModuleFits
  <2>5. D(c.todo)
    BY <1>9, <1>r DEF Does
  <2> QED BY <2>4, <2>5
<1> QED BY <1>k, <1>1, <1>2, <1>3, <1>4, <1>5, <1>6, <1>7, <1>8, <1>9

-----------------------------------------------------------------------------
(* Snapshots.                                                              *)

\* What g is to the database D now, where nothing was committed since it was planned.
LandsRelations(D, st, r, g) == \A h \in Hosts, m \in Modules : <<h, m>> \in DOMAIN g =>
    /\ h \in r.hosts
    /\ g[<<h, m>>] # Absent =>
          g[<<h, m>>] = BizOf[m] /\ (m \notin st => There(D, m))
    /\ g[<<h, m>>] # Absent /\ h \notin st /\ D[h] = Absent => h \in DOMAIN g
LandsModules(D, st, r, g) == \A m \in Modules \cap DOMAIN g :
    /\ r.kind = "deletemodule" /\ m \in r.modules /\ m \notin Inner
    /\ \A h \in Hosts : <<h, m>> \notin st => D[<<h, m>>] # BizOf[m]
LandsHosts(D, st, r, g, bl) == r.kind # "append" => \A h \in r.hosts \ bl :
    st \cap HostKeys(h) = {} =>
        /\ \A m \in At(D, h) : <<h, m>> \in DOMAIN g
        /\ At(D, h) = {} => h \in DOMAIN g
        /\ There(Over(g, D), h) <=> At(Over(g, D), h) # {}
LandsLegal(D, st, r, g, odd) == \A h \in r.hosts \ odd :
    (\A m \in Modules : <<h, m>> \notin st) =>
        At(Over(g, D), h) = {} \/ Legal(At(Over(g, D), h))
Lands(D, st, r, g, bl, odd) ==
    /\ g \in Writes /\ WritesHosts(r, g)
    /\ LandsRelations(D, st, r, g) /\ LandsModules(D, st, r, g)
    /\ LandsHosts(D, st, r, g, bl) /\ LandsLegal(D, st, r, g, odd)

\* The documents of a host.
LEMMA HostKeysFacts ==
  ASSUME NEW h \in Hosts
  PROVE  /\ h \in HostKeys(h) /\ \A m \in Modules : <<h, m>> \in HostKeys(h)
         /\ \A k \in HostKeys(h) : k = h \/ \E m \in Modules : k = <<h, m>>
BY DocFacts DEF HostKeys

\* Two databases that agree on the relations of a host have it in the same modules.
LEMMA SameAt ==
  ASSUME NEW d, NEW e, NEW h, \A m \in Modules : d[<<h, m>>] = e[<<h, m>>]
  PROVE  At(d, h) = At(e, h)
BY DEF At

\* What was right for the snapshot is right now for what nobody touched.
LEMMA SnapshotLands ==
  ASSUME NEW D \in [Docs -> Vals], NEW st \in SUBSET Docs, NEW r \in Requests, NEW g,
         NEW bl, NEW odd, Snapshot(D, st, r, g, bl, odd)
  PROVE  Lands(D, st, r, g, bl, odd)
<1>1. PICK d \in [Docs -> Vals] :
          (\A k \in Docs \ st : d[k] = D[k]) /\ Fits(r, d, g, bl, odd)
  BY DEF Snapshot
<1>2. /\ g \in Writes /\ WritesRelations(r, d, g) /\ WritesHosts(r, g)
      /\ WritesModules(r, d, g) /\ Takes(r, d, g, bl) /\ Settles(r, d, g, odd)
  BY <1>1 DEF Fits
<1>r. r.hosts \in SUBSET Hosts
  BY RequestsAssumption
<1>3. LandsRelations(D, st, r, g)
  <2> SUFFICES ASSUME NEW h \in Hosts, NEW m \in Modules, <<h, m>> \in DOMAIN g
               PROVE  /\ h \in r.hosts
                      /\ g[<<h, m>>] # Absent =>
                            g[<<h, m>>] = BizOf[m] /\ (m \notin st => There(D, m))
                      /\ g[<<h, m>>] # Absent /\ h \notin st /\ D[h] = Absent => h \in DOMAIN g
    BY DEF LandsRelations
  <2>1. h \in Docs /\ m \in Docs
    BY DocFacts
  <2>2. (m \notin st => d[m] = D[m]) /\ (h \notin st => d[h] = D[h])
    BY <1>1, <2>1
  <2> QED BY <2>2, <1>2 DEF WritesRelations, There
<1>4. LandsModules(D, st, r, g)
  <2> SUFFICES ASSUME NEW m \in Modules \cap DOMAIN g
               PROVE  /\ r.kind = "deletemodule" /\ m \in r.modules /\ m \notin Inner
                      /\ \A h \in Hosts : <<h, m>> \notin st => D[<<h, m>>] # BizOf[m]
    BY DEF LandsModules
  <2>1. \A h \in Hosts : <<h, m>> \notin st => d[<<h, m>>] = D[<<h, m>>]
    BY <1>1, DocFacts
  <2> QED BY <2>1, <1>2 DEF WritesModules
<1>5. ASSUME NEW h \in Hosts, \A m \in Modules : <<h, m>> \notin st
      PROVE  At(d, h) = At(D, h) /\ At(Over(g, d), h) = At(Over(g, D), h)
  <2>1. \A m \in Modules : <<h, m>> \in Docs /\ d[<<h, m>>] = D[<<h, m>>]
    BY <1>1, <1>5, DocFacts
  <2>2. \A m \in Modules : Over(g, d)[<<h, m>>] = Over(g, D)[<<h, m>>]
    <3>1. \A k \in Docs : Over(g, d)[k] = IF k \in DOMAIN g THEN g[k] ELSE d[k]
      BY <1>2, OverDb
    <3>2. \A k \in Docs : Over(g, D)[k] = IF k \in DOMAIN g THEN g[k] ELSE D[k]
      BY <1>2, OverDb
    <3> QED BY <2>1, <3>1, <3>2
  <2> QED BY <2>1, <2>2, SameAt
<1>6. LandsHosts(D, st, r, g, bl)
  <2> SUFFICES ASSUME r.kind # "append", NEW h \in r.hosts \ bl, st \cap HostKeys(h) = {}
               PROVE  /\ \A m \in At(D, h) : <<h, m>> \in DOMAIN g
                      /\ At(D, h) = {} => h \in DOMAIN g
                      /\ There(Over(g, D), h) <=> At(Over(g, D), h) # {}
    BY DEF LandsHosts
  <2>1. h \in Hosts /\ h \in Docs
    BY <1>r, DocFacts
  <2>2. h \notin st /\ \A m \in Modules : <<h, m>> \notin st
    BY <2>1, HostKeysFacts
  <2>3. At(d, h) = At(D, h) /\ At(Over(g, d), h) = At(Over(g, D), h)
    BY <2>1, <2>2, <1>5
  <2>4. There(Over(g, d), h) <=> There(Over(g, D), h)
    <3>1. Over(g, d)[h] = IF h \in DOMAIN g THEN g[h] ELSE d[h]
      BY <1>2, <2>1, OverDb
    <3>2. Over(g, D)[h] = IF h \in DOMAIN g THEN g[h] ELSE D[h]
      BY <1>2, <2>1, OverDb
    <3>3. d[h] = D[h]
      BY <1>1, <2>1, <2>2
    <3> QED BY <3>1, <3>2, <3>3 DEF There
  <2> QED BY <2>3, <2>4, <1>2 DEF Takes
<1>7. LandsLegal(D, st, r, g, odd)
  <2> SUFFICES ASSUME NEW h \in r.hosts \ odd, \A m \in Modules : <<h, m>> \notin st
               PROVE  At(Over(g, D), h) = {} \/ Legal(At(Over(g, D), h))
    BY DEF LandsLegal
  <2>1. At(Over(g, d), h) = At(Over(g, D), h)
    BY <1>r, <1>5
  <2> QED BY <2>1, <1>2 DEF Settles
<1> QED BY <1>2, <1>3, <1>4, <1>6, <1>7 DEF Lands

\* A snapshot stays one when others commit, and when more hosts are excepted.
LEMMA SnapshotPublish ==
  ASSUME NEW D \in [Docs -> Vals], NEW st \in SUBSET Docs, NEW r \in Requests, NEW g,
         NEW bl, NEW odd, Snapshot(D, st, r, g, bl, odd),
         NEW bl2, bl \subseteq bl2, NEW odd2, odd \subseteq odd2, NEW w \in Writes
  PROVE  /\ Snapshot(D, st, r, g, bl2, odd2)
         /\ Snapshot(Over(w, D), st \cup DOMAIN w, r, g, bl2, odd2)
<1>1. PICK d \in [Docs -> Vals] :
          (\A k \in Docs \ st : d[k] = D[k]) /\ Fits(r, d, g, bl, odd)
  BY DEF Snapshot
<1>2. Fits(r, d, g, bl2, odd2)
  BY <1>1 DEF Fits, Takes, Settles
<1>3. Snapshot(D, st, r, g, bl2, odd2)
  BY <1>1, <1>2 DEF Snapshot
<1>4. \A k \in Docs : Over(w, D)[k] = IF k \in DOMAIN w THEN w[k] ELSE D[k]
  BY OverDb
<1>5. \A k \in Docs \ (st \cup DOMAIN w) : d[k] = Over(w, D)[k]
  BY <1>1, <1>4
<1>6. Snapshot(Over(w, D), st \cup DOMAIN w, r, g, bl2, odd2)
  BY <1>1, <1>2, <1>5 DEF Snapshot
<1> QED BY <1>3, <1>6

\* w writes one of the relations of a host, or the host if it has none.
Grabs(D, w, h) ==
    (\E m \in At(D, h) : <<h, m>> \in DOMAIN w) \/ (At(D, h) = {} /\ h \in DOMAIN w)

\* What touches a host first that a transaction is to move touches what that is to write.
LEMMA CollidesPublish ==
  ASSUME NEW D, NEW st, NEW r \in Requests, NEW g, NEW bl, NEW odd,
         Lands(D, st, r, g, bl, odd), Collides(st, r, g, bl),
         NEW bl2, bl \subseteq bl2, NEW w,
         \A h \in Hosts \ bl2 : DOMAIN w \cap HostKeys(h) # {} => Grabs(D, w, h)
  PROVE  Collides(st \cup DOMAIN w, r, g, bl2)
<1> SUFFICES ASSUME r.kind # "append", NEW h \in r.hosts \ bl2,
                    (st \cup DOMAIN w) \cap HostKeys(h) # {}
             PROVE  (st \cup DOMAIN w) \cap DOMAIN g # {}
  BY DEF Collides
<1>1. h \in Hosts /\ h \in r.hosts \ bl
  BY RequestsAssumption
<1>2. CASE st \cap HostKeys(h) # {}
  BY <1>1, <1>2 DEF Collides
<1>3. CASE st \cap HostKeys(h) = {}
  <2>1. Grabs(D, w, h)
    BY <1>1, <1>3
  <2>2. /\ \A m \in At(D, h) : <<h, m>> \in DOMAIN g
        /\ At(D, h) = {} => h \in DOMAIN g
    BY <1>1, <1>3 DEF Lands, LandsHosts
  <2> QED BY <2>1, <2>2 DEF Grabs
<1> QED BY <1>2, <1>3

\* What is sound stays so when more hosts and modules are excepted.
LEMMA SoundGrows ==
  ASSUME NEW D, NEW bl, NEW sk, NEW str, NEW em, Sound(D, bl, sk, str, em),
         NEW bl2, NEW sk2, NEW str2, NEW em2,
         bl \subseteq bl2, sk \subseteq sk2, str \subseteq str2, em \subseteq em2
  PROVE  Sound(D, bl2, sk2, str2, em2)
BY DEF Sound

\* What a commit must know: nothing it writes is stale, and what it does not know is told.
Told(st, r, g, bl, sk, em, bl2, sk2, em2) ==
    /\ st \cap DOMAIN g = {}
    /\ bl \subseteq bl2 /\ (r.kind = "append" => r.hosts \subseteq bl2)
    /\ sk2 = sk \cup {h \in r.hosts : \E m \in Modules : <<h, m>> \in st}
    /\ em \subseteq em2
    /\ \A m \in Modules \ em2 :
          /\ r.kind = "deletemodule" /\ m \in r.modules => \A h \in Hosts : <<h, m>> \notin st
          /\ r.kind # "deletemodule" /\ m \in st =>
                \A h \in Hosts : <<h, m>> \in DOMAIN g => g[<<h, m>>] = Absent

\* The writes g leave the database sound, and touch what is not excepted with its relations.
Committed(D, g, bl, sk, str, em) ==
    /\ Sound(Over(g, D), bl, sk, str, em) /\ sk \subseteq bl
    /\ \A h \in Hosts \ bl : DOMAIN g \cap HostKeys(h) # {} => Grabs(D, g, h)

\* The commit of a sound plan leaves the database sound, and only appends are excepted.
LEMMA CommitSound ==
  ASSUME NEW D \in [Docs -> Vals], NEW st \in SUBSET Docs, NEW r \in Requests, NEW g,
         NEW bl, NEW sk, NEW str, NEW em, NEW bl2, NEW sk2, NEW em2,
         Sound(D, bl, sk, str, em), sk \subseteq bl,
         Lands(D, st, r, g, bl, sk \cup str), Collides(st, r, g, bl),
         \A h \in Hosts \cap st : D[h] # Absent,
         Told(st, r, g, bl, sk, em, bl2, sk2, em2)
  PROVE  Committed(D, g, bl2, sk2, str, em2)
<1>r. r.hosts \in SUBSET Hosts /\ (r.kind = "deletemodule" => r.hosts = {})
  BY RequestsAssumption
<1>1. /\ g \in Writes /\ WritesHosts(r, g)
      /\ LandsRelations(D, st, r, g) /\ LandsModules(D, st, r, g)
      /\ LandsHosts(D, st, r, g, bl) /\ LandsLegal(D, st, r, g, sk \cup str)
  BY DEF Lands
<1>2. /\ st \cap DOMAIN g = {}
      /\ bl \subseteq bl2 /\ (r.kind = "append" => r.hosts \subseteq bl2)
      /\ sk2 = sk \cup {h \in r.hosts : \E m \in Modules : <<h, m>> \in st}
      /\ em \subseteq em2
      /\ \A m \in Modules \ em2 :
            /\ r.kind = "deletemodule" /\ m \in r.modules => \A h \in Hosts : <<h, m>> \notin st
            /\ r.kind # "deletemodule" /\ m \in st =>
                  \A h \in Hosts : <<h, m>> \in DOMAIN g => g[<<h, m>>] = Absent
  BY DEF Told
<1> DEFINE E == Over(g, D)
<1>3. \A k \in Docs : E[k] = IF k \in DOMAIN g THEN g[k] ELSE D[k]
  BY <1>1, OverDb
<1>4. /\ \A h \in Hosts : h \in Docs /\ \A m \in Modules : <<h, m>> \in Docs
      /\ \A m \in Modules : m \in Docs
  BY DocFacts
<1>5. ASSUME NEW h \in Hosts, h \notin r.hosts
      PROVE  /\ h \notin DOMAIN g /\ \A m \in Modules : <<h, m>> \notin DOMAIN g
             /\ At(E, h) = At(D, h) /\ (There(E, h) <=> There(D, h))
  <2>1. h \notin DOMAIN g /\ \A m \in Modules : <<h, m>> \notin DOMAIN g
    BY <1>1, <1>5 DEF WritesHosts, LandsRelations
  <2>2. E[h] = D[h] /\ \A m \in Modules : E[<<h, m>>] = D[<<h, m>>]
    BY <2>1, <1>3, <1>4
  <2> HIDE DEF E
  <2> QED BY <2>1, <2>2, SameAt DEF There
<1>6. ASSUME r.kind # "append", NEW h \in r.hosts \ bl
      PROVE  st \cap HostKeys(h) = {}
  BY <1>2, <1>6 DEF Collides
<1> HIDE DEF E
<1>7. sk2 \subseteq bl2
  <2> SUFFICES ASSUME NEW h \in r.hosts, NEW m \in Modules, <<h, m>> \in st, h \notin bl2
               PROVE  FALSE
    BY <1>2
  <2>1. h \in Hosts /\ r.kind # "append" /\ h \notin bl
    BY <1>2, <1>r
  <2>2. <<h, m>> \in HostKeys(h)
    BY <2>1, HostKeysFacts
  <2> QED BY <2>1, <2>2, <1>6
<1>8. ASSUME NEW h \in Hosts \ bl2
      PROVE  There(E, h) <=> At(E, h) # {}
  <2>1. CASE h \notin r.hosts
    BY <2>1, <1>2, <1>5 DEF Sound
  <2>2. CASE h \in r.hosts
    <3>1. r.kind # "append" /\ h \notin bl
      BY <2>2, <1>2
    <3>2. st \cap HostKeys(h) = {}
      BY <2>2, <3>1, <1>6
    <3> QED BY <2>2, <3>1, <3>2, <1>1 DEF LandsHosts, E
  <2> QED BY <2>1, <2>2
<1>9. ASSUME NEW h \in Hosts, NEW m \in Modules
      PROVE  E[<<h, m>>] \in {Absent, BizOf[m]} \/ (h \in str /\ m \in Inner)
  <2>1. CASE <<h, m>> \in DOMAIN g
    BY <2>1, <1>1, <1>3, <1>4 DEF LandsRelations
  <2>2. CASE <<h, m>> \notin DOMAIN g
    BY <2>2, <1>3, <1>4 DEF Sound
  <2> QED BY <2>1, <2>2
<1>10. ASSUME NEW h \in Hosts \ (sk2 \cup str)
       PROVE  At(E, h) = {} \/ Legal(At(E, h))
  <2>1. CASE h \notin r.hosts
    BY <2>1, <1>2, <1>5 DEF Sound
  <2>2. CASE h \in r.hosts
    <3>1. h \notin sk \cup str /\ \A m \in Modules : <<h, m>> \notin st
      BY <2>2, <1>2
    <3> QED BY <2>2, <3>1, <1>1 DEF LandsLegal, E
  <2> QED BY <2>1, <2>2
<1>11. ASSUME NEW h \in Hosts, NEW m \in At(E, h) \ em2
       PROVE  There(E, m)
  <2>1. m \in Modules /\ m \in Docs /\ E[<<h, m>>] # Absent /\ m \notin em
    BY <1>2, <1>4 DEF At
  <2>2. CASE <<h, m>> \in DOMAIN g
    <3>1. h \in r.hosts /\ g[<<h, m>>] # Absent
      BY <2>1, <2>2, <1>1, <1>3, <1>4 DEF LandsRelations
    <3>2. r.kind # "deletemodule"
      BY <3>1, <1>r
    <3>3. m \notin st
      BY <2>1, <2>2, <3>1, <3>2, <1>2
    <3>4. There(D, m)
      BY <2>1, <2>2, <3>1, <3>3, <1>1 DEF LandsRelations
    <3>5. m \notin DOMAIN g
      BY <2>1, <3>2, <1>1 DEF LandsModules
    <3> QED BY <2>1, <3>4, <3>5, <1>3 DEF There
  <2>3. CASE <<h, m>> \notin DOMAIN g
    <3>1. D[<<h, m>>] # Absent /\ m \in At(D, h)
      BY <2>1, <2>3, <1>3, <1>4 DEF At
    <3>2. There(D, m)
      BY <2>1, <3>1 DEF Sound
    <3>3. m \notin DOMAIN g
      <4> SUFFICES ASSUME m \in DOMAIN g
                   PROVE  FALSE
        OBVIOUS
      <4>1. /\ r.kind = "deletemodule" /\ m \in r.modules /\ m \notin Inner
            /\ \A x \in Hosts : <<x, m>> \notin st => D[<<x, m>>] # BizOf[m]
        BY <2>1, <1>1 DEF LandsModules
      <4>2. D[<<h, m>>] # BizOf[m]
        BY <2>1, <4>1, <1>2
      <4>3. D[<<h, m>>] \in {Absent, BizOf[m]} \/ m \in Inner
        BY <2>1 DEF Sound
      <4> QED BY <3>1, <4>1, <4>2, <4>3
    <3> QED BY <2>1, <3>2, <3>3, <1>3 DEF There
  <2> QED BY <2>2, <2>3
<1>12. ASSUME NEW h \in Hosts, E[h] = Absent
       PROVE  At(E, h) = {}
  <2>1. h \notin DOMAIN g /\ D[h] = Absent
    <3>1. h \in DOMAIN g => g[h] \in {Present, Gone}
      BY <1>1 DEF WritesHosts
    <3> QED BY <3>1, <1>3, <1>4, <1>12, ValueFacts
  <2>2. h \notin st /\ At(D, h) = {}
    BY <2>1 DEF Sound
  <2> SUFFICES ASSUME NEW m \in Modules, E[<<h, m>>] # Absent
               PROVE  FALSE
    BY DEF At
  <2>3. D[<<h, m>>] = Absent
    BY <2>2 DEF At
  <2>4. <<h, m>> \in DOMAIN g /\ g[<<h, m>>] # Absent
    BY <2>3, <1>3, <1>4
  <2> QED BY <2>1, <2>2, <2>4, <1>1 DEF LandsRelations
<1>13. ASSUME NEW m \in Inner
       PROVE  There(E, m)
  <2>1. m \in Modules /\ m \in Docs /\ There(D, m)
    BY <1>4, ModulesAssumption DEF Sound
  <2>2. m \notin DOMAIN g
    BY <2>1, <1>1 DEF LandsModules
  <2> QED BY <2>1, <2>2, <1>3 DEF There
<1>14. Sound(E, bl2, sk2, str, em2)
  BY <1>8, <1>9, <1>10, <1>11, <1>12, <1>13 DEF Sound
<1>15. ASSUME NEW h \in Hosts \ bl2, DOMAIN g \cap HostKeys(h) # {}
       PROVE  Grabs(D, g, h)
  <2>1. h \in r.hosts
    <3>1. PICK k \in HostKeys(h) : k \in DOMAIN g
      BY <1>15
    <3>2. k = h \/ \E m \in Modules : k = <<h, m>>
      BY HostKeysFacts
    <3> QED BY <3>1, <3>2, <1>5
  <2>2. r.kind # "append" /\ h \notin bl
    BY <2>1, <1>2
  <2>3. /\ \A m \in At(D, h) : <<h, m>> \in DOMAIN g
        /\ At(D, h) = {} => h \in DOMAIN g
    BY <2>1, <2>2, <1>1, <1>6 DEF LandsHosts
  <2> QED BY <2>3 DEF Grabs
<1> QED BY <1>7, <1>14, <1>15 DEF E, Committed

\* A write to one host leaves the others and the modules as they are.
LEMMA OneHost ==
  ASSUME NEW D \in [Docs -> Vals], NEW h \in Hosts, NEW w \in Writes,
         DOMAIN w \subseteq HostKeys(h)
  PROVE  /\ \A x \in Hosts : x # h =>
               /\ At(Over(w, D), x) = At(D, x) /\ (There(Over(w, D), x) <=> There(D, x))
               /\ Over(w, D)[x] = D[x] /\ DOMAIN w \cap HostKeys(x) = {}
               /\ \A m \in Modules : Over(w, D)[<<x, m>>] = D[<<x, m>>]
         /\ \A m \in Modules : There(Over(w, D), m) <=> There(D, m)
<1> DEFINE E == Over(w, D)
<1>1. \A k \in Docs : E[k] = IF k \in DOMAIN w THEN w[k] ELSE D[k]
  BY OverDb
<1>2. \A k \in DOMAIN w : k = h \/ \E m \in Modules : k = <<h, m>>
  BY HostKeysFacts
<1> HIDE DEF E
<1>3. ASSUME NEW x \in Hosts, x # h
      PROVE  /\ At(E, x) = At(D, x) /\ (There(E, x) <=> There(D, x))
             /\ E[x] = D[x] /\ DOMAIN w \cap HostKeys(x) = {}
             /\ \A m \in Modules : E[<<x, m>>] = D[<<x, m>>]
  <2>1. x \notin DOMAIN w /\ x \in Docs
    BY <1>2, <1>3, DocFacts
  <2>2. \A m \in Modules : <<x, m>> \notin DOMAIN w /\ <<x, m>> \in Docs
    <3> SUFFICES ASSUME NEW m \in Modules
                 PROVE  <<x, m>> \notin DOMAIN w /\ <<x, m>> \in Docs
      OBVIOUS
    <3>1. <<x, m>> \in Docs /\ <<x, m>> \in Relations /\ h \notin Relations
      BY DocFacts
    <3>2. <<x, m>> # h
      BY <3>1
    <3> QED BY <3>1, <3>2, <1>2, <1>3
  <2>3. E[x] = D[x] /\ \A m \in Modules : E[<<x, m>>] = D[<<x, m>>]
    BY <2>1, <2>2, <1>1
  <2>4. At(E, x) = At(D, x)
    BY <2>3, SameAt
  <2>5. DOMAIN w \cap HostKeys(x) = {}
    BY <2>1, <2>2, HostKeysFacts
  <2> QED BY <2>3, <2>4, <2>5 DEF There
<1>4. ASSUME NEW m \in Modules
      PROVE  There(E, m) <=> There(D, m)
  <2>1. m \in Docs /\ m \notin Hosts /\ m \notin Relations
    BY DocFacts
  <2>2. \A x \in Modules : <<h, x>> \in Relations
    BY DocFacts
  <2>3. m \notin DOMAIN w
    BY <2>1, <2>2, <1>2
  <2> QED BY <2>1, <2>3, <1>1 DEF There
<1> QED BY <1>3, <1>4 DEF E

\* A new host has no relation, and only imported hosts may have none.
LEMMA NewHostSound ==
  ASSUME NEW D \in [Docs -> Vals], NEW bl, NEW sk, NEW str, NEW em,
         Sound(D, bl, sk, str, em), NEW h \in Hosts, D[h] = Absent
  PROVE  /\ Sound(Over(Put({h}, Present), D), bl \cup {h}, sk, str, em)
         /\ \A x \in Hosts \ (bl \cup {h}) : DOMAIN Put({h}, Present) \cap HostKeys(x) = {}
<1> DEFINE w == Put({h}, Present)
           E == Over(w, D)
<1>1. w \in Writes /\ DOMAIN w = {h} /\ w[h] = Present
  <2>1. {h} \in SUBSET Docs
    BY DocFacts
  <2> QED BY <2>1, PutFacts, ValueFacts
<1> HIDE DEF w
<1>2. DOMAIN w \subseteq HostKeys(h)
  BY <1>1, HostKeysFacts
<1>3. /\ \A x \in Hosts : x # h =>
            /\ At(E, x) = At(D, x) /\ (There(E, x) <=> There(D, x))
            /\ E[x] = D[x] /\ DOMAIN w \cap HostKeys(x) = {}
            /\ \A m \in Modules : E[<<x, m>>] = D[<<x, m>>]
      /\ \A m \in Modules : There(E, m) <=> There(D, m)
  BY <1>1, <1>2, OneHost
<1>4. E[h] = Present /\ \A m \in Modules : E[<<h, m>>] = D[<<h, m>>]
  <2>1. \A k \in Docs : E[k] = IF k \in DOMAIN w THEN w[k] ELSE D[k]
    BY <1>1, OverDb
  <2> HIDE DEF E
  <2> QED BY <2>1, <1>1, DocFacts
<1> HIDE DEF E
<1>5. At(E, h) = At(D, h)
  BY <1>4, SameAt
<1>6. Sound(E, bl \cup {h}, sk, str, em)
  <2>1. \A x \in Hosts \ (bl \cup {h}) : There(E, x) <=> At(E, x) # {}
    BY <1>3 DEF Sound
  <2>2. ASSUME NEW x \in Hosts, NEW m \in Modules
        PROVE  E[<<x, m>>] \in {Absent, BizOf[m]} \/ (x \in str /\ m \in Inner)
    <3>1. E[<<x, m>>] = D[<<x, m>>]
      <4>1. CASE x = h
        BY <4>1, <1>4
      <4>2. CASE x # h
        BY <4>2, <1>3
      <4> QED BY <4>1, <4>2
    <3>2. D[<<x, m>>] \in {Absent, BizOf[m]} \/ (x \in str /\ m \in Inner)
      BY DEF Sound
    <3> QED BY <3>1, <3>2
  <2>3. \A x \in Hosts : At(E, x) = At(D, x)
    BY <1>3, <1>5
  <2>4. \A x \in Hosts \ (sk \cup str) : At(E, x) = {} \/ Legal(At(E, x))
    BY <2>3 DEF Sound
  <2>5. \A x \in Hosts : \A m \in At(E, x) \ em : There(E, m)
    BY <2>3, <1>3 DEF Sound, At
  <2>6. \A x \in Hosts : E[x] = Absent => At(E, x) = {}
    BY <2>3, <1>3, <1>4, ValueFacts DEF Sound
  <2>7. \A m \in Inner : There(E, m)
    BY <1>3, ModulesAssumption DEF Sound
  <2> QED BY <2>1, <2>2, <2>4, <2>5, <2>6, <2>7 DEF Sound
<1>7. \A x \in Hosts \ (bl \cup {h}) : DOMAIN w \cap HostKeys(x) = {}
  BY <1>3
<1> QED BY <1>6, <1>7 DEF E, w

\* What a command of an import writes.
LEMMA ImportWriteFacts ==
  ASSUME NEW h \in Hosts, NEW w, ImportWrite(h, w)
  PROVE  /\ w \in Writes /\ DOMAIN w \subseteq HostKeys(h) /\ h \notin DOMAIN w
         /\ \/ \A k \in DOMAIN w : w[k] = Absent
            \/ \E m \in Inner : \A k \in DOMAIN w : k = <<h, m>> /\ w[k] = BizOf[m]
<1>1. CASE \E ds \in SUBSET ({h} \X Modules) : w = Put(ds, Absent)
  <2>1. PICK ds \in SUBSET ({h} \X Modules) : w = Put(ds, Absent)
    BY <1>1
  <2>2. \A k \in ds : \E m \in Modules : k = <<h, m>>
    OBVIOUS
  <2>3. ds \in SUBSET Docs /\ ds \subseteq HostKeys(h) /\ h \notin ds
    BY <2>2, DocFacts, HostKeysFacts
  <2>4. w \in Writes /\ DOMAIN w = ds /\ \A k \in ds : w[k] = Absent
    BY <2>1, <2>3, PutFacts, ValueFacts
  <2> QED BY <2>3, <2>4
<1>2. CASE \E m \in Inner : \E ds \in SUBSET ({h} \X {m}) : w = Put(ds, BizOf[m])
  <2>0. PICK m \in Inner : \E ds \in SUBSET ({h} \X {m}) : w = Put(ds, BizOf[m])
    BY <1>2
  <2>1. PICK ds \in SUBSET ({h} \X {m}) : w = Put(ds, BizOf[m])
    BY <2>0
  <2>2. (\A k \in ds : k = <<h, m>>) /\ m \in Modules /\ BizOf[m] \in Vals
    BY ModulesAssumption, ValueFacts
  <2>3. ds \in SUBSET Docs /\ ds \subseteq HostKeys(h) /\ h \notin ds
    BY <2>2, DocFacts, HostKeysFacts
  <2>4. w \in Writes /\ DOMAIN w = ds /\ \A k \in ds : w[k] = BizOf[m]
    BY <2>1, <2>2, <2>3, PutFacts
  <2> QED BY <2>2, <2>3, <2>4
<1> QED BY <1>1, <1>2 DEF ImportWrite

\* An import changes the relations of its host only, and is told when there were some.
LEMMA ImportSound ==
  ASSUME NEW D \in [Docs -> Vals], NEW bl, NEW sk, NEW str, NEW em,
         Sound(D, bl, sk, str, em), NEW h \in Hosts \cap bl, D[h] # Absent,
         NEW w, ImportWrite(h, w), NEW sk2,
         sk2 = sk \cup {x \in {h} : At(D, x) # {} /\ Over(w, D) # D}
  PROVE  /\ Sound(Over(w, D), bl, sk2, str, em)
         /\ \A x \in Hosts \ bl : DOMAIN w \cap HostKeys(x) = {}
<1> DEFINE E == Over(w, D)
<1>1. /\ w \in Writes /\ DOMAIN w \subseteq HostKeys(h) /\ h \notin DOMAIN w
      /\ \/ \A k \in DOMAIN w : w[k] = Absent
         \/ \E m \in Inner : \A k \in DOMAIN w : k = <<h, m>> /\ w[k] = BizOf[m]
  BY ImportWriteFacts
<1>2. /\ \A x \in Hosts : x # h =>
            /\ At(E, x) = At(D, x) /\ (There(E, x) <=> There(D, x))
            /\ E[x] = D[x] /\ DOMAIN w \cap HostKeys(x) = {}
            /\ \A m \in Modules : E[<<x, m>>] = D[<<x, m>>]
      /\ \A m \in Modules : There(E, m) <=> There(D, m)
  BY <1>1, OneHost
<1>3. \A k \in Docs : E[k] = IF k \in DOMAIN w THEN w[k] ELSE D[k]
  BY <1>1, OverDb
<1>4. sk2 = sk \cup {x \in {h} : At(D, x) # {} /\ E # D}
  OBVIOUS
<1> HIDE DEF E
<1>5. h \in Docs /\ E[h] = D[h] /\ \A m \in Modules : <<h, m>> \in Docs
  BY <1>1, <1>3, DocFacts
<1>6. ASSUME NEW m \in Modules, E[<<h, m>>] # Absent, E[<<h, m>>] # D[<<h, m>>]
      PROVE  m \in Inner /\ E[<<h, m>>] = BizOf[m]
             /\ \A x \in Modules : <<h, x>> \in DOMAIN w => x = m
  <2>1. <<h, m>> \in DOMAIN w /\ w[<<h, m>>] # Absent /\ E[<<h, m>>] = w[<<h, m>>]
    BY <1>3, <1>5, <1>6
  <2>2. PICK i \in Inner : \A k \in DOMAIN w : k = <<h, i>> /\ w[k] = BizOf[i]
    BY <2>1, <1>1
  <2>3. i = m
    BY <2>1, <2>2
  <2> QED BY <2>1, <2>2, <2>3
<1>7. \A x \in Hosts \ bl : There(E, x) <=> At(E, x) # {}
  BY <1>2 DEF Sound
<1>8. ASSUME NEW x \in Hosts, NEW m \in Modules
      PROVE  E[<<x, m>>] \in {Absent, BizOf[m]} \/ (x \in str /\ m \in Inner)
  <2>1. D[<<x, m>>] \in {Absent, BizOf[m]} \/ (x \in str /\ m \in Inner)
    BY DEF Sound
  <2>2. CASE E[<<x, m>>] = D[<<x, m>>]
    BY <2>1, <2>2
  <2>3. CASE E[<<x, m>>] # D[<<x, m>>] /\ x # h
    BY <2>3, <1>2
  <2>4. CASE E[<<x, m>>] # D[<<x, m>>] /\ x = h
    BY <2>4, <1>6
  <2> QED BY <2>2, <2>3, <2>4
<1>9. ASSUME NEW x \in Hosts \ (sk2 \cup str)
      PROVE  At(E, x) = {} \/ Legal(At(E, x))
  <2>1. x \in Hosts \ (sk \cup str)
    BY <1>4, <1>9
  <2>2. CASE x # h
    BY <2>1, <2>2, <1>2 DEF Sound
  <2>3. CASE x = h /\ E = D
    BY <2>1, <2>3 DEF Sound
  <2>4. CASE x = h /\ At(D, h) = {}
    <3>1. \A m \in Modules : D[<<h, m>>] = Absent
      BY <2>4 DEF At
    <3>2. ASSUME NEW m \in At(E, h)
          PROVE  Legal(At(E, h))
      <4>1. m \in Modules /\ m \in Inner
        BY <3>1, <1>6 DEF At
      <4>2. \A y \in At(E, h) : y = m
        <5> SUFFICES ASSUME NEW y \in At(E, h)
                     PROVE  y = m
          OBVIOUS
        <5>1. y \in Modules /\ E[<<h, y>>] # D[<<h, y>>] /\ m \in Modules
              /\ E[<<h, m>>] # Absent /\ E[<<h, m>>] # D[<<h, m>>]
          BY <3>1 DEF At
        <5>2. <<h, y>> \in DOMAIN w
          BY <5>1, <1>3, <1>5
        <5> QED BY <5>1, <5>2, <1>6
      <4>3. At(E, h) = {m}
        BY <4>2, <3>2
      <4>4. Legal({m})
        <5>1. Cardinality({m}) = 1
          BY FS_Singleton
        <5>2. BizOf[m] \in Businesses /\ {m} \subseteq ModulesOf(BizOf[m])
          BY <4>1, ModulesAssumption DEF ModulesOf
        <5> QED BY <5>1, <5>2 DEF Legal
      <4> QED BY <4>3, <4>4
    <3> QED BY <2>4, <3>2
  <2> QED BY <2>2, <2>3, <2>4, <1>4, <1>9
<1>10. ASSUME NEW x \in Hosts, NEW m \in At(E, x) \ em
       PROVE  There(E, m)
  <2>1. m \in Modules /\ E[<<x, m>>] # Absent
    BY DEF At
  <2>2. CASE E[<<x, m>>] = D[<<x, m>>]
    <3>1. m \in At(D, x)
      BY <2>1, <2>2 DEF At
    <3> QED BY <2>1, <3>1, <1>2 DEF Sound
  <2>3. CASE E[<<x, m>>] # D[<<x, m>>]
    <3>1. x = h
      BY <2>1, <2>3, <1>2
    <3>2. m \in Inner
      BY <2>1, <2>3, <3>1, <1>6
    <3> QED BY <2>1, <3>2, <1>2 DEF Sound
  <2> QED BY <2>2, <2>3
<1>11. \A x \in Hosts : E[x] = Absent => At(E, x) = {}
  BY <1>2, <1>5 DEF Sound
<1>12. \A m \in Inner : There(E, m)
  BY <1>2, ModulesAssumption DEF Sound
<1>13. Sound(E, bl, sk2, str, em)
  BY <1>7, <1>8, <1>9, <1>10, <1>11, <1>12 DEF Sound
<1>14. \A x \in Hosts \ bl : DOMAIN w \cap HostKeys(x) = {}
  BY <1>2
<1> QED BY <1>13, <1>14 DEF E

\* w leaves the database sound, writes no host and touches a host with its relations.
Replaced(D, w, bl, sk, str, em) ==
    /\ Sound(Over(w, D), bl, sk, str, em) /\ w \in Writes
    /\ \A x \in Hosts : x \notin DOMAIN w
    /\ \A x \in Hosts : DOMAIN w \cap HostKeys(x) # {} => Grabs(D, w, x)

\* The change of a directory takes one relation to another module, and is told when that
\* is of another business or the host was not in an inner module.
LEMMA DirectorySound ==
  ASSUME NEW D \in [Docs -> Vals], NEW bl, NEW sk, NEW str, NEW em,
         Sound(D, bl, sk, str, em), NEW h \in Hosts, NEW old \in At(D, h),
         NEW m \in Inner, m \notin At(D, h),
         NEW w, w = [d \in {<<h, old>>, <<h, m>>} |->
                        IF d[2] = m THEN D[<<h, old>>] ELSE Absent],
         NEW str2, str2 = IF old \in Inner /\ D[<<h, old>>] = BizOf[m] THEN str ELSE str \cup {h}
  PROVE  Replaced(D, w, bl, sk, str2, em)
<1> DEFINE E == Over(w, D)
<1>1. /\ old \in Modules /\ m \in Modules /\ old # m /\ D[<<h, old>>] # Absent
      /\ <<h, old>> \in Docs /\ <<h, m>> \in Docs /\ D[<<h, old>>] \in Vals
  BY DocFacts, ModulesAssumption DEF At
<1>2. /\ DOMAIN w = {<<h, old>>, <<h, m>>} /\ w[<<h, old>>] = Absent
      /\ w[<<h, m>>] = D[<<h, old>>]
  BY <1>1
<1>3. w \in Writes
  <2>1. w \in [{<<h, old>>, <<h, m>>} -> Vals]
    BY <1>1, ValueFacts
  <2> QED BY <2>1, <1>1 DEF Writes
<1>4. DOMAIN w \subseteq HostKeys(h) /\ \A x \in Hosts : x \notin DOMAIN w
  BY <1>1, <1>2, HostKeysFacts, DocFacts
<1>5. /\ \A x \in Hosts : x # h =>
            /\ At(E, x) = At(D, x) /\ (There(E, x) <=> There(D, x))
            /\ E[x] = D[x] /\ DOMAIN w \cap HostKeys(x) = {}
            /\ \A y \in Modules : E[<<x, y>>] = D[<<x, y>>]
      /\ \A y \in Modules : There(E, y) <=> There(D, y)
  BY <1>3, <1>4, OneHost
<1>6. \A k \in Docs : E[k] = IF k \in DOMAIN w THEN w[k] ELSE D[k]
  BY <1>3, OverDb
<1> HIDE DEF E
<1>7. /\ E[<<h, old>>] = Absent /\ E[<<h, m>>] = D[<<h, old>>]
      /\ \A y \in Modules : y # old /\ y # m => E[<<h, y>>] = D[<<h, y>>]
      /\ E[h] = D[h]
  <2>1. \A y \in Modules : <<h, y>> \in Docs /\ (y # old /\ y # m => <<h, y>> \notin DOMAIN w)
    BY <1>2, DocFacts
  <2>2. h \in Docs /\ h \notin DOMAIN w
    BY <1>4, DocFacts
  <2> QED BY <2>1, <2>2, <1>1, <1>2, <1>6
<1>8. At(E, h) = (At(D, h) \ {old}) \cup {m}
  <2>1. \A y \in Modules : y \in At(E, h) <=> (y \in At(D, h) /\ y # old) \/ y = m
    BY <1>1, <1>7 DEF At
  <2>2. At(E, h) \in SUBSET Modules /\ At(D, h) \in SUBSET Modules
    BY DEF At
  <2> QED BY <2>1, <2>2, <1>1
<1>9. \A x \in Hosts \ bl : There(E, x) <=> At(E, x) # {}
  BY <1>5, <1>7, <1>8 DEF Sound, There
<1>10. ASSUME NEW x \in Hosts, NEW y \in Modules
       PROVE  E[<<x, y>>] \in {Absent, BizOf[y]} \/ (x \in str2 /\ y \in Inner)
  <2>1. CASE x # h
    BY <2>1, <1>5 DEF Sound
  <2>2. CASE x = h /\ y = m
    BY <2>2, <1>7
  <2>3. CASE x = h /\ y = old
    BY <2>3, <1>7
  <2>4. CASE x = h /\ y # m /\ y # old
    BY <2>4, <1>7 DEF Sound
  <2> QED BY <2>1, <2>2, <2>3, <2>4
<1>11. ASSUME NEW x \in Hosts \ (sk \cup str2)
       PROVE  At(E, x) = {} \/ Legal(At(E, x))
  <2>1. CASE x # h
    BY <2>1, <1>5, <1>11 DEF Sound
  <2>2. CASE x = h
    <3>1. h \in Hosts \ (sk \cup str) /\ old \in Inner /\ D[<<h, old>>] = BizOf[m]
      BY <2>2, <1>11
    <3>2. Legal(At(D, h))
      BY <3>1 DEF Sound
    <3>3. Cardinality(At(D, h)) = 1
      BY <3>1, <3>2 DEF Legal
    <3>4. At(D, h) \in SUBSET Modules
      BY DEF At
    <3>5. At(D, h) = {old}
      BY <3>3, <3>4, OneModule
    <3>6. At(E, h) = {m}
      BY <3>5, <1>8
    <3>7. Cardinality({m}) = 1
      BY FS_Singleton
    <3>8. BizOf[m] \in Businesses /\ {m} \subseteq ModulesOf(BizOf[m])
      BY <1>1, ModulesAssumption DEF ModulesOf
    <3>9. Legal({m})
      BY <3>7, <3>8 DEF Legal
    <3> QED BY <2>2, <3>6, <3>9
  <2> QED BY <2>1, <2>2
<1>12. ASSUME NEW x \in Hosts, NEW y \in At(E, x) \ em
       PROVE  There(E, y)
  <2>1. y \in Modules
    BY DEF At
  <2>2. CASE y = m
    BY <2>1, <2>2, <1>5 DEF Sound
  <2>3. CASE y # m
    <3>1. y \in At(D, x)
      BY <2>3, <1>5, <1>8
    <3> QED BY <2>1, <3>1, <1>5 DEF Sound
  <2> QED BY <2>2, <2>3
<1>13. \A x \in Hosts : E[x] = Absent => At(E, x) = {}
  BY <1>5, <1>7 DEF Sound
<1>14. \A y \in Inner : There(E, y)
  BY <1>5, ModulesAssumption DEF Sound
<1>15. Sound(E, bl, sk, str2, em)
  BY <1>9, <1>10, <1>11, <1>12, <1>13, <1>14 DEF Sound
<1>16. \A x \in Hosts : DOMAIN w \cap HostKeys(x) # {} => Grabs(D, w, x)
  <2> SUFFICES ASSUME NEW x \in Hosts, DOMAIN w \cap HostKeys(x) # {}
               PROVE  Grabs(D, w, x)
    OBVIOUS
  <2>1. x = h
    BY <1>5
  <2> QED BY <2>1, <1>2 DEF Grabs
<1> QED BY <1>3, <1>4, <1>15, <1>16 DEF E, Replaced

-----------------------------------------------------------------------------
(* The steps of the service.                                               *)

\* A step of the request t sets only the entries of t.
Sets(f, g, t) == g = [f EXCEPT ![t] = g[t]]
Leaves(f, g, t) == \A u \in Txns : u # t => g[u] = f[u]
ClientMoves(t) ==
    /\ Sets(pc, pc', t) /\ Sets(req, req', t) /\ Sets(plan, plan', t)
    /\ Sets(todo, todo', t) /\ Sets(late, late', t) /\ Sets(answer, answer', t)
ClientKept(t) == \A u \in Txns : u # t =>
    /\ pc'[u] = pc[u] /\ req'[u] = req[u] /\ plan'[u] = plan[u]
    /\ todo'[u] = todo[u] /\ late'[u] = late[u]
\* What ClientType says of one request.
ClientAt(t) ==
    /\ pc[t] \in Labels /\ req[t] \in Requests \cup {NoRequest} /\ plan[t] \in SUBSET Modules
    /\ todo[t] \in Seq(Writes) /\ late[t] \in Seq(Writes)
    /\ answer[t] \in {"none", "ok", "error"}
    /\ pc[t] # "idle" => req[t] \in Requests
    /\ (todo[t] # << >>) <=> (pc[t] \in {"write", "put"})
    /\ pc[t] \in {"idle", "check"} => session[t] = "none" /\ t \notin counted
    /\ pc[t] \in {"write", "commit"} => session[t] # "none"
    /\ pc[t] = "check" => req[t].kind = "auto"
    /\ late[t] # << >> => pc[t] \in {"abort", "done"}

\* An entry that is set.
LEMMA SetsFacts ==
  ASSUME NEW S, NEW f \in [Txns -> S], NEW g, NEW t \in Txns, Sets(f, g, t), g[t] \in S
  PROVE  g \in [Txns -> S] /\ Leaves(f, g, t)
<1>1. g = [f EXCEPT ![t] = g[t]]
  BY DEF Sets
<1> DEFINE v == g[t]
<1>2. g = [f EXCEPT ![t] = v] /\ v \in S
  BY <1>1
<1> HIDE DEF v
<1> QED BY <1>2, SetFacts DEF Leaves

\* A step of the request t keeps the types if what it leaves of t is right.
LEMMA ClientStep ==
  ASSUME ClientType, NEW t \in Txns, ClientMoves(t), ClientAt(t)',
         \A u \in Txns : u # t => session'[u] = session[u],
         counted' \subseteq counted \cup {t}
  PROVE  ClientType' /\ ClientKept(t)
<1>1. /\ pc[t]' \in Labels /\ req[t]' \in Requests \cup {NoRequest}
      /\ plan[t]' \in SUBSET Modules /\ todo[t]' \in Seq(Writes) /\ late[t]' \in Seq(Writes)
      /\ answer[t]' \in {"none", "ok", "error"}
  BY DEF ClientAt
<1>2. pc' \in [Txns -> Labels] /\ Leaves(pc, pc', t)
  BY <1>1, SetsFacts DEF ClientType, ClientMoves
<1>3. req' \in [Txns -> Requests \cup {NoRequest}] /\ Leaves(req, req', t)
  BY <1>1, SetsFacts DEF ClientType, ClientMoves
<1>4. plan' \in [Txns -> SUBSET Modules] /\ Leaves(plan, plan', t)
  BY <1>1, SetsFacts DEF ClientType, ClientMoves
<1>5. todo' \in [Txns -> Seq(Writes)] /\ Leaves(todo, todo', t)
  BY <1>1, SetsFacts DEF ClientType, ClientMoves
<1>6. late' \in [Txns -> Seq(Writes)] /\ Leaves(late, late', t)
  BY <1>1, SetsFacts DEF ClientType, ClientMoves
<1>7. answer' \in [Txns -> {"none", "ok", "error"}]
  BY <1>1, SetsFacts DEF ClientType, ClientMoves
<1>8. ASSUME NEW u \in Txns
      PROVE  /\ pc[u]' # "idle" => req[u]' \in Requests
             /\ (todo[u]' # << >>) <=> (pc[u]' \in {"write", "put"})
             /\ pc[u]' \in {"idle", "check"} => session[u]' = "none" /\ u \notin counted'
             /\ pc[u]' \in {"write", "commit"} => session[u]' # "none"
             /\ pc[u]' = "check" => req[u]'.kind = "auto"
             /\ late[u]' # << >> => pc[u]' \in {"abort", "done"}
  <2>1. CASE u = t
    BY <2>1 DEF ClientAt
  <2>2. CASE u # t
    <3>1. /\ pc'[u] = pc[u] /\ req'[u] = req[u] /\ todo'[u] = todo[u] /\ late'[u] = late[u]
          /\ session'[u] = session[u] /\ (u \notin counted => u \notin counted')
      BY <2>2, <1>2, <1>3, <1>5, <1>6 DEF Leaves
    <3> QED BY <3>1 DEF ClientType
  <2> QED BY <2>1, <2>2
<1>9. ClientType'
  BY <1>2, <1>3, <1>4, <1>5, <1>6, <1>7, <1>8 DEF ClientType
<1>10. ClientKept(t)
  BY <1>2, <1>3, <1>4, <1>5, <1>6 DEF ClientKept, Leaves
<1> QED BY <1>9, <1>10

\* A running transaction runs on when nothing about it changes.
LEMMA RunsKept ==
  ASSUME NEW u \in Txns, Runs(u), req'[u] = req[u], todo'[u] = todo[u], buf'[u] = buf[u],
         stale'[u] = stale[u], UNCHANGED << db, skewed, blind, strayed >>
  PROVE  Runs(u)'
BY DEF Runs, Goal

\* A running transaction runs on when another commits.
LEMMA RunsOn ==
  ASSUME TypeInv, NEW u \in Txns, Runs(u), req[u] \in Requests,
         req'[u] = req[u], todo'[u] = todo[u], buf'[u] = buf[u],
         NEW w \in Writes, stale'[u] = stale[u] \cup DOMAIN w, db' = Over(w, db),
         blind \subseteq blind', skewed \subseteq skewed', strayed \subseteq strayed',
         \A h \in Hosts \ blind' : DOMAIN w \cap HostKeys(h) # {} => Grabs(db, w, h)
  PROVE  Runs(u)'
<1> DEFINE g == Goal(u)
           r == req[u]
           st == stale[u]
           odd == skewed \cup strayed
           odd2 == (skewed \cup strayed)'
<1>1. Goal(u)' = g
  BY DEF Goal
<1>2. /\ Len(todo[u]) <= 4 /\ Snapshot(db, st, r, g, blind, odd)
      /\ Collides(st, r, g, blind)
  BY DEF Runs
<1>3. db \in [Docs -> Vals] /\ st \in SUBSET Docs /\ r \in Requests
      /\ blind \subseteq blind' /\ odd \subseteq odd2
  BY DEF TypeInv, StoreType
<1> HIDE DEF g, r, st, odd, odd2
<1>4. Lands(db, st, r, g, blind, odd)
  BY <1>2, <1>3, SnapshotLands
<1>5. Snapshot(Over(w, db), st \cup DOMAIN w, r, g, blind', odd2)
  BY <1>2, <1>3, SnapshotPublish
<1>6. Collides(st \cup DOMAIN w, r, g, blind')
  BY <1>2, <1>3, <1>4, CollidesPublish
<1>7. /\ Len(todo[u])' <= 4 /\ Snapshot(db', stale[u]', req[u]', g, blind', (skewed \cup strayed)')
      /\ Collides(stale[u]', req[u]', g, blind')
  BY <1>2, <1>5, <1>6 DEF st, r, odd2
<1> QED BY <1>1, <1>7 DEF Runs

\* A step of the request t that commits nothing keeps the invariant if t runs, and imports,
\* as it should.
LEMMA QuietStep ==
  ASSUME TypeInv, Inv, NEW t \in Txns, Alone', db' = db, OthersKept(t),
         stale'[t] \subseteq stale[t], ClientKept(t),
         UNCHANGED << skewed, blind, strayed, emptied >>,
         Live(t)' => Runs(t)',
         pc'[t] \in {"place", "put"} => Imports(t)',
         pc'[t] = "update" => req'[t].modules \subseteq Inner
  PROVE  Inv'
<1>1. ASSUME NEW u \in Txns, u # t
      PROVE  /\ pc'[u] = pc[u] /\ req'[u] = req[u] /\ todo'[u] = todo[u]
             /\ session'[u] = session[u] /\ buf'[u] = buf[u] /\ stale'[u] = stale[u]
  BY <1>1 DEF OthersKept, ClientKept
<1>2. \A u \in Txns : stale'[u] \subseteq stale[u]
  BY <1>1
<1>3. Lasting'
  BY <1>2 DEF Inv, Lasting
<1>4. Running'
  <2> SUFFICES ASSUME NEW u \in Txns, Live(u)'
               PROVE  Runs(u)'
    BY DEF Running
  <2>1. CASE u = t
    BY <2>1
  <2>2. CASE u # t
    <3>1. Live(u)
      BY <2>2, <1>1 DEF Live, Active
    <3>2. Runs(u)
      BY <3>1 DEF Inv, Running
    <3> QED BY <2>2, <3>2, <1>1, RunsKept
  <2> QED BY <2>1, <2>2
<1>5. Importing'
  <2> SUFFICES ASSUME NEW u \in Txns, pc'[u] \in {"place", "put"}
               PROVE  Imports(u)'
    BY DEF Importing
  <2>1. CASE u = t
    BY <2>1
  <2>2. CASE u # t
    <3>1. Imports(u)
      BY <2>2, <1>1 DEF Inv, Importing
    <3> QED BY <2>2, <3>1, <1>1 DEF Imports
  <2> QED BY <2>1, <2>2
<1>6. Updating'
  <2> SUFFICES ASSUME NEW u \in Txns, pc'[u] = "update"
               PROVE  req'[u].modules \subseteq Inner
    BY DEF Updating
  <2>1. CASE u # t
    BY <2>1, <1>1 DEF Inv, Updating
  <2> QED BY <2>1
<1>7. Sound(db', blind', skewed', strayed', emptied') /\ skewed' \subseteq blind'
  BY DEF Inv
<1> QED BY <1>3, <1>4, <1>5, <1>6, <1>7 DEF Inv

\* What a step that publishes w must be: it makes no host absent, and touches a host of
\* which the invariant speaks only with one of its relations.
Gentle(w) ==
    /\ \A h \in Hosts \cap DOMAIN w : w[h] # Absent
    /\ \A h \in Hosts \ blind' : DOMAIN w \cap HostKeys(h) # {} => Grabs(db, w, h)
Histories ==
    /\ blind \subseteq blind' /\ skewed \subseteq skewed' /\ strayed \subseteq strayed'
    /\ skewed' \subseteq blind'

\* A step of the request t that publishes w keeps the invariant if the database stays sound.
LEMMA PublishStep ==
  ASSUME TypeInv, Inv, NEW t \in Txns, NEW w \in Writes, Alone', db' = Over(w, db),
         OthersStale(t, w), stale'[t] \subseteq stale[t] \cup DOMAIN w, ClientKept(t),
         TypeInv', Histories, Gentle(w), Sound(db', blind', skewed', strayed', emptied'),
         ~Live(t)',
         pc'[t] \in {"place", "put"} => Imports(t)',
         pc'[t] # "update"
  PROVE  Inv'
<1>1. ASSUME NEW u \in Txns, u # t
      PROVE  /\ pc'[u] = pc[u] /\ req'[u] = req[u] /\ todo'[u] = todo[u]
             /\ session'[u] = session[u] /\ buf'[u] = buf[u]
             /\ stale'[u] = IF Active(u) THEN stale[u] \cup DOMAIN w ELSE stale[u]
  BY <1>1 DEF OthersStale, ClientKept
<1>2. \A u \in Txns : stale'[u] \subseteq stale[u] \cup DOMAIN w
  BY <1>1
<1>3. \A k \in Docs : db'[k] = IF k \in DOMAIN w THEN w[k] ELSE db[k]
  BY OverDb DEF TypeInv, StoreType
<1>4. \A h \in Hosts : h \in Docs /\ (db[h] # Absent => db'[h] # Absent)
  BY <1>3, DocFacts DEF Gentle
<1>5. Lasting'
  <2> SUFFICES ASSUME NEW u \in Txns, NEW h \in Hosts, h \in stale'[u]
               PROVE  db'[h] # Absent
    BY DEF Lasting
  <2>1. CASE h \in stale[u]
    BY <2>1, <1>4 DEF Inv, Lasting
  <2>2. CASE h \in DOMAIN w
    BY <2>2, <1>3, <1>4 DEF Gentle
  <2> QED BY <2>1, <2>2, <1>2
<1>6. Running'
  <2> SUFFICES ASSUME NEW u \in Txns, Live(u)'
               PROVE  Runs(u)'
    BY DEF Running
  <2>1. u # t
    OBVIOUS
  <2>2. Live(u) /\ Active(u)
    BY <2>1, <1>1 DEF Live, Active
  <2>3. Runs(u) /\ req[u] \in Requests
    BY <2>2 DEF Inv, Running, Live, TypeInv, ClientType
  <2>4. /\ req'[u] = req[u] /\ todo'[u] = todo[u] /\ buf'[u] = buf[u]
        /\ stale'[u] = stale[u] \cup DOMAIN w
    BY <2>1, <2>2, <1>1
  <2>5. blind \subseteq blind' /\ skewed \subseteq skewed' /\ strayed \subseteq strayed'
    BY DEF Histories
  <2>6. \A h \in Hosts \ blind' : DOMAIN w \cap HostKeys(h) # {} => Grabs(db, w, h)
    BY DEF Gentle
  <2> QED BY <2>3, <2>4, <2>5, <2>6, RunsOn
<1>7. Importing'
  <2> SUFFICES ASSUME NEW u \in Txns, pc'[u] \in {"place", "put"}
               PROVE  Imports(u)'
    BY DEF Importing
  <2>1. CASE u = t
    BY <2>1
  <2>2. CASE u # t
    <3>1. PICK h \in Hosts :
             /\ req[u].kind = "import" /\ req[u].hosts = {h} /\ h \in blind /\ db[h] # Absent
             /\ \A i \in DOMAIN todo[u] : ImportWrite(h, todo[u][i])
      BY <2>2, <1>1 DEF Inv, Importing, Imports
    <3>2. /\ req'[u].kind = "import" /\ req'[u].hosts = {h} /\ h \in blind' /\ db'[h] # Absent
          /\ \A i \in DOMAIN todo'[u] : ImportWrite(h, todo'[u][i])
      BY <2>2, <3>1, <1>1, <1>4 DEF Histories
    <3> QED BY <3>2 DEF Imports
  <2> QED BY <2>1, <2>2
<1>8. Updating'
  <2> SUFFICES ASSUME NEW u \in Txns, pc'[u] = "update"
               PROVE  req'[u].modules \subseteq Inner
    BY DEF Updating
  <2>1. u # t
    OBVIOUS
  <2> QED BY <2>1, <1>1 DEF Inv, Updating
<1> QED BY <1>5, <1>6, <1>7, <1>8 DEF Inv, Histories

-----------------------------------------------------------------------------
(* The actions.                                                            *)

\* Mishaps are counted up to their bound.
LEMMA FaultFacts ==
  ASSUME HistoryType, NoFail \/ (\E k \in Faults : Fail(k))
  PROVE  faults' \in 0 .. MaxFaults
<1>1. MaxFaults \in Nat
  BY BoundsAssumption
<1>2. CASE NoFail
  BY <1>2 DEF NoFail, HistoryType
<1>3. CASE \E k \in Faults : Fail(k)
  <2>1. faults \in 0 .. MaxFaults /\ faults < MaxFaults /\ faults' = faults + 1
    BY <1>3 DEF Fail, HistoryType
  <2> QED BY <1>1, <2>1
<1> QED BY <1>2, <1>3

\* What is said of a transaction that stands still.
LEMMA AtFacts ==
  ASSUME ClientType, NEW t \in Txns
  PROVE  ClientAt(t)
BY DEF ClientType, ClientAt

\* A step that touches no transaction keeps the types of the store.
LEMMA StoreStep ==
  ASSUME TypeInv, Inv, NEW t \in Txns, UNCHANGED store
  PROVE  /\ StoreType' /\ Alone' /\ db' = db /\ OthersKept(t) /\ stale'[t] \subseteq stale[t]
         /\ \A u \in Txns : session'[u] = session[u] /\ (Active(u)' <=> Active(u))
         /\ counted' = counted
<1>1. UNCHANGED << db, counted, session, buf, stale >>
  BY DEF store
<1>2. StoreType'
  BY <1>1 DEF TypeInv, StoreType, Active
<1>3. Alone' /\ OthersKept(t)
  BY <1>1 DEF Inv, Alone, Active, OthersKept
<1> QED BY <1>1, <1>2, <1>3 DEF Active

\* What a step of the request t, as it publishes w, is to the other requests.
Beside(t) == \E w \in Writes :
    /\ db' = Over(w, db) /\ skewed \subseteq skewed'
    /\ strayed \subseteq strayed' /\ outdated \subseteq outdated'
    /\ \A u \in Txns : u # t =>
        /\ pc'[u] = pc[u] /\ req'[u] = req[u] /\ plan'[u] = plan[u] /\ todo'[u] = todo[u]
        /\ session'[u] = session[u] /\ buf'[u] = buf[u]
        /\ Active(u) => stale[u] \cup DOMAIN w \subseteq stale'[u]
Kept(t) == TypeInv' /\ Inv' /\ Beside(t)

\* To publish nothing leaves the database as it is.
LEMMA OverNothing ==
  ASSUME StoreType
  PROVE  Over(Nothing, db) = db
<1>1. db \in [Docs -> Vals]
  BY DEF StoreType
<1>2. Over(Nothing, db) \in [Docs -> Vals] /\ \A k \in Docs : Over(Nothing, db)[k] = db[k]
  BY <1>1, NothingFacts, OverDb
<1> QED BY <1>1, <1>2

\* A step of the request t that publishes nothing.
LEMMA QuietAct ==
  ASSUME TypeInv, Inv, NEW t \in Txns, ClientMoves(t), ClientAt(t)',
         StoreType', Alone', db' = db, OthersKept(t), stale'[t] \subseteq stale[t],
         counted' \subseteq counted \cup {t},
         UNCHANGED << skewed, blind, strayed, emptied >>, outdated' \in SUBSET Txns,
         outdated \subseteq outdated', NoFail \/ \E k \in Faults : Fail(k),
         Live(t)' => Runs(t)',
         pc'[t] \in {"place", "put"} => Imports(t)',
         pc'[t] = "update" => req'[t].modules \subseteq Inner
  PROVE  Kept(t)
<1>1. \A u \in Txns : u # t => session'[u] = session[u]
  BY DEF OthersKept
<1>2. ClientType' /\ ClientKept(t)
  BY <1>1, ClientStep DEF TypeInv
<1>3. HistoryType'
  <2>1. faults' \in 0 .. MaxFaults
    BY FaultFacts DEF TypeInv
  <2> QED BY <2>1 DEF TypeInv, HistoryType
<1>4. Inv'
  BY <1>2, QuietStep
<1>5. Beside(t)
  <2>1. db' = Over(Nothing, db) /\ Nothing \in Writes
    BY OverNothing, NothingFacts DEF TypeInv
  <2>2. ASSUME NEW u \in Txns, u # t
        PROVE  /\ pc'[u] = pc[u] /\ req'[u] = req[u] /\ plan'[u] = plan[u] /\ todo'[u] = todo[u]
               /\ session'[u] = session[u] /\ buf'[u] = buf[u]
               /\ Active(u) => stale[u] \cup DOMAIN Nothing \subseteq stale'[u]
    BY <2>2, <1>2, NothingFacts DEF ClientKept, OthersKept
  <2> QED BY <2>1, <2>2 DEF Beside
<1> QED BY <1>2, <1>3, <1>4, <1>5 DEF TypeInv, Kept

\* A step of the request t that publishes w.
LEMMA PublishAct ==
  ASSUME TypeInv, Inv, NEW t \in Txns, ClientMoves(t), ClientAt(t)',
         NEW w \in Writes, StoreType', Alone', db' = Over(w, db), OthersStale(t, w),
         stale'[t] \subseteq stale[t] \cup DOMAIN w, counted' \subseteq counted \cup {t},
         Histories, Gentle(w), Sound(db', blind', skewed', strayed', emptied'),
         skewed' \in SUBSET Hosts, blind' \in SUBSET Hosts, strayed' \in SUBSET Hosts,
         emptied' \in SUBSET Modules, UNCHANGED outdated,
         NoFail \/ \E k \in Faults : Fail(k),
         ~Live(t)', pc'[t] \in {"place", "put"} => Imports(t)', pc'[t] # "update"
  PROVE  Kept(t)
<1>1. \A u \in Txns : u # t => session'[u] = session[u]
  BY DEF OthersStale
<1>2. ClientType' /\ ClientKept(t)
  BY <1>1, ClientStep DEF TypeInv
<1>3. HistoryType'
  <2>1. faults' \in 0 .. MaxFaults
    BY FaultFacts DEF TypeInv
  <2> QED BY <2>1 DEF TypeInv, HistoryType
<1>4. TypeInv'
  BY <1>2, <1>3 DEF TypeInv
<1>5. Inv'
  BY <1>2, <1>4, PublishStep
<1>6. Beside(t)
  <2>1. ASSUME NEW u \in Txns, u # t
        PROVE  /\ pc'[u] = pc[u] /\ req'[u] = req[u] /\ plan'[u] = plan[u] /\ todo'[u] = todo[u]
               /\ session'[u] = session[u] /\ buf'[u] = buf[u]
               /\ Active(u) => stale[u] \cup DOMAIN w \subseteq stale'[u]
    BY <2>1, <1>2 DEF ClientKept, OthersStale
  <2> QED BY <2>1 DEF Beside, Histories
<1> QED BY <1>4, <1>5, <1>6 DEF Kept

\* The end of the counter of a session, which leaves its transaction as it is.
LEMMA CounterLostStep ==
  ASSUME TypeInv, Inv, NEW t \in Txns, CounterLost(t)
  PROVE  Kept(t)
<1>1. /\ UNCHANGED << db, session, buf, stale >> /\ counted' = counted \ {t}
      /\ UNCHANGED << pc, req, plan, todo, late, answer >>
      /\ UNCHANGED << skewed, blind, strayed, emptied, outdated >>
      /\ \E k \in Faults : Fail(k)
  BY DEF CounterLost, LoseCounter, client, history, Fail
<1>2. StoreType' /\ Alone' /\ OthersKept(t) /\ stale'[t] \subseteq stale[t]
  BY <1>1 DEF TypeInv, Inv, StoreType, Alone, OthersKept, Active
<1>3. ClientMoves(t)
  BY <1>1 DEF ClientMoves, Sets, TypeInv, ClientType
<1>4. ClientAt(t)'
  BY <1>1, AtFacts DEF TypeInv, ClientAt
<1>5. Live(t)' => Runs(t)'
  <2> SUFFICES ASSUME Live(t)'
               PROVE  Runs(t)'
    OBVIOUS
  <2>1. Live(t)
    BY <1>1 DEF Live, Active
  <2>2. Runs(t)
    BY <2>1 DEF Inv, Running
  <2> QED BY <2>2, <1>1, RunsKept
<1>6. pc'[t] \in {"place", "put"} => Imports(t)'
  BY <1>1 DEF Inv, Importing, Imports
<1>7. pc'[t] = "update" => req'[t].modules \subseteq Inner
  BY <1>1 DEF Inv, Updating
<1>8. outdated' \in SUBSET Txns /\ outdated \subseteq outdated' /\ counted' \subseteq counted \cup {t}
  BY <1>1 DEF TypeInv, HistoryType
<1> QED BY <1>1, <1>2, <1>3, <1>4, <1>5, <1>6, <1>7, <1>8, QuietAct

\* A crash leaves the transaction of the request, which nobody goes on with.
LEMMA CrashStep ==
  ASSUME TypeInv, Inv, NEW t \in Txns, Crash(t)
  PROVE  Kept(t)
<1>1. /\ pc' = [pc EXCEPT ![t] = "done"] /\ todo' = [todo EXCEPT ![t] = << >>]
      /\ UNCHANGED store /\ UNCHANGED << req, plan, late, answer >>
      /\ UNCHANGED << skewed, blind, strayed, emptied, outdated >>
      /\ pc[t] # "idle" /\ \E k \in Faults : Fail(k)
  BY DEF Crash, Goto, history, Fail
<1>2. pc'[t] = "done" /\ todo'[t] = << >>
  BY <1>1 DEF TypeInv, ClientType
<1>3. ClientMoves(t)
  BY <1>1, <1>2 DEF ClientMoves, Sets, TypeInv, ClientType
<1>4. ClientAt(t)'
  BY <1>1, <1>2, AtFacts DEF TypeInv, ClientAt, Labels
<1>5. ~Live(t)' /\ outdated' \in SUBSET Txns
  BY <1>1, <1>2 DEF Live, TypeInv, HistoryType
<1> QED BY <1>1, <1>2, <1>3, <1>4, <1>5, StoreStep, QuietAct

\* What a request without a transaction, or a call that fails, does to the store.
LEMMA ExecuteQuiet ==
  ASSUME TypeInv, Inv, NEW t \in Txns, NEW w \in Writes, Execute(t, w)
  PROVE  /\ StoreType' /\ Alone' /\ db' = db /\ OthersKept(t) /\ stale'[t] \subseteq stale[t]
         /\ counted' \subseteq counted \cup {t}
BY ExecuteFacts DEF TypeInv, Inv

\* A call that fails ends the request's part in its transaction.
LEMMA CallFailsStep ==
  ASSUME TypeInv, Inv, NEW t \in Txns, CallFails(t)
  PROVE  Kept(t)
<1>1. /\ pc' = [pc EXCEPT ![t] = "abort"] /\ todo' = [todo EXCEPT ![t] = << >>]
      /\ UNCHANGED << req, plan, answer >>
      /\ UNCHANGED << skewed, blind, strayed, emptied, outdated >>
      /\ pc[t] = "write" /\ \E k \in Faults : Fail(k)
      /\ \/ Execute(t, Head(todo[t])) /\ UNCHANGED late
         \/ late' = [late EXCEPT ![t] = << Head(todo[t]) >>] /\ UNCHANGED store
  BY DEF CallFails, Goto, history, Fail
<1>2. pc'[t] = "abort" /\ todo'[t] = << >>
  BY <1>1 DEF TypeInv, ClientType
<1>3. Head(todo[t]) \in Writes
  <2>1. todo[t] \in Seq(Writes) /\ todo[t] # << >>
    BY <1>1 DEF TypeInv, ClientType
  <2> QED BY <2>1, TailFacts
<1>4. late'[t] \in Seq(Writes) /\ Sets(late, late', t)
  <2>1. << Head(todo[t]) >> \in Seq(Writes)
    BY <1>3
  <2> QED BY <1>1, <2>1 DEF Sets, TypeInv, ClientType
<1>5. ClientMoves(t)
  BY <1>1, <1>2, <1>4 DEF ClientMoves, Sets, TypeInv, ClientType
<1>6. ClientAt(t)'
  BY <1>1, <1>2, <1>4, AtFacts DEF TypeInv, ClientAt, Labels
<1>7. ~Live(t)' /\ outdated' \in SUBSET Txns
  BY <1>1, <1>2 DEF Live, TypeInv, HistoryType
<1>8. /\ StoreType' /\ Alone' /\ db' = db /\ OthersKept(t) /\ stale'[t] \subseteq stale[t]
      /\ counted' \subseteq counted \cup {t}
  BY <1>1, <1>3, ExecuteQuiet, StoreStep
<1> QED BY <1>1, <1>2, <1>5, <1>6, <1>7, <1>8, QuietAct

\* A call that comes late comes to a transaction its service does not go on with.
LEMMA DeliverStep ==
  ASSUME TypeInv, Inv, NEW t \in Txns, Deliver(t)
  PROVE  Kept(t)
<1>1. /\ late[t] # << >> /\ Execute(t, Head(late[t])) /\ late' = [late EXCEPT ![t] = << >>]
      /\ NoFail /\ UNCHANGED << pc, req, plan, todo, answer >>
      /\ UNCHANGED << skewed, blind, strayed, emptied, outdated >>
  BY DEF Deliver, history
<1>2. late'[t] = << >> /\ pc[t] \in {"abort", "done"}
  BY <1>1 DEF TypeInv, ClientType
<1>3. Head(late[t]) \in Writes
  <2>1. late[t] \in Seq(Writes)
    BY DEF TypeInv, ClientType
  <2> QED BY <1>1, <2>1, TailFacts
<1>4. ClientMoves(t)
  BY <1>1, <1>2 DEF ClientMoves, Sets, TypeInv, ClientType
<1>5. ClientAt(t)'
  BY <1>1, <1>2, AtFacts DEF TypeInv, ClientAt, Labels
<1>6. ~Live(t)' /\ outdated' \in SUBSET Txns
  BY <1>1, <1>2 DEF Live, TypeInv, HistoryType
<1>7. /\ StoreType' /\ Alone' /\ db' = db /\ OthersKept(t) /\ stale'[t] \subseteq stale[t]
      /\ counted' \subseteq counted \cup {t}
  BY <1>1, <1>3, ExecuteQuiet
<1> QED BY <1>1, <1>2, <1>4, <1>5, <1>6, <1>7, QuietAct

\* An abort, or one that fails.
LEMMA CallAbortStep ==
  ASSUME TypeInv, Inv, NEW t \in Txns, CallAbort(t)
  PROVE  Kept(t)
<1>1. /\ pc' = [pc EXCEPT ![t] = "done"] /\ answer' = [answer EXCEPT ![t] = "error"]
      /\ UNCHANGED << req, plan, todo, late >>
      /\ UNCHANGED << skewed, blind, strayed, emptied, outdated >>
      /\ pc[t] = "abort" /\ (NoFail \/ \E k \in Faults : Fail(k))
      /\ Abort(t) \/ UNCHANGED store
  BY DEF CallAbort, Goto, Answer, history, Fail
<1>2. pc'[t] = "done" /\ answer'[t] = "error"
  BY <1>1 DEF TypeInv, ClientType
<1>3. ClientMoves(t)
  BY <1>1, <1>2 DEF ClientMoves, Sets, TypeInv, ClientType
<1>4. ClientAt(t)'
  BY <1>1, <1>2, AtFacts DEF TypeInv, ClientAt, Labels
<1>5. ~Live(t)' /\ outdated' \in SUBSET Txns
  BY <1>1, <1>2 DEF Live, TypeInv, HistoryType
<1>6. /\ StoreType' /\ Alone' /\ db' = db /\ OthersKept(t) /\ stale'[t] \subseteq stale[t]
      /\ counted' \subseteq counted \cup {t}
  <2>1. CASE Abort(t)
    <3>1. StoreType' /\ Alone' /\ db' = db /\ OthersKept(t) /\ ~Active(t)'
          /\ counted' \in SUBSET counted
      BY <2>1, AbortFacts DEF TypeInv, Inv
    <3>2. stale'[t] = {}
      BY <3>1 DEF StoreType
    <3> QED BY <3>1, <3>2
  <2>2. CASE UNCHANGED store
    BY <2>2, StoreStep
  <2> QED BY <1>1, <2>1, <2>2
<1> QED BY <1>1, <1>2, <1>3, <1>4, <1>5, <1>6, QuietAct

\* The age of a transaction ends it.
LEMMA TooOldStep ==
  ASSUME TypeInv, Inv, NEW t \in Txns, TooOld(t)
  PROVE  Kept(t)
<1>1. /\ Lifetime(t) /\ UNCHANGED << pc, req, plan, todo, late, answer >>
      /\ UNCHANGED << skewed, blind, strayed, emptied, outdated >>
      /\ NoFail \/ \E k \in Faults : Fail(k)
  BY DEF TooOld, client, history, Fail
<1>2. StoreType' /\ Alone' /\ db' = db /\ OthersKept(t) /\ ~Active(t)'
      /\ counted' \in SUBSET counted
  BY <1>1, AbortFacts DEF TypeInv, Inv
<1>3. stale'[t] = {}
  BY <1>2 DEF StoreType
<1>4. session[t] = "active" /\ session'[t] = "aborted"
  BY <1>1 DEF Lifetime, Ends, Active, TypeInv, StoreType
<1>5. ClientMoves(t)
  BY <1>1 DEF ClientMoves, Sets, TypeInv, ClientType
<1>6. ClientAt(t)'
  BY <1>1, <1>4, AtFacts DEF TypeInv, ClientAt
<1>7. ~Live(t)' /\ outdated' \in SUBSET Txns
  BY <1>1, <1>2 DEF Live, TypeInv, HistoryType
<1>8. pc'[t] \in {"place", "put"} => Imports(t)'
  BY <1>1, <1>2 DEF Inv, Importing, Imports
<1>9. pc'[t] = "update" => req'[t].modules \subseteq Inner
  BY <1>1 DEF Inv, Updating
<1> QED BY <1>1, <1>2, <1>3, <1>5, <1>6, <1>7, <1>8, <1>9, QuietAct

\* What is the case of a request that has not begun.
LEMMA FreshFacts ==
  ASSUME TypeInv, NEW t \in Txns, Fresh(t)
  PROVE  /\ pc[t] = "idle" /\ session[t] = "none" /\ t \notin counted
         /\ todo[t] = << >> /\ late[t] = << >> /\ ~Active(t)
         /\ buf[t] = Nothing /\ stale[t] = {}
<1>1. pc[t] = "idle"
  BY DEF Fresh
<1>2. session[t] = "none" /\ t \notin counted /\ todo[t] = << >> /\ late[t] = << >>
  BY <1>1 DEF TypeInv, ClientType
<1>3. ~Active(t)
  BY <1>2 DEF Active
<1> QED BY <1>1, <1>2, <1>3 DEF TypeInv, StoreType

\* The plan of an automatic transfer is made before its transaction.
LEMMA MakePlanStep ==
  ASSUME TypeInv, Inv, NEW t \in Txns, MakePlan(t)
  PROVE  Kept(t)
<1>1. PICK r \in Requests :
          /\ r.kind = "auto" /\ req' = [req EXCEPT ![t] = r]
          /\ \/ Goto(t, "done") /\ Answer(t, "error") /\ UNCHANGED plan
             \/ /\ Goto(t, "check") /\ UNCHANGED answer
                /\ \/ UNCHANGED plan
                   \/ \E h \in r.hosts : plan' = [plan EXCEPT ![t] = Final(r, h)]
  BY DEF MakePlan
<1>2. /\ NoFail /\ UNCHANGED store /\ UNCHANGED << todo, late >> /\ Fresh(t)
      /\ UNCHANGED << skewed, blind, strayed, emptied, outdated >>
  BY DEF MakePlan, history
<1>3. /\ pc[t] = "idle" /\ session[t] = "none" /\ t \notin counted
      /\ todo[t] = << >> /\ late[t] = << >> /\ ~Active(t)
  BY <1>2, FreshFacts
<1>4. req'[t] = r /\ pc'[t] \in {"done", "check"}
      /\ answer'[t] \in {"none", "ok", "error"}
  BY <1>1 DEF Goto, Answer, TypeInv, ClientType
<1>5. plan'[t] \in SUBSET Modules /\ Sets(plan, plan', t)
  <2>1. ASSUME NEW h \in r.hosts
        PROVE  Final(r, h) \in SUBSET Modules
    <3>1. r.modules \in SUBSET Modules /\ r.biz \in Businesses
      BY RequestsAssumption
    <3>2. IdleOf[r.biz] \in Modules
      BY <3>1, ModulesAssumption
    <3> QED BY <3>1, <3>2 DEF Final, InBiz
  <2> QED BY <1>1, <2>1 DEF Sets, TypeInv, ClientType
<1>6. ClientMoves(t)
  BY <1>1, <1>2, <1>4, <1>5 DEF ClientMoves, Sets, Goto, Answer, TypeInv, ClientType
<1>7. UNCHANGED << session, counted >>
  BY <1>2 DEF store
<1>8. ClientAt(t)'
  BY <1>1, <1>2, <1>3, <1>4, <1>5, <1>7, AtFacts DEF TypeInv, ClientAt, Labels
<1>9. ~Live(t)' /\ outdated' \in SUBSET Txns
  BY <1>2, <1>4 DEF Live, TypeInv, HistoryType
<1> QED BY <1>2, <1>4, <1>6, <1>8, <1>9, StoreStep, QuietAct

\* A change of directory finds its hosts, and the directory.
LEMMA FindStep ==
  ASSUME TypeInv, Inv, NEW t \in Txns, Find(t)
  PROVE  Kept(t)
<1>1. PICK r \in Requests :
          /\ req' = [req EXCEPT ![t] = r]
          /\ \/ Goto(t, "update") /\ UNCHANGED answer /\ r.modules \subseteq Inner
             \/ Goto(t, "done") /\ Answer(t, "error")
  BY DEF Find
<1>2. /\ NoFail /\ UNCHANGED store /\ UNCHANGED << plan, todo, late >> /\ Fresh(t)
      /\ UNCHANGED << skewed, blind, strayed, emptied, outdated >>
  BY DEF Find, history
<1>3. todo[t] = << >> /\ late[t] = << >>
  BY <1>2, FreshFacts
<1>4. req'[t] = r /\ (pc'[t] = "done" \/ (pc'[t] = "update" /\ r.modules \subseteq Inner))
      /\ answer'[t] \in {"none", "ok", "error"}
  BY <1>1 DEF Goto, Answer, TypeInv, ClientType
<1>5. ClientMoves(t)
  BY <1>1, <1>2, <1>4 DEF ClientMoves, Sets, Goto, Answer, TypeInv, ClientType
<1>6. ClientAt(t)'
  BY <1>1, <1>2, <1>3, <1>4, AtFacts DEF TypeInv, ClientAt, Labels
<1>7. ~Live(t)' /\ outdated' \in SUBSET Txns
  BY <1>2, <1>4 DEF Live, TypeInv, HistoryType
<1>8. /\ StoreType' /\ Alone' /\ db' = db /\ OthersKept(t) /\ stale'[t] \subseteq stale[t]
      /\ counted' = counted
  BY <1>2, StoreStep
<1>9. /\ counted' \subseteq counted \cup {t} /\ (pc'[t] \in {"place", "put"} => Imports(t)')
      /\ (pc'[t] = "update" => req'[t].modules \subseteq Inner)
  BY <1>4, <1>8
<1> QED BY <1>2, <1>5, <1>6, <1>7, <1>8, <1>9, QuietAct

\* A transaction that begins with valid commands runs as they were planned.
LEMMA BeginRuns ==
  ASSUME TypeInv, Inv, NEW t \in Txns, NEW r \in Requests, NEW ms \in SUBSET Modules,
         r.kind \notin {"import", "directory"}, Checked(r, ms).ok,
         req'[t] = r, todo'[t] = Checked(r, ms).todo, buf'[t] = Nothing, stale'[t] = {},
         UNCHANGED << db, blind, skewed, strayed >>
  PROVE  Runs(t)' /\ todo'[t] \in Seq(Writes) /\ todo'[t] # << >>
<1> DEFINE q == Checked(r, ms).todo
           odd == skewed \cup strayed
<1>1. StoreType /\ Sound(db, blind, skewed, strayed, emptied) /\ db \in [Docs -> Vals]
  BY DEF TypeInv, Inv, StoreType
<1>2. Planned(r, db, q, blind, odd)
  BY <1>1, CheckedFits
<1> HIDE DEF q, odd
<1>3. q \in Seq(Writes) /\ Len(q) \in 1 .. 4 /\ Fits(r, db, Then(q, Nothing), blind, odd)
  BY <1>2 DEF Planned
<1>4. Len(q) <= 4 /\ q # << >>
  <2> DEFINE n == Len(q)
  <2>1. (q = << >>) <=> (n = 0)
    BY <1>3, EmptyIff
  <2>2. n \in 1 .. 4
    BY <1>3
  <2> HIDE DEF n
  <2>3. n <= 4 /\ n # 0
    BY <2>2
  <2> QED BY <2>1, <2>3 DEF n
<1>5. Snapshot(db, {}, r, Then(q, Nothing), blind, odd)
  BY <1>1, <1>3 DEF Snapshot
<1>6. Collides({}, r, Then(q, Nothing), blind)
  BY DEF Collides
<1>7. todo'[t] = q /\ Goal(t)' = Then(q, Nothing) /\ odd' = odd
  BY DEF q, Goal, odd
<1>8. Snapshot(db', stale[t]', req[t]', Goal(t)', blind', (skewed \cup strayed)')
  BY <1>5, <1>7 DEF odd
<1>9. Collides(stale[t]', req[t]', Goal(t)', blind')
  BY <1>6, <1>7
<1> QED BY <1>3, <1>4, <1>7, <1>8, <1>9 DEF Runs

\* The first read of a transaction starts it, and the request goes on with its commands or
\* gives up.
LEMMA FirstStep ==
  ASSUME TypeInv, Inv, NEW t \in Txns, NEW r \in Requests, NEW ms \in SUBSET Modules,
         r.kind \notin {"import", "directory"}, pc[t] \in {"idle", "check"},
         Sets(req, req', t), req'[t] = r, First(t, Checked(r, ms)),
         UNCHANGED << plan, late, answer, skewed, blind, strayed, emptied >>,
         outdated' \in SUBSET Txns, outdated \subseteq outdated'
  PROVE  Kept(t)
<1> DEFINE c == Checked(r, ms)
<1>1. /\ Execute(t, Nothing) /\ NoFail
      /\ todo' = [todo EXCEPT ![t] = IF c.ok THEN c.todo ELSE << >>]
      /\ pc' = [pc EXCEPT ![t] = IF c.ok THEN "write" ELSE "abort"]
  BY DEF First, Goto
<1> HIDE DEF c
<1>2. session[t] = "none" /\ t \notin counted /\ late[t] = << >>
  BY DEF TypeInv, ClientType
<1>3. buf[t] = Nothing /\ stale[t] = {}
  BY <1>2 DEF TypeInv, StoreType, Active
<1>4. Succeeds(t, Nothing)
  BY <1>2, NothingFacts DEF Succeeds, Accepts, Conflicts
<1>5. /\ StoreType' /\ Alone' /\ db' = db /\ OthersKept(t) /\ counted' = counted \cup {t}
      /\ Active(t)' /\ buf'[t] = Over(Nothing, buf[t]) /\ stale'[t] = stale[t]
  BY <1>1, <1>4, ExecuteFacts, NothingFacts DEF TypeInv, Inv
<1>6. buf'[t] = Nothing
  BY <1>3, <1>5, OverAudit, NothingFacts
<1>7. /\ pc'[t] = (IF c.ok THEN "write" ELSE "abort")
      /\ todo'[t] = (IF c.ok THEN c.todo ELSE << >>)
  BY <1>1 DEF TypeInv, ClientType
<1>8. c.ok => Runs(t)' /\ todo'[t] \in Seq(Writes) /\ todo'[t] # << >>
  <2> SUFFICES ASSUME c.ok
               PROVE  Runs(t)' /\ todo'[t] \in Seq(Writes) /\ todo'[t] # << >>
    OBVIOUS
  <2>1. todo'[t] = c.todo
    BY <1>7
  <2> QED BY <2>1, <1>3, <1>5, <1>6, BeginRuns DEF c
<1>9. ClientMoves(t)
  BY <1>1, <1>7 DEF ClientMoves, Sets, TypeInv, ClientType
<1>10. ClientAt(t)'
  <2>1. session'[t] = "active"
    BY <1>5 DEF Active
  <2>2. plan'[t] \in SUBSET Modules /\ late'[t] = << >> /\ answer'[t] \in {"none", "ok", "error"}
    BY <1>2 DEF TypeInv, ClientType
  <2>3. CASE c.ok
    <3>1. pc'[t] = "write" /\ todo'[t] \in Seq(Writes) /\ todo'[t] # << >>
      BY <2>3, <1>7, <1>8
    <3> QED BY <2>1, <2>2, <3>1 DEF ClientAt, Labels
  <2>4. CASE ~c.ok
    <3>1. pc'[t] = "abort" /\ todo'[t] = << >>
      BY <2>4, <1>7
    <3> QED BY <2>1, <2>2, <3>1 DEF ClientAt, Labels
  <2> QED BY <2>3, <2>4
<1>11. /\ Live(t)' => Runs(t)'
       /\ pc'[t] \notin {"place", "put", "update"}
  <2>1. CASE c.ok
    BY <2>1, <1>7, <1>8
  <2>2. CASE ~c.ok
    BY <2>2, <1>7 DEF Live
  <2> QED BY <2>1, <2>2
<1>12. stale'[t] \subseteq stale[t] /\ counted' \subseteq counted \cup {t}
  BY <1>5
<1> QED BY <1>1, <1>5, <1>9, <1>10, <1>11, <1>12, QuietAct

\* A request starts its transaction.
LEMMA StartStep ==
  ASSUME TypeInv, Inv, NEW t \in Txns, Start(t)
  PROVE  Kept(t)
<1>1. PICK r \in Requests :
          /\ r.kind \notin {"auto", "import", "directory"} /\ req' = [req EXCEPT ![t] = r]
          /\ First(t, Checked(r, {})) /\ UNCHANGED << plan, late, answer, history >>
  BY DEF Start
<1>2. pc[t] = "idle"
  BY DEF Start, Fresh
<1>3. req'[t] = r /\ Sets(req, req', t)
  BY <1>1 DEF Sets, TypeInv, ClientType
<1>4. UNCHANGED << plan, late, answer, skewed, blind, strayed, emptied >>
      /\ outdated' \in SUBSET Txns /\ outdated \subseteq outdated'
  BY <1>1 DEF history, TypeInv, HistoryType
<1>5. {} \in SUBSET Modules /\ First(t, Checked(r, {})) /\ r.kind \notin {"import", "directory"}
  BY <1>1
<1> QED BY <1>2, <1>3, <1>4, <1>5, FirstStep

\* So does an automatic transfer, with its plan.
LEMMA RunPlanStep ==
  ASSUME TypeInv, Inv, NEW t \in Txns, RunPlan(t)
  PROVE  Kept(t)
<1>1. /\ pc[t] = "check" /\ First(t, Checked(req[t], plan[t]))
      /\ outdated' \in {outdated, outdated \cup {t}}
      /\ UNCHANGED << req, plan, late, answer, skewed, blind, strayed, emptied >>
  BY DEF RunPlan
<1>2. /\ req[t] \in Requests /\ req[t].kind = "auto" /\ plan[t] \in SUBSET Modules
      /\ outdated \subseteq outdated'
      /\ req'[t] = req[t] /\ Sets(req, req', t) /\ outdated' \in SUBSET Txns
  BY <1>1 DEF Sets, TypeInv, ClientType, HistoryType
<1> QED BY <1>1, <1>2, FirstStep

\* A command that succeeds leaves what the transaction will have written as it is.
LEMMA CallGoal ==
  ASSUME TypeInv, Inv, NEW t \in Txns, Call(t), Succeeds(t, Head(todo[t]))
  PROVE  /\ Live(t) /\ Active(t)' /\ db' = db /\ stale'[t] = stale[t] /\ Goal(t)' = Goal(t)
         /\ pc'[t] = (IF Len(todo[t]) = 1 THEN "commit" ELSE "write")
         /\ todo'[t] = Tail(todo[t]) /\ Len(todo[t]) <= 4
<1> DEFINE w == Head(todo[t])
<1>1. /\ pc[t] = "write" /\ Execute(t, w)
      /\ todo' = [todo EXCEPT ![t] = Tail(@)]
      /\ pc' = [pc EXCEPT ![t] = IF Len(todo[t]) = 1 THEN "commit" ELSE "write"]
  BY DEF Call, Goto
<1>2. /\ todo[t] \in Seq(Writes) /\ todo[t] # << >> /\ session[t] # "none"
  BY <1>1 DEF TypeInv, ClientType
<1>3. w \in Writes
  BY <1>2, TailFacts
<1>4. Succeeds(t, w)
  OBVIOUS
<1> HIDE DEF w
<1>5. /\ pc'[t] = (IF Len(todo[t]) = 1 THEN "commit" ELSE "write")
      /\ todo'[t] = Tail(todo[t])
  BY <1>1 DEF TypeInv, ClientType
<1>6. Active(t)' /\ buf'[t] = Over(w, buf[t]) /\ stale'[t] = stale[t] /\ db' = db
  BY <1>1, <1>3, <1>4, ExecuteFacts DEF TypeInv, Inv
<1>7. Live(t)
  BY <1>1, <1>2, <1>4 DEF Live, Active, Succeeds, Accepts
<1>8. Len(todo[t]) <= 4
  BY <1>7 DEF Inv, Running, Runs
<1>9. Goal(t)' = Goal(t)
  <2>1. Then(Tail(todo[t]), Over(Head(todo[t]), buf[t])) = Then(todo[t], buf[t])
    BY <1>2, <1>8, ThenTail
  <2> QED BY <2>1, <1>5, <1>6 DEF Goal, w
<1> QED BY <1>5, <1>6, <1>7, <1>8, <1>9

\* A command of a transaction.
LEMMA CallStep ==
  ASSUME TypeInv, Inv, NEW t \in Txns, Call(t)
  PROVE  Kept(t)
<1> DEFINE w == Head(todo[t])
<1>1. /\ pc[t] = "write" /\ Execute(t, w) /\ NoFail
      /\ IF Succeeds(t, w)
         THEN /\ todo' = [todo EXCEPT ![t] = Tail(@)]
              /\ pc' = [pc EXCEPT ![t] = IF Len(todo[t]) = 1 THEN "commit" ELSE "write"]
         ELSE todo' = [todo EXCEPT ![t] = << >>] /\ pc' = [pc EXCEPT ![t] = "abort"]
      /\ UNCHANGED << req, plan, late, answer >>
      /\ UNCHANGED << skewed, blind, strayed, emptied, outdated >>
  BY DEF Call, Goto, history
<1>2. /\ todo[t] \in Seq(Writes) /\ todo[t] # << >> /\ late[t] = << >>
      /\ session[t] # "none" /\ req[t] \in Requests
  BY <1>1 DEF TypeInv, ClientType
<1>3. /\ w \in Writes /\ Tail(todo[t]) \in Seq(Writes)
      /\ Tail(todo[t]) = << >> <=> Len(todo[t]) = 1
      /\ Len(todo[t]) \in Nat \ {0} /\ Len(Tail(todo[t])) = Len(todo[t]) - 1
  BY <1>2, TailFacts
<1> HIDE DEF w
<1>4. /\ StoreType' /\ Alone' /\ db' = db /\ OthersKept(t) /\ stale'[t] \subseteq stale[t]
      /\ counted' \subseteq counted \cup {t}
  BY <1>1, <1>3, ExecuteQuiet
<1>5. ClientMoves(t)
  <2>1. Sets(todo, todo', t) /\ Sets(pc, pc', t)
    BY <1>1 DEF Sets, TypeInv, ClientType
  <2> QED BY <1>1, <2>1 DEF ClientMoves, Sets, TypeInv, ClientType
<1>6. CASE Succeeds(t, w)
  <2>1. /\ Live(t) /\ Active(t)' /\ stale'[t] = stale[t] /\ Goal(t)' = Goal(t)
        /\ pc'[t] = (IF Len(todo[t]) = 1 THEN "commit" ELSE "write")
        /\ todo'[t] = Tail(todo[t])
    BY <1>6, CallGoal DEF w
  <2>2. /\ Len(todo[t]) <= 4
        /\ Snapshot(db, stale[t], req[t], Goal(t), blind, skewed \cup strayed)
        /\ Collides(stale[t], req[t], Goal(t), blind)
    BY <2>1 DEF Inv, Running, Runs
  <2>3. Runs(t)'
    <3>1. Len(todo[t])' <= 4
      BY <1>3, <2>1, <2>2
    <3>2. Snapshot(db', stale[t]', req[t]', Goal(t)', blind', (skewed \cup strayed)')
      BY <1>1, <1>4, <2>1, <2>2
    <3>3. Collides(stale[t]', req[t]', Goal(t)', blind')
      BY <1>1, <2>1, <2>2
    <3> QED BY <3>1, <3>2, <3>3 DEF Runs
  <2>4. ClientAt(t)'
    <3>1. session'[t] = "active"
      BY <2>1 DEF Active
    <3> QED BY <3>1, <1>1, <1>2, <1>3, <2>1, AtFacts DEF TypeInv, ClientAt, Labels
  <2>5. pc'[t] \notin {"place", "put", "update"} /\ outdated' \in SUBSET Txns
    BY <1>1, <2>1 DEF TypeInv, HistoryType
  <2> QED BY <1>1, <1>4, <1>5, <2>3, <2>4, <2>5, QuietAct
<1>7. CASE ~Succeeds(t, w)
  <2>1. pc'[t] = "abort" /\ todo'[t] = << >>
    BY <1>1, <1>7 DEF TypeInv, ClientType
  <2>2. ClientAt(t)'
    BY <1>1, <1>2, <2>1, AtFacts DEF TypeInv, ClientAt, Labels
  <2>3. ~Live(t)' /\ outdated' \in SUBSET Txns /\ pc'[t] \notin {"place", "put", "update"}
    BY <1>1, <2>1 DEF Live, TypeInv, HistoryType
  <2> QED BY <1>1, <1>4, <1>5, <2>2, <2>3, QuietAct
<1> QED BY <1>6, <1>7

\* A commit publishes what was planned, and tells what it did not know.
LEMMA CommitStep ==
  ASSUME TypeInv, Inv, NEW t \in Txns, pc[t] = "commit", CommitKnown(t), pc'[t] = "done",
         ClientMoves(t), ClientAt(t)', NoFail \/ \E k \in Faults : Fail(k)
  PROVE  Kept(t)
<1>1. ~Live(t)' /\ pc'[t] \notin {"place", "put", "update"}
  BY DEF Live
<1>2. /\ Commit(t) /\ UNCHANGED << strayed, outdated >>
      /\ skewed' = (IF Active(t) THEN skewed \cup Unknown(t) ELSE skewed)
      /\ blind' = (IF Active(t) /\ req[t].kind = "append" THEN blind \cup req[t].hosts
                   ELSE blind)
      /\ emptied' = (IF Active(t) THEN emptied \cup Vanished(t) ELSE emptied)
  BY DEF CommitKnown
<1>3. req[t] \in Requests /\ todo[t] = << >> /\ stale[t] \in SUBSET Docs /\ buf[t] \in Writes
      /\ db \in [Docs -> Vals]
  BY DEF TypeInv, ClientType, StoreType
<1>4. CASE ~Active(t)
  <2>1. UNCHANGED << db, session, buf, stale >> /\ counted' = counted \cup {t}
    BY <1>2, <1>4 DEF Commit
  <2>2. StoreType' /\ Alone' /\ db' = db /\ OthersKept(t) /\ stale'[t] \subseteq stale[t]
    BY <2>1 DEF TypeInv, Inv, StoreType, Alone, OthersKept, Active
  <2>3. /\ UNCHANGED << skewed, blind, strayed, emptied >> /\ outdated' \in SUBSET Txns
        /\ counted' \subseteq counted \cup {t} /\ outdated \subseteq outdated'
    BY <1>2, <1>4, <2>1 DEF TypeInv, HistoryType
  <2> QED BY <1>1, <2>2, <2>3, QuietAct
<1>5. CASE Active(t)
  <2> DEFINE g == buf[t]
             r == req[t]
             st == stale[t]
             odd == skewed \cup strayed
  <2>1. /\ StoreType' /\ Alone' /\ db' = Over(g, db) /\ OthersStale(t, g)
        /\ counted' \in SUBSET counted /\ stale'[t] = {}
    BY <1>2, <1>5, CommitFacts DEF TypeInv, Inv
  <2>2. Goal(t) = g
    <3>1. Len(todo[t]) = 0
      BY <1>3
    <3> QED BY <3>1 DEF Goal, Then
  <2>3. Runs(t)
    BY <1>5 DEF Inv, Running, Live
  <2>4. Snapshot(db, st, r, g, blind, odd) /\ Collides(st, r, g, blind)
    BY <2>2, <2>3 DEF Runs
  <2>5. Sound(db, blind, skewed, strayed, emptied) /\ skewed \subseteq blind
        /\ (\A h \in Hosts \cap st : db[h] # Absent) /\ DOMAIN g \cap st = {}
    BY <1>5 DEF Inv, Lasting, Alone
  <2>6. /\ skewed' = skewed \cup {h \in r.hosts : \E m \in Modules : <<h, m>> \in st}
        /\ blind' = (IF r.kind = "append" THEN blind \cup r.hosts ELSE blind)
        /\ emptied' = emptied \cup Vanished(t)
    BY <1>2, <1>5 DEF Unknown
  <2>7. Told(st, r, g, blind, skewed, emptied, blind', skewed', emptied')
    <3>1. ASSUME NEW m \in Modules \ emptied'
          PROVE  /\ r.kind = "deletemodule" /\ m \in r.modules
                        => \A h \in Hosts : <<h, m>> \notin st
                 /\ r.kind # "deletemodule" /\ m \in st =>
                        \A h \in Hosts : <<h, m>> \in DOMAIN g => g[<<h, m>>] = Absent
      BY <2>6 DEF Vanished
    <3>2. blind \subseteq blind' /\ (r.kind = "append" => r.hosts \subseteq blind')
          /\ emptied \subseteq emptied' /\ st \cap DOMAIN g = {}
      BY <2>5, <2>6
    <3> HIDE DEF r, g, st
    <3> QED BY <2>6, <3>1, <3>2 DEF Told
  <2> HIDE DEF g, r, st, odd
  <2>8. db \in [Docs -> Vals] /\ st \in SUBSET Docs /\ r \in Requests /\ g \in Writes
    BY <1>3 DEF g, st, r
  <2>9. Lands(db, st, r, g, blind, skewed \cup strayed)
    BY <2>4, <2>8, SnapshotLands DEF odd
  <2>c. Committed(db, g, blind', skewed', strayed, emptied')
    <3>1. Sound(db, blind, skewed, strayed, emptied)
      BY <2>5
    <3>2. skewed \subseteq blind
      BY <2>5
    <3>3. \A h \in Hosts \cap st : db[h] # Absent
      BY <2>5
    <3>4. Collides(st, r, g, blind)
      BY <2>4
    <3> QED BY <3>1, <3>2, <3>3, <3>4, <2>7, <2>8, <2>9, CommitSound
  <2>10. /\ Sound(Over(g, db), blind', skewed', strayed, emptied') /\ skewed' \subseteq blind'
         /\ \A h \in Hosts \ blind' : DOMAIN g \cap HostKeys(h) # {} => Grabs(db, g, h)
    BY <2>c DEF Committed
  <2>11. Gentle(g)
    <3>1. WritesHosts(r, g)
      BY <2>9 DEF Lands
    <3>2. \A h \in Hosts \cap DOMAIN g : g[h] # Absent
      BY <3>1, ValueFacts DEF WritesHosts
    <3> QED BY <3>2, <2>10 DEF Gentle
  <2>12. Histories /\ UNCHANGED outdated
    BY <1>2, <2>6, <2>10 DEF Histories
  <2>13. /\ skewed' \in SUBSET Hosts /\ blind' \in SUBSET Hosts /\ strayed' \in SUBSET Hosts
         /\ emptied' \in SUBSET Modules
    <3>1. r.hosts \in SUBSET Hosts /\ r.modules \in SUBSET Modules
      BY <2>8, RequestsAssumption
    <3>2. Vanished(t) \in SUBSET Modules
      BY <3>1 DEF Vanished, r
    <3> QED BY <1>2, <2>6, <3>1, <3>2 DEF TypeInv, HistoryType
  <2>14. /\ Sound(db', blind', skewed', strayed', emptied')
         /\ stale'[t] \subseteq stale[t] \cup DOMAIN g /\ counted' \subseteq counted \cup {t}
    BY <1>2, <2>1, <2>10
  <2> QED BY <1>1, <2>1, <2>8, <2>11, <2>12, <2>13, <2>14, PublishAct
<1> QED BY <1>4, <1>5

\* A call to commit.
LEMMA CallCommitStep ==
  ASSUME TypeInv, Inv, NEW t \in Txns, CallCommit(t)
  PROVE  Kept(t)
<1>1. /\ pc[t] = "commit" /\ CommitKnown(t) /\ pc' = [pc EXCEPT ![t] = "done"]
      /\ answer' = [answer EXCEPT ![t] = IF Active(t) THEN "ok" ELSE "error"]
      /\ NoFail /\ UNCHANGED << req, plan, todo, late >>
  BY DEF CallCommit, Goto, Answer
<1>2. pc'[t] = "done" /\ answer'[t] \in {"ok", "error"} /\ todo[t] = << >>
  BY <1>1 DEF TypeInv, ClientType
<1>3. ClientMoves(t)
  BY <1>1, <1>2 DEF ClientMoves, Sets, TypeInv, ClientType
<1>4. ClientAt(t)'
  BY <1>1, <1>2, AtFacts DEF TypeInv, ClientAt, Labels
<1> QED BY <1>1, <1>2, <1>3, <1>4, CommitStep

\* A call to commit that fails, whether the commit was done or not.
LEMMA CommitFailsStep ==
  ASSUME TypeInv, Inv, NEW t \in Txns, CommitFails(t)
  PROVE  Kept(t)
<1>1. /\ pc[t] = "commit" /\ pc' = [pc EXCEPT ![t] = "done"]
      /\ CommitKnown(t) \/ (UNCHANGED store /\ UNCHANGED history)
      /\ answer' = [answer EXCEPT ![t] = "error"]
      /\ NoFail \/ \E k \in Faults : Fail(k)
      /\ UNCHANGED << req, plan, todo, late >>
  BY DEF CommitFails, Goto, Answer, Fail
<1>2. pc'[t] = "done" /\ answer'[t] = "error" /\ todo[t] = << >>
  BY <1>1 DEF TypeInv, ClientType
<1>3. ClientMoves(t)
  BY <1>1, <1>2 DEF ClientMoves, Sets, TypeInv, ClientType
<1>4. ClientAt(t)'
  BY <1>1, <1>2, AtFacts DEF TypeInv, ClientAt, Labels
<1>5. CASE CommitKnown(t)
  BY <1>1, <1>2, <1>3, <1>4, <1>5, CommitStep
<1>6. CASE UNCHANGED store /\ UNCHANGED history
  <2>1. ~Live(t)' /\ pc'[t] \notin {"place", "put", "update"}
    BY <1>2 DEF Live
  <2>2. /\ UNCHANGED << skewed, blind, strayed, emptied >> /\ outdated' \in SUBSET Txns
        /\ outdated \subseteq outdated'
    BY <1>6 DEF history, TypeInv, HistoryType
  <2>3. /\ StoreType' /\ Alone' /\ db' = db /\ OthersKept(t) /\ stale'[t] \subseteq stale[t]
        /\ counted' \subseteq counted \cup {t}
    BY <1>6, StoreStep
  <2> QED BY <1>1, <1>3, <1>4, <2>1, <2>2, <2>3, QuietAct
<1> QED BY <1>1, <1>5, <1>6

\* A write of the request t outside any transaction.
LEMMA WriteQuiet ==
  ASSUME TypeInv, Inv, NEW t \in Txns, NEW w \in Writes, Write(w)
  PROVE  /\ StoreType' /\ Alone' /\ db' = Over(w, db) /\ OthersStale(t, w)
         /\ stale'[t] \subseteq stale[t] \cup DOMAIN w /\ counted' \subseteq counted \cup {t}
         /\ session'[t] = session[t]
<1>1. /\ StoreType' /\ Alone' /\ db' = Over(w, db) /\ OthersStale(t, w)
      /\ UNCHANGED << counted, session, buf >>
  BY PublishFacts DEF TypeInv, Inv
<1>2. stale'[t] = IF Active(t) THEN stale[t] \cup DOMAIN w ELSE stale[t]
  BY DEF Write, Publish
<1> QED BY <1>1, <1>2

\* To leave the store as it is is to publish nothing.
LEMMA NoWrite ==
  ASSUME TypeInv, Inv, NEW t \in Txns, UNCHANGED store
  PROVE  /\ StoreType' /\ Alone' /\ db' = Over(Nothing, db) /\ OthersStale(t, Nothing)
         /\ stale'[t] \subseteq stale[t] \cup DOMAIN Nothing /\ counted' \subseteq counted \cup {t}
<1>1. UNCHANGED << db, counted, session, buf, stale >>
  BY DEF store
<1>2. StoreType' /\ Alone'
  BY StoreStep
<1>3. Over(Nothing, db) = db
  BY OverNothing DEF TypeInv
<1>4. OthersStale(t, Nothing)
  BY <1>1, NothingFacts DEF OthersStale
<1> QED BY <1>1, <1>2, <1>3, <1>4

\* An import creates its host, whether it hears of it or not.
LEMMA NewHostStep ==
  ASSUME TypeInv, Inv, NEW t \in Txns, NewHost(t)
  PROVE  Kept(t)
<1>1. PICK r \in Requests : \E h \in r.hosts :
          /\ r.kind = "import" /\ db[h] = Absent /\ req' = [req EXCEPT ![t] = r]
          /\ \/ Write(Put({h}, Present)) /\ Goto(t, "place") /\ NoFail /\ UNCHANGED answer
             \/ /\ Fail("call") /\ Goto(t, "done") /\ Answer(t, "error")
                /\ Write(Put({h}, Present)) \/ UNCHANGED store
          /\ blind' = blind \cup {h}
  BY DEF NewHost
<1>2. PICK h \in r.hosts :
          /\ r.kind = "import" /\ db[h] = Absent /\ req' = [req EXCEPT ![t] = r]
          /\ \/ Write(Put({h}, Present)) /\ Goto(t, "place") /\ NoFail /\ UNCHANGED answer
             \/ /\ Fail("call") /\ Goto(t, "done") /\ Answer(t, "error")
                /\ Write(Put({h}, Present)) \/ UNCHANGED store
          /\ blind' = blind \cup {h}
  BY <1>1
<1>3. Fresh(t) /\ UNCHANGED << plan, todo, late, skewed, strayed, emptied, outdated >>
  BY DEF NewHost
<1>4. todo[t] = << >> /\ late[t] = << >> /\ todo'[t] = << >>
  BY <1>3, FreshFacts
<1>5. h \in Hosts /\ r.hosts = {h}
  BY <1>2, RequestsAssumption
<1>6. /\ req'[t] = r /\ pc'[t] \in {"place", "done"} /\ answer'[t] \in {"none", "ok", "error"}
      /\ NoFail \/ \E k \in Faults : Fail(k)
      /\ Write(Put({h}, Present)) \/ (UNCHANGED store /\ pc'[t] = "done")
  BY <1>2 DEF Goto, Answer, Fail, TypeInv, ClientType
<1>7. ClientMoves(t)
  BY <1>2, <1>3, <1>6 DEF ClientMoves, Sets, Goto, Answer, TypeInv, ClientType
<1>8. ClientAt(t)'
  BY <1>3, <1>4, <1>6, AtFacts DEF TypeInv, ClientAt, Labels
<1>9. ~Live(t)' /\ pc'[t] # "update"
  BY <1>6 DEF Live
<1>10. /\ skewed' \in SUBSET Hosts /\ blind' \in SUBSET Hosts /\ strayed' \in SUBSET Hosts
       /\ emptied' \in SUBSET Modules /\ UNCHANGED outdated /\ Histories
  BY <1>2, <1>3, <1>5 DEF TypeInv, HistoryType, Inv, Histories
<1>11. Sound(db, blind, skewed, strayed, emptied) /\ db \in [Docs -> Vals]
  BY DEF Inv, TypeInv, StoreType
<1>12. CASE Write(Put({h}, Present))
  <2> DEFINE w == Put({h}, Present)
  <2>1. w \in Writes /\ DOMAIN w = {h} /\ w[h] = Present
    <3>1. {h} \in SUBSET Docs
      BY <1>5, DocFacts
    <3> QED BY <3>1, PutFacts, ValueFacts
  <2>2. /\ Sound(Over(w, db), blind \cup {h}, skewed, strayed, emptied)
        /\ \A x \in Hosts \ (blind \cup {h}) : DOMAIN w \cap HostKeys(x) = {}
    BY <1>2, <1>5, <1>11, NewHostSound
  <2> HIDE DEF w
  <2>3. Gentle(w)
    BY <1>2, <2>1, <2>2, ValueFacts DEF Gentle
  <2>4. /\ StoreType' /\ Alone' /\ db' = Over(w, db) /\ OthersStale(t, w)
        /\ stale'[t] \subseteq stale[t] \cup DOMAIN w /\ counted' \subseteq counted \cup {t}
    BY <1>12, <2>1, WriteQuiet DEF w
  <2>5. Sound(db', blind', skewed', strayed', emptied')
    BY <1>2, <1>3, <2>2, <2>4
  <2>6. Imports(t)'
    <3>1. db'[h] = Present
      BY <1>5, <1>11, <2>1, <2>4, OverDb, DocFacts
    <3>2. /\ req'[t].kind = "import" /\ req'[t].hosts = {h} /\ h \in blind' /\ db'[h] # Absent
          /\ \A i \in DOMAIN todo'[t] : ImportWrite(h, todo'[t][i])
      BY <1>2, <1>4, <1>5, <1>6, <3>1, ValueFacts, EmptySeq
    <3> QED BY <1>5, <3>2 DEF Imports
  <2> QED BY <1>6, <1>7, <1>8, <1>9, <1>10, <2>1, <2>3, <2>4, <2>5, <2>6, PublishAct
<1>13. CASE UNCHANGED store /\ pc'[t] = "done"
  <2>1. /\ StoreType' /\ Alone' /\ db' = Over(Nothing, db) /\ OthersStale(t, Nothing)
        /\ stale'[t] \subseteq stale[t] \cup DOMAIN Nothing /\ counted' \subseteq counted \cup {t}
    BY <1>13, NoWrite
  <2>2. Gentle(Nothing) /\ Nothing \in Writes
    BY NothingFacts DEF Gentle
  <2>3. Sound(db', blind', skewed', strayed', emptied')
    <3>1. db' = db
      BY <1>13 DEF store
    <3> QED BY <1>2, <1>3, <1>11, <3>1, SoundGrows
  <2> QED BY <1>6, <1>7, <1>8, <1>9, <1>10, <1>13, <2>1, <2>2, <2>3, PublishAct
<1> QED BY <1>6, <1>12, <1>13

\* The transfer of an imported host has the commands of an import.
LEMMA PlaceCommands ==
  ASSUME StoreType, NEW h \in Hosts, NEW b \in Businesses, NEW m \in Modules,
         ToInner({h}, b, m).ok
  PROVE  /\ ToInner({h}, b, m).todo \in Seq(Writes) /\ ToInner({h}, b, m).todo # << >>
         /\ \A i \in DOMAIN ToInner({h}, b, m).todo : ImportWrite(h, ToInner({h}, b, m).todo[i])
<1> DEFINE del == Removed({h}, b, FALSE)
           add == Added({h}, {m}, b, FALSE)
           q == ToInner({h}, b, m).todo
<1>1. m \in Inner /\ BizOf[m] = b
  BY DEF ToInner, ValidModules
<1>2. del \in SUBSET ({h} \X Modules) /\ add \in SUBSET ({h} \X {m})
  BY DEF Removed, Added
<1>3. del \in SUBSET Docs /\ add \in SUBSET Docs
  BY <1>2 DEF Docs, Relations
<1>4. q = Commands(del, add, b)
  BY DEF ToInner, Transfer
<1> HIDE DEF q, del, add
<1> DEFINE x == Put(del, Absent)
           y == Put(add, b)
<1>5. q = IF add = {} THEN << x, Audit >> ELSE << x, y, Audit >>
  BY <1>4, CommandsAre
<1>6. x \in Writes /\ y \in Writes /\ Audit \in Writes
  BY <1>3, PutFacts, ValueFacts, NothingFacts
<1>7. ImportWrite(h, x)
  BY <1>2 DEF ImportWrite
<1>8. ImportWrite(h, y)
  BY <1>1, <1>2 DEF ImportWrite
<1>9. ImportWrite(h, Audit)
  <2>1. Put({}, Absent) = Audit
    <3>1. Put({}, Absent) = [k \in {} |-> Absent]
      BY DEF Put
    <3>2. Audit = [k \in {} |-> "none"]
      BY DEF Audit, Nothing
    <3> QED BY <3>1, <3>2
  <2>2. {} \in SUBSET ({h} \X Modules)
    OBVIOUS
  <2> QED BY <2>1, <2>2 DEF ImportWrite
<1> HIDE DEF x, y
<1> DEFINE z == Audit
           P(w) == ImportWrite(h, w)
           W == Writes
<1>10. x \in W /\ y \in W /\ z \in W /\ P(x) /\ P(y) /\ P(z)
       /\ q = IF add = {} THEN << x, z >> ELSE << x, y, z >>
  BY <1>5, <1>6, <1>7, <1>8, <1>9
<1> HIDE DEF z, P, W
<1>11. q \in Seq(W) /\ q # << >> /\ \A i \in DOMAIN q : P(q[i])
  <2>1. CASE q = << x, z >>
    <3>1. q \in Seq(W) /\ Len(q) = 2 /\ q[1] = x /\ q[2] = z /\ DOMAIN q = 1 .. 2
      BY <2>1, <1>10
    <3>2. q # << >>
      <4>1. (q = << >>) <=> (Len(q) = 0)
        BY <3>1, EmptyIff
      <4> DEFINE n == Len(q)
      <4>2. n = 2 /\ ((q = << >>) <=> (n = 0))
        BY <3>1, <4>1
      <4> HIDE DEF n
      <4> QED BY <4>2
    <3> QED BY <3>1, <3>2, <1>10
  <2>2. CASE q = << x, y, z >>
    <3>1. q \in Seq(W) /\ Len(q) = 3 /\ q[1] = x /\ q[2] = y /\ q[3] = z /\ DOMAIN q = 1 .. 3
      BY <2>2, <1>10
    <3>2. q # << >>
      <4>1. (q = << >>) <=> (Len(q) = 0)
        BY <3>1, EmptyIff
      <4> DEFINE n == Len(q)
      <4>2. n = 3 /\ ((q = << >>) <=> (n = 0))
        BY <3>1, <4>1
      <4> HIDE DEF n
      <4> QED BY <4>2
    <3> QED BY <3>1, <3>2, <1>10
  <2> QED BY <2>1, <2>2, <1>10
<1> QED BY <1>11 DEF q, P, W

\* The transfer of an import is checked.
LEMMA PlaceStep ==
  ASSUME TypeInv, Inv, NEW t \in Txns, Place(t)
  PROVE  Kept(t)
<1> DEFINE m == CHOOSE x \in req[t].modules : TRUE
           b == req[t].biz
<1>1. /\ pc[t] = "place" /\ NoFail /\ UNCHANGED store /\ UNCHANGED << req, plan, late >>
      /\ UNCHANGED << skewed, blind, strayed, emptied, outdated >>
      /\ IF ToInner(req[t].hosts, b, m).ok
         THEN /\ todo' = [todo EXCEPT ![t] = ToInner(req[t].hosts, b, m).todo]
              /\ pc' = [pc EXCEPT ![t] = "put"] /\ UNCHANGED answer
         ELSE /\ pc' = [pc EXCEPT ![t] = "done"] /\ answer' = [answer EXCEPT ![t] = "error"]
              /\ UNCHANGED todo
  BY DEF Place, Goto, Answer, history
<1>2. PICK h \in Hosts :
         /\ req[t].kind = "import" /\ req[t].hosts = {h} /\ h \in blind /\ db[h] # Absent
         /\ \A i \in DOMAIN todo[t] : ImportWrite(h, todo[t][i])
  BY <1>1 DEF Inv, Importing, Imports
<1>3. req[t] \in Requests /\ todo[t] = << >> /\ late[t] = << >>
  BY <1>1 DEF TypeInv, ClientType
<1>4. m \in Modules /\ b \in Businesses
  BY <1>2, <1>3, RequestsAssumption
<1> HIDE DEF m, b
<1>5. outdated' \in SUBSET Txns
  BY <1>1 DEF TypeInv, HistoryType
<1>6. /\ StoreType' /\ Alone' /\ db' = db /\ OthersKept(t) /\ stale'[t] \subseteq stale[t]
      /\ counted' \subseteq counted \cup {t}
  BY <1>1, StoreStep
<1>7. ClientMoves(t)
  <2>1. Sets(todo, todo', t) /\ Sets(pc, pc', t) /\ Sets(answer, answer', t)
    BY <1>1 DEF Sets, TypeInv, ClientType
  <2> QED BY <1>1, <2>1 DEF ClientMoves, Sets, TypeInv, ClientType
<1>8. CASE ToInner(req[t].hosts, b, m).ok
  <2> DEFINE q == ToInner({h}, b, m).todo
  <2>1. /\ q \in Seq(Writes) /\ q # << >> /\ \A i \in DOMAIN q : ImportWrite(h, q[i])
    BY <1>2, <1>4, <1>8, PlaceCommands DEF TypeInv
  <2>2. todo' = [todo EXCEPT ![t] = q] /\ pc' = [pc EXCEPT ![t] = "put"] /\ UNCHANGED answer
    BY <1>1, <1>2, <1>8
  <2> HIDE DEF q
  <2>3. todo'[t] = q /\ pc'[t] = "put"
    BY <2>2 DEF TypeInv, ClientType
  <2>4. ClientAt(t)'
    BY <1>1, <1>3, <2>1, <2>2, <2>3, AtFacts DEF TypeInv, ClientAt, Labels
  <2>5. Imports(t)'
    <3>1. /\ req'[t].kind = "import" /\ req'[t].hosts = {h} /\ h \in blind' /\ db'[h] # Absent
          /\ \A i \in DOMAIN todo'[t] : ImportWrite(h, todo'[t][i])
      BY <1>1, <1>2, <1>6, <2>1, <2>3
    <3> QED BY <3>1 DEF Imports
  <2>6. ~Live(t)' /\ pc'[t] # "update"
    BY <2>3 DEF Live
  <2> QED BY <1>1, <1>5, <1>6, <1>7, <2>4, <2>5, <2>6, QuietAct
<1>9. CASE ~ToInner(req[t].hosts, b, m).ok
  <2>1. pc'[t] = "done" /\ answer'[t] = "error" /\ UNCHANGED todo
    BY <1>1, <1>9 DEF TypeInv, ClientType
  <2>2. ClientAt(t)'
    BY <1>1, <1>3, <2>1, AtFacts DEF TypeInv, ClientAt, Labels
  <2>3. ~Live(t)' /\ pc'[t] \notin {"place", "put", "update"}
    BY <2>1 DEF Live
  <2> QED BY <1>1, <1>5, <1>6, <1>7, <2>2, <2>3, QuietAct
<1> QED BY <1>8, <1>9

\* A command of an import, written for itself.
LEMMA PutNextStep ==
  ASSUME TypeInv, Inv, NEW t \in Txns, PutNext(t)
  PROVE  Kept(t)
<1> DEFINE w == Head(todo[t])
           n == Len(todo[t])
<1>1. /\ pc[t] = "put" /\ (NoFail \/ \E k \in Faults : Fail(k))
      /\ \/ /\ Write(w) /\ todo' = [todo EXCEPT ![t] = Tail(@)]
            /\ pc' = [pc EXCEPT ![t] = IF n = 1 THEN "done" ELSE "put"]
            /\ answer' = [answer EXCEPT ![t] = IF n = 1 THEN "ok" ELSE "none"]
         \/ /\ UNCHANGED store \/ Write(w)
            /\ todo' = [todo EXCEPT ![t] = << >>]
            /\ pc' = [pc EXCEPT ![t] = "done"] /\ answer' = [answer EXCEPT ![t] = "error"]
      /\ skewed' = skewed \cup {x \in req[t].hosts : In(x) # {} /\ db' # db}
      /\ UNCHANGED << req, plan, late, blind, strayed, emptied, outdated >>
  BY DEF PutNext, Goto, Answer, Fail
<1>2. PICK h \in Hosts :
         /\ req[t].kind = "import" /\ req[t].hosts = {h} /\ h \in blind /\ db[h] # Absent
         /\ \A i \in DOMAIN todo[t] : ImportWrite(h, todo[t][i])
  BY <1>1 DEF Inv, Importing, Imports
<1>3. todo[t] \in Seq(Writes) /\ todo[t] # << >> /\ late[t] = << >>
  BY <1>1 DEF TypeInv, ClientType
<1>4. /\ w = todo[t][1] /\ 1 \in DOMAIN todo[t] /\ w \in Writes /\ Tail(todo[t]) \in Seq(Writes)
      /\ n \in Nat \ {0} /\ Len(Tail(todo[t])) = n - 1
      /\ (Tail(todo[t]) = << >>) <=> (n = 1)
  BY <1>3, TailFacts
<1>5. ImportWrite(h, w)
  BY <1>2, <1>4
<1>6. \A i \in DOMAIN Tail(todo[t]) : ImportWrite(h, Tail(todo[t])[i])
  <2>1. /\ DOMAIN Tail(todo[t]) = 1 .. n - 1 /\ DOMAIN todo[t] = 1 .. n
        /\ \A i \in 1 .. n - 1 : Tail(todo[t])[i] = todo[t][i + 1]
    BY <1>3, <1>4
  <2> HIDE DEF n
  <2>2. \A i \in 1 .. n - 1 : i + 1 \in 1 .. n
    BY <1>4
  <2> QED BY <1>2, <2>1, <2>2
<1> HIDE DEF w, n
<1>7. Sound(db, blind, skewed, strayed, emptied) /\ db \in [Docs -> Vals] /\ skewed \subseteq blind
  BY DEF Inv, TypeInv, StoreType
<1>8. /\ w \in Writes /\ DOMAIN w \subseteq HostKeys(h) /\ h \notin DOMAIN w
  BY <1>5, ImportWriteFacts
<1>9. ClientMoves(t)
  <2>1. Sets(todo, todo', t) /\ Sets(pc, pc', t) /\ Sets(answer, answer', t)
    BY <1>1 DEF Sets, TypeInv, ClientType
  <2> QED BY <1>1, <2>1 DEF ClientMoves, Sets, TypeInv, ClientType
<1>10. /\ \/ todo'[t] = Tail(todo[t]) /\ pc'[t] = (IF n = 1 THEN "done" ELSE "put") /\ Write(w)
          \/ todo'[t] = << >> /\ pc'[t] = "done"
       /\ answer'[t] \in {"none", "ok", "error"}
  BY <1>1 DEF TypeInv, ClientType
<1>11. /\ ClientAt(t)' /\ ~Live(t)' /\ pc'[t] \in {"put", "done"}
       /\ \A i \in DOMAIN todo'[t] : ImportWrite(h, todo'[t][i])
  <2>1. CASE todo'[t] = Tail(todo[t]) /\ pc'[t] = (IF n = 1 THEN "done" ELSE "put")
    <3>1. (todo'[t] # << >>) <=> (pc'[t] = "put")
      BY <2>1, <1>4
    <3>2. pc'[t] \in {"put", "done"} /\ todo'[t] \in Seq(Writes)
      BY <2>1, <1>4
    <3>3. ClientAt(t)'
      BY <3>1, <3>2, <1>1, <1>3, <1>10, AtFacts DEF TypeInv, ClientAt, Labels
    <3> QED BY <2>1, <3>2, <3>3, <1>6 DEF Live
  <2>2. CASE todo'[t] = << >> /\ pc'[t] = "done"
    <3>1. ClientAt(t)'
      BY <2>2, <1>1, <1>3, <1>10, AtFacts DEF TypeInv, ClientAt, Labels
    <3>2. DOMAIN todo'[t] = {}
      BY <2>2
    <3> QED BY <2>2, <3>1, <3>2 DEF Live
  <2> QED BY <1>10, <2>1, <2>2
<1>12. /\ skewed' \in SUBSET Hosts /\ blind' \in SUBSET Hosts /\ strayed' \in SUBSET Hosts
       /\ emptied' \in SUBSET Modules /\ UNCHANGED outdated /\ Histories
  <2>1. skewed' \subseteq skewed \cup {h}
    BY <1>1, <1>2
  <2> QED BY <1>1, <1>2, <1>7, <2>1 DEF TypeInv, HistoryType, Histories
<1>13. CASE Write(w)
  <2>1. /\ StoreType' /\ Alone' /\ db' = Over(w, db) /\ OthersStale(t, w)
        /\ stale'[t] \subseteq stale[t] \cup DOMAIN w /\ counted' \subseteq counted \cup {t}
    BY <1>4, <1>13, WriteQuiet
  <2>2. skewed' = skewed \cup {x \in {h} : At(db, x) # {} /\ Over(w, db) # db}
    BY <1>1, <1>2, <2>1 DEF In, At
  <2>3. /\ Sound(Over(w, db), blind, skewed', strayed, emptied)
        /\ \A x \in Hosts \ blind : DOMAIN w \cap HostKeys(x) = {}
    <3>1. h \in Hosts \cap blind /\ db[h] # Absent
      BY <1>2
    <3> QED BY <3>1, <1>5, <1>7, <2>2, ImportSound
  <2>4. Sound(db', blind', skewed', strayed', emptied')
    BY <1>1, <2>1, <2>3
  <2>5. Gentle(w)
    <3>1. \A x \in Hosts : x \notin DOMAIN w
      <4> SUFFICES ASSUME NEW x \in Hosts, x \in DOMAIN w
                   PROVE  FALSE
        OBVIOUS
      <4>1. x = h \/ \E m \in Modules : x = <<h, m>>
        BY <1>8, HostKeysFacts
      <4>2. x \notin Relations /\ \A m \in Modules : <<h, m>> \in Relations
        BY DocFacts
      <4> QED BY <4>1, <4>2, <1>8
    <3> QED BY <1>1, <2>3, <3>1 DEF Gentle
  <2>6. Imports(t)'
    <3>1. db'[h] = db[h]
      BY <1>4, <1>7, <1>8, <2>1, OverDb, DocFacts
    <3>2. /\ req'[t].kind = "import" /\ req'[t].hosts = {h} /\ h \in blind' /\ db'[h] # Absent
          /\ \A i \in DOMAIN todo'[t] : ImportWrite(h, todo'[t][i])
      BY <1>1, <1>2, <1>11, <3>1
    <3> QED BY <3>2 DEF Imports
  <2>7. pc'[t] # "update"
    BY <1>11
  <2> QED BY <1>1, <1>4, <1>9, <1>11, <1>12, <2>1, <2>4, <2>5, <2>6, <2>7, PublishAct
<1>14. CASE UNCHANGED store /\ pc'[t] = "done"
  <2>1. /\ StoreType' /\ Alone' /\ db' = db /\ OthersKept(t) /\ stale'[t] \subseteq stale[t]
        /\ counted' \subseteq counted \cup {t}
    BY <1>14, StoreStep
  <2>2. UNCHANGED << skewed, blind, strayed, emptied >> /\ outdated' \in SUBSET Txns
    BY <1>1, <2>1 DEF TypeInv, HistoryType
  <2> QED BY <1>1, <1>9, <1>11, <1>14, <2>1, <2>2, QuietAct
<1> QED BY <1>1, <1>10, <1>13, <1>14

\* A change of directory.
LEMMA UpdateStep ==
  ASSUME TypeInv, Inv, NEW t \in Txns, Update(t)
  PROVE  Kept(t)
<1>1. /\ pc[t] = "update" /\ pc' = [pc EXCEPT ![t] = "done"] /\ NoFail
      /\ UNCHANGED << req, plan, todo, late, skewed, blind, emptied, outdated >>
  BY DEF Update, Goto
<1>2. PICK h \in req[t].hosts : \E m \in req[t].modules :
        /\ \/ UNCHANGED << store, strayed >>
           \/ /\ m \notin In(h)
              /\ \E old \in In(h) :
                   /\ Write([d \in {<<h, old>>, <<h, m>>} |->
                             IF d[2] = m THEN db[<<h, old>>] ELSE Absent])
                   /\ strayed' = IF old \in Inner /\ db[<<h, old>>] = BizOf[m]
                                 THEN strayed ELSE strayed \cup {h}
        /\ Answer(t, IF Cardinality(In(h)) > 1 THEN "error" ELSE "ok")
  BY DEF Update
<1>3. PICK m \in req[t].modules :
        /\ \/ UNCHANGED << store, strayed >>
           \/ /\ m \notin In(h)
              /\ \E old \in In(h) :
                   /\ Write([d \in {<<h, old>>, <<h, m>>} |->
                             IF d[2] = m THEN db[<<h, old>>] ELSE Absent])
                   /\ strayed' = IF old \in Inner /\ db[<<h, old>>] = BizOf[m]
                                 THEN strayed ELSE strayed \cup {h}
        /\ Answer(t, IF Cardinality(In(h)) > 1 THEN "error" ELSE "ok")
  BY <1>2
<1>4. req[t] \in Requests /\ req[t].modules \subseteq Inner /\ todo[t] = << >> /\ late[t] = << >>
  BY <1>1 DEF TypeInv, ClientType, Inv, Updating
<1>5. h \in Hosts /\ m \in Inner
  BY <1>4, RequestsAssumption
<1>6. pc'[t] = "done" /\ answer'[t] \in {"ok", "error"} /\ Sets(answer, answer', t)
  BY <1>1, <1>3 DEF Answer, Sets, TypeInv, ClientType
<1>7. ClientMoves(t)
  BY <1>1, <1>6 DEF ClientMoves, Sets, TypeInv, ClientType
<1>8. ClientAt(t)' /\ ~Live(t)' /\ pc'[t] \notin {"place", "put", "update"}
  <2>1. ClientAt(t)'
    BY <1>1, <1>4, <1>6, AtFacts DEF TypeInv, ClientAt, Labels
  <2> QED BY <1>6, <2>1 DEF Live
<1>9. CASE UNCHANGED << store, strayed >>
  <2>1. /\ StoreType' /\ Alone' /\ db' = db /\ OthersKept(t) /\ stale'[t] \subseteq stale[t]
        /\ counted' \subseteq counted \cup {t}
    BY <1>9, StoreStep
  <2>2. UNCHANGED << skewed, blind, strayed, emptied >> /\ outdated' \in SUBSET Txns
    BY <1>1, <1>9 DEF TypeInv, HistoryType
  <2> QED BY <1>1, <1>7, <1>8, <2>1, <2>2, QuietAct
<1>10. CASE /\ m \notin In(h)
            /\ \E old \in In(h) :
                   /\ Write([d \in {<<h, old>>, <<h, m>>} |->
                             IF d[2] = m THEN db[<<h, old>>] ELSE Absent])
                   /\ strayed' = IF old \in Inner /\ db[<<h, old>>] = BizOf[m]
                                 THEN strayed ELSE strayed \cup {h}
  <2>1. PICK old \in In(h) :
           /\ Write([d \in {<<h, old>>, <<h, m>>} |->
                             IF d[2] = m THEN db[<<h, old>>] ELSE Absent])
           /\ strayed' = IF old \in Inner /\ db[<<h, old>>] = BizOf[m]
                         THEN strayed ELSE strayed \cup {h}
    BY <1>10
  <2> DEFINE w == [d \in {<<h, old>>, <<h, m>>} |-> IF d[2] = m THEN db[<<h, old>>] ELSE Absent]
  <2>2. Sound(db, blind, skewed, strayed, emptied) /\ db \in [Docs -> Vals] /\ skewed \subseteq blind
    BY DEF Inv, TypeInv, StoreType
  <2>3. old \in At(db, h) /\ m \notin At(db, h)
    BY <1>10 DEF In, At
  <2>4. w = [d \in {<<h, old>>, <<h, m>>} |-> IF d[2] = m THEN db[<<h, old>>] ELSE Absent]
        /\ Write(w)
    BY <2>1
  <2> HIDE DEF w
  <2>5. strayed' = IF old \in Inner /\ db[<<h, old>>] = BizOf[m] THEN strayed ELSE strayed \cup {h}
    BY <2>1
  <2>6. /\ Sound(Over(w, db), blind, skewed, strayed', emptied) /\ w \in Writes
        /\ \A x \in Hosts : x \notin DOMAIN w
        /\ \A x \in Hosts : DOMAIN w \cap HostKeys(x) # {} => Grabs(db, w, x)
    <3>1. Sound(db, blind, skewed, strayed, emptied)
      BY <2>2
    <3>2. w = [d \in {<<h, old>>, <<h, m>>} |-> IF d[2] = m THEN db[<<h, old>>] ELSE Absent]
      BY <2>4
    <3>3. Replaced(db, w, blind, skewed, strayed', emptied)
      BY <1>5, <2>2, <2>3, <2>5, <3>1, <3>2, DirectorySound
    <3> QED BY <3>3 DEF Replaced
  <2>7. /\ StoreType' /\ Alone' /\ db' = Over(w, db) /\ OthersStale(t, w)
        /\ stale'[t] \subseteq stale[t] \cup DOMAIN w /\ counted' \subseteq counted \cup {t}
    BY <2>4, <2>6, WriteQuiet
  <2>8. Gentle(w)
    BY <2>6 DEF Gentle
  <2>9. Sound(db', blind', skewed', strayed', emptied')
    BY <1>1, <2>6, <2>7
  <2>10. /\ skewed' \in SUBSET Hosts /\ blind' \in SUBSET Hosts /\ strayed' \in SUBSET Hosts
         /\ emptied' \in SUBSET Modules /\ UNCHANGED outdated /\ Histories
    BY <1>1, <1>5, <2>2, <2>5 DEF TypeInv, HistoryType, Histories
  <2> QED BY <1>1, <1>7, <1>8, <2>6, <2>7, <2>8, <2>9, <2>10, PublishAct
<1> QED BY <1>3, <1>9, <1>10

-----------------------------------------------------------------------------
(* The invariant.                                                          *)

\* What Init makes of the documents.
LEMMA InitDb ==
  ASSUME Init
  PROVE  /\ db \in [Docs -> Vals] /\ \A m \in Modules : db[m] = Present
         /\ \A h \in Hosts : /\ There(db, h) <=> At(db, h) # {}
                             /\ At(db, h) = {} \/ Legal(At(db, h))
                             /\ db[h] = Absent => At(db, h) = {}
         /\ \A h \in Hosts, m \in Modules : db[<<h, m>>] \in {Absent, BizOf[m]}
<1>1. PICK f \in [Hosts -> Places] :
         db = [d \in Docs |->
                 CASE d \in Modules -> Present
                   [] d \in Hosts -> IF f[d] = {} THEN Absent ELSE Present
                   [] OTHER -> IF d[2] \in f[d[1]] THEN BizOf[d[2]] ELSE Absent]
  BY DEF Init
<1>2. \A m \in Modules : db[m] = Present
  BY <1>1, DocFacts
<1>3. \A h \in Hosts : db[h] = IF f[h] = {} THEN Absent ELSE Present
  BY <1>1, DocFacts
<1>4. \A h \in Hosts, m \in Modules : db[<<h, m>>] = IF m \in f[h] THEN BizOf[m] ELSE Absent
  <2> SUFFICES ASSUME NEW h \in Hosts, NEW m \in Modules
               PROVE  db[<<h, m>>] = IF m \in f[h] THEN BizOf[m] ELSE Absent
    OBVIOUS
  <2> DEFINE k == <<h, m>>
  <2>1. k \in Docs /\ k \in Relations
    BY DocFacts
  <2>2. k \notin Modules /\ k \notin Hosts
    BY <2>1, DocFacts
  <2>3. db[k] = IF k[2] \in f[k[1]] THEN BizOf[k[2]] ELSE Absent
    BY <1>1, <2>1, <2>2
  <2> QED BY <2>3
<1>5. \A m \in Modules : BizOf[m] \in Vals /\ BizOf[m] # Absent
  BY ModulesAssumption, ValueFacts
<1>6. \A h \in Hosts : f[h] \in SUBSET Modules /\ (f[h] = {} \/ Legal(f[h]))
  BY PlacesAssumption DEF Legal, ModulesOf
<1>7. \A h \in Hosts : At(db, h) = f[h]
  BY <1>4, <1>5, <1>6 DEF At
<1>8. \A d \in Docs : db[d] \in Vals
  <2> SUFFICES ASSUME NEW d \in Docs
               PROVE  db[d] \in Vals
    OBVIOUS
  <2>1. CASE d \in Modules
    BY <2>1, <1>2, ValueFacts
  <2>2. CASE d \in Hosts
    BY <2>2, <1>3, ValueFacts
  <2>3. CASE d \in Relations
    <3>1. PICK h \in Hosts, m \in Modules : d = <<h, m>>
      BY <2>3, DocFacts
    <3> QED BY <3>1, <1>4, <1>5, ValueFacts
  <2> QED BY <2>1, <2>2, <2>3 DEF Docs
<1>9. db \in [Docs -> Vals]
  BY <1>1, <1>8
<1>10. ASSUME NEW h \in Hosts
       PROVE  /\ There(db, h) <=> At(db, h) # {}
              /\ At(db, h) = {} \/ Legal(At(db, h))
              /\ db[h] = Absent => At(db, h) = {}
  BY <1>3, <1>6, <1>7, ValueFacts DEF There
<1> QED BY <1>2, <1>4, <1>9, <1>10

\* At the start every host is where transfers can take it, and nothing is under way.
LEMMA InitInv ==
  ASSUME Init
  PROVE  TypeInv /\ Inv
<1>1. /\ db \in [Docs -> Vals] /\ \A m \in Modules : db[m] = Present
      /\ \A h \in Hosts : /\ There(db, h) <=> At(db, h) # {}
                          /\ At(db, h) = {} \/ Legal(At(db, h))
                          /\ db[h] = Absent => At(db, h) = {}
      /\ \A h \in Hosts, m \in Modules : db[<<h, m>>] \in {Absent, BizOf[m]}
  BY InitDb
<1>2. /\ counted = {} /\ session = [t \in Txns |-> "none"]
      /\ buf = [t \in Txns |-> Nothing] /\ stale = [t \in Txns |-> {}]
      /\ pc = [t \in Txns |-> "idle"] /\ req = [t \in Txns |-> NoRequest]
      /\ plan = [t \in Txns |-> {}] /\ todo = [t \in Txns |-> << >>]
      /\ late = [t \in Txns |-> << >>] /\ answer = [t \in Txns |-> "none"]
      /\ faults = 0
      /\ skewed = {} /\ blind = {} /\ strayed = {} /\ emptied = {} /\ outdated = {}
  BY DEF Init, TxnInit, NoRequest
<1>3. StoreType
  BY <1>1, <1>2, NothingFacts DEF StoreType
<1>4. ClientType
  <2>1. << >> \in Seq(Writes)
    BY EmptySeq
  <2> QED BY <1>2, <2>1 DEF ClientType, Labels
<1>5. HistoryType
  BY <1>2, BoundsAssumption DEF HistoryType
<1>6. Sound(db, blind, skewed, strayed, emptied)
  <2>1. \A m \in Modules : There(db, m)
    BY <1>1, ValueFacts DEF There
  <2>2. \A h \in Hosts : At(db, h) \in SUBSET Modules
    BY DEF At
  <2>3. \A h \in Hosts \ {} : There(db, h) <=> At(db, h) # {}
    BY <1>1
  <2>4. \A h \in Hosts, m \in Modules :
            db[<<h, m>>] \in {Absent, BizOf[m]} \/ (h \in {} /\ m \in Inner)
    BY <1>1
  <2>5. \A h \in Hosts \ ({} \cup {}) : At(db, h) = {} \/ Legal(At(db, h))
    BY <1>1
  <2>6. \A h \in Hosts : \A m \in At(db, h) \ {} : There(db, m)
    BY <2>1, <2>2
  <2>7. \A m \in Inner : There(db, m)
    BY <2>1, ModulesAssumption
  <2>8. \A h \in Hosts : db[h] = Absent => At(db, h) = {}
    BY <1>1
  <2>9. Sound(db, {}, {}, {}, {})
    BY <2>3, <2>4, <2>5, <2>6, <2>7, <2>8 DEF Sound
  <2> QED BY <1>2, <2>9
<1>7. Alone /\ Lasting /\ Running /\ Importing /\ Updating
  BY <1>2, NothingFacts DEF Alone, Lasting, Running, Importing, Updating, Live, Active
<1>8. skewed \subseteq blind
  BY <1>2
<1> QED BY <1>3, <1>4, <1>5, <1>6, <1>7, <1>8 DEF TypeInv, Inv

\* Every action of a request keeps the invariant.
LEMMA ActionStep ==
  ASSUME TypeInv, Inv, NEW t \in Txns, Begin(t) \/ Continue(t) \/ Mishap(t) \/ TooOld(t)
  PROVE  Kept(t)
<1>1. CASE Begin(t)
  BY <1>1, MakePlanStep, StartStep, NewHostStep, FindStep DEF Begin
<1>2. CASE Continue(t)
  BY <1>2, RunPlanStep, CallStep, CallCommitStep, CallAbortStep, PlaceStep, PutNextStep,
     UpdateStep DEF Continue
<1>3. CASE Mishap(t)
  BY <1>3, CallFailsStep, DeliverStep, CommitFailsStep, CrashStep, CounterLostStep DEF Mishap
<1>4. CASE TooOld(t)
  BY <1>4, TooOldStep
<1> QED BY <1>1, <1>2, <1>3, <1>4

\* Every step keeps the invariant.
LEMMA InvStep ==
  ASSUME TypeInv, Inv, [Next]_vars
  PROVE  TypeInv' /\ Inv'
<1>1. CASE UNCHANGED vars
  <2>1. /\ UNCHANGED << db, counted, session, buf, stale >>
        /\ UNCHANGED << pc, req, plan, todo, late, answer, faults >>
        /\ UNCHANGED << skewed, blind, strayed, emptied, outdated >>
    BY <1>1 DEF vars, store, client, history
  <2>2. TypeInv'
    BY <2>1 DEF TypeInv, StoreType, ClientType, HistoryType, Active
  <2>3. Alone' /\ Lasting' /\ Importing' /\ Updating'
    BY <2>1 DEF Inv, Alone, Lasting, Importing, Imports, Updating, Active
  <2>4. Running'
    BY <2>1 DEF Inv, Running, Runs, Goal, Live, Active
  <2> QED BY <2>1, <2>2, <2>3, <2>4 DEF Inv
<1>2. CASE Next
  <2>1. PICK t \in Txns : Begin(t) \/ Continue(t) \/ Mishap(t) \/ TooOld(t)
    BY <1>2 DEF Next
  <2> QED BY <2>1, ActionStep DEF Kept
<1> QED BY <1>1, <1>2

\* The invariant holds in every state.
LEMMA InvHolds == Spec => [](TypeInv /\ Inv)
<1>1. Init => TypeInv /\ Inv
  BY InitInv
<1>2. (TypeInv /\ Inv) /\ [Next]_vars => (TypeInv /\ Inv)'
  BY InvStep
<1> QED BY <1>1, <1>2, PTL DEF Spec

\* Each request and session holds what it may: a command is left exactly while one is to be
\* called, and nothing is left of a transaction that has ended.
THEOREM TypeCorrect == Spec => []TypeOK
<1>1. TypeInv => TypeOK
  <2> SUFFICES ASSUME TypeInv
               PROVE  TypeOK
    OBVIOUS
  <2>1. TxnType
    <3>1. \A t \in Txns : DOMAIN buf[t] \in SUBSET Docs /\ \A k \in DOMAIN buf[t] : buf[t][k] \in Vals
      BY WriteFacts DEF TypeInv, StoreType
    <3> QED BY <3>1 DEF TypeInv, StoreType, TxnType, Vals
  <2>2. ClientType /\ HistoryType
    BY DEF TypeInv
  <2> QED BY <2>1, <2>2 DEF ClientType, HistoryType, TypeOK, Labels
<1> QED BY <1>1, InvHolds, PTL

\* A host is in modules of one business, which its relations name, and in an inner module
\* alone, but for what a commit did not know and a directory given to a host elsewhere.
THEOREM HostsInOneBusiness == Spec => []OneBusiness
<1>1. Inv => OneBusiness
  <2> SUFFICES ASSUME Inv, NEW h \in Hosts \ (skewed \cup strayed)
               PROVE  /\ \A m \in In(h) : db[<<h, m>>] = BizOf[m]
                      /\ In(h) # {} => Legal(In(h))
    BY DEF OneBusiness
  <2>1. Sound(db, blind, skewed, strayed, emptied) /\ In(h) = At(db, h)
    BY DEF Inv, In, At
  <2> QED BY <2>1 DEF Sound, At
<1> QED BY <1>1, InvHolds, PTL

\* A commit knows the relations of the hosts it moves, unless hosts are appended or imported:
\* of two transactions that move one host, one is aborted.
THEOREM OnlyBlindSkew == Spec => []SkewOnlyBlind
<1>1. Inv => SkewOnlyBlind
  BY DEF Inv, SkewOnlyBlind
<1> QED BY <1>1, InvHolds, PTL

\* No relation is with a deleted module, unless the deletion and the transfer each commit
\* on a snapshot without the other.
THEOREM NoDeletedModule == Spec => []ModulesExist
<1>1. Inv => ModulesExist
  BY DEF Inv, Sound, ModulesExist, Exists, There, In, At
<1> QED BY <1>1, InvHolds, PTL

-----------------------------------------------------------------------------
(* What a commit does.                                                     *)

\* What Final is in the database d.
FinalIn(d, r, h) ==
    LET S == ({m \in Modules : d[<<h, m>>] = r.biz} \ r.remove) \cup r.modules
    IN IF S = {} THEN {IdleOf[r.biz]} ELSE S
OneOrOuter(S) == S \cap Inner = {} \/ \E m : S = {m}

\* In the snapshot d of which D and st remain, the writes g take each host where the request
\* asks, and the plan ms is the one that would be made.
Keeps(D, st, r, ms, g, str) == \E d \in [Docs -> Vals] :
    /\ \A k \in Docs \ st : d[k] = D[k]
    /\ r.kind \notin {"import", "directory"}
    /\ \A h \in r.hosts \ str :
        /\ At(Over(g, d), h) = Asked(r, ms, At(d, h))
        /\ r.kind = "auto" => FinalIn(d, r, h) = ms
AsAsked == \A t \in Txns \ outdated :
    Live(t) => Keeps(db, stale[t], req[t], plan[t], Goal(t), strayed)
Plans == \A t \in Txns : OneOrOuter(plan[t]) /\ (pc[t] = "idle" => plan[t] = {})
Asking == TypeInv /\ Inv /\ AsAsked /\ Plans

\* That stays so when others commit.
LEMMA KeepsPublish ==
  ASSUME NEW D \in [Docs -> Vals], NEW st, NEW r, NEW ms, NEW g, NEW str, NEW w \in Writes,
         Keeps(D, st, r, ms, g, str), NEW st2, st \cup DOMAIN w \subseteq st2,
         NEW str2, str \subseteq str2
  PROVE  Keeps(Over(w, D), st2, r, ms, g, str2)
<1>1. PICK d \in [Docs -> Vals] :
        /\ \A k \in Docs \ st : d[k] = D[k]
        /\ r.kind \notin {"import", "directory"}
        /\ \A h \in r.hosts \ str :
            /\ At(Over(g, d), h) = Asked(r, ms, At(d, h))
            /\ r.kind = "auto" => FinalIn(d, r, h) = ms
  BY DEF Keeps
<1>2. \A k \in Docs : Over(w, D)[k] = IF k \in DOMAIN w THEN w[k] ELSE D[k]
  BY OverDb
<1>3. \A k \in Docs \ st2 : d[k] = Over(w, D)[k]
  BY <1>1, <1>2
<1>4. \A h \in r.hosts \ str2 :
        /\ At(Over(g, d), h) = Asked(r, ms, At(d, h))
        /\ r.kind = "auto" => FinalIn(d, r, h) = ms
  BY <1>1
<1> QED BY <1>1, <1>3, <1>4 DEF Keeps

\* The actions other than those that begin a transaction or go on with it.
Aside(t) ==
    \/ NewHost(t) \/ Find(t) \/ CallCommit(t) \/ CallAbort(t) \/ Place(t) \/ PutNext(t)
    \/ Update(t) \/ CallFails(t) \/ Deliver(t) \/ CommitFails(t) \/ Crash(t) \/ TooOld(t)
\* They change no plan and leave no transaction that goes on.
LEMMA AsideFacts ==
  ASSUME TypeInv, Inv, NEW t \in Txns, Aside(t)
  PROVE  UNCHANGED plan /\ ~Live(t)' /\ (pc'[t] = "idle" => pc[t] = "idle")
<1>1. pc \in [Txns -> Labels]
  BY DEF TypeInv, ClientType
<1>2. ASSUME \E l \in Labels \ {"idle", "write", "commit"} : Goto(t, l)
      PROVE  ~Live(t)' /\ (pc'[t] = "idle" => pc[t] = "idle")
  BY <1>1, <1>2 DEF Goto, Live
<1>3. CASE NewHost(t)
  <2>1. \E l \in Labels \ {"idle", "write", "commit"} : Goto(t, l)
    <3>1. Goto(t, "place") \/ Goto(t, "done")
      BY <1>3 DEF NewHost
    <3> QED BY <3>1 DEF Labels
  <2>2. UNCHANGED plan
    BY <1>3 DEF NewHost
  <2> QED BY <2>1, <2>2, <1>2
<1>4. CASE Find(t)
  <2>1. \E l \in Labels \ {"idle", "write", "commit"} : Goto(t, l)
    <3>1. Goto(t, "update") \/ Goto(t, "done")
      BY <1>4 DEF Find
    <3> QED BY <3>1 DEF Labels
  <2>2. UNCHANGED plan
    BY <1>4 DEF Find
  <2> QED BY <2>1, <2>2, <1>2
<1>5. CASE CallCommit(t) \/ CallAbort(t) \/ Update(t) \/ CommitFails(t) \/ Crash(t)
  <2>1. Goto(t, "done") /\ UNCHANGED plan
    BY <1>5 DEF CallCommit, CallAbort, Update, CommitFails, Crash
  <2>2. "done" \in Labels \ {"idle", "write", "commit"}
    BY DEF Labels
  <2> QED BY <2>1, <2>2, <1>2
<1>6. CASE Place(t)
  <2>1. \E l \in Labels \ {"idle", "write", "commit"} : Goto(t, l)
    <3>1. Goto(t, "put") \/ Goto(t, "done")
      BY <1>6 DEF Place
    <3> QED BY <3>1 DEF Labels
  <2>2. UNCHANGED plan
    BY <1>6 DEF Place
  <2> QED BY <2>1, <2>2, <1>2
<1>7. CASE PutNext(t)
  <2>1. \E l \in Labels \ {"idle", "write", "commit"} : Goto(t, l)
    <3>1. Goto(t, "put") \/ Goto(t, "done")
      BY <1>7 DEF PutNext
    <3> QED BY <3>1 DEF Labels
  <2>2. UNCHANGED plan
    BY <1>7 DEF PutNext
  <2> QED BY <2>1, <2>2, <1>2
<1>8. CASE CallFails(t)
  <2>1. Goto(t, "abort") /\ UNCHANGED plan
    BY <1>8 DEF CallFails
  <2>2. "abort" \in Labels \ {"idle", "write", "commit"}
    BY DEF Labels
  <2> QED BY <2>1, <2>2, <1>2
<1>9. CASE Deliver(t)
  <2>1. UNCHANGED << pc, plan >> /\ late[t] # << >>
    BY <1>9 DEF Deliver
  <2>2. pc[t] \in {"abort", "done"}
    BY <2>1 DEF TypeInv, ClientType
  <2> QED BY <2>1, <2>2 DEF Live
<1>10. CASE TooOld(t)
  <2>1. Lifetime(t) /\ UNCHANGED << pc, plan >>
    BY <1>10 DEF TooOld, client
  <2>2. ~Active(t)'
    BY <2>1, AbortFacts DEF TypeInv, Inv
  <2> QED BY <2>1, <2>2 DEF Live
<1> QED BY <1>3, <1>4, <1>5, <1>6, <1>7, <1>8, <1>9, <1>10 DEF Aside

\* A transaction that begins keeps what is asked, if its plan is the one that would be made.
LEMMA FirstKeeps ==
  ASSUME TypeInv, Inv, NEW t \in Txns, NEW r \in Requests, NEW ms \in SUBSET Modules,
         r.kind \notin {"import", "directory"}, pc[t] \in {"idle", "check"},
         First(t, Checked(r, ms)), OneOrOuter(ms), UNCHANGED strayed, req'[t] = r,
         r.kind = "auto" => plan'[t] = ms /\ \A h \in r.hosts : Final(r, h) = ms
  PROVE  Live(t)' => Keeps(db', stale'[t], req'[t], plan'[t], Goal(t)', strayed')
<1> SUFFICES ASSUME Live(t)'
             PROVE  Keeps(db', stale'[t], req'[t], plan'[t], Goal(t)', strayed')
  OBVIOUS
<1> DEFINE c == Checked(r, ms)
<1>1. /\ Execute(t, Nothing)
      /\ todo' = [todo EXCEPT ![t] = IF c.ok THEN c.todo ELSE << >>]
      /\ pc' = [pc EXCEPT ![t] = IF c.ok THEN "write" ELSE "abort"]
  BY DEF First, Goto
<1> HIDE DEF c
<1>2. c.ok /\ todo'[t] = c.todo
  BY <1>1 DEF Live, TypeInv, ClientType
<1>3. session[t] = "none" /\ t \notin counted
  BY DEF TypeInv, ClientType
<1>4. buf[t] = Nothing /\ stale[t] = {}
  BY <1>3 DEF TypeInv, StoreType, Active
<1>5. Succeeds(t, Nothing)
  BY <1>3, NothingFacts DEF Succeeds, Accepts, Conflicts
<1>6. db' = db /\ buf'[t] = Over(Nothing, buf[t]) /\ stale'[t] = stale[t]
  BY <1>1, <1>5, ExecuteFacts, NothingFacts DEF TypeInv, Inv
<1>7. buf'[t] = Nothing
  BY <1>4, <1>6, OverAudit, NothingFacts
<1>8. Goal(t)' = Then(c.todo, Nothing)
  BY <1>2, <1>7 DEF Goal
<1>9. StoreType /\ Sound(db, blind, skewed, strayed, emptied) /\ db \in [Docs -> Vals]
  BY DEF TypeInv, Inv, StoreType
<1>10. Does(r, ms, db, c.todo, strayed)
  BY <1>2, <1>9, CheckedFits DEF OneOrOuter, c
<1>11. ASSUME NEW h \in r.hosts \ strayed
       PROVE  /\ At(Over(Then(c.todo, Nothing), db), h) = Asked(r, plan'[t], At(db, h))
              /\ r.kind = "auto" => FinalIn(db, r, h) = plan'[t]
  <2>1. At(Over(Then(c.todo, Nothing), db), h) = Asked(r, ms, At(db, h))
    BY <1>10 DEF Does
  <2>2. CASE r.kind = "auto"
    <3>1. FinalIn(db, r, h) = Final(r, h)
      BY DEF FinalIn, Final, InBiz
    <3> QED BY <2>1, <2>2, <3>1
  <2>3. CASE r.kind # "auto"
    <3>1. Asked(r, ms, At(db, h)) = Asked(r, plan'[t], At(db, h))
      <4>1. \/ r.kind \in {"normal", "across", "append", "inner", "create", "remove", "delete"}
            \/ r.kind = "deletemodule"
        BY <2>3, RequestsAssumption
      <4>2. r.kind # "deletemodule"
        BY RequestsAssumption
      <4> QED BY <4>1, <4>2 DEF Asked
    <3> QED BY <2>1, <2>3, <3>1
  <2> QED BY <2>2, <2>3
<1>12. Keeps(db, {}, r, plan'[t], Then(c.todo, Nothing), strayed)
  BY <1>9, <1>11 DEF Keeps
<1> QED BY <1>4, <1>6, <1>8, <1>12

\* A plan is of inner modules one, or of other modules.
LEMMA PlanFacts ==
  ASSUME TypeInv, NEW t \in Txns, MakePlan(t), Plans
  PROVE  OneOrOuter(plan'[t]) /\ pc'[t] \in {"check", "done"}
<1>1. PICK r \in Requests :
          /\ \/ Goto(t, "done") /\ UNCHANGED plan
             \/ /\ Goto(t, "check")
                /\ \/ UNCHANGED plan
                   \/ \E h \in r.hosts :
                        /\ plan' = [plan EXCEPT ![t] = Final(r, h)]
                        /\ Final(r, h) \cap Inner # {} => Cardinality(Final(r, h)) = 1
  BY DEF MakePlan
<1>2. pc'[t] \in {"check", "done"}
  BY <1>1 DEF Goto, TypeInv, ClientType
<1>3. CASE UNCHANGED plan
  BY <1>2, <1>3 DEF Plans
<1>4. ASSUME NEW h \in r.hosts, plan' = [plan EXCEPT ![t] = Final(r, h)],
             Final(r, h) \cap Inner # {} => Cardinality(Final(r, h)) = 1
      PROVE  OneOrOuter(plan'[t])
  <2>1. plan'[t] = Final(r, h)
    BY <1>4 DEF TypeInv, ClientType
  <2>2. Final(r, h) \in SUBSET Modules
    <3>1. r.modules \in SUBSET Modules /\ r.biz \in Businesses
      BY RequestsAssumption
    <3>2. IdleOf[r.biz] \in Modules
      BY <3>1, ModulesAssumption
    <3> QED BY <3>1, <3>2 DEF Final, InBiz
  <2> DEFINE S == Final(r, h)
  <2>3. S \in SUBSET Modules /\ (S \cap Inner # {} => Cardinality(S) = 1)
    BY <1>4, <2>2
  <2> HIDE DEF S
  <2>4. ASSUME S \cap Inner # {} PROVE \E m : S = {m}
    <3>1. S \in SUBSET Modules /\ Cardinality(S) = 1
      BY <2>3, <2>4
    <3>2. PICK m \in S : TRUE
      BY <2>4
    <3>3. S = {m}
      BY <3>1, <3>2, OneModule
    <3> QED BY <3>3
  <2> QED BY <2>1, <2>4 DEF OneOrOuter, S
<1> QED BY <1>1, <1>2, <1>3, <1>4

\* A step of the request t keeps what is asked of the other requests.
LEMMA BesideKeeps ==
  ASSUME Asking, NEW t \in Txns, Beside(t), NEW u \in Txns \ outdated', u # t, Live(u)'
  PROVE  Keeps(db', stale'[u], req'[u], plan'[u], Goal(u)', strayed')
<1>1. PICK w \in Writes :
        /\ db' = Over(w, db) /\ strayed \subseteq strayed' /\ outdated \subseteq outdated'
        /\ \A x \in Txns : x # t =>
            /\ pc'[x] = pc[x] /\ req'[x] = req[x] /\ plan'[x] = plan[x] /\ todo'[x] = todo[x]
            /\ session'[x] = session[x] /\ buf'[x] = buf[x]
            /\ Active(x) => stale[x] \cup DOMAIN w \subseteq stale'[x]
  BY DEF Beside
<1>2. /\ pc'[u] = pc[u] /\ req'[u] = req[u] /\ plan'[u] = plan[u] /\ todo'[u] = todo[u]
      /\ session'[u] = session[u] /\ buf'[u] = buf[u]
      /\ Active(u) => stale[u] \cup DOMAIN w \subseteq stale'[u]
  BY <1>1
<1>3. Live(u) /\ stale[u] \cup DOMAIN w \subseteq stale'[u] /\ u \notin outdated
  BY <1>1, <1>2 DEF Live, Active
<1>4. Keeps(db, stale[u], req[u], plan[u], Goal(u), strayed) /\ db \in [Docs -> Vals]
  BY <1>3 DEF Asking, AsAsked, TypeInv, StoreType
<1>5. Goal(u)' = Goal(u)
  BY <1>2 DEF Goal
<1>6. Keeps(Over(w, db), stale'[u], req[u], plan[u], Goal(u), strayed')
  BY <1>1, <1>3, <1>4, KeepsPublish
<1> QED BY <1>1, <1>2, <1>5, <1>6

\* An action of a request keeps what is asked of it.
LEMMA ActionKeeps ==
  ASSUME Asking, NEW t \in Txns, Begin(t) \/ Continue(t) \/ Mishap(t) \/ TooOld(t)
  PROVE  /\ OneOrOuter(plan'[t]) /\ (pc'[t] = "idle" => plan'[t] = {})
         /\ Live(t)' /\ t \notin outdated' =>
               Keeps(db', stale'[t], req'[t], plan'[t], Goal(t)', strayed')
<1>1. TypeInv /\ Inv /\ Plans
  BY DEF Asking
<1>2. OneOrOuter(plan[t]) /\ (pc[t] = "idle" => plan[t] = {}) /\ plan[t] \in SUBSET Modules
  BY <1>1 DEF Plans, TypeInv, ClientType
<1>3. CASE Aside(t)
  <2>1. UNCHANGED plan /\ ~Live(t)' /\ (pc'[t] = "idle" => pc[t] = "idle")
    BY <1>1, <1>3, AsideFacts
  <2> QED BY <1>2, <2>1
<1>4. CASE MakePlan(t)
  <2>1. OneOrOuter(plan'[t]) /\ pc'[t] \in {"check", "done"}
    BY <1>1, <1>4, PlanFacts
  <2> QED BY <2>1 DEF Live
<1>5. CASE Start(t)
  <2>1. PICK r \in Requests :
          /\ r.kind \notin {"auto", "import", "directory"} /\ req' = [req EXCEPT ![t] = r]
          /\ First(t, Checked(r, {})) /\ UNCHANGED << plan, history >>
    BY <1>5 DEF Start
  <2>2. /\ pc[t] = "idle" /\ req'[t] = r /\ UNCHANGED << plan, strayed >> /\ pc'[t] # "idle"
    BY <1>1, <1>5, <2>1 DEF Start, Fresh, First, Goto, history, TypeInv, ClientType
  <2>3. OneOrOuter({}) /\ {} \in SUBSET Modules
    BY DEF OneOrOuter
  <2>4. r.kind \notin {"import", "directory"} /\ r.kind # "auto" /\ pc[t] \in {"idle", "check"}
        /\ First(t, Checked(r, {})) /\ UNCHANGED strayed
    BY <2>1, <2>2
  <2>5. Live(t)' => Keeps(db', stale'[t], req'[t], plan'[t], Goal(t)', strayed')
    BY <1>1, <2>2, <2>3, <2>4, FirstKeeps
  <2> QED BY <1>2, <2>2, <2>5
<1>6. CASE RunPlan(t)
  <2>1. /\ pc[t] = "check" /\ First(t, Checked(req[t], plan[t]))
        /\ outdated' = IF \A h \in req[t].hosts : Final(req[t], h) = plan[t]
                       THEN outdated ELSE outdated \cup {t}
        /\ UNCHANGED << req, plan, strayed >>
    BY <1>6 DEF RunPlan
  <2>2. req[t] \in Requests /\ req[t].kind = "auto" /\ pc'[t] # "idle"
    BY <1>1, <2>1 DEF First, Goto, TypeInv, ClientType
  <2>3. t \notin outdated' => \A h \in req[t].hosts : Final(req[t], h) = plan[t]
    BY <2>1
  <2>4. ASSUME t \notin outdated'
        PROVE  Live(t)' => Keeps(db', stale'[t], req'[t], plan'[t], Goal(t)', strayed')
    BY <1>1, <1>2, <2>1, <2>2, <2>3, <2>4, FirstKeeps
  <2> QED BY <1>2, <2>1, <2>2, <2>4
<1>7. CASE Call(t)
  <2>1. UNCHANGED << req, plan, strayed, outdated >> /\ pc'[t] # "idle"
    BY <1>1, <1>7 DEF Call, Goto, history, TypeInv, ClientType
  <2>2. CASE Succeeds(t, Head(todo[t]))
    <3>1. Live(t) /\ db' = db /\ stale'[t] = stale[t] /\ Goal(t)' = Goal(t)
      BY <1>1, <1>7, <2>2, CallGoal
    <3>2. t \notin outdated => Keeps(db, stale[t], req[t], plan[t], Goal(t), strayed)
      BY <3>1 DEF Asking, AsAsked
    <3> QED BY <1>2, <2>1, <3>1, <3>2
  <2>3. CASE ~Succeeds(t, Head(todo[t]))
    <3>1. pc'[t] = "abort"
      BY <1>1, <1>7, <2>3 DEF Call, Goto, TypeInv, ClientType
    <3> QED BY <1>2, <2>1, <3>1 DEF Live
  <2> QED BY <2>2, <2>3
<1>8. CASE CounterLost(t)
  <2>1. /\ UNCHANGED << db, session, buf, stale, pc, req, plan, todo, strayed, outdated >>
    BY <1>8 DEF CounterLost, LoseCounter, client, history
  <2>2. Live(t)' => Live(t)
    BY <2>1 DEF Live, Active
  <2>3. Goal(t)' = Goal(t)
    BY <2>1 DEF Goal
  <2>4. Live(t) /\ t \notin outdated => Keeps(db, stale[t], req[t], plan[t], Goal(t), strayed)
    BY DEF Asking, AsAsked
  <2> QED BY <1>2, <2>1, <2>2, <2>3, <2>4
<1> QED BY <1>3, <1>4, <1>5, <1>6, <1>7, <1>8 DEF Begin, Continue, Mishap, Aside

\* At first nothing is asked.
LEMMA AskingInit == Init => Asking
<1> SUFFICES ASSUME Init
             PROVE  Asking
  OBVIOUS
<1>1. TypeInv /\ Inv
  BY InitInv
<1>2. \A t \in Txns : pc[t] = "idle" /\ plan[t] = {}
  BY DEF Init
<1>3. OneOrOuter({})
  BY DEF OneOrOuter
<1> QED BY <1>1, <1>2, <1>3 DEF Asking, AsAsked, Plans, Live

\* Every step keeps what is asked.
LEMMA AskingStep ==
  ASSUME Asking, [Next]_vars
  PROVE  Asking'
<1>1. TypeInv' /\ Inv'
  BY InvStep DEF Asking
<1>2. CASE UNCHANGED vars
  <2>1. UNCHANGED << db, session, buf, stale, pc, req, plan, todo, strayed, outdated >>
    BY <1>2 DEF vars, store, client, history
  <2>2. Plans'
    BY <2>1 DEF Asking, Plans
  <2>3. AsAsked'
    BY <2>1 DEF Asking, AsAsked, Goal, Live, Active
  <2> QED BY <1>1, <2>2, <2>3 DEF Asking
<1>3. CASE Next
  <2>1. PICK t \in Txns : Begin(t) \/ Continue(t) \/ Mishap(t) \/ TooOld(t)
    BY <1>3 DEF Next
  <2>2. Beside(t)
    BY <2>1, ActionStep DEF Kept, Asking
  <2>3. /\ OneOrOuter(plan'[t]) /\ (pc'[t] = "idle" => plan'[t] = {})
        /\ Live(t)' /\ t \notin outdated' =>
              Keeps(db', stale'[t], req'[t], plan'[t], Goal(t)', strayed')
    BY <2>1, ActionKeeps
  <2>4. ASSUME NEW u \in Txns, u # t
        PROVE  pc'[u] = pc[u] /\ plan'[u] = plan[u]
    BY <2>2, <2>4 DEF Beside
  <2>5. Plans'
    BY <2>3, <2>4 DEF Plans, Asking
  <2>6. ASSUME NEW u \in Txns \ outdated', Live(u)'
        PROVE  Keeps(db', stale'[u], req'[u], plan'[u], Goal(u)', strayed')
    <3>1. CASE u = t
      BY <2>3, <2>6, <3>1
    <3>2. CASE u # t
      BY <2>2, <2>6, <3>2, BesideKeeps
    <3> QED BY <3>1, <3>2
  <2>7. AsAsked'
    BY <2>6 DEF AsAsked
  <2> QED BY <1>1, <2>5, <2>7 DEF Asking
<1> QED BY <1>2, <1>3

\* A transaction is committed by the commit of its request alone.
LEMMA OnlyCommits ==
  ASSUME TypeInv, Inv, [Next]_vars, NEW u \in Txns,
         session'[u] = "committed", session[u] # "committed"
  PROVE  pc[u] = "commit" /\ CommitKnown(u) /\ Active(u)
<1>1. PICK t \in Txns : Begin(t) \/ Continue(t) \/ Mishap(t) \/ TooOld(t)
  BY DEF Next, vars, store
<1>2. Beside(t)
  BY <1>1, ActionStep DEF Kept
<1>3. u = t
  BY <1>2 DEF Beside
<1>4. session \in [Txns -> {"none", "active", "committed", "aborted"}]
  BY DEF TypeInv, StoreType
<1>5. ASSUME NEW w, Execute(t, w)
      PROVE  FALSE
  BY <1>3, <1>4, <1>5 DEF Execute, Ends
<1>6. ASSUME UNCHANGED session
      PROVE  FALSE
  BY <1>6
<1>7. CASE Begin(t)
  <2>1. UNCHANGED session \/ Execute(t, Nothing)
    BY <1>7 DEF Begin, MakePlan, Start, First, NewHost, Find, store, Write
  <2> QED BY <2>1, <1>5, <1>6
<1>8. CASE CommitKnown(t) /\ pc[t] = "commit"
  <2>1. Active(t)
    BY <1>3, <1>8 DEF CommitKnown, Commit
  <2> QED BY <1>3, <1>8, <2>1
<1>9. CASE CallCommit(t) \/ CommitFails(t)
  <2>1. UNCHANGED session \/ (CommitKnown(t) /\ pc[t] = "commit")
    BY <1>9 DEF CallCommit, CommitFails, store
  <2> QED BY <2>1, <1>6, <1>8
<1>10. CASE CallAbort(t) \/ TooOld(t)
  <2>1. UNCHANGED session \/ session' = [session EXCEPT ![t] = "aborted"]
    BY <1>10 DEF CallAbort, TooOld, Abort, Lifetime, Ends, store
  <2> QED BY <2>1, <1>3, <1>4
<1>11. CASE RunPlan(t) \/ Call(t) \/ CallFails(t) \/ Deliver(t)
  <2>1. UNCHANGED session \/ \E w : Execute(t, w)
    BY <1>11 DEF RunPlan, First, Call, CallFails, Deliver, store
  <2> QED BY <2>1, <1>5, <1>6
<1>12. CASE Place(t) \/ PutNext(t) \/ Update(t) \/ Crash(t) \/ CounterLost(t)
  <2>1. UNCHANGED session
    BY <1>12 DEF Place, PutNext, Update, Crash, CounterLost, LoseCounter, Write, store
  <2> QED BY <2>1, <1>6
<1> QED BY <1>1, <1>7, <1>9, <1>10, <1>11, <1>12 DEF Continue, Mishap

\* What is asked is what the request wants, where the snapshot is as the database.
LEMMA WantedIsAsked ==
  ASSUME NEW r \in Requests, r.kind \notin {"import", "directory"}, NEW ms, NEW h \in r.hosts,
         NEW d \in [Docs -> Vals], \A m \in Modules : d[<<h, m>>] = db[<<h, m>>],
         r.kind = "auto" => FinalIn(d, r, h) = ms
  PROVE  Asked(r, ms, At(d, h)) = Wanted(r, h)
<1>1. At(d, h) = In(h)
  BY DEF At, In
<1>2. FinalIn(d, r, h) = Final(r, h)
  BY DEF FinalIn, Final, InBiz
<1>3. r.kind \in {"normal", "across", "append", "inner", "create", "remove", "auto", "delete"}
  BY RequestsAssumption
<1> QED BY <1>1, <1>2, <1>3 DEF Asked, Wanted

\* A commit takes the hosts of its request where the request asks, and no others anywhere.
LEMMA CommitApplies ==
  ASSUME Asking, NEW t \in Txns \ outdated, pc[t] = "commit", CommitKnown(t), Active(t),
         NEW h \in Hosts \ (skewed' \cup strayed)
  PROVE  In(h)' = IF h \in req[t].hosts THEN Wanted(req[t], h) ELSE In(h)
<1> DEFINE g == buf[t]
           r == req[t]
           st == stale[t]
<1>1. r \in Requests /\ todo[t] = << >> /\ st \in SUBSET Docs /\ g \in Writes
      /\ db \in [Docs -> Vals] /\ Live(t)
  BY DEF Asking, TypeInv, ClientType, StoreType, Live
<1>2. db' = Over(g, db)
  BY CommitFacts DEF CommitKnown, Asking, TypeInv, Inv
<1>3. Goal(t) = g
  <2>1. Len(todo[t]) = 0
    BY <1>1
  <2> QED BY <2>1 DEF Goal, Then
<1>4. \A k \in Docs : db'[k] = IF k \in DOMAIN g THEN g[k] ELSE db[k]
  BY <1>1, <1>2, OverDb
<1>5. CASE h \notin r.hosts
  <2>1. Snapshot(db, st, r, g, blind, skewed \cup strayed)
    BY <1>1, <1>3 DEF Asking, Inv, Running, Runs
  <2> HIDE DEF g, r, st
  <2>2. Lands(db, st, r, g, blind, skewed \cup strayed)
    BY <2>1, <1>1, SnapshotLands
  <2>3. \A m \in Modules : <<h, m>> \notin DOMAIN g
    BY <2>2, <1>5 DEF Lands, LandsRelations
  <2>4. \A m \in Modules : db'[<<h, m>>] = db[<<h, m>>]
    BY <2>3, <1>4, DocFacts
  <2> QED BY <2>4, <1>5 DEF In, r
<1>6. CASE h \in r.hosts
  <2>1. \A m \in Modules : <<h, m>> \notin st
    BY <1>6 DEF CommitKnown, Unknown
  <2>2. Keeps(db, st, r, plan[t], g, strayed)
    BY <1>1, <1>3 DEF Asking, AsAsked
  <2> HIDE DEF g, r, st
  <2>3. PICK d \in [Docs -> Vals] :
          /\ \A k \in Docs \ st : d[k] = db[k]
          /\ r.kind \notin {"import", "directory"}
          /\ \A x \in r.hosts \ strayed :
              /\ At(Over(g, d), x) = Asked(r, plan[t], At(d, x))
              /\ r.kind = "auto" => FinalIn(d, r, x) = plan[t]
    BY <2>2 DEF Keeps
  <2>4. \A m \in Modules : d[<<h, m>>] = db[<<h, m>>]
    BY <2>1, <2>3, DocFacts
  <2>5. At(Over(g, d), h) = Asked(r, plan[t], At(d, h))
        /\ (r.kind = "auto" => FinalIn(d, r, h) = plan[t])
    BY <1>6, <2>3
  <2>6. Asked(r, plan[t], At(d, h)) = Wanted(r, h)
    BY <1>1, <1>6, <2>3, <2>4, <2>5, WantedIsAsked
  <2>7. \A k \in Docs : Over(g, d)[k] = IF k \in DOMAIN g THEN g[k] ELSE d[k]
    BY <1>1, OverDb
  <2>8. \A m \in Modules : Over(g, d)[<<h, m>>] = db'[<<h, m>>]
    BY <1>4, <2>4, <2>7, DocFacts
  <2>9. At(Over(g, d), h) = At(db', h)
    BY <2>8, SameAt
  <2>10. In(h)' = At(db', h)
    BY DEF In, At
  <2> QED BY <2>5, <2>6, <2>9, <2>10, <1>6 DEF r
<1> QED BY <1>5, <1>6

\* A commit does to the relations of each host what the request asks of them as they are then,
\* all of it and nothing else, if it knew them and the plan was made for them.
THEOREM CommitsApply == Spec => AppliesRequest
<1>1. Init => Asking
  BY AskingInit
<1>2. Asking /\ [Next]_vars => Asking'
  BY AskingStep
<1>3. ASSUME Asking, [Next]_vars
      PROVE  \A t \in Txns \ outdated :
                session'[t] = "committed" /\ session[t] # "committed" =>
                    \A h \in Hosts \ (skewed' \cup strayed) :
                        In(h)' = IF h \in req[t].hosts THEN Wanted(req[t], h) ELSE In(h)
  <2> SUFFICES ASSUME NEW t \in Txns \ outdated,
                      session'[t] = "committed", session[t] # "committed",
                      NEW h \in Hosts \ (skewed' \cup strayed)
               PROVE  In(h)' = IF h \in req[t].hosts THEN Wanted(req[t], h) ELSE In(h)
    OBVIOUS
  <2>1. pc[t] = "commit" /\ CommitKnown(t) /\ Active(t)
    BY <1>3, OnlyCommits DEF Asking
  <2> QED BY <1>3, <2>1, CommitApplies
<1>4. Asking /\ [Next]_vars =>
        [\A t \in Txns \ outdated :
            session'[t] = "committed" /\ session[t] # "committed" =>
                \A h \in Hosts \ (skewed' \cup strayed) :
                    In(h)' = IF h \in req[t].hosts THEN Wanted(req[t], h) ELSE In(h)]_vars
  BY <1>3
<1> QED BY <1>1, <1>2, <1>4, PTL DEF Spec, AppliesRequest

-----------------------------------------------------------------------------
(* Hosts and their relations.                                              *)

\* In the snapshot d of which D and st remain, each host of the request but for im has a
\* relation exactly when it exists, and the writes g leave it so.
Stood(D, st, r, g, im) == \E d \in [Docs -> Vals] :
    /\ \A k \in Docs \ st : d[k] = D[k]
    /\ \A h \in r.hosts \ im : There(d, h) <=> At(d, h) # {}
    /\ Stands(r, d, g)
Unplaced == skewed \cup Imported
Standing == \A t \in Txns : Live(t) => Stood(db, stale[t], req[t], Goal(t), Unplaced)
NoneYet == \A t \in Txns : pc[t] = "idle" => req[t] = NoRequest
Placing == TypeInv /\ Inv /\ Standing /\ Placed /\ NoneYet

\* That stays so when others commit.
LEMMA StoodPublish ==
  ASSUME NEW D \in [Docs -> Vals], NEW st, NEW r, NEW g, NEW im, NEW w \in Writes,
         Stood(D, st, r, g, im), NEW st2, st \cup DOMAIN w \subseteq st2,
         NEW im2, im \subseteq im2
  PROVE  Stood(Over(w, D), st2, r, g, im2)
<1>1. PICK d \in [Docs -> Vals] :
        /\ \A k \in Docs \ st : d[k] = D[k]
        /\ \A h \in r.hosts \ im : There(d, h) <=> At(d, h) # {}
        /\ Stands(r, d, g)
  BY DEF Stood
<1>2. \A k \in Docs : Over(w, D)[k] = IF k \in DOMAIN w THEN w[k] ELSE D[k]
  BY OverDb
<1>3. \A k \in Docs \ st2 : d[k] = Over(w, D)[k]
  BY <1>1, <1>2
<1>4. \A h \in r.hosts \ im2 : There(d, h) <=> At(d, h) # {}
  BY <1>1
<1> QED BY <1>1, <1>3, <1>4 DEF Stood

\* A commit that knows the relations of a host leaves it there with one, or gone without.
LEMMA StoodLands ==
  ASSUME NEW D \in [Docs -> Vals], NEW st, NEW r, NEW g \in Writes, NEW im,
         Stood(D, st, r, g, im), NEW h \in Hosts, h \in r.hosts, h \notin im,
         There(D, h) <=> At(D, h) # {}, \A m \in Modules : <<h, m>> \notin st
  PROVE  There(Over(g, D), h) <=> At(Over(g, D), h) # {}
<1>1. PICK d \in [Docs -> Vals] :
        /\ \A k \in Docs \ st : d[k] = D[k]
        /\ \A x \in r.hosts \ im : There(d, x) <=> At(d, x) # {}
        /\ Stands(r, d, g)
  BY DEF Stood
<1>2. \A m \in Modules : d[<<h, m>>] = D[<<h, m>>]
  BY <1>1, DocFacts
<1>3. At(d, h) = At(D, h)
  BY <1>2, SameAt
<1>4. There(d, h) <=> There(D, h)
  BY <1>1, <1>3
<1>5. There(Over(g, D), h) <=> There(Over(g, d), h)
  <2>1. There(Over(g, D), h) <=>
           IF h \in DOMAIN g THEN g[h] \notin {Absent, Gone} ELSE There(D, h)
    BY AtOver
  <2>2. There(Over(g, d), h) <=>
           IF h \in DOMAIN g THEN g[h] \notin {Absent, Gone} ELSE There(d, h)
    BY AtOver
  <2> QED BY <1>4, <2>1, <2>2
<1>6. At(Over(g, D), h) = At(Over(g, d), h)
  <2>1. \A m \in Modules : m \in At(Over(g, D), h) <=>
               IF <<h, m>> \in DOMAIN g THEN g[<<h, m>>] # Absent ELSE m \in At(D, h)
    BY AtOver
  <2>2. \A m \in Modules : m \in At(Over(g, d), h) <=>
               IF <<h, m>> \in DOMAIN g THEN g[<<h, m>>] # Absent ELSE m \in At(d, h)
    BY AtOver
  <2>3. At(Over(g, D), h) \in SUBSET Modules /\ At(Over(g, d), h) \in SUBSET Modules
    BY AtOver
  <2> QED BY <1>3, <2>1, <2>2, <2>3
<1> QED BY <1>1, <1>5, <1>6 DEF Stands

\* A commit places the hosts of its request, and no others are written.
LEMMA CommitPlaces ==
  ASSUME Placing, NEW t \in Txns, pc[t] = "commit", CommitKnown(t), UNCHANGED req
  PROVE  Placed'
<1> DEFINE g == buf[t]
           r == req[t]
           st == stale[t]
<1>1. r \in Requests /\ todo[t] = << >> /\ st \in SUBSET Docs /\ g \in Writes
      /\ db \in [Docs -> Vals]
  BY DEF Placing, TypeInv, ClientType, StoreType
<1>2. CASE ~Active(t)
  <2>1. UNCHANGED << db, skewed, req >>
    BY <1>2 DEF CommitKnown, Commit
  <2> QED BY <2>1 DEF Placing, Placed, Imported, Exists, In
<1>3. CASE Active(t)
  <2>1. db' = Over(g, db) /\ skewed' = skewed \cup Unknown(t)
    BY <1>3, CommitFacts DEF CommitKnown, Placing, TypeInv, Inv
  <2>2. Live(t) /\ Goal(t) = g
    <3>1. Len(todo[t]) = 0
      BY <1>1
    <3> QED BY <1>3, <3>1 DEF Goal, Then, Live
  <2>3. Stood(db, st, r, g, Unplaced) /\ Snapshot(db, st, r, g, blind, skewed \cup strayed)
    BY <2>2 DEF Placing, Standing, Inv, Running, Runs
  <2>4. Imported' = Imported
    BY DEF Imported
  <2>5. \A h \in r.hosts : h \notin skewed' => \A m \in Modules : <<h, m>> \notin st
    BY <2>1 DEF Unknown
  <2> HIDE DEF g, r, st
  <2>6. Lands(db, st, r, g, blind, skewed \cup strayed)
    BY <2>3, <1>1, SnapshotLands
  <2>7. ASSUME NEW h \in Hosts \ (skewed' \cup Imported')
        PROVE  There(db', h) <=> At(db', h) # {}
    <3>1. h \notin Unplaced /\ (There(db, h) <=> At(db, h) # {})
      BY <2>1, <2>4, <2>7 DEF Placing, Placed, Unplaced, Exists, In, There, At
    <3>2. CASE h \in r.hosts
      BY <1>1, <2>1, <2>3, <2>5, <2>7, <3>1, <3>2, StoodLands
    <3>3. CASE h \notin r.hosts
      <4>1. h \notin DOMAIN g /\ \A m \in Modules : <<h, m>> \notin DOMAIN g
        BY <2>6, <3>3 DEF Lands, LandsRelations, WritesHosts
      <4>2. There(db', h) <=> There(db, h)
        BY <1>1, <2>1, <4>1, AtOver
      <4>3. At(db', h) = At(db, h)
        <5>1. \A m \in Modules : m \in At(db', h) <=> m \in At(db, h)
          BY <1>1, <2>1, <4>1, AtOver
        <5> QED BY <5>1 DEF At
      <4> QED BY <3>1, <4>2, <4>3
    <3> QED BY <3>2, <3>3
  <2> QED BY <2>7 DEF Placed, Exists, In, There, At
<1> QED BY <1>2, <1>3

\* A write to the documents of an imported host places and displaces no other.
LEMMA ImportPlaces ==
  ASSUME Placing, NEW h \in Hosts, NEW w \in Writes, DOMAIN w \subseteq HostKeys(h),
         db' = Over(w, db), h \in Imported', Imported \subseteq Imported',
         skewed \subseteq skewed'
  PROVE  Placed'
<1>1. db \in [Docs -> Vals]
  BY DEF Placing, TypeInv, StoreType
<1>2. \A x \in Hosts : x # h =>
          At(Over(w, db), x) = At(db, x) /\ (There(Over(w, db), x) <=> There(db, x))
  BY <1>1, OneHost
<1>3. ASSUME NEW x \in Hosts \ (skewed' \cup Imported')
      PROVE  There(db', x) <=> At(db', x) # {}
  <2>1. x # h /\ x \notin skewed \cup Imported
    BY <1>3
  <2>2. There(db, x) <=> At(db, x) # {}
    BY <2>1 DEF Placing, Placed, Exists, In, There, At
  <2> QED BY <1>2, <2>1, <2>2
<1> QED BY <1>3 DEF Placed, Exists, In, There, At

\* A database that stays as it is keeps its hosts placed.
LEMMA QuietPlaces ==
  ASSUME Placing, db' = db, skewed \subseteq skewed', Imported \subseteq Imported'
  PROVE  Placed'
BY DEF Placing, Placed, Exists, In

\* The change of a directory leaves its host with a relation.
LEMMA UpdatePlaces ==
  ASSUME Placing, NEW t \in Txns, Update(t)
  PROVE  Placed'
<1>1. PICK h \in req[t].hosts, m \in req[t].modules :
        \/ UNCHANGED store
        \/ \E old \in In(h) : Write([d \in {<<h, old>>, <<h, m>>} |->
                                     IF d[2] = m THEN db[<<h, old>>] ELSE Absent])
  BY DEF Update
<1>2. UNCHANGED << req, skewed >> /\ pc[t] = "update"
  BY DEF Update
<1>3. req[t] \in Requests /\ Imported' = Imported
  BY <1>2 DEF Placing, TypeInv, ClientType, Imported
<1>4. h \in Hosts /\ m \in Modules
  BY <1>1, <1>3, RequestsAssumption
<1>5. CASE UNCHANGED store
  BY <1>2, <1>3, <1>5, QuietPlaces DEF store
<1>6. ASSUME NEW old \in In(h),
             Write([d \in {<<h, old>>, <<h, m>>} |-> IF d[2] = m THEN db[<<h, old>>] ELSE Absent])
      PROVE  Placed'
  <2> DEFINE w == [d \in {<<h, old>>, <<h, m>>} |-> IF d[2] = m THEN db[<<h, old>>] ELSE Absent]
  <2>1. db \in [Docs -> Vals] /\ old \in Modules /\ db[<<h, old>>] # Absent
        /\ db[<<h, old>>] \in Vals
    BY <1>4, <1>6, DocFacts DEF Placing, TypeInv, StoreType, In
  <2>2. w \in Writes /\ DOMAIN w = {<<h, old>>, <<h, m>>} /\ w[<<h, m>>] = db[<<h, old>>]
    <3>1. w \in [{<<h, old>>, <<h, m>>} -> Vals]
      BY <2>1, ValueFacts
    <3>2. <<h, old>> \in Docs /\ <<h, m>> \in Docs
      BY <1>4, <2>1, DocFacts
    <3> QED BY <3>1, <3>2 DEF Writes
  <2>3. db' = Over(w, db)
    BY <1>6 DEF Write, Publish
  <2> HIDE DEF w
  <2>4. DOMAIN w \subseteq HostKeys(h) /\ h \notin DOMAIN w
    BY <1>4, <2>1, <2>2, HostKeysFacts, DocFacts
  <2>5. \A x \in Hosts : x # h =>
            At(Over(w, db), x) = At(db, x) /\ (There(Over(w, db), x) <=> There(db, x))
    BY <1>4, <2>1, <2>2, <2>4, OneHost
  <2>6. (There(db', h) <=> There(db, h)) /\ m \in At(db', h)
    BY <1>4, <2>1, <2>2, <2>3, <2>4, AtOver
  <2>7. old \in At(db, h)
    BY <2>1 DEF At
  <2>8. ASSUME NEW x \in Hosts \ (skewed' \cup Imported')
        PROVE  There(db', x) <=> At(db', x) # {}
    <3>1. There(db, x) <=> At(db, x) # {}
      BY <1>2, <1>3, <2>8 DEF Placing, Placed, Exists, In, There, At
    <3>2. CASE x = h
      BY <2>6, <2>7, <3>1, <3>2
    <3>3. CASE x # h
      BY <2>3, <2>5, <3>1, <3>3
    <3> QED BY <3>2, <3>3
  <2> QED BY <2>8 DEF Placed, Exists, In, There, At
<1> QED BY <1>1, <1>5, <1>6

\* A request that has begun stays what it is.
LEMMA RequestsStay ==
  ASSUME Placing, NEW t \in Txns, Begin(t) \/ Continue(t) \/ Mishap(t) \/ TooOld(t)
  PROVE  Imported \subseteq Imported' /\ NoneYet'
<1>1. TypeInv /\ Inv /\ NoneYet /\ pc \in [Txns -> Labels]
  BY DEF Placing, TypeInv, ClientType
<1>2. \A u \in Txns : u # t => pc'[u] = pc[u] /\ req'[u] = req[u]
  BY <1>1, ActionStep DEF Kept, Beside
<1>3. CASE Begin(t)
  <2>1. pc[t] = "idle"
    BY <1>3 DEF Begin, MakePlan, Start, NewHost, Find, Fresh
  <2>2. pc'[t] # "idle"
    <3>1. \E l \in Labels \ {"idle"} : Goto(t, l)
      <4>1. CASE MakePlan(t)
        BY <4>1 DEF MakePlan, Labels
      <4>2. CASE Start(t)
        <5>1. Goto(t, "write") \/ Goto(t, "abort")
          BY <4>2 DEF Start, First
        <5> QED BY <5>1 DEF Labels
      <4>3. CASE NewHost(t)
        <5>1. Goto(t, "place") \/ Goto(t, "done")
          BY <4>3 DEF NewHost
        <5> QED BY <5>1 DEF Labels
      <4>4. CASE Find(t)
        <5>1. Goto(t, "update") \/ Goto(t, "done")
          BY <4>4 DEF Find
        <5> QED BY <5>1 DEF Labels
      <4> QED BY <1>3, <4>1, <4>2, <4>3, <4>4 DEF Begin
    <3> QED BY <1>1, <3>1 DEF Goto
  <2>3. req[t].kind # "import"
    BY <1>1, <2>1 DEF NoneYet, NoRequest
  <2> QED BY <1>1, <1>2, <2>2, <2>3 DEF Imported, NoneYet
<1>4. ASSUME UNCHANGED req, pc'[t] = "idle" => pc[t] = "idle"
      PROVE  Imported \subseteq Imported' /\ NoneYet'
  BY <1>1, <1>2, <1>4 DEF Imported, NoneYet
<1>5. CASE RunPlan(t) \/ Call(t)
  <2>1. UNCHANGED req /\ (Goto(t, "write") \/ Goto(t, "abort") \/ Goto(t, "commit"))
    BY <1>5 DEF RunPlan, First, Call
  <2> QED BY <1>1, <1>4, <2>1 DEF Goto
<1>6. CASE CounterLost(t)
  BY <1>4, <1>6 DEF CounterLost, client
<1>7. CASE Aside(t) /\ ~NewHost(t) /\ ~Find(t)
  <2>1. UNCHANGED req
    BY <1>7 DEF Aside, CallCommit, CallAbort, Place, PutNext, Update, CallFails, Deliver,
                CommitFails, Crash, TooOld, client
  <2>2. pc'[t] = "idle" => pc[t] = "idle"
    BY <1>1, <1>7, AsideFacts
  <2> QED BY <1>4, <2>1, <2>2
<1> QED BY <1>3, <1>5, <1>6, <1>7 DEF Begin, Continue, Mishap, Aside

\* A transaction that begins on a database with its hosts placed keeps them placed.
LEMMA FirstStands ==
  ASSUME Placing, NEW t \in Txns, NEW r \in Requests, NEW ms \in SUBSET Modules,
         r.kind \notin {"import", "directory"}, pc[t] \in {"idle", "check"},
         First(t, Checked(r, ms)), req'[t] = r, Unplaced \subseteq Unplaced'
  PROVE  Live(t)' => Stood(db', stale'[t], req'[t], Goal(t)', Unplaced')
<1> SUFFICES ASSUME Live(t)'
             PROVE  Stood(db', stale'[t], req'[t], Goal(t)', Unplaced')
  OBVIOUS
<1> DEFINE c == Checked(r, ms)
<1>1. /\ Execute(t, Nothing)
      /\ todo' = [todo EXCEPT ![t] = IF c.ok THEN c.todo ELSE << >>]
      /\ pc' = [pc EXCEPT ![t] = IF c.ok THEN "write" ELSE "abort"]
  BY DEF First, Goto
<1> HIDE DEF c
<1>0. TypeInv /\ Inv /\ Placed
  BY DEF Placing
<1>2. c.ok /\ todo'[t] = c.todo
  BY <1>0, <1>1 DEF Live, TypeInv, ClientType
<1>3. session[t] = "none" /\ t \notin counted
  BY <1>0 DEF TypeInv, ClientType
<1>4. buf[t] = Nothing /\ stale[t] = {}
  BY <1>0, <1>3 DEF TypeInv, StoreType, Active
<1>5. Succeeds(t, Nothing)
  BY <1>3, NothingFacts DEF Succeeds, Accepts, Conflicts
<1>6. db' = db /\ buf'[t] = Over(Nothing, buf[t]) /\ stale'[t] = stale[t]
  BY <1>0, <1>1, <1>5, ExecuteFacts, NothingFacts DEF TypeInv, Inv
<1>7. buf'[t] = Nothing
  BY <1>4, <1>6, OverAudit, NothingFacts
<1>8. Goal(t)' = Then(c.todo, Nothing)
  BY <1>2, <1>7 DEF Goal
<1>9. StoreType /\ Sound(db, blind, skewed, strayed, emptied) /\ db \in [Docs -> Vals]
  BY <1>0 DEF TypeInv, Inv, StoreType
<1>10. Planned(r, db, c.todo, blind, skewed \cup strayed)
  BY <1>2, <1>9, CheckedFits DEF c
<1>11. Stands(r, db, Then(c.todo, Nothing))
  BY <1>10 DEF Planned
<1>12. \A h \in r.hosts \ Unplaced' : There(db, h) <=> At(db, h) # {}
  <2>1. r.hosts \subseteq Hosts
    BY RequestsAssumption
  <2> QED BY <1>0, <2>1 DEF Placed, Unplaced, Exists, In, There, At
<1>13. Stood(db, {}, r, Then(c.todo, Nothing), Unplaced')
  BY <1>9, <1>11, <1>12 DEF Stood
<1> QED BY <1>4, <1>6, <1>8, <1>13

\* An action of a request keeps its hosts placed.
LEMMA ActionStands ==
  ASSUME Placing, NEW t \in Txns, Begin(t) \/ Continue(t) \/ Mishap(t) \/ TooOld(t),
         Unplaced \subseteq Unplaced'
  PROVE  Live(t)' => Stood(db', stale'[t], req'[t], Goal(t)', Unplaced')
<1>1. TypeInv /\ Inv /\ pc \in [Txns -> Labels]
  BY DEF Placing, TypeInv, ClientType
<1>2. ASSUME Live(t), Goal(t)' = Goal(t), UNCHANGED << db, req >>, stale'[t] = stale[t]
      PROVE  Stood(db', stale'[t], req'[t], Goal(t)', Unplaced')
  <2>1. Stood(db, stale[t], req[t], Goal(t), Unplaced)
    BY <1>2 DEF Placing, Standing
  <2>2. Stood(db, stale[t], req[t], Goal(t), Unplaced')
    BY <2>1 DEF Stood
  <2> QED BY <1>2, <2>2
<1>3. CASE Aside(t)
  BY <1>1, <1>3, AsideFacts
<1>4. CASE MakePlan(t)
  <2>1. Goto(t, "check") \/ Goto(t, "done")
    BY <1>4 DEF MakePlan
  <2> QED BY <1>1, <2>1 DEF Goto, Live
<1>5. CASE Start(t)
  <2>1. PICK r \in Requests :
          /\ r.kind \notin {"auto", "import", "directory"} /\ req' = [req EXCEPT ![t] = r]
          /\ First(t, Checked(r, {}))
    BY <1>5 DEF Start
  <2>2. pc[t] = "idle" /\ req'[t] = r /\ {} \in SUBSET Modules
        /\ r.kind \notin {"import", "directory"}
    BY <1>1, <1>5, <2>1 DEF Start, Fresh, TypeInv, ClientType
  <2> QED BY <2>1, <2>2, FirstStands
<1>6. CASE RunPlan(t)
  <2>1. /\ pc[t] = "check" /\ First(t, Checked(req[t], plan[t])) /\ req'[t] = req[t]
    BY <1>6 DEF RunPlan
  <2>2. req[t] \in Requests /\ req[t].kind = "auto" /\ plan[t] \in SUBSET Modules
    BY <1>1, <2>1 DEF TypeInv, ClientType
  <2> QED BY <2>1, <2>2, FirstStands
<1>7. CASE Call(t)
  <2>1. UNCHANGED req
    BY <1>7 DEF Call
  <2>2. CASE Succeeds(t, Head(todo[t]))
    <3>1. Live(t) /\ db' = db /\ stale'[t] = stale[t] /\ Goal(t)' = Goal(t)
      BY <1>1, <1>7, <2>2, CallGoal
    <3> QED BY <1>2, <2>1, <3>1
  <2>3. CASE ~Succeeds(t, Head(todo[t]))
    <3>1. pc'[t] = "abort"
      BY <1>1, <1>7, <2>3 DEF Call, Goto
    <3> QED BY <3>1 DEF Live
  <2> QED BY <2>2, <2>3
<1>8. CASE CounterLost(t)
  <2>1. UNCHANGED << db, session, buf, stale, pc, req, todo >>
    BY <1>8 DEF CounterLost, LoseCounter, client
  <2>2. (Live(t)' => Live(t)) /\ Goal(t)' = Goal(t)
    BY <2>1 DEF Live, Active, Goal
  <2> QED BY <1>2, <2>1, <2>2
<1> QED BY <1>3, <1>4, <1>5, <1>6, <1>7, <1>8 DEF Begin, Continue, Mishap, Aside

\* So does it the hosts of the database.
LEMMA ActionPlaces ==
  ASSUME Placing, NEW t \in Txns, Begin(t) \/ Continue(t) \/ Mishap(t) \/ TooOld(t),
         skewed \subseteq skewed', Imported \subseteq Imported'
  PROVE  Placed'
<1>1. TypeInv /\ Inv
  BY DEF Placing
<1>2. CASE NewHost(t)
  <2>0. PICK r \in Requests : \E h \in r.hosts :
          /\ r.kind = "import" /\ req' = [req EXCEPT ![t] = r]
          /\ Write(Put({h}, Present)) \/ UNCHANGED store
    BY <1>2 DEF NewHost
  <2>1. PICK h \in r.hosts :
          /\ r.kind = "import" /\ req' = [req EXCEPT ![t] = r]
          /\ Write(Put({h}, Present)) \/ UNCHANGED store
    BY <2>0
  <2>2. h \in Hosts /\ req'[t] = r
    BY <1>1, <2>1, RequestsAssumption DEF TypeInv, ClientType
  <2>3. h \in Imported'
    BY <2>1, <2>2 DEF Imported
  <2>4. CASE Write(Put({h}, Present))
    <3> DEFINE w == Put({h}, Present)
    <3>1. {h} \in SUBSET Docs
      BY <2>2, DocFacts
    <3>2. w \in Writes /\ DOMAIN w = {h}
      BY <3>1, PutFacts, ValueFacts
    <3>3. db' = Over(w, db)
      BY <2>4 DEF Write, Publish
    <3> HIDE DEF w
    <3>4. DOMAIN w \subseteq HostKeys(h)
      BY <2>2, <3>2, HostKeysFacts
    <3> QED BY <2>2, <2>3, <3>2, <3>3, <3>4, ImportPlaces
  <2>5. CASE UNCHANGED store
    BY <2>5, QuietPlaces DEF store
  <2> QED BY <2>1, <2>4, <2>5
<1>3. CASE PutNext(t)
  <2> DEFINE w == Head(todo[t])
  <2>1. pc[t] = "put" /\ UNCHANGED req /\ (Write(w) \/ UNCHANGED store)
    BY <1>3 DEF PutNext
  <2>2. PICK h \in Hosts :
          /\ req[t].kind = "import" /\ req[t].hosts = {h}
          /\ \A i \in DOMAIN todo[t] : ImportWrite(h, todo[t][i])
    BY <1>1, <2>1 DEF Inv, Importing, Imports
  <2>3. todo[t] \in Seq(Writes) /\ todo[t] # << >>
    BY <1>1, <2>1 DEF TypeInv, ClientType
  <2>4. w = todo[t][1] /\ 1 \in DOMAIN todo[t]
    BY <2>3, TailFacts
  <2>5. ImportWrite(h, w)
    BY <2>2, <2>4
  <2> HIDE DEF w
  <2>6. w \in Writes /\ DOMAIN w \subseteq HostKeys(h)
    BY <2>5, ImportWriteFacts
  <2>7. h \in Imported'
    BY <2>1, <2>2 DEF Imported
  <2>8. CASE Write(w)
    <3>1. db' = Over(w, db)
      BY <2>8 DEF Write, Publish
    <3> QED BY <2>2, <2>6, <2>7, <3>1, ImportPlaces
  <2>9. CASE UNCHANGED store
    BY <2>9, QuietPlaces DEF store
  <2> QED BY <2>1, <2>8, <2>9
<1>4. CASE Update(t)
  BY <1>4, UpdatePlaces
<1>5. CASE CallCommit(t) \/ CommitFails(t)
  <2>1. pc[t] = "commit" /\ UNCHANGED req /\ (CommitKnown(t) \/ UNCHANGED store)
    BY <1>5 DEF CallCommit, CommitFails
  <2>2. CASE CommitKnown(t)
    BY <2>1, <2>2, CommitPlaces
  <2>3. CASE UNCHANGED store
    BY <2>3, QuietPlaces DEF store
  <2> QED BY <2>1, <2>2, <2>3
<1>6. CASE MakePlan(t) \/ Find(t) \/ Place(t) \/ Crash(t) \/ CounterLost(t)
  <2>1. db' = db
    BY <1>6 DEF MakePlan, Find, Place, Crash, CounterLost, LoseCounter, store
  <2> QED BY <2>1, QuietPlaces
<1>7. CASE Start(t) \/ RunPlan(t) \/ Call(t) \/ CallFails(t) \/ Deliver(t)
  <2>1. ASSUME NEW w, Execute(t, w)
        PROVE  db' = db
    BY <2>1 DEF Execute, Ends
  <2>2. UNCHANGED store \/ \E w : Execute(t, w)
    BY <1>7 DEF Start, RunPlan, First, Call, CallFails, Deliver
  <2>3. db' = db
    BY <2>1, <2>2 DEF store
  <2> QED BY <2>3, QuietPlaces
<1>8. CASE CallAbort(t) \/ TooOld(t)
  <2>1. db' = db
    BY <1>8 DEF CallAbort, TooOld, Abort, Lifetime, Ends, store
  <2> QED BY <2>1, QuietPlaces
<1> QED BY <1>2, <1>3, <1>4, <1>5, <1>6, <1>7, <1>8 DEF Begin, Continue, Mishap

\* At first every host is placed.
LEMMA PlacingInit == Init => Placing
<1> SUFFICES ASSUME Init
             PROVE  Placing
  OBVIOUS
<1>1. TypeInv /\ Inv
  BY InitInv
<1>2. \A t \in Txns : pc[t] = "idle" /\ req[t] = NoRequest
  BY DEF Init, NoRequest
<1>3. Placed
  BY InitDb DEF Placed, Exists, In, There, At
<1> QED BY <1>1, <1>2, <1>3 DEF Placing, Standing, NoneYet, Live

\* Every step keeps every host placed.
LEMMA PlacingStep ==
  ASSUME Placing, [Next]_vars
  PROVE  Placing'
<1>1. TypeInv' /\ Inv'
  BY InvStep DEF Placing
<1>2. CASE UNCHANGED vars
  <2>1. UNCHANGED << db, session, buf, stale, pc, req, todo, skewed >>
    BY <1>2 DEF vars, store, client, history
  <2>2. Placed' /\ NoneYet'
    BY <2>1 DEF Placing, Placed, Imported, Exists, In, NoneYet
  <2>3. Standing'
    BY <2>1 DEF Placing, Standing, Goal, Live, Active, Unplaced, Imported
  <2> QED BY <1>1, <2>2, <2>3 DEF Placing
<1>3. CASE Next
  <2>1. PICK t \in Txns : Begin(t) \/ Continue(t) \/ Mishap(t) \/ TooOld(t)
    BY <1>3 DEF Next
  <2>2. PICK w \in Writes :
        /\ db' = Over(w, db) /\ skewed \subseteq skewed'
        /\ \A u \in Txns : u # t =>
            /\ pc'[u] = pc[u] /\ req'[u] = req[u] /\ todo'[u] = todo[u]
            /\ session'[u] = session[u] /\ buf'[u] = buf[u]
            /\ Active(u) => stale[u] \cup DOMAIN w \subseteq stale'[u]
    BY <2>1, ActionStep DEF Placing, Kept, Beside
  <2>3. Imported \subseteq Imported' /\ NoneYet'
    BY <2>1, RequestsStay
  <2>4. Unplaced \subseteq Unplaced'
    BY <2>2, <2>3 DEF Unplaced
  <2>5. Placed'
    BY <2>1, <2>2, <2>3, ActionPlaces
  <2>6. ASSUME NEW u \in Txns, Live(u)'
        PROVE  Stood(db', stale'[u], req'[u], Goal(u)', Unplaced')
    <3>1. CASE u = t
      BY <2>1, <2>4, <2>6, <3>1, ActionStands
    <3>2. CASE u # t
      <4>1. /\ Live(u) /\ stale[u] \cup DOMAIN w \subseteq stale'[u]
            /\ req'[u] = req[u] /\ Goal(u)' = Goal(u)
        BY <2>2, <2>6, <3>2 DEF Live, Active, Goal
      <4>2. Stood(db, stale[u], req[u], Goal(u), Unplaced) /\ db \in [Docs -> Vals]
        BY <4>1 DEF Placing, Standing, TypeInv, StoreType
      <4>3. Stood(Over(w, db), stale'[u], req[u], Goal(u), Unplaced')
        BY <2>4, <4>1, <4>2, StoodPublish
      <4> QED BY <2>2, <4>1, <4>3
    <3> QED BY <3>1, <3>2
  <2>7. Standing'
    BY <2>6 DEF Standing
  <2> QED BY <1>1, <2>3, <2>5, <2>7 DEF Placing
<1> QED BY <1>2, <1>3

\* A host has a relation exactly when it exists, though different commands write the two,
\* but for imported hosts and those whose relations a commit did not know.
THEOREM HostsArePlaced == Spec => []Placed
<1>1. Init => Placing
  BY PlacingInit
<1>2. Placing /\ [Next]_vars => Placing'
  BY PlacingStep
<1>3. Placing => Placed
  BY DEF Placing
<1> QED BY <1>1, <1>2, <1>3, PTL DEF Spec
=============================================================================
