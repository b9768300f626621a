----------------------------- MODULE Transactions -----------------------------
(***************************************************************************)
(* Distributed transactions.  A service names a session in the header of   *)
(* its calls; the core service counts the commands of the session in redis *)
(* and tells MongoDB to start the session's transaction with the first of  *)
(* them and to go on with it otherwise.  The service commits or aborts by  *)
(* calls of their own.  MongoDB is external: a transaction reads the       *)
(* snapshot of its first command, a write to what another transaction      *)
(* writes, or has written since that snapshot, aborts it, and so does its  *)
(* age.  A database is a function from keys to values.                     *)
(***************************************************************************)
EXTENDS FiniteSets

CONSTANTS
    Txns,       \* sessions; one transaction each
    Keys,       \* what the database holds: documents, present or not
    Values

VARIABLES
    db,         \* what is committed
    counted,    \* sessions whose counter is in redis
    session,    \* MongoDB's transaction of each session
    buf,        \* its writes: a function from some of the keys
    stale       \* keys others have committed since its snapshot

Nothing == [k \in {} |-> "none"]
Over(w, f) == [k \in DOMAIN f \cup DOMAIN w |-> IF k \in DOMAIN w THEN w[k] ELSE f[k]]
Active(t) == session[t] = "active"

TxnType ==
    /\ db \in [Keys -> Values]
    /\ counted \subseteq Txns
    /\ session \in [Txns -> {"none", "active", "committed", "aborted"}]
    /\ \A t \in Txns :
        /\ DOMAIN buf[t] \subseteq Keys
        /\ \A k \in DOMAIN buf[t] : buf[t][k] \in Values
        /\ stale[t] \subseteq Keys
        /\ ~Active(t) => buf[t] = Nothing /\ stale[t] = {}

TxnInit ==
    /\ counted = {}
    /\ session = [t \in Txns |-> "none"]
    /\ buf = [t \in Txns |-> Nothing]
    /\ stale = [t \in Txns |-> {}]

-----------------------------------------------------------------------------
\* The first command of the counter starts the transaction, which MongoDB
\* refuses for one that was started before; the others need it to be active.
Accepts(t) == session[t] = IF t \in counted THEN "active" ELSE "none"

\* Mutant of Conflicts: only the writes of open transactions conflict.
ConflictsOpen(t, w) ==
    DOMAIN w \cap UNION {DOMAIN buf[u] : u \in Txns \ {t}} # {}
Conflicts(t, w) ==
    DOMAIN w \cap (stale[t] \cup UNION {DOMAIN buf[u] : u \in Txns \ {t}}) # {}
Succeeds(t, w) == Accepts(t) /\ ~Conflicts(t, w)

\* Mutant of Ends: its writes stay in the buffer.
EndsKeep(t, how) ==
    /\ session' = [session EXCEPT ![t] = how]
    /\ UNCHANGED << db, buf >>
\* The transaction of t ends; its writes are gone from the buffer.
Ends(t, how) ==
    /\ session' = [session EXCEPT ![t] = how]
    /\ buf' = [buf EXCEPT ![t] = Nothing]
    /\ UNCHANGED db

\* A command, a read being one that writes nothing.
Execute(t, w) ==
    /\ counted' = counted \cup {t}
    /\ \/ /\ ~Accepts(t)
          /\ UNCHANGED << db, session, buf, stale >>
       \/ /\ Accepts(t) /\ Conflicts(t, w)
          /\ Ends(t, "aborted")
          /\ stale' = [stale EXCEPT ![t] = {}]
       \/ /\ Succeeds(t, w)
          /\ session' = [session EXCEPT ![t] = "active"]
          /\ buf' = [buf EXCEPT ![t] = Over(w, @)]
          /\ UNCHANGED << db, stale >>

\* w becomes visible; the snapshots of the other transactions are older.
Publish(w, others) ==
    /\ db' = Over(w, db)
    /\ stale' = [t \in Txns |->
           IF t \notin others THEN {}
           ELSE IF Active(t) THEN stale[t] \cup DOMAIN w ELSE stale[t]]

\* Mutant of Commit: the transaction is committed in part.
CommitLast(t) ==
    \/ /\ Active(t)
       /\ \E k \in DOMAIN buf[t] : Publish([j \in {k} |-> buf[t][k]], Txns \ {t})
       /\ session' = [session EXCEPT ![t] = "committed"]
       /\ buf' = [buf EXCEPT ![t] = Nothing]
       /\ counted' = counted \ {t}
    \/ /\ ~Active(t)
       /\ counted' = counted \cup {t}
       /\ UNCHANGED << db, session, buf, stale >>
\* CommitTransaction; an error leaves the counter to its expiry.
Commit(t) ==
    \/ /\ Active(t)
       /\ Publish(buf[t], Txns \ {t})
       /\ session' = [session EXCEPT ![t] = "committed"]
       /\ buf' = [buf EXCEPT ![t] = Nothing]
       /\ counted' = counted \ {t}
    \/ /\ ~Active(t)
       /\ counted' = counted \cup {t}
       /\ UNCHANGED << db, session, buf, stale >>

\* AbortTransaction; the driver does not report that there was none.
Abort(t) ==
    /\ IF Active(t)
       THEN Ends(t, "aborted") /\ stale' = [stale EXCEPT ![t] = {}]
       ELSE UNCHANGED << db, session, buf, stale >>
    /\ counted' = counted \ {t}

\* MongoDB aborts a transaction that is too old.
Lifetime(t) ==
    /\ Active(t)
    /\ Ends(t, "aborted")
    /\ stale' = [stale EXCEPT ![t] = {}]
    /\ UNCHANGED counted

\* The counter is lost or expires.
LoseCounter(t) ==
    /\ t \in counted
    /\ counted' = counted \ {t}
    /\ UNCHANGED << db, session, buf, stale >>

\* A command outside any transaction waits for the writers of its documents.
Write(w) ==
    /\ \A t \in Txns : DOMAIN w \cap DOMAIN buf[t] = {}
    /\ Publish(w, Txns)
    /\ UNCHANGED << counted, session, buf >>
=============================================================================
