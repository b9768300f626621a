----------------------------- MODULE Subscriptions -----------------------------
(***************************************************************************)
(* The subscriptions an event server knows, from a list-watch of their     *)
(* collection: the map from subscription ids to subscriptions, and the map *)
(* from event types to the ids of their subscribers, by which the event    *)
(* handler finds the queues of an event.  Unlike the cloud server's map    *)
(* they are keyed by the id within the document.                           *)
(***************************************************************************)
EXTENDS ListWatch

CONSTANTS
    Types,          \* event types
    FormOf          \* SubscriptionForm of each value

ASSUME FormAssumption == FormOf \in [Values -> SUBSET Types]

NoId == 0           \* the id, and "" the event type, of the zero value
NoType == ""
Ids == Docs \cup {NoId}

VARIABLES
    subscriptions,  \* d.subscriptions
    subscribers     \* d.subscribers

maps == << subscriptions, subscribers >>
svars == << vars, maps >>

\* Those two of the document that comes with a change.
IdOf(e) == IF Document(e) = Zero THEN NoId ELSE e.doc
Form(v) == IF v = Zero THEN {NoType} ELSE IF v = Absent THEN {} ELSE FormOf[v]

SInit ==
    /\ Init
    /\ subscriptions = [i \in Ids |-> Absent]
    /\ subscribers = [t \in Types \cup {NoType} |-> {}]

\* CalSliceDiff, remSubscriber and addSubscriber for the types that differ.
Resubscribe(D, val) ==
    subscribers' = [t \in DOMAIN subscribers |->
        (subscribers[t] \ {i \in D : t \in Form(subscriptions[i]) \ Form(val[i])})
            \cup {i \in D : t \in Form(val[i]) \ Form(subscriptions[i])}]

\* Mutant of OnUpsert: a known subscription is not replaced.
OnInsert(D, val) ==
    /\ subscriptions' = [i \in Ids |->
            IF i \in D /\ subscriptions[i] = Absent THEN val[i] ELSE subscriptions[i]]
    /\ Resubscribe(D, val)
\* onUpsertSubscriptions.  A value stands for what GetCacheKey tells apart: id, URL,
\* confirmation, form and timeout; a change of nothing else is not taken over.
OnUpsert(D, val) ==
    /\ subscriptions' = [i \in Ids |-> IF i \in D THEN val[i] ELSE subscriptions[i]]
    /\ Resubscribe(D, val)

\* onDeleteSubscriptions, with the id and the form of the document it is given.
OnDelete(e) ==
    /\ subscriptions' = [subscriptions EXCEPT ![IdOf(e)] = Absent]
    /\ subscribers' = [t \in DOMAIN subscribers |->
            IF t \in Form(Document(e)) THEN subscribers[t] \ {IdOf(e)} ELSE subscribers[t]]

SListPage == ListPage /\ OnUpsert(Page, store)
SListPageError(d) == ListPageError(d) /\ OnUpsert({c \in Page : c < d}, store)
SStreamNext ==
    /\ StreamNext
    /\ IF Change.op = "delete" THEN OnDelete(Change)
       ELSE OnUpsert({IdOf(Change)}, [i \in {IdOf(Change)} |-> Document(Change)])
SCrash ==
    /\ Crash
    /\ subscriptions' = [i \in Ids |-> Absent]
    /\ subscribers' = [t \in DOMAIN subscribers |-> {}]

SNext ==
    \/ Writes /\ UNCHANGED maps
    \/ OpenStream /\ UNCHANGED maps
    \/ CountDocuments /\ UNCHANGED maps
    \/ ListDone /\ UNCHANGED maps
    \/ Rewatch /\ UNCHANGED maps
    \/ Failures /\ UNCHANGED maps
    \/ SListPage \/ SStreamNext
    \/ \E d \in Docs : SListPageError(d)
    \/ SCrash

SSpec == SInit /\ [][SNext]_svars

\* The process goes on; writes and failures need not happen.
Process ==
    \/ (OpenStream \/ CountDocuments \/ ListDone \/ Rewatch) /\ UNCHANGED maps
    \/ SListPage \/ SStreamNext
SFairSpec == SSpec /\ WF_svars(Process)

-----------------------------------------------------------------------------
(* Properties.                                                             *)

\* The stream broke after an event and before it was opened again once: it stays so
\* until the process is restarted.
Stuck == pc = "retry" /\ Refused

\* In the end the cloud server's copy is the collection, but for the documents left
\* out, or its stream is refused for ever: no order of listing, changes, breaks and
\* restarts keeps the copy from converging for another reason.
Converges == <>[](\A d \in Docs : tasklist[d] = store[d] \/ Excused(d)) \/ <>[]Stuck

\* An event server that has read all changes knows every subscription there is, as it is.
KnowsSubscriptions ==
    CaughtUp => \A d \in Present : subscriptions[d] = store[d] \/ Excused(d)

\* The two maps agree after any sequence of lists, changes that arrive again or bring no
\* document, and updates of the form: the subscribers of a type are the
\* subscriptions with the type in their form.
RoutesAgree ==
    \A t \in DOMAIN subscribers : subscribers[t] = {i \in Ids : t \in Form(subscriptions[i])}

\* "It delete local subscription metadata and removes subscriber in local chains"
\* (distributer.go:226): after the change that deletes it, a subscription is unknown.
DeletedRemoved ==
    [][StreamNext /\ Change.op = "delete" => subscriptions'[Change.doc] = Absent]_svars
=============================================================================
