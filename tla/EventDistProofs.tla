---------------------------- MODULE EventDistProofs ----------------------------
(***************************************************************************)
(* Proofs about the event server.  An event moves from the chain through   *)
(* the distributor's hands and the queues to the subscriber; each step     *)
(* moves it to the next place, confirms it or gives it up.                 *)
(***************************************************************************)
EXTENDS EventDist, SharedLemmas

Place == {Checking, 0} \cup Events
Counts == {c \in Int : c = Checking \/ c = Trimmed \/ c >= TrimThreshold}

\* The variables by themselves.
TypeParts ==
    /\ chain \in Seq(Nat)
    /\ queue \in [Queues -> Seq(Nat)]
    /\ cursor \in [Subs -> 0 .. Len(chain)]
    /\ isMaster \subseteq Nodes
    /\ dpc \in [Nodes -> {"idle", "cursors", "watch", "handle"}]
    /\ oldest \in [Nodes -> 0 .. Len(chain)] /\ start \in [Nodes -> 0 .. Len(chain)]
    /\ toread \in [Nodes -> SUBSET Subs] /\ seen \in [Nodes -> [Subs -> 0 .. Len(chain)]]
    /\ todo \in [Nodes -> Seq(Nat)]
    /\ hev \in [Nodes -> Place] /\ hsubs \in [Nodes -> SUBSET Subs]
    /\ pev \in [Nodes -> [Subs -> Place]]
    /\ count \in [Nodes -> [Queues -> Counts]]
    /\ received \in [Subs -> SUBSET Events]
    /\ {faults, crashes, flips} \subseteq Nat

\* The order of the chain, and where events are.
Rest ==
    /\ \A i, j \in Events : i <= j => chain[i] <= chain[j]
    /\ \A q \in Queues : Elems(queue[q]) \subseteq Events
    /\ \A n \in Nodes :
        /\ Elems(todo[n]) \subseteq Events
        /\ (todo[n] # << >>) <=> (dpc[n] = "handle")
        /\ (hev[n] \in Events) <=> (hsubs[n] # {})
TypeInv == TypeParts /\ Rest

-----------------------------------------------------------------------------
(* Queues.                                                                 *)

\* What an append, a pop and a trim do to the elements of a queue.
LEMMA AppendElems ==
  ASSUME NEW q \in Seq(Nat), NEW e \in Nat
  PROVE  /\ Append(q, e) \in Seq(Nat) /\ Elems(Append(q, e)) = Elems(q) \cup {e}
         /\ Append(q, e) # << >>
<1>1. /\ Append(q, e) \in Seq(Nat) /\ Len(Append(q, e)) = Len(q) + 1
      /\ \A i \in 1 .. Len(q) : Append(q, e)[i] = q[i]
      /\ Append(q, e)[Len(q) + 1] = e
  BY AppendProperties
<1>2. Len(q) \in Nat /\ DOMAIN q = 1 .. Len(q) /\ DOMAIN Append(q, e) = 1 .. Len(q) + 1
  BY <1>1, LenProperties
<1>3. \A x : x \in Elems(Append(q, e)) <=> x \in Elems(q) \cup {e}
  <2>1. ASSUME NEW x \in Elems(Append(q, e)) PROVE x \in Elems(q) \cup {e}
    <3>1. PICK i \in 1 .. Len(q) + 1 : x = Append(q, e)[i]
      BY <1>2, <2>1 DEF Elems
    <3>2. i \in 1 .. Len(q) \/ i = Len(q) + 1
      BY <1>2
    <3> QED BY <1>1, <1>2, <3>1, <3>2 DEF Elems
  <2>2. ASSUME NEW x \in Elems(q) PROVE x \in Elems(Append(q, e))
    <3>1. PICK i \in 1 .. Len(q) : x = q[i]
      BY <1>2, <2>2 DEF Elems
    <3>2. i \in 1 .. Len(q) + 1
      BY <1>2
    <3> QED BY <1>1, <1>2, <3>1, <3>2 DEF Elems
  <2>3. e \in Elems(Append(q, e))
    <3>1. Len(q) + 1 \in 1 .. Len(q) + 1
      BY <1>2
    <3> QED BY <1>1, <1>2, <3>1 DEF Elems
  <2> QED BY <2>1, <2>2, <2>3
<1>4. Append(q, e) # << >>
  <2>1. Len(Append(q, e)) # 0
    BY <1>1, <1>2
  <2> QED BY <1>1, <2>1, EmptyIff
<1> QED BY <1>1, <1>3, <1>4

\* Popping takes the head out of the elements of a queue and leaves the others.
LEMMA PopElems ==
  ASSUME NEW q \in Seq(Nat), q # << >>
  PROVE  /\ Tail(q) \in Seq(Nat) /\ Head(q) \in Nat
         /\ Elems(q) = {Head(q)} \cup Elems(Tail(q))
         /\ Len(q) \in Nat \ {0}
         /\ Tail(q) = << >> <=> Len(q) = 1
         /\ Len(q) = 1 => Elems(Tail(q)) = {}
<1>1. /\ Head(q) = q[1] /\ q[1] \in Nat /\ 1 \in DOMAIN q
      /\ Len(q) \in Nat \ {0}
      /\ Tail(q) \in Seq(Nat)
      /\ (Tail(q) = << >> <=> Len(q) = 1)
      /\ \A i \in DOMAIN Tail(q) : i + 1 \in DOMAIN q /\ Tail(q)[i] = q[i + 1]
  BY TailFacts
<1>2. ASSUME NEW x \in Elems(q) PROVE x = Head(q) \/ x \in Elems(Tail(q))
  <2>1. PICK i \in DOMAIN q : x = q[i]
    BY <1>2 DEF Elems
  <2>2. CASE i = 1
    BY <1>1, <2>1, <2>2
  <2>3. CASE i # 1
    <3>1. i - 1 \in DOMAIN Tail(q) /\ Tail(q)[i - 1] = q[i]
      BY <2>1, <2>3, TailKeeps
    <3> QED BY <2>1, <3>1 DEF Elems
  <2> QED BY <2>2, <2>3
<1>3. ASSUME NEW x, x = Head(q) \/ x \in Elems(Tail(q)) PROVE x \in Elems(q)
  BY <1>1, <1>3 DEF Elems
<1>4. Len(q) = 1 => Elems(Tail(q)) = {}
  <2>1. Len(q) = 1 => DOMAIN Tail(q) = {}
    BY <1>1, EmptySeq
  <2> QED BY <2>1 DEF Elems
<1>5. Elems(q) = {Head(q)} \cup Elems(Tail(q))
  BY <1>2, <1>3
<1> QED BY <1>1, <1>4, <1>5

\* The empty queue has no elements.
LEMMA NoElems == Elems(<< >>) = {} /\ << >> \in Seq(Nat)
  BY EmptySeq DEF Elems

\* Cutting a queue parts its elements.
LEMMA CutElems ==
  ASSUME NEW q \in Seq(Nat), NEW cut \in 0 .. Len(q)
  PROVE  /\ SubSeq(q, cut + 1, Len(q)) \in Seq(Nat)
         /\ Elems(q) = Elems(SubSeq(q, 1, cut)) \cup Elems(SubSeq(q, cut + 1, Len(q)))
<1>1. Len(q) \in Nat /\ DOMAIN q = 1 .. Len(q) /\ \A i \in 1 .. Len(q) : q[i] \in Nat
  BY LenProperties, ElementOfSeq
<1>2. /\ SubSeq(q, 1, cut) \in Seq(Nat) /\ Len(SubSeq(q, 1, cut)) = cut
      /\ \A i \in 1 .. cut : SubSeq(q, 1, cut)[i] = q[i]
  BY <1>1, SubSeqProperties
<1>3. /\ SubSeq(q, cut + 1, Len(q)) \in Seq(Nat)
      /\ Len(SubSeq(q, cut + 1, Len(q))) = Len(q) - cut
      /\ \A i \in 1 .. Len(q) - cut : SubSeq(q, cut + 1, Len(q))[i] = q[cut + i]
  <2>1. PICK m \in Int : m = cut + 1
    BY <1>1
  <2>2. /\ SubSeq(q, m, Len(q)) \in Seq(Nat)
        /\ Len(SubSeq(q, m, Len(q))) = IF m <= Len(q) THEN Len(q) - m + 1 ELSE 0
        /\ \A i \in 1 .. Len(q) - m + 1 : SubSeq(q, m, Len(q))[i] = q[m + i - 1]
    <3>1. \A i \in m .. Len(q) : q[i] \in Nat
      BY <1>1, <2>1
    <3> QED BY <1>1, <3>1, SubSeqProperties
  <2>3. Len(q) - m + 1 = Len(q) - cut /\ \A i \in 1 .. Len(q) - cut : m + i - 1 = cut + i
    BY <1>1, <2>1
  <2>4. (IF m <= Len(q) THEN Len(q) - m + 1 ELSE 0) = Len(q) - cut
    <3>1. PICK l \in Nat : l = Len(q)
      BY <1>1
    <3>2. cut \in 0 .. l
      BY <3>1
    <3>3. (IF m <= l THEN l - m + 1 ELSE 0) = l - cut
      BY <2>1, <3>2
    <3> QED BY <3>1, <3>3
  <2>5. \A i \in 1 .. Len(q) - cut : SubSeq(q, m, Len(q))[i] = q[cut + i]
    BY <2>2, <2>3
  <2> QED BY <2>1, <2>2, <2>4, <2>5
<1>4. /\ DOMAIN SubSeq(q, 1, cut) = 1 .. cut
      /\ DOMAIN SubSeq(q, cut + 1, Len(q)) = 1 .. Len(q) - cut
  BY <1>2, <1>3, LenProperties
<1> DEFINE a == SubSeq(q, 1, cut)
           b == SubSeq(q, cut + 1, Len(q))
<1>5. /\ b \in Seq(Nat) /\ DOMAIN a = 1 .. cut /\ DOMAIN b = 1 .. Len(q) - cut
      /\ \A i \in 1 .. cut : a[i] = q[i]
      /\ \A i \in 1 .. Len(q) - cut : b[i] = q[cut + i]
  BY <1>2, <1>3, <1>4
<1> HIDE DEF a, b
<1>6. ASSUME NEW x \in Elems(q) PROVE x \in Elems(a) \cup Elems(b)
  <2>1. PICK i \in 1 .. Len(q) : x = q[i]
    BY <1>1, <1>6 DEF Elems
  <2>2. CASE i \in 1 .. cut
    BY <1>5, <2>1, <2>2 DEF Elems
  <2>3. CASE i \notin 1 .. cut
    <3>1. i - cut \in 1 .. Len(q) - cut /\ cut + (i - cut) = i
      BY <1>1, <2>3
    <3> QED BY <1>5, <2>1, <3>1 DEF Elems
  <2> QED BY <2>2, <2>3
<1>7. ASSUME NEW x \in Elems(a) \cup Elems(b) PROVE x \in Elems(q)
  <2>1. CASE x \in Elems(a)
    <3>1. PICK i \in 1 .. cut : x = q[i]
      BY <1>5, <2>1 DEF Elems
    <3>2. i \in 1 .. Len(q)
      BY <1>1
    <3> QED BY <1>1, <3>1, <3>2 DEF Elems
  <2>2. CASE x \in Elems(b)
    <3>1. PICK i \in 1 .. Len(q) - cut : x = q[cut + i]
      BY <1>5, <2>2 DEF Elems
    <3>2. cut + i \in 1 .. Len(q)
      BY <1>1
    <3> QED BY <1>1, <3>1, <3>2 DEF Elems
  <2> QED BY <1>7, <2>1, <2>2
<1>8. Elems(q) = Elems(a) \cup Elems(b)
  BY <1>6, <1>7
<1> QED BY <1>5, <1>8 DEF a, b
-----------------------------------------------------------------------------
(* Types.                                                                  *)

\* Events are the numbers of the chain's nodes.
LEMMA EventFacts ==
  ASSUME TypeInv
  PROVE  /\ Len(chain) \in Nat /\ DOMAIN chain = Events /\ Events = 1 .. Len(chain)
         /\ \A i \in Events : chain[i] \in Nat /\ i \in Nat \ {0}
         /\ \A e \in Place : e \in Events <=> e > 0
<1>1. Len(chain) \in Nat /\ DOMAIN chain = Events
  BY LenProperties DEF TypeInv, TypeParts, Events
<1>2. \A i \in Events : chain[i] \in Nat
  BY <1>1, ElementOfSeq DEF TypeInv, TypeParts, Events
<1> QED BY <1>1, <1>2 DEF Events, Place, Checking

\* The type invariant says more than TypeOK.
LEMMA TypeImplies == TypeInv => TypeOK
<1> SUFFICES ASSUME TypeInv PROVE TypeOK
  OBVIOUS
<1>1. \A n \in Nodes : \A s \in Subs : pev[n][s] \in Place
  BY DEF TypeInv, TypeParts
<1> QED BY <1>1 DEF TypeInv, TypeParts, Rest, TypeOK, Place

\* Initially every variable has its type.
LEMMA TypeInit == Init => TypeInv
<1> SUFFICES ASSUME Init PROVE TypeInv
  OBVIOUS
<1>1. << >> \in Seq(Nat) /\ Len(chain) = 0 /\ Events = {} /\ Elems(<< >>) = {}
  BY NoElems, EmptySeq DEF Init, Events
<1>2. Checking \in Counts /\ Checking \in Place
  BY DEF Counts, Place, Checking
<1>3. TypeParts
  BY <1>1, <1>2 DEF Init, TypeParts
<1>4. Rest
  BY <1>1 DEF Init, Rest, Checking
<1> QED BY <1>3, <1>4 DEF TypeInv

\* The chain grows and keeps its order; what was an event stays one.
LEMMA TypePublish ==
  ASSUME TypeInv, Publish
  PROVE  TypeInv' /\ Events' = Events \cup {Len(chain) + 1}
<1>1. PICK later \in SecondSteps :
          chain' = Append(chain, later + IF chain = << >> THEN 0 ELSE chain[Len(chain)])
  BY DEF Publish
<1> DEFINE last == IF chain = << >> THEN 0 ELSE chain[Len(chain)]
<1>2. last \in Nat /\ later \in Nat /\ \A i \in Events : chain[i] <= last
  <2>1. CASE chain = << >>
    BY <2>1, EmptySeq, SecondsAssumption DEF Events
  <2>2. CASE chain # << >>
    <3>1. Len(chain) \in Events
      BY <2>2, EventFacts, EmptyIff DEF TypeInv, TypeParts
    <3> QED BY <2>2, <3>1, EventFacts, SecondsAssumption DEF TypeInv, Rest
  <2> QED BY <2>1, <2>2
<1>3. /\ chain' \in Seq(Nat) /\ Len(chain') = Len(chain) + 1
      /\ \A i \in Events : chain'[i] = chain[i]
      /\ chain'[Len(chain) + 1] = later + last
  BY <1>1, <1>2, AppendProperties DEF TypeInv, TypeParts, Events
<1> HIDE DEF last
<1>4. Events' = Events \cup {Len(chain) + 1}
  BY <1>3, EventFacts DEF Events
<1>5. UNCHANGED << queue, cursor, isMaster, dpc, oldest, toread, seen, start, todo, hev, hsubs,
                   pev, count, faults, crashes, flips, received >>
  BY DEF Publish, redis, dist, reading, handler, budget, history
<1>6. Place \subseteq Place' /\ 0 .. Len(chain) \subseteq 0 .. Len(chain')
  BY <1>3, <1>4, EventFacts DEF Place
<1>7. TypeParts'
  <2>1. Counts' = Counts
    BY DEF Counts
  <2>2. /\ cursor' \in [Subs -> 0 .. Len(chain')]
        /\ oldest' \in [Nodes -> 0 .. Len(chain')] /\ start' \in [Nodes -> 0 .. Len(chain')]
    BY <1>5, <1>6 DEF TypeInv, TypeParts
  <2>5. seen' \in [Nodes -> [Subs -> 0 .. Len(chain')]]
    <3>1. [Subs -> 0 .. Len(chain)] \subseteq [Subs -> 0 .. Len(chain')]
      BY <1>6
    <3>2. [Nodes -> [Subs -> 0 .. Len(chain)]] \subseteq [Nodes -> [Subs -> 0 .. Len(chain')]]
      BY <3>1
    <3> QED BY <1>5, <3>2 DEF TypeInv, TypeParts
  <2>3. hev' \in [Nodes -> Place'] /\ pev' \in [Nodes -> [Subs -> Place']]
    <3>1. [Subs -> Place] \subseteq [Subs -> Place']
      BY <1>6
    <3>2. [Nodes -> Place] \subseteq [Nodes -> Place']
      BY <1>6
    <3>3. [Nodes -> [Subs -> Place]] \subseteq [Nodes -> [Subs -> Place']]
      BY <3>1
    <3> QED BY <1>5, <3>2, <3>3 DEF TypeInv, TypeParts
  <2>4. received' \in [Subs -> SUBSET Events']
    BY <1>4, <1>5 DEF TypeInv, TypeParts
  <2> QED BY <1>3, <1>5, <2>1, <2>2, <2>3, <2>4, <2>5 DEF TypeInv, TypeParts
<1>8. Rest'
  <2>1. ASSUME NEW i \in Events', NEW j \in Events', i <= j PROVE chain'[i] <= chain'[j]
    <3>1. CASE j \in Events
      <4>1. i \in Events
        BY <1>4, <2>1, <3>1, EventFacts
      <4> QED BY <1>3, <2>1, <3>1, <4>1 DEF TypeInv, Rest
    <3>2. CASE j = Len(chain) + 1
      BY <1>2, <1>3, <1>4, <2>1, <3>2, EventFacts
    <3> QED BY <1>4, <2>1, <3>1, <3>2
  <2>2. Queues' = Queues /\ \A q \in Queues : queue'[q] = queue[q]
    BY <1>5 DEF Queues
  <2>3. ASSUME NEW n \in Nodes
        PROVE  (hev'[n] \in Events') <=> (hsubs'[n] # {})
    <3>1. hev[n] \in Place /\ hev[n] # Len(chain) + 1
      BY EventFacts DEF TypeInv, TypeParts, Place, Checking
    <3> QED BY <1>4, <1>5, <3>1 DEF TypeInv, Rest
  <2>4. Elems(queue'[Main]) \subseteq Events' /\ \A q \in Queues' : Elems(queue'[q]) \subseteq Events'
    BY <1>4, <2>2 DEF TypeInv, Rest, Queues
  <2>5. \A n \in Nodes : /\ Elems(todo'[n]) \subseteq Events'
                         /\ (todo'[n] # << >>) <=> (dpc'[n] = "handle")
    BY <1>4, <1>5 DEF TypeInv, Rest
  <2> QED BY <2>1, <2>3, <2>4, <2>5 DEF Rest
<1> QED BY <1>4, <1>7, <1>8 DEF TypeInv

\* What a step that leaves the chain alone has to keep to.
LEMMA TypeFrame ==
  ASSUME TypeInv, chain' = chain,
         queue' \in [Queues -> Seq(Nat)], cursor' \in [Subs -> 0 .. Len(chain)],
         isMaster' \subseteq Nodes,
         dpc' \in [Nodes -> {"idle", "cursors", "watch", "handle"}],
         oldest' \in [Nodes -> 0 .. Len(chain)], start' \in [Nodes -> 0 .. Len(chain)],
         toread' \in [Nodes -> SUBSET Subs], seen' \in [Nodes -> [Subs -> 0 .. Len(chain)]],
         todo' \in [Nodes -> Seq(Nat)], hev' \in [Nodes -> Place],
         hsubs' \in [Nodes -> SUBSET Subs], pev' \in [Nodes -> [Subs -> Place]],
         count' \in [Nodes -> [Queues -> Counts]], received' \in [Subs -> SUBSET Events],
         {faults', crashes', flips'} \subseteq Nat,
         \A q \in Queues : Elems(queue'[q]) \subseteq Events,
         \A n \in Nodes : /\ Elems(todo'[n]) \subseteq Events
                          /\ (todo'[n] # << >>) <=> (dpc'[n] = "handle")
                          /\ (hev'[n] \in Events) <=> (hsubs'[n] # {})
  PROVE  TypeInv' /\ Events' = Events
<1>1. Events' = Events /\ Place' = Place /\ Counts' = Counts /\ Len(chain') = Len(chain)
  BY DEF Events, Place, Counts
<1>2. TypeParts'
  BY <1>1 DEF TypeInv, TypeParts
<1>3. Rest'
  BY <1>1 DEF TypeInv, Rest, Queues
<1> QED BY <1>1, <1>2, <1>3 DEF TypeInv

\* An element of a queue is an event.
LEMMA QueueFacts ==
  ASSUME TypeInv, NEW q \in Queues
  PROVE  queue[q] \in Seq(Nat) /\ Elems(queue[q]) \subseteq Events
  BY DEF TypeInv, TypeParts, Rest

\* So is one in the distributor's hands.
LEMMA TodoFacts ==
  ASSUME TypeInv, NEW n \in Nodes
  PROVE  /\ todo[n] \in Seq(Nat) /\ Elems(todo[n]) \subseteq Events
         /\ dpc[n] = "handle" => todo[n] # << >>
  BY DEF TypeInv, TypeParts, Rest

\* Each queue is one of these.
LEMMA QueueKinds == Main \in Queues /\ Subs \subseteq Queues /\ Main \notin Subs
  BY SubsAssumption DEF Queues

\* Mastership changes nothing else.
LEMMA TypeViewChange ==
  ASSUME TypeInv, NEW n \in Nodes, ViewChange(n)
  PROVE  TypeInv' /\ Events' = Events
<1>1. isMaster' \subseteq Nodes /\ flips' \in Nat
  BY DEF ViewChange, TypeInv, TypeParts
<1>2. UNCHANGED << chain, queue, cursor, dpc, oldest, toread, seen, start, todo, hev, hsubs, pev,
                   count, faults, crashes, received >>
  BY DEF ViewChange, redis, dist, reading, handler, history
<1> QED BY <1>1, <1>2, TypeFrame DEF TypeInv, TypeParts, Rest

\* A restarted instance holds nothing.
LEMMA TypeCrash ==
  ASSUME TypeInv, NEW n \in Nodes, Crash(n)
  PROVE  TypeInv' /\ Events' = Events
<1>1. UNCHANGED << chain, queue, cursor, isMaster, faults, flips, received >> /\ crashes' \in Nat
  BY DEF Crash, redis, history, TypeInv, TypeParts
<1>2. Checking \in Place /\ Checking \in Counts /\ 0 \in 0 .. Len(chain) /\ Checking \notin Events
  BY EventFacts DEF Place, Counts, Checking
<1>3. /\ dpc' \in [Nodes -> {"idle", "cursors", "watch", "handle"}]
      /\ oldest' \in [Nodes -> 0 .. Len(chain)] /\ start' \in [Nodes -> 0 .. Len(chain)]
      /\ toread' \in [Nodes -> SUBSET Subs] /\ seen' \in [Nodes -> [Subs -> 0 .. Len(chain)]]
      /\ todo' \in [Nodes -> Seq(Nat)] /\ hev' \in [Nodes -> Place]
      /\ hsubs' \in [Nodes -> SUBSET Subs]
  BY <1>2, NoElems DEF Crash, TypeInv, TypeParts
<1>4. pev' \in [Nodes -> [Subs -> Place]] /\ count' \in [Nodes -> [Queues -> Counts]]
  BY <1>2 DEF Crash, TypeInv, TypeParts
<1>5. ASSUME NEW m \in Nodes
      PROVE  /\ Elems(todo'[m]) \subseteq Events
             /\ (todo'[m] # << >>) <=> (dpc'[m] = "handle")
             /\ (hev'[m] \in Events) <=> (hsubs'[m] # {})
  <2>1. CASE m = n
    BY <1>2, <2>1, NoElems DEF Crash, TypeInv, TypeParts
  <2>2. CASE m # n
    BY <2>2 DEF Crash, TypeInv, TypeParts, Rest
  <2> QED BY <2>1, <2>2
<1> QED BY <1>1, <1>3, <1>4, <1>5, TypeFrame DEF TypeInv, TypeParts, Rest

\* A distributor begins to read the cursors.
LEMMA TypeResume ==
  ASSUME TypeInv, NEW n \in Nodes, Resume(n)
  PROVE  TypeInv' /\ Events' = Events
<1>1. UNCHANGED << chain, queue, cursor, isMaster, oldest, seen, start, todo, hev, hsubs, pev,
                   count, faults, crashes, flips, received >>
  BY DEF Resume, redis, handler, budget
<1>2. /\ dpc' \in [Nodes -> {"idle", "cursors", "watch", "handle"}]
      /\ toread' \in [Nodes -> SUBSET Subs]
  BY DEF Resume, TypeInv, TypeParts
<1>3. \A m \in Nodes : (todo'[m] # << >>) <=> (dpc'[m] = "handle")
  BY <1>1 DEF Resume, TypeInv, TypeParts, Rest
<1> QED BY <1>1, <1>2, <1>3, TypeFrame DEF TypeInv, TypeParts, Rest

\* What it does with a cursor it reads.
LEMMA ReadFacts ==
  ASSUME TypeInv, NEW n \in Nodes, NEW s \in Subs, ReadCursor(n, s)
  PROVE  /\ oldest' = oldest \/ oldest' = [oldest EXCEPT ![n] = cursor[s]]
         /\ seen' = seen \/ seen' = [seen EXCEPT ![n][s] = cursor[s]]
<1>1. CASE UNCHANGED << seen, oldest >>
  BY <1>1
<1>2. CASE /\ seen' = [seen EXCEPT ![n][s] = cursor[s]]
           /\ oldest' = [oldest EXCEPT ![n] = IF Older(cursor[s], oldest[n])
                                              THEN cursor[s] ELSE oldest[n]]
  <2>1. CASE Older(cursor[s], oldest[n])
    BY <1>2, <2>1
  <2>2. CASE ~Older(cursor[s], oldest[n])
    <3>1. [oldest EXCEPT ![n] = oldest[n]] = oldest
      BY DEF TypeInv, TypeParts
    <3> QED BY <1>2, <2>2, <3>1
  <2> QED BY <1>2, <2>1, <2>2
<1> QED BY <1>1, <1>2 DEF ReadCursor

\* It reads one, and keeps it if it is older than the one it has.
LEMMA TypeReadCursor ==
  ASSUME TypeInv, NEW n \in Nodes, NEW s \in Subs, ReadCursor(n, s)
  PROVE  TypeInv' /\ Events' = Events
<1>1. UNCHANGED << chain, queue, cursor, isMaster, dpc, start, todo, hev, hsubs, pev,
                   count, crashes, flips, received >>
  BY DEF ReadCursor, redis, handler
<1>2. /\ faults' \in Nat /\ toread' \in [Nodes -> SUBSET Subs]
      /\ cursor[s] \in 0 .. Len(chain)
  BY DEF ReadCursor, NoFail, Fail, TypeInv, TypeParts
<1>3. /\ oldest' = oldest \/ oldest' = [oldest EXCEPT ![n] = cursor[s]]
      /\ seen' = seen \/ seen' = [seen EXCEPT ![n][s] = cursor[s]]
  BY ReadFacts
<1>4. oldest' \in [Nodes -> 0 .. Len(chain)]
  <2>1. CASE oldest' = [oldest EXCEPT ![n] = cursor[s]]
    BY <1>2, <2>1 DEF TypeInv, TypeParts
  <2> QED BY <1>3, <2>1 DEF TypeInv, TypeParts
<1>5. seen' \in [Nodes -> [Subs -> 0 .. Len(chain)]]
  <2>1. CASE seen' = [seen EXCEPT ![n][s] = cursor[s]]
    BY <1>2, <2>1 DEF TypeInv, TypeParts
  <2> QED BY <1>3, <2>1 DEF TypeInv, TypeParts
<1> QED BY <1>1, <1>2, <1>4, <1>5, TypeFrame DEF TypeInv, TypeParts, Rest

\* What it starts from.
LEMMA StartFacts ==
  ASSUME TypeInv, NEW n \in Nodes, StartWatch(n)
  PROVE  /\ UNCHANGED << chain, queue, cursor, isMaster, oldest, toread, todo, hev, hsubs, pev,
                          count, crashes, flips, received >>
         /\ dpc[n] = "cursors" /\ seen' = [seen EXCEPT ![n] = [s \in Subs |-> 0]]
         /\ \/ /\ dpc' = [dpc EXCEPT ![n] = "idle"]
               /\ UNCHANGED << start, lost >>
            \/ \E from \in 0 .. Len(chain) :
                  /\ from = IF oldest[n] # 0 THEN oldest[n] ELSE Len(chain)
                  /\ StartAt(n, from)
<1>1. oldest[n] \in 0 .. Len(chain) /\ Len(chain) \in 0 .. Len(chain)
  BY EventFacts DEF TypeInv, TypeParts
<1> QED BY <1>1 DEF StartWatch, redis, handler

\* It starts, or has to resume.
LEMMA TypeStartWatch ==
  ASSUME TypeInv, NEW n \in Nodes, StartWatch(n)
  PROVE  TypeInv' /\ Events' = Events
<1>1. /\ UNCHANGED << chain, queue, cursor, isMaster, oldest, toread, todo, hev, hsubs, pev,
                       count, crashes, flips, received >>
      /\ dpc[n] = "cursors" /\ seen' = [seen EXCEPT ![n] = [s \in Subs |-> 0]]
      /\ faults' \in Nat
  <2>1. faults \in Nat /\ (faults' = faults \/ faults' = faults + 1)
    BY DEF StartWatch, NoFail, Fail, TypeInv, TypeParts
  <2>2. faults' \in Nat
    BY <2>1
  <2> QED BY <2>2, StartFacts
<1>2. /\ dpc' \in [Nodes -> {"idle", "cursors", "watch", "handle"}]
      /\ start' \in [Nodes -> 0 .. Len(chain)]
      /\ \A m \in Nodes : (todo'[m] # << >>) <=> (dpc'[m] = "handle")
  <2>1. /\ start' = start \/ \E from \in 0 .. Len(chain) : start' = [start EXCEPT ![n] = from]
        /\ dpc' = [dpc EXCEPT ![n] = "idle"] \/ dpc' = [dpc EXCEPT ![n] = "watch"]
    BY StartFacts DEF StartAt
  <2>2. start' \in [Nodes -> 0 .. Len(chain)]
    BY <2>1 DEF TypeInv, TypeParts
  <2>3. dpc' \in [Nodes -> {"idle", "cursors", "watch", "handle"}]
    BY <2>1 DEF TypeInv, TypeParts
  <2> QED BY <1>1, <2>1, <2>2, <2>3 DEF TypeInv, TypeParts, Rest
<1>3. seen' \in [Nodes -> [Subs -> 0 .. Len(chain)]]
  <2>1. [s \in Subs |-> 0] \in [Subs -> 0 .. Len(chain)]
    BY EventFacts
  <2> QED BY <1>1, <2>1 DEF TypeInv, TypeParts
<1> QED BY <1>1, <1>2, <1>3, TypeFrame DEF TypeInv, TypeParts, Rest

\* The nodes of one step of the distributor are the next ones.
LEMMA NodesFacts ==
  ASSUME TypeInv, NEW cur \in 0 .. Len(chain), cur < Len(chain)
  PROVE  \E k \in Nat \ {0} :
            /\ cur + k <= Len(chain)
            /\ NodesFrom(cur) \in Seq(Nat) /\ Len(NodesFrom(cur)) = k
            /\ \A j \in 1 .. k : NodesFrom(cur)[j] = cur + j
            /\ Elems(NodesFrom(cur)) = cur + 1 .. cur + k
            /\ NodesFrom(cur) # << >>
<1> DEFINE k == IF Len(chain) - cur < StepSize THEN Len(chain) - cur ELSE StepSize
<1>1. k \in Nat \ {0} /\ cur + k <= Len(chain) /\ cur \in Nat
  <2>1. Len(chain) \in Nat /\ StepSize \in Nat /\ StepSize # 0
    BY EventFacts, BoundsAssumption
  <2>2. CASE Len(chain) - cur < StepSize
    BY <2>1, <2>2
  <2>3. CASE ~(Len(chain) - cur < StepSize)
    BY <2>1, <2>3
  <2> QED BY <2>2, <2>3
<1>2. NodesFrom(cur) = [j \in 1 .. k |-> cur + j]
  BY DEF NodesFrom
<1> HIDE DEF k
<1>3. /\ DOMAIN NodesFrom(cur) = 1 .. k
      /\ \A j \in 1 .. k : NodesFrom(cur)[j] = cur + j
  BY <1>2
<1>4. NodesFrom(cur) \in [1 .. k -> Nat]
  BY <1>1, <1>2
<1>5. NodesFrom(cur) \in Seq(Nat) /\ Len(NodesFrom(cur)) = k
  BY <1>1, <1>4, SeqDef, LenProperties, IntervalLength, <1>3
<1>6. Elems(NodesFrom(cur)) = cur + 1 .. cur + k
  <2>1. Elems(NodesFrom(cur)) = {cur + j : j \in 1 .. k}
    BY <1>3 DEF Elems
  <2>2. ASSUME NEW x \in cur + 1 .. cur + k PROVE x \in {cur + j : j \in 1 .. k}
    <3>1. x - cur \in 1 .. k /\ x = cur + (x - cur)
      BY <1>1
    <3> QED BY <3>1
  <2>3. \A j \in 1 .. k : cur + j \in cur + 1 .. cur + k
    BY <1>1
  <2> QED BY <2>1, <2>2, <2>3
<1>7. NodesFrom(cur) # << >>
  BY <1>1, <1>5, EmptySeq
<1> QED BY <1>1, <1>3, <1>5, <1>6, <1>7

\* A distributor reads on, or stops.
LEMMA TypeFetch ==
  ASSUME TypeInv, NEW n \in Nodes, Fetch(n)
  PROVE  TypeInv' /\ Events' = Events
<1>1. UNCHANGED << chain, queue, cursor, isMaster, oldest, toread, seen, start, hev, hsubs, pev,
                   count, crashes, flips, received >> /\ faults' \in Nat
  BY DEF Fetch, NoFail, Fail, redis, reading, handler, TypeInv, TypeParts
<1>2. /\ todo' \in [Nodes -> Seq(Nat)] /\ dpc' \in [Nodes -> {"idle", "cursors", "watch", "handle"}]
      /\ \A m \in Nodes : /\ Elems(todo'[m]) \subseteq Events
                          /\ (todo'[m] # << >>) <=> (dpc'[m] = "handle")
  <2>1. CASE todo' = todo /\ dpc' = [dpc EXCEPT ![n] = "idle"]
    <3>1. dpc[n] = "watch"
      BY DEF Fetch
    <3> QED BY <2>1, <3>1 DEF TypeInv, TypeParts, Rest
  <2>2. CASE ~(todo' = todo /\ dpc' = [dpc EXCEPT ![n] = "idle"])
    <3>1. /\ todo' = [todo EXCEPT ![n] = NodesFrom(start[n])]
          /\ dpc' = [dpc EXCEPT ![n] = "handle"] /\ start[n] < Len(chain)
      BY <2>2 DEF Fetch
    <3>2. start[n] \in 0 .. Len(chain)
      BY DEF TypeInv, TypeParts
    <3>3. /\ NodesFrom(start[n]) \in Seq(Nat) /\ NodesFrom(start[n]) # << >>
          /\ Elems(NodesFrom(start[n])) \subseteq Events
      <4>1. PICK k \in Nat \ {0} :
              /\ start[n] + k <= Len(chain)
              /\ NodesFrom(start[n]) \in Seq(Nat)
              /\ Elems(NodesFrom(start[n])) = start[n] + 1 .. start[n] + k
              /\ NodesFrom(start[n]) # << >>
        BY <3>1, <3>2, NodesFacts
      <4> QED BY <3>2, <4>1, EventFacts
    <3> QED BY <3>1, <3>3 DEF TypeInv, TypeParts, Rest
  <2> QED BY <2>1, <2>2
<1> QED BY <1>1, <1>2, TypeFrame DEF TypeInv, TypeParts, Rest

\* The distributor puts an event into the main queue, or gives it up.
LEMMA TypeHandleNext ==
  ASSUME TypeInv, NEW n \in Nodes, HandleNext(n)
  PROVE  TypeInv' /\ Events' = Events
<1>1. UNCHANGED << chain, cursor, isMaster, oldest, toread, seen, hev, hsubs, pev, count,
                   crashes, flips, received >>
  BY DEF HandleNext, reading, handler, budget
<1>2. /\ todo[n] \in Seq(Nat) /\ todo[n] # << >> /\ Elems(todo[n]) \subseteq Events
      /\ dpc[n] = "handle"
  BY TodoFacts DEF HandleNext
<1>3. /\ Tail(todo[n]) \in Seq(Nat) /\ Head(todo[n]) \in Events
      /\ Elems(Tail(todo[n])) \subseteq Events
      /\ Tail(todo[n]) = << >> <=> Len(todo[n]) = 1
  BY <1>2, PopElems
<1>4. faults' \in Nat
  BY DEF HandleNext, NoFail, Fail, TypeInv, TypeParts
<1>5. queue' \in [Queues -> Seq(Nat)] /\ \A q \in Queues : Elems(queue'[q]) \subseteq Events
  <2>1. \/ queue' = [queue EXCEPT ![Main] = Append(queue[Main], Head(todo[n]))]
        \/ queue' = queue
    BY DEF HandleNext
  <2>2. /\ Append(queue[Main], Head(todo[n])) \in Seq(Nat)
        /\ Elems(Append(queue[Main], Head(todo[n]))) \subseteq Events
    BY <1>3, AppendElems, QueueFacts, QueueKinds, EventFacts
  <2> QED BY <2>1, <2>2, QueueFacts DEF TypeInv, TypeParts
<1>6. /\ todo' \in [Nodes -> Seq(Nat)] /\ dpc' \in [Nodes -> {"idle", "cursors", "watch", "handle"}]
      /\ start' \in [Nodes -> 0 .. Len(chain)]
      /\ \A m \in Nodes : /\ Elems(todo'[m]) \subseteq Events
                          /\ (todo'[m] # << >>) <=> (dpc'[m] = "handle")
  <2>1. todo' = [todo EXCEPT ![n] = Tail(todo[n])]
    BY DEF HandleNext
  <2>2. CASE Len(todo[n]) = 1
    <3>1. /\ start' = [start EXCEPT ![n] = Head(todo[n])] /\ dpc' = [dpc EXCEPT ![n] = "watch"]
          /\ Head(todo[n]) \in 0 .. Len(chain)
      BY <1>3, <2>2, EventFacts DEF HandleNext
    <3> QED BY <1>3, <2>1, <2>2, <3>1 DEF TypeInv, TypeParts, Rest
  <2>3. CASE Len(todo[n]) # 1
    <3>1. UNCHANGED << start, dpc >>
      BY <2>3 DEF HandleNext
    <3> QED BY <1>2, <1>3, <2>1, <2>3, <3>1 DEF TypeInv, TypeParts, Rest
  <2> QED BY <2>2, <2>3
<1> QED BY <1>1, <1>4, <1>5, <1>6, TypeFrame DEF TypeInv, TypeParts, Rest

\* What a pop does to the queues.
LEMMA PopFacts ==
  ASSUME TypeInv, NEW q \in Queues, NEW ev, Pop(q, ev)
  PROVE  /\ ev \in Events /\ ev \in Place /\ ev \in Nat \ {0}
         /\ queue' \in [Queues -> Seq(Nat)]
         /\ queue' = [queue EXCEPT ![q] = Tail(queue[q])]
         /\ queue[q] # << >> /\ ev = Head(queue[q])
         /\ Elems(queue[q]) = {ev} \cup Elems(queue'[q])
         /\ \A p \in Queues : p # q => queue'[p] = queue[p]
         /\ \A p \in Queues : Elems(queue'[p]) \subseteq Events
<1>1. queue[q] # << >> /\ ev = Head(queue[q]) /\ queue' = [queue EXCEPT ![q] = Tail(queue[q])]
  BY DEF Pop
<1>2. /\ Tail(queue[q]) \in Seq(Nat)
      /\ Elems(queue[q]) = {Head(queue[q])} \cup Elems(Tail(queue[q]))
  BY <1>1, QueueFacts, PopElems
<1>3. queue' \in [Queues -> Seq(Nat)] /\ queue'[q] = Tail(queue[q])
  BY <1>1, <1>2 DEF TypeInv, TypeParts
<1>4. \A p \in Queues : p # q => queue'[p] = queue[p]
  BY <1>1 DEF TypeInv, TypeParts
<1>5. \A p \in Queues : Elems(queue'[p]) \subseteq Events
  BY <1>2, <1>3, <1>4, QueueFacts
<1>6. ev \in Events
  BY <1>1, <1>2, QueueFacts
<1>7. ev \in Place /\ ev \in Nat \ {0}
  BY <1>6, EventFacts DEF Place
<1> QED BY <1>1, <1>2, <1>3, <1>4, <1>5, <1>6, <1>7

\* What an append does to them.
LEMMA PutFacts ==
  ASSUME TypeInv, NEW q \in Queues, NEW ev \in Events,
         queue' = [queue EXCEPT ![q] = Append(queue[q], ev)]
  PROVE  /\ queue' \in [Queues -> Seq(Nat)]
         /\ Elems(queue'[q]) = Elems(queue[q]) \cup {ev}
         /\ \A p \in Queues : p # q => queue'[p] = queue[p]
         /\ \A p \in Queues : Elems(queue'[p]) \subseteq Events
<1>1. /\ Append(queue[q], ev) \in Seq(Nat)
      /\ Elems(Append(queue[q], ev)) = Elems(queue[q]) \cup {ev}
  BY QueueFacts, AppendElems, EventFacts
<1>2. queue' \in [Queues -> Seq(Nat)] /\ queue'[q] = Append(queue[q], ev)
  BY <1>1 DEF TypeInv, TypeParts
<1>3. \A p \in Queues : p # q => queue'[p] = queue[p]
  BY DEF TypeInv, TypeParts
<1>4. \A p \in Queues : Elems(queue'[p]) \subseteq Events
  BY <1>1, <1>2, <1>3, QueueFacts
<1> QED BY <1>1, <1>2, <1>3, <1>4

\* The handler asks whether it may pop, and pops.
LEMMA TypeHandlerCheck ==
  ASSUME TypeInv, NEW n \in Nodes, HandlerCheck(n)
  PROVE  TypeInv' /\ Events' = Events
<1>1. UNCHANGED << chain, queue, cursor, isMaster, dpc, oldest, toread, seen, start, todo, hsubs, pev,
                   count, faults, crashes, flips, received >>
  BY DEF HandlerCheck, redis, dist, reading, budget, history
<1>2. 0 \in Place /\ 0 \notin Events /\ Checking \notin Events
  BY EventFacts DEF Place, Checking
<1>3. hev' = [hev EXCEPT ![n] = 0] /\ hev[n] = Checking
  BY DEF HandlerCheck
<1>4. /\ hev' \in [Nodes -> Place]
      /\ \A m \in Nodes : (hev'[m] \in Events) <=> (hsubs'[m] # {})
  BY <1>1, <1>2, <1>3 DEF TypeInv, TypeParts, Rest
<1> QED BY <1>1, <1>4, TypeFrame DEF TypeInv, TypeParts, Rest

\* A distributor takes the head of its queue.
LEMMA TypePopEvent ==
  ASSUME TypeInv, NEW n \in Nodes, PopEvent(n)
  PROVE  TypeInv' /\ Events' = Events
<1>1. UNCHANGED << chain, cursor, isMaster, dpc, oldest, toread, seen, start, todo, pev, count,
                   crashes, flips, received >> /\ hev[n] = 0
  BY DEF PopEvent, dist, reading, budget
<1>2. PICK ev :
        /\ Pop(Main, ev)
        /\ \/ /\ faults' = faults
              /\ hev' = [hev EXCEPT ![n] = ev]
              /\ hsubs' = [hsubs EXCEPT ![n] = Subs]
           \/ /\ faults' = faults + 1
              /\ hev' = [hev EXCEPT ![n] = Checking]
              /\ UNCHANGED hsubs
  BY DEF PopEvent, NoFail, Fail
<1>3. /\ ev \in Events /\ ev \in Place /\ queue' \in [Queues -> Seq(Nat)]
      /\ \A p \in Queues : Elems(queue'[p]) \subseteq Events
  BY <1>2, PopFacts, QueueKinds
<1>4. Checking \in Place /\ Checking \notin Events /\ 0 \notin Events
  BY EventFacts DEF Place, Checking
<1>5. faults' \in Nat
  BY <1>2 DEF TypeInv, TypeParts
<1>6. /\ hev' \in [Nodes -> Place] /\ hsubs' \in [Nodes -> SUBSET Subs]
      /\ \A m \in Nodes : (hev'[m] \in Events) <=> (hsubs'[m] # {})
  <2>1. hsubs[n] = {}
    BY <1>1, <1>4 DEF TypeInv, Rest
  <2>2. CASE hev' = [hev EXCEPT ![n] = ev] /\ hsubs' = [hsubs EXCEPT ![n] = Subs]
    BY <1>3, <2>2, SubsAssumption DEF TypeInv, TypeParts, Rest
  <2>3. CASE hev' = [hev EXCEPT ![n] = Checking] /\ hsubs' = hsubs
    BY <1>4, <2>1, <2>3 DEF TypeInv, TypeParts, Rest
  <2> QED BY <1>2, <2>2, <2>3
<1> QED BY <1>1, <1>3, <1>5, <1>6, TypeFrame DEF TypeInv, TypeParts, Rest

\* The handler sends an event on, or gives it up for one subscriber.
LEMMA TypeSendToPusher ==
  ASSUME TypeInv, NEW n \in Nodes, SendToPusher(n)
  PROVE  TypeInv' /\ Events' = Events
<1>1. UNCHANGED << chain, cursor, isMaster, dpc, oldest, toread, seen, start, todo, pev, count,
                   crashes, flips, received >> /\ hsubs[n] # {}
  BY DEF SendToPusher, dist, reading, budget
<1>2. PICK s \in hsubs[n] :
        /\ \/ faults' = faults /\ queue' = [queue EXCEPT ![s] = Append(queue[s], hev[n])]
           \/ faults' = faults + 1 /\ queue' = queue
        /\ hsubs' = [hsubs EXCEPT ![n] = hsubs[n] \ {s}]
  BY DEF SendToPusher, NoFail, Fail
<1>3. hev[n] \in Events /\ s \in Subs /\ s \in Queues
  BY <1>1, QueueKinds DEF TypeInv, TypeParts, Rest
<1>4. /\ queue' \in [Queues -> Seq(Nat)] /\ \A p \in Queues : Elems(queue'[p]) \subseteq Events
  <2>1. CASE queue' = queue
    BY <2>1, QueueFacts DEF TypeInv, TypeParts
  <2>2. CASE queue' = [queue EXCEPT ![s] = Append(queue[s], hev[n])]
    BY <1>3, <2>2, PutFacts
  <2> QED BY <1>2, <2>1, <2>2
<1>5. hev' = [hev EXCEPT ![n] = IF hsubs'[n] = {} THEN Checking ELSE hev[n]]
  BY DEF SendToPusher
<1>6. Checking \in Place /\ Checking \notin Events
  BY EventFacts DEF Place, Checking
<1>7. /\ hsubs' \in [Nodes -> SUBSET Subs] /\ hsubs'[n] = hsubs[n] \ {s}
      /\ \A m \in Nodes : m # n => hsubs'[m] = hsubs[m]
  BY <1>2 DEF TypeInv, TypeParts
<1>8. /\ hev' \in [Nodes -> Place]
      /\ hev'[n] = IF hsubs'[n] = {} THEN Checking ELSE hev[n]
      /\ \A m \in Nodes : m # n => hev'[m] = hev[m]
  BY <1>5, <1>6 DEF TypeInv, TypeParts
<1>9. \A m \in Nodes : (hev'[m] \in Events) <=> (hsubs'[m] # {})
  BY <1>3, <1>6, <1>7, <1>8 DEF TypeInv, Rest
<1>10. faults' \in Nat
  BY <1>2 DEF TypeInv, TypeParts
<1> QED BY <1>1, <1>4, <1>7, <1>8, <1>9, <1>10, TypeFrame DEF TypeInv, TypeParts, Rest

\* A pusher asks whether it may pop, pops, and calls back.
LEMMA TypePusher ==
  ASSUME TypeInv, NEW n \in Nodes, NEW s \in Subs,
         PusherCheck(n, s) \/ PopDist(n, s) \/ Push(n, s)
  PROVE  TypeInv' /\ Events' = Events
<1>1. UNCHANGED << chain, isMaster, dpc, oldest, toread, seen, start, todo, hev, hsubs, count,
                   crashes, flips >>
  BY DEF PusherCheck, PopDist, Push, redis, dist, reading, handler, budget
<1>2. Checking \in Place /\ 0 \in Place
  BY DEF Place
<1>3. /\ pev' \in [Nodes -> [Subs -> Place]] /\ cursor' \in [Subs -> 0 .. Len(chain)]
      /\ received' \in [Subs -> SUBSET Events] /\ faults' \in Nat
      /\ queue' \in [Queues -> Seq(Nat)] /\ \A p \in Queues : Elems(queue'[p]) \subseteq Events
  <2>1. CASE PusherCheck(n, s)
    <3>1. /\ pev' = [pev EXCEPT ![n][s] = 0]
          /\ UNCHANGED << queue, cursor, received, faults >>
      BY <2>1 DEF PusherCheck, redis, history, budget
    <3> QED BY <1>2, <3>1, QueueFacts DEF TypeInv, TypeParts
  <2>2. CASE PopDist(n, s)
    <3>1. PICK ev : Pop(s, ev) /\ \E e \in {ev, Checking} : pev' = [pev EXCEPT ![n][s] = e]
      BY <2>2 DEF PopDist
    <3>2. UNCHANGED << cursor, received >> /\ faults' \in Nat
      BY <2>2 DEF PopDist, NoFail, Fail, TypeInv, TypeParts
    <3>3. /\ ev \in Place /\ queue' \in [Queues -> Seq(Nat)]
          /\ \A p \in Queues : Elems(queue'[p]) \subseteq Events
      BY <3>1, PopFacts, QueueKinds
    <3> QED BY <1>2, <3>1, <3>2, <3>3 DEF TypeInv, TypeParts
  <2>3. CASE Push(n, s)
    <3>1. pev[n][s] \in Events /\ pev[n][s] \in 0 .. Len(chain)
      <4>1. pev[n][s] \in Place /\ pev[n][s] > 0
        BY <2>3 DEF Push, TypeInv, TypeParts
      <4> QED BY <4>1, EventFacts
    <3>2. /\ pev' = [pev EXCEPT ![n][s] = Checking] /\ queue' = queue
          /\ received' = received \/ received' = [received EXCEPT ![s] = received[s] \cup {pev[n][s]}]
          /\ cursor' = cursor \/ cursor' = [cursor EXCEPT ![s] = pev[n][s]]
          /\ faults' = faults \/ faults' = faults + 1
      BY <2>3 DEF Push, NoFail, Fail
    <3>3. pev' \in [Nodes -> [Subs -> Place]] /\ faults' \in Nat
      BY <1>2, <3>2 DEF TypeInv, TypeParts
    <3>4. cursor' \in [Subs -> 0 .. Len(chain)] /\ received' \in [Subs -> SUBSET Events]
      <4>1. /\ cursor \in [Subs -> 0 .. Len(chain)] /\ received \in [Subs -> SUBSET Events]
            /\ received[s] \cup {pev[n][s]} \in SUBSET Events
        BY <3>1 DEF TypeInv, TypeParts
      <4>2. cursor' \in [Subs -> 0 .. Len(chain)]
        BY <3>1, <3>2, <4>1
      <4>3. received' \in [Subs -> SUBSET Events]
        BY <3>2, <4>1
      <4> QED BY <4>2, <4>3
    <3> QED BY <3>2, <3>3, <3>4, QueueFacts DEF TypeInv, TypeParts
  <2> QED BY <2>1, <2>2, <2>3
<1> QED BY <1>1, <1>3, TypeFrame DEF TypeInv, TypeParts, Rest

\* A cleaner counts a queue.
LEMMA TypeCleanCount ==
  ASSUME TypeInv, NEW n \in Nodes, NEW q \in Queues, CleanCount(n, q)
  PROVE  TypeInv' /\ Events' = Events
<1>1. UNCHANGED << chain, queue, cursor, isMaster, dpc, oldest, toread, seen, start, todo, hev, hsubs,
                   pev, faults, crashes, flips, received >>
  BY DEF CleanCount, redis, dist, reading, handler, budget, history
<1>2. Len(queue[q]) \in Counts
  BY QueueFacts, LenProperties DEF CleanCount, Counts
<1>3. count' \in [Nodes -> [Queues -> Counts]]
  BY <1>2 DEF CleanCount, TypeInv, TypeParts
<1> QED BY <1>1, <1>3, TypeFrame DEF TypeInv, TypeParts, Rest

\* What it keeps of the queue is its end.
LEMMA TrimFacts ==
  ASSUME TypeInv, NEW n \in Nodes, NEW q \in Queues, CleanTrim(n, q)
  PROVE  \E cut \in 0 .. Len(queue[q]) :
            /\ queue' = [queue EXCEPT ![q] = SubSeq(queue[q], cut + 1, Len(queue[q]))]
            /\ Lose(Receivers(q), Elems(SubSeq(queue[q], 1, cut)), "clean")
<1> DEFINE keep == count[n][q] - CleanUnit + 1
           cut  == IF Len(queue[q]) > keep THEN Len(queue[q]) - keep ELSE 0
<1>1. count[n][q] \in Counts /\ count[n][q] > 0
  BY DEF CleanTrim, TypeInv, TypeParts
<1>2. keep \in Nat
  BY <1>1, BoundsAssumption DEF Counts, Checking, Trimmed
<1>3. Len(queue[q]) \in Nat
  BY QueueFacts, LenProperties
<1>4. /\ queue' = [queue EXCEPT ![q] = SubSeq(queue[q], cut + 1, Len(queue[q]))]
      /\ Lose(Receivers(q), Elems(SubSeq(queue[q], 1, cut)), "clean")
  BY DEF CleanTrim
<1> HIDE DEF keep
<1>5. cut \in 0 .. Len(queue[q])
  BY <1>2, <1>3
<1> QED BY <1>4, <1>5

\* The cleaner cuts a queue that is too long.
LEMMA TypeCleanTrim ==
  ASSUME TypeInv, NEW n \in Nodes, NEW q \in Queues, CleanTrim(n, q)
  PROVE  TypeInv' /\ Events' = Events
<1>1. UNCHANGED << chain, cursor, isMaster, dpc, oldest, toread, seen, start, todo, hev, hsubs, pev,
                   faults, crashes, flips, received >>
  BY DEF CleanTrim, dist, reading, handler, budget
<1>2. count' \in [Nodes -> [Queues -> Counts]]
  <2>1. Trimmed \in Counts
    BY DEF Counts, Trimmed
  <2> QED BY <2>1 DEF CleanTrim, TypeInv, TypeParts
<1>3. PICK cut \in 0 .. Len(queue[q]) :
        queue' = [queue EXCEPT ![q] = SubSeq(queue[q], cut + 1, Len(queue[q]))]
  BY TrimFacts
<1>4. /\ SubSeq(queue[q], cut + 1, Len(queue[q])) \in Seq(Nat)
      /\ Elems(SubSeq(queue[q], cut + 1, Len(queue[q]))) \subseteq Events
  BY QueueFacts, CutElems
<1>5. queue' \in [Queues -> Seq(Nat)] /\ \A p \in Queues : Elems(queue'[p]) \subseteq Events
  BY <1>3, <1>4, QueueFacts DEF TypeInv, TypeParts
<1> QED BY <1>1, <1>2, <1>5, TypeFrame DEF TypeInv, TypeParts, Rest

\* It deletes the queue.
LEMMA TypeCleanDel ==
  ASSUME TypeInv, NEW n \in Nodes, NEW q \in Queues, CleanDel(n, q)
  PROVE  TypeInv' /\ Events' = Events
<1>1. UNCHANGED << chain, cursor, isMaster, dpc, oldest, toread, seen, start, todo, hev, hsubs, pev,
                   faults, crashes, flips, received >>
  BY DEF CleanDel, dist, reading, handler, budget
<1>2. count' \in [Nodes -> [Queues -> Counts]]
  <2>1. Checking \in Counts
    BY DEF Counts, Checking
  <2> QED BY <2>1 DEF CleanDel, TypeInv, TypeParts
<1>3. queue' \in [Queues -> Seq(Nat)] /\ \A p \in Queues : Elems(queue'[p]) \subseteq Events
  <2>1. queue' = [queue EXCEPT ![q] = << >>]
    BY DEF CleanDel
  <2>2. << >> \in Seq(Nat) /\ Elems(<< >>) \subseteq Events
    BY NoElems
  <2> QED BY <2>1, <2>2, QueueFacts DEF TypeInv, TypeParts
<1> QED BY <1>1, <1>2, <1>3, TypeFrame DEF TypeInv, TypeParts, Rest

\* Every step keeps the types.
LEMMA TypeStep == TypeInv /\ [Next]_vars => TypeInv'
<1> SUFFICES ASSUME TypeInv, [Next]_vars PROVE TypeInv'
  OBVIOUS
<1>1. CASE UNCHANGED vars
  BY <1>1, TypeFrame DEF vars, redis, dist, reading, handler, budget, history, TypeInv, TypeParts, Rest
<1>2. CASE Publish
  BY <1>2, TypePublish
<1>3. ASSUME NEW n \in Nodes, NodeStep(n) PROVE TypeInv'
  BY <1>3, TypeResume, TypeReadCursor, TypeStartWatch, TypeFetch, TypeHandleNext,
     TypeHandlerCheck, TypePopEvent, TypeSendToPusher, TypePusher DEF NodeStep
<1>4. ASSUME NEW n \in Nodes, NEW q \in Queues,
             CleanCount(n, q) \/ CleanTrim(n, q) \/ CleanDel(n, q)
      PROVE  TypeInv'
  BY <1>4, TypeCleanCount, TypeCleanTrim, TypeCleanDel
<1>5. ASSUME NEW n \in Nodes, ViewChange(n) \/ Crash(n) PROVE TypeInv'
  BY <1>5, TypeViewChange, TypeCrash
<1> QED BY <1>1, <1>2, <1>3, <1>4, <1>5 DEF Next

\* Queues hold events of the chain, in every state and for any number of instances.
THEOREM TypeCorrect == Spec => []TypeOK
BY TypeInit, TypeStep, TypeImplies, PTL DEF Spec

-----------------------------------------------------------------------------
(* What is known of an event stays known.                                  *)

\* The event is confirmed by the subscriber, given up or on its way.
Known(s, i) == Received(s, i) \/ LostBy(s, i) \/ InFlight(s, i)

\* What is given up stays given up.
LEMMA LoseFacts ==
  ASSUME NEW S, NEW E, NEW why, Lose(S, E, why)
  PROVE  /\ \A s, i : LostBy(s, i) => LostBy(s, i)'
         /\ \A s \in S : \A i \in E : LostBy(s, i)'
<1>1. lost' = lost \cup [sub : S, ev : E, why : {why}]
  BY DEF Lose
<1>2. ASSUME NEW s \in S, NEW i \in E PROVE LostBy(s, i)'
  <2> DEFINE l == [sub |-> s, ev |-> i, why |-> why]
  <2>1. l \in lost' /\ l.sub = s /\ l.ev = i
    BY <1>1, <1>2
  <2> QED BY <2>1 DEF LostBy
<1> QED BY <1>1, <1>2 DEF LostBy

\* Where a known event may be.
LEMMA KnownFrame ==
  ASSUME NEW s \in Subs, NEW i \in Events, Known(s, i),
         received[s] \subseteq received'[s],
         LostBy(s, i) => LostBy(s, i)',
         i \in Elems(queue[Main]) => Known(s, i)',
         i \in Elems(queue[s]) => Known(s, i)',
         \A m \in Nodes : /\ i \in Elems(todo[m]) => Known(s, i)'
                          /\ hev[m] = i /\ s \in hsubs[m] => Known(s, i)'
                          /\ pev[m][s] = i => Known(s, i)'
  PROVE  Known(s, i)'
  BY DEF Known, Received, InFlight

\* Each place of an event makes it known.
LEMMA KnownPlaces ==
  ASSUME NEW s \in Subs, NEW i \in Events
  PROVE  /\ i \in received'[s] => Known(s, i)'
         /\ LostBy(s, i)' => Known(s, i)'
         /\ i \in Elems(queue'[Main]) \cup Elems(queue'[s]) => Known(s, i)'
         /\ \A m \in Nodes : /\ i \in Elems(todo'[m]) => Known(s, i)'
                             /\ hev'[m] = i /\ s \in hsubs'[m] => Known(s, i)'
                             /\ pev'[m][s] = i => Known(s, i)'
  BY DEF Known, Received, InFlight

\* Steps that move no event.
LEMMA KnownIdle ==
  ASSUME TypeInv, NEW s \in Subs, NEW i \in Events, Known(s, i),
         \/ UNCHANGED vars
         \/ Publish
         \/ \E n \in Nodes : \/ ViewChange(n)
                             \/ HandlerCheck(n) \/ Resume(n)
                             \/ \E t \in Subs : PusherCheck(n, t) \/ ReadCursor(n, t)
                             \/ \E q \in Queues : CleanCount(n, q)
  PROVE  Known(s, i)'
<1>1. UNCHANGED << queue, received, lost, todo, hsubs >>
  BY DEF vars, Publish, ViewChange, HandlerCheck, Resume, PusherCheck, ReadCursor, CleanCount,
     redis, dist, reading, handler, history
<1>2. \A m \in Nodes : hev[m] = i => hev'[m] = i
  <2>1. CASE UNCHANGED hev
    BY <2>1
  <2>2. CASE \E n \in Nodes : HandlerCheck(n)
    <3>1. PICK n \in Nodes : hev[n] = Checking /\ hev' = [hev EXCEPT ![n] = 0]
      BY <2>2 DEF HandlerCheck
    <3> QED BY <3>1, EventFacts DEF TypeInv, TypeParts, Checking
  <2> QED BY <2>1, <2>2 DEF vars, Publish, ViewChange, Resume, PusherCheck, ReadCursor,
       CleanCount, handler
<1>3. \A m \in Nodes : pev[m][s] = i => pev'[m][s] = i
  <2>1. CASE UNCHANGED pev
    BY <2>1
  <2>2. CASE \E n \in Nodes : \E t \in Subs : PusherCheck(n, t)
    <3>1. PICK n \in Nodes, t \in Subs : pev[n][t] = Checking /\ pev' = [pev EXCEPT ![n][t] = 0]
      BY <2>2 DEF PusherCheck
    <3> QED BY <3>1, EventFacts DEF TypeInv, TypeParts, Checking
  <2> QED BY <2>1, <2>2 DEF vars, Publish, ViewChange, HandlerCheck, Resume, ReadCursor,
       CleanCount
<1> QED BY <1>1, <1>2, <1>3 DEF Known, Received, LostBy, InFlight

\* A distributor that starts gives up what no one holds and its subscriber's cursor does
\* not cover.
LEMMA KnownStart ==
  ASSUME TypeInv, NEW s \in Subs, NEW i \in Events, NEW n \in Nodes, StartWatch(n)
  PROVE  /\ Known(s, i) => Known(s, i)'
         /\ dpc'[n] # "idle" /\ seen[n][s] < i /\ i <= start'[n] => Known(s, i)'
<1>1. UNCHANGED << queue, received, todo, hev, hsubs, pev >>
  BY StartFacts
<1>2. CASE dpc' = [dpc EXCEPT ![n] = "idle"] /\ UNCHANGED << start, lost >>
  <2>1. dpc'[n] = "idle"
    BY <1>2 DEF TypeInv, TypeParts
  <2> QED BY <1>1, <1>2, <2>1 DEF Known, Received, LostBy, InFlight
<1>3. ASSUME NEW from \in 0 .. Len(chain), StartAt(n, from)
      PROVE  /\ Known(s, i) => Known(s, i)'
             /\ seen[n][s] < i /\ i <= start'[n] => Known(s, i)'
  <2>1. lost \subseteq lost' /\ start'[n] = from
    BY <1>3 DEF StartAt, TypeInv, TypeParts
  <2>2. Known(s, i) => Known(s, i)'
    BY <1>1, <2>1 DEF Known, Received, LostBy, InFlight
  <2>3. ASSUME seen[n][s] < i, i <= start'[n], ~Known(s, i)
        PROVE  LostBy(s, i)'
    <3> DEFINE l == [sub |-> s, ev |-> i, why |-> "skipped"]
    <3>1. i \in 1 .. from /\ i > seen[n][s]
      <4>1. seen[n][s] \in 0 .. Len(chain)
        BY DEF TypeInv, TypeParts
      <4> QED BY <2>1, <2>3, <4>1, EventFacts
    <3>2. l \in [sub : Subs, ev : 1 .. from, why : {"skipped"}]
      BY <3>1
    <3>3. l.sub = s /\ l.ev = i /\ ~Received(l.sub, l.ev) /\ ~InFlight(l.sub, l.ev)
      BY <2>3 DEF Known
    <3>4. l \in lost'
      BY <1>3, <3>1, <3>2, <3>3 DEF StartAt
    <3> QED BY <3>3, <3>4 DEF LostBy
  <2> QED BY <2>2, <2>3, KnownPlaces
<1> QED BY <1>2, <1>3, StartFacts

\* What a distributor reads is in its hands.
LEMMA KnownFetch ==
  ASSUME TypeInv, NEW s \in Subs, NEW i \in Events, NEW n \in Nodes, Fetch(n), Known(s, i)
  PROVE  Known(s, i)'
<1>1. UNCHANGED << queue, received, lost, hev, hsubs, pev >>
  BY DEF Fetch, redis, handler
<1>2. \A m \in Nodes : Elems(todo[m]) # {} => todo'[m] = todo[m]
  <2>1. dpc[n] = "watch" /\ todo[n] = << >>
    BY DEF Fetch, TypeInv, Rest
  <2>2. Elems(todo[n]) = {} /\ \A m \in Nodes : m # n => todo'[m] = todo[m]
    BY <2>1, NoElems DEF Fetch, TypeInv, TypeParts
  <2> QED BY <2>2
<1>3. \A m \in Nodes : i \in Elems(todo[m]) => i \in Elems(todo'[m])
  BY <1>2
<1> QED BY <1>1, <1>3 DEF Known, Received, LostBy, InFlight

\* The distributor puts the event into the main queue or gives it up.
LEMMA KnownHandleNext ==
  ASSUME TypeInv, NEW s \in Subs, NEW i \in Events, NEW n \in Nodes, HandleNext(n), Known(s, i)
  PROVE  Known(s, i)'
<1>1. UNCHANGED << hev, hsubs, pev, received >>
  BY DEF HandleNext, handler
<1> DEFINE h == Head(todo[n])
<1>2. /\ todo[n] \in Seq(Nat) /\ todo[n] # << >>
      /\ Elems(todo[n]) = {h} \cup Elems(Tail(todo[n])) /\ h \in Events
  BY TodoFacts, PopElems DEF HandleNext
<1>3. /\ todo'[n] = Tail(todo[n]) /\ \A m \in Nodes : m # n => todo'[m] = todo[m]
  BY DEF HandleNext, TypeInv, TypeParts
<1>4. \/ /\ queue' = [queue EXCEPT ![Main] = Append(queue[Main], h)]
         /\ lost' = lost
      \/ Lose(Subs, {h}, "queue") /\ queue' = queue
  BY DEF HandleNext
<1> HIDE DEF h
<1>5. /\ LostBy(s, i) => LostBy(s, i)'
      /\ i \in Elems(queue[Main]) => i \in Elems(queue'[Main])
      /\ i \in Elems(queue[s]) => i \in Elems(queue'[s])
      /\ i = h => Known(s, i)'
  <2>1. CASE Lose(Subs, {h}, "queue") /\ queue' = queue
    <3>1. /\ \A t, j : LostBy(t, j) => LostBy(t, j)'
          /\ \A t \in Subs : \A j \in {h} : LostBy(t, j)'
      BY <2>1, LoseFacts
    <3> QED BY <2>1, <3>1, KnownPlaces
  <2>2. CASE queue' = [queue EXCEPT ![Main] = Append(queue[Main], h)] /\ lost' = lost
    <3>1. /\ Elems(queue'[Main]) = Elems(queue[Main]) \cup {h}
          /\ queue'[s] = queue[s]
      BY <1>2, <2>2, PutFacts, QueueKinds
    <3> QED BY <2>2, <3>1, KnownPlaces DEF LostBy
  <2> QED BY <1>4, <2>1, <2>2
<1>6. \A m \in Nodes : i \in Elems(todo[m]) => Known(s, i)'
  BY <1>2, <1>3, <1>5, KnownPlaces
<1> QED BY <1>1, <1>5, <1>6, KnownPlaces, KnownFrame

\* The handler pops an event for all subscribers.
LEMMA KnownPopEvent ==
  ASSUME TypeInv, NEW s \in Subs, NEW i \in Events, NEW n \in Nodes, PopEvent(n), Known(s, i)
  PROVE  Known(s, i)'
<1>1. UNCHANGED << todo, pev, received >> /\ hev[n] = 0
  BY DEF PopEvent, dist, reading
<1>2. PICK ev :
        /\ Pop(Main, ev)
        /\ \/ /\ hev' = [hev EXCEPT ![n] = ev]
              /\ hsubs' = [hsubs EXCEPT ![n] = Subs]
              /\ lost' = lost
           \/ /\ hev' = [hev EXCEPT ![n] = Checking]
              /\ Lose(Subs, {ev}, "expired")
              /\ hsubs' = hsubs
  BY DEF PopEvent
<1>3. /\ Elems(queue[Main]) = {ev} \cup Elems(queue'[Main])
      /\ queue'[s] = queue[s]
  BY <1>2, PopFacts, QueueKinds
<1>4. /\ LostBy(s, i) => LostBy(s, i)'
      /\ i = ev => Known(s, i)'
      /\ \A m \in Nodes : m # n => hev'[m] = hev[m] /\ hsubs'[m] = hsubs[m]
  <2>1. CASE /\ hev' = [hev EXCEPT ![n] = ev]
             /\ hsubs' = [hsubs EXCEPT ![n] = Subs]
             /\ lost' = lost
    <3>1. /\ hev'[n] = ev /\ s \in hsubs'[n]
          /\ \A m \in Nodes : m # n => hev'[m] = hev[m] /\ hsubs'[m] = hsubs[m]
      BY <2>1 DEF TypeInv, TypeParts
    <3> QED BY <2>1, <3>1, KnownPlaces DEF LostBy
  <2>2. CASE /\ hev' = [hev EXCEPT ![n] = Checking]
             /\ Lose(Subs, {ev}, "expired")
             /\ hsubs' = hsubs
    <3>1. /\ \A t, j : LostBy(t, j) => LostBy(t, j)'
          /\ \A t \in Subs : \A j \in {ev} : LostBy(t, j)'
      BY <2>2, LoseFacts
    <3>2. \A m \in Nodes : m # n => hev'[m] = hev[m] /\ hsubs'[m] = hsubs[m]
      BY <2>2 DEF TypeInv, TypeParts
    <3> QED BY <3>1, <3>2, KnownPlaces
  <2> QED BY <1>2, <2>1, <2>2
<1>5. hev[n] # i
  BY <1>1, EventFacts
<1> QED BY <1>1, <1>3, <1>4, <1>5, KnownPlaces, KnownFrame

\* It sends the event to one subscriber.
LEMMA KnownSendToPusher ==
  ASSUME TypeInv, NEW s \in Subs, NEW i \in Events, NEW n \in Nodes, SendToPusher(n), Known(s, i)
  PROVE  Known(s, i)'
<1>1. UNCHANGED << todo, pev, received >> /\ hsubs[n] # {}
  BY DEF SendToPusher, dist, reading
<1>2. PICK t \in hsubs[n] :
        /\ \/ queue' = [queue EXCEPT ![t] = Append(queue[t], hev[n])] /\ lost' = lost
           \/ Lose({t}, {hev[n]}, "send") /\ queue' = queue
        /\ hsubs' = [hsubs EXCEPT ![n] = hsubs[n] \ {t}]
  BY DEF SendToPusher
<1>3. hev[n] \in Events /\ t \in Subs /\ t \in Queues /\ t # Main /\ s \in Queues
  BY <1>1, QueueKinds DEF TypeInv, TypeParts, Rest
<1>4. /\ LostBy(s, i) => LostBy(s, i)'
      /\ i \in Elems(queue[Main]) => i \in Elems(queue'[Main])
      /\ i \in Elems(queue[s]) => i \in Elems(queue'[s])
      /\ i = hev[n] /\ s = t => Known(s, i)'
  <2>1. CASE Lose({t}, {hev[n]}, "send") /\ queue' = queue
    <3>1. /\ \A u, j : LostBy(u, j) => LostBy(u, j)'
          /\ \A u \in {t} : \A j \in {hev[n]} : LostBy(u, j)'
      BY <2>1, LoseFacts
    <3> QED BY <2>1, <3>1, KnownPlaces
  <2>2. CASE queue' = [queue EXCEPT ![t] = Append(queue[t], hev[n])] /\ lost' = lost
    <3>1. /\ Elems(queue'[t]) = Elems(queue[t]) \cup {hev[n]}
          /\ \A p \in Queues : p # t => queue'[p] = queue[p]
      BY <1>3, <2>2, PutFacts
    <3> QED BY <1>3, <2>2, <3>1, KnownPlaces, QueueKinds DEF LostBy
  <2> QED BY <1>2, <2>1, <2>2
<1>5. /\ hsubs'[n] = hsubs[n] \ {t}
      /\ \A m \in Nodes : m # n => hsubs'[m] = hsubs[m] /\ hev'[m] = hev[m]
      /\ hsubs'[n] # {} => hev'[n] = hev[n]
  BY <1>2 DEF SendToPusher, TypeInv, TypeParts
<1>6. ASSUME NEW m \in Nodes, hev[m] = i, s \in hsubs[m]
      PROVE  Known(s, i)'
  <2>1. CASE m = n /\ s = t
    BY <1>4, <1>6, <2>1
  <2>2. CASE ~(m = n /\ s = t)
    <3>1. hev'[m] = i /\ s \in hsubs'[m]
      BY <1>5, <1>6, <2>2
    <3> QED BY <3>1, KnownPlaces
  <2> QED BY <2>1, <2>2
<1> QED BY <1>1, <1>4, <1>6, KnownPlaces, KnownFrame

\* A pusher pops an event and calls back.
LEMMA KnownPusher ==
  ASSUME TypeInv, NEW s \in Subs, NEW i \in Events, NEW n \in Nodes, NEW t \in Subs,
         PopDist(n, t) \/ Push(n, t), Known(s, i)
  PROVE  Known(s, i)'
<1>1. UNCHANGED << todo, hev, hsubs >>
  BY DEF PopDist, Push, dist, reading, handler
<1>2. ASSUME PopDist(n, t) PROVE Known(s, i)'
  <2>1. PICK ev :
          /\ Pop(t, ev)
          /\ \/ pev' = [pev EXCEPT ![n][t] = ev] /\ lost' = lost
             \/ pev' = [pev EXCEPT ![n][t] = Checking] /\ Lose({t}, {ev}, "expired")
    BY <1>2 DEF PopDist
  <2>2. UNCHANGED received /\ pev[n][t] = 0
    BY <1>2 DEF PopDist
  <2>3. /\ Elems(queue[t]) = {ev} \cup Elems(queue'[t])
        /\ \A p \in Queues : p # t => queue'[p] = queue[p]
    BY <2>1, PopFacts, QueueKinds
  <2>4. \A m \in Nodes : \A u \in Subs : m # n \/ u # t => pev'[m][u] = pev[m][u]
    <3>1. CASE pev' = [pev EXCEPT ![n][t] = ev]
      BY <3>1 DEF TypeInv, TypeParts
    <3>2. CASE pev' = [pev EXCEPT ![n][t] = Checking]
      BY <3>2 DEF TypeInv, TypeParts
    <3> QED BY <2>1, <3>1, <3>2
  <2>5. /\ LostBy(s, i) => LostBy(s, i)'
        /\ i = ev /\ s = t => Known(s, i)'
    <3>1. CASE pev' = [pev EXCEPT ![n][t] = ev] /\ lost' = lost
      <4>1. pev'[n][t] = ev
        BY <3>1 DEF TypeInv, TypeParts
      <4> QED BY <3>1, <4>1, KnownPlaces DEF LostBy
    <3>2. CASE pev' = [pev EXCEPT ![n][t] = Checking] /\ Lose({t}, {ev}, "expired")
      <4>1. /\ \A u, j : LostBy(u, j) => LostBy(u, j)'
            /\ \A u \in {t} : \A j \in {ev} : LostBy(u, j)'
        BY <3>2, LoseFacts
      <4> QED BY <4>1, KnownPlaces
    <3> QED BY <2>1, <3>1, <3>2
  <2>6. \A m \in Nodes : pev[m][s] = i => Known(s, i)'
    <3>1. pev[n][t] # i
      BY <2>2, EventFacts
    <3> QED BY <2>4, <3>1, KnownPlaces
  <2>7. i \in Elems(queue[Main]) => Known(s, i)'
    BY <2>3, KnownPlaces, QueueKinds
  <2>8. i \in Elems(queue[s]) => Known(s, i)'
    BY <2>3, <2>5, KnownPlaces, QueueKinds
  <2> QED BY <1>1, <2>2, <2>5, <2>6, <2>7, <2>8, KnownPlaces, KnownFrame
<1>3. ASSUME Push(n, t) PROVE Known(s, i)'
  <2>1. queue' = queue /\ pev' = [pev EXCEPT ![n][t] = Checking]
    BY <1>3 DEF Push
  <2>2. \/ received' = [received EXCEPT ![t] = received[t] \cup {pev[n][t]}] /\ lost' = lost
        \/ Lose({t}, {pev[n][t]}, "callback") /\ received' = received
    BY <1>3 DEF Push
  <2>3. /\ LostBy(s, i) => LostBy(s, i)'
        /\ received[s] \subseteq received'[s]
        /\ pev[n][t] = i /\ s = t => Known(s, i)'
    <3>1. CASE Lose({t}, {pev[n][t]}, "callback") /\ received' = received
      <4>1. /\ \A u, j : LostBy(u, j) => LostBy(u, j)'
            /\ \A u \in {t} : \A j \in {pev[n][t]} : LostBy(u, j)'
        BY <3>1, LoseFacts
      <4> QED BY <3>1, <4>1, KnownPlaces
    <3>2. CASE received' = [received EXCEPT ![t] = received[t] \cup {pev[n][t]}] /\ lost' = lost
      <4>1. received'[t] = received[t] \cup {pev[n][t]} /\ received[s] \subseteq received'[s]
        BY <3>2 DEF TypeInv, TypeParts
      <4> QED BY <3>2, <4>1, KnownPlaces DEF LostBy
    <3> QED BY <2>2, <3>1, <3>2
  <2>4. \A m \in Nodes : \A u \in Subs : m # n \/ u # t => pev'[m][u] = pev[m][u]
    BY <2>1 DEF TypeInv, TypeParts
  <2>5. \A m \in Nodes : pev[m][s] = i => Known(s, i)'
    BY <2>3, <2>4, KnownPlaces
  <2> QED BY <1>1, <2>1, <2>3, <2>5, KnownPlaces, KnownFrame
<1> QED BY <1>2, <1>3

\* Cleaners give up what they take out of a queue.
LEMMA KnownClean ==
  ASSUME TypeInv, NEW s \in Subs, NEW i \in Events, NEW n \in Nodes, NEW q \in Queues,
         CleanTrim(n, q) \/ CleanDel(n, q), Known(s, i)
  PROVE  Known(s, i)'
<1>1. UNCHANGED << todo, hev, hsubs, pev, received >>
  BY DEF CleanTrim, CleanDel, dist, reading, handler
<1>2. \E gone \in SUBSET Nat :
        /\ Elems(queue[q]) \subseteq gone \cup Elems(queue'[q])
        /\ \A p \in Queues : p # q => queue'[p] = queue[p]
        /\ Lose(Receivers(q), gone, "clean")
  <2>1. CASE CleanTrim(n, q)
    <3>1. PICK cut \in 0 .. Len(queue[q]) :
            /\ queue' = [queue EXCEPT ![q] = SubSeq(queue[q], cut + 1, Len(queue[q]))]
            /\ Lose(Receivers(q), Elems(SubSeq(queue[q], 1, cut)), "clean")
      BY <2>1, TrimFacts
    <3>2. Elems(queue[q]) =
            Elems(SubSeq(queue[q], 1, cut)) \cup Elems(SubSeq(queue[q], cut + 1, Len(queue[q])))
      BY QueueFacts, CutElems
    <3>3. Elems(SubSeq(queue[q], 1, cut)) \in SUBSET Nat
      BY <3>2, QueueFacts, EventFacts
    <3>4. queue'[q] = SubSeq(queue[q], cut + 1, Len(queue[q]))
      BY <3>1 DEF TypeInv, TypeParts
    <3>5. \A p \in Queues : p # q => queue'[p] = queue[p]
      BY <3>1 DEF TypeInv, TypeParts
    <3> QED BY <3>1, <3>2, <3>3, <3>4, <3>5
  <2>2. CASE CleanDel(n, q)
    <3>1. Elems(queue[q]) \in SUBSET Nat
      BY QueueFacts, EventFacts
    <3> QED BY <2>2, <3>1 DEF CleanDel, TypeInv, TypeParts
  <2> QED BY <2>1, <2>2
<1>3. PICK gone \in SUBSET Nat :
        /\ Elems(queue[q]) \subseteq gone \cup Elems(queue'[q])
        /\ \A p \in Queues : p # q => queue'[p] = queue[p]
        /\ Lose(Receivers(q), gone, "clean")
  BY <1>2
<1>4. /\ \A u, j : LostBy(u, j) => LostBy(u, j)'
      /\ \A u \in Receivers(q) : \A j \in gone : LostBy(u, j)'
  BY <1>3, LoseFacts
<1>5. i \in Elems(queue[Main]) => Known(s, i)'
  <2>1. CASE q = Main
    <3>1. s \in Receivers(q)
      BY <2>1 DEF Receivers
    <3> QED BY <1>3, <1>4, <2>1, <3>1, KnownPlaces
  <2>2. CASE q # Main
    BY <1>3, <2>2, KnownPlaces, QueueKinds
  <2> QED BY <2>1, <2>2
<1>6. i \in Elems(queue[s]) => Known(s, i)'
  <2>1. CASE q = s
    <3>1. s \in Receivers(q)
      BY <2>1 DEF Receivers
    <3> QED BY <1>3, <1>4, <2>1, <3>1, KnownPlaces
  <2>2. CASE q # s
    BY <1>3, <2>2, KnownPlaces, QueueKinds
  <2> QED BY <2>1, <2>2
<1> QED BY <1>1, <1>4, <1>5, <1>6, KnownPlaces, KnownFrame

\* Only a crash loses sight of an event.
LEMMA KnownStep ==
  ASSUME TypeInv, [Next]_vars, NEW s \in Subs, NEW i \in Events, Known(s, i),
         ~ \E n \in Nodes : Crash(n)
  PROVE  Known(s, i)'
<1>1. CASE UNCHANGED vars
  BY <1>1, KnownIdle
<1>2. CASE Publish
  BY <1>2, KnownIdle
<1>3. ASSUME NEW n \in Nodes, NodeStep(n) PROVE Known(s, i)'
  <2>1. ASSUME NEW t \in Subs,
               ReadCursor(n, t) \/ PusherCheck(n, t) \/ PopDist(n, t) \/ Push(n, t)
        PROVE  Known(s, i)'
    BY <2>1, KnownIdle, KnownPusher
  <2>2. CASE Resume(n) \/ StartWatch(n) \/ Fetch(n) \/ HandleNext(n)
    BY <2>2, KnownIdle, KnownStart, KnownFetch, KnownHandleNext
  <2>3. CASE HandlerCheck(n) \/ PopEvent(n) \/ SendToPusher(n)
    BY <2>3, KnownIdle, KnownPopEvent, KnownSendToPusher
  <2> QED BY <1>3, <2>1, <2>2, <2>3 DEF NodeStep
<1>4. ASSUME NEW n \in Nodes, NEW q \in Queues,
             CleanCount(n, q) \/ CleanTrim(n, q) \/ CleanDel(n, q)
      PROVE  Known(s, i)'
  BY <1>4, KnownIdle, KnownClean
<1>5. ASSUME NEW n \in Nodes, ViewChange(n) PROVE Known(s, i)'
  BY <1>5, KnownIdle
<1> QED BY <1>1, <1>2, <1>3, <1>4, <1>5 DEF Next

-----------------------------------------------------------------------------
(* No event disappears.                                                    *)

\* The hypothesis: no instance crashes, or one instance stays the master.
Undisturbed == MaxCrashes = 0 \/ MaxFlips = 0

\* What bounds the failures.
Bounded == crashes <= MaxCrashes /\ flips <= MaxFlips

\* A cursor is stored for a confirmed event, and so is one that was read.
Stored ==
    /\ \A s \in Subs : cursor[s] # 0 => cursor[s] \in received[s]
    /\ \A n \in Nodes : \A s \in Subs : seen[n][s] # 0 => seen[n][s] \in received[s]

\* An instance that was never master does nothing.
Single ==
    flips = 0 => \E m \in Nodes :
        /\ isMaster = {m}
        /\ \A n \in Nodes \ {m} :
            /\ dpc[n] = "idle" /\ hev[n] = Checking
            /\ \A s \in Subs : pev[n][s] = Checking

\* Neither the event nor a later one was read.
Unread(i) ==
    /\ \A n \in Nodes : /\ start[n] < i /\ oldest[n] < i /\ hev[n] < i
                        /\ \A j \in Elems(todo[n]) : j < i
                        /\ \A s \in Subs : pev[n][s] < i /\ seen[n][s] < i
    /\ \A q \in Queues : \A j \in Elems(queue[q]) : j < i
    /\ \A s \in Subs : cursor[s] < i

\* Distributors that read the chain have not come to the event.
NextUp(i) ==
    \A n \in Nodes : Watching(n) => i > start[n] /\ \A j \in Elems(todo[n]) : i > j

\* The subscriber confirmed the event or a younger one.
Past(s, i) == \E j \in received[s] : j >= i

\* Where an event of the chain is for a subscriber.
Traced(s, i) == Known(s, i) \/ Unread(i) \/ (crashes > 0 /\ (Past(s, i) \/ NextUp(i)))

DistInv ==
    /\ TypeInv /\ Bounded /\ Stored /\ Single
    /\ \A s \in Subs : \A i \in Events : Traced(s, i)

\* Steps of cleaners only take events out of queues.
LEMMA CleanShrinks ==
  ASSUME TypeInv, NEW n \in Nodes, NEW q \in Queues, CleanTrim(n, q) \/ CleanDel(n, q)
  PROVE  \A p \in Queues : Elems(queue'[p]) \subseteq Elems(queue[p])
<1>1. CASE CleanTrim(n, q)
  <2>1. PICK cut \in 0 .. Len(queue[q]) :
          queue' = [queue EXCEPT ![q] = SubSeq(queue[q], cut + 1, Len(queue[q]))]
    BY <1>1, TrimFacts
  <2>2. Elems(SubSeq(queue[q], cut + 1, Len(queue[q]))) \subseteq Elems(queue[q])
    BY QueueFacts, CutElems
  <2> QED BY <2>1, <2>2 DEF TypeInv, TypeParts
<1>2. CASE CleanDel(n, q)
  <2>1. queue' = [queue EXCEPT ![q] = << >>] /\ Elems(<< >>) = {}
    BY <1>2, NoElems DEF CleanDel
  <2> QED BY <2>1 DEF TypeInv, TypeParts
<1> QED BY <1>1, <1>2

\* Where events are read or moved on, no event comes before one that is unread.
LEMMA UnreadStays ==
  ASSUME TypeInv, NEW i \in Events, Unread(i), NEW n \in Nodes,
         \/ Resume(n) \/ HandleNext(n) \/ HandlerCheck(n) \/ PopEvent(n) \/ SendToPusher(n)
         \/ \E s \in Subs : ReadCursor(n, s) \/ PusherCheck(n, s) \/ PopDist(n, s) \/ Push(n, s)
         \/ \E q \in Queues : CleanCount(n, q) \/ CleanTrim(n, q) \/ CleanDel(n, q)
         \/ ViewChange(n) \/ Crash(n)
  PROVE  Unread(i)'
<1>1. i \in Nat \ {0} /\ 0 < i /\ Checking < i
  BY EventFacts DEF Checking
<1>2. CASE HandleNext(n)
  <2>1. UNCHANGED << cursor, oldest, seen, hev, pev >>
    BY <1>2 DEF HandleNext, handler, reading
  <2>2. /\ todo[n] \in Seq(Nat) /\ todo[n] # << >>
        /\ Elems(todo[n]) = {Head(todo[n])} \cup Elems(Tail(todo[n])) /\ Head(todo[n]) \in Events
    BY <1>2, TodoFacts, PopElems DEF HandleNext
  <2>3. Head(todo[n]) < i /\ \A j \in Elems(Tail(todo[n])) : j < i
    BY <2>2 DEF Unread
  <2>4. /\ todo' = [todo EXCEPT ![n] = Tail(todo[n])]
        /\ start' = start \/ start' = [start EXCEPT ![n] = Head(todo[n])]
        /\ \/ queue' = queue
           \/ queue' = [queue EXCEPT ![Main] = Append(queue[Main], Head(todo[n]))]
    BY <1>2 DEF HandleNext
  <2>5. \A q \in Queues : \A j \in Elems(queue'[q]) : j < i
    <3>1. CASE queue' = queue
      BY <3>1 DEF Unread
    <3>2. CASE queue' = [queue EXCEPT ![Main] = Append(queue[Main], Head(todo[n]))]
      <4>1. /\ Elems(queue'[Main]) = Elems(queue[Main]) \cup {Head(todo[n])}
            /\ \A p \in Queues : p # Main => queue'[p] = queue[p]
        BY <2>2, <3>2, PutFacts, QueueKinds
      <4> QED BY <2>3, <4>1 DEF Unread
    <3> QED BY <2>4, <3>1, <3>2
  <2>6. \A m \in Nodes : start'[m] < i /\ \A j \in Elems(todo'[m]) : j < i
    BY <2>3, <2>4 DEF Unread, TypeInv, TypeParts
  <2> QED BY <2>1, <2>5, <2>6 DEF Unread
<1>3. CASE HandlerCheck(n)
  <2>1. UNCHANGED << queue, cursor, oldest, seen, start, todo, pev >> /\ hev' = [hev EXCEPT ![n] = 0]
    BY <1>3 DEF HandlerCheck, redis, dist, reading
  <2>2. \A m \in Nodes : hev'[m] < i
    BY <1>1, <2>1 DEF Unread, TypeInv, TypeParts
  <2> QED BY <2>1, <2>2 DEF Unread
<1>4. CASE PopEvent(n)
  <2>1. UNCHANGED << cursor, oldest, seen, start, todo, pev >>
    BY <1>4 DEF PopEvent, dist, reading
  <2>2. PICK ev : /\ Pop(Main, ev)
                  /\ hev' = [hev EXCEPT ![n] = ev] \/ hev' = [hev EXCEPT ![n] = Checking]
    BY <1>4 DEF PopEvent
  <2>3. /\ Elems(queue[Main]) = {ev} \cup Elems(queue'[Main])
        /\ \A p \in Queues : p # Main => queue'[p] = queue[p]
    BY <2>2, PopFacts, QueueKinds
  <2>4. ev < i /\ \A q \in Queues : \A j \in Elems(queue'[q]) : j < i
    BY <2>3, QueueKinds DEF Unread
  <2>5. \A m \in Nodes : hev'[m] < i
    BY <1>1, <2>2, <2>4 DEF Unread, TypeInv, TypeParts
  <2> QED BY <2>1, <2>4, <2>5 DEF Unread
<1>5. CASE SendToPusher(n)
  <2>1. UNCHANGED << cursor, oldest, seen, start, todo, pev >> /\ hsubs[n] # {}
    BY <1>5 DEF SendToPusher, dist, reading
  <2>2. PICK s \in hsubs[n] :
            queue' = queue \/ queue' = [queue EXCEPT ![s] = Append(queue[s], hev[n])]
    BY <1>5 DEF SendToPusher
  <2>3. s \in Queues /\ hev[n] \in Events /\ hev[n] < i
    BY <2>1, QueueKinds DEF TypeInv, TypeParts, Rest, Unread
  <2>4. \A q \in Queues : \A j \in Elems(queue'[q]) : j < i
    <3>1. CASE queue' = queue
      BY <3>1 DEF Unread
    <3>2. CASE queue' = [queue EXCEPT ![s] = Append(queue[s], hev[n])]
      <4>1. /\ Elems(queue'[s]) = Elems(queue[s]) \cup {hev[n]}
            /\ \A p \in Queues : p # s => queue'[p] = queue[p]
        BY <2>3, <3>2, PutFacts
      <4> QED BY <2>3, <4>1 DEF Unread
    <3> QED BY <2>2, <3>1, <3>2
  <2>5. \A m \in Nodes : hev'[m] = hev[m] \/ hev'[m] = Checking
    BY <1>5 DEF SendToPusher, TypeInv, TypeParts
  <2>6. \A m \in Nodes : hev'[m] < i
    BY <1>1, <2>5 DEF Unread
  <2> QED BY <2>1, <2>4, <2>6 DEF Unread
<1>6. ASSUME NEW s \in Subs, PusherCheck(n, s) PROVE Unread(i)'
  <2>1. UNCHANGED << queue, cursor, oldest, seen, start, todo, hev >> /\ pev' = [pev EXCEPT ![n][s] = 0]
    BY <1>6 DEF PusherCheck, redis, dist, reading, handler
  <2>2. \A m \in Nodes : \A t \in Subs : pev'[m][t] < i
    BY <1>1, <2>1 DEF Unread, TypeInv, TypeParts
  <2> QED BY <2>1, <2>2 DEF Unread
<1>7. ASSUME NEW s \in Subs, PopDist(n, s) PROVE Unread(i)'
  <2>1. UNCHANGED << cursor, oldest, seen, start, todo, hev >>
    BY <1>7 DEF PopDist, dist, reading, handler
  <2>2. PICK ev : Pop(s, ev) /\ \E e \in {ev, Checking} : pev' = [pev EXCEPT ![n][s] = e]
    BY <1>7 DEF PopDist
  <2>3. /\ Elems(queue[s]) = {ev} \cup Elems(queue'[s])
        /\ \A p \in Queues : p # s => queue'[p] = queue[p]
    BY <2>2, PopFacts, QueueKinds
  <2>4. ev < i /\ \A q \in Queues : \A j \in Elems(queue'[q]) : j < i
    BY <2>3, QueueKinds DEF Unread
  <2>5. \A m \in Nodes : \A t \in Subs : pev'[m][t] < i
    BY <1>1, <2>2, <2>4 DEF Unread, TypeInv, TypeParts
  <2> QED BY <2>1, <2>4, <2>5 DEF Unread
<1>8. ASSUME NEW s \in Subs, Push(n, s) PROVE Unread(i)'
  <2>1. UNCHANGED << queue, oldest, seen, start, todo, hev >>
    BY <1>8 DEF Push, dist, reading, handler
  <2>2. /\ pev' = [pev EXCEPT ![n][s] = Checking]
        /\ cursor' = cursor \/ cursor' = [cursor EXCEPT ![s] = pev[n][s]]
    BY <1>8 DEF Push
  <2>3. \A m \in Nodes : \A t \in Subs : pev'[m][t] < i
    BY <1>1, <2>2 DEF Unread, TypeInv, TypeParts
  <2>4. \A t \in Subs : cursor'[t] < i
    BY <2>2 DEF Unread, TypeInv, TypeParts
  <2> QED BY <2>1, <2>3, <2>4 DEF Unread
<1>9. ASSUME NEW q \in Queues, CleanTrim(n, q) \/ CleanDel(n, q) PROVE Unread(i)'
  <2>1. UNCHANGED << cursor, oldest, seen, start, todo, hev, pev >>
    BY <1>9 DEF CleanTrim, CleanDel, dist, reading, handler
  <2>2. \A p \in Queues : Elems(queue'[p]) \subseteq Elems(queue[p])
    BY <1>9, CleanShrinks
  <2> QED BY <2>1, <2>2 DEF Unread
<1>10. ASSUME NEW q \in Queues, CleanCount(n, q) PROVE Unread(i)'
  BY <1>10 DEF CleanCount, redis, dist, reading, handler, Unread
<1>11. CASE ViewChange(n)
  BY <1>11 DEF ViewChange, redis, dist, reading, handler, Unread
<1>12. CASE Crash(n)
  <2>1. UNCHANGED << queue, cursor >>
    BY <1>12 DEF Crash, redis
  <2>2. ASSUME NEW m \in Nodes
        PROVE  /\ start'[m] < i /\ oldest'[m] < i /\ hev'[m] < i
               /\ \A j \in Elems(todo'[m]) : j < i
               /\ \A s \in Subs : pev'[m][s] < i /\ seen'[m][s] < i
    <3>1. CASE m = n
      <4>1. /\ start'[m] = 0 /\ oldest'[m] = 0 /\ hev'[m] = Checking /\ todo'[m] = << >>
            /\ \A s \in Subs : pev'[m][s] = Checking /\ seen'[m][s] = 0
        BY <1>12, <3>1 DEF Crash, TypeInv, TypeParts
      <4> QED BY <1>1, <4>1, NoElems
    <3>2. CASE m # n
      <4>1. /\ start'[m] = start[m] /\ oldest'[m] = oldest[m] /\ hev'[m] = hev[m]
            /\ todo'[m] = todo[m] /\ pev'[m] = pev[m] /\ seen'[m] = seen[m]
        BY <1>12, <3>2 DEF Crash, TypeInv, TypeParts
      <4> QED BY <4>1 DEF Unread
    <3> QED BY <3>1, <3>2
  <2> QED BY <2>1, <2>2 DEF Unread
<1>13. CASE Resume(n)
  BY <1>13 DEF Resume, redis, handler, Unread
<1>14. ASSUME NEW s \in Subs, ReadCursor(n, s) PROVE Unread(i)'
  <2>1. UNCHANGED << queue, cursor, start, todo, hev, pev >>
    BY <1>14 DEF ReadCursor, redis, handler
  <2>2. /\ oldest' = oldest \/ oldest' = [oldest EXCEPT ![n] = cursor[s]]
        /\ seen' = seen \/ seen' = [seen EXCEPT ![n][s] = cursor[s]]
    BY <1>14, ReadFacts
  <2>3. \A m \in Nodes : oldest'[m] < i
    <3>1. CASE oldest' = [oldest EXCEPT ![n] = cursor[s]]
      BY <3>1 DEF Unread, TypeInv, TypeParts
    <3> QED BY <2>2, <3>1 DEF Unread
  <2>4. \A m \in Nodes : \A t \in Subs : seen'[m][t] < i
    <3>1. CASE seen' = [seen EXCEPT ![n][s] = cursor[s]]
      <4>1. \A m \in Nodes : \A t \in Subs :
                seen'[m][t] = IF m = n /\ t = s THEN cursor[s] ELSE seen[m][t]
        BY <3>1 DEF TypeInv, TypeParts
      <4>2. cursor[s] < i /\ \A m \in Nodes : \A t \in Subs : seen[m][t] < i
        BY DEF Unread
      <4> QED BY <4>1, <4>2
    <3> QED BY <2>2, <3>1 DEF Unread
  <2> QED BY <2>1, <2>3, <2>4 DEF Unread
<1> QED BY <1>2, <1>3, <1>4, <1>5, <1>6, <1>7, <1>8, <1>9, <1>10, <1>11, <1>12,
        <1>13, <1>14

\* A distributor that starts or reads on knows what it passes.
LEMMA UnreadReads ==
  ASSUME TypeInv, NEW s \in Subs, NEW i \in Events, Unread(i), NEW n \in Nodes,
         StartWatch(n) \/ Fetch(n)
  PROVE  Unread(i)' \/ Known(s, i)'
<1>1. i \in Nat \ {0} /\ 0 < i
  BY EventFacts
<1>2. CASE StartWatch(n)
  <2>1. /\ UNCHANGED << queue, cursor, oldest, todo, hev, pev >>
        /\ seen' = [seen EXCEPT ![n] = [t \in Subs |-> 0]]
    BY <1>2, StartFacts
  <2>2. \A m \in Nodes : \A t \in Subs : seen'[m][t] < i
    BY <1>1, <2>1 DEF Unread, TypeInv, TypeParts
  <2>3. CASE UNCHANGED start
    BY <2>1, <2>2, <2>3 DEF Unread
  <2>4. ASSUME NEW from \in 0 .. Len(chain), StartAt(n, from)
        PROVE  Unread(i)' \/ Known(s, i)'
    <3>1. start' = [start EXCEPT ![n] = from] /\ start'[n] = from /\ dpc'[n] # "idle"
      BY <2>4 DEF StartAt, TypeInv, TypeParts
    <3>2. CASE from < i
      <4>1. \A m \in Nodes : start'[m] < i
        BY <3>1, <3>2 DEF Unread, TypeInv, TypeParts
      <4> QED BY <2>1, <2>2, <4>1 DEF Unread
    <3>3. CASE ~(from < i)
      <4>1. i <= start'[n] /\ seen[n][s] < i
        BY <1>1, <3>1, <3>3 DEF Unread
      <4> QED BY <1>2, <3>1, <4>1, KnownStart
    <3> QED BY <3>2, <3>3
  <2> QED BY <1>2, <2>3, <2>4, StartFacts
<1>3. CASE Fetch(n)
  <2>1. UNCHANGED << queue, cursor, oldest, seen, start, hev, pev >>
    BY <1>3 DEF Fetch, redis, reading, handler
  <2>2. CASE todo' = todo
    BY <2>1, <2>2 DEF Unread
  <2>3. CASE todo' # todo
    <3>1. todo' = [todo EXCEPT ![n] = NodesFrom(start[n])] /\ start[n] < Len(chain)
      BY <1>3, <2>3 DEF Fetch
    <3>2. start[n] \in 0 .. Len(chain) /\ start[n] < i
      BY DEF TypeInv, TypeParts, Unread
    <3>3. PICK k \in Nat \ {0} : Elems(NodesFrom(start[n])) = start[n] + 1 .. start[n] + k
      BY <3>1, <3>2, NodesFacts
    <3>4. todo'[n] = NodesFrom(start[n]) /\ \A m \in Nodes : m # n => todo'[m] = todo[m]
      BY <3>1 DEF TypeInv, TypeParts
    <3>5. CASE i <= start[n] + k
      <4>1. i \in Elems(todo'[n])
        BY <1>1, <3>2, <3>3, <3>4, <3>5
      <4> QED BY <4>1, KnownPlaces
    <3>6. CASE i > start[n] + k
      <4>1. \A j \in Elems(todo'[n]) : j < i
        BY <1>1, <3>2, <3>3, <3>4, <3>6
      <4> QED BY <2>1, <3>4, <4>1 DEF Unread
    <3> QED BY <1>1, <3>2, <3>5, <3>6
  <2> QED BY <2>2, <2>3
<1> QED BY <1>2, <1>3

\* So does one that has not come to an event yet, after a crash.
LEMMA NextUpReads ==
  ASSUME TypeInv, Stored, NEW s \in Subs, NEW i \in Events, NextUp(i), NEW n \in Nodes,
         StartWatch(n) \/ Fetch(n)
  PROVE  NextUp(i)' \/ Known(s, i)' \/ Past(s, i)'
<1>1. i \in Nat \ {0}
  BY EventFacts
<1>2. CASE StartWatch(n)
  <2>1. UNCHANGED << todo, received >> /\ dpc[n] = "cursors" /\ todo[n] = << >>
    BY <1>2, StartFacts DEF TypeInv, Rest
  <2>2. CASE dpc' = [dpc EXCEPT ![n] = "idle"] /\ UNCHANGED start
    <3>1. \A m \in Nodes : Watching(m)' => Watching(m)
      BY <2>2 DEF Watching, TypeInv, TypeParts
    <3> QED BY <2>1, <2>2, <3>1 DEF NextUp
  <2>3. ASSUME NEW from \in 0 .. Len(chain), StartAt(n, from)
        PROVE  NextUp(i)' \/ Known(s, i)' \/ Past(s, i)'
    <3>1. /\ start'[n] = from /\ dpc'[n] # "idle" /\ Elems(todo[n]) = {}
          /\ \A m \in Nodes : m # n => start'[m] = start[m] /\ dpc'[m] = dpc[m]
      BY <2>1, <2>3, NoElems DEF StartAt, TypeInv, TypeParts
    <3>2. CASE i > from
      <4>1. \A m \in Nodes : m # n /\ Watching(m)' => Watching(m)
        BY <3>1 DEF Watching
      <4> QED BY <2>1, <3>1, <3>2, <4>1 DEF NextUp
    <3>3. CASE i <= from /\ seen[n][s] < i
      BY <1>2, <3>1, <3>3, KnownStart
    <3>4. CASE ~(seen[n][s] < i)
      <4>1. seen[n][s] \in 0 .. Len(chain)
        BY DEF TypeInv, TypeParts
      <4>2. seen[n][s] # 0 /\ seen[n][s] >= i
        BY <1>1, <3>4, <4>1
      <4> QED BY <2>1, <4>2 DEF Stored, Past
    <3> QED BY <1>1, <3>2, <3>3, <3>4
  <2> QED BY <1>2, <2>2, <2>3, StartFacts
<1>3. CASE Fetch(n)
  <2>1. start' = start /\ dpc[n] = "watch"
    BY <1>3 DEF Fetch
  <2>2. CASE todo' = todo
    <3>1. \A m \in Nodes : Watching(m)' => Watching(m)
      BY <1>3, <2>1 DEF Fetch, Watching, TypeInv, TypeParts
    <3> QED BY <2>1, <2>2, <3>1 DEF NextUp
  <2>3. CASE todo' # todo
    <3>1. /\ todo' = [todo EXCEPT ![n] = NodesFrom(start[n])] /\ start[n] < Len(chain)
          /\ dpc' = [dpc EXCEPT ![n] = "handle"]
      BY <1>3, <2>3 DEF Fetch
    <3>2. start[n] \in 0 .. Len(chain) /\ i > start[n]
      BY <2>1 DEF TypeInv, TypeParts, NextUp, Watching
    <3>3. PICK k \in Nat \ {0} : Elems(NodesFrom(start[n])) = start[n] + 1 .. start[n] + k
      BY <3>1, <3>2, NodesFacts
    <3>4. /\ todo'[n] = NodesFrom(start[n])
          /\ \A m \in Nodes : m # n => todo'[m] = todo[m] /\ dpc'[m] = dpc[m]
      BY <3>1 DEF TypeInv, TypeParts
    <3>5. CASE i <= start[n] + k
      <4>1. i \in Elems(todo'[n])
        BY <1>1, <3>2, <3>3, <3>4, <3>5
      <4> QED BY <4>1, KnownPlaces
    <3>6. CASE i > start[n] + k
      <4>1. \A j \in Elems(todo'[n]) : i > j
        BY <1>1, <3>2, <3>3, <3>4, <3>6
      <4> QED BY <2>1, <3>2, <3>4, <4>1 DEF NextUp, Watching
    <3> QED BY <1>1, <3>2, <3>5, <3>6
  <2> QED BY <2>2, <2>3
<1> QED BY <1>2, <1>3

\* Other steps do not bring a distributor past an event.
LEMMA NextUpStays ==
  ASSUME TypeInv, NEW i \in Events, NextUp(i), [Next]_vars,
         ~ \E n \in Nodes : StartWatch(n) \/ Fetch(n)
  PROVE  NextUp(i)'
<1>1. CASE UNCHANGED << dpc, start, todo >>
  BY <1>1 DEF NextUp, Watching
<1>2. ASSUME NEW n \in Nodes, HandleNext(n) PROVE NextUp(i)'
  <2>1. /\ todo[n] \in Seq(Nat) /\ todo[n] # << >>
        /\ Elems(todo[n]) = {Head(todo[n])} \cup Elems(Tail(todo[n]))
    BY <1>2, TodoFacts, PopElems DEF HandleNext
  <2>2. /\ todo' = [todo EXCEPT ![n] = Tail(todo[n])] /\ dpc[n] = "handle"
        /\ \/ start' = start /\ dpc' = dpc
           \/ /\ start' = [start EXCEPT ![n] = Head(todo[n])]
              /\ dpc' = [dpc EXCEPT ![n] = "watch"]
    BY <1>2 DEF HandleNext
  <2>3. i > start[n] /\ \A j \in Elems(todo[n]) : i > j
    BY <2>2 DEF NextUp, Watching
  <2>4. /\ \A j \in Elems(todo'[n]) : i > j
        /\ i > start'[n]
        /\ \A m \in Nodes : m # n => todo'[m] = todo[m] /\ start'[m] = start[m] /\ dpc'[m] = dpc[m]
    BY <2>1, <2>2, <2>3 DEF TypeInv, TypeParts
  <2> QED BY <2>2, <2>4 DEF NextUp, Watching
<1>3. ASSUME NEW n \in Nodes, Crash(n) PROVE NextUp(i)'
  BY <1>3 DEF Crash, NextUp, Watching, TypeInv, TypeParts
<1>4. CASE UNCHANGED vars
  BY <1>1, <1>4 DEF vars, dist, reading
<1>5. CASE Publish
  BY <1>1, <1>5 DEF Publish, dist, reading
<1>6. ASSUME NEW n \in Nodes,
             \/ HandlerCheck(n) \/ PopEvent(n) \/ SendToPusher(n)
             \/ \E s \in Subs : ReadCursor(n, s) \/ PusherCheck(n, s) \/ PopDist(n, s) \/ Push(n, s)
             \/ \E q \in Queues : CleanCount(n, q) \/ CleanTrim(n, q) \/ CleanDel(n, q)
             \/ ViewChange(n)
      PROVE  NextUp(i)'
  BY <1>1, <1>6 DEF HandlerCheck, PopEvent, SendToPusher, ReadCursor, PusherCheck, PopDist, Push,
     CleanCount, CleanTrim, CleanDel, ViewChange, dist, reading
<1>7. ASSUME NEW n \in Nodes, Resume(n) PROVE NextUp(i)'
  <2>1. UNCHANGED << start, todo >> /\ \A m \in Nodes : Watching(m)' => Watching(m)
    BY <1>7 DEF Resume, Watching, TypeInv, TypeParts
  <2> QED BY <2>1 DEF NextUp
<1> QED BY <1>2, <1>3, <1>4, <1>5, <1>6, <1>7 DEF Next, NodeStep

\* Confirmations are kept, and go with the cursors.
LEMMA StoredStep ==
  ASSUME TypeInv, Stored, [Next]_vars
  PROVE  Stored' /\ \A s \in Subs : received[s] \subseteq received'[s]
<1>1. CASE UNCHANGED << cursor, seen, received >>
  BY <1>1 DEF Stored
<1>2. ASSUME NEW n \in Nodes, NEW s \in Subs, Push(n, s)
      PROVE  Stored' /\ \A t \in Subs : received[t] \subseteq received'[t]
  <2>1. seen' = seen
    BY <1>2 DEF Push, dist, reading
  <2>2. \/ /\ received' = [received EXCEPT ![s] = received[s] \cup {pev[n][s]}]
           /\ cursor' = [cursor EXCEPT ![s] = pev[n][s]] \/ cursor' = cursor
        \/ UNCHANGED << cursor, received >>
    BY <1>2 DEF Push
  <2>3. \A t \in Subs : received[t] \subseteq received'[t]
    BY <2>2 DEF TypeInv, TypeParts
  <2>4. \A t \in Subs : cursor'[t] # 0 => cursor'[t] \in received'[t]
    <3>1. CASE cursor' = [cursor EXCEPT ![s] = pev[n][s]]
               /\ received' = [received EXCEPT ![s] = received[s] \cup {pev[n][s]}]
      <4>1. \A t \in Subs : /\ cursor'[t] = IF t = s THEN pev[n][s] ELSE cursor[t]
                            /\ t = s => pev[n][s] \in received'[t]
        BY <3>1 DEF TypeInv, TypeParts
      <4> QED BY <2>3, <4>1 DEF Stored
    <3>2. CASE cursor' = cursor
      BY <2>3, <3>2 DEF Stored
    <3> QED BY <2>2, <3>1, <3>2
  <2> QED BY <2>1, <2>3, <2>4 DEF Stored
<1>3. CASE UNCHANGED vars
  BY <1>1, <1>3 DEF vars, redis, dist, reading, history
<1>4. CASE Publish
  BY <1>1, <1>4 DEF Publish, redis, dist, reading, history
<1>5. ASSUME NEW n \in Nodes,
             \/ Resume(n) \/ Fetch(n) \/ HandleNext(n)
             \/ HandlerCheck(n) \/ PopEvent(n) \/ SendToPusher(n)
             \/ \E s \in Subs : PusherCheck(n, s) \/ PopDist(n, s)
             \/ \E q \in Queues : CleanCount(n, q) \/ CleanTrim(n, q) \/ CleanDel(n, q)
             \/ ViewChange(n)
      PROVE  UNCHANGED << cursor, seen, received >>
  BY <1>5 DEF Resume, Fetch, HandleNext, HandlerCheck, PopEvent, SendToPusher, PusherCheck,
     PopDist, CleanCount, CleanTrim, CleanDel, ViewChange, redis, dist, reading, history
<1>6. ASSUME NEW n \in Nodes, \/ StartWatch(n) \/ Crash(n)
                             \/ \E s \in Subs : ReadCursor(n, s)
      PROVE  Stored' /\ \A t \in Subs : received[t] \subseteq received'[t]
  <2>1. UNCHANGED << cursor, received >>
    BY <1>6 DEF StartWatch, Crash, ReadCursor, redis, history
  <2>2. \/ seen' = seen
        \/ seen' = [seen EXCEPT ![n] = [t \in Subs |-> 0]]
        \/ \E s \in Subs : seen' = [seen EXCEPT ![n][s] = cursor[s]]
    BY <1>6 DEF StartWatch, Crash, ReadCursor
  <2>3. \A m \in Nodes : \A t \in Subs : seen'[m][t] \in {0, seen[m][t], cursor[t]}
    <3>1. CASE seen' = [seen EXCEPT ![n] = [t \in Subs |-> 0]]
      BY <3>1 DEF TypeInv, TypeParts
    <3>2. ASSUME NEW s \in Subs, seen' = [seen EXCEPT ![n][s] = cursor[s]]
          PROVE  \A m \in Nodes : \A t \in Subs : seen'[m][t] \in {0, seen[m][t], cursor[t]}
      <4>1. \A m \in Nodes : \A t \in Subs :
                seen'[m][t] = IF m = n /\ t = s THEN cursor[s] ELSE seen[m][t]
        BY <3>2 DEF TypeInv, TypeParts
      <4> QED BY <4>1
    <3> QED BY <2>2, <3>1, <3>2
  <2> QED BY <2>1, <2>3 DEF Stored
<1> QED BY <1>1, <1>2, <1>3, <1>4, <1>5, <1>6 DEF Next, NodeStep

\* Failures stay within their bounds.
LEMMA BoundedStep ==
  ASSUME TypeInv, [Next]_vars
  PROVE  (Bounded => Bounded') /\ crashes' >= crashes /\ flips' >= flips
<1>1. {crashes, flips, MaxCrashes, MaxFlips} \subseteq Nat
  BY BoundsAssumption DEF TypeInv, TypeParts
<1>2. CASE UNCHANGED << crashes, flips >>
  BY <1>1, <1>2 DEF Bounded
<1>3. ASSUME NEW n \in Nodes, ViewChange(n) \/ Crash(n)
      PROVE  (Bounded => Bounded') /\ crashes' >= crashes /\ flips' >= flips
  BY <1>1, <1>3 DEF ViewChange, Crash, Bounded
<1>4. CASE UNCHANGED vars \/ Publish
  BY <1>2, <1>4 DEF vars, Publish, budget
<1>5. ASSUME NEW n \in Nodes,
             \/ NodeStep(n)
             \/ \E q \in Queues : CleanCount(n, q) \/ CleanTrim(n, q) \/ CleanDel(n, q)
      PROVE  UNCHANGED << crashes, flips >>
  BY <1>5 DEF NodeStep, Resume, ReadCursor, StartWatch, Fetch, HandleNext, HandlerCheck, PopEvent,
     SendToPusher, PusherCheck, PopDist, Push, CleanCount, CleanTrim, CleanDel, budget
<1> QED BY <1>2, <1>3, <1>4, <1>5 DEF Next

\* Instances that were never master stay idle.
LEMMA SingleStep ==
  ASSUME TypeInv, Single, [Next]_vars
  PROVE  Single'
<1> SUFFICES ASSUME flips' = 0 PROVE Single'
  BY DEF Single
<1>1. flips = 0
  <2>1. flips \in Nat /\ flips' >= flips
    BY BoundedStep DEF TypeInv, TypeParts
  <2> QED BY <2>1
<1>2. PICK m \in Nodes :
        /\ isMaster = {m}
        /\ \A n \in Nodes \ {m} :
            /\ dpc[n] = "idle" /\ hev[n] = Checking
            /\ \A s \in Subs : pev[n][s] = Checking
  BY <1>1 DEF Single
<1>3. /\ isMaster' = {m}
      /\ \A n \in Nodes \ {m} :
            /\ dpc'[n] = "idle" /\ hev'[n] = Checking
            /\ \A s \in Subs : pev'[n][s] = Checking
  <2>1. CASE UNCHANGED << isMaster, dpc, hev, pev >>
    BY <1>2, <2>1
  <2>2. CASE UNCHANGED vars \/ Publish
    BY <2>1, <2>2 DEF vars, Publish, dist, reading, handler
  <2>3. ASSUME NEW n \in Nodes, NEW q \in Queues,
               CleanCount(n, q) \/ CleanTrim(n, q) \/ CleanDel(n, q)
        PROVE  UNCHANGED << isMaster, dpc, hev, pev >>
    BY <2>3 DEF CleanCount, CleanTrim, CleanDel, dist, reading, handler
  <2>4. ASSUME NEW n \in Nodes, ViewChange(n) PROVE FALSE
    BY <1>1, <2>4 DEF ViewChange
  <2>5. ASSUME NEW n \in Nodes, Crash(n)
        PROVE  /\ isMaster' = {m}
               /\ \A k \in Nodes \ {m} :
                    /\ dpc'[k] = "idle" /\ hev'[k] = Checking
                    /\ \A s \in Subs : pev'[k][s] = Checking
    BY <1>2, <2>5 DEF Crash, TypeInv, TypeParts
  <2>6. ASSUME NEW n \in Nodes, NodeStep(n)
        PROVE  n = m /\ UNCHANGED isMaster
    <3>1. UNCHANGED isMaster
      BY <2>6 DEF NodeStep, Resume, ReadCursor, StartWatch, Fetch, HandleNext, HandlerCheck, PopEvent, SendToPusher,
         PusherCheck, PopDist, Push
    <3>2. SUFFICES ASSUME n # m PROVE FALSE
      BY <3>1
    <3>3. /\ n \notin isMaster /\ dpc[n] = "idle" /\ hev[n] = Checking /\ hsubs[n] = {}
          /\ \A s \in Subs : pev[n][s] = Checking
      BY <1>2, <3>2, EventFacts DEF TypeInv, Rest, Checking
    <3>4. ~Resume(n) /\ ~StartWatch(n) /\ ~Fetch(n) /\ ~HandleNext(n) /\ ~HandlerCheck(n)
      BY <3>3 DEF Resume, StartWatch, Fetch, HandleNext, HandlerCheck
    <3>5. ~PopEvent(n) /\ ~SendToPusher(n)
      BY <3>3 DEF PopEvent, SendToPusher, Checking
    <3>6. ASSUME NEW s \in Subs PROVE ~ReadCursor(n, s) /\ ~PusherCheck(n, s) /\ ~PopDist(n, s) /\ ~Push(n, s)
      BY <3>3 DEF ReadCursor, PusherCheck, PopDist, Push, Checking
    <3> QED BY <2>6, <3>4, <3>5, <3>6 DEF NodeStep
  <2>7. ASSUME NodeStep(m)
        PROVE  \A k \in Nodes \ {m} : dpc'[k] = dpc[k] /\ hev'[k] = hev[k] /\ pev'[k] = pev[k]
    BY <2>7 DEF NodeStep, Resume, StartAt, ReadCursor, StartWatch, Fetch, HandleNext, HandlerCheck, PopEvent, SendToPusher,
       PusherCheck, PopDist, Push, dist, reading, handler, TypeInv, TypeParts
  <2> QED BY <1>2, <2>1, <2>2, <2>3, <2>4, <2>5, <2>6, <2>7 DEF Next
<1> QED BY <1>3 DEF Single

\* Initially nothing was read.
LEMMA DistInit == Init => DistInv
<1> SUFFICES ASSUME Init PROVE DistInv
  OBVIOUS
<1>1. TypeInv /\ Events = {}
  BY TypeInit, EmptySeq DEF Init, Events
<1>2. Bounded
  BY BoundsAssumption DEF Init, Bounded
<1>3. Stored
  BY DEF Init, Stored
<1>4. Single
  BY DEF Init, Single
<1> QED BY <1>1, <1>2, <1>3, <1>4 DEF DistInv

\* A crash loses sight of what only the instance held: if no other distributor ran, the
\* next one to resume starts below it.
LEMMA CrashTraced ==
  ASSUME Undisturbed, DistInv, NEW n \in Nodes, Crash(n), NEW s \in Subs, NEW i \in Events
  PROVE  Traced(s, i)'
<1>1. /\ TypeInv /\ Bounded /\ Single /\ Traced(s, i)
      /\ crashes \in Nat /\ flips \in Nat /\ MaxCrashes \in Nat /\ MaxFlips \in Nat
  BY BoundsAssumption DEF DistInv, TypeInv, TypeParts
<1>2. MaxCrashes # 0 /\ crashes' > 0
  BY <1>1 DEF Crash
<1>3. flips = 0
  BY <1>1, <1>2 DEF Undisturbed, Bounded
<1>4. PICK m \in Nodes : \A k \in Nodes \ {m} : /\ dpc[k] = "idle" /\ hev[k] = Checking
                                               /\ \A t \in Subs : pev[k][t] = Checking
  BY <1>1, <1>3 DEF Single
<1>5. CASE n = m
  <2>1. \A k \in Nodes : dpc'[k] = "idle"
    BY <1>1, <1>4, <1>5 DEF Crash, TypeInv, TypeParts
  <2> QED BY <1>2, <2>1 DEF Traced, NextUp, Watching
<1>6. CASE n # m
  <2>1. dpc[n] = "idle" /\ hev[n] = Checking /\ \A t \in Subs : pev[n][t] = Checking
    BY <1>4, <1>6
  <2>2. todo[n] = << >>
    BY <1>1, <2>1 DEF TypeInv, TypeParts, Rest
  <2>3. Known(s, i) => Known(s, i)'
    <3>1. UNCHANGED << queue, received, lost >>
      BY DEF Crash, redis, history
    <3>2. /\ i \notin Elems(todo[n]) /\ hev[n] # i /\ pev[n][s] # i
          /\ \A k \in Nodes : k # n => /\ todo'[k] = todo[k] /\ hev'[k] = hev[k]
                                       /\ hsubs'[k] = hsubs[k] /\ pev'[k] = pev[k]
      BY <1>1, <2>1, <2>2, NoElems, EventFacts DEF Crash, TypeInv, TypeParts, Checking
    <3> QED BY <3>1, <3>2 DEF Known, Received, LostBy, InFlight
  <2>4. Unread(i) => Unread(i)'
    BY <1>1, UnreadStays
  <2>5. Past(s, i) => Past(s, i)'
    BY DEF Crash, history, Past
  <2>6. NextUp(i) => NextUp(i)'
    <3>1. Next /\ ~ \E k \in Nodes : StartWatch(k) \/ Fetch(k)
      <4>1. Next
        BY DEF Next
      <4>2. crashes' = crashes + 1 /\ crashes \in Nat
        BY <1>1 DEF Crash
      <4>3. \A k \in Nodes : StartWatch(k) \/ Fetch(k) => crashes' = crashes
        BY DEF StartWatch, Fetch
      <4> QED BY <4>1, <4>2, <4>3
    <3> QED BY <1>1, <3>1, NextUpStays
  <2> QED BY <1>1, <1>2, <2>3, <2>4, <2>5, <2>6 DEF Traced
<1> QED BY <1>5, <1>6

\* Every step keeps every event in sight.
LEMMA DistStep == Undisturbed /\ DistInv /\ [Next]_vars => DistInv'
<1> SUFFICES ASSUME Undisturbed, DistInv, [Next]_vars PROVE DistInv'
  OBVIOUS
<1>1. TypeInv /\ Bounded /\ Stored /\ Single
  BY DEF DistInv
<1>2. TypeInv' /\ Bounded' /\ Stored' /\ Single'
  BY <1>1, TypeStep, BoundedStep, StoredStep, SingleStep
<1>3. ASSUME NEW s \in Subs, NEW i \in Events PROVE Traced(s, i)'
  <2>1. Traced(s, i)
    BY DEF DistInv
  <2>2. ASSUME NEW n \in Nodes, Crash(n) PROVE Traced(s, i)'
    BY <2>2, CrashTraced
  <2>3. ASSUME ~ \E n \in Nodes : Crash(n) PROVE Traced(s, i)'
    <3>1. CASE Known(s, i)
      BY <1>1, <2>3, <3>1, KnownStep DEF Traced
    <3>2. CASE Unread(i)
      <4>1. CASE UNCHANGED vars
        BY <3>2, <4>1 DEF vars, redis, dist, reading, handler, Unread, Traced
      <4>2. CASE Publish
        BY <3>2, <4>2 DEF Publish, redis, dist, reading, handler, Unread, Traced
      <4>3. CASE \E n \in Nodes : StartWatch(n) \/ Fetch(n)
        BY <1>1, <3>2, <4>3, UnreadReads DEF Traced
      <4>4. CASE Next /\ ~Publish /\ ~ \E n \in Nodes : StartWatch(n) \/ Fetch(n)
        <5>1. Unread(i)'
          BY <1>1, <3>2, <4>4, UnreadStays DEF Next, NodeStep
        <5> QED BY <5>1 DEF Traced
      <4> QED BY <4>1, <4>2, <4>3, <4>4
    <3>3. CASE crashes > 0 /\ Past(s, i)
      <4>1. Past(s, i)'
        BY <1>1, <3>3, StoredStep DEF Past
      <4>2. crashes' > 0
        BY <1>1, <1>2, <3>3, BoundedStep DEF TypeInv, TypeParts
      <4> QED BY <4>1, <4>2 DEF Traced
    <3>4. CASE crashes > 0 /\ NextUp(i)
      <4>1. crashes' > 0
        BY <1>1, <1>2, <3>4, BoundedStep DEF TypeInv, TypeParts
      <4>2. CASE \E n \in Nodes : StartWatch(n) \/ Fetch(n)
        BY <1>1, <3>4, <4>1, <4>2, NextUpReads DEF Traced
      <4>3. CASE ~ \E n \in Nodes : StartWatch(n) \/ Fetch(n)
        BY <1>1, <3>4, <4>1, <4>3, NextUpStays DEF Traced
      <4> QED BY <4>2, <4>3
    <3> QED BY <2>1, <3>1, <3>2, <3>3, <3>4 DEF Traced
  <2> QED BY <2>2, <2>3
<1>4. ASSUME NEW s \in Subs, NEW i \in Events', i \notin Events PROVE Traced(s, i)'
  <2>1. Publish
    BY <1>1, <1>4, TypeResume, TypeReadCursor, TypeStartWatch, TypeFetch, TypeHandleNext,
       TypeHandlerCheck, TypePopEvent, TypeSendToPusher, TypePusher, TypeCleanCount, TypeCleanTrim, TypeCleanDel,
       TypeViewChange, TypeCrash DEF Next, NodeStep, vars, Events
  <2>2. i = Len(chain) + 1 /\ Len(chain) \in Nat
    BY <1>1, <1>4, <2>1, TypePublish, EventFacts
  <2>3. UNCHANGED << queue, cursor, oldest, seen, start, todo, hev, pev >>
    BY <2>1 DEF Publish, redis, dist, reading, handler
  <2>4. Unread(i)
    <3>1. \A j \in Events : j < i
      BY <1>1, <2>2, EventFacts
    <3>2. \A j \in 0 .. Len(chain) : j < i
      BY <2>2
    <3>3. \A j \in Place : j < i
      BY <2>2, <3>1 DEF Place, Checking
    <3> QED BY <1>1, <3>1, <3>2, <3>3 DEF Unread, TypeInv, TypeParts, Rest
  <2> QED BY <2>3, <2>4 DEF Unread, Traced
<1> QED BY <1>2, <1>3, <1>4 DEF DistInv

\* What is traced is accounted for.
LEMMA TracedAccounted == DistInv => Accounted
<1> SUFFICES ASSUME DistInv, NEW s \in Subs, NEW i \in Events
             PROVE  \/ Received(s, i) \/ LostBy(s, i) \/ InFlight(s, i) \/ Ahead(i)
                    \/ crashes > 0 /\ Overtaken(s, i)
  BY DEF Accounted
<1>1. TypeInv /\ Traced(s, i) /\ i \in Nat \ {0}
  BY EventFacts DEF DistInv
<1>2. CASE Known(s, i)
  BY <1>2 DEF Known
<1>3. CASE Unread(i)
  <2>1. \A n \in Nodes : start[n] \in Int /\ start[n] < i
    BY <1>1, <1>3, EventFacts DEF Unread, TypeInv, TypeParts
  <2> QED BY <1>1, <2>1 DEF Ahead
<1>4. CASE crashes > 0 /\ Past(s, i)
  <2>1. PICK j \in received[s] : j >= i
    BY <1>4 DEF Past
  <2>2. j \in Nat
    BY <1>1, EventFacts DEF TypeInv, TypeParts
  <2>3. j = i \/ j > i
    BY <1>1, <2>1, <2>2
  <2> QED BY <1>4, <2>1, <2>3 DEF Received, Overtaken
<1>5. CASE NextUp(i)
  BY <1>5 DEF NextUp, Ahead
<1> QED BY <1>1, <1>2, <1>3, <1>4, <1>5 DEF Traced

\* However the goroutines of the instances interleave, whatever fails and whoever is master:
\* without crashes, and after crashes of a lasting master, no event disappears elsewhere than
\* at the places known for it.
THEOREM NothingDisappears ==
  ASSUME Undisturbed
  PROVE  Spec => []Accounted
<1>1. DistInv => Accounted
  BY TracedAccounted
<1>2. DistInv /\ [Next]_vars => DistInv'
  BY DistStep
<1> QED BY <1>1, <1>2, DistInit, PTL DEF Spec

-----------------------------------------------------------------------------
(* The oldest cursor.                                                      *)

\* Events in seconds of their own are ordered by them.
Distinct == 0 \notin SecondSteps => \A i, j \in Events : i < j => chain[i] < chain[j]

\* Seconds of their own stay so.
LEMMA DistinctStep ==
  ASSUME TypeInv, Distinct, [Next]_vars
  PROVE  Distinct'
<1>1. CASE UNCHANGED chain
  BY <1>1 DEF Distinct, Events
<1>2. CASE Publish
  <2>1. PICK later \in SecondSteps :
            chain' = Append(chain, later + IF chain = << >> THEN 0 ELSE chain[Len(chain)])
    BY <1>2 DEF Publish
  <2>2. later \in Nat /\ Len(chain) \in Nat
    BY EventFacts, SecondsAssumption
  <2>3. CASE chain = << >>
    <3>1. Events' = {1}
      BY <1>2, <2>3, TypePublish, EventFacts, EmptySeq DEF Events
    <3>2. \A i, j \in Events' : ~(i < j)
      BY <3>1
    <3> QED BY <3>2 DEF Distinct
  <2>4. CASE chain # << >>
    <3> DEFINE last == chain[Len(chain)]
    <3>1. Len(chain) \in Events /\ last \in Nat
      BY <2>4, EventFacts, EmptyIff DEF TypeInv, TypeParts
    <3>2. \A i \in Events : chain[i] <= last
      BY <3>1, EventFacts DEF TypeInv, Rest
    <3>3. chain' = Append(chain, later + last) /\ later + last \in Nat
      BY <2>1, <2>2, <2>4, <3>1
    <3> HIDE DEF last
    <3>4. /\ Events' = Events \cup {Len(chain) + 1}
          /\ \A i \in Events : chain'[i] = chain[i]
          /\ chain'[Len(chain) + 1] = later + last
      BY <1>2, <3>3, AppendProperties, TypePublish, EventFacts DEF TypeInv, TypeParts
    <3>5. ASSUME 0 \notin SecondSteps, NEW i \in Events', NEW j \in Events', i < j
          PROVE  chain'[i] < chain'[j]
      <4>1. i \in Events
        BY <3>4, <3>5, EventFacts
      <4>2. CASE j \in Events
        BY <3>4, <3>5, <4>1, <4>2 DEF Distinct
      <4>3. CASE j = Len(chain) + 1
        <5>1. later # 0
          BY <3>5
        <5>2. chain[i] <= last /\ chain[i] \in Nat
          BY <3>2, <4>1, EventFacts
        <5>3. chain[i] < later + last
          BY <2>2, <3>1, <5>1, <5>2
        <5> QED BY <3>4, <4>1, <4>3, <5>3
      <4> QED BY <3>4, <3>5, <4>2, <4>3
    <3> QED BY <3>5 DEF Distinct
  <2> QED BY <2>3, <2>4
<1>3. CASE UNCHANGED vars
  BY <1>1, <1>3 DEF vars
<1>4. ASSUME NEW n \in Nodes,
             \/ NodeStep(n)
             \/ \E q \in Queues : CleanCount(n, q) \/ CleanTrim(n, q) \/ CleanDel(n, q)
             \/ ViewChange(n) \/ Crash(n)
      PROVE  UNCHANGED chain
  BY <1>4 DEF NodeStep, Resume, ReadCursor, StartWatch, Fetch, HandleNext, HandlerCheck, PopEvent,
     SendToPusher, PusherCheck, PopDist, Push, CleanCount, CleanTrim, CleanDel, ViewChange, Crash
<1> QED BY <1>1, <1>2, <1>3, <1>4 DEF Next

\* What is kept of the cursors is no younger than what was read.
LEMMA OldestStep ==
  ASSUME TypeInv, Distinct, 0 \notin SecondSteps, FromOldest, [Next]_vars
  PROVE  FromOldest'
<1>1. CASE UNCHANGED << oldest, seen >>
  BY <1>1 DEF FromOldest
<1>2. ASSUME NEW n \in Nodes, StartWatch(n) \/ Crash(n) PROVE FromOldest'
  <2>1. /\ seen' = [seen EXCEPT ![n] = [s \in Subs |-> 0]]
        /\ \A m \in Nodes : m # n => oldest'[m] = oldest[m]
    BY <1>2 DEF StartWatch, Crash, TypeInv, TypeParts
  <2>2. \A m \in Nodes : \A s \in Subs :
            seen'[m][s] = 0 \/ (m # n /\ seen'[m][s] = seen[m][s])
    BY <2>1 DEF TypeInv, TypeParts
  <2> QED BY <2>1, <2>2 DEF FromOldest
<1>3. ASSUME NEW n \in Nodes, NEW s \in Subs, ReadCursor(n, s) PROVE FromOldest'
  <2>1. CASE UNCHANGED << oldest, seen >>
    BY <1>1, <2>1
  <2> DEFINE c == cursor[s]
  <2>2. CASE /\ seen' = [seen EXCEPT ![n][s] = c]
             /\ oldest' = [oldest EXCEPT ![n] = IF Older(c, oldest[n]) THEN c ELSE oldest[n]]
    <3>1. /\ c \in 0 .. Len(chain) /\ oldest[n] \in 0 .. Len(chain) /\ Len(chain) \in Nat
          /\ c # 0 => c \in Events
          /\ oldest[n] # 0 => oldest[n] \in Events
      <4>1. c \in 0 .. Len(chain) /\ oldest[n] \in 0 .. Len(chain)
        BY DEF TypeInv, TypeParts
      <4> HIDE DEF c
      <4> QED BY <4>1, EventFacts
    <3> HIDE DEF c
    <3>2. /\ \A m \in Nodes : m # n => oldest'[m] = oldest[m] /\ seen'[m] = seen[m]
          /\ \A r \in Subs : r # s => seen'[n][r] = seen[n][r]
          /\ seen'[n][s] = c
          /\ oldest'[n] = IF Older(c, oldest[n]) THEN c ELSE oldest[n]
      BY <2>2 DEF TypeInv, TypeParts
    <3>3. \A i, j \in Events : chain[i] \in Nat /\ (i < j => chain[i] < chain[j])
      BY EventFacts DEF Distinct
    <3>4. c # 0 => oldest'[n] # 0 /\ oldest'[n] \in 0 .. Len(chain) /\ oldest'[n] <= c
      BY <3>1, <3>2, <3>3 DEF Older
    <3>5. oldest[n] # 0 => /\ oldest'[n] # 0 /\ oldest'[n] \in 0 .. Len(chain)
                           /\ oldest'[n] <= oldest[n]
      BY <3>1, <3>2, <3>3 DEF Older
    <3>6. ASSUME NEW r \in Subs, seen'[n][r] # 0 PROVE oldest'[n] \in 1 .. seen'[n][r]
      <4>1. CASE r = s
        BY <3>1, <3>2, <3>4, <3>6, <4>1
      <4>2. CASE r # s
        <5>1. seen'[n][r] = seen[n][r] /\ oldest[n] \in 1 .. seen[n][r]
          BY <3>2, <3>6, <4>2 DEF FromOldest
        <5>2. seen[n][r] \in Nat
          BY EventFacts DEF TypeInv, TypeParts
        <5> QED BY <3>1, <3>5, <5>1, <5>2
      <4> QED BY <4>1, <4>2
    <3> QED BY <3>2, <3>6 DEF FromOldest
  <2> QED BY <1>3, <2>1, <2>2 DEF ReadCursor
<1>4. ASSUME NEW n \in Nodes,
             \/ Resume(n) \/ Fetch(n) \/ HandleNext(n)
             \/ HandlerCheck(n) \/ PopEvent(n) \/ SendToPusher(n)
             \/ \E s \in Subs : PusherCheck(n, s) \/ PopDist(n, s) \/ Push(n, s)
             \/ \E q \in Queues : CleanCount(n, q) \/ CleanTrim(n, q) \/ CleanDel(n, q)
             \/ ViewChange(n)
      PROVE  UNCHANGED << oldest, seen >>
  BY <1>4 DEF Resume, Fetch, HandleNext, HandlerCheck, PopEvent, SendToPusher, PusherCheck,
     PopDist, Push, CleanCount, CleanTrim, CleanDel, ViewChange, dist, reading
<1>5. CASE UNCHANGED vars \/ Publish
  BY <1>1, <1>5 DEF vars, Publish, dist, reading
<1> QED BY <1>1, <1>2, <1>3, <1>4, <1>5 DEF Next, NodeStep

\* If events happen in seconds of their own, a distributor resumes from no later than any
\* cursor it could read, in whatever order it reads them and subscribers confirm meanwhile.
THEOREM OldestIsTaken ==
  ASSUME 0 \notin SecondSteps
  PROVE  Spec => []FromOldest
<1> DEFINE Inv == TypeInv /\ Distinct /\ FromOldest
<1>1. Init => Inv
  <2> SUFFICES ASSUME Init PROVE Inv
    OBVIOUS
  <2>1. TypeInv /\ Events = {}
    BY TypeInit, EmptySeq DEF Init, Events
  <2>2. FromOldest
    BY DEF Init, FromOldest
  <2> QED BY <2>1, <2>2 DEF Distinct
<1>2. Inv /\ [Next]_vars => Inv'
  BY TypeStep, DistinctStep, OldestStep
<1>3. Inv => FromOldest
  OBVIOUS
<1> HIDE DEF Inv
<1> QED BY <1>1, <1>2, <1>3, PTL DEF Spec

-----------------------------------------------------------------------------
(* Events are not reordered.                                               *)

\* y is younger than x, or than the cursor m from which the distributor resumes.
Behind(m, x, y) == x < y \/ (m # 0 /\ m < y)
Increasing(m, q) == \A i, j \in DOMAIN q : i < j => Behind(m, q[i], q[j])

\* The events instance n has yet to give to the handler, to subscriber s's queue and to its
\* pusher.
Later(n) == Elems(queue[Main]) \cup Elems(todo[n])
ToSend(n, s) == {e \in {hev[n]} : s \in hsubs[n]} \cup Later(n)
ToPush(n, s) == Elems(queue[s]) \cup ToSend(n, s)

\* Each place holds younger events than the next one on the way to the subscriber, or
\* events that were read again.
OrderFor(n, s) ==
    /\ s \in hsubs[n] => \A j \in Later(n) : Behind(oldest[n], hev[n], j)
    /\ \A i \in Elems(queue[s]) : \A j \in ToSend(n, s) : Behind(oldest[n], i, j)
    /\ pev[n][s] > 0 => /\ Behind(oldest[n], cursor[s], pev[n][s])
                        /\ \A j \in ToPush(n, s) : Behind(oldest[n], pev[n][s], j)
    /\ \A j \in ToPush(n, s) : Behind(oldest[n], cursor[s], j)

\* The distributor goes on behind them all, or behind the cursor it keeps.
Last(n, s) ==
    /\ cursor[s] <= start[n] /\ pev[n][s] <= start[n]
    /\ \A j \in ToPush(n, s) : j <= start[n]
StartFor(n, s) ==
    dpc[n] = "watch" => (oldest[n] # 0 /\ oldest[n] <= start[n]) \/ Last(n, s)

InOrder(n) ==
    /\ Increasing(oldest[n], todo[n]) /\ \A q \in Queues : Increasing(oldest[n], queue[q])
    /\ \A i \in Elems(queue[Main]) : \A j \in Elems(todo[n]) : Behind(oldest[n], i, j)
    /\ \A s \in Subs : OrderFor(n, s) /\ StartFor(n, s)

OrderInv ==
    /\ TypeInv /\ Single
    /\ crashes + flips = 0 => \A n \in isMaster : InOrder(n)

\* Appends, pops and cuts of increasing queues.
LEMMA AppendIncreasing ==
  ASSUME NEW m, NEW q \in Seq(Nat), NEW e \in Nat, Increasing(m, q),
         \A x \in Elems(q) : Behind(m, x, e)
  PROVE  Increasing(m, Append(q, e))
<1>1. /\ Len(q) \in Nat /\ DOMAIN q = 1 .. Len(q)
      /\ \A i \in 1 .. Len(q) : Append(q, e)[i] = q[i]
      /\ Append(q, e)[Len(q) + 1] = e
      /\ Append(q, e) \in Seq(Nat) /\ Len(Append(q, e)) = Len(q) + 1
  BY AppendProperties, LenProperties
<1>2. DOMAIN Append(q, e) = 1 .. Len(q) + 1
  BY <1>1, LenProperties
<1>3. ASSUME NEW i \in 1 .. Len(q) + 1, NEW j \in 1 .. Len(q) + 1, i < j
      PROVE  Behind(m, Append(q, e)[i], Append(q, e)[j])
  <2>1. i \in 1 .. Len(q) /\ (j \in 1 .. Len(q) \/ j = Len(q) + 1)
    BY <1>1, <1>3
  <2>2. CASE j \in 1 .. Len(q)
    BY <1>1, <1>3, <2>1, <2>2 DEF Increasing
  <2>3. CASE j = Len(q) + 1
    <3>1. q[i] \in Elems(q)
      BY <1>1, <2>1 DEF Elems
    <3> QED BY <1>1, <2>1, <2>3, <3>1
  <2> QED BY <2>1, <2>2, <2>3
<1> QED BY <1>2, <1>3 DEF Increasing

\* The rest of an increasing queue is increasing, and above its head.
LEMMA PopIncreasing ==
  ASSUME NEW m, NEW q \in Seq(Nat), q # << >>, Increasing(m, q)
  PROVE  Increasing(m, Tail(q)) /\ \A x \in Elems(Tail(q)) : Behind(m, Head(q), x)
<1>1. /\ Head(q) = q[1] /\ 1 \in DOMAIN q /\ DOMAIN q = 1 .. Len(q) /\ Len(q) \in Nat
      /\ \A i \in DOMAIN Tail(q) : i + 1 \in DOMAIN q /\ Tail(q)[i] = q[i + 1]
      /\ Tail(q) \in Seq(Nat)
  BY TailFacts, LenProperties
<1>2. DOMAIN Tail(q) = 1 .. Len(Tail(q)) /\ Len(Tail(q)) \in Nat
  BY <1>1, LenProperties
<1>3. Increasing(m, Tail(q))
  <2> SUFFICES ASSUME NEW i \in DOMAIN Tail(q), NEW j \in DOMAIN Tail(q), i < j
               PROVE  Behind(m, Tail(q)[i], Tail(q)[j])
    BY DEF Increasing
  <2>1. i + 1 \in DOMAIN q /\ j + 1 \in DOMAIN q /\ i + 1 < j + 1
    BY <1>1, <1>2
  <2> QED BY <1>1, <2>1 DEF Increasing
<1>4. ASSUME NEW x \in Elems(Tail(q)) PROVE Behind(m, Head(q), x)
  <2>1. PICK i \in DOMAIN Tail(q) : x = Tail(q)[i]
    BY <1>4 DEF Elems
  <2>2. i + 1 \in DOMAIN q /\ x = q[i + 1] /\ 1 < i + 1
    BY <1>1, <1>2, <2>1
  <2> QED BY <1>1, <2>2 DEF Increasing
<1> QED BY <1>3, <1>4

\* An increasing queue stays increasing when its front is cut.
LEMMA CutIncreasing ==
  ASSUME NEW m, NEW q \in Seq(Nat), NEW cut \in 0 .. Len(q), Increasing(m, q)
  PROVE  Increasing(m, SubSeq(q, cut + 1, Len(q)))
<1>1. Len(q) \in Nat /\ DOMAIN q = 1 .. Len(q) /\ \A i \in 1 .. Len(q) : q[i] \in Nat
  BY LenProperties, ElementOfSeq
<1>2. PICK k \in Int : k = cut + 1
  BY <1>1
<1>3. /\ SubSeq(q, k, Len(q)) \in Seq(Nat)
      /\ \A i \in 1 .. Len(q) - k + 1 : SubSeq(q, k, Len(q))[i] = q[k + i - 1]
      /\ Len(SubSeq(q, k, Len(q))) = IF k <= Len(q) THEN Len(q) - k + 1 ELSE 0
  <2>1. \A i \in k .. Len(q) : q[i] \in Nat
    BY <1>1, <1>2
  <2> QED BY <1>1, <2>1, SubSeqProperties
<1>4. DOMAIN SubSeq(q, k, Len(q)) \subseteq 1 .. Len(q) - k + 1
  <2>1. DOMAIN SubSeq(q, k, Len(q)) = 1 .. Len(SubSeq(q, k, Len(q)))
    BY <1>3, LenProperties
  <2>2. PICK l \in Nat : l = Len(q)
    BY <1>1
  <2>3. 1 .. (IF k <= l THEN l - k + 1 ELSE 0) \subseteq 1 .. l - k + 1
    BY <1>2, <2>2
  <2> QED BY <1>3, <2>1, <2>2, <2>3
<1>5. ASSUME NEW i \in 1 .. Len(q) - k + 1, NEW j \in 1 .. Len(q) - k + 1, i < j
      PROVE  Behind(m, SubSeq(q, k, Len(q))[i], SubSeq(q, k, Len(q))[j])
  <2>1. k + i - 1 \in DOMAIN q /\ k + j - 1 \in DOMAIN q /\ k + i - 1 < k + j - 1
    BY <1>1, <1>2, <1>5
  <2> QED BY <1>3, <1>5, <2>1 DEF Increasing
<1>6. Increasing(m, SubSeq(q, k, Len(q)))
  BY <1>4, <1>5 DEF Increasing
<1> QED BY <1>2, <1>6

\* The empty queue is increasing.
LEMMA EmptyIncreasing == \A m : Increasing(m, << >>)
  BY EmptySeq DEF Increasing

\* Events in the places are numbers.
LEMMA PlaceFacts ==
  ASSUME TypeInv, NEW n \in Nodes, NEW s \in Subs
  PROVE  /\ ToPush(n, s) \subseteq Events
         /\ ToPush(n, s) \subseteq Nat \ {0} /\ ToSend(n, s) \subseteq ToPush(n, s)
         /\ Later(n) \subseteq ToSend(n, s) /\ Elems(queue[s]) \subseteq ToPush(n, s)
         /\ pev[n][s] \in Int /\ cursor[s] \in Nat /\ start[n] \in Nat /\ hev[n] \in Int
<1>1. s \in hsubs[n] => hev[n] \in Events
  BY DEF TypeInv, Rest
<1>2. Later(n) \subseteq Events /\ Elems(queue[s]) \subseteq Events
  BY QueueFacts, TodoFacts, QueueKinds DEF Later
<1>3. pev[n][s] \in Place /\ cursor[s] \in 0 .. Len(chain) /\ start[n] \in 0 .. Len(chain)
      /\ hev[n] \in Place
  BY DEF TypeInv, TypeParts
<1>4. Len(chain) \in Nat /\ \A e \in Events : e \in Nat \ {0} /\ e \in Int
  BY EventFacts
<1>5. \A e \in Place : e \in Int
  BY <1>4 DEF Place, Checking
<1>6. \A e \in ToPush(n, s) : e \in Events
  BY <1>1, <1>2 DEF ToPush, ToSend
<1>7. /\ ToSend(n, s) \subseteq ToPush(n, s)
      /\ Later(n) \subseteq ToSend(n, s) /\ Elems(queue[s]) \subseteq ToPush(n, s)
  BY DEF ToPush, ToSend
<1> QED BY <1>3, <1>4, <1>5, <1>6, <1>7

\* Steps that move no event.
LEMMA OrderIdle ==
  ASSUME TypeInv, NEW n \in Nodes, InOrder(n),
         \/ UNCHANGED vars
         \/ Publish
         \/ \E m \in Nodes : \/ HandlerCheck(m) \/ Resume(m)
                             \/ \E t \in Subs : PusherCheck(m, t)
                             \/ \E q \in Queues : CleanCount(m, q)
  PROVE  InOrder(n)'
<1>1. /\ UNCHANGED << oldest, queue, cursor, todo, hsubs, start >>
      /\ dpc'[n] = "watch" => dpc[n] = "watch"
  BY DEF vars, Publish, HandlerCheck, PusherCheck, CleanCount, Resume, redis, dist, reading,
     handler, TypeInv, TypeParts
<1>2. hsubs[n] # {} => hev'[n] = hev[n]
  <2>1. CASE UNCHANGED hev
    BY <2>1
  <2>2. CASE \E m \in Nodes : HandlerCheck(m)
    <3>1. PICK m \in Nodes : hev[m] = Checking /\ hev' = [hev EXCEPT ![m] = 0]
      BY <2>2 DEF HandlerCheck
    <3>2. hsubs[m] = {}
      BY <3>1, EventFacts DEF TypeInv, Rest, Checking
    <3> QED BY <3>1, <3>2 DEF TypeInv, TypeParts
  <2> QED BY <2>1, <2>2 DEF vars, Publish, PusherCheck, CleanCount, Resume, handler
<1>3. \A s \in Subs : pev'[n][s] = pev[n][s] \/ (pev[n][s] = Checking /\ pev'[n][s] = 0)
  <2>1. CASE UNCHANGED pev
    BY <2>1
  <2>2. CASE \E m \in Nodes : \E t \in Subs : PusherCheck(m, t)
    <3>1. PICK m \in Nodes, t \in Subs : pev[m][t] = Checking /\ pev' = [pev EXCEPT ![m][t] = 0]
      BY <2>2 DEF PusherCheck
    <3> QED BY <3>1 DEF TypeInv, TypeParts
  <2> QED BY <2>1, <2>2 DEF vars, Publish, HandlerCheck, CleanCount, Resume
<1>4. Later(n)' = Later(n)
  BY <1>1 DEF Later
<1>5. ASSUME NEW s \in Subs PROVE OrderFor(n, s)' /\ StartFor(n, s)'
  <2>1. ToSend(n, s)' = ToSend(n, s)
    BY <1>1, <1>2, <1>4 DEF ToSend
  <2>2. ToPush(n, s)' = ToPush(n, s)
    BY <1>1, <2>1 DEF ToPush
  <2>3. OrderFor(n, s) /\ StartFor(n, s)
    BY DEF InOrder
  <2>4. OrderFor(n, s)'
    BY <1>1, <1>2, <1>3, <1>4, <2>1, <2>2, <2>3 DEF OrderFor, Checking
  <2>5. StartFor(n, s)'
    BY <1>1, <1>3, <2>2, <2>3, PlaceFacts DEF StartFor, Last, Checking
  <2> QED BY <2>4, <2>5
<1>6. (Increasing(oldest[n], todo[n]) /\ \A q \in Queues : Increasing(oldest[n], queue[q]))'
  BY <1>1 DEF InOrder, Increasing
<1> QED BY <1>1, <1>5, <1>6 DEF InOrder

\* A cursor that replaces the one kept is an older one.
LEMMA OrderReadCursor ==
  ASSUME TypeInv, NEW n \in Nodes, InOrder(n), NEW t \in Subs, ReadCursor(n, t)
  PROVE  InOrder(n)'
<1>1. UNCHANGED << queue, cursor, dpc, start, todo, hev, hsubs, pev >> /\ dpc[n] = "cursors"
  BY DEF ReadCursor, redis, handler
<1>2. oldest'[n] = oldest[n] \/ (oldest'[n] # 0 /\ (oldest[n] = 0 \/ oldest'[n] < oldest[n]))
  <2>1. CASE oldest'[n] = oldest[n]
    BY <2>1
  <2>2. CASE Older(cursor[t], oldest[n]) /\ oldest'[n] = cursor[t]
    <3>1. cursor[t] \in 0 .. Len(chain) /\ oldest[n] \in 0 .. Len(chain)
      BY DEF TypeInv, TypeParts
    <3>2. ASSUME oldest[n] # 0 PROVE cursor[t] < oldest[n]
      <4>1. cursor[t] \in Events /\ oldest[n] \in Events
        BY <2>2, <3>1, <3>2, EventFacts DEF Older
      <4>2. chain[cursor[t]] < chain[oldest[n]]
        BY <2>2, <3>2 DEF Older
      <4>3. oldest[n] <= cursor[t] => chain[oldest[n]] <= chain[cursor[t]]
        BY <4>1 DEF TypeInv, Rest
      <4>4. chain[cursor[t]] \in Nat /\ chain[oldest[n]] \in Nat /\ cursor[t] \in Nat
            /\ oldest[n] \in Nat
        BY <4>1, EventFacts
      <4> QED BY <4>2, <4>3, <4>4
    <3> QED BY <2>2, <3>2 DEF Older
  <2> QED BY <2>1, <2>2 DEF ReadCursor, TypeInv, TypeParts
<1>3. ASSUME NEW x \in Int, NEW y \in Nat, Behind(oldest[n], x, y)
      PROVE  Behind(oldest'[n], x, y)
  <2>1. oldest[n] \in Nat /\ oldest'[n] \in Nat
    <3>1. TypeInv' /\ oldest[n] \in 0 .. Len(chain)
      BY TypeReadCursor DEF TypeInv, TypeParts
    <3>2. oldest'[n] \in 0 .. Len(chain')
      BY <3>1 DEF TypeInv, TypeParts
    <3> QED BY <3>1, <3>2
  <2> QED BY <1>2, <1>3, <2>1 DEF Behind
<1>4. ASSUME NEW q \in Seq(Nat), Increasing(oldest[n], q) PROVE Increasing(oldest'[n], q)
  <2>1. \A i \in DOMAIN q : q[i] \in Nat /\ q[i] \in Int
    BY ElementOfSeq, LenProperties
  <2> QED BY <1>3, <1>4, <2>1 DEF Increasing
<1>5. ASSUME NEW s \in Subs PROVE OrderFor(n, s)' /\ StartFor(n, s)'
  <2>1. /\ Later(n)' = Later(n) /\ ToSend(n, s)' = ToSend(n, s) /\ ToPush(n, s)' = ToPush(n, s)
    BY <1>1 DEF Later, ToSend, ToPush
  <2>2. /\ ToPush(n, s) \subseteq Nat \ {0} /\ ToSend(n, s) \subseteq ToPush(n, s)
        /\ Later(n) \subseteq ToSend(n, s) /\ Elems(queue[s]) \subseteq ToPush(n, s)
        /\ pev[n][s] \in Int /\ cursor[s] \in Nat /\ hev[n] \in Int
    BY PlaceFacts
  <2>3. OrderFor(n, s)
    BY DEF InOrder
  <2>4. s \in hsubs[n] => \A j \in Later(n) : Behind(oldest'[n], hev[n], j)
    BY <1>3, <2>2, <2>3 DEF OrderFor
  <2>5. \A i \in Elems(queue[s]) : \A j \in ToSend(n, s) : Behind(oldest'[n], i, j)
    BY <1>3, <2>2, <2>3 DEF OrderFor
  <2>6. pev[n][s] > 0 => /\ Behind(oldest'[n], cursor[s], pev[n][s])
                         /\ \A j \in ToPush(n, s) : Behind(oldest'[n], pev[n][s], j)
    BY <1>3, <2>2, <2>3 DEF OrderFor
  <2>7. \A j \in ToPush(n, s) : Behind(oldest'[n], cursor[s], j)
    BY <1>3, <2>2, <2>3 DEF OrderFor
  <2> QED BY <1>1, <2>1, <2>4, <2>5, <2>6, <2>7 DEF OrderFor, StartFor
<1>6. Increasing(oldest'[n], todo[n]) /\ \A q \in Queues : Increasing(oldest'[n], queue[q])
  BY <1>4, TodoFacts, QueueFacts DEF InOrder
<1>7. \A i \in Elems(queue[Main]) : \A j \in Elems(todo[n]) : Behind(oldest'[n], i, j)
  <2>1. Elems(queue[Main]) \subseteq Events /\ Elems(todo[n]) \subseteq Events
    BY QueueFacts, QueueKinds, TodoFacts
  <2>2. \A e \in Events : e \in Nat /\ e \in Int
    BY EventFacts
  <2> QED BY <1>3, <2>1, <2>2 DEF InOrder
<1> QED BY <1>1, <1>5, <1>6, <1>7 DEF InOrder

\* The distributor starts behind the cursor it keeps, or else behind the whole chain.
LEMMA OrderStartWatch ==
  ASSUME TypeInv, NEW n \in Nodes, InOrder(n), StartWatch(n)
  PROVE  InOrder(n)'
<1>1. UNCHANGED << oldest, queue, cursor, todo, hev, hsubs, pev >>
  BY StartFacts
<1>2. \/ dpc'[n] # "watch"
      \/ start'[n] = IF oldest[n] # 0 THEN oldest[n] ELSE Len(chain)
  BY StartFacts DEF StartAt, TypeInv, TypeParts
<1>3. oldest[n] \in Nat /\ Len(chain) \in Nat
  BY EventFacts DEF TypeInv, TypeParts
<1>4. ASSUME NEW s \in Subs PROVE OrderFor(n, s)' /\ StartFor(n, s)'
  <2>1. /\ Later(n)' = Later(n) /\ ToSend(n, s)' = ToSend(n, s) /\ ToPush(n, s)' = ToPush(n, s)
    BY <1>1 DEF Later, ToSend, ToPush
  <2>2. OrderFor(n, s)'
    BY <1>1, <2>1 DEF InOrder, OrderFor
  <2>3. CASE oldest[n] = 0 /\ start'[n] = Len(chain)
    <3>1. cursor[s] <= Len(chain) /\ pev[n][s] <= Len(chain)
      <4>1. cursor[s] \in 0 .. Len(chain) /\ pev[n][s] \in Place
        BY DEF TypeInv, TypeParts
      <4> QED BY <1>3, <4>1, EventFacts DEF Place, Checking
    <3>2. \A j \in ToPush(n, s) : j <= Len(chain)
      <4>1. ToPush(n, s) \subseteq Events
        BY PlaceFacts
      <4> QED BY <4>1, EventFacts
    <3> QED BY <1>1, <2>1, <2>2, <2>3, <3>1, <3>2 DEF StartFor, Last
  <2>4. CASE oldest[n] # 0 /\ start'[n] = oldest[n]
    BY <1>1, <1>3, <2>2, <2>4 DEF StartFor
  <2>5. CASE dpc'[n] # "watch"
    BY <2>2, <2>5 DEF StartFor
  <2> QED BY <1>2, <2>3, <2>4, <2>5
<1>5. (Increasing(oldest[n], todo[n]) /\ \A q \in Queues : Increasing(oldest[n], queue[q]))'
  BY <1>1 DEF InOrder, Increasing
<1> QED BY <1>1, <1>4, <1>5 DEF InOrder

\* It reads events behind all others, or behind the cursor it keeps.
LEMMA OrderNodes ==
  ASSUME TypeInv, NEW n \in Nodes, InOrder(n),
         UNCHANGED << oldest, queue, cursor, start, hev, hsubs, pev >>, dpc[n] = "watch",
         dpc' = [dpc EXCEPT ![n] = "handle"],
         todo' = [todo EXCEPT ![n] = NodesFrom(start[n])], start[n] < Len(chain)
  PROVE  InOrder(n)'
<1>2. start[n] \in 0 .. Len(chain) /\ start[n] \in Nat /\ oldest[n] \in Nat
  BY EventFacts DEF TypeInv, TypeParts
<1>3. PICK k \in Nat \ {0} : /\ NodesFrom(start[n]) \in Seq(Nat) /\ Len(NodesFrom(start[n])) = k
                             /\ \A j \in 1 .. k : NodesFrom(start[n])[j] = start[n] + j
                             /\ Elems(NodesFrom(start[n])) = start[n] + 1 .. start[n] + k
  BY <1>2, NodesFacts
<1>4. /\ todo'[n] = NodesFrom(start[n]) /\ dpc'[n] = "handle"
      /\ todo[n] = << >> /\ Elems(todo[n]) = {}
  BY NoElems DEF TypeInv, TypeParts, Rest
<1>5. Increasing(oldest[n], todo[n])'
  <2>1. DOMAIN NodesFrom(start[n]) = 1 .. k
    BY <1>3, LenProperties
  <2>2. \A i, j \in 1 .. k : i < j => start[n] + i < start[n] + j
    BY <1>2
  <2> QED BY <1>3, <1>4, <2>1, <2>2 DEF Increasing, Behind
<1>6. \A j \in Elems(todo'[n]) : start[n] < j /\ j \in Nat
  BY <1>2, <1>3, <1>4
<1>7. ASSUME NEW s \in Subs
      PROVE  /\ \A i \in Elems(queue[Main]) : \A j \in Elems(todo'[n]) : Behind(oldest[n], i, j)
             /\ OrderFor(n, s)' /\ StartFor(n, s)'
  <2>1. OrderFor(n, s) /\ ((oldest[n] # 0 /\ oldest[n] <= start[n]) \/ Last(n, s))
    BY DEF InOrder, StartFor
  <2>2. /\ ToPush(n, s) \subseteq Nat \ {0} /\ ToSend(n, s) \subseteq ToPush(n, s)
        /\ Later(n) \subseteq ToPush(n, s) /\ Elems(queue[s]) \subseteq ToPush(n, s)
        /\ pev[n][s] \in Int /\ cursor[s] \in Nat
    BY PlaceFacts
  <2>3. /\ Later(n)' = Later(n) \cup Elems(todo'[n])
        /\ ToSend(n, s)' = ToSend(n, s) \cup Elems(todo'[n])
        /\ ToPush(n, s)' = ToPush(n, s) \cup Elems(todo'[n])
    BY <1>4 DEF Later, ToSend, ToPush
  <2>4. ASSUME NEW j \in Elems(todo'[n])
        PROVE  /\ \A i \in ToPush(n, s) : Behind(oldest[n], i, j)
               /\ Behind(oldest[n], cursor[s], j) /\ Behind(oldest[n], pev[n][s], j)
    <3>1. start[n] < j /\ j \in Nat
      BY <1>6
    <3>2. CASE oldest[n] # 0 /\ oldest[n] <= start[n]
      <4>1. oldest[n] < j
        BY <1>2, <3>1, <3>2
      <4> QED BY <3>2, <4>1 DEF Behind
    <3>3. CASE Last(n, s)
      <4>1. cursor[s] < j /\ pev[n][s] < j /\ \A i \in ToPush(n, s) : i < j
        BY <1>2, <2>2, <3>1, <3>3 DEF Last
      <4> QED BY <4>1 DEF Behind
    <3> QED BY <2>1, <3>2, <3>3
  <2>6. s \in hsubs[n] => hev[n] \in ToPush(n, s)
    BY DEF ToPush, ToSend
  <2>7. OrderFor(n, s)'
    BY <2>1, <2>2, <2>3, <2>4, <2>6 DEF OrderFor
  <2>8. \A i \in Elems(queue[Main]) : \A j \in Elems(todo'[n]) : Behind(oldest[n], i, j)
    <3>1. Elems(queue[Main]) \subseteq ToPush(n, s)
      BY DEF ToPush, ToSend, Later
    <3> QED BY <2>4, <3>1
  <2> QED BY <1>4, <2>7, <2>8 DEF StartFor
<1>8. \A q \in Queues : Increasing(oldest'[n], queue'[q])
  BY DEF InOrder
<1> QED BY <1>5, <1>7, <1>8, SubsAssumption DEF InOrder

\* A round of reading.
LEMMA OrderFetch ==
  ASSUME TypeInv, NEW n \in Nodes, InOrder(n), Fetch(n)
  PROVE  InOrder(n)'
<1>1. UNCHANGED << oldest, queue, cursor, start, hev, hsubs, pev >> /\ dpc[n] = "watch"
  BY DEF Fetch, redis, handler, reading
<1>2. CASE dpc' = [dpc EXCEPT ![n] = "idle"] /\ todo' = todo
  <2>1. dpc'[n] # "watch"
    BY <1>2 DEF TypeInv, TypeParts
  <2>2. ASSUME NEW s \in Subs PROVE OrderFor(n, s)' /\ StartFor(n, s)'
    <3>1. /\ Later(n)' = Later(n) /\ ToSend(n, s)' = ToSend(n, s)
          /\ ToPush(n, s)' = ToPush(n, s)
      BY <1>1, <1>2 DEF Later, ToSend, ToPush
    <3>2. OrderFor(n, s)'
      BY <1>1, <3>1 DEF InOrder, OrderFor
    <3> QED BY <2>1, <3>2 DEF StartFor
  <2>3. (Increasing(oldest[n], todo[n]) /\ \A q \in Queues : Increasing(oldest[n], queue[q]))'
    BY <1>1, <1>2 DEF InOrder, Increasing
  <2> QED BY <1>1, <1>2, <2>2, <2>3 DEF InOrder
<1>3. CASE /\ dpc' = [dpc EXCEPT ![n] = "handle"]
           /\ todo' = [todo EXCEPT ![n] = NodesFrom(start[n])] /\ start[n] < Len(chain)
  BY <1>1, <1>3, OrderNodes
<1> QED BY <1>2, <1>3 DEF Fetch
\* The event the distributor puts into the main queue comes before those it keeps.
LEMMA OrderHandleNext ==
  ASSUME TypeInv, NEW n \in Nodes, InOrder(n), HandleNext(n)
  PROVE  InOrder(n)'
<1>1. UNCHANGED << oldest, cursor, hev, hsubs, pev >> /\ dpc[n] = "handle"
  BY DEF HandleNext, handler, reading
<1> DEFINE h == Head(todo[n])
<1>2. /\ todo[n] \in Seq(Nat) /\ todo[n] # << >>
      /\ Elems(todo[n]) = {h} \cup Elems(Tail(todo[n])) /\ h \in Events /\ h \in Nat
      /\ Len(todo[n]) = 1 => Elems(Tail(todo[n])) = {}
      /\ Increasing(oldest[n], Tail(todo[n])) /\ \A x \in Elems(Tail(todo[n])) : Behind(oldest[n], h, x)
  <2>1. todo[n] \in Seq(Nat) /\ todo[n] # << >> /\ Increasing(oldest[n], todo[n])
    BY TodoFacts DEF HandleNext, InOrder
  <2> QED BY <2>1, PopElems, PopIncreasing, TodoFacts, EventFacts
<1>3. /\ todo'[n] = Tail(todo[n])
      /\ \/ Len(todo[n]) = 1 /\ start'[n] = h /\ dpc'[n] = "watch"
         \/ dpc'[n] = "handle"
  BY <1>1 DEF HandleNext, TypeInv, TypeParts
<1>4. /\ Elems(queue'[Main]) \subseteq Elems(queue[Main]) \cup {h}
      /\ \A q \in Queues : q # Main => queue'[q] = queue[q]
      /\ \A q \in Queues : Increasing(oldest[n], queue'[q])
  <2>1. CASE queue' = queue
    BY <2>1 DEF InOrder
  <2>2. CASE queue' = [queue EXCEPT ![Main] = Append(queue[Main], h)]
    <3>1. /\ Elems(queue'[Main]) = Elems(queue[Main]) \cup {h}
          /\ \A p \in Queues : p # Main => queue'[p] = queue[p]
      BY <1>2, <2>2, PutFacts, QueueKinds
    <3>2. Increasing(oldest[n], Append(queue[Main], h))
      <4>1. \A x \in Elems(queue[Main]) : Behind(oldest[n], x, h)
        BY <1>2 DEF InOrder
      <4> QED BY <1>2, <4>1, AppendIncreasing, QueueFacts, QueueKinds DEF InOrder
    <3>3. queue'[Main] = Append(queue[Main], h)
      BY <2>2, QueueKinds DEF TypeInv, TypeParts
    <3> QED BY <3>1, <3>2, <3>3 DEF InOrder
  <2> QED BY <2>1, <2>2 DEF HandleNext
<1> HIDE DEF h
<1>5. Later(n)' \subseteq Later(n) /\ h \in Later(n)
  BY <1>2, <1>3, <1>4 DEF Later
<1>6. \A i \in Elems(queue'[Main]) : \A j \in Elems(todo'[n]) : Behind(oldest[n], i, j)
  BY <1>2, <1>3, <1>4 DEF InOrder
<1>7. ASSUME NEW s \in Subs PROVE OrderFor(n, s)' /\ StartFor(n, s)'
  <2>1. OrderFor(n, s)
    BY DEF InOrder
  <2>2. queue'[s] = queue[s]
    BY <1>4, QueueKinds
  <2>3. ToSend(n, s)' \subseteq ToSend(n, s)
    BY <1>1, <1>5 DEF ToSend
  <2>4. ToPush(n, s)' \subseteq ToPush(n, s)
    BY <2>2, <2>3 DEF ToPush
  <2>5. OrderFor(n, s)'
    BY <1>1, <1>5, <2>1, <2>2, <2>3, <2>4 DEF OrderFor
  <2>6. CASE dpc'[n] = "handle"
    BY <2>5, <2>6 DEF StartFor
  <2>7. CASE Len(todo[n]) = 1 /\ start'[n] = h /\ dpc'[n] = "watch"
    <3>1. Elems(todo'[n]) = {}
      BY <1>2, <1>3, <2>7
    <3>2. h \in ToPush(n, s) /\ h \in ToSend(n, s)
      BY <1>5 DEF ToPush, ToSend
    <3>3. /\ Behind(oldest[n], cursor[s], h)
          /\ pev[n][s] > 0 => Behind(oldest[n], pev[n][s], h)
          /\ \A i \in Elems(queue[s]) : Behind(oldest[n], i, h)
          /\ s \in hsubs[n] => Behind(oldest[n], hev[n], h)
          /\ \A j \in Elems(queue[Main]) : Behind(oldest[n], j, h)
      BY <1>2, <1>5, <2>1, <3>2 DEF OrderFor, InOrder
    <3>4. CASE oldest[n] # 0 /\ oldest[n] < h
      <4>1. oldest[n] <= h
        BY <1>2, <3>4 DEF TypeInv, TypeParts
      <4> QED BY <1>1, <2>5, <2>7, <3>4, <4>1 DEF StartFor
    <3>5. CASE ~(oldest[n] # 0 /\ oldest[n] < h)
      <4>1. /\ cursor[s] < h
            /\ pev[n][s] > 0 => pev[n][s] < h
            /\ \A i \in Elems(queue[s]) : i < h
            /\ s \in hsubs[n] => hev[n] < h
            /\ \A j \in Elems(queue[Main]) : j < h
        BY <3>3, <3>5 DEF Behind
      <4>2. \A j \in ToPush(n, s)' : j < h \/ j = h
        <5>1. \A j \in Later(n)' : j < h \/ j = h
          BY <1>4, <3>1, <4>1 DEF Later
        <5>2. \A j \in ToSend(n, s)' : j < h \/ j = h
          BY <1>1, <4>1, <5>1 DEF ToSend
        <5> QED BY <2>2, <4>1, <5>2 DEF ToPush
      <4>3. /\ ToPush(n, s) \subseteq Nat \ {0} /\ pev[n][s] \in Int /\ cursor[s] \in Nat
        BY PlaceFacts
      <4>4. \A j \in ToPush(n, s)' : j <= h
        BY <1>2, <2>4, <4>2, <4>3
      <4>5. cursor[s] <= h /\ pev[n][s] <= h
        BY <1>2, <4>1, <4>3
      <4> QED BY <1>1, <2>5, <2>7, <4>4, <4>5 DEF StartFor, Last
    <3> QED BY <3>4, <3>5
  <2> QED BY <1>3, <2>5, <2>6, <2>7
<1>8. Increasing(oldest[n], todo[n])'
  BY <1>1, <1>2, <1>3 DEF Increasing
<1> QED BY <1>1, <1>4, <1>6, <1>7, <1>8 DEF InOrder

\* The event that is popped is the first of its queue.
LEMMA PopOrder ==
  ASSUME TypeInv, NEW m, NEW q \in Queues, Increasing(m, queue[q]), NEW ev, Pop(q, ev)
  PROVE  /\ Increasing(m, queue'[q]) /\ \A x \in Elems(queue'[q]) : Behind(m, ev, x)
         /\ \A p \in Queues : p # q => queue'[p] = queue[p]
         /\ Elems(queue[q]) = {ev} \cup Elems(queue'[q])
<1>1. /\ queue[q] # << >> /\ ev = Head(queue[q]) /\ queue[q] \in Seq(Nat)
      /\ queue' = [queue EXCEPT ![q] = Tail(queue[q])]
  BY PopFacts, QueueFacts
<1>2. queue'[q] = Tail(queue[q])
  BY <1>1 DEF TypeInv, TypeParts
<1>3. Increasing(m, Tail(queue[q])) /\ \A x \in Elems(Tail(queue[q])) : Behind(m, Head(queue[q]), x)
  BY <1>1, PopIncreasing
<1> QED BY <1>1, <1>2, <1>3, PopFacts

\* The handler takes the first event of the main queue.
LEMMA OrderPopEvent ==
  ASSUME TypeInv, NEW n \in Nodes, InOrder(n), PopEvent(n)
  PROVE  InOrder(n)'
<1>1. UNCHANGED << oldest, cursor, dpc, start, todo, pev >> /\ hsubs[n] = {}
  BY EventFacts DEF PopEvent, dist, reading, TypeInv, Rest
<1>2. PICK ev : /\ Pop(Main, ev)
                /\ \/ hev' = [hev EXCEPT ![n] = ev] /\ hsubs' = [hsubs EXCEPT ![n] = Subs]
                   \/ hev' = [hev EXCEPT ![n] = Checking] /\ hsubs' = hsubs
  BY DEF PopEvent
<1>3. /\ Increasing(oldest[n], queue'[Main]) /\ \A x \in Elems(queue'[Main]) : Behind(oldest[n], ev, x)
      /\ \A p \in Queues : p # Main => queue'[p] = queue[p]
      /\ Elems(queue[Main]) = {ev} \cup Elems(queue'[Main])
  BY <1>2, PopOrder, QueueKinds DEF InOrder
<1>4. /\ Later(n) = {ev} \cup Later(n)'
      /\ \A j \in Later(n)' : Behind(oldest[n], ev, j)
  BY <1>1, <1>3 DEF Later, InOrder
<1>5. hsubs'[n] = {} \/ (hsubs'[n] = Subs /\ hev'[n] = ev)
  BY <1>1, <1>2 DEF TypeInv, TypeParts
<1>6. ASSUME NEW s \in Subs PROVE OrderFor(n, s)' /\ StartFor(n, s)'
  <2>1. OrderFor(n, s) /\ StartFor(n, s)
    BY DEF InOrder
  <2>2. ToSend(n, s) = Later(n)
    BY <1>1 DEF ToSend
  <2>3. ToSend(n, s)' \subseteq ToSend(n, s)
    BY <1>4, <1>5, <2>2 DEF ToSend
  <2>4. queue'[s] = queue[s]
    BY <1>3, QueueKinds
  <2>5. ToPush(n, s)' \subseteq ToPush(n, s)
    BY <2>3, <2>4 DEF ToPush
  <2>6. s \in hsubs'[n] => \A j \in Later(n)' : Behind(oldest[n], hev'[n], j)
    BY <1>4, <1>5
  <2>7. OrderFor(n, s)'
    BY <1>1, <2>1, <2>3, <2>4, <2>5, <2>6 DEF OrderFor
  <2> QED BY <1>1, <2>1, <2>5, <2>7 DEF StartFor, Last
<1>7. (Increasing(oldest[n], todo[n]) /\ \A q \in Queues : Increasing(oldest[n], queue[q]))'
  BY <1>1, <1>3 DEF InOrder, Increasing
<1>8. \A i \in Elems(queue'[Main]) : \A j \in Elems(todo'[n]) : Behind(oldest[n], i, j)
  BY <1>1, <1>3 DEF InOrder
<1> QED BY <1>1, <1>6, <1>7, <1>8 DEF InOrder

\* It sends it to the end of a subscriber's queue.
LEMMA OrderSendToPusher ==
  ASSUME TypeInv, NEW n \in Nodes, InOrder(n), SendToPusher(n)
  PROVE  InOrder(n)'
<1>1. UNCHANGED << oldest, cursor, dpc, start, todo, pev >> /\ hsubs[n] # {}
  BY DEF SendToPusher, dist, reading
<1>2. PICK t \in hsubs[n] :
        /\ queue' = [queue EXCEPT ![t] = Append(queue[t], hev[n])] \/ queue' = queue
        /\ hsubs' = [hsubs EXCEPT ![n] = hsubs[n] \ {t}]
  BY DEF SendToPusher
<1>3. hev[n] \in Events /\ hev[n] \in Nat /\ t \in Subs /\ t \in Queues /\ t # Main
  BY <1>1, QueueKinds, EventFacts DEF TypeInv, TypeParts, Rest
<1>4. /\ hsubs'[n] = hsubs[n] \ {t}
      /\ hsubs'[n] # {} => hev'[n] = hev[n]
  BY <1>2 DEF SendToPusher, TypeInv, TypeParts
<1>5. /\ Elems(queue'[t]) \subseteq Elems(queue[t]) \cup {hev[n]}
      /\ \A q \in Queues : q # t => queue'[q] = queue[q]
      /\ \A q \in Queues : Increasing(oldest[n], queue'[q])
  <2>1. CASE queue' = queue
    BY <2>1 DEF InOrder
  <2>2. CASE queue' = [queue EXCEPT ![t] = Append(queue[t], hev[n])]
    <3>1. /\ Elems(queue'[t]) = Elems(queue[t]) \cup {hev[n]}
          /\ \A p \in Queues : p # t => queue'[p] = queue[p]
      BY <1>3, <2>2, PutFacts
    <3>2. Increasing(oldest[n], Append(queue[t], hev[n]))
      <4>1. hev[n] \in ToSend(n, t)
        BY DEF ToSend
      <4>2. \A x \in Elems(queue[t]) : Behind(oldest[n], x, hev[n])
        BY <1>3, <4>1 DEF InOrder, OrderFor
      <4> QED BY <1>3, <4>2, AppendIncreasing, QueueFacts DEF InOrder
    <3>3. queue'[t] = Append(queue[t], hev[n])
      BY <1>3, <2>2 DEF TypeInv, TypeParts
    <3> QED BY <3>1, <3>2, <3>3 DEF InOrder
  <2> QED BY <1>2, <2>1, <2>2
<1>6. Later(n)' = Later(n)
  BY <1>1, <1>3, <1>5, QueueKinds DEF Later
<1>7. ASSUME NEW s \in Subs PROVE OrderFor(n, s)' /\ StartFor(n, s)'
  <2>1. OrderFor(n, s) /\ StartFor(n, s)
    BY DEF InOrder
  <2>2. ToSend(n, s)' \subseteq ToSend(n, s)
    BY <1>4, <1>6 DEF ToSend
  <2>3. /\ ToPush(n, s)' \subseteq ToPush(n, s)
        /\ \A i \in Elems(queue'[s]) : \A j \in ToSend(n, s)' : Behind(oldest[n], i, j)
    <3>1. CASE s = t
      <4>1. ToSend(n, s)' = Later(n)
        BY <1>4, <1>6, <3>1 DEF ToSend
      <4>2. Elems(queue'[s]) \subseteq Elems(queue[s]) \cup {hev[n]} /\ s \in hsubs[n]
        BY <1>5, <3>1
      <4>3. Later(n) \subseteq ToSend(n, s) /\ hev[n] \in ToSend(n, s)
        BY <4>2 DEF ToSend
      <4>4. \A i \in Elems(queue'[s]) : \A j \in Later(n) : Behind(oldest[n], i, j)
        BY <2>1, <4>2, <4>3 DEF OrderFor
      <4> QED BY <4>1, <4>2, <4>3, <4>4 DEF ToPush
    <3>2. CASE s # t
      <4>1. queue'[s] = queue[s]
        BY <1>5, <3>2, QueueKinds
      <4> QED BY <2>1, <2>2, <4>1 DEF ToPush, OrderFor
    <3> QED BY <3>1, <3>2
  <2>4. s \in hsubs'[n] => \A j \in Later(n)' : Behind(oldest[n], hev'[n], j)
    BY <1>4, <1>6, <2>1 DEF OrderFor
  <2>5. OrderFor(n, s)'
    BY <1>1, <2>1, <2>3, <2>4 DEF OrderFor
  <2> QED BY <1>1, <2>1, <2>3, <2>5 DEF StartFor, Last
<1>8. Increasing(oldest[n], todo[n])'
  BY <1>1 DEF InOrder, Increasing
<1>9. \A i \in Elems(queue'[Main]) : \A j \in Elems(todo'[n]) : Behind(oldest[n], i, j)
  BY <1>1, <1>3, <1>5, QueueKinds DEF InOrder
<1> QED BY <1>1, <1>5, <1>7, <1>8, <1>9 DEF InOrder

\* The pusher takes the first event of its queue, and stores its cursor.
LEMMA OrderPusher ==
  ASSUME TypeInv, NEW n \in Nodes, InOrder(n), NEW t \in Subs, PopDist(n, t) \/ Push(n, t)
  PROVE  InOrder(n)'
<1>1. UNCHANGED << oldest, dpc, start, todo, hev, hsubs >>
  BY DEF PopDist, Push, dist, reading, handler
<1>2. t \in Queues /\ t # Main /\ \A s \in Subs : s \in Queues
  BY QueueKinds
<1>3. Increasing(oldest[n], todo[n])'
  BY <1>1 DEF InOrder, Increasing
<1>4. CASE PopDist(n, t)
  <2>1. PICK ev : Pop(t, ev) /\ \/ pev' = [pev EXCEPT ![n][t] = ev]
                                \/ pev' = [pev EXCEPT ![n][t] = Checking]
    BY <1>4 DEF PopDist
  <2>2. cursor' = cursor
    BY <1>4 DEF PopDist
  <2>3. /\ Increasing(oldest[n], queue'[t]) /\ \A x \in Elems(queue'[t]) : Behind(oldest[n], ev, x)
        /\ \A p \in Queues : p # t => queue'[p] = queue[p]
        /\ Elems(queue[t]) = {ev} \cup Elems(queue'[t])
    BY <1>2, <2>1, PopOrder DEF InOrder
  <2>4. Later(n)' = Later(n) /\ \A s \in Subs : ToSend(n, s)' = ToSend(n, s)
    BY <1>1, <1>2, <2>3, QueueKinds DEF Later, ToSend
  <2>5. /\ pev'[n][t] = ev \/ pev'[n][t] = Checking
        /\ \A s \in Subs : s # t => pev'[n][s] = pev[n][s]
    <3>1. CASE pev' = [pev EXCEPT ![n][t] = ev]
      BY <3>1 DEF TypeInv, TypeParts
    <3>2. CASE pev' = [pev EXCEPT ![n][t] = Checking]
      BY <3>2 DEF TypeInv, TypeParts
    <3> QED BY <2>1, <3>1, <3>2
  <2>6. ASSUME NEW s \in Subs PROVE OrderFor(n, s)' /\ StartFor(n, s)'
    <3>1. OrderFor(n, s) /\ StartFor(n, s)
      BY DEF InOrder
    <3>2. CASE s = t
      <4>1. ToPush(n, s) = {ev} \cup ToPush(n, s)'
        BY <2>3, <2>4, <3>2 DEF ToPush
      <4>2. \A j \in ToPush(n, s)' : Behind(oldest[n], ev, j)
        <5>1. ev \in Elems(queue[s])
          BY <2>3, <3>2
        <5>2. \A j \in ToSend(n, s) : Behind(oldest[n], ev, j)
          BY <3>1, <5>1 DEF OrderFor
        <5> QED BY <2>3, <2>4, <3>2, <5>2 DEF ToPush
      <4>3. OrderFor(n, s)'
        BY <1>1, <2>2, <2>3, <2>4, <2>5, <3>1, <3>2, <4>1, <4>2 DEF OrderFor, Checking
      <4>4. StartFor(n, s)'
        BY <1>1, <2>2, <2>5, <3>1, <3>2, <4>1, PlaceFacts DEF StartFor, Last, Checking
      <4> QED BY <4>3, <4>4
    <3>3. CASE s # t
      <4>1. queue'[s] = queue[s] /\ pev'[n][s] = pev[n][s]
        BY <1>2, <2>3, <2>5, <3>3
      <4>2. ToPush(n, s)' = ToPush(n, s)
        BY <2>4, <4>1 DEF ToPush
      <4> QED BY <1>1, <2>2, <2>4, <3>1, <4>1, <4>2 DEF OrderFor, StartFor, Last
    <3> QED BY <3>2, <3>3
  <2>7. \A q \in Queues : Increasing(oldest[n], queue'[q])
    BY <2>3 DEF InOrder
  <2>8. \A i \in Elems(queue'[Main]) : \A j \in Elems(todo'[n]) : Behind(oldest[n], i, j)
    BY <1>1, <1>2, <2>3, QueueKinds DEF InOrder
  <2> QED BY <1>1, <1>3, <2>6, <2>7, <2>8 DEF InOrder
<1>5. CASE Push(n, t)
  <2>1. /\ queue' = queue /\ pev' = [pev EXCEPT ![n][t] = Checking] /\ pev[n][t] > 0
        /\ cursor' = cursor \/ cursor' = [cursor EXCEPT ![t] = pev[n][t]]
    BY <1>5 DEF Push
  <2>2. /\ Later(n)' = Later(n)
        /\ \A s \in Subs : ToSend(n, s)' = ToSend(n, s) /\ ToPush(n, s)' = ToPush(n, s)
    BY <1>1, <2>1 DEF Later, ToSend, ToPush
  <2>3. /\ pev'[n][t] = Checking /\ \A s \in Subs : s # t => pev'[n][s] = pev[n][s]
        /\ cursor'[t] = cursor[t] \/ cursor'[t] = pev[n][t]
        /\ \A s \in Subs : s # t => cursor'[s] = cursor[s]
    BY <2>1 DEF TypeInv, TypeParts
  <2>4. ASSUME NEW s \in Subs PROVE OrderFor(n, s)' /\ StartFor(n, s)'
    <3>1. OrderFor(n, s) /\ StartFor(n, s)
      BY DEF InOrder
    <3>2. CASE s = t
      <4>1. OrderFor(n, s)'
        BY <1>1, <2>1, <2>2, <2>3, <3>1, <3>2 DEF OrderFor, Checking
      <4>2. StartFor(n, s)'
        BY <1>1, <2>1, <2>2, <2>3, <3>1, <3>2, PlaceFacts DEF StartFor, Last, Checking
      <4> QED BY <4>1, <4>2
    <3>3. CASE s # t
      BY <1>1, <2>1, <2>2, <2>3, <3>1, <3>3 DEF OrderFor, StartFor, Last
    <3> QED BY <3>2, <3>3
  <2> QED BY <1>1, <1>3, <2>1, <2>4 DEF InOrder
<1> QED BY <1>4, <1>5

\* Cleaners keep the order of what they leave.
LEMMA OrderClean ==
  ASSUME TypeInv, NEW n \in Nodes, InOrder(n), NEW m \in Nodes, NEW q \in Queues,
         CleanTrim(m, q) \/ CleanDel(m, q)
  PROVE  InOrder(n)'
<1>1. UNCHANGED << oldest, cursor, dpc, start, todo, hev, hsubs, pev >>
  BY DEF CleanTrim, CleanDel, dist, reading, handler
<1>2. \A p \in Queues : Elems(queue'[p]) \subseteq Elems(queue[p])
  BY CleanShrinks
<1>3. \A p \in Queues : Increasing(oldest[n], queue'[p])
  <2>1. CASE CleanTrim(m, q)
    <3>1. PICK cut \in 0 .. Len(queue[q]) :
            queue' = [queue EXCEPT ![q] = SubSeq(queue[q], cut + 1, Len(queue[q]))]
      BY <2>1, TrimFacts
    <3>2. Increasing(oldest[n], SubSeq(queue[q], cut + 1, Len(queue[q])))
      BY CutIncreasing, QueueFacts DEF InOrder
    <3> QED BY <3>1, <3>2 DEF InOrder, TypeInv, TypeParts
  <2>2. CASE CleanDel(m, q)
    <3>1. queue' = [queue EXCEPT ![q] = << >>]
      BY <2>2 DEF CleanDel
    <3> QED BY <3>1, EmptyIncreasing DEF InOrder, TypeInv, TypeParts
  <2> QED BY <2>1, <2>2
<1>4. Later(n)' \subseteq Later(n)
  BY <1>1, <1>2, QueueKinds DEF Later
<1>5. ASSUME NEW s \in Subs PROVE OrderFor(n, s)' /\ StartFor(n, s)'
  <2>1. OrderFor(n, s) /\ StartFor(n, s)
    BY DEF InOrder
  <2>2. Elems(queue'[s]) \subseteq Elems(queue[s])
    BY <1>2, QueueKinds
  <2>3. ToSend(n, s)' \subseteq ToSend(n, s)
    BY <1>1, <1>4 DEF ToSend
  <2>4. ToPush(n, s)' \subseteq ToPush(n, s)
    BY <2>2, <2>3 DEF ToPush
  <2> QED BY <1>1, <1>4, <2>1, <2>2, <2>3, <2>4 DEF OrderFor, StartFor, Last
<1>6. \A i \in Elems(queue'[Main]) : \A j \in Elems(todo'[n]) : Behind(oldest[n], i, j)
  BY <1>1, <1>2, QueueKinds DEF InOrder
<1>7. Increasing(oldest[n], todo[n])'
  BY <1>1 DEF InOrder, Increasing
<1> QED BY <1>1, <1>3, <1>5, <1>6, <1>7 DEF InOrder

\* While one instance stays the master and does not crash, every step keeps the order.
LEMMA OrderStep == OrderInv /\ [Next]_vars => OrderInv'
<1> SUFFICES ASSUME OrderInv, [Next]_vars PROVE OrderInv'
  OBVIOUS
<1>1. TypeInv /\ Single
  BY DEF OrderInv
<1>2. TypeInv' /\ Single'
  BY <1>1, TypeStep, SingleStep
<1>3. ASSUME crashes' + flips' = 0, NEW m \in isMaster'
      PROVE  InOrder(m)'
  <2>1. /\ crashes = 0 /\ flips = 0
        /\ ~ \E n \in Nodes : ViewChange(n) \/ Crash(n)
    <3>1. crashes \in Nat /\ flips \in Nat /\ crashes' \in Nat /\ flips' \in Nat
      BY <1>1, <1>2 DEF TypeInv, TypeParts
    <3>2. crashes' >= crashes /\ flips' >= flips
      BY <1>1, BoundedStep
    <3>3. \A c, f \in Nat : c + f = 0 => c = 0 /\ f = 0
      OBVIOUS
    <3>4. crashes' + flips' = 0
      BY <1>3
    <3>5. crashes' = 0 /\ flips' = 0
      BY <3>1, <3>3, <3>4, Zenon
    <3>6. crashes = 0 /\ flips = 0
      BY <3>1, <3>2, <3>5
    <3> QED BY <3>5, <3>6 DEF ViewChange, Crash
  <2>2. isMaster' = isMaster
    <3>1. CASE UNCHANGED vars \/ Publish
      BY <3>1 DEF vars, Publish
    <3>2. ASSUME NEW n \in Nodes, NodeStep(n) PROVE isMaster' = isMaster
      BY <3>2 DEF NodeStep, Resume, ReadCursor, StartWatch, Fetch, HandleNext, HandlerCheck,
         PopEvent, SendToPusher, PusherCheck, PopDist, Push
    <3>3. ASSUME NEW n \in Nodes, NEW q \in Queues,
                 CleanCount(n, q) \/ CleanTrim(n, q) \/ CleanDel(n, q)
          PROVE  isMaster' = isMaster
      BY <3>3 DEF CleanCount, CleanTrim, CleanDel
    <3> QED BY <2>1, <3>1, <3>2, <3>3 DEF Next
  <2>3. m \in isMaster /\ m \in Nodes /\ InOrder(m)
    BY <1>1, <1>3, <2>1, <2>2 DEF OrderInv, TypeInv, TypeParts
  <2>4. ASSUME NEW n \in Nodes, NodeStep(n) PROVE n = m
    <3>1. SUFFICES ASSUME n # m PROVE FALSE
      OBVIOUS
    <3>2. /\ n \notin isMaster /\ dpc[n] = "idle" /\ hev[n] = Checking /\ hsubs[n] = {}
          /\ \A s \in Subs : pev[n][s] = Checking
      BY <1>1, <2>1, <2>3, <3>1, EventFacts DEF Single, TypeInv, Rest, Checking
    <3>3. /\ ~Resume(n) /\ ~StartWatch(n) /\ ~Fetch(n) /\ ~HandleNext(n) /\ ~HandlerCheck(n)
          /\ \A s \in Subs : ~ReadCursor(n, s)
      BY <3>2 DEF Resume, ReadCursor, StartWatch, Fetch, HandleNext, HandlerCheck
    <3>4. ~PopEvent(n) /\ ~SendToPusher(n)
      BY <3>2 DEF PopEvent, SendToPusher, Checking
    <3>5. ASSUME NEW s \in Subs PROVE ~PusherCheck(n, s) /\ ~PopDist(n, s) /\ ~Push(n, s)
      BY <3>2 DEF PusherCheck, PopDist, Push, Checking
    <3> QED BY <2>4, <3>3, <3>4, <3>5 DEF NodeStep
  <2>5. CASE UNCHANGED vars \/ Publish
    BY <1>1, <2>3, <2>5, OrderIdle
  <2>6. ASSUME NodeStep(m) PROVE InOrder(m)'
    BY <1>1, <2>3, <2>6, OrderIdle, OrderReadCursor, OrderStartWatch, OrderFetch, OrderHandleNext,
       OrderPopEvent, OrderSendToPusher, OrderPusher DEF NodeStep
  <2>7. ASSUME NEW n \in Nodes, NEW q \in Queues,
               CleanCount(n, q) \/ CleanTrim(n, q) \/ CleanDel(n, q)
        PROVE  InOrder(m)'
    BY <1>1, <2>3, <2>7, OrderIdle, OrderClean
  <2> QED BY <2>1, <2>4, <2>5, <2>6, <2>7 DEF Next
<1> QED BY <1>2, <1>3 DEF OrderInv

\* Initially no event is on its way.
LEMMA OrderInit == Init => OrderInv
<1> SUFFICES ASSUME Init PROVE OrderInv
  OBVIOUS
<1>1. TypeInv /\ Single
  BY DistInit DEF DistInv
<1>2. ASSUME NEW n \in isMaster PROVE InOrder(n)
  <2>1. n \in Nodes /\ todo[n] = << >> /\ hsubs[n] = {} /\ dpc[n] = "idle"
        /\ (\A q \in Queues : queue[q] = << >>)
        /\ \A s \in Subs : cursor[s] = 0 /\ pev[n][s] = Checking
    BY <1>2 DEF Init
  <2>2. ASSUME NEW s \in Subs PROVE ToPush(n, s) = {} /\ ToSend(n, s) = {} /\ Later(n) = {}
    BY <2>1, NoElems, QueueKinds DEF ToPush, ToSend, Later
  <2>3. ASSUME NEW s \in Subs PROVE OrderFor(n, s) /\ StartFor(n, s)
    BY <2>1, <2>2, <2>3, NoElems, QueueKinds DEF OrderFor, StartFor, Checking
  <2> QED BY <2>1, <2>3, EmptyIncreasing, NoElems, QueueKinds DEF InOrder
<1> QED BY <1>1, <1>2 DEF OrderInv

\* Failures and cleaning lose events but do not reorder them: the stored cursor of a
\* subscriber moves forward, or to an event behind the cursor from which the
\* distributor resumed.
THEOREM NeverReordered == Spec => CursorForward
<1>1. ASSUME OrderInv, [Next]_vars
      PROVE  [crashes' + flips' = 0 => \A s \in Subs :
                \/ cursor'[s] >= cursor[s]
                \/ \E n \in Nodes : oldest[n] # 0 /\ cursor'[s] > oldest[n]]_vars
  <2> SUFFICES ASSUME Next, crashes' + flips' = 0, NEW s \in Subs
               PROVE  \/ cursor'[s] >= cursor[s]
                      \/ \E n \in Nodes : oldest[n] # 0 /\ cursor'[s] > oldest[n]
    BY <1>1
  <2>1. TypeInv /\ Single /\ cursor[s] \in Nat
    BY <1>1, EventFacts DEF OrderInv, TypeInv, TypeParts
  <2>2. CASE cursor' = cursor
    BY <2>1, <2>2
  <2>3. ASSUME NEW n \in Nodes, NEW t \in Subs, Push(n, t)
        PROVE  cursor'[s] >= cursor[s] \/ (oldest[n] # 0 /\ cursor'[s] > oldest[n])
    <3>1. crashes = 0 /\ flips = 0
      <4>1. crashes' = crashes /\ flips' = flips
        BY <2>3 DEF Push
      <4> QED BY <2>1, <4>1 DEF TypeInv, TypeParts
    <3>2. n \in isMaster
      BY <2>1, <2>3, <3>1 DEF Single, Push, Checking
    <3>3. OrderFor(n, t) /\ pev[n][t] > 0 /\ pev[n][t] \in Int
      BY <1>1, <2>1, <2>3, <3>1, <3>2, PlaceFacts DEF OrderInv, InOrder, Push
    <3>4. cursor'[s] = cursor[s] \/ (s = t /\ cursor'[s] = pev[n][t])
      BY <2>1, <2>3 DEF Push, TypeInv, TypeParts
    <3>5. Behind(oldest[n], cursor[t], pev[n][t]) /\ oldest[n] \in Nat
      BY <2>1, <3>3 DEF OrderFor, TypeInv, TypeParts
    <3> QED BY <2>1, <3>3, <3>4, <3>5 DEF Behind
  <2>4. CASE Publish
    BY <2>2, <2>4 DEF Publish, redis
  <2>5. ASSUME NEW n \in Nodes,
               \/ Resume(n) \/ StartWatch(n) \/ Fetch(n) \/ HandleNext(n)
               \/ HandlerCheck(n) \/ PopEvent(n) \/ SendToPusher(n)
               \/ \E t \in Subs : ReadCursor(n, t) \/ PusherCheck(n, t) \/ PopDist(n, t)
               \/ \E q \in Queues : CleanCount(n, q) \/ CleanTrim(n, q) \/ CleanDel(n, q)
               \/ ViewChange(n) \/ Crash(n)
        PROVE  cursor' = cursor
    BY <2>5 DEF Resume, ReadCursor, StartWatch, Fetch, HandleNext, HandlerCheck, PopEvent, SendToPusher,
       PusherCheck, PopDist, CleanCount, CleanTrim, CleanDel, ViewChange, Crash, redis
  <2> QED BY <1>1, <2>2, <2>3, <2>4, <2>5 DEF Next, NodeStep
<1> QED BY <1>1, OrderInit, OrderStep, PTL DEF Spec, CursorForward
=============================================================================
