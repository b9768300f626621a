---------------------------- MODULE EventWatchProofs ----------------------------
(***************************************************************************)
(* Proofs about the watch API.  Each state of a request has a node up to   *)
(* which everything owed to the client is among its events or is late; the *)
(* steps of the request only move that node on.                            *)
(***************************************************************************)
EXTENDS EventWatch, SharedLemmas

Node == [time : 1 .. MaxTime, hit : BOOLEAN]

\* The times of the chain do not decrease, which makes what is expired a beginning
\* of it, and what is later than a time an end.
Ordered ==
    /\ \A i, j \in DOMAIN chain : i <= j => chain[i].time <= chain[j].time
    /\ \A i \in DOMAIN chain : chain[i].time <= now
TypeInv ==
    /\ TypeOK /\ Ordered
    /\ pc \in {"sinceList", "listFirst"} => at # 0

\* Nothing is owed to the client up to node k but what it got and what is late.
Done(k) == \A i \in 1 .. k : Owed(i) => i \in seen \cup late

\* How far a request has come.
Progress ==
    /\ Done(pos)
    /\ pos # 0 => pc \in {"idle", "find", "token", "list", "poll"}
    /\ pc \in {"sinceList", "listFirst"} => Done(at - 1)
    /\ pc = "since" => upto # 0
    /\ pc \in {"list", "poll"} => Done(at) /\ at >= pos
    /\ pc = "poll" => Done(upto)
    /\ pc = "token" => IF pos = 0 THEN Done(upto) ELSE pos \in Expired
WatchInv == TypeInv /\ Progress

-----------------------------------------------------------------------------
(* The chain and its searches.                                             *)

\* A beginning of the numbers is as long as its cardinality says.
LEMMA Beginning ==
  ASSUME NEW n \in Nat, NEW S \in SUBSET (1 .. n), \A i \in S : \A j \in 1 .. n : j <= i => j \in S
  PROVE  S = 1 .. Cardinality(S) /\ Cardinality(S) \in 0 .. n
<1>1. CASE S = {}
  BY <1>1, FS_EmptySet
<1>2. CASE S # {}
  <2>1. PICK m \in S : \A k \in S : k <= m
    <3>1. S \in SUBSET (0 .. n)
      OBVIOUS
    <3> QED BY <1>2, <3>1, MaxExists
  <2>2. S = 1 .. m /\ m \in 1 .. n
    <3>1. m \in 1 .. n /\ \A j \in S : j \in 1 .. m
      BY <2>1
    <3>2. \A j \in 1 .. m : j \in S
      <4> SUFFICES ASSUME NEW j \in 1 .. m PROVE j \in S
        OBVIOUS
      <4>1. j \in 1 .. n /\ j <= m
        BY <3>1
      <4> QED BY <2>1, <4>1
    <3> QED BY <3>1, <3>2
  <2>3. Cardinality(1 .. m) = m
    BY <2>2, FS_Interval
  <2> QED BY <2>2, <2>3
<1> QED BY <1>1, <1>2

\* The chain is finite, and reads see a beginning of it.
LEMMA ChainFacts ==
  ASSUME TypeInv
  PROVE  /\ Len(chain) \in Nat /\ DOMAIN chain = 1 .. Len(chain)
         /\ \A i \in DOMAIN chain : chain[i] \in Node /\ chain[i].time \in 1 .. MaxTime
         /\ Visible \subseteq 0 .. Len(chain)
         /\ \A v \in Visible : LiveUpTo(v) \subseteq 1 .. v
<1>1. Len(chain) \in Nat /\ DOMAIN chain = 1 .. Len(chain)
  BY LenProperties DEF TypeInv, TypeOK
<1>2. \A i \in DOMAIN chain : chain[i] \in Node
  BY <1>1, ElementOfSeq DEF TypeInv, TypeOK, Node
<1> QED BY <1>1, <1>2 DEF Node, Visible, LiveUpTo

\* What is expired is a beginning of the chain; a read of all of it finds the rest.
LEMMA ExpiredFacts ==
  ASSUME TypeInv
  PROVE  /\ Expired = 1 .. Cardinality(Expired)
         /\ Cardinality(Expired) \in 0 .. Len(chain)
         /\ \A i \in 1 .. Len(chain) : i \in LiveUpTo(Len(chain)) <=> i > Cardinality(Expired)
<1>1. TTL \in Nat /\ now \in Int
  BY BoundsAssumption DEF TypeInv, TypeOK
<1>2. Expired \in SUBSET (1 .. Len(chain))
  BY ChainFacts DEF Expired
<1>3. ASSUME NEW i \in Expired, NEW j \in 1 .. Len(chain), j <= i
      PROVE  j \in Expired
  <2>1. i \in DOMAIN chain /\ j \in DOMAIN chain /\ ~Live(i)
    BY <1>3, ChainFacts DEF Expired
  <2>2. chain[j].time <= chain[i].time /\ chain[i].time \in Int /\ chain[j].time \in Int
    BY <1>3, <2>1, ChainFacts DEF TypeInv, Ordered
  <2> QED BY <1>1, <2>1, <2>2 DEF Expired, Live
<1>4. Expired = 1 .. Cardinality(Expired) /\ Cardinality(Expired) \in 0 .. Len(chain)
  BY <1>2, <1>3, Beginning, ChainFacts
<1>5. \A i \in 1 .. Len(chain) : i \in LiveUpTo(Len(chain)) <=> i \notin Expired
  BY ChainFacts DEF LiveUpTo, Expired
<1> QED BY <1>4, <1>5

\* So are the nodes up to a time.
LEMMA EarlierFacts ==
  ASSUME TypeInv, NEW t \in Int
  PROVE  LET E == {i \in DOMAIN chain : chain[i].time <= t}
         IN  E = 1 .. Cardinality(E) /\ Cardinality(E) \in 0 .. Len(chain)
<1> DEFINE E == {i \in DOMAIN chain : chain[i].time <= t}
<1>1. E \in SUBSET (1 .. Len(chain))
  BY ChainFacts
<1>2. ASSUME NEW i \in E, NEW j \in 1 .. Len(chain), j <= i
      PROVE  j \in E
  <2>1. i \in DOMAIN chain /\ j \in DOMAIN chain /\ chain[i].time <= t
    BY <1>2, ChainFacts
  <2>2. chain[j].time <= chain[i].time /\ chain[i].time \in Int /\ chain[j].time \in Int
    BY <1>2, <2>1, ChainFacts DEF TypeInv, Ordered
  <2> QED BY <2>1, <2>2
<1> HIDE DEF E
<1>3. E = 1 .. Cardinality(E) /\ Cardinality(E) \in 0 .. Len(chain)
  BY <1>1, <1>2, Beginning, ChainFacts
<1> QED BY <1>3 DEF E

\* The least and the greatest of some nodes.
LEMMA Extremes ==
  ASSUME TypeInv, NEW S \in SUBSET (1 .. Len(chain)), S # {}
  PROVE  /\ Least(S) \in S /\ \A j \in S : Least(S) <= j
         /\ Greatest(S) \in S /\ \A j \in S : j <= Greatest(S)
<1>1. S \in SUBSET Nat /\ S \in SUBSET (0 .. Len(chain)) /\ Len(chain) \in Nat
  BY ChainFacts
<1>2. \E m \in S : \A j \in S : m <= j
  BY <1>1, MinExists
<1>3. \E m \in S : \A j \in S : j <= m
  BY <1>1, MaxExists
<1> QED BY <1>2, <1>3 DEF Least, Greatest

\* The limit of a search takes the first of what it finds, and something if there is any.
LEMMA FollowingFacts ==
  ASSUME TypeInv, NEW k \in 0 .. Len(chain), NEW v \in 0 .. Len(chain)
  PROVE  /\ Following(k, v) \subseteq Hits(k + 1 .. v)
         /\ Hits(k + 1 .. v) \subseteq 1 .. Len(chain)
         /\ \A j \in Following(k, v) : \A i \in Hits(k + 1 .. v) : i <= j => i \in Following(k, v)
         /\ Following(k, v) = {} => Hits(k + 1 .. v) = {}
<1> DEFINE H == Hits(k + 1 .. v)
           Less(i) == {j \in H : j < i}
<1>1. Len(chain) \in Nat /\ EventStep \in Nat \ {0}
  BY ChainFacts, BoundsAssumption
<1>2. H \in SUBSET (1 .. Len(chain)) /\ H \in SUBSET (0 .. Len(chain)) /\ H \in SUBSET Nat
  BY <1>1 DEF Hits
<1>3. Following(k, v) = {i \in H : Cardinality(Less(i)) < EventStep}
  BY DEF Following
<1> HIDE DEF H
<1>4. ASSUME NEW j \in Following(k, v), NEW i \in H, i <= j
      PROVE  i \in Following(k, v)
  <2>1. j \in Nat /\ i \in Nat /\ \A x \in H : x \in Nat
    BY <1>2, <1>3, <1>4
  <2>2. Less(j) \in SUBSET (0 .. Len(chain))
    BY <1>2
  <2>3. IsFiniteSet(Less(j)) /\ Cardinality(Less(j)) \in Nat
    BY <1>1, <2>2, BoundedFinite
  <2>4. Less(i) \in SUBSET Less(j)
    <3>1. \A x \in H : x < i => x < j
      BY <1>4, <2>1
    <3> QED BY <3>1
  <2>5. Cardinality(Less(i)) <= Cardinality(Less(j)) /\ IsFiniteSet(Less(i))
    BY <2>3, <2>4, FS_Subset
  <2>6. Cardinality(Less(i)) \in Nat
    BY <2>5, FS_CardinalityType
  <2>7. Cardinality(Less(j)) < EventStep
    BY <1>3, <1>4
  <2> QED BY <1>1, <1>3, <1>4, <2>3, <2>5, <2>6, <2>7
<1>5. ASSUME H # {}
      PROVE  Following(k, v) # {}
  <2>1. PICK m \in H : \A j \in H : m <= j
    BY <1>2, <1>5, MinExists
  <2>2. Less(m) = {}
    <3>1. \A x \in H : ~(x < m)
      BY <1>2, <2>1
    <3> QED BY <3>1
  <2>3. Cardinality(Less(m)) = 0
    BY <2>2, FS_EmptySet
  <2> QED BY <1>1, <1>3, <2>1, <2>3
<1> QED BY <1>2, <1>3, <1>4, <1>5 DEF H

-----------------------------------------------------------------------------
(* Types.                                                                  *)

\* The variables of a request and its client, when it answers.
Answers ==
    /\ pc' = "idle" /\ pos' \in 0 .. Len(chain) /\ at' = 0 /\ upto' = 0
    /\ got' \subseteq 1 .. Len(chain) /\ seen' \subseteq 1 .. Len(chain)

\* Each kind of answer is one.
LEMMA TypeAnswers ==
  ASSUME TypeInv
  PROVE  /\ \A v : \A S \in SUBSET (1 .. Len(chain)) : S # {} /\ AnswerEvents(S, v) =>
                Answers /\ pos' \in S /\ (\A i \in S : i <= pos') /\ got' = S /\ seen' = seen \cup S
         /\ \A k \in 0 .. Len(chain) : AnswerCursor(k) =>
                Answers /\ pos' = k /\ got' = {} /\ seen' = seen
         /\ \A v \in Visible : v # 0 /\ AnswerLatest(v, v) => Answers
<1>1. seen \in SUBSET (1 .. Len(chain)) /\ Len(chain) \in Nat
  BY ChainFacts DEF TypeInv, TypeOK
<1>2. ASSUME NEW v, NEW S \in SUBSET (1 .. Len(chain)), S # {}, AnswerEvents(S, v)
      PROVE  Answers /\ pos' \in S /\ (\A i \in S : i <= pos') /\ got' = S /\ seen' = seen \cup S
  <2>1. Greatest(S) \in S /\ \A i \in S : i <= Greatest(S)
    BY <1>2, Extremes
  <2>2. /\ pc' = "idle" /\ pos' = Greatest(S) /\ got' = S /\ seen' = seen \cup S
        /\ at' = 0 /\ upto' = 0
    BY <1>2 DEF AnswerEvents, Returned
  <2>3. Greatest(S) \in 0 .. Len(chain)
    <3>1. \A g \in S : g \in 0 .. Len(chain)
      OBVIOUS
    <3> QED BY <2>1, <3>1, Zenon
  <2>4. seen \cup S \in SUBSET (1 .. Len(chain))
    BY <1>1
  <2> QED BY <2>1, <2>2, <2>3, <2>4 DEF Answers
<1>3. ASSUME NEW k \in 0 .. Len(chain), AnswerCursor(k)
      PROVE  Answers /\ pos' = k /\ got' = {} /\ seen' = seen
  BY <1>1, <1>3 DEF AnswerCursor, Answers, Returned
<1>4. ASSUME NEW v \in Visible, v # 0, AnswerLatest(v, v) PROVE Answers
  <2>1. v \in 1 .. Len(chain)
    BY <1>1, <1>4, ChainFacts
  <2>2. {v} \in SUBSET (1 .. Len(chain)) /\ {v} # {} /\ 0 \in 0 .. Len(chain)
    BY <1>1, <2>1
  <2> QED BY <1>2, <1>3, <1>4, <2>2 DEF AnswerLatest
<1> QED BY <1>2, <1>3, <1>4

\* What a request that goes on has to keep to.
LEMMA TypeGoesOn ==
  ASSUME TypeInv, UNCHANGED << chain, now >>,
         pc' \in {"new", "idle", "since", "sinceList", "find", "token", "listFirst", "list", "poll"},
         {pos', at', upto', base'} \subseteq 0 .. Len(chain), since' \in 0 .. MaxTime,
         got' \subseteq 1 .. Len(chain), seen' \subseteq 1 .. Len(chain),
         late' \subseteq 1 .. Len(chain),
         pc' \in {"sinceList", "listFirst"} => at' # 0
  PROVE  TypeInv'
  BY ChainFacts DEF TypeInv, TypeOK, Ordered

\* The variables of a request by themselves.
LEMMA Parts ==
  ASSUME TypeInv
  PROVE  /\ pos \in 0 .. Len(chain) /\ at \in 0 .. Len(chain) /\ upto \in 0 .. Len(chain)
         /\ base \in 0 .. Len(chain) /\ since \in 0 .. MaxTime
         /\ got \subseteq 1 .. Len(chain) /\ seen \subseteq 1 .. Len(chain)
         /\ late \subseteq 1 .. Len(chain)
         /\ now \in 1 .. MaxTime /\ Len(chain) \in Nat /\ MaxTime \in Nat \ {0}
  BY ChainFacts, BoundsAssumption DEF TypeInv, TypeOK

\* The tail a read finds live is a node.
LEMMA LiveTail ==
  ASSUME TypeInv, NEW v \in Visible, LiveUpTo(v) # {}
  PROVE  v \in 1 .. Len(chain)
  BY ChainFacts

\* Initially every variable has its type.
LEMMA TypeInit == Init => TypeInv
<1> SUFFICES ASSUME Init PROVE TypeInv
  OBVIOUS
<1>1. chain \in Seq([time : 1 .. MaxTime, hit : BOOLEAN]) /\ Len(chain) = 0 /\ DOMAIN chain = {}
  BY EmptySeq DEF Init
<1>2. MaxTime \in Nat \ {0} /\ MaxEvents \in Nat
  BY BoundsAssumption
<1> QED BY <1>1, <1>2 DEF Init, TypeInv, TypeOK, Ordered

\* A committed node keeps the order of the chain.
LEMMA TypeCommit ==
  ASSUME TypeInv, CommitNode
  PROVE  /\ TypeInv'
         /\ Len(chain') = Len(chain) + 1
         /\ \A i \in 1 .. Len(chain) : chain'[i] = chain[i]
<1>1. PICK t \in LastTime .. now, h \in BOOLEAN : chain' = Append(chain, [time |-> t, hit |-> h])
  BY DEF CommitNode
<1>2. LastTime \in 1 .. MaxTime /\ \A i \in DOMAIN chain : chain[i].time <= LastTime
  <2>1. CASE chain = << >>
    <3>1. DOMAIN chain = {}
      BY <2>1
    <3> QED BY <2>1, <3>1, Parts DEF LastTime
  <2>2. CASE chain # << >>
    <3>1. Len(chain) \in DOMAIN chain
      BY <2>2, ChainFacts, EmptySeq DEF TypeInv, TypeOK
    <3> QED BY <2>2, <3>1, ChainFacts DEF LastTime, TypeInv, Ordered
  <2> QED BY <2>1, <2>2
<1>3. t \in 1 .. MaxTime /\ t <= now
  BY <1>2, Parts
<1>4. [time |-> t, hit |-> h] \in [time : 1 .. MaxTime, hit : BOOLEAN]
  BY <1>3
<1>5. /\ chain' \in Seq([time : 1 .. MaxTime, hit : BOOLEAN])
      /\ Len(chain') = Len(chain) + 1 /\ DOMAIN chain' = 1 .. Len(chain) + 1
      /\ \A i \in 1 .. Len(chain) : chain'[i] = chain[i]
      /\ chain'[Len(chain) + 1] = [time |-> t, hit |-> h]
  BY <1>1, <1>4, AppendProperties, LenProperties DEF TypeInv, TypeOK
<1>6. chain'[Len(chain) + 1].time = t
  BY <1>5
<1>7. Ordered'
  <2>1. now' = now
    BY DEF CommitNode
  <2>2. \A i \in DOMAIN chain' : chain'[i].time <= now
    BY <1>3, <1>5, <1>6, ChainFacts DEF TypeInv, Ordered
  <2>3. ASSUME NEW i \in DOMAIN chain', NEW j \in DOMAIN chain', i <= j
        PROVE  chain'[i].time <= chain'[j].time
    <3>1. CASE j \in 1 .. Len(chain)
      <4>1. i \in 1 .. Len(chain)
        BY <1>5, <2>3, <3>1, Parts
      <4> QED BY <1>5, <2>3, <3>1, <4>1, ChainFacts DEF TypeInv, Ordered
    <3>2. CASE j = Len(chain) + 1
      <4>1. i \in 1 .. Len(chain) \/ i = j
        BY <1>5, <3>2, Parts
      <4>2. ASSUME i \in 1 .. Len(chain) PROVE chain'[i].time <= t
        BY <1>2, <1>3, <1>5, <4>2, ChainFacts
      <4> QED BY <1>3, <1>6, <3>2, <4>1, <4>2
    <3> QED BY <1>5, <3>1, <3>2, Parts
  <2> QED BY <2>1, <2>2, <2>3 DEF Ordered
<1>8. TypeOK'
  <2>1. /\ Len(chain) + 1 <= MaxEvents
        /\ UNCHANGED << now, pc, pos, at, upto, base, since, got, seen, late >>
    BY Parts, BoundsAssumption DEF CommitNode, request, watching
  <2>2. /\ Len(chain') <= MaxEvents
        /\ {pos', at', upto', base'} \subseteq 0 .. Len(chain')
        /\ got' \subseteq DOMAIN chain' /\ seen' \subseteq DOMAIN chain'
        /\ late' \subseteq DOMAIN chain'
    <3>1. 0 .. Len(chain) \subseteq 0 .. Len(chain') /\ 1 .. Len(chain) \subseteq DOMAIN chain'
      BY <1>5, Parts
    <3> QED BY <1>5, <2>1, <3>1, Parts
  <2> QED BY <1>5, <2>1, <2>2 DEF TypeInv, TypeOK
<1>9. (pc \in {"sinceList", "listFirst"} => at # 0)'
  BY DEF CommitNode, request, TypeInv
<1> QED BY <1>5, <1>7, <1>8, <1>9 DEF TypeInv

\* What searches find are nodes.
LEMMA FoundType ==
  ASSUME TypeInv
  PROVE  /\ \A k \in 0 .. Len(chain), v \in Visible : Following(k, v) \in SUBSET (1 .. Len(chain))
         /\ \A k \in 1 .. Len(chain), v \in Visible :
                Hits({k}) \cup Following(k, v) \in SUBSET (1 .. Len(chain))
<1>1. \A v \in Visible : v \in 0 .. Len(chain)
  BY ChainFacts
<1>2. ASSUME NEW k \in 0 .. Len(chain), NEW v \in Visible
      PROVE  Following(k, v) \in SUBSET (1 .. Len(chain))
  BY <1>1, FollowingFacts
<1> QED BY <1>2 DEF Hits

\* A request without a cursor.
LEMMA TypeFirst ==
  ASSUME TypeInv, WatchFromNow \/ WatchWithStartFrom \/ FindSince \/ ListSince
  PROVE  TypeInv'
<1>1. ASSUME WatchFromNow PROVE TypeInv'
  <2>1. PICK v \in Visible : \/ LiveUpTo(v) = {} /\ AnswerCursor(0)
                             \/ LiveUpTo(v) # {} /\ AnswerLatest(v, v)
    BY <1>1 DEF WatchFromNow
  <2>2. Answers
    <3>1. 0 \in 0 .. Len(chain) /\ (LiveUpTo(v) # {} => v # 0)
      BY LiveTail, Parts
    <3> QED BY <2>1, <3>1, TypeAnswers
  <2> QED BY <1>1, <2>2, Parts, TypeGoesOn DEF WatchFromNow, Answers
<1>2. ASSUME WatchWithStartFrom PROVE TypeInv'
  <2>1. PICK t \in 1 .. now, v \in Visible :
            /\ since' = t
            /\ \/ LiveUpTo(v) = {} /\ AnswerCursor(0)
               \/ /\ LiveUpTo(v) # {}
                  /\ \/ chain[v].time <= t /\ AnswerLatest(v, v)
                     \/ /\ chain[v].time > t
                        /\ pc' = "since"
                        /\ upto' = v
                        /\ UNCHANGED << pos, at, got, seen >>
            /\ base' = Cardinality({i \in DOMAIN chain : chain[i].time <= t})
    BY <1>2 DEF WatchWithStartFrom
  <2>2. base' \in 0 .. Len(chain) /\ since' \in 0 .. MaxTime
    BY <2>1, EarlierFacts, Parts
  <2>3. UNCHANGED << chain, now, late >>
    BY <1>2 DEF WatchWithStartFrom
  <2>4. 0 \in 0 .. Len(chain) /\ (LiveUpTo(v) # {} => v # 0)
    BY LiveTail, Parts
  <2>5. \/ Answers
        \/ pc' = "since" /\ upto' = v /\ UNCHANGED << pos, at, got, seen >>
    BY <2>1, <2>4, TypeAnswers
  <2>6. CASE Answers
    BY <2>2, <2>3, <2>6, Parts, TypeGoesOn DEF Answers
  <2>7. CASE pc' = "since" /\ upto' = v /\ UNCHANGED << pos, at, got, seen >>
    BY <2>2, <2>3, <2>7, Parts, ChainFacts, TypeGoesOn
  <2> QED BY <2>5, <2>6, <2>7
<1>3. ASSUME FindSince PROVE TypeInv'
  <2>1. PICK v \in Visible :
            LET newer == {i \in 1 .. v : chain[i].time > since}
            IN  \/ newer = {} /\ AnswerCursor(0)
                \/ /\ newer # {}
                   /\ at' = Least(newer)
                   /\ pc' = "sinceList"
                   /\ UNCHANGED << pos, upto, got, seen >>
    BY <1>3 DEF FindSince
  <2>2. {i \in 1 .. v : chain[i].time > since} \in SUBSET (1 .. Len(chain))
    BY ChainFacts
  <2>3. UNCHANGED << chain, now, base, since, late >>
    BY <1>3 DEF FindSince, watching
  <2>4. \/ Answers
        \/ /\ at' \in 1 .. Len(chain)
           /\ pc' = "sinceList" /\ UNCHANGED << pos, upto, got, seen >>
    <3>1. 0 \in 0 .. Len(chain)
      BY Parts
    <3>2. CASE AnswerCursor(0)
      BY <3>1, <3>2, TypeAnswers
    <3>3. CASE ~AnswerCursor(0)
      BY <2>1, <2>2, <3>3, Extremes
    <3> QED BY <3>2, <3>3
  <2> QED BY <2>3, <2>4, Parts, TypeGoesOn DEF Answers
<1>4. ASSUME ListSince PROVE TypeInv'
  <2>1. PICK v \in Visible :
            \/ /\ Hits({at}) \cup Following(at, v) # {}
               /\ AnswerEvents(Hits({at}) \cup Following(at, v), v)
            \/ AnswerCursor(upto)
    BY <1>4 DEF ListSince
  <2>2. UNCHANGED << chain, now, base, since, late >>
    BY <1>4 DEF ListSince, watching
  <2>3. Hits({at}) \cup Following(at, v) \in SUBSET (1 .. Len(chain))
    <3>1. at \in 1 .. Len(chain)
      BY <1>4, Parts DEF ListSince, TypeInv
    <3> QED BY <3>1, FoundType
  <2>4. Answers
    <3>1. upto \in 0 .. Len(chain)
      BY Parts
    <3>2. CASE AnswerCursor(upto)
      BY <3>1, <3>2, TypeAnswers
    <3>3. CASE ~AnswerCursor(upto)
      BY <2>1, <2>3, <3>3, TypeAnswers
    <3> QED BY <3>2, <3>3
  <2> QED BY <2>2, <2>4, Parts, TypeGoesOn DEF Answers
<1> QED BY <1>1, <1>2, <1>3, <1>4

\* A search of a request answers or polls.
LEMMA TypeSearch ==
  ASSUME TypeInv, NEW S \in SUBSET (1 .. Len(chain)), NEW v \in Visible, Search(S, v)
  PROVE  TypeInv'
<1>1. UNCHANGED << chain, now, base, since, late >>
  BY DEF Search, watching
<1>2. CASE S # {} /\ AnswerEvents(S, v)
  <2>1. Answers
    BY <1>2, TypeAnswers
  <2> QED BY <1>1, <2>1, Parts, TypeGoesOn DEF Answers
<1>3. CASE pc' = "poll" /\ upto' = v /\ UNCHANGED << pos, at, got, seen >>
  BY <1>1, <1>3, Parts, ChainFacts, TypeGoesOn
<1> QED BY <1>2, <1>3 DEF Search

\* A request with a cursor.
LEMMA TypeNext ==
  ASSUME TypeInv,
         WatchWithCursor \/ FindStart \/ ReadToken \/ ListFirst \/ ListNodes \/ TimeOut
  PROVE  TypeInv'
<1>1. ASSUME WatchWithCursor PROVE TypeInv'
  BY <1>1, Parts, TypeGoesOn DEF WatchWithCursor, request, watching
<1>2. ASSUME FindStart PROVE TypeInv'
  <2>1. PICK v \in Visible :
            /\ upto' = v
            /\ \/ /\ pos = 0 /\ LiveUpTo(v) # {}
                  /\ at' = Least(LiveUpTo(v))
                  /\ pc' = "listFirst"
               \/ /\ pos # 0 /\ pos \in LiveUpTo(v)
                  /\ at' = pos
                  /\ pc' = "list"
               \/ pc' = "token" /\ UNCHANGED at
    BY <1>2 DEF FindStart
  <2>2. /\ UNCHANGED << chain, now, pos, since, got, seen, late >>
        /\ base' = IF pos = 0 /\ Cardinality(Expired) > base THEN Cardinality(Expired) ELSE base
    BY <1>2 DEF FindStart
  <2>3. base' \in 0 .. Len(chain)
    BY <2>2, ExpiredFacts, Parts
  <2>4. LiveUpTo(v) \in SUBSET (1 .. Len(chain)) /\ v \in 0 .. Len(chain)
    BY ChainFacts
  <2>5. LiveUpTo(v) # {} => Least(LiveUpTo(v)) \in LiveUpTo(v)
    BY <2>4, Extremes
  <2>6. CASE at' = Least(LiveUpTo(v)) /\ LiveUpTo(v) # {} /\ pc' = "listFirst"
    <3>1. at' \in 1 .. Len(chain)
      <4>1. \A g \in LiveUpTo(v) : g \in 1 .. Len(chain)
        BY <2>4
      <4>2. at' \in LiveUpTo(v)
        BY <2>5, <2>6
      <4> QED BY <4>1, <4>2
    <3>2. at' \in 0 .. Len(chain) /\ at' # 0
      BY <3>1
    <3> QED BY <2>1, <2>2, <2>3, <2>4, <2>6, <3>2, Parts, TypeGoesOn
  <2>7. CASE at' \in {pos, at} /\ pc' \in {"list", "token"}
    BY <2>1, <2>2, <2>3, <2>4, <2>7, Parts, TypeGoesOn
  <2> QED BY <2>1, <2>6, <2>7
<1>3. ASSUME ReadToken PROVE TypeInv'
  <2>1. PICK v \in Visible :
            \/ /\ pos = 0
               /\ at' = v
               /\ pc' = "poll"
               /\ late' = late \cup (upto + 1 .. v)
               /\ UNCHANGED << pos, upto, got, seen >>
            \/ /\ pos # 0 /\ v = pos
               /\ at' = v
               /\ pc' = "list"
               /\ UNCHANGED << pos, upto, got, seen, late >>
            \/ pos # 0 /\ v # pos /\ Restart
    BY <1>3 DEF ReadToken
  <2>2. UNCHANGED << chain, now, base, since >>
    BY <1>3 DEF ReadToken, watching
  <2>3. v \in 0 .. Len(chain) /\ upto + 1 .. v \subseteq 1 .. Len(chain)
    BY ChainFacts, Parts
  <2>4. CASE Restart
    BY <2>2, <2>4, Parts, TypeGoesOn DEF Restart, Returned
  <2>5. CASE ~Restart
    BY <2>1, <2>2, <2>3, <2>5, Parts, TypeGoesOn
  <2> QED BY <2>4, <2>5
<1>4. ASSUME ListFirst PROVE TypeInv'
  <2>1. PICK v \in Visible : Search(Hits({at}) \cup Following(at, v), v)
    BY <1>4 DEF ListFirst
  <2>2. at \in 1 .. Len(chain)
    BY <1>4, Parts DEF ListFirst, TypeInv
  <2>3. Hits({at}) \cup Following(at, v) \in SUBSET (1 .. Len(chain))
    BY <2>2, FoundType
  <2> QED BY <2>1, <2>3, TypeSearch
<1>5. ASSUME ListNodes PROVE TypeInv'
  <2>1. PICK v \in Visible : Search(Following(at, v), v)
    BY <1>5 DEF ListNodes
  <2>2. Following(at, v) \in SUBSET (1 .. Len(chain))
    BY FoundType, Parts
  <2> QED BY <2>1, <2>2, TypeSearch
<1>6. ASSUME TimeOut PROVE TypeInv'
  <2>1. PICK v \in Visible :
            \/ AnswerCursor(0) /\ UNCHANGED late
            \/ AnswerCursor(v) /\ late' = late \cup (upto + 1 .. v)
    BY <1>6 DEF TimeOut
  <2>2. /\ UNCHANGED << chain, now, base, since >>
        /\ v \in 0 .. Len(chain) /\ 0 \in 0 .. Len(chain)
        /\ upto + 1 .. v \subseteq 1 .. Len(chain)
    BY <1>6, ChainFacts, Parts DEF TimeOut, watching
  <2>3. Answers /\ late' \subseteq 1 .. Len(chain)
    BY <2>1, <2>2, TypeAnswers, Parts
  <2> QED BY <2>2, <2>3, Parts, TypeGoesOn DEF Answers
<1> QED BY <1>1, <1>2, <1>3, <1>4, <1>5, <1>6

\* Time passes.
LEMMA TypeTick == TypeInv /\ Tick => TypeInv'
<1> SUFFICES ASSUME TypeInv, Tick PROVE TypeInv'
  OBVIOUS
<1>1. /\ now' = now + 1 /\ now' \in 1 .. MaxTime
      /\ UNCHANGED << chain, pc, pos, at, upto, base, since, got, seen, late >>
  BY Parts DEF Tick, request, watching
<1>2. Ordered'
  <2>1. \A i \in DOMAIN chain : chain[i].time <= now'
    BY <1>1, ChainFacts, Parts DEF TypeInv, Ordered
  <2> QED BY <1>1, <2>1 DEF TypeInv, Ordered
<1> QED BY <1>1, <1>2 DEF TypeInv, TypeOK

\* Every step keeps the types, however much of the chain the reads miss.
LEMMA TypeStep == TypeInv /\ [Next]_vars => TypeInv'
<1> SUFFICES ASSUME TypeInv, [Next]_vars PROVE TypeInv'
  OBVIOUS
<1>1. CASE UNCHANGED vars
  BY <1>1 DEF vars, request, watching, TypeInv, TypeOK, Ordered
<1> QED BY <1>1, TypeCommit, TypeTick, TypeFirst, TypeNext DEF Next, ClientStep

\* The variables have the types their comments give them.
THEOREM TypeCorrect == Spec => []TypeOK
<1>1. TypeInv => TypeOK
  BY DEF TypeInv
<1> QED BY <1>1, TypeInit, TypeStep, PTL DEF Spec

\* What a search finds behind k: the first of what the client asks for, and something
\* if there is any.
FoundFrom(S, k) ==
    /\ S \in SUBSET (1 .. Len(chain))
    /\ \A j \in S : j > k
    /\ \A i \in Hits(k + 1 .. Len(chain)) : \A j \in S : i <= j => i \in S
    /\ S = {} => Hits(k + 1 .. Len(chain)) = {}

\* So do the nodes behind a node, and the node with them.
LEMMA FirstFound ==
  ASSUME TypeInv
  PROVE  /\ \A k \in 0 .. Len(chain) : FoundFrom(Following(k, Len(chain)), k)
         /\ \A k \in 1 .. Len(chain) :
                FoundFrom(Hits({k}) \cup Following(k, Len(chain)), k - 1)
<1> DEFINE n == Len(chain)
<1>1. n \in Nat
  BY Parts
<1>2. ASSUME NEW k \in 0 .. n PROVE FoundFrom(Following(k, n), k)
  <2>1. /\ Following(k, n) \subseteq Hits(k + 1 .. n)
        /\ Hits(k + 1 .. n) \subseteq 1 .. n
        /\ \A j \in Following(k, n) : \A i \in Hits(k + 1 .. n) : i <= j => i \in Following(k, n)
        /\ Following(k, n) = {} => Hits(k + 1 .. n) = {}
    BY <1>1, FollowingFacts
  <2>2. \A j \in Hits(k + 1 .. n) : j > k
    BY <1>1 DEF Hits
  <2> QED BY <2>1, <2>2 DEF FoundFrom
<1>3. ASSUME NEW k \in 1 .. n
      PROVE  FoundFrom(Hits({k}) \cup Following(k, n), k - 1)
  <2>1. k \in 0 .. n /\ k - 1 + 1 = k /\ k \in Int
    BY <1>1
  <2>2. FoundFrom(Following(k, n), k)
    BY <1>2, <2>1
  <2>3. Hits(k .. n) = Hits({k}) \cup Hits(k + 1 .. n)
    <3>1. k .. n = {k} \cup (k + 1 .. n)
      BY <1>1
    <3> QED BY <3>1 DEF Hits
  <2>4. Hits({k}) \subseteq {k} /\ Hits({k}) \in SUBSET (1 .. n)
    BY <1>1 DEF Hits
  <2>5. \A j \in Hits({k}) \cup Following(k, n) : j > k - 1
    BY <1>1, <2>1, <2>2, <2>4 DEF FoundFrom
  <2>6. ASSUME NEW i \in Hits(k .. n), NEW j \in Hits({k}) \cup Following(k, n), i <= j
        PROVE  i \in Hits({k}) \cup Following(k, n)
    <3>1. CASE i \in Hits({k})
      BY <3>1
    <3>2. CASE i \in Hits(k + 1 .. n)
      <4>1. i > k /\ i \in Int
        BY <1>1, <3>2 DEF Hits
      <4>2. j \in Following(k, n)
        <5>1. j # k
          BY <2>1, <2>6, <4>1
        <5> QED BY <2>4, <2>6, <5>1
      <4> QED BY <2>2, <2>6, <3>2, <4>2 DEF FoundFrom
    <3> QED BY <2>3, <2>6, <3>1, <3>2
  <2> QED BY <2>1, <2>2, <2>3, <2>4, <2>5, <2>6 DEF FoundFrom
<1> QED BY <1>2, <1>3

-----------------------------------------------------------------------------
(* What holds of the cursor for reads of any lag.                          *)

\* A client with a cursor makes only requests with it, which search behind its node.
Held ==
    pos # 0 => /\ pc \in {"idle", "find", "token", "list", "poll"}
               /\ pc \in {"list", "poll"} => at = pos
HeldInv == TypeInv /\ Held

\* Every step keeps that.
LEMMA HeldStep == HeldInv /\ [Next]_vars => HeldInv'
<1> SUFFICES ASSUME HeldInv, [Next]_vars PROVE HeldInv'
  OBVIOUS
<1>1. TypeInv /\ Held /\ TypeInv'
  BY TypeStep DEF HeldInv
<1>2. pos \in Nat /\ \A v \in Visible : v \in 0 .. Len(chain)
  BY <1>1, Parts, ChainFacts
<1>3. CASE UNCHANGED vars \/ CommitNode \/ Tick
  BY <1>1, <1>3 DEF vars, request, CommitNode, Tick, HeldInv, Held
<1>4. CASE WatchFromNow \/ WatchWithStartFrom \/ FindSince \/ ListSince \/ ListFirst
  <2>1. pos = 0
    BY <1>1, <1>4 DEF WatchFromNow, WatchWithStartFrom, FindSince, ListSince, ListFirst, Held
  <2>2. pos' = 0 \/ pc' = "idle"
    BY <1>4, <2>1 DEF WatchFromNow, WatchWithStartFrom, FindSince, ListSince, ListFirst, Search,
       AnswerLatest, AnswerEvents, AnswerCursor
  <2> QED BY <1>1, <2>2 DEF HeldInv, Held
<1>5. CASE WatchWithCursor \/ FindStart \/ ReadToken
  BY <1>1, <1>2, <1>5 DEF WatchWithCursor, FindStart, ReadToken, Restart, request, HeldInv, Held
<1>6. CASE ListNodes \/ TimeOut
  BY <1>1, <1>2, <1>6 DEF ListNodes, TimeOut, Search, AnswerEvents, AnswerCursor, HeldInv, Held
<1> QED BY <1>3, <1>4, <1>5, <1>6 DEF Next, ClientStep

\* Only a search and the end of polling answer a client that has a cursor.
LEMMA AnsweredBy ==
  ASSUME HeldInv, Next, pos # 0, pc' = "idle"
  PROVE  \/ pc = "idle" /\ UNCHANGED << pos, got >>
         \/ ListNodes
         \/ TimeOut
<1>1. pc \in {"idle", "find", "token", "list", "poll"}
  BY DEF HeldInv, Held
<1>2. CASE CommitNode \/ Tick
  BY <1>2 DEF CommitNode, Tick
<1>3. CASE ClientStep
  BY <1>1, <1>3 DEF ClientStep, WatchFromNow, WatchWithStartFrom, FindSince, ListSince,
        WatchWithCursor, FindStart, ReadToken, ListFirst, Restart
<1> QED BY <1>2, <1>3 DEF Next

\* However far the reads lag, an answer with events moves the cursor forward over events
\* behind it, and an answer without events moves it back by at most the lag, or to
\* NoEventCursor (WatchWithCursor, searchFollowingEventChainNodes).
THEOREM CursorNeverFarBack == Spec => BackAtMostLag
<1>1. ASSUME HeldInv, [Next]_vars
      PROVE  [pos # 0 /\ pc' = "idle" =>
                 /\ got' # got => \A i \in got' : i > pos
                 /\ \/ pos' = 0 \/ pos' >= pos
                    \/ got' = {} /\ pos' + Lag >= pos]_vars
  <2> SUFFICES ASSUME Next, pos # 0, pc' = "idle"
               PROVE  /\ got' # got => \A i \in got' : i > pos
                      /\ \/ pos' = 0 \/ pos' >= pos
                         \/ got' = {} /\ pos' + Lag >= pos
    BY <1>1
  <2>1. /\ TypeInv /\ pos \in 1 .. Len(chain) /\ Len(chain) \in Nat
        /\ pc \in {"list", "poll"} => at = pos
    BY <1>1, Parts DEF HeldInv, Held
  <2>2. CASE pc = "idle" /\ UNCHANGED << pos, got >>
    BY <2>1, <2>2
  <2>3. CASE ListNodes
    <3>1. PICK v \in Visible : Search(Following(pos, v), v)
      BY <2>1, <2>3 DEF ListNodes
    <3>2. /\ Following(pos, v) \in SUBSET (1 .. Len(chain))
          /\ v \in 0 .. Len(chain) /\ Following(pos, v) \subseteq Hits(pos + 1 .. v)
      BY <2>1, FoundType, FollowingFacts, ChainFacts
    <3>3. Following(pos, v) # {} /\ AnswerEvents(Following(pos, v), v)
      BY <3>1 DEF Search
    <3>4. pos' \in Following(pos, v) /\ got' = Following(pos, v)
      BY <2>1, <3>2, <3>3, TypeAnswers
    <3>5. \A i \in Following(pos, v) : i > pos /\ i >= pos
      BY <2>1, <3>2 DEF Hits
    <3> QED BY <3>4, <3>5, Zenon
  <2>4. CASE TimeOut
    <3>1. PICK v \in Visible : AnswerCursor(0) \/ AnswerCursor(v)
      BY <2>4 DEF TimeOut
    <3>2. v + Lag >= Len(chain) /\ v \in Nat /\ Lag \in Nat
      BY <2>1, BoundsAssumption DEF Visible
    <3> QED BY <2>1, <3>1, <3>2 DEF AnswerCursor
  <2> QED BY <1>1, <2>2, <2>3, <2>4, AnsweredBy
<1>2. HeldInv /\ [Next]_vars => HeldInv'
  BY HeldStep
<1>3. Init => HeldInv
  BY TypeInit DEF Init, HeldInv, Held
<1> QED BY <1>1, <1>2, <1>3, PTL DEF Spec, BackAtMostLag

-----------------------------------------------------------------------------
(* What a request owes, when reads see the whole chain.                    *)

\* Done after a step.
DoneNext(k) ==
    \A i \in 1 .. k :
        i > base' /\ chain'[i].time > since' /\ chain'[i].hit => i \in seen' \cup late'

\* What is done stays done while the watch goes on.
LEMMA DoneStays ==
  ASSUME TypeInv,
         \A i \in 1 .. Len(chain) : chain'[i] = chain[i],
         base' \in Int, base' >= base, since' = since, seen \subseteq seen', late \subseteq late'
  PROVE  \A k \in 0 .. Len(chain) : Done(k) => DoneNext(k)
<1> SUFFICES ASSUME NEW k \in 0 .. Len(chain), Done(k), NEW i \in 1 .. k,
                    i > base', chain'[i].time > since', chain'[i].hit
             PROVE  i \in seen' \cup late'
  BY DEF DoneNext
<1>1. i \in 1 .. Len(chain) /\ i > base
  BY Parts
<1>2. Owed(i)
  BY <1>1 DEF Owed
<1> QED BY <1>2 DEF Done

\* A node found by a search and all the client asks for before it: once they are
\* answered, nothing is owed up to the last of them.
LEMMA AnswersServe ==
  ASSUME TypeInv, NEW k \in 0 .. Len(chain), Done(k),
         NEW S \in SUBSET (1 .. Len(chain)), S # {},
         NEW v, AnswerEvents(S, v),
         \A i \in Hits(k + 1 .. Len(chain)) : \A j \in S : i <= j => i \in S,
         UNCHANGED << chain, now, base, since >>, late \subseteq late'
  PROVE  pc' = "idle" /\ pos' \in S /\ DoneNext(pos')
<1>1. pc' = "idle" /\ pos' \in S /\ seen' = seen \cup S /\ pos' \in 1 .. Len(chain)
  BY TypeAnswers DEF Answers
<1>2. DoneNext(k)
  BY DoneStays, Parts, <1>1
<1>3. ASSUME NEW i \in 1 .. pos', i > k, chain'[i].hit PROVE i \in seen'
  <2>1. i \in Hits(k + 1 .. Len(chain))
    BY <1>1, <1>3, Parts DEF Hits
  <2> QED BY <1>1, <2>1
<1>4. DoneNext(pos')
  BY <1>2, <1>3, <1>1 DEF DoneNext
<1> QED BY <1>1, <1>4

\* Where a cursor without events is answered, nothing is owed up to it.
LEMMA CursorServes ==
  ASSUME TypeInv, NEW k \in 0 .. Len(chain), AnswerCursor(k), DoneNext(k)
  PROVE  pc' = "idle" /\ pos' = k /\ DoneNext(pos') /\ seen' = seen
  BY DEF AnswerCursor

\* Nothing is owed up to no node.
LEMMA NothingOwed == DoneNext(0)
  BY DEF DoneNext

\* A read misses nothing.
LEMMA NoLag ==
  ASSUME TypeInv, Lag = 0, NEW v \in Visible
  PROVE  v = Len(chain)
<1>1. v \in 0 .. Len(chain) /\ v + 0 >= Len(chain)
  BY DEF Visible
<1> QED BY <1>1, Parts

\* All that is needed of an answer.
LEMMA IdleProgress ==
  ASSUME pc' = "idle", DoneNext(pos')
  PROVE  Progress'
  BY DEF Progress, Done, DoneNext, Owed

\* A watch without a cursor begins with the first node later than its time, or
\* with the nodes to come.
LEMMA ProgressFirst ==
  ASSUME WatchInv, Lag = 0, WatchFromNow \/ WatchWithStartFrom \/ FindSince \/ ListSince
  PROVE  Progress'
<1>1. TypeInv /\ Progress /\ Len(chain) \in Nat /\ 0 \in 0 .. Len(chain)
  BY Parts DEF WatchInv
<1>2. ASSUME WatchFromNow PROVE Progress'
  <2>1. PICK v \in Visible : \/ LiveUpTo(v) = {} /\ AnswerCursor(0)
                             \/ LiveUpTo(v) # {} /\ AnswerLatest(v, v)
    BY <1>2 DEF WatchFromNow
  <2>2. Answers
    <3>1. LiveUpTo(v) # {} => v # 0
      BY <1>1, LiveTail
    <3> QED BY <1>1, <2>1, <3>1, TypeAnswers
  <2>3. base' = Len(chain)
    BY <1>2 DEF WatchFromNow
  <2>4. DoneNext(pos')
    BY <1>1, <2>2, <2>3 DEF Answers, DoneNext
  <2> QED BY <2>2, <2>4, IdleProgress DEF Answers
<1>3. ASSUME WatchWithStartFrom PROVE Progress'
  <2>1. PICK t \in 1 .. now, v \in Visible :
            /\ since' = t
            /\ \/ LiveUpTo(v) = {} /\ AnswerCursor(0)
               \/ /\ LiveUpTo(v) # {}
                  /\ \/ chain[v].time <= t /\ AnswerLatest(v, v)
                     \/ /\ chain[v].time > t
                        /\ pc' = "since"
                        /\ upto' = v
                        /\ UNCHANGED << pos, at, got, seen >>
    BY <1>3 DEF WatchWithStartFrom
  <2>2. chain' = chain /\ pc = "new" /\ t \in Int
    BY <1>1, <1>3, Parts DEF WatchWithStartFrom
  <2>3. LiveUpTo(v) # {} => v \in 1 .. Len(chain)
    BY <1>1, LiveTail
  <2>4. CASE LiveUpTo(v) = {} /\ AnswerCursor(0)
    <3>1. pc' = "idle" /\ pos' = 0
      BY <2>4 DEF AnswerCursor
    <3> QED BY <3>1, NothingOwed, IdleProgress
  <2>5. CASE LiveUpTo(v) # {} /\ chain[v].time <= t /\ AnswerLatest(v, v)
    <3>1. Answers
      BY <1>1, <2>3, <2>5, TypeAnswers
    <3>2. v = Len(chain) /\ v \in DOMAIN chain
      BY <1>1, <2>3, <2>5, NoLag, ChainFacts
    <3>3. \A i \in 1 .. Len(chain) : ~(chain[i].time > t)
      BY <1>1, <2>2, <2>5, <3>2, ChainFacts DEF TypeInv, Ordered
    <3>4. DoneNext(pos')
      BY <1>1, <2>1, <2>2, <3>1, <3>3 DEF Answers, DoneNext
    <3> QED BY <3>1, <3>4, IdleProgress DEF Answers
  <2>6. CASE LiveUpTo(v) # {} /\ pc' = "since" /\ upto' = v /\ UNCHANGED << pos, at, got, seen >>
    <3>1. pos' = 0 /\ upto' # 0
      BY <1>1, <2>2, <2>3, <2>6 DEF Progress
    <3>2. DoneNext(pos')
      BY <3>1, NothingOwed
    <3> QED BY <2>6, <3>1, <3>2 DEF Progress, Done, DoneNext, Owed
  <2> QED BY <2>1, <2>4, <2>5, <2>6
<1>4. ASSUME FindSince PROVE Progress'
  <2> DEFINE newer == {i \in 1 .. Len(chain) : chain[i].time > since}
  <2>1. \/ newer = {} /\ AnswerCursor(0)
        \/ /\ newer # {}
           /\ at' = Least(newer)
           /\ pc' = "sinceList"
           /\ UNCHANGED << pos, upto, got, seen >>
    BY <1>1, <1>4, NoLag DEF FindSince
  <2>2. UNCHANGED << chain, now, base, since, late >> /\ pc = "since"
    BY <1>4 DEF FindSince, watching
  <2>3. CASE AnswerCursor(0)
    <3>1. pc' = "idle" /\ pos' = 0
      BY <2>3 DEF AnswerCursor
    <3> QED BY <3>1, NothingOwed, IdleProgress
  <2>4. CASE newer # {} /\ at' = Least(newer) /\ pc' = "sinceList"
             /\ UNCHANGED << pos, upto, got, seen >>
    <3>1. newer \in SUBSET (1 .. Len(chain))
      OBVIOUS
    <3>2. at' \in newer /\ \A j \in newer : at' <= j
      <4> HIDE DEF newer
      <4> QED BY <1>1, <2>4, <3>1, Extremes
    <3>a. at' \in 1 .. Len(chain) /\ pos' = 0
      BY <1>1, <2>2, <2>4, <3>1, <3>2 DEF Progress
    <3>3. at' \in Nat /\ pos' = 0 /\ \A i \in 1 .. at' - 1 : ~(chain[i].time > since)
      <4>1. ASSUME NEW i \in 1 .. at' - 1 PROVE i \in 1 .. Len(chain) /\ ~(at' <= i)
        <5>1. \A n \in Nat : \A a \in 1 .. n : \A j \in 1 .. a - 1 : j \in 1 .. n /\ ~(a <= j)
          OBVIOUS
        <5> QED BY <1>1, <3>a, <4>1, <5>1, Zenon
      <4>2. ASSUME NEW i \in 1 .. at' - 1, chain[i].time > since PROVE FALSE
        <5>1. i \in newer
          BY <4>1, <4>2
        <5> HIDE DEF newer
        <5> QED BY <3>2, <4>1, <5>1
      <4>3. at' \in Nat /\ pos' = 0
        BY <1>1, <3>a
      <4> QED BY <4>2, <4>3, Zenon
    <3>4. DoneNext(at' - 1) /\ DoneNext(pos')
      BY <2>2, <3>3, NothingOwed DEF DoneNext
    <3> QED BY <2>4, <3>3, <3>4 DEF Progress, Done, DoneNext, Owed
  <2> QED BY <2>1, <2>3, <2>4
<1>5. ASSUME ListSince PROVE Progress'
  <2> DEFINE n == Len(chain)
             found == Hits({at}) \cup Following(at, n)
  <2>1. \/ found # {} /\ AnswerEvents(found, n)
        \/ found = {} /\ AnswerCursor(upto)
    BY <1>1, <1>5, NoLag DEF ListSince
  <2>2. UNCHANGED << chain, now, base, since, late >> /\ pc = "sinceList"
    BY <1>5 DEF ListSince, watching
  <2>3. at \in 1 .. n /\ Done(at - 1) /\ at - 1 \in 0 .. n /\ upto \in 0 .. n
    BY <1>1, <2>2, Parts DEF TypeInv, Progress
  <2>4. FoundFrom(found, at - 1)
    BY <1>1, <2>3, FirstFound
  <2> HIDE DEF found
  <2>5. CASE found # {} /\ AnswerEvents(found, n)
    <3>1. pc' = "idle" /\ DoneNext(pos')
      BY <1>1, <2>2, <2>3, <2>4, <2>5, AnswersServe DEF FoundFrom
    <3> QED BY <3>1, IdleProgress
  <2>6. CASE found = {} /\ AnswerCursor(upto)
    <3>1. pc' = "idle" /\ pos' = upto /\ seen' = seen
      BY <2>6 DEF AnswerCursor
    <3>2. Done(n)
      BY <1>1, <2>3, <2>4, <2>6 DEF FoundFrom, Done, Owed, Hits
    <3>3. DoneNext(n)
      BY <1>1, <2>2, <3>1, <3>2, DoneStays, Parts
    <3>4. DoneNext(pos')
      BY <1>1, <2>3, <3>1, <3>3 DEF DoneNext
    <3> QED BY <3>1, <3>4, IdleProgress
  <2> QED BY <2>1, <2>5, <2>6
<1> QED BY <1>2, <1>3, <1>4, <1>5

\* A search that found nothing has nothing to answer up to the tail.
LEMMA ProgressSearch ==
  ASSUME WatchInv, NEW k \in 0 .. Len(chain), Done(k),
         NEW S, FoundFrom(S, k), Search(S, Len(chain)), at >= pos
  PROVE  Progress'
<1> DEFINE n == Len(chain)
<1>1. TypeInv /\ UNCHANGED << chain, now, base, since, late >> /\ n \in Nat
  BY Parts DEF WatchInv, Search, watching
<1>2. CASE S # {} /\ AnswerEvents(S, n)
  <2>1. pc' = "idle" /\ DoneNext(pos')
    BY <1>1, <1>2, AnswersServe DEF FoundFrom
  <2> QED BY <2>1, IdleProgress
<1>3. CASE S = {} /\ pc' = "poll" /\ upto' = n /\ UNCHANGED << pos, at, got, seen >>
  <2>1. Done(n)
    BY <1>1, <1>3 DEF FoundFrom, Done, Owed, Hits
  <2>2. DoneNext(n)
    BY <1>1, <1>3, <2>1, DoneStays, Parts
  <2>3. DoneNext(at') /\ DoneNext(pos')
    BY <1>1, <1>3, <2>2, Parts DEF DoneNext
  <2> QED BY <1>1, <1>3, <2>2, <2>3 DEF Progress, Done, DoneNext, Owed
<1> QED BY <1>2, <1>3 DEF Search

\* What a token record or a timeout passes over is late.
LEMMA LateServes ==
  ASSUME TypeInv, Done(upto), late' = late \cup (upto + 1 .. Len(chain)),
         UNCHANGED << chain, base, since, seen >>
  PROVE  DoneNext(Len(chain))
<1>1. DoneNext(upto)
  BY DoneStays, Parts
<1>2. \A i \in 1 .. Len(chain) : i \in 1 .. upto \/ i \in upto + 1 .. Len(chain)
  BY Parts
<1> QED BY <1>1, <1>2 DEF DoneNext

\* A request with a cursor begins behind its node, and one with none with the first
\* node that is not expired.
LEMMA ProgressNext ==
  ASSUME WatchInv, Lag = 0,
         WatchWithCursor \/ FindStart \/ ReadToken \/ ListFirst \/ ListNodes \/ TimeOut
  PROVE  Progress'
<1> DEFINE n == Len(chain)
<1>1. /\ TypeInv /\ Progress /\ n \in Nat /\ 0 \in 0 .. n
      /\ pos \in 0 .. n /\ at \in 0 .. n /\ upto \in 0 .. n
  BY Parts DEF WatchInv
<1>2. ASSUME UNCHANGED << chain, base, since, seen, late >>
      PROVE  \A k \in 0 .. n : Done(k) => DoneNext(k)
  BY <1>1, <1>2, DoneStays, Parts
<1>3. ASSUME WatchWithCursor PROVE Progress'
  <2>1. /\ pc' = "find" /\ pos' = pos
        /\ UNCHANGED << chain, now, seen, late >>
        /\ IF pc = "new" THEN pos = 0 ELSE UNCHANGED << base, since >>
    BY <1>1, <1>3 DEF WatchWithCursor, watching, Progress
  <2>2. DoneNext(pos')
    <3>1. CASE pc = "new"
      BY <2>1, <3>1, NothingOwed
    <3>2. CASE pc # "new"
      BY <1>1, <1>2, <2>1, <3>2 DEF Progress
    <3> QED BY <3>1, <3>2
  <2> QED BY <2>1, <2>2 DEF Progress, Done, DoneNext, Owed
<1>4. ASSUME FindStart PROVE Progress'
  <2> DEFINE live == LiveUpTo(n)
             e == Cardinality(Expired)
  <2>1. /\ upto' = n
        /\ \/ /\ pos = 0 /\ live # {}
              /\ at' = Least(live)
              /\ pc' = "listFirst"
           \/ /\ pos # 0 /\ pos \in live
              /\ at' = pos
              /\ pc' = "list"
           \/ /\ IF pos = 0 THEN live = {} ELSE pos \notin live
              /\ pc' = "token"
              /\ UNCHANGED at
    BY <1>1, <1>4, NoLag DEF FindStart
  <2>2. /\ UNCHANGED << chain, now, pos, since, got, seen, late >>
        /\ base' = IF pos = 0 /\ e > base THEN e ELSE base
    BY <1>4 DEF FindStart
  <2>3. /\ e \in 0 .. n /\ Expired = 1 .. e
        /\ \A i \in 1 .. n : i \in live <=> i > e
        /\ live \in SUBSET (1 .. n) /\ base \in 0 .. n
    <3>1. live \in SUBSET (1 .. n)
      BY DEF LiveUpTo
    <3> QED BY <1>1, <3>1, ExpiredFacts, Parts
  <2> HIDE DEF live, e
  <2>4. DoneNext(pos')
    <3>1. CASE pos = 0
      BY <2>2, <3>1, NothingOwed
    <3>2. CASE pos # 0
      BY <1>1, <1>2, <2>2, <3>2 DEF Progress
    <3> QED BY <3>1, <3>2
  <2>5. pos = 0 => \A i \in 1 .. n : i <= e => ~(i > base')
    BY <1>1, <2>2, <2>3
  <2>6. CASE pos = 0 /\ live # {} /\ at' = Least(live) /\ pc' = "listFirst"
    <3>1. at' \in live /\ \A j \in live : at' <= j
      BY <1>1, <2>3, <2>6, Extremes
    <3>2. at' \in 1 .. n
      <4>1. \A j \in live : j \in 1 .. n
        BY <2>3
      <4> QED BY <3>1, <4>1, Zenon
    <3>3. ASSUME NEW i \in 1 .. at' - 1 PROVE i \in 1 .. n /\ i <= e
      <4>1. \A m \in Nat : \A a \in 1 .. m : \A j \in 1 .. a - 1 : j \in 1 .. m /\ ~(a <= j)
        OBVIOUS
      <4>2. i \in 1 .. n /\ ~(at' <= i)
        BY <1>1, <3>2, <3>3, <4>1, Zenon
      <4>3. i \notin live
        BY <3>1, <4>2
      <4> QED BY <1>1, <2>3, <4>2, <4>3
    <3>4. DoneNext(at' - 1)
      BY <2>5, <2>6, <3>3 DEF DoneNext
    <3> QED BY <2>2, <2>4, <2>6, <3>4 DEF Progress, Done, DoneNext, Owed
  <2>7. CASE pos # 0 /\ at' = pos /\ pc' = "list"
    <3>1. DoneNext(at') /\ at' >= pos'
      BY <1>1, <2>2, <2>4, <2>7
    <3> QED BY <2>2, <2>4, <2>7, <3>1 DEF Progress, Done, DoneNext, Owed
  <2>8. CASE pc' = "token" /\ IF pos = 0 THEN live = {} ELSE pos \notin live
    <3>1. pos = 0 => DoneNext(upto')
      BY <1>1, <2>1, <2>3, <2>5, <2>8 DEF DoneNext
    <3>2. pos # 0 => pos \in Expired
      BY <1>1, <2>3, <2>8
    <3>3. Expired' = Expired
      BY <2>2 DEF Expired, Live
    <3> QED BY <2>2, <2>4, <2>8, <3>1, <3>2, <3>3 DEF Progress, Done, DoneNext, Owed
  <2> QED BY <2>1, <2>6, <2>7, <2>8
<1>5. ASSUME ReadToken PROVE Progress'
  <2>1. /\ pc = "token"
        /\ \/ /\ pos = 0
              /\ at' = n
              /\ pc' = "poll"
              /\ late' = late \cup (upto + 1 .. n)
              /\ UNCHANGED << pos, upto, got, seen >>
           \/ /\ pos # 0 /\ n = pos
              /\ at' = n
              /\ pc' = "list"
              /\ UNCHANGED << pos, upto, got, seen, late >>
           \/ Restart
    BY <1>1, <1>5, NoLag DEF ReadToken
  <2>2. UNCHANGED << chain, now, base, since >>
    BY <1>5 DEF ReadToken, watching
  <2>3. CASE /\ pos = 0 /\ at' = n /\ pc' = "poll"
             /\ late' = late \cup (upto + 1 .. n)
             /\ UNCHANGED << pos, upto, got, seen >>
    <3>1. DoneNext(n)
      BY <1>1, <2>1, <2>2, <2>3, LateServes DEF Progress
    <3>2. DoneNext(at') /\ DoneNext(upto') /\ DoneNext(pos') /\ at' >= pos'
      BY <1>1, <2>3, <3>1 DEF DoneNext
    <3> QED BY <2>3, <3>2 DEF Progress, Done, DoneNext, Owed
  <2>4. CASE /\ pos # 0 /\ n = pos /\ at' = n /\ pc' = "list"
             /\ UNCHANGED << pos, upto, got, seen, late >>
    <3>1. DoneNext(pos') /\ DoneNext(at') /\ at' >= pos'
      BY <1>1, <1>2, <2>2, <2>4 DEF Progress
    <3> QED BY <2>4, <3>1 DEF Progress, Done, DoneNext, Owed
  <2>5. CASE Restart
    <3>1. pc' = "new" /\ pos' = 0
      BY <2>5 DEF Restart
    <3> QED BY <3>1, NothingOwed DEF Progress, Done, DoneNext, Owed
  <2> QED BY <2>1, <2>3, <2>4, <2>5
<1>6. ASSUME ListFirst PROVE Progress'
  <2>1. Search(Hits({at}) \cup Following(at, n), n) /\ pc = "listFirst"
    BY <1>1, <1>6, NoLag DEF ListFirst
  <2>2. at \in 1 .. n /\ at - 1 \in 0 .. n /\ Done(at - 1) /\ at >= pos
    BY <1>1, <2>1 DEF TypeInv, Progress
  <2>3. FoundFrom(Hits({at}) \cup Following(at, n), at - 1)
    BY <1>1, <2>2, FirstFound
  <2> QED BY <2>1, <2>2, <2>3, ProgressSearch
<1>7. ASSUME ListNodes PROVE Progress'
  <2>1. Search(Following(at, n), n) /\ pc \in {"list", "poll"}
    BY <1>1, <1>7, NoLag DEF ListNodes
  <2>2. Done(at) /\ at >= pos
    BY <1>1, <2>1 DEF Progress
  <2>3. FoundFrom(Following(at, n), at)
    BY <1>1, FirstFound
  <2> QED BY <1>1, <2>1, <2>2, <2>3, ProgressSearch
<1>8. ASSUME TimeOut PROVE Progress'
  <2>1. /\ pc = "poll" /\ UNCHANGED << chain, now, base, since >>
        /\ \/ AnswerCursor(0)
           \/ AnswerCursor(n) /\ late' = late \cup (upto + 1 .. n)
    BY <1>1, <1>8, NoLag DEF TimeOut, watching
  <2>2. CASE AnswerCursor(0)
    <3>1. pc' = "idle" /\ pos' = 0
      BY <2>2 DEF AnswerCursor
    <3> QED BY <3>1, NothingOwed, IdleProgress
  <2>3. CASE AnswerCursor(n) /\ late' = late \cup (upto + 1 .. n)
    <3>1. pc' = "idle" /\ pos' = n /\ seen' = seen
      BY <2>3 DEF AnswerCursor
    <3>2. DoneNext(n)
      BY <1>1, <2>1, <2>3, <3>1, LateServes DEF Progress
    <3> QED BY <3>1, <3>2, IdleProgress
  <2> QED BY <2>1, <2>2, <2>3
<1> QED BY <1>3, <1>4, <1>5, <1>6, <1>7, <1>8

\* The chain grows, and time passes.
LEMMA ProgressWorld ==
  ASSUME WatchInv, CommitNode \/ Tick
  PROVE  Progress'
<1>1. /\ TypeInv /\ Progress
      /\ pos \in 0 .. Len(chain) /\ at \in 0 .. Len(chain) /\ upto \in 0 .. Len(chain)
      /\ Len(chain) \in Nat /\ now \in Int /\ TTL \in Nat
  BY Parts, BoundsAssumption DEF WatchInv
<1>2. /\ \A i \in 1 .. Len(chain) : chain'[i] = chain[i]
      /\ DOMAIN chain \subseteq DOMAIN chain'
      /\ now' = now \/ now' = now + 1
      /\ UNCHANGED << pc, pos, at, upto, base, since, got, seen, late >>
  <2>1. CASE CommitNode
    <3>1. TypeInv' /\ Len(chain') = Len(chain) + 1
          /\ \A i \in 1 .. Len(chain) : chain'[i] = chain[i]
      BY <1>1, <2>1, TypeCommit
    <3>2. DOMAIN chain = 1 .. Len(chain) /\ DOMAIN chain' = 1 .. Len(chain) + 1
      BY <1>1, <3>1, LenProperties DEF TypeInv, TypeOK
    <3> QED BY <1>1, <2>1, <3>1, <3>2 DEF CommitNode, request, watching
  <2>2. CASE Tick
    BY <2>2 DEF Tick, request, watching
  <2> QED BY <2>1, <2>2
<1>3. \A k \in 0 .. Len(chain) : Done(k) => DoneNext(k)
  BY <1>1, <1>2, DoneStays, Parts
<1>4. pos \in Expired => pos \in Expired'
  <2> SUFFICES ASSUME pos \in Expired PROVE pos \in Expired'
    OBVIOUS
  <2>1. pos \in DOMAIN chain /\ ~(chain[pos].time + TTL >= now)
    BY DEF Expired, Live
  <2>2. pos \in 1 .. Len(chain) /\ chain'[pos] = chain[pos] /\ chain[pos].time \in Int
    BY <1>1, <1>2, <2>1, ChainFacts
  <2>3. pos' = pos /\ pos \in DOMAIN chain' /\ ~(chain'[pos].time + TTL >= now')
    BY <1>1, <1>2, <2>1, <2>2
  <2> QED BY <2>3 DEF Expired, Live
<1>5. at - 1 \in 0 .. Len(chain) \/ at = 0
  BY <1>1
<1>6. pc \in {"sinceList", "listFirst"} => DoneNext(at - 1)
  BY <1>1, <1>3, <1>5 DEF Progress, TypeInv
<1> QED BY <1>1, <1>2, <1>3, <1>4, <1>6 DEF Progress, Done, DoneNext, Owed

\* Every step of a watch whose reads miss nothing keeps what is owed accounted for.
LEMMA WatchStep == Lag = 0 /\ WatchInv /\ [Next]_vars => WatchInv'
<1> SUFFICES ASSUME Lag = 0, WatchInv, [Next]_vars PROVE WatchInv'
  OBVIOUS
<1>1. TypeInv'
  BY TypeStep DEF WatchInv
<1>2. CASE UNCHANGED vars
  BY <1>1, <1>2 DEF vars, request, watching, WatchInv, Progress, Done, Owed, Expired, Live
<1>3. CASE Next
  <2>1. Progress'
    BY <1>3, ProgressWorld, ProgressFirst, ProgressNext DEF Next, ClientStep
  <2> QED BY <1>1, <2>1 DEF WatchInv
<1> QED BY <1>2, <1>3

\* Before a watch nothing is owed.
LEMMA WatchInit == Init => WatchInv
  BY TypeInit DEF WatchInv, Init, Progress, Done

-----------------------------------------------------------------------------
(* What follows for reads that go to the primary.                          *)

\* A client that goes on from the cursor of each answer gets every event of its types, but
\* for those committed between the last search of a request and its answer.
THEOREM NothingSkipped ==
  ASSUME Lag = 0
  PROVE  Spec => []SkippedOnlyLate
<1>1. WatchInv => SkippedOnlyLate
  BY DEF WatchInv, Progress, Done, SkippedOnlyLate, Skipped
<1>2. WatchInv /\ [Next]_vars => WatchInv'
  BY WatchStep
<1> QED BY <1>1, <1>2, WatchInit, PTL DEF Spec

\* A cursor is refused only when its node is expired.
THEOREM LiveCursorsAreGood ==
  ASSUME Lag = 0
  PROVE  Spec => RefusedOnlyExpired
<1>1. ASSUME WatchInv, [Next]_vars
      PROVE  [pc = "token" /\ pc' = "new" => pos \in Expired]_vars
  <2> SUFFICES ASSUME Next, pc = "token", pc' = "new"
               PROVE  pos \in Expired
    BY <1>1
  <2>1. pos # 0
    BY DEF Next, ClientStep, CommitNode, Tick, WatchFromNow, WatchWithStartFrom, FindSince,
        ListSince, WatchWithCursor, FindStart, ReadToken, ListFirst, ListNodes, TimeOut
  <2> QED BY <1>1, <2>1 DEF WatchInv, Progress
<1>2. WatchInv /\ [Next]_vars => WatchInv'
  BY WatchStep
<1> QED BY <1>1, <1>2, WatchInit, PTL DEF Spec, RefusedOnlyExpired
=============================================================================
