----------------------- MODULE RouteCalculation_proofs ----------------------
(***************************************************************************)
(* The search of CalculateRoutes finds shortest distances and next hops    *)
(* without loops, in any topology.                                         *)
(*                                                                         *)
(* What makes it work: a node whose channels have not been relaxed at its  *)
(* distance has its entry on the heap, and a next hop is at least the      *)
(* channel closer.  Neither depends on the order in which entries leave    *)
(* the heap.  The order makes it end soon: no entry is less than the       *)
(* distance of a node that has been relaxed, so that none is relaxed again.*)
(***************************************************************************)
EXTENDS RouteCalculation, TLAPS, SequenceTheorems, FiniteSetTheorems, WellFoundedInduction

\* No entry promises more than is known.
HeapReached == \A e \in pq : e[2] \in DOMAIN dist /\ dist[e[2]] <= e[1]

Relaxed(u) ==
    \A v \in Neighbors(u) : v \in DOMAIN dist /\ dist[v] <= dist[u] + Distance(u, v)

Frontier == \A u \in DOMAIN dist : <<dist[u], u>> \in pq \/ Relaxed(u)

Closer(v, u) ==
    /\ nextHopIf[v] \in Between(v, u) /\ nextHopIf[v] = Least(Between(v, u))
    /\ dist[u] + Distance(u, v) <= dist[v]

HopsReached == DOMAIN nextHopIf \subseteq DOMAIN dist

HopsCloser ==
    producer # Nobody =>
        \A v \in DOMAIN dist \ {producer} :
            v \in DOMAIN nextHopIf /\ \E u \in DOMAIN dist \ {v} : Closer(v, u)

IInv == TypeOK /\ HeapReached /\ Frontier /\ HopsReached /\ HopsCloser
-----------------------------------------------------------------------------
LEMMA LeastIs ==
    ASSUME NEW S \in SUBSET Nat, S # {}
    PROVE  Least(S) \in S /\ \A n \in S : Least(S) <= n
<1> DEFINE R == {ss \in Nat \X Nat : ss[1] < ss[2]}
<1>1. IsWellFoundedOn(R, Nat)
  BY NatLessThanWellFounded, SMT DEF OpToRel
<1>2. PICK m \in S : \A n \in S : ~ (<<n, m>> \in R)
  <2> HIDE DEF R
  <2> QED  BY <1>1, WFMin
<1>3. ASSUME NEW n \in S PROVE m <= n
  <2>1. m \in Nat /\ n \in Nat /\ ~ (<<n, m>> \in R)
    BY <1>2
  <2> QED  BY <2>1
<1> QED  BY <1>3 DEF Least

LEMMA ChannelsTyped ==
    ASSUME TypeOK
    PROVE  /\ DOMAIN channels \subseteq Nat
           /\ \A k \in DOMAIN channels : Metric(k) \in Nat \ {0}
<1>1. DOMAIN channels \subseteq Nat /\ \A k \in DOMAIN channels : channels[k] \in Channel
  BY DEF TypeOK
<1>2. \A k \in DOMAIN channels : channels[k].delay \in Nat
  BY <1>1, ConstantsAssumption
<1> QED  BY <1>1, <1>2 DEF Metric

\* The distance of two neighbours is the delay of one channel between them.
LEMMA DistanceIs ==
    ASSUME TypeOK, NEW u \in Node, NEW v \in Neighbors(u)
    PROVE  /\ Distance(u, v) \in Nat \ {0}
           /\ \E k \in Between(u, v) : Metric(k) = Distance(u, v)
           /\ \A k \in Between(u, v) : Distance(u, v) <= Metric(k)
<1> DEFINE S == {Metric(k) : k \in Between(u, v)}
<1>1. S \in SUBSET Nat /\ S # {} /\ 0 \notin S
  BY ChannelsTyped DEF Between, Neighbors
<1>2. Least(S) \in S /\ \A n \in S : Least(S) <= n
  <2> HIDE DEF S
  <2> QED  BY <1>1, LeastIs
<1>3. Distance(u, v) = Least(S)
  BY DEF Distance
<1> QED  BY <1>1, <1>2, <1>3

LEMMA BetweenSymmetric == \A u, v : Between(u, v) = Between(v, u)
BY DEF Between

\* A node that gets closer goes on the heap at its new distance.
LEMMA ShortestPushed ==
    ASSUME TypeOK, NEW u \in Node, NEW d \in Nat, NEW v \in Improved(u, d)
    PROVE  <<d + Distance(u, v), v>> \in Pushed(u, v, d)
<1> DEFINE K == {k \in Between(u, v) : Metric(k) = Distance(u, v)}
<1>1. v \in Neighbors(u) /\ Shorter(v, d + Distance(u, v))
  BY DEF Improved
<1>2. K \in SUBSET Nat /\ K # {} /\ K \subseteq Between(u, v)
  BY <1>1, DistanceIs, ChannelsTyped DEF Between
<1>3. Least(K) \in K /\ \A i \in K : Least(K) <= i
  <2> HIDE DEF K
  <2> QED  BY <1>2, LeastIs
<1>4. PICK k \in K : \A i \in K : k <= i
  BY <1>3
<1>5. k \in Between(u, v) /\ Metric(k) = Distance(u, v) /\ k \in Nat
  BY <1>2, <1>4
<1>6. ASSUME NEW i \in Between(u, v), i < k PROVE Metric(k) < Metric(i)
  <2>1. i \in Nat /\ Metric(i) \in Nat /\ Distance(u, v) \in Nat /\ Distance(u, v) <= Metric(i)
    BY <1>1, DistanceIs, ChannelsTyped DEF Between
  <2>2. i \notin K
    BY <1>4, <1>5, <1>6, <2>1
  <2> QED  BY <1>5, <2>1, <2>2
<1> QED  BY <1>1, <1>5, <1>6 DEF Pushed

\* What goes on the heap for a node is no less than its new distance.
LEMMA PushedAbove ==
    ASSUME TypeOK, NEW u \in Node, NEW d \in Nat, NEW v \in Improved(u, d)
    PROVE  \A e \in Pushed(u, v, d) :
               e \in Nat \X Node /\ e[2] = v /\ d + Distance(u, v) <= e[1]
<1>1. v \in Neighbors(u) /\ v \in Node
  BY DEF Improved, Neighbors
<1>2. \A k \in Between(u, v) : Metric(k) \in Nat /\ Distance(u, v) <= Metric(k)
  BY <1>1, DistanceIs, ChannelsTyped DEF Between
<1>3. Distance(u, v) \in Nat
  BY <1>1, DistanceIs
<1> QED  BY <1>1, <1>2, <1>3 DEF Pushed
-----------------------------------------------------------------------------
(* The initial states satisfy the invariant. *)
THEOREM InitInvariant == Init => IInv
<1> SUFFICES ASSUME Init PROVE IInv
  OBVIOUS
<1>1. channels \in Seq(Channel)
  <2>1. PICK n \in 0..MaxChannels : channels \in [1..n -> Channel]
    BY DEF Init
  <2>2. n \in Nat
    BY ConstantsAssumption
  <2> QED  BY <2>1, <2>2, SeqDef
<1>2. TypeOK
  <2>1. IsFunction(dist, Node, Nat) /\ IsFunction(nextHopIf, Node, DOMAIN channels)
    BY DEF Init, IsFunction
  <2>2. \A n \in Node : IsFunction(routes[n], DOMAIN channels, Nat)
    BY DEF Init, IsFunction
  <2>3. faceless \subseteq Node /\ pq \subseteq Nat \X Node /\ DOMAIN routes = Node
    BY ConstantsAssumption DEF Init
  <2>4. todo \subseteq producers /\ producer \in producers \cup {Nobody}
    BY DEF Init
  <2> QED  BY <1>1, <2>1, <2>2, <2>3, <2>4 DEF TypeOK
<1>3. HeapReached /\ Frontier /\ HopsReached /\ HopsCloser
  BY DEF Init, HeapReached, Frontier, HopsReached, HopsCloser
<1> QED  BY <1>2, <1>3 DEF IInv

\* A new search starts at distance 0 with an empty table of next hops.
LEMMA NextProducerStep == IInv /\ NextProducer => IInv'
<1> SUFFICES ASSUME IInv, NextProducer PROVE IInv'
  OBVIOUS
<1>1. PICK p \in todo :
        /\ producer' = p
        /\ dist' = [n \in {p} |-> 0]
        /\ pq' = {<<0, p>>}
  BY DEF NextProducer
<1>2. /\ DOMAIN dist' = {p} /\ dist'[p] = 0 /\ p \in producers /\ p \in Node
      /\ DOMAIN nextHopIf' = {} /\ UNCHANGED <<input, todo, routes>>
  BY <1>1, ConstantsAssumption DEF NextProducer, IInv, TypeOK
<1>3. TypeOK'
  <2>1. IsFunction(nextHopIf', Node, DOMAIN channels')
    BY DEF NextProducer, IsFunction
  <2>2. IsFunction(dist', Node, Nat) /\ pq' \subseteq Nat \X Node
    BY <1>1, <1>2 DEF IsFunction
  <2> QED  BY <1>1, <1>2, <2>1, <2>2 DEF IInv, TypeOK, input
<1>4. HeapReached' /\ Frontier'
  BY <1>1, <1>2 DEF HeapReached, Frontier
<1>5. HopsReached' /\ HopsCloser'
  BY <1>1, <1>2 DEF HopsReached, HopsCloser
<1> QED  BY <1>3, <1>4, <1>5 DEF IInv

\* Routes are installed with devices and distances of the search.
LEMMA InstallRoutesStep == IInv /\ InstallRoutes => IInv'
<1> SUFFICES ASSUME IInv, InstallRoutes PROVE IInv'
  OBVIOUS
<1>1. UNCHANGED <<input, search>> /\ producer' = Nobody /\ todo' \subseteq producers
  BY DEF InstallRoutes, IInv, TypeOK
<1>2. ASSUME NEW n \in Node PROVE IsFunction(routes[n]', DOMAIN channels', Nat)
  <2>1. IsFunction(routes[n], DOMAIN channels, Nat)
    BY DEF IInv, TypeOK
  <2>2. CASE n \in Routed
    <3>1. routes'[n] = WithRoute(routes[n], nextHopIf[n], dist[n])
      BY <2>2 DEF InstallRoutes
    <3>2. nextHopIf[n] \in DOMAIN channels /\ dist[n] \in Nat
      BY <2>2 DEF Routed, IInv, TypeOK, HopsReached, IsFunction
    <3> QED  BY <1>1, <2>1, <3>1, <3>2 DEF WithRoute, IsFunction, input
  <2>3. CASE n \notin Routed
    BY <1>1, <2>1, <2>3 DEF InstallRoutes, input
  <2> QED  BY <2>2, <2>3
<1>3. TypeOK'
  <2>1. DOMAIN routes' = Node
    BY DEF InstallRoutes
  <2> QED  BY <1>1, <1>2, <2>1 DEF IInv, TypeOK, input, search
<1>4. HeapReached' /\ Frontier' /\ HopsReached'
  BY <1>1 DEF IInv, HeapReached, Frontier, HopsReached, Relaxed, Neighbors, Distance, Metric,
              Between, input, search
<1>5. HopsCloser'
  BY <1>1 DEF HopsCloser
<1> QED  BY <1>3, <1>4, <1>5 DEF IInv

\* The graph is the same in every state.
LEMMA GraphFixed ==
    ASSUME UNCHANGED input
    PROVE  \A v, w : /\ Distance(v, w)' = Distance(v, w)
                     /\ Between(v, w)' = Between(v, w)
                     /\ Neighbors(v)' = Neighbors(v)
BY DEF Distance, Metric, Between, Neighbors, input

\* A stale entry stands for no node that is still to be relaxed.
LEMMA StaleStep ==
    ASSUME IInv, NEW e \in pq, e[1] > dist[e[2]], pq' = pq \ {e},
           UNCHANGED <<dist, nextHopIf, input, todo, producer, routes>>
    PROVE  IInv'
<1>1. TypeOK' /\ HeapReached' /\ HopsReached' /\ HopsCloser'
  <2>1. TypeOK'
    BY DEF IInv, TypeOK, input
  <2>2. HeapReached' /\ HopsReached'
    BY DEF IInv, HeapReached, HopsReached
  <2>3. HopsCloser'
    BY GraphFixed DEF IInv, HopsCloser, Closer
  <2> QED  BY <2>1, <2>2, <2>3
<1>2. ASSUME NEW u \in DOMAIN dist PROVE <<dist[u], u>> \in pq' \/ Relaxed(u)
  <2>1. dist[u] \in Nat /\ e \in Nat \X Node
    BY DEF IInv, TypeOK, IsFunction
  <2>2. <<dist[u], u>> # e
    BY <2>1
  <2> QED  BY <2>2 DEF IInv, Frontier
<1>3. Frontier'
  BY <1>2, GraphFixed DEF Frontier, Relaxed
<1> QED  BY <1>1, <1>3 DEF IInv

\* The channels of a node at its distance are relaxed.
LEMMA RelaxStep ==
    ASSUME IInv, NEW e \in pq, ~ (e[1] > dist[e[2]]),
           UNCHANGED <<input, todo, producer, routes>>,
           NEW closer, closer = Improved(e[2], e[1]),
           pq' = (pq \ {e}) \cup UNION {Pushed(e[2], v, e[1]) : v \in closer},
           Lower(e[2], e[1], closer), Redirect(e[2], closer)
    PROVE  IInv'
<1> DEFINE u == e[2]
           d == e[1]
<1>1. /\ TypeOK /\ u \in Node /\ d \in Nat /\ e = <<d, u>>
      /\ u \in DOMAIN dist /\ d = dist[u] /\ IsFunction(dist, Node, Nat)
  <2>1. TypeOK /\ e \in Nat \X Node
    BY DEF IInv, TypeOK
  <2>2. u \in DOMAIN dist /\ dist[u] <= d
    BY DEF IInv, HeapReached
  <2>3. dist[u] \in Nat
    BY <2>1, <2>2 DEF TypeOK, IsFunction
  <2> QED  BY <2>1, <2>2, <2>3 DEF TypeOK
<1>2. \A v \in closer :
        /\ v \in Neighbors(u) /\ v \in Node /\ v # u /\ Distance(u, v) \in Nat
        /\ v \notin DOMAIN dist \/ d + Distance(u, v) < dist[v]
  <2>1. \A v \in closer : v \in Neighbors(u) /\ (v \notin DOMAIN dist \/ d + Distance(u, v) < dist[v])
    BY DEF Improved, Shorter
  <2>2. \A v \in closer : v \in Node /\ v # u /\ Distance(u, v) \in Nat
    BY <1>1, <2>1, DistanceIs DEF Neighbors
  <2> QED  BY <2>1, <2>2
<1>3. /\ DOMAIN dist' = DOMAIN dist \cup closer
      /\ \A v \in closer : dist'[v] = d + Distance(u, v)
      /\ \A v \in DOMAIN dist \ closer : dist'[v] = dist[v]
  BY DEF Lower
<1>4. /\ DOMAIN nextHopIf' = DOMAIN nextHopIf \cup closer
      /\ \A v \in closer : nextHopIf'[v] = Least(Between(v, u))
      /\ \A v \in DOMAIN nextHopIf \ closer : nextHopIf'[v] = nextHopIf[v]
  BY DEF Redirect
<1>5. \A v \in closer :
        /\ \A f \in Pushed(u, v, d) : f \in Nat \X Node /\ f[2] = v /\ d + Distance(u, v) <= f[1]
        /\ <<d + Distance(u, v), v>> \in Pushed(u, v, d)
  BY <1>1, PushedAbove, ShortestPushed
<1>6. \A v \in closer : Least(Between(v, u)) \in Between(v, u)
  <2> TAKE v \in closer
  <2>1. Between(v, u) \in SUBSET Nat /\ Between(v, u) # {}
    BY <1>1, <1>2, BetweenSymmetric, ChannelsTyped DEF Neighbors, Between
  <2> QED  BY <2>1, LeastIs
\* Distances only shrink.
<1>7. \A v \in DOMAIN dist : v \in DOMAIN dist' /\ dist'[v] \in Nat /\ dist[v] \in Nat /\ dist'[v] <= dist[v]
  BY <1>1, <1>2, <1>3 DEF IsFunction
<1>8. \A v, w : /\ Distance(v, w)' = Distance(v, w)
                /\ Between(v, w)' = Between(v, w)
                /\ Neighbors(v)' = Neighbors(v)
  BY GraphFixed
<1> HIDE DEF u, d
<1>9. TypeOK'
  <2>1. IsFunction(dist', Node, Nat)
    <3>1. DOMAIN dist' \subseteq Node /\ \A v \in DOMAIN dist' : dist'[v] \in Nat
      BY <1>1, <1>2, <1>3, <1>7 DEF IsFunction
    <3> QED  BY <3>1 DEF IsFunction, Lower
  <2>2. IsFunction(nextHopIf', Node, DOMAIN channels)
    <3>1. IsFunction(nextHopIf, Node, DOMAIN channels)
      BY <1>1 DEF TypeOK
    <3>2. \A v \in closer : v \in Node /\ nextHopIf'[v] \in DOMAIN channels
      BY <1>2, <1>4, <1>6 DEF Between
    <3>3. \A v \in DOMAIN nextHopIf \ closer : v \in Node /\ nextHopIf'[v] \in DOMAIN channels
      BY <1>4, <3>1 DEF IsFunction
    <3>4. \A v \in DOMAIN nextHopIf' : v \in Node /\ nextHopIf'[v] \in DOMAIN channels
      BY <1>4, <3>2, <3>3
    <3>5. nextHopIf' = [v \in DOMAIN nextHopIf' |-> nextHopIf'[v]]
      BY DEF Redirect
    <3> QED  BY <3>4, <3>5 DEF IsFunction
  <2>3. pq' \subseteq Nat \X Node
    <3> SUFFICES ASSUME NEW f \in pq' PROVE f \in Nat \X Node
      OBVIOUS
    <3>1. CASE f \in pq
      BY <1>1, <3>1 DEF TypeOK
    <3>2. CASE f \notin pq
      <4>1. PICK v \in closer : f \in Pushed(u, v, d)
        BY <3>2 DEF u, d
      <4> QED  BY <1>5, <4>1
    <3> QED  BY <3>1, <3>2
  <2> QED  BY <1>1, <2>1, <2>2, <2>3 DEF TypeOK, input
<1>10. HeapReached'
  <2> SUFFICES ASSUME NEW f \in pq'
               PROVE  f[2] \in DOMAIN dist' /\ dist'[f[2]] <= f[1]
    BY DEF HeapReached
  <2>1. CASE f \in pq
    <3>1. f[2] \in DOMAIN dist /\ dist[f[2]] <= f[1] /\ f[1] \in Nat
      BY <1>1, <2>1 DEF IInv, HeapReached, TypeOK
    <3> QED  BY <1>7, <3>1
  <2>2. CASE f \notin pq
    <3>1. PICK v \in closer : f \in Pushed(u, v, d)
      BY <2>2 DEF u, d
    <3>2. f[2] = v /\ d + Distance(u, v) <= f[1]
      BY <1>5, <3>1
    <3>3. v \in DOMAIN dist' /\ dist'[v] = d + Distance(u, v)
      BY <1>3
    <3> QED  BY <3>2, <3>3
  <2> QED  BY <2>1, <2>2
<1>11. Frontier'
  <2> SUFFICES ASSUME NEW w \in DOMAIN dist'
               PROVE  <<dist'[w], w>> \in pq' \/ Relaxed(w)'
    BY DEF Frontier
  <2>1. CASE w \in closer
    BY <1>3, <1>5, <2>1 DEF u, d
  <2>2. CASE w = u
    <3>1. dist'[u] = d
      BY <1>1, <1>2, <1>3
    <3>2. ASSUME NEW v \in Neighbors(u)
          PROVE  v \in DOMAIN dist' /\ dist'[v] <= dist'[u] + Distance(u, v)
      <4>1. CASE v \in closer
        BY <1>1, <1>2, <1>3, <3>1, <4>1
      <4>2. CASE v \notin closer
        <5>1. v \in DOMAIN dist /\ ~ (d + Distance(u, v) < dist[v])
          BY <4>2 DEF Improved, Shorter, u, d
        <5>2. Distance(u, v) \in Nat
          BY <1>1, DistanceIs
        <5> QED  BY <1>1, <1>3, <1>7, <3>1, <4>2, <5>1, <5>2
      <4> QED  BY <4>1, <4>2
    <3>3. \A v \in Neighbors(u) : v \in Node
      BY DEF Neighbors
    <3> QED  BY <1>1, <1>8, <2>2, <3>2, <3>3 DEF Relaxed
  <2>3. CASE w \notin closer /\ w # u
    <3>1. w \in DOMAIN dist /\ dist'[w] = dist[w] /\ w \in Node
      BY <1>1, <1>3, <2>3 DEF IsFunction
    <3>2. CASE <<dist[w], w>> \in pq
      BY <1>1, <2>3, <3>1, <3>2
    <3>3. CASE Relaxed(w)
      <4>1. ASSUME NEW v \in Neighbors(w)
            PROVE  v \in DOMAIN dist' /\ dist'[v] <= dist'[w] + Distance(w, v)
        <5>1. v \in DOMAIN dist /\ dist[v] <= dist[w] + Distance(w, v)
          BY <3>3 DEF Relaxed
        <5>2. Distance(w, v) \in Nat
          BY <1>1, <3>1, DistanceIs
        <5> QED  BY <1>7, <3>1, <5>1, <5>2
      <4>2. \A v \in Neighbors(w) : v \in Node
        BY DEF Neighbors
      <4> QED  BY <1>8, <3>1, <4>1, <4>2 DEF Relaxed
    <3> QED  BY <3>1, <3>2, <3>3 DEF IInv, Frontier
  <2> QED  BY <2>1, <2>2, <2>3
<1>12. HopsReached'
  BY <1>3, <1>4 DEF IInv, HopsReached
<1>13. HopsCloser'
  <2> SUFFICES ASSUME producer # Nobody, NEW v \in DOMAIN dist' \ {producer}
               PROVE  v \in DOMAIN nextHopIf' /\ \E w \in DOMAIN dist' \ {v} : Closer(v, w)'
    BY DEF HopsCloser
  <2>1. CASE v \in closer
    <3>1. /\ nextHopIf'[v] \in Between(v, u) /\ nextHopIf'[v] = Least(Between(v, u))
          /\ dist'[v] = dist'[u] + Distance(u, v)
      BY <1>1, <1>2, <1>3, <1>4, <1>6, <2>1
    <3>2. u \in DOMAIN dist' \ {v} /\ v \in DOMAIN nextHopIf' /\ v \in Node
      BY <1>1, <1>2, <1>3, <1>4, <2>1
    <3>3. dist'[u] + Distance(u, v) <= dist'[v]
      BY <1>1, <1>2, <1>7, <2>1, <3>1
    <3> QED  BY <1>1, <1>8, <3>1, <3>2, <3>3 DEF Closer
  <2>2. CASE v \notin closer
    <3>1. v \in DOMAIN dist \ {producer} /\ v \in Node
      BY <1>1, <1>3, <2>2 DEF IsFunction
    <3>2. PICK w \in DOMAIN dist \ {v} : Closer(v, w)
      BY <3>1 DEF IInv, HopsCloser
    <3>3. v \in DOMAIN nextHopIf /\ w \in Node
      BY <1>1, <3>1 DEF IInv, HopsCloser, IsFunction
    <3>4. v \in Neighbors(w)
      BY <3>1, <3>2, <3>3 DEF Closer, Neighbors, Between
    <3>5. dist'[w] + Distance(w, v) <= dist'[v]
      <4>1. Distance(w, v) \in Nat /\ dist[w] + Distance(w, v) <= dist[v] /\ dist'[v] = dist[v]
        BY <1>1, <1>3, <2>2, <3>1, <3>2, <3>3, <3>4, DistanceIs DEF Closer
      <4> QED  BY <1>7, <3>1, <4>1
    <3>6. /\ v \in DOMAIN nextHopIf' /\ nextHopIf'[v] \in Between(v, w)
          /\ nextHopIf'[v] = Least(Between(v, w)) /\ w \in DOMAIN dist' \ {v}
      BY <1>3, <1>4, <2>2, <3>2, <3>3 DEF Closer
    <3> QED  BY <1>8, <3>1, <3>3, <3>5, <3>6 DEF Closer
  <2> QED  BY <2>1, <2>2
<1> QED  BY <1>9, <1>10, <1>11, <1>12, <1>13 DEF IInv

LEMMA VisitStep == IInv /\ Visit => IInv'
<1> SUFFICES ASSUME IInv, Visit PROVE IInv'
  OBVIOUS
<1>1. PICK e \in pq :
        IF e[1] > dist[e[2]]
        THEN /\ pq' = pq \ {e}
             /\ UNCHANGED <<dist, nextHopIf>>
        ELSE LET closer == Improved(e[2], e[1]) IN
             /\ pq' = (pq \ {e}) \cup UNION {Pushed(e[2], v, e[1]) : v \in closer}
             /\ Lower(e[2], e[1], closer)
             /\ Redirect(e[2], closer)
  BY DEF Visit
<1>2. UNCHANGED <<input, todo, producer, routes>>
  BY DEF Visit
<1>3. CASE e[1] > dist[e[2]]
  BY <1>1, <1>2, <1>3, StaleStep
<1>4. CASE ~ (e[1] > dist[e[2]])
  BY <1>1, <1>2, <1>4, RelaxStep
<1> QED  BY <1>3, <1>4

(* Every step of the calculation keeps the invariant. *)
THEOREM StepInvariant == IInv /\ [Next]_vars => IInv'
<1> SUFFICES ASSUME IInv, [Next]_vars PROVE IInv'
  OBVIOUS
<1>1. CASE NextProducer
  BY <1>1, NextProducerStep
<1>2. CASE Visit
  BY <1>2, VisitStep
<1>3. CASE InstallRoutes
  BY <1>3, InstallRoutesStep
<1>4. CASE UNCHANGED vars
  <2>1. UNCHANGED <<input, todo, producer, dist, nextHopIf, pq, routes, channels, faceless>>
    BY <1>4 DEF vars, input, search
  <2>2. TypeOK' /\ HeapReached' /\ HopsReached'
    BY <2>1 DEF IInv, TypeOK, HeapReached, HopsReached
  <2>3. Frontier' /\ HopsCloser'
    BY <2>1, GraphFixed DEF IInv, Frontier, Relaxed, HopsCloser, Closer
  <2> QED  BY <2>2, <2>3 DEF IInv
<1> QED  BY <1>1, <1>2, <1>3, <1>4 DEF Next

THEOREM Invariance == Spec => []IInv
BY InitInvariant, StepInvariant, PTL DEF Spec
-----------------------------------------------------------------------------
(* Types of the search and of the tables of all nodes. *)
THEOREM TypeCorrect == Spec => []TypeOK
<1>1. IInv => TypeOK
  BY DEF IInv
<1> QED  BY <1>1, Invariance, PTL

(* An empty heap means that every channel has been relaxed at the final     *)
(* distances of its nodes, for any topology.                                *)
THEOREM NothingMissed == Spec => []NoShortcut
<1>1. IInv => NoShortcut
  BY DEF IInv, Frontier, Relaxed, NoShortcut, Settled
<1> QED  BY <1>1, Invariance, PTL

(* The next hops lead down to the producer.                                 *)
THEOREM LoopFree == Spec => []NextHopsDescend
<1>1. IInv => NextHopsDescend
  <2> SUFFICES ASSUME IInv, Settled, NEW v \in DOMAIN dist \ {producer}
               PROVE  \E u \in DOMAIN dist \ {v} :
                          /\ Between(v, u) # {} /\ nextHopIf[v] = Least(Between(v, u))
                          /\ dist[v] = dist[u] + Distance(u, v)
    BY DEF NextHopsDescend
  <2>1. PICK u \in DOMAIN dist \ {v} : Closer(v, u)
    BY DEF IInv, HopsCloser, Settled
  <2>2. u \in Node /\ v \in Node /\ dist[u] \in Nat /\ dist[v] \in Nat /\ TypeOK
    BY DEF IInv, TypeOK, IsFunction
  <2>3. v \in Neighbors(u)
    BY <2>1, <2>2 DEF Closer, Neighbors, Between
  <2>4. dist[v] <= dist[u] + Distance(u, v)
    BY <2>3 DEF IInv, Frontier, Relaxed, Settled
  <2>5. Distance(u, v) \in Nat
    BY <2>2, <2>3, DistanceIs
  <2> QED  BY <2>1, <2>2, <2>4, <2>5 DEF Closer
<1> QED  BY <1>1, Invariance, PTL

(* The distances are shortest: nothing that is 0 at the producer and grows  *)
(* by no more than a channel from node to node, as the length of every      *)
(* shortest path does, is greater anywhere.                                 *)
DistancesShortest ==
    Settled =>
        \A f \in [Node -> Nat] :
            /\ f[producer] = 0
            /\ \A u \in Node : \A v \in Neighbors(u) : f[v] <= f[u] + Distance(u, v)
            => \A v \in DOMAIN dist : f[v] <= dist[v]

THEOREM Shortest == Spec => []DistancesShortest
<1>1. IInv => DistancesShortest
  <2> SUFFICES ASSUME IInv, Settled, NEW f \in [Node -> Nat], f[producer] = 0,
                      \A u \in Node : \A v \in Neighbors(u) : f[v] <= f[u] + Distance(u, v)
               PROVE  \A v \in DOMAIN dist : f[v] <= dist[v]
    BY DEF DistancesShortest
  <2> DEFINE Low == {v \in DOMAIN dist : ~ (f[v] <= dist[v])}
             Dists == {dist[v] : v \in Low}
  <2>1. \A v \in DOMAIN dist : v \in Node /\ dist[v] \in Nat /\ f[v] \in Nat
    BY DEF IInv, TypeOK, IsFunction
  <2>2. SUFFICES ASSUME Low # {} PROVE FALSE
    OBVIOUS
  <2>3. Dists \in SUBSET Nat /\ Dists # {}
    BY <2>1, <2>2
  <2>4. Least(Dists) \in Dists /\ \A n \in Dists : Least(Dists) <= n
    <3> HIDE DEF Dists
    <3> QED  BY <2>3, LeastIs
  <2>5. PICK v \in Low : \A w \in Low : dist[v] <= dist[w]
    BY <2>4
  <2>6. v # producer
    BY <2>1
  <2>7. PICK u \in DOMAIN dist \ {v} : Closer(v, u)
    BY <2>6 DEF IInv, HopsCloser, Settled
  <2>8. v \in Neighbors(u) /\ u \in Node
    BY <2>1, <2>7 DEF Closer, Neighbors, Between
  <2>9. Distance(u, v) \in Nat \ {0}
    BY <2>8, DistanceIs DEF IInv
  <2>10. dist[u] + Distance(u, v) <= dist[v]
    BY <2>7 DEF Closer
  <2>11. f[u] <= dist[u]
    BY <2>1, <2>5, <2>9, <2>10
  <2>12. f[v] <= f[u] + Distance(u, v)
    BY <2>8
  <2> QED  BY <2>1, <2>5, <2>9, <2>10, <2>11, <2>12
<1> QED  BY <1>1, Invariance, PTL
-----------------------------------------------------------------------------
(***************************************************************************)
(* The search relaxes every node once, and ends.                           *)
(***************************************************************************)
\* The heap is a finite set, and it is above every node that has been relaxed.
HeapAbove == \A u \in Expanded : \A e \in pq : dist[u] <= e[1]

HeapFinite == IsFiniteSet(pq)

\* A stale entry is not that of a node.
LEMMA StaleExpands ==
    ASSUME IInv, NEW e \in pq, e[1] > dist[e[2]], pq' = pq \ {e}, UNCHANGED dist
    PROVE  Expanded' = Expanded
<1>1. \A u \in DOMAIN dist : <<dist[u], u>> # e
  <2> TAKE u \in DOMAIN dist
  <2>1. dist[u] \in Nat /\ e \in Nat \X Node
    BY DEF IInv, TypeOK, IsFunction
  <2> QED  BY <2>1
<1> QED  BY <1>1 DEF Expanded

\* What a visit of a node at its distance does to it, to the nodes that have been
\* relaxed and to the heap.
LEMMA VisitExpands ==
    ASSUME IInv, HeapAbove, NEW e \in pq, \A f \in pq : e[1] <= f[1],
           ~ (e[1] > dist[e[2]]), UNCHANGED input,
           NEW closer, closer = Improved(e[2], e[1]),
           pq' = (pq \ {e}) \cup UNION {Pushed(e[2], v, e[1]) : v \in closer},
           Lower(e[2], e[1], closer)
    PROVE  /\ Expanded' = Expanded \cup {e[2]} /\ e[2] \notin Expanded
           /\ Expanded \cap closer = {}
           /\ \A u \in Expanded : dist'[u] = dist[u] /\ dist[u] <= e[1]
           /\ dist'[e[2]] = e[1]
           /\ \A f \in pq' : f[1] \in Nat /\ e[1] <= f[1]
<1> DEFINE u == e[2]
           d == e[1]
<1>1. /\ TypeOK /\ u \in Node /\ d \in Nat /\ e = <<d, u>>
      /\ u \in DOMAIN dist /\ d = dist[u]
      /\ \A v \in DOMAIN dist : v \in Node /\ dist[v] \in Nat
  <2>1. TypeOK /\ e \in Nat \X Node /\ \A v \in DOMAIN dist : v \in Node /\ dist[v] \in Nat
    BY DEF IInv, TypeOK, IsFunction
  <2>2. u \in DOMAIN dist /\ dist[u] <= d
    BY DEF IInv, HeapReached
  <2> QED  BY <2>1, <2>2
<1>2. \A v \in closer :
        /\ v \in Neighbors(u) /\ v \in Node /\ v # u
        /\ Distance(u, v) \in Nat /\ Distance(u, v) > 0
        /\ v \notin DOMAIN dist \/ d + Distance(u, v) < dist[v]
  <2>1. \A v \in closer : v \in Neighbors(u) /\ (v \notin DOMAIN dist \/ d + Distance(u, v) < dist[v])
    BY DEF Improved, Shorter
  <2>2. \A v \in closer : v \in Node /\ v # u
    BY <2>1 DEF Neighbors
  <2>3. \A v \in closer : Distance(u, v) \in Nat \ {0}
    BY <1>1, <2>1, DistanceIs
  <2> QED  BY <2>1, <2>2, <2>3
<1>3. /\ DOMAIN dist' = DOMAIN dist \cup closer
      /\ \A v \in closer : dist'[v] = d + Distance(u, v)
      /\ \A v \in DOMAIN dist \ closer : dist'[v] = dist[v]
  BY DEF Lower
<1>4. \A v \in closer :
        /\ \A f \in Pushed(u, v, d) : f \in Nat \X Node /\ f[2] = v /\ d + Distance(u, v) <= f[1]
        /\ <<d + Distance(u, v), v>> \in Pushed(u, v, d)
  BY <1>1, PushedAbove, ShortestPushed
<1>5. pq' = (pq \ {e}) \cup UNION {Pushed(u, v, d) : v \in closer}
  OBVIOUS
<1>6. Expanded \subseteq DOMAIN dist /\ \A v \in Expanded : dist[v] <= d /\ <<dist[v], v>> \notin pq
  BY DEF Expanded, HeapAbove
<1> HIDE DEF u, d
<1>7. u \notin Expanded
  BY <1>1, <1>6
<1>8. Expanded \cap closer = {}
  <2> SUFFICES ASSUME NEW v \in Expanded, v \in closer PROVE FALSE
    OBVIOUS
  <2>1. v \in DOMAIN dist /\ dist[v] <= d /\ dist[v] \in Nat
    BY <1>1, <1>6
  <2>2. d + Distance(u, v) < dist[v] /\ Distance(u, v) \in Nat
    BY <1>2, <2>1
  <2> QED  BY <1>1, <2>1, <2>2
<1>9. \A v \in Expanded \cup {u} : v \notin closer /\ v \in DOMAIN dist /\ dist'[v] = dist[v]
  BY <1>1, <1>2, <1>3, <1>6, <1>8
<1>10. ASSUME NEW f \in pq' PROVE f[1] \in Nat /\ d <= f[1] /\ (f \notin pq => f[2] \in closer)
  <2>1. CASE f \in pq
    <3>1. f \in Nat \X Node
      BY <1>1, <2>1 DEF TypeOK
    <3> QED  BY <2>1, <3>1 DEF d
  <2>2. CASE f \notin pq
    <3>1. PICK v \in closer : f \in Pushed(u, v, d)
      BY <1>5, <2>2
    <3>2. f \in Nat \X Node /\ f[2] = v /\ d + Distance(u, v) <= f[1] /\ Distance(u, v) \in Nat
      BY <1>2, <1>4, <3>1
    <3> QED  BY <1>1, <3>2
  <2> QED  BY <2>1, <2>2
<1>11. \A v \in Expanded \cup {u} : v \in Expanded'
  <2> TAKE v \in Expanded \cup {u}
  <2>1. v \in DOMAIN dist' /\ dist'[v] = dist[v] /\ v \notin closer
    BY <1>3, <1>9
  <2>2. <<dist[v], v>> \notin pq \ {e}
    BY <1>1, <1>6
  <2>3. <<dist[v], v>> \notin pq'
    <3>1. SUFFICES ASSUME <<dist[v], v>> \in pq' PROVE FALSE
      OBVIOUS
    <3>2. PICK w \in closer : <<dist[v], v>> \in Pushed(u, w, d)
      BY <1>5, <2>2, <3>1
    <3>3. v = w
      BY <1>4, <3>2
    <3> QED  BY <2>1, <3>3
  <2> QED  BY <2>1, <2>3 DEF Expanded
<1>12. \A v \in Expanded' : v \in Expanded \cup {u}
  <2> SUFFICES ASSUME NEW v \in Expanded', v # u PROVE v \in Expanded
    OBVIOUS
  <2>1. v \in DOMAIN dist' /\ <<dist'[v], v>> \notin pq'
    BY DEF Expanded
  <2>2. v \notin closer
    <3>1. SUFFICES ASSUME v \in closer PROVE FALSE
      OBVIOUS
    <3>2. <<dist'[v], v>> \in Pushed(u, v, d)
      BY <1>3, <1>4, <3>1
    <3> QED  BY <1>5, <2>1, <3>1, <3>2
  <2>3. v \in DOMAIN dist /\ dist'[v] = dist[v] /\ <<dist[v], v>> # e
    BY <1>1, <1>3, <2>1, <2>2
  <2>4. <<dist[v], v>> \notin pq
    BY <1>5, <2>1, <2>3
  <2> QED  BY <2>3, <2>4 DEF Expanded
<1> QED  BY <1>1, <1>6, <1>7, <1>8, <1>9, <1>10, <1>11, <1>12 DEF u, d

\* The values of a function on a finite set.
LEMMA FiniteImage ==
    ASSUME NEW S, IsFiniteSet(S), NEW f
    PROVE  IsFiniteSet({f[x] : x \in S})
<1> DEFINE T == {f[x] : x \in S}
           g == [x \in S |-> f[x]]
<1>1. g \in Surjection(S, T)
  BY DEF Surjection
<1> QED  BY <1>1, FS_Surjection

\* A finite topology has finitely many channels between two nodes.
LEMMA PushedFinite ==
    ASSUME TypeOK, NEW u, NEW v, NEW d
    PROVE  IsFiniteSet(Pushed(u, v, d))
<1> DEFINE K == {j \in Between(u, v) :
                    /\ Shorter(v, d + Metric(j))
                    /\ \A i \in Between(u, v) : i < j => Metric(j) < Metric(i)}
<1>1. DOMAIN channels = 1..Len(channels) /\ Len(channels) \in Nat
  BY DEF TypeOK
<1>2. IsFiniteSet(DOMAIN channels)
  BY <1>1, FS_Interval
<1>3. K \subseteq DOMAIN channels
  BY DEF Between
<1>4. IsFiniteSet(K)
  BY <1>2, <1>3, FS_Subset
<1> DEFINE entry == [k \in K |-> <<d + Metric(k), v>>]
<1>5. Pushed(u, v, d) = {entry[k] : k \in K}
  BY DEF Pushed
<1> HIDE DEF K, entry
<1> QED  BY <1>4, <1>5, FiniteImage

LEMMA VisitKeepsHeap ==
    ASSUME IInv, HeapAbove, HeapFinite, Visit
    PROVE  HeapAbove' /\ HeapFinite'
<1>1. PICK e \in pq :
        /\ \A f \in pq : e[1] <= f[1]
        /\ IF e[1] > dist[e[2]]
           THEN pq' = pq \ {e} /\ UNCHANGED dist
           ELSE LET closer == Improved(e[2], e[1]) IN
                /\ pq' = (pq \ {e}) \cup UNION {Pushed(e[2], v, e[1]) : v \in closer}
                /\ Lower(e[2], e[1], closer)
  BY DEF Visit
<1>2. UNCHANGED input
  BY DEF Visit
<1>3. CASE e[1] > dist[e[2]]
  <2>1. Expanded' = Expanded /\ pq' \subseteq pq
    BY <1>1, <1>3, StaleExpands
  <2>2. HeapFinite'
    BY <2>1, FS_Subset DEF HeapFinite
  <2> QED  BY <1>1, <1>3, <2>1, <2>2 DEF HeapAbove
<1>4. CASE ~ (e[1] > dist[e[2]])
  <2> DEFINE closer == Improved(e[2], e[1])
             new == {Pushed(e[2], v, e[1]) : v \in closer}
  <2>1. /\ Expanded' = Expanded \cup {e[2]}
        /\ \A u \in Expanded : dist'[u] = dist[u] /\ dist[u] <= e[1]
        /\ dist'[e[2]] = e[1]
        /\ \A f \in pq' : f[1] \in Nat /\ e[1] <= f[1]
    BY <1>1, <1>2, <1>4, VisitExpands
  <2>2. e[1] \in Nat /\ TypeOK /\ \A u \in DOMAIN dist : dist[u] \in Nat
    BY DEF IInv, TypeOK, IsFunction
  <2>3. HeapAbove'
    <3> SUFFICES ASSUME NEW u \in Expanded', NEW f \in pq' PROVE dist'[u] <= f[1]
      BY DEF HeapAbove
    <3>1. dist'[u] \in Nat /\ dist'[u] <= e[1]
      <4>1. CASE u \in Expanded
        BY <2>1, <2>2, <4>1 DEF Expanded
      <4>2. CASE u \notin Expanded
        BY <2>1, <2>2, <4>2
      <4> QED  BY <4>1, <4>2
    <3> QED  BY <2>1, <2>2, <3>1
  <2>4. IsFiniteSet(new) /\ \A S \in new : IsFiniteSet(S)
    <3>1. closer \subseteq Node
      BY DEF Improved, Neighbors
    <3>2. IsFiniteSet(closer)
      BY <3>1, ConstantsAssumption, FS_Subset
    <3> DEFINE entries == [v \in closer |-> Pushed(e[2], v, e[1])]
    <3>3. new = {entries[v] : v \in closer}
      OBVIOUS
    <3>4. \A S \in new : IsFiniteSet(S)
      BY <2>2, PushedFinite
    <3> HIDE DEF closer, new, entries
    <3> QED  BY <3>2, <3>3, <3>4, FiniteImage
  <2>5. pq' = (pq \ {e}) \cup UNION new
    BY <1>1, <1>4
  <2> HIDE DEF new
  <2>6. IsFiniteSet(UNION new) /\ IsFiniteSet(pq \ {e})
    BY <2>4, FS_UNION, FS_Subset DEF HeapFinite
  <2>7. HeapFinite'
    BY <2>5, <2>6, FS_Union DEF HeapFinite
  <2> QED  BY <2>3, <2>7
<1> QED  BY <1>3, <1>4

LEMMA HeapAlways == Spec => [](HeapAbove /\ HeapFinite)
<1>1. Init => HeapAbove /\ HeapFinite
  BY FS_EmptySet DEF Init, HeapAbove, HeapFinite, Expanded
<1>2. IInv /\ HeapAbove /\ HeapFinite /\ [Next]_vars => HeapAbove' /\ HeapFinite'
  <2> SUFFICES ASSUME IInv, HeapAbove, HeapFinite, [Next]_vars
               PROVE  HeapAbove' /\ HeapFinite'
    OBVIOUS
  <2>1. CASE NextProducer
    <3>1. PICK p \in todo : dist' = [n \in {p} |-> 0] /\ pq' = {<<0, p>>}
      BY <2>1 DEF NextProducer
    <3>2. HeapFinite'
      BY <3>1, FS_Singleton DEF HeapFinite
    <3>3. HeapAbove'
      BY <3>1 DEF HeapAbove, Expanded
    <3> QED  BY <3>2, <3>3
  <2>2. CASE Visit
    BY <2>2, VisitKeepsHeap
  <2>3. CASE InstallRoutes \/ UNCHANGED vars
    <3>1. UNCHANGED <<dist, pq>>
      BY <2>3 DEF InstallRoutes, vars, search
    <3> QED  BY <3>1 DEF HeapAbove, HeapFinite, Expanded
  <2> QED  BY <2>1, <2>2, <2>3 DEF Next
<1> QED  BY <1>1, <1>2, Invariance, PTL DEF Spec

\* How a visit goes on: a node more is relaxed, or a stale entry goes.
LEMMA VisitAdvances ==
    ASSUME IInv, HeapAbove, Visit
    PROVE  /\ Expanded \subseteq Expanded'
           /\ \A u \in Expanded :
                 /\ dist'[u] = dist[u]
                 /\ u \in DOMAIN nextHopIf => nextHopIf'[u] = nextHopIf[u]
           /\ \/ Expanded' # Expanded
              \/ pq' \subseteq pq /\ pq' # pq
<1>1. PICK e \in pq :
        /\ \A f \in pq : e[1] <= f[1]
        /\ IF e[1] > dist[e[2]]
           THEN /\ pq' = pq \ {e}
                /\ UNCHANGED <<dist, nextHopIf>>
           ELSE LET closer == Improved(e[2], e[1]) IN
                /\ pq' = (pq \ {e}) \cup UNION {Pushed(e[2], v, e[1]) : v \in closer}
                /\ Lower(e[2], e[1], closer)
                /\ Redirect(e[2], closer)
  BY DEF Visit
<1>2. UNCHANGED input
  BY DEF Visit
<1>3. CASE e[1] > dist[e[2]]
  <2>1. Expanded' = Expanded
    BY <1>1, <1>3, StaleExpands
  <2> QED  BY <1>1, <1>3, <2>1
<1>4. CASE ~ (e[1] > dist[e[2]])
  <2>1. /\ Expanded' = Expanded \cup {e[2]} /\ e[2] \notin Expanded
        /\ Expanded \cap Improved(e[2], e[1]) = {}
        /\ \A u \in Expanded : dist'[u] = dist[u]
    BY <1>1, <1>2, <1>4, VisitExpands
  <2>2. \A u \in Expanded : u \in DOMAIN nextHopIf => nextHopIf'[u] = nextHopIf[u]
    BY <1>1, <1>4, <2>1 DEF Redirect
  <2> QED  BY <2>1, <2>2
<1> QED  BY <1>3, <1>4

(* No node is relaxed twice: what is settled stays, and every entry taken   *)
(* from the heap settles one more or was stale, for any topology.           *)
THEOREM NodesOnce == Spec => EachNodeOnce
<1>1. IInv /\ HeapAbove /\ [Next]_vars =>
        [producer' = producer =>
          /\ Expanded \subseteq Expanded'
          /\ \A u \in Expanded :
                /\ dist'[u] = dist[u]
                /\ u \in DOMAIN nextHopIf => nextHopIf'[u] = nextHopIf[u]
          /\ \/ Expanded' # Expanded
             \/ pq' \subseteq pq /\ pq' # pq]_vars
  <2> SUFFICES ASSUME IInv, HeapAbove, Next, producer' = producer
               PROVE  /\ Expanded \subseteq Expanded'
                      /\ \A u \in Expanded :
                            /\ dist'[u] = dist[u]
                            /\ u \in DOMAIN nextHopIf => nextHopIf'[u] = nextHopIf[u]
                      /\ \/ Expanded' # Expanded
                         \/ pq' \subseteq pq /\ pq' # pq
    OBVIOUS
  <2>1. Visit
    <3>1. ~ NextProducer
      BY ConstantsAssumption DEF NextProducer, IInv, TypeOK
    <3>2. ~ InstallRoutes
      BY DEF InstallRoutes, Settled
    <3> QED  BY <3>1, <3>2 DEF Next
  <2> QED  BY <2>1, VisitAdvances
<1> QED  BY <1>1, Invariance, HeapAlways, PTL DEF Spec, EachNodeOnce

\* The nodes that a search has still to relax, and the entries on its heap.
Ahead == Cardinality(Node \ Expanded)
Entries == Cardinality(pq)

(* Every search ends: a visit lowers the number of nodes that are still to  *)
(* be relaxed, or leaves it and lowers the number of entries on the heap.   *)
THEOREM SearchEnds ==
    Spec => /\ [](Ahead \in Nat /\ Entries \in Nat)
            /\ [][Visit => \/ Ahead' < Ahead
                           \/ Ahead' = Ahead /\ Entries' < Entries]_vars
<1>1. IInv /\ HeapFinite => Ahead \in Nat /\ Entries \in Nat
  <2> SUFFICES ASSUME HeapFinite PROVE Ahead \in Nat /\ Entries \in Nat
    OBVIOUS
  <2>1. IsFiniteSet(Node \ Expanded)
    BY ConstantsAssumption, FS_Subset
  <2> QED  BY <2>1, FS_CardinalityType DEF Ahead, Entries, HeapFinite
<1>2. IInv /\ HeapAbove /\ HeapFinite /\ IInv' /\ HeapFinite' /\ Visit =>
          \/ Ahead' < Ahead
          \/ Ahead' = Ahead /\ Entries' < Entries
  <2> SUFFICES ASSUME IInv, HeapAbove, HeapFinite, IInv', HeapFinite', Visit
               PROVE  \/ Ahead' < Ahead
                      \/ Ahead' = Ahead /\ Entries' < Entries
    OBVIOUS
  <2>1. /\ Expanded \subseteq Expanded'
        /\ Expanded' # Expanded \/ (pq' \subseteq pq /\ pq' # pq)
    BY VisitAdvances
  <2>2. Ahead \in Nat /\ Entries \in Nat /\ Ahead' \in Nat /\ Entries' \in Nat
    <3>1. Ahead \in Nat /\ Entries \in Nat
      BY <1>1
    <3>2. IsFiniteSet(Node \ Expanded')
      BY ConstantsAssumption, FS_Subset
    <3> QED  BY <3>1, <3>2, FS_CardinalityType DEF Ahead, Entries, HeapFinite
  <2>3. CASE Expanded' # Expanded
    <3>1. Expanded' \subseteq Node
      BY DEF Expanded, IInv, TypeOK, IsFunction
    <3>2. Node \ Expanded' \subseteq Node \ Expanded /\ Node \ Expanded' # Node \ Expanded
      BY <2>1, <2>3, <3>1
    <3>3. IsFiniteSet(Node \ Expanded)
      BY ConstantsAssumption, FS_Subset
    <3>4. Cardinality(Node \ Expanded') < Cardinality(Node \ Expanded)
      <4>1. /\ Cardinality(Node \ Expanded') <= Cardinality(Node \ Expanded)
            /\ Cardinality(Node \ Expanded) = Cardinality(Node \ Expanded')
                   => Node \ Expanded = Node \ Expanded'
        BY <3>2, <3>3, FS_Subset
      <4> QED  BY <2>2, <3>2, <4>1 DEF Ahead
    <3> QED  BY <3>4 DEF Ahead
  <2>4. CASE Expanded' = Expanded
    <3>1. pq' \subseteq pq /\ pq' # pq
      BY <2>1, <2>4
    <3>2. /\ Cardinality(pq') <= Cardinality(pq)
          /\ Cardinality(pq) = Cardinality(pq') => pq = pq'
      BY <3>1, FS_Subset DEF HeapFinite
    <3> QED  BY <2>2, <2>4, <3>1, <3>2 DEF Ahead, Entries
  <2> QED  BY <2>3, <2>4
<1> QED  BY <1>1, <1>2, Invariance, HeapAlways, PTL DEF Spec
-----------------------------------------------------------------------------
\* A walk is there already, or one of them goes on over a channel.
LEMMA LongerIs ==
    ASSUME NEW walks, NEW w
    PROVE  w \in Longer(walks) <=>
               \/ w \in walks
               \/ \E v \in walks : \E k \in DOMAIN channels : \E m \in channels[k].ends \ {v[1]} :
                     v[1] \in channels[k].ends /\ w = <<m, Metric(k) + v[2]>>
<1> DEFINE On(v, k) == IF v[1] \in channels[k].ends
                         THEN {<<m, Metric(k) + v[2]>> : m \in channels[k].ends \ {v[1]}}
                         ELSE {}
<1>1. \A v, k : w \in On(v, k) <=>
          \E m \in channels[k].ends \ {v[1]} :
              v[1] \in channels[k].ends /\ w = <<m, Metric(k) + v[2]>>
  OBVIOUS
<1>2. Longer(walks) = walks \cup UNION {On(v, k) : v \in walks, k \in DOMAIN channels}
  BY DEF Longer
<1> HIDE DEF On
<1>3. w \in UNION {On(v, k) : v \in walks, k \in DOMAIN channels} <=>
          \E v \in walks : \E k \in DOMAIN channels : w \in On(v, k)
  OBVIOUS
<1> QED  BY <1>1, <1>2, <1>3

\* Induction as a fact about a set of numbers.
LEMMA Induction ==
    ASSUME NEW S, 0 \in S, \A n \in Nat : n \in S => n + 1 \in S
    PROVE  \A n \in Nat : n \in S
<1> DEFINE C == {n \in Nat : n \notin S}
<1>1. SUFFICES ASSUME C # {} PROVE FALSE
  OBVIOUS
<1>2. C \in SUBSET Nat
  OBVIOUS
<1>3. Least(C) \in C /\ \A n \in C : Least(C) <= n
  <2> HIDE DEF C
  <2> QED  BY <1>1, <1>2, LeastIs
<1>4. PICK m \in C : \A n \in C : m <= n
  BY <1>3
<1>5. m # 0 /\ m \in Nat /\ m - 1 \in Nat /\ ~ (m <= m - 1)
  BY <1>4
<1>6. m - 1 \in S
  BY <1>4, <1>5
<1> QED  BY <1>4, <1>5, <1>6

\* The first n + 1 values of a function that prolongs walks step by step.
Prolongs(g, p, n) == g[0] = {<<p, 0>>} /\ \A i \in 1..n : g[i] = Longer(g[i - 1])

LEMMA ProlongsOnce ==
    ASSUME NEW p, NEW m \in Nat, NEW n \in Nat, NEW g, NEW h, Prolongs(g, p, m), Prolongs(h, p, n)
    PROVE  \A i \in Nat : i <= m /\ i <= n => g[i] = h[i]
<1> DEFINE S == {i \in Nat : i <= m /\ i <= n => g[i] = h[i]}
<1>1. 0 \in S
  BY DEF Prolongs
<1>2. ASSUME NEW i \in Nat, i \in S PROVE i + 1 \in S
  <2>1. SUFFICES ASSUME i + 1 <= m, i + 1 <= n PROVE g[i + 1] = h[i + 1]
    OBVIOUS
  <2>2. g[i] = h[i]
    BY <1>2, <2>1
  <2>3. i + 1 \in 1..m /\ i + 1 \in 1..n /\ (i + 1) - 1 = i
    BY <2>1
  <2>4. g[i + 1] = Longer(g[i]) /\ h[i + 1] = Longer(h[i])
    BY <2>3 DEF Prolongs
  <2> QED  BY <2>2, <2>4
<1>3. \A i \in Nat : i \in S
  <2> HIDE DEF S
  <2> QED  BY <1>1, <1>2, Induction
<1> QED  BY <1>3

LEMMA ProlongsFar ==
    ASSUME NEW p
    PROVE  \A n \in Nat : \E g : Prolongs(g, p, n)
<1> DEFINE S == {n \in Nat : \E g : Prolongs(g, p, n)}
<1>1. 0 \in S
  <2>1. Prolongs([i \in Nat |-> {<<p, 0>>}], p, 0)
    BY DEF Prolongs
  <2> QED  BY <2>1
<1>2. ASSUME NEW n \in Nat, n \in S PROVE n + 1 \in S
  <2>1. PICK g : Prolongs(g, p, n)
    BY <1>2
  <2> DEFINE h == [i \in Nat |-> IF i = n + 1 THEN Longer(g[n]) ELSE g[i]]
  <2>2. h[0] = {<<p, 0>>}
    BY <2>1 DEF Prolongs
  <2>3. ASSUME NEW i \in 1..(n + 1) PROVE h[i] = Longer(h[i - 1])
    <3>1. i \in Nat /\ i - 1 \in Nat /\ i - 1 # n + 1 /\ h[i - 1] = g[i - 1]
      OBVIOUS
    <3>2. CASE i = n + 1
      <4>1. h[i] = Longer(g[n]) /\ i - 1 = n
        BY <3>1, <3>2
      <4> QED  BY <3>1, <4>1
    <3>3. CASE i # n + 1
      <4>1. i \in 1..n /\ h[i] = g[i]
        BY <3>1, <3>3
      <4> QED  BY <2>1, <3>1, <4>1 DEF Prolongs
    <3> QED  BY <3>2, <3>3
  <2>4. Prolongs(h, p, n + 1)
    <3> HIDE DEF h
    <3> QED  BY <2>2, <2>3 DEF Prolongs
  <2> QED  BY <2>4
<1> HIDE DEF S
<1>3. \A n \in Nat : n \in S
  BY <1>1, <1>2, Induction
<1> QED  BY <1>3 DEF S

\* Walks are what its definition says: there is a function that satisfies it.
LEMMA WalksAre ==
    ASSUME NEW p
    PROVE  \E f : /\ Walks(p) = f[Cardinality(Node)]
                  /\ f[0] = {<<p, 0>>}
                  /\ \A n \in Nat : f[n + 1] = Longer(f[n])
<1> DEFINE G(n) == CHOOSE g : Prolongs(g, p, n)
           h == [n \in Nat |-> G(n)[n]]
           Recursion(g) == g = [i \in Nat |-> IF i = 0 THEN {<<p, 0>>} ELSE Longer(g[i - 1])]
           within == CHOOSE g : Recursion(g)
<1>1. \A n \in Nat : Prolongs(G(n), p, n)
  BY ProlongsFar
<1> HIDE DEF G
<1>2. h[0] = {<<p, 0>>}
  BY <1>1 DEF Prolongs
<1>3. ASSUME NEW n \in Nat PROVE h[n + 1] = Longer(h[n])
  <2>1. n + 1 \in Nat /\ n + 1 \in 1..(n + 1) /\ (n + 1) - 1 = n
    OBVIOUS
  <2>2. G(n + 1)[n + 1] = Longer(G(n + 1)[n])
    BY <1>1, <2>1 DEF Prolongs
  <2>3. G(n + 1)[n] = G(n)[n]
    BY <1>1, <2>1, ProlongsOnce
  <2> QED  BY <2>1, <2>2, <2>3
<1>4. h = [i \in Nat |-> h[i]]
  OBVIOUS
<1> HIDE DEF h
<1>5. Recursion(h)
  <2>1. \A i \in Nat : h[i] = IF i = 0 THEN {<<p, 0>>} ELSE Longer(h[i - 1])
    <3> TAKE i \in Nat
    <3>1. CASE i = 0
      BY <1>2, <3>1
    <3>2. CASE i # 0
      <4>1. i - 1 \in Nat /\ (i - 1) + 1 = i
        BY <3>2
      <4>2. h[(i - 1) + 1] = Longer(h[i - 1])
        BY <1>3, <4>1
      <4> QED  BY <3>2, <4>1, <4>2
    <3> QED  BY <3>1, <3>2
  <2> QED  BY <1>4, <2>1
<1> HIDE DEF Recursion
<1>6. Recursion(within)
  BY <1>5
<1>7. Walks(p) = within[Cardinality(Node)]
  BY DEF Walks, within, Recursion
<1> HIDE DEF within
<1>8. within[0] = {<<p, 0>>}
  BY <1>6 DEF Recursion
<1>9. ASSUME NEW n \in Nat PROVE within[n + 1] = Longer(within[n])
  <2>1. n + 1 \in Nat /\ n + 1 # 0 /\ (n + 1) - 1 = n
    OBVIOUS
  <2> QED  BY <1>6, <2>1 DEF Recursion
<1> QED  BY <1>7, <1>8, <1>9
-----------------------------------------------------------------------------
\* d holds the distances from p, of all nodes that p is connected with: no channel
\* is a shortcut, and every other node has a neighbour on the way.
Distances(p, d) ==
    /\ IsFunction(d, Node, Nat)
    /\ p \in DOMAIN d /\ d[p] = 0
    /\ \A u \in DOMAIN d : \A v \in Neighbors(u) :
           v \in DOMAIN d /\ d[v] <= d[u] + Distance(u, v)
    /\ \A v \in DOMAIN d \ {p} :
           \E u \in DOMAIN d \ {v} : v \in Neighbors(u) /\ d[v] = d[u] + Distance(u, v)

LEMMA DistanceSymmetric == \A u, v : Distance(u, v) = Distance(v, u)
BY BetweenSymmetric DEF Distance

\* No walk is shorter than a distance.
LEMMA WalksNoShorter ==
    ASSUME TypeOK, NEW p \in Node, NEW d, Distances(p, d)
    PROVE  \A w \in Walks(p) :
               w \in Node \X Nat /\ w[1] \in DOMAIN d /\ d[w[1]] <= w[2]
<1> DEFINE Long(w) == w \in Node \X Nat /\ w[1] \in DOMAIN d /\ d[w[1]] <= w[2]
<1>1. PICK f : /\ Walks(p) = f[Cardinality(Node)]
               /\ f[0] = {<<p, 0>>}
               /\ \A n \in Nat : f[n + 1] = Longer(f[n])
  BY WalksAre
<1> DEFINE S == {n \in Nat : \A w \in f[n] : Long(w)}
<1>2. 0 \in S
  BY <1>1 DEF Distances
<1>3. ASSUME NEW n \in Nat, n \in S PROVE n + 1 \in S
  <2>1. SUFFICES ASSUME NEW w \in f[n + 1] PROVE Long(w)
    OBVIOUS
  <2>2. CASE w \in f[n]
    BY <1>3, <2>2
  <2>3. CASE w \notin f[n]
    <3>1. w \in Longer(f[n])
      BY <1>1, <2>1
    <3>2. PICK v \in f[n], k \in DOMAIN channels : \E m \in channels[k].ends \ {v[1]} :
              v[1] \in channels[k].ends /\ w = <<m, Metric(k) + v[2]>>
      BY <2>3, <3>1, LongerIs
    <3>3. PICK m \in channels[k].ends \ {v[1]} :
              v[1] \in channels[k].ends /\ w = <<m, Metric(k) + v[2]>>
      BY <3>2
    <3>4. v \in Node \X Nat /\ v[1] \in DOMAIN d /\ d[v[1]] <= v[2]
      BY <1>3
    <3>5. channels[k].ends \subseteq Node
      BY ConstantsAssumption DEF TypeOK
    <3>6. k \in Between(v[1], m) /\ m \in Neighbors(v[1]) /\ v[1] \in Node
      BY <3>3, <3>4, <3>5 DEF Between, Neighbors
    <3>7. m \in DOMAIN d /\ d[m] <= d[v[1]] + Distance(v[1], m)
      BY <3>4, <3>6 DEF Distances
    <3>8. Metric(k) \in Nat /\ Distance(v[1], m) \in Nat /\ Distance(v[1], m) <= Metric(k)
      BY <3>6, ChannelsTyped, DistanceIs
    <3>9. d[m] \in Nat /\ d[v[1]] \in Nat /\ v[2] \in Nat
      BY <3>4, <3>7 DEF Distances, IsFunction
    <3>10. d[m] <= Metric(k) + v[2] /\ Metric(k) + v[2] \in Nat
      BY <3>4, <3>7, <3>8, <3>9
    <3> QED  BY <3>3, <3>5, <3>7, <3>10
  <2> QED  BY <2>2, <2>3
<1>4. \A n \in Nat : n \in S
  <2> HIDE DEF S
  <2> QED  BY <1>2, <1>3, Induction
<1>5. Cardinality(Node) \in Nat
  BY ConstantsAssumption, FS_CardinalityType
<1> QED  BY <1>1, <1>4, <1>5

\* The nodes closer to p than n: more than there are channels on a shortest walk.
Inside(d, n) == {m \in DOMAIN d : d[m] < d[n]}

\* A distance is the length of a walk that has its channels within Node.
LEMMA DistancesAreWalks ==
    ASSUME TypeOK, NEW p \in Node, NEW d, Distances(p, d)
    PROVE  \A n \in DOMAIN d : <<n, d[n]>> \in Walks(p)
<1>1. PICK f : /\ Walks(p) = f[Cardinality(Node)]
               /\ f[0] = {<<p, 0>>}
               /\ \A n \in Nat : f[n + 1] = Longer(f[n])
  BY WalksAre
<1>2. /\ DOMAIN d \subseteq Node
      /\ \A n \in DOMAIN d : d[n] \in Nat
  BY DEF Distances, IsFunction
<1>3. \A n \in Nat : f[n] \subseteq f[n + 1]
  BY <1>1 DEF Longer
\* Walks with more channels allowed are more walks.
<1>4. \A n, m \in Nat : f[n] \subseteq f[n + m]
  <2> SUFFICES ASSUME NEW n \in Nat PROVE \A m \in Nat : f[n] \subseteq f[n + m]
    OBVIOUS
  <2> DEFINE S == {m \in Nat : f[n] \subseteq f[n + m]}
  <2>1. 0 \in S
    OBVIOUS
  <2>2. ASSUME NEW m \in Nat, m \in S PROVE m + 1 \in S
    <3>1. n + m \in Nat /\ n + (m + 1) = (n + m) + 1
      OBVIOUS
    <3> QED  BY <1>3, <2>2, <3>1
  <2>3. \A m \in Nat : m \in S
    <3> HIDE DEF S
    <3> QED  BY <2>1, <2>2, Induction
  <2> QED  BY <2>3
\* The counterexample that is closest to p has a neighbour that is closer.
<1> DEFINE Reached(n) == Cardinality(Inside(d, n))
           Missed == {n \in DOMAIN d : <<n, d[n]>> \notin f[Reached(n)]}
           Dists == {d[n] : n \in Missed}
<1>5. \A n \in DOMAIN d : /\ IsFiniteSet(Inside(d, n)) /\ Reached(n) \in Nat
                          /\ Cardinality(Node) \in Nat /\ Reached(n) <= Cardinality(Node)
  <2> TAKE n \in DOMAIN d
  <2>1. Inside(d, n) \in SUBSET Node
    BY <1>2 DEF Inside
  <2>2. IsFiniteSet(Inside(d, n)) /\ Reached(n) <= Cardinality(Node)
    BY <2>1, ConstantsAssumption, FS_Subset
  <2> QED  BY <2>2, ConstantsAssumption, FS_CardinalityType
<1>6. Missed = {}
  <2>1. SUFFICES ASSUME Missed # {} PROVE FALSE
    OBVIOUS
  <2>2. Dists \in SUBSET Nat /\ Dists # {}
    BY <1>2, <2>1
  <2>3. Least(Dists) \in Dists /\ \A n \in Dists : Least(Dists) <= n
    <3> HIDE DEF Dists
    <3> QED  BY <2>2, LeastIs
  <2>4. PICK v \in Missed : \A n \in Missed : d[v] <= d[n]
    BY <2>3
  <2>5. v \in DOMAIN d /\ d[v] \in Nat /\ v \in Node
    BY <1>2, <2>4
  <2>6. v # p
    <3>1. Inside(d, p) = {}
      BY <1>2 DEF Inside, Distances
    <3>2. Reached(p) = 0
      BY <3>1, FS_EmptySet
    <3> QED  BY <1>1, <2>4, <3>2 DEF Distances
  <2>7. PICK u \in DOMAIN d \ {v} : v \in Neighbors(u) /\ d[v] = d[u] + Distance(u, v)
    BY <2>5, <2>6 DEF Distances
  <2>8. u \in Node /\ d[u] \in Nat /\ Distance(u, v) \in Nat \ {0}
    BY <1>2, <2>7, DistanceIs
  <2>9. d[u] < d[v]
    BY <2>5, <2>7, <2>8
  <2>10. <<u, d[u]>> \in f[Reached(u)]
    <3>1. u \notin Missed
      BY <2>4, <2>5, <2>8, <2>9
    <3> QED  BY <3>1
  <2>11. Reached(u) + 1 <= Reached(v)
    <3>1. Inside(d, u) \in SUBSET Inside(d, v) /\ u \in Inside(d, v) /\ u \notin Inside(d, u)
      BY <1>2, <2>5, <2>8, <2>9 DEF Inside
    <3>2. Reached(u) <= Reached(v) /\ (Reached(v) = Reached(u) => Inside(d, v) = Inside(d, u))
      BY <1>5, <2>5, <3>1, FS_Subset
    <3> QED  BY <1>5, <2>5, <2>7, <3>1, <3>2
  <2>12. <<v, d[v]>> \in f[Reached(u) + 1]
    <3>1. PICK k \in Between(u, v) : Metric(k) = Distance(u, v)
      BY <2>7, <2>8, DistanceIs
    <3>2. k \in DOMAIN channels /\ u \in channels[k].ends /\ v \in channels[k].ends \ {u}
      BY <2>7, <3>1 DEF Between
    <3>3. d[v] = Metric(k) + d[u]
      BY <2>7, <2>8, <3>1
    <3> DEFINE w == <<u, d[u]>>
    <3>4. w[1] = u /\ w[2] = d[u] /\ w \in f[Reached(u)]
      BY <2>10
    <3> HIDE DEF w, Reached
    <3>5. <<v, d[v]>> \in Longer(f[Reached(u)])
      BY <3>2, <3>3, <3>4, LongerIs
    <3>6. Reached(u) \in Nat
      BY <1>5, <2>7
    <3> QED  BY <1>1, <3>5, <3>6
  <2>13. <<v, d[v]>> \in f[Reached(v)]
    <3>1. Reached(u) + 1 \in Nat /\ Reached(v) - (Reached(u) + 1) \in Nat
      BY <1>5, <2>5, <2>7, <2>11
    <3>2. (Reached(u) + 1) + (Reached(v) - (Reached(u) + 1)) = Reached(v)
      BY <1>5, <2>5, <2>7
    <3> HIDE DEF Reached
    <3> QED  BY <1>4, <2>12, <3>1, <3>2
  <2> QED  BY <2>4, <2>13
<1>7. ASSUME NEW n \in DOMAIN d PROVE <<n, d[n]>> \in Walks(p)
  <2>1. <<n, d[n]>> \in f[Reached(n)]
    BY <1>6
  <2>2. Reached(n) \in Nat /\ Cardinality(Node) - Reached(n) \in Nat
    BY <1>5
  <2>3. Reached(n) + (Cardinality(Node) - Reached(n)) = Cardinality(Node)
    BY <1>5
  <2>4. f[Reached(n)] \subseteq f[Reached(n) + (Cardinality(Node) - Reached(n))]
    <3> HIDE DEF Reached
    <3> QED  BY <1>4, <2>2
  <2> QED  BY <1>1, <2>1, <2>3, <2>4
<1> QED  BY <1>7

\* So the shortest walk from a node has its distance.
LEMMA ShortestWalks ==
    ASSUME TypeOK, NEW p \in Node, NEW d, Distances(p, d), NEW n
    PROVE  /\ Lengths(Walks(p), n) # {} <=> n \in DOMAIN d
           /\ n \in DOMAIN d => Least(Lengths(Walks(p), n)) = d[n]
<1> DEFINE L == Lengths(Walks(p), n)
<1>1. ASSUME n \in DOMAIN d PROVE d[n] \in L
  <2> DEFINE w == <<n, d[n]>>
  <2>1. w \in Walks(p) /\ w[1] = n /\ w[2] = d[n]
    BY <1>1, DistancesAreWalks
  <2> HIDE DEF w
  <2> QED  BY <2>1 DEF Lengths
<1>2. L \in SUBSET Nat /\ (L # {} => n \in DOMAIN d) /\ (\A l \in L : d[n] <= l)
  BY WalksNoShorter DEF Lengths
<1>3. ASSUME n \in DOMAIN d PROVE Least(L) = d[n]
  <2>1. L # {} /\ d[n] \in Nat
    BY <1>1, <1>2, <1>3
  <2>2. Least(L) \in L /\ \A l \in L : Least(L) <= l
    <3> HIDE DEF L
    <3> QED  BY <1>2, <2>1, LeastIs
  <2>3. Least(L) <= d[n] /\ d[n] <= Least(L) /\ Least(L) \in Nat
    BY <1>1, <1>2, <1>3, <2>2
  <2> QED  BY <2>1, <2>3
<1> QED  BY <1>1, <1>2, <1>3
-----------------------------------------------------------------------------
(***************************************************************************)
(* The tables.  What a finished search has found are the distances from    *)
(* its producer; a route over a device that leads to one producer stays,   *)
(* with another cost, when it leads to a later one too.                    *)
(***************************************************************************)
StartsAtZero == producer # Nobody => producer \in DOMAIN dist /\ dist[producer] = 0

\* Device k of n is the first that leads to some node on a shortest path.
OnTheWay(d, n, k) ==
    \E u \in DOMAIN d \ {n} :
        /\ k \in Between(n, u) /\ k = Least(Between(n, u))
        /\ d[n] = d[u] + Distance(n, u)

ProducersReached ==
    \A p \in producers \ todo :
        \E d : /\ Distances(p, d)
               /\ \A n \in DOMAIN d \ (faceless \cup {p}) :
                      \E k \in DOMAIN routes[n] : OnTheWay(d, n, k)

CostsKept ==
    \A n \in Node : \A k \in DOMAIN routes[n] :
        \E p \in producers \ {n} : \E d :
            /\ Distances(p, d)
            /\ n \in DOMAIN d /\ routes[n][k] = d[n]
            /\ OnTheWay(d, n, k)

Installed == StartsAtZero /\ ProducersReached /\ CostsKept

\* Distances depend on the topology, which never changes.
LEMMA DistancesFixed ==
    ASSUME UNCHANGED input
    PROVE  \A p, d : /\ Distances(p, d)' <=> Distances(p, d)
                     /\ \A n, k : OnTheWay(d, n, k)' <=> OnTheWay(d, n, k)
<1> SUFFICES ASSUME NEW p, NEW d
             PROVE  /\ Distances(p, d)' <=> Distances(p, d)
                    /\ \A n, k : OnTheWay(d, n, k)' <=> OnTheWay(d, n, k)
  OBVIOUS
<1>1. Distances(p, d)' <=> Distances(p, d)
  BY GraphFixed DEF Distances
<1>2. \A n, k : OnTheWay(d, n, k)' <=> OnTheWay(d, n, k)
  BY GraphFixed DEF OnTheWay
<1> QED  BY <1>1, <1>2

\* A search that has come to its end has found the distances.
LEMMA SearchFindsDistances ==
    ASSUME IInv, StartsAtZero, Settled
    PROVE  Distances(producer, dist)
<1>1. IsFunction(dist, Node, Nat) /\ producer \in DOMAIN dist /\ dist[producer] = 0
  BY DEF IInv, TypeOK, StartsAtZero, Settled
<1>2. \A u \in DOMAIN dist : \A v \in Neighbors(u) :
          v \in DOMAIN dist /\ dist[v] <= dist[u] + Distance(u, v)
  BY DEF IInv, Frontier, Relaxed, Settled
<1>3. ASSUME NEW v \in DOMAIN dist \ {producer}
      PROVE  \E u \in DOMAIN dist \ {v} :
                 v \in Neighbors(u) /\ dist[v] = dist[u] + Distance(u, v)
  <2>1. PICK u \in DOMAIN dist \ {v} : Closer(v, u)
    BY DEF IInv, HopsCloser, Settled
  <2>2. v \in Neighbors(u) /\ u \in Node /\ v \in Node /\ dist[u] \in Nat /\ dist[v] \in Nat
    BY <1>1, <2>1 DEF Closer, Neighbors, Between, IsFunction
  <2>3. dist[v] <= dist[u] + Distance(u, v) /\ Distance(u, v) \in Nat
    BY <1>2, <2>2, DistanceIs DEF IInv
  <2> QED  BY <2>1, <2>2, <2>3 DEF Closer
<1> QED  BY <1>1, <1>2, <1>3 DEF Distances

\* The device a finished search has found leads along a shortest path.
LEMMA HopsOnTheWay ==
    ASSUME IInv, Settled
    PROVE  \A n \in DOMAIN dist \ {producer} :
               n \in DOMAIN nextHopIf /\ OnTheWay(dist, n, nextHopIf[n])
<1> SUFFICES ASSUME NEW n \in DOMAIN dist \ {producer}
             PROVE  n \in DOMAIN nextHopIf /\ OnTheWay(dist, n, nextHopIf[n])
  OBVIOUS
<1>1. n \in DOMAIN nextHopIf
  BY DEF IInv, HopsCloser, Settled
<1>2. PICK u \in DOMAIN dist \ {n} : Closer(n, u)
  BY DEF IInv, HopsCloser, Settled
<1>3. n \in Neighbors(u) /\ u \in Node /\ n \in Node /\ dist[u] \in Nat /\ dist[n] \in Nat
  BY <1>2 DEF IInv, TypeOK, Closer, Neighbors, Between, IsFunction
<1>4. dist[n] <= dist[u] + Distance(u, n) /\ Distance(u, n) \in Nat
  BY <1>3, DistanceIs DEF IInv, Frontier, Relaxed, Settled
<1>5. dist[n] = dist[u] + Distance(n, u)
  BY <1>2, <1>3, <1>4, DistanceSymmetric DEF Closer
<1> QED  BY <1>1, <1>2, <1>5 DEF OnTheWay, Closer

\* The search itself leaves the tables alone.
LEMMA TablesKept ==
    ASSUME ProducersReached, CostsKept, UNCHANGED <<input, todo, routes>>
    PROVE  ProducersReached' /\ CostsKept'
<1>1. ProducersReached'
  <2> SUFFICES ASSUME NEW p \in producers \ todo
               PROVE  \E d : /\ Distances(p, d)'
                             /\ \A n \in DOMAIN d \ (faceless' \cup {p}) :
                                    \E k \in DOMAIN routes'[n] : OnTheWay(d, n, k)'
    BY DEF ProducersReached
  <2>1. PICK d : /\ Distances(p, d)
                 /\ \A n \in DOMAIN d \ (faceless \cup {p}) :
                        \E k \in DOMAIN routes[n] : OnTheWay(d, n, k)
    BY DEF ProducersReached
  <2> QED  BY <2>1, DistancesFixed DEF input
<1>2. CostsKept'
  <2> SUFFICES ASSUME NEW n \in Node, NEW k \in DOMAIN routes[n]
               PROVE  \E p \in producers \ {n} : \E d :
                          /\ Distances(p, d)'
                          /\ n \in DOMAIN d /\ routes'[n][k] = d[n]
                          /\ OnTheWay(d, n, k)'
    BY DEF CostsKept
  <2>1. PICK p \in producers \ {n} : \E d :
            /\ Distances(p, d)
            /\ n \in DOMAIN d /\ routes[n][k] = d[n]
            /\ OnTheWay(d, n, k)
    BY DEF CostsKept
  <2> QED  BY <2>1, DistancesFixed DEF input
<1> QED  BY <1>1, <1>2

LEMMA VisitStartsAtZero ==
    ASSUME IInv, StartsAtZero, Visit
    PROVE  StartsAtZero'
<1>1. PICK e \in pq :
        IF e[1] > dist[e[2]]
        THEN UNCHANGED dist
        ELSE Lower(e[2], e[1], Improved(e[2], e[1]))
  BY DEF Visit
<1>2. producer' = producer
  BY DEF Visit
<1>3. CASE e[1] > dist[e[2]]
  BY <1>1, <1>2, <1>3 DEF StartsAtZero
<1>4. CASE ~ (e[1] > dist[e[2]])
  <2>1. SUFFICES ASSUME producer # Nobody
                 PROVE  producer \in DOMAIN dist' /\ dist'[producer] = 0
    BY <1>2 DEF StartsAtZero
  <2>2. TypeOK /\ e[2] \in Node /\ e[1] \in Nat
    BY DEF IInv, TypeOK
  <2>3. producer \notin Improved(e[2], e[1])
    <3>1. SUFFICES ASSUME producer \in Neighbors(e[2]),
                          e[1] + Distance(e[2], producer) < 0
                   PROVE  FALSE
      BY <2>1 DEF Improved, Shorter, StartsAtZero
    <3>2. Distance(e[2], producer) \in Nat
      BY <2>2, <3>1, DistanceIs
    <3> QED  BY <2>2, <3>1, <3>2
  <2> QED  BY <1>1, <1>4, <2>1, <2>3 DEF Lower, StartsAtZero
<1> QED  BY <1>3, <1>4

\* The routes of a producer are shortest, and those of the producers before it,
\* which it may replace, still lead there.
LEMMA InstallRoutesInstalls ==
    ASSUME IInv, Installed, InstallRoutes
    PROVE  Installed'
<1>1. /\ Settled /\ producer \in producers /\ producer' = Nobody
      /\ UNCHANGED <<input, search>> /\ todo' = todo \ {producer}
  BY DEF InstallRoutes, Settled, IInv, TypeOK
<1>2. Distances(producer, dist)
  BY <1>1, SearchFindsDistances DEF Installed
<1>3. \A n \in DOMAIN dist \ {producer} :
          n \in DOMAIN nextHopIf /\ OnTheWay(dist, n, nextHopIf[n])
  BY <1>1, HopsOnTheWay
<1>4. /\ Routed \subseteq DOMAIN dist \ {producer}
      /\ DOMAIN dist \ (faceless \cup {producer}) \subseteq Routed
      /\ DOMAIN dist \subseteq Node
  BY <1>3 DEF Routed, IInv, HopsReached, TypeOK, IsFunction
<1>5. \A n \in Node \ Routed : routes'[n] = routes[n]
  BY DEF InstallRoutes
<1>6. ASSUME NEW n \in Routed
      PROVE  /\ DOMAIN routes'[n] = DOMAIN routes[n] \cup {nextHopIf[n]}
             /\ routes'[n][nextHopIf[n]] = dist[n]
             /\ \A k \in DOMAIN routes[n] \ {nextHopIf[n]} : routes'[n][k] = routes[n][k]
  <2>1. routes'[n] = WithRoute(routes[n], nextHopIf[n], dist[n])
    BY <1>4, <1>6 DEF InstallRoutes
  <2> QED  BY <2>1 DEF WithRoute
<1>7. \A n \in Node : DOMAIN routes[n] \subseteq DOMAIN routes'[n]
  BY <1>5, <1>6
<1>8. \A p, d, n, k : /\ Distances(p, d)' <=> Distances(p, d)
                      /\ OnTheWay(d, n, k)' <=> OnTheWay(d, n, k)
  BY <1>1, DistancesFixed
<1>9. StartsAtZero'
  BY <1>1 DEF StartsAtZero
<1>10. ProducersReached'
  <2> SUFFICES ASSUME NEW p \in producers, p \notin todo'
               PROVE  \E d : /\ Distances(p, d)'
                             /\ \A n \in DOMAIN d \ (faceless' \cup {p}) :
                                    \E k \in DOMAIN routes'[n] : OnTheWay(d, n, k)'
    BY DEF ProducersReached
  <2>1. CASE p = producer
    <3>1. \A n \in DOMAIN dist \ (faceless \cup {p}) :
              nextHopIf[n] \in DOMAIN routes'[n] /\ OnTheWay(dist, n, nextHopIf[n])
      BY <1>3, <1>4, <1>6, <2>1
    <3>3. PICK d : d = dist
      OBVIOUS
    <3>4. Distances(p, d) /\ \A n \in DOMAIN d \ (faceless \cup {p}) :
              \E k \in DOMAIN routes'[n] : OnTheWay(d, n, k)
      BY <1>2, <2>1, <3>1, <3>3
    <3> QED  BY <1>1, <1>8, <3>4 DEF input
  <2>2. CASE p # producer
    <3>1. PICK d : /\ Distances(p, d)
                   /\ \A n \in DOMAIN d \ (faceless \cup {p}) :
                          \E k \in DOMAIN routes[n] : OnTheWay(d, n, k)
      BY <1>1, <2>2 DEF Installed, ProducersReached
    <3>2. DOMAIN d \subseteq Node
      BY <3>1 DEF Distances, IsFunction
    <3> QED  BY <1>1, <1>7, <1>8, <3>1, <3>2 DEF input
  <2> QED  BY <2>1, <2>2
<1>11. CostsKept'
  <2> SUFFICES ASSUME NEW n \in Node, NEW k \in DOMAIN routes'[n]
               PROVE  \E p \in producers \ {n} : \E d :
                          /\ Distances(p, d)'
                          /\ n \in DOMAIN d /\ routes'[n][k] = d[n]
                          /\ OnTheWay(d, n, k)'
    BY DEF CostsKept
  <2>1. CASE n \in Routed /\ k = nextHopIf[n]
    <3>1. PICK d : d = dist
      OBVIOUS
    <3>2. /\ Distances(producer, d) /\ n \in DOMAIN d /\ routes'[n][k] = d[n]
          /\ OnTheWay(d, n, k) /\ producer # n
      BY <1>2, <1>3, <1>4, <1>6, <2>1, <3>1
    <3> QED  BY <1>1, <1>8, <3>2
  <2>2. CASE ~ (n \in Routed /\ k = nextHopIf[n])
    <3>1. k \in DOMAIN routes[n] /\ routes'[n][k] = routes[n][k]
      BY <1>5, <1>6, <2>2
    <3>2. PICK p \in producers \ {n} : \E d :
              /\ Distances(p, d)
              /\ n \in DOMAIN d /\ routes[n][k] = d[n]
              /\ OnTheWay(d, n, k)
      BY <3>1 DEF Installed, CostsKept
    <3> QED  BY <1>8, <3>1, <3>2
  <2> QED  BY <2>1, <2>2
<1> QED  BY <1>9, <1>10, <1>11 DEF Installed

LEMMA InstalledStep == IInv /\ Installed /\ [Next]_vars => Installed'
<1> SUFFICES ASSUME IInv, Installed, [Next]_vars PROVE Installed'
  OBVIOUS
<1>1. CASE NextProducer
  <2>1. StartsAtZero'
    BY <1>1 DEF NextProducer, StartsAtZero
  <2>2. UNCHANGED <<input, todo, routes>>
    BY <1>1 DEF NextProducer
  <2> QED  BY <2>1, <2>2, TablesKept DEF Installed
<1>2. CASE Visit
  <2>1. UNCHANGED <<input, todo, routes>>
    BY <1>2 DEF Visit
  <2> QED  BY <1>2, <2>1, TablesKept, VisitStartsAtZero DEF Installed
<1>3. CASE InstallRoutes
  BY <1>3, InstallRoutesInstalls
<1>4. CASE UNCHANGED vars
  <2>1. UNCHANGED <<input, todo, routes>> /\ UNCHANGED <<producer, dist>>
    BY <1>4 DEF vars, search
  <2> QED  BY <2>1, TablesKept DEF Installed, StartsAtZero
<1> QED  BY <1>1, <1>2, <1>3, <1>4 DEF Next

\* Between searches and during them, the tables are right for every producer done.
THEOREM InstalledAlways == Spec => []Installed
<1>1. Init => Installed
  <2> SUFFICES ASSUME Init PROVE Installed
    OBVIOUS
  <2>1. StartsAtZero /\ ProducersReached
    BY DEF Init, StartsAtZero, ProducersReached
  <2>2. \A n \in Node : DOMAIN routes[n] = {}
    BY DEF Init
  <2> QED  BY <2>1, <2>2 DEF Installed, CostsKept
<1> QED  BY <1>1, InstalledStep, Invariance, PTL DEF Spec

\* A device on the way according to the distances is one according to the walks: its
\* delay is the distance, or it hides the faster channel whose delay that is.
LEMMA LeadsOnTheWay ==
    ASSUME TypeOK, NEW p \in Node, NEW d, Distances(p, d), NEW n \in DOMAIN d, NEW k,
           OnTheWay(d, n, k)
    PROVE  LeadsTo(Walks(p), n, k)
<1>1. PICK u \in DOMAIN d \ {n} : /\ k \in Between(n, u) /\ k = Least(Between(n, u))
                                 /\ d[n] = d[u] + Distance(n, u)
  BY DEF OnTheWay
<1>2. u \in channels[k].ends \ {n}
  BY <1>1 DEF Between
<1>3. /\ Lengths(Walks(p), u) # {}
      /\ Least(Lengths(Walks(p), n)) = Least(Lengths(Walks(p), u)) + Distance(n, u)
  BY <1>1, ShortestWalks
<1>4. Distance(n, u) \in Nat /\ Metric(k) \in Nat /\ Distance(n, u) <= Metric(k)
  <2>1. u \in Neighbors(n) /\ n \in Node
    BY <1>1 DEF Distances, Neighbors, Between, IsFunction
  <2> QED  BY <1>1, <2>1, DistanceIs, ChannelsTyped DEF Between
<1>5. CASE Metric(k) = Distance(n, u)
  BY <1>2, <1>3, <1>5 DEF LeadsTo, OnShortestPath
<1>6. CASE Distance(n, u) < Metric(k)
  BY <1>1, <1>2, <1>3, <1>6 DEF LeadsTo, Shadows
<1> QED  BY <1>4, <1>5, <1>6

(* Every node with a stack ends with a route towards every producer it is   *)
(* connected with, over any topology and however the routes of other        *)
(* producers share its devices: over a device on a shortest path, or one    *)
(* that hides a faster channel to the same neighbour.                       *)
THEOREM EveryProducerReached == Spec => []RoutesToEveryProducer
<1>1. IInv /\ Installed => RoutesToEveryProducer
  <2> SUFFICES ASSUME IInv, Installed, Finished, NEW p \in producers,
                      NEW n \in Node \ (faceless \cup {p}), Lengths(Walks(p), n) # {}
               PROVE  \E k \in DOMAIN routes[n] : LeadsTo(Walks(p), n, k)
    BY DEF RoutesToEveryProducer
  <2>1. TypeOK /\ p \in Node
    BY ConstantsAssumption DEF IInv
  <2>2. PICK d : /\ Distances(p, d)
                 /\ \A m \in DOMAIN d \ (faceless \cup {p}) :
                        \E k \in DOMAIN routes[m] : OnTheWay(d, m, k)
    BY DEF Installed, ProducersReached, Finished
  <2>3. n \in DOMAIN d
    BY <2>1, <2>2, ShortestWalks
  <2> QED  BY <2>1, <2>2, <2>3, LeadsOnTheWay
<1> QED  BY <1>1, Invariance, InstalledAlways, PTL

(* The cost of every route is the distance to a producer it leads to, also  *)
(* where the device of the route hides the channel the cost is taken from.  *)
THEOREM CostsExact == Spec => []CostsAreDistances
<1>1. IInv /\ Installed => CostsAreDistances
  <2> SUFFICES ASSUME IInv, Installed, Finished, NEW n \in Node, NEW k \in DOMAIN routes[n]
               PROVE  \E p \in producers \ {n} :
                          /\ Lengths(Walks(p), n) # {}
                          /\ routes[n][k] = Least(Lengths(Walks(p), n))
                          /\ LeadsTo(Walks(p), n, k)
    BY DEF CostsAreDistances
  <2>1. PICK p \in producers \ {n} : \E d :
            /\ Distances(p, d)
            /\ n \in DOMAIN d /\ routes[n][k] = d[n]
            /\ OnTheWay(d, n, k)
    BY DEF Installed, CostsKept
  <2>2. TypeOK /\ p \in Node
    BY ConstantsAssumption DEF IInv
  <2> QED  BY <2>1, <2>2, ShortestWalks, LeadsOnTheWay
<1> QED  BY <1>1, Invariance, InstalledAlways, PTL
\* No two nodes are joined by channels of different delay.
ParallelAlike ==
    \A u, v \in Node : \A i, j \in Between(u, v) : u # v => Metric(i) = Metric(j)

PromisedRoutes ==
    Finished =>
        \A p \in producers :
            \A n \in Node \ (faceless \cup {p}) :
                Lengths(Walks(p), n) # {} =>
                    \E k \in DOMAIN routes[n] : OnShortestPath(Walks(p), n, k)

\* Nothing is hidden where parallel channels are alike.
LEMMA NoShadows ==
    ASSUME TypeOK, ParallelAlike, NEW walks, NEW n \in Node, NEW k \in DOMAIN channels,
           n \in channels[k].ends
    PROVE  ~ Shadows(walks, n, k)
<1> SUFFICES ASSUME NEW u \in channels[k].ends \ {n}, Distance(n, u) < Metric(k) PROVE FALSE
  BY DEF Shadows
<1>1. k \in Between(n, u)
  BY DEF Between
<1>2. u \in Node
  BY ConstantsAssumption DEF TypeOK
<1>3. u \in Neighbors(n)
  BY <1>1, <1>2 DEF Neighbors
<1>4. PICK j \in Between(n, u) : Metric(j) = Distance(n, u)
  BY <1>3, DistanceIs
<1>5. Metric(j) = Metric(k) /\ Metric(k) \in Nat
  BY <1>1, <1>2, <1>4, ChannelsTyped DEF ParallelAlike
<1> QED  BY <1>4, <1>5

(* Over a topology whose parallel channels are alike, the promise of        *)
(* CalculateRoutes is kept (ndndsim-stack-helper.h:94-96): to every producer*)
(* it is connected with, each node with a stack has a route over a device   *)
(* whose own delay is the first part of a shortest path.                    *)
THEOREM PromiseKept == Spec => [](ParallelAlike => PromisedRoutes)
<1>1. IInv /\ Installed => (ParallelAlike => PromisedRoutes)
  <2> SUFFICES ASSUME IInv, Installed, ParallelAlike, Finished, NEW p \in producers,
                      NEW n \in Node \ (faceless \cup {p}), Lengths(Walks(p), n) # {}
               PROVE  \E k \in DOMAIN routes[n] : OnShortestPath(Walks(p), n, k)
    BY DEF PromisedRoutes
  <2>1. TypeOK /\ p \in Node
    BY ConstantsAssumption DEF IInv
  <2>2. PICK d : /\ Distances(p, d)
                 /\ \A m \in DOMAIN d \ (faceless \cup {p}) :
                        \E k \in DOMAIN routes[m] : OnTheWay(d, m, k)
    BY DEF Installed, ProducersReached, Finished
  <2>3. n \in DOMAIN d
    BY <2>1, <2>2, ShortestWalks
  <2>4. PICK k \in DOMAIN routes[n] : OnTheWay(d, n, k)
    BY <2>2, <2>3
  <2>5. k \in DOMAIN channels /\ n \in channels[k].ends
    BY <2>4 DEF OnTheWay, Between
  <2>6. LeadsTo(Walks(p), n, k)
    BY <2>1, <2>2, <2>3, <2>4, LeadsOnTheWay
  <2>7. ~ Shadows(Walks(p), n, k)
    BY <2>1, <2>5, NoShadows
  <2> QED  BY <2>6, <2>7 DEF LeadsTo
<1> QED  BY <1>1, Invariance, InstalledAlways, PTL
-----------------------------------------------------------------------------
(***************************************************************************)
(* The refinement of ShortestRoutes.                                       *)
(***************************************************************************)
\* Both modules mean the same topology.
LEMMA SameTopology ==
    /\ \A p : Routes!Walks(p) = Walks(p)
    /\ \A walks, n : Routes!Lengths(walks, n) = Lengths(walks, n)
    /\ \A S : Routes!Least(S) = Least(S)
    /\ \A walks, n, k : Routes!LeadsTo(walks, n, k) <=> LeadsTo(walks, n, k)
<1>1. /\ \A k : Routes!Metric(k) = Metric(k)
      /\ \A u, v : Routes!Between(u, v) = Between(u, v)
      /\ \A S : Routes!Least(S) = Least(S)
  BY DEF Routes!Metric, Metric, Routes!Between, Between, Routes!Least, Least
<1>2. \A p : Routes!Walks(p) = Walks(p)
  BY DEF Routes!Walks, Walks, Routes!Longer, Longer, Routes!Metric, Metric,
         Routes!Cardinality, Cardinality
<1>3. \A u, v : Routes!Distance(u, v) = Distance(u, v)
  BY <1>1 DEF Routes!Distance, Distance
<1>4. \A walks, n : Routes!Lengths(walks, n) = Lengths(walks, n)
  BY DEF Routes!Lengths, Lengths
<1>5. \A walks, n, k : Routes!LeadsTo(walks, n, k) <=> LeadsTo(walks, n, k)
  BY <1>1, <1>3, <1>4 DEF Routes!LeadsTo, LeadsTo, Routes!OnShortestPath, OnShortestPath,
                          Routes!Shadows, Shadows
<1> QED  BY <1>1, <1>2, <1>4, <1>5

\* What a finished search installs is what one step of ShortestRoutes does.
LEMMA InstallRoutesRefines ==
    ASSUME IInv, Installed, InstallRoutes
    PROVE  Routes!RouteTo(producer)
<1>1. /\ Settled /\ producer \in producers /\ UNCHANGED <<channels, faceless>>
      /\ todo' = todo \ {producer} /\ DOMAIN routes' = Node
  BY DEF InstallRoutes, Settled, IInv, TypeOK, input
<1> DEFINE walks == Walks(producer)
<1>2. TypeOK /\ producer \in Node /\ Distances(producer, dist)
  BY <1>1, ConstantsAssumption, SearchFindsDistances DEF Installed, IInv
<1>3. \A n : /\ Lengths(walks, n) # {} <=> n \in DOMAIN dist
             /\ n \in DOMAIN dist => Least(Lengths(walks, n)) = dist[n]
  BY <1>2, ShortestWalks
<1>4. \A n \in DOMAIN dist \ {producer} :
          n \in DOMAIN nextHopIf /\ OnTheWay(dist, n, nextHopIf[n])
  BY <1>1, HopsOnTheWay
<1>5. DOMAIN nextHopIf \subseteq DOMAIN dist /\ DOMAIN dist \subseteq Node
  BY DEF IInv, HopsReached, TypeOK, IsFunction
<1>6. ASSUME NEW n \in Node
      PROVE  IF n \notin faceless \cup {producer} /\ Lengths(walks, n) # {}
             THEN Routes!Routed(walks, n) ELSE routes'[n] = routes[n]
  <2>1. n \in Routed <=> n \notin faceless \cup {producer} /\ Lengths(walks, n) # {}
    BY <1>3, <1>4, <1>5 DEF Routed
  <2>2. CASE n \notin Routed
    <3>1. routes'[n] = routes[n]
      BY <2>2 DEF InstallRoutes
    <3> QED  BY <2>1, <2>2, <3>1
  <2>3. CASE n \in Routed
    <3>1. n \in DOMAIN dist \ {producer}
      BY <1>5, <2>3 DEF Routed
    <3>2. PICK k : k = nextHopIf[n]
      OBVIOUS
    <3>3. OnTheWay(dist, n, k)
      BY <1>4, <3>1, <3>2
    <3>4. k \in DOMAIN channels /\ n \in channels[k].ends
      BY <3>3 DEF OnTheWay, Between
    <3>5. LeadsTo(walks, n, k)
      BY <1>2, <3>1, <3>3, LeadsOnTheWay
    <3>6. routes'[n] = [j \in DOMAIN routes[n] \cup {k} |->
                           IF j = k THEN Least(Lengths(walks, n)) ELSE routes[n][j]]
      <4>1. routes'[n] = WithRoute(routes[n], k, dist[n])
        BY <2>3, <3>2 DEF InstallRoutes
      <4> QED  BY <1>3, <3>1, <4>1 DEF WithRoute
    <3>7. Routes!Routed(walks, n)
      BY <3>4, <3>5, <3>6, SameTopology DEF Routes!Routed
    <3> QED  BY <2>1, <2>3, <3>7
  <2> QED  BY <2>2, <2>3
<1> HIDE DEF walks
<1>7. walks = Routes!Walks(producer)
  BY SameTopology DEF walks
<1> QED  BY <1>1, <1>6, <1>7, SameTopology DEF Routes!RouteTo

\* A search is for a producer that is not done.
Searching == producer # Nobody => producer \in todo

LEMMA SearchingAlways == Spec => []Searching
<1>1. Init => Searching
  BY DEF Init, Searching
<1>2. Searching /\ [Next]_vars => Searching'
  <2>1. UNCHANGED <<producer, todo>> => (Searching => Searching')
    BY DEF Searching
  <2>2. NextProducer \/ InstallRoutes => Searching'
    BY DEF NextProducer, InstallRoutes, Searching
  <2>3. Visit \/ UNCHANGED vars => UNCHANGED <<producer, todo>>
    BY DEF Visit, vars
  <2> QED  BY <2>1, <2>2, <2>3 DEF Next
<1> QED  BY <1>1, <1>2, PTL DEF Spec

LEMMA StepRefines ==
    IInv /\ Installed /\ Searching /\ [Next]_vars
        => [Routes!Next]_<<channels, faceless, todo, routes>>
<1>1. ASSUME NextProducer \/ Visit \/ UNCHANGED vars
      PROVE  UNCHANGED <<channels, faceless, todo, routes>>
  BY <1>1 DEF NextProducer, Visit, vars, input
<1>2. ASSUME IInv, Installed, Searching, InstallRoutes
      PROVE  Routes!Next
  <2>1. producer \in todo
    BY <1>2 DEF InstallRoutes, Settled, Searching
  <2> QED  BY <1>2, <2>1, InstallRoutesRefines DEF Routes!Next
<1> QED  BY <1>1, <1>2 DEF Next

(* The search with its heap and the installation of routes are, for every   *)
(* topology, one step of ShortestRoutes for each producer (CalculateRoutes, *)
(* ndndsim-stack-helper.cc:194-284), whose routes are on shortest paths but *)
(* for devices that hide a faster one.                                      *)
THEOREM Refinement == Spec => ImplementsShortestRoutes
<1>1. Init => Routes!Init
  BY DEF Init, Routes!Init
<1> QED  BY <1>1, StepRefines, Invariance, InstalledAlways, SearchingAlways, PTL
         DEF Spec, ImplementsShortestRoutes, Routes!Spec
=============================================================================
