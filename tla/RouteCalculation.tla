-------------------------- MODULE RouteCalculation --------------------------
(***************************************************************************)
(* NdndStackHelper::CalculateRoutes (helper/ndndsim-stack-helper.cc): for  *)
(* every producer of a prefix, Dijkstra's algorithm over the channels of   *)
(* the ns-3 topology, weighted by delay, and then a route on every other   *)
(* node towards the producer.                                              *)
(*                                                                         *)
(* A device of a node is identified by the channel it is on, and devices   *)
(* are found in the order of their channels.  Visit is one iteration of    *)
(* the loop over the heap, with all edges of the node it takes.  All nodes *)
(* of the topology are among those that get routes.                        *)
(***************************************************************************)
EXTENDS Topology, Sequences

CONSTANTS
    Nobody,
    Channel,        \* channels a topology may have: their nodes and delay
    MaxChannels,
    producers,      \* the nodes that serve the prefix
    Faceless        \* nodes that may be without a stack

ASSUME ConstantsAssumption ==
    /\ IsFiniteSet(Node) /\ Nobody \notin Node
    /\ Channel \subseteq [ends : SUBSET Node, delay : Nat]
    /\ MaxChannels \in Nat
    /\ producers \subseteq Node
    /\ Faceless \subseteq Node

VARIABLES
    faceless,   \* nodes without a stack
    todo,       \* producers whose routes are not installed yet
    producer,   \* the one whose routes are being calculated, or Nobody
    dist,       \* distances from it, of the nodes reached so far
    nextHopIf,  \* and their devices towards it
    pq,         \* the heap
    routes      \* of every node: device to cost

input == <<channels, faceless>>
search == <<dist, nextHopIf, pq>>
vars == <<input, todo, producer, search, routes>>

IsFunction(f, Dom, Rng) == DOMAIN f \subseteq Dom /\ f \in [DOMAIN f -> Rng]

TypeOK ==
    /\ channels \in Seq(Channel)
    /\ faceless \subseteq Node
    /\ todo \subseteq producers
    /\ producer \in producers \cup {Nobody}
    /\ IsFunction(dist, Node, Nat)
    /\ IsFunction(nextHopIf, Node, DOMAIN channels)
    /\ pq \subseteq Nat \X Node
    /\ DOMAIN routes = Node
    /\ \A n \in Node : IsFunction(routes[n], DOMAIN channels, Nat)
-----------------------------------------------------------------------------
Init ==
    /\ channels \in UNION {[1..n -> Channel] : n \in 0..MaxChannels}
    /\ faceless \in SUBSET Faceless
    /\ todo = producers
    /\ producer = Nobody
    /\ dist = [n \in {} |-> 0]
    /\ nextHopIf = [n \in {} |-> 0]
    /\ pq = {}
    /\ routes = [n \in Node |-> [k \in {} |-> 0]]

\* Fault: distances from the last producer are kept.
NextProducerKeepsDist ==
    /\ producer = Nobody
    /\ \E p \in todo :
        /\ producer' = p
        /\ dist' = [n \in DOMAIN dist \cup {p} |-> IF n = p THEN 0 ELSE dist[n]]
        /\ pq' = {<<0, p>>}
    /\ UNCHANGED <<input, todo, nextHopIf, routes>>

\* The search starts at the next producer.  (Their order is left open.)
NextProducer ==
    /\ producer = Nobody
    /\ \E p \in todo :
        /\ producer' = p
        /\ dist' = [n \in {p} |-> 0]
        /\ pq' = {<<0, p>>}
    /\ nextHopIf' = [n \in {} |-> 0]
    /\ UNCHANGED <<input, todo, routes>>

Shorter(v, d) == v \notin DOMAIN dist \/ d < dist[v]

\* The neighbours that node u, at distance d, brings closer.
Improved(u, d) == {v \in Neighbors(u) : Shorter(v, d + Distance(u, v))}

\* What goes on the heap for v: one entry for each of its channels to u that is
\* shorter than all before it.
Pushed(u, v, d) ==
    {<<d + Metric(k), v>> : k \in
        {j \in Between(u, v) :
            /\ Shorter(v, d + Metric(j))
            /\ \A i \in Between(u, v) : i < j => Metric(j) < Metric(i)}}

\* Fault: the distance found first stays.
LowerOnce(u, d, closer) ==
    dist' = [v \in DOMAIN dist \cup closer |->
                IF v \in DOMAIN dist THEN dist[v] ELSE d + Distance(u, v)]

Lower(u, d, closer) ==
    dist' = [v \in DOMAIN dist \cup closer |->
                IF v \in closer THEN d + Distance(u, v) ELSE dist[v]]

\* Fault: the device found when a node is reached first stays.
RedirectOnce(u, closer) ==
    nextHopIf' = [v \in DOMAIN nextHopIf \cup closer |->
                     IF v \in DOMAIN nextHopIf THEN nextHopIf[v] ELSE Least(Between(v, u))]

\* The way back is the first device of v on a channel to u.
Redirect(u, closer) ==
    nextHopIf' = [v \in DOMAIN nextHopIf \cup closer |->
                     IF v \in closer THEN Least(Between(v, u)) ELSE nextHopIf[v]]

\* Fault: the heap gives its greatest entry.
VisitGreatest ==
    /\ \E e \in pq :
        /\ \A f \in pq : e[1] >= f[1]
        /\ IF e[1] > dist[e[2]]
           THEN /\ pq' = pq \ {e}
                /\ UNCHANGED <<dist, nextHopIf>>
           ELSE LET closer == Improved(e[2], e[1]) IN
                /\ pq' = (pq \ {e}) \cup UNION {Pushed(e[2], v, e[1]) : v \in closer}
                /\ Lower(e[2], e[1], closer)
                /\ Redirect(e[2], closer)
    /\ UNCHANGED <<input, todo, producer, routes>>

\* The least entry is taken from the heap; stale ones are dropped.
Visit ==
    /\ \E e \in pq :
        /\ \A f \in pq : e[1] <= f[1]
        /\ IF e[1] > dist[e[2]]
           THEN /\ pq' = pq \ {e}
                /\ UNCHANGED <<dist, nextHopIf>>
           ELSE LET closer == Improved(e[2], e[1]) IN
                /\ pq' = (pq \ {e}) \cup UNION {Pushed(e[2], v, e[1]) : v \in closer}
                /\ Lower(e[2], e[1], closer)
                /\ Redirect(e[2], closer)
    /\ UNCHANGED <<input, todo, producer, routes>>

Settled == producer # Nobody /\ pq = {}

\* A route for n over device k replaces the one over the same device.
WithRoute(table, k, cost) ==
    [j \in DOMAIN table \cup {k} |-> IF j = k THEN cost ELSE table[j]]

Routed == {n \in DOMAIN nextHopIf : n # producer /\ n \notin faceless}

InstallRoutes ==
    /\ Settled
    /\ routes' = [n \in Node |->
                     IF n \in Routed THEN WithRoute(routes[n], nextHopIf[n], dist[n])
                     ELSE routes[n]]
    /\ todo' = todo \ {producer}
    /\ producer' = Nobody
    /\ UNCHANGED <<input, search>>

Next == NextProducer \/ Visit \/ InstallRoutes

Spec == Init /\ [][Next]_vars
-----------------------------------------------------------------------------
(* When the heap is empty no channel leads to a node, or to a shorter way   *)
(* to it, that the search has missed.                                       *)
NoShortcut ==
    Settled =>
        \A u \in DOMAIN dist : \A v \in Neighbors(u) :
            v \in DOMAIN dist /\ dist[v] <= dist[u] + Distance(u, v)

(* Its next hop takes every node closer to the producer, by the length of   *)
(* the shortest of the channels between the two: routes have no loops.  The *)
(* device is the first of these channels, which need not be the shortest.   *)
NextHopsDescend ==
    Settled =>
        \A v \in DOMAIN dist \ {producer} :
            \E u \in DOMAIN dist \ {v} :
                /\ Between(v, u) # {} /\ nextHopIf[v] = Least(Between(v, u))
                /\ dist[v] = dist[u] + Distance(u, v)

\* The nodes whose channels the search has relaxed at their distance.
Expanded == {u \in DOMAIN dist : <<dist[u], u>> \notin pq}

(* The order of the heap makes the search short: a node whose channels have *)
(* been relaxed is never brought closer or redirected again, and every      *)
(* entry that is taken settles one more node or was a stale one, which      *)
(* leaves the heap for good (std::greater, ndndsim-stack-helper.cc:204-219).*)
EachNodeOnce ==
    [][producer' = producer =>
          /\ Expanded \subseteq Expanded'
          /\ \A u \in Expanded :
                /\ dist'[u] = dist[u]
                /\ u \in DOMAIN nextHopIf => nextHopIf'[u] = nextHopIf[u]
          /\ \/ Expanded' # Expanded
             \/ pq' \subseteq pq /\ pq' # pq]_vars

Finished == todo = {} /\ producer = Nobody

Routes == INSTANCE ShortestRoutes

(* Dijkstra's algorithm with its heap, its stale entries and its search back *)
(* for a device (ndndsim-stack-helper.cc:194-284) is one step per producer:  *)
(* a route at the distance on every other node that is connected with it and *)
(* has a stack, over a device on a shortest path, by the delay of the device *)
(* itself, or over the one that hides a faster channel to the same neighbour *)
(* (helper.cc:229-237, against the promise of helper.h:94-96).               *)
ImplementsShortestRoutes == Routes!Spec

(* Whatever routes of other producers did to its table, every node has a    *)
(* route towards every producer it is connected with: over a device that is *)
(* on a shortest path, or that hides a faster one to the same neighbour.    *)
RoutesToEveryProducer ==
    Finished =>
        \A p \in producers :
            LET walks == Walks(p) IN
                \A n \in Node \ (faceless \cup {p}) :
                    Lengths(walks, n) # {} =>
                        \E k \in DOMAIN routes[n] : LeadsTo(walks, n, k)

(* The cost of a route is the distance to a producer it leads to, also when *)
(* its device hides a faster one, whose delay the cost then counts.         *)
CostsAreDistances ==
    Finished =>
        \A n \in Node : \A k \in DOMAIN routes[n] :
            \E p \in producers \ {n} :
                LET walks == Walks(p) IN
                    /\ Lengths(walks, n) # {}
                    /\ routes[n][k] = Least(Lengths(walks, n))
                    /\ LeadsTo(walks, n, k)
=============================================================================
