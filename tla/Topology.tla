------------------------------ MODULE Topology ------------------------------
(***************************************************************************)
(* The ns-3 topology as CalculateRoutes sees it (helper/                   *)
(* ndndsim-stack-helper.cc): nodes and channels with a delay, and distance *)
(* as the length of walks, defined without Dijkstra's algorithm.           *)
(***************************************************************************)
EXTENDS Naturals, FiniteSets

CONSTANT Node

VARIABLE channels   \* of each channel: the nodes at its ends and its delay
-----------------------------------------------------------------------------
\* A channel without a delay, or with one below a microsecond, counts as one.
Metric(k) == IF channels[k].delay = 0 THEN 1 ELSE channels[k].delay

Between(u, v) == {k \in DOMAIN channels : {u, v} \subseteq channels[k].ends}

Neighbors(u) == {v \in Node \ {u} : Between(u, v) # {}}

Least(S) == CHOOSE m \in S : \A n \in S : m <= n

Distance(u, v) == Least({Metric(k) : k \in Between(u, v)})

\* Walks, as pairs of first node and length, and all that start one channel before.
Longer(walks) ==
    walks \cup UNION {IF w[1] \in channels[k].ends
                         THEN {<<n, Metric(k) + w[2]>> : n \in channels[k].ends \ {w[1]}}
                         ELSE {} : w \in walks, k \in DOMAIN channels}

\* The walks that end in p, with at most as many channels as there are nodes:
\* distance without Dijkstra's algorithm.
Walks(p) ==
    LET within[i \in Nat] == IF i = 0 THEN {<<p, 0>>} ELSE Longer(within[i - 1])
    IN  within[Cardinality(Node)]

Lengths(walks, n) == {w[2] : w \in {v \in walks : v[1] = n}}

\* A shortest of some walks from n starts over its device k, by the delay of k itself:
\* "the interface that leads toward the producer along the shortest path"
\* (helper/ndndsim-stack-helper.h:94-96).
OnShortestPath(walks, n, k) ==
    \E u \in channels[k].ends \ {n} :
        /\ Lengths(walks, u) # {}
        /\ Least(Lengths(walks, n)) = Least(Lengths(walks, u)) + Metric(k)

\* A shortest walk from n goes to a node that device k is the first to reach, but over
\* a faster channel between the same two nodes: device k hides it.
Shadows(walks, n, k) ==
    \E u \in channels[k].ends \ {n} :
        /\ Lengths(walks, u) # {}
        /\ Least(Lengths(walks, n)) = Least(Lengths(walks, u)) + Distance(n, u)
        /\ k = Least(Between(n, u)) /\ Distance(n, u) < Metric(k)

\* Where routes go: along shortest paths, except that the device which is found first
\* stands for all that lead to the same neighbour.
LeadsTo(walks, n, k) == OnShortestPath(walks, n, k) \/ Shadows(walks, n, k)
=============================================================================
