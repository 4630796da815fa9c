--------------------------- MODULE ShortestRoutes ---------------------------
(***************************************************************************)
(* What CalculateRoutes gives: for one producer after the other, a route on*)
(* every other node that is connected with it and has a stack.  Its cost is*)
(* the distance, and its device is on a shortest path or, the exception to *)
(* the promise of ndndsim-stack-helper.h:94-96, hides a faster channel to  *)
(* the same neighbour (Topology!Shadows).                                  *)
(***************************************************************************)
EXTENDS Topology

CONSTANT producers

VARIABLES
    faceless,   \* nodes without a stack
    todo,       \* producers without routes yet
    routes      \* of every node: device to cost

Init ==
    /\ todo = producers
    /\ routes = [n \in Node |-> [k \in {} |-> 0]]

\* Node n, on one of the walks to a producer, gets a route over a device that is on a
\* shortest path or hides one; a device has one route, whatever the producer.
Routed(walks, n) ==
    \E k \in DOMAIN channels :
        /\ n \in channels[k].ends /\ LeadsTo(walks, n, k)
        /\ routes'[n] = [j \in DOMAIN routes[n] \cup {k} |->
                            IF j = k THEN Least(Lengths(walks, n)) ELSE routes[n][j]]

RouteTo(p) ==
    /\ todo' = todo \ {p}
    /\ DOMAIN routes' = Node
    /\ LET walks == Walks(p) IN
       \A n \in Node :
          IF n \notin faceless \cup {p} /\ Lengths(walks, n) # {} THEN Routed(walks, n)
          ELSE routes'[n] = routes[n]
    /\ UNCHANGED <<channels, faceless>>

Next == \E p \in todo : RouteTo(p)

Spec == Init /\ [][Next]_<<channels, faceless, todo, routes>>
=============================================================================
