------------------------------ MODULE PortRoutes ------------------------------
(***************************************************************************)
(* What the tables of a node promise to the scenario and to the DV router, *)
(* in terms of ports: the network interfaces of the node and its           *)
(* application.  There are no faces here, so that nothing can name one that*)
(* is gone or that belongs to somebody else; what the forwarder shows is   *)
(* what the routes say, at any time.                                       *)
(***************************************************************************)
CONSTANTS
    Node,
    Prefix,     \* names that scenarios, producers and the router route
    Iface,      \* the interfaces of a node
    App         \* the port of its application

VARIABLES
    installed,
    dvRouter,   \* the nodes whose DV router runs
    up,         \* of every node: the interfaces that are up
    routes,     \* of every node: name, port and origin
    shown,      \* of every node: name and port, as the forwarder sees them
    egress      \* the same of the prefix egress table

vars == <<installed, dvRouter, up, routes, shown, egress>>

Init ==
    /\ installed = {} /\ dvRouter = {}
    /\ up = [n \in Node |-> {}]
    /\ routes = [n \in Node |-> {}]
    /\ shown = [n \in Node |-> {}]
    /\ egress = [n \in Node |-> {}]

Install(n) ==
    /\ n \notin installed
    /\ installed' = installed \cup {n}
    /\ up' = [up EXCEPT ![n] = Iface]
    /\ routes' = [routes EXCEPT ![n] = {}]
    /\ egress' = [egress EXCEPT ![n] = {}]
    /\ UNCHANGED dvRouter

Dispose(n) ==
    /\ n \in installed
    /\ installed' = installed \ {n}
    /\ dvRouter' = dvRouter \ {n}
    /\ up' = [up EXCEPT ![n] = {}]
    /\ routes' = [routes EXCEPT ![n] = {}]
    /\ egress' = [egress EXCEPT ![n] = {}]

\* A link that goes down takes along all that was over it, and nothing else.
LinkDown(n, i) ==
    /\ i \in up[n]
    /\ up' = [up EXCEPT ![n] = @ \ {i}]
    /\ routes' = [routes EXCEPT ![n] = {r \in @ : r[2] # i}]
    /\ egress' = [egress EXCEPT ![n] = {h \in @ : h[2] # i}]
    /\ UNCHANGED <<installed, dvRouter>>

\* A link that comes up is empty, but for the way to the neighbours.
LinkUp(n, i) ==
    /\ n \in installed /\ i \in Iface \ up[n]
    /\ up' = [up EXCEPT ![n] = @ \cup {i}]
    /\ routes' = [routes EXCEPT ![n] =
                     IF n \in dvRouter THEN @ \cup {<<"neighbors", i, "nlsr">>} ELSE @]
    /\ UNCHANGED <<installed, dvRouter, egress>>

StartDv(n) ==
    /\ n \in installed \ dvRouter
    /\ dvRouter' = dvRouter \cup {n}
    /\ routes' = [routes EXCEPT ![n] =
                     @ \cup {"neighbors", "sync"} \X up[n] \X {"nlsr"}]
    /\ UNCHANGED <<installed, up, egress>>

StopDv(n) ==
    /\ n \in dvRouter
    /\ dvRouter' = dvRouter \ {n}
    /\ UNCHANGED <<installed, up, routes, egress>>

\* A route is added or removed: of one name, over one port the node has, and
\* whatever the call does it does to that name over that port.
Configure(n, p, port) ==
    /\ UNCHANGED <<installed, dvRouter, up>>
    /\ n \in installed
    /\ \E over \in SUBSET ({p} \X {port} \X {"app", "nlsr"}) :
          routes' = [routes EXCEPT ![n] = {r \in @ : <<r[1], r[2]>> # <<p, port>>} \cup over]
    /\ \E over \in SUBSET {<<p, port>>} :
          egress' = [egress EXCEPT ![n] = (@ \ {<<p, port>>}) \cup over]

Next ==
    /\ \E n \in Node :
          \/ Install(n) \/ Dispose(n) \/ StartDv(n) \/ StopDv(n)
          \/ \E i \in Iface : LinkDown(n, i) \/ LinkUp(n, i)
          \/ \E p \in Prefix : \E port \in up[n] \cup {App} : Configure(n, p, port)
    /\ shown' = [n \in Node |-> {<<r[1], r[2]>> : r \in routes'[n]}]

Spec == Init /\ [][Next]_vars
=============================================================================
