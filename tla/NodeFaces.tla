------------------------------ MODULE NodeFaces -----------------------------
(***************************************************************************)
(* The faces of the nodes and the tables that name them: the interface map *)
(* of NdndStack (model/ndndsim-stack.cc) and of Node (node.go), the faces  *)
(* of SimForwarder (forwarder.go), the process-wide dispatch table, and the*)
(* RIB, FIB and PET of every node, through installation, links that go down*)
(* and come up, DV routing that starts and stops, and routes from scenarios*)
(* and from the router.                                                    *)
(*                                                                         *)
(* All of it runs on the simulator thread, one call after the other.  The  *)
(* RIB recomputes the FIB entry of a name whenever a route of that name    *)
(* changes.  Names that are prefixes of each other, and costs, are left    *)
(* out: a route is a name, a face and an origin.                           *)
(***************************************************************************)
EXTENDS Naturals, FiniteSets

CONSTANTS
    Node,
    Prefix,         \* names that scenarios, producers and the router route
    Interfaces,     \* the number of network devices of every node
    MaxFace         \* bound on the face ids drawn

ASSUME ConstantsAssumption ==
    /\ Interfaces \in Nat
    /\ MaxFace \in Nat
    /\ Prefix \cap {"localhost", "neighbors", "sync"} = {}

Iface == 0..(Interfaces - 1)
FaceID == 1..MaxFace
Name == Prefix \cup {"localhost", "neighbors", "sync"}
Origin == {"app", "nlsr"}
Route == Name \X FaceID \X Origin
Hop == Name \X FaceID

VARIABLES
    globalFaceID,   \* the last face id drawn, by any node
    installed,      \* the nodes that have a stack and a Go node
    m_faceIds,      \* C++: face id of each interface, 0 for none
    ifaceFaces,     \* Go: Node.ifaceFaces, 0 for none
    appFaceID,      \* Go: Node.appFaceID
    faces,          \* Go: SimForwarder.faces
    dispatch,       \* Go: the ids in dispatch.FaceDispatch
    rib,            \* SimForwarder.rib
    fib,            \* SimForwarder.fib
    pet,            \* SimForwarder.pet, its next hops only
    dvRouter,       \* the nodes whose DV router runs
    learned,        \* external: the faces a router may have learned of
    onePhase        \* the build: TRUE for onephase, FALSE for twophase

interfaces == <<globalFaceID, m_faceIds, ifaceFaces, faces, dispatch>>
life == <<installed, appFaceID>>
tables == <<rib, fib, pet>>
routing == <<dvRouter, learned>>
vars == <<interfaces, life, tables, routing, onePhase>>

NetworkFaces(n) == {ifaceFaces[n][i] : i \in Iface} \ {0}

\* The build never changes: its type is the one Init gives it.
TypeOK ==
    /\ globalFaceID \in 0..MaxFace
    /\ installed \subseteq Node
    /\ m_faceIds \in [Node -> [Iface -> 0..MaxFace]]
    /\ ifaceFaces \in [Node -> [Iface -> 0..MaxFace]]
    /\ appFaceID \in [Node -> 0..MaxFace]
    /\ faces \in [Node -> SUBSET FaceID]
    /\ dispatch \subseteq FaceID
    /\ rib \in [Node -> SUBSET Route]
    /\ fib \in [Node -> SUBSET Hop]
    /\ pet \in [Node -> SUBSET Hop]
    /\ dvRouter \subseteq installed
    /\ learned \in [Node -> SUBSET FaceID]

NoInterface == [i \in Iface |-> 0]

Init ==
    /\ globalFaceID = 0
    /\ installed = {}
    /\ m_faceIds = [n \in Node |-> NoInterface]
    /\ ifaceFaces = [n \in Node |-> NoInterface]
    /\ appFaceID = [n \in Node |-> 0]
    /\ faces = [n \in Node |-> {}]
    /\ dispatch = {}
    /\ rib = [n \in Node |-> {}]
    /\ fib = [n \in Node |-> {}]
    /\ pet = [n \in Node |-> {}]
    /\ dvRouter = {}
    /\ learned = [n \in Node |-> {}]
    /\ onePhase \in BOOLEAN
-----------------------------------------------------------------------------
(***************************************************************************)
(* Installation and disposal.                                              *)
(***************************************************************************)
\* Fault: every forwarder counts its own faces.
InstallLocalIds(n) ==
    /\ n \notin installed
    /\ 2 + Interfaces <= MaxFace
    /\ appFaceID' = [appFaceID EXCEPT ![n] = 1]
    /\ ifaceFaces' = [ifaceFaces EXCEPT ![n] = [i \in Iface |-> 3 + i]]
    /\ m_faceIds' = [m_faceIds EXCEPT ![n] = [i \in Iface |-> 3 + i]]
    /\ faces' = [faces EXCEPT ![n] = 1..(2 + Interfaces)]
    /\ dispatch' = dispatch \cup 1..(2 + Interfaces)
    /\ installed' = installed \cup {n}
    /\ UNCHANGED <<globalFaceID, tables, routing>>

\* The first two ids go to the application face and to the face that holds
\* the entry of the management prefix, the others to the devices in order.
Install(n) ==
    /\ n \notin installed
    /\ globalFaceID + 2 + Interfaces <= MaxFace
    /\ LET app == globalFaceID + 1
           mgmt == globalFaceID + 2
           ids == [i \in Iface |-> globalFaceID + 3 + i]
           new == (globalFaceID + 1)..(globalFaceID + 2 + Interfaces)
       IN  /\ appFaceID' = [appFaceID EXCEPT ![n] = app]
           /\ ifaceFaces' = [ifaceFaces EXCEPT ![n] = ids]
           /\ m_faceIds' = [m_faceIds EXCEPT ![n] = ids]
           /\ faces' = [faces EXCEPT ![n] = new]
           /\ dispatch' = dispatch \cup new
           /\ fib' = [fib EXCEPT ![n] = IF onePhase THEN {<<"localhost", mgmt>>} ELSE {}]
           /\ pet' = [pet EXCEPT ![n] = IF onePhase THEN {} ELSE {<<"localhost", mgmt>>}]
    /\ rib' = [rib EXCEPT ![n] = {}]
    /\ globalFaceID' = globalFaceID + 2 + Interfaces
    /\ installed' = installed \cup {n}
    /\ UNCHANGED routing

\* Node.Stop stops router, engine and forwarder; the faces stay in the
\* dispatch table, with a forwarder that nobody calls any more.
DoDispose(n) ==
    /\ n \in installed
    /\ installed' = installed \ {n}
    /\ dvRouter' = dvRouter \ {n}
    /\ m_faceIds' = [m_faceIds EXCEPT ![n] = NoInterface]
    /\ ifaceFaces' = [ifaceFaces EXCEPT ![n] = NoInterface]
    /\ faces' = [faces EXCEPT ![n] = {}]
    /\ rib' = [rib EXCEPT ![n] = {}]
    /\ fib' = [fib EXCEPT ![n] = {}]
    /\ pet' = [pet EXCEPT ![n] = {}]
    /\ UNCHANGED <<globalFaceID, appFaceID, dispatch, learned>>
-----------------------------------------------------------------------------
(***************************************************************************)
(* The RIB: a change of the routes of some names recomputes their FIB      *)
(* entries from the routes that are left.                                  *)
(***************************************************************************)
SetRoutes(n, routes, fibBefore, names) ==
    /\ rib' = [rib EXCEPT ![n] = routes]
    /\ fib' = [fib EXCEPT ![n] = {h \in fibBefore : h[1] \notin names} \cup
                                 {<<r[1], r[2]>> : r \in {q \in routes : q[1] \in names}}]

AddRoutes(n, new) == SetRoutes(n, rib[n] \cup new, fib[n], {r[1] : r \in new})

(* Links. *)

\* RemoveFace takes the face out of RIB, PET and FIB before it forgets it.
\* Fault: the prefix egress table keeps its next hops.
DeactivateInterfaceKeepsPet(n, i) ==
    /\ n \in installed
    /\ m_faceIds[n][i] # 0
    /\ LET f == ifaceFaces[n][i]
       IN  /\ SetRoutes(n, {r \in rib[n] : r[2] # f}, {h \in fib[n] : h[2] # f},
                        {r[1] : r \in {q \in rib[n] : q[2] = f}})
           /\ faces' = [faces EXCEPT ![n] = @ \ {f}]
           /\ dispatch' = dispatch \ {f}
    /\ ifaceFaces' = [ifaceFaces EXCEPT ![n][i] = 0]
    /\ m_faceIds' = [m_faceIds EXCEPT ![n][i] = 0]
    /\ UNCHANGED <<globalFaceID, life, pet, routing>>

DeactivateInterface(n, i) ==
    /\ n \in installed
    /\ m_faceIds[n][i] # 0
    /\ LET f == ifaceFaces[n][i]
       IN  /\ SetRoutes(n, {r \in rib[n] : r[2] # f}, {h \in fib[n] : h[2] # f},
                        {r[1] : r \in {q \in rib[n] : q[2] = f}})
           /\ pet' = [pet EXCEPT ![n] = {h \in @ : h[2] # f}]
           /\ faces' = [faces EXCEPT ![n] = @ \ {f}]
           /\ dispatch' = dispatch \ {f}
    /\ ifaceFaces' = [ifaceFaces EXCEPT ![n][i] = 0]
    /\ m_faceIds' = [m_faceIds EXCEPT ![n][i] = 0]
    /\ UNCHANGED <<globalFaceID, life, routing>>

\* Fault: the new face gets no route to the neighbours.
ReactivateInterfaceBare(n, i) ==
    /\ n \in installed
    /\ m_faceIds[n][i] = 0
    /\ globalFaceID < MaxFace
    /\ LET f == globalFaceID + 1
       IN  /\ faces' = [faces EXCEPT ![n] = @ \cup {f}]
           /\ dispatch' = dispatch \cup {f}
           /\ ifaceFaces' = [ifaceFaces EXCEPT ![n][i] = f]
           /\ m_faceIds' = [m_faceIds EXCEPT ![n][i] = f]
           /\ learned' = [learned EXCEPT ![n] = IF n \in dvRouter THEN @ \cup {f} ELSE @]
    /\ globalFaceID' = globalFaceID + 1
    /\ UNCHANGED <<life, tables, dvRouter>>

ReactivateInterface(n, i) ==
    /\ n \in installed
    /\ m_faceIds[n][i] = 0
    /\ globalFaceID < MaxFace
    /\ LET f == globalFaceID + 1
       IN  /\ faces' = [faces EXCEPT ![n] = @ \cup {f}]
           /\ dispatch' = dispatch \cup {f}
           /\ ifaceFaces' = [ifaceFaces EXCEPT ![n][i] = f]
           /\ m_faceIds' = [m_faceIds EXCEPT ![n][i] = f]
           /\ IF n \in dvRouter
              THEN /\ AddRoutes(n, {<<"neighbors", f, "nlsr">>})
                   /\ learned' = [learned EXCEPT ![n] = @ \cup {f}]
              ELSE UNCHANGED <<rib, fib, learned>>
    /\ globalFaceID' = globalFaceID + 1
    /\ UNCHANGED <<life, pet, dvRouter>>
-----------------------------------------------------------------------------
(***************************************************************************)
(* DV routing.  LinkMulticastPrefixes names the same sync prefixes in both *)
(* builds; one name stands for the two there are.                          *)
(***************************************************************************)
LinkMulticastPrefixes == {"sync"}

StartDv(n) ==
    /\ n \in installed \ dvRouter
    /\ AddRoutes(n, ({"neighbors"} \cup LinkMulticastPrefixes) \X NetworkFaces(n) \X {"nlsr"})
    /\ dvRouter' = dvRouter \cup {n}
    /\ learned' = [learned EXCEPT ![n] = NetworkFaces(n)]
    /\ UNCHANGED <<interfaces, life, pet>>

\* The routes stay; the next StartDv finds them.
StopDv(n) ==
    /\ n \in dvRouter
    /\ dvRouter' = dvRouter \ {n}
    /\ UNCHANGED <<interfaces, life, tables, learned>>

\* Commands of the router name a face it remembers, or none: the application
\* face.  fib/add-nexthop, which no router issues, is left out.
CommandFace(n) == learned[n] \cup {appFaceID[n]}

\* rib/register and rib/unregister.
RibRegister(n, p, f) ==
    /\ n \in dvRouter
    /\ f \in CommandFace(n)
    /\ f \in faces[n]
    /\ AddRoutes(n, {<<p, f, "nlsr">>})
    /\ UNCHANGED <<interfaces, life, pet, routing>>

RibUnregister(n, p, f) ==
    /\ n \in dvRouter
    /\ f \in CommandFace(n)
    /\ SetRoutes(n, rib[n] \ {<<p, f, "nlsr">>}, fib[n], {p})
    /\ UNCHANGED <<interfaces, life, pet, routing>>

\* pet/add-nexthop and pet/remove-nexthop.
PetAddNexthop(n, p, f) ==
    /\ ~onePhase
    /\ n \in dvRouter
    /\ f \in CommandFace(n)
    /\ f \in faces[n]
    /\ pet' = [pet EXCEPT ![n] = @ \cup {<<p, f>>}]
    /\ UNCHANGED <<interfaces, life, rib, fib, routing>>

PetRemoveNexthop(n, p, f) ==
    /\ ~onePhase
    /\ n \in dvRouter
    /\ f \in CommandFace(n)
    /\ pet' = [pet EXCEPT ![n] = @ \ {<<p, f>>}]
    /\ UNCHANGED <<interfaces, life, rib, fib, routing>>
-----------------------------------------------------------------------------
(***************************************************************************)
(* Routes of a scenario, over a face that GetFaceId has just named, and    *)
(* the route of a producer to the application face.                        *)
(***************************************************************************)
AddDirectRoute(n, p, i) ==
    /\ n \in installed
    /\ m_faceIds[n][i] # 0
    /\ LET f == m_faceIds[n][i]
       IN  /\ AddRoutes(n, {<<p, f, "app">>})
           /\ pet' = [pet EXCEPT ![n] = IF onePhase THEN @ ELSE @ \cup {<<p, f>>}]
    /\ UNCHANGED <<interfaces, life, routing>>

\* Fault: the route is taken out of RIB and PET but the FIB is not recomputed.
RemoveDirectRouteKeepsFib(n, p, i) ==
    /\ n \in installed
    /\ m_faceIds[n][i] # 0
    /\ LET f == m_faceIds[n][i]
       IN  /\ rib' = [rib EXCEPT ![n] = @ \ {<<p, f, "app">>}]
           /\ pet' = [pet EXCEPT ![n] = @ \ {<<p, f>>}]
    /\ UNCHANGED <<interfaces, life, fib, routing>>

RemoveDirectRoute(n, p, i) ==
    /\ n \in installed
    /\ m_faceIds[n][i] # 0
    /\ LET f == m_faceIds[n][i]
       IN  /\ SetRoutes(n, rib[n] \ {<<p, f, "app">>}, fib[n], {p})
           /\ pet' = [pet EXCEPT ![n] = @ \ {<<p, f>>}]
    /\ UNCHANGED <<interfaces, life, routing>>

RegisterRoute(n, p) ==
    /\ n \in installed
    /\ LET app == appFaceID[n]
       IN  IF onePhase
           THEN AddRoutes(n, {<<p, app, "app">>}) /\ UNCHANGED pet
           ELSE /\ pet' = [pet EXCEPT ![n] = @ \cup {<<p, app>>}]
                /\ UNCHANGED <<rib, fib>>
    /\ UNCHANGED <<interfaces, life, routing>>

UnregisterRoute(n, p) ==
    /\ n \in installed
    /\ LET app == appFaceID[n]
       IN  IF onePhase
           THEN SetRoutes(n, rib[n] \ {<<p, app, "app">>}, fib[n], {p}) /\ UNCHANGED pet
           ELSE /\ pet' = [pet EXCEPT ![n] = @ \ {<<p, app>>}]
                /\ UNCHANGED <<rib, fib>>
    /\ UNCHANGED <<interfaces, life, routing>>
-----------------------------------------------------------------------------
\* The build of the daemon is settled before the process starts.
Next ==
  /\ UNCHANGED onePhase
  /\ \E n \in Node :
        \/ Install(n) \/ DoDispose(n) \/ StartDv(n) \/ StopDv(n)
        \/ \E i \in Iface : DeactivateInterface(n, i) \/ ReactivateInterface(n, i)
        \/ \E p \in Prefix :
              \/ \E f \in FaceID : \/ RibRegister(n, p, f) \/ RibUnregister(n, p, f)
                                  \/ PetAddNexthop(n, p, f) \/ PetRemoveNexthop(n, p, f)
              \/ \E i \in Iface : AddDirectRoute(n, p, i) \/ RemoveDirectRoute(n, p, i)
              \/ RegisterRoute(n, p) \/ UnregisterRoute(n, p)

Spec == Init /\ [][Next]_vars
-----------------------------------------------------------------------------
(* C++ and Go agree on the face of every interface; that face is in the     *)
(* forwarder and in the dispatch table, and belongs to nothing else in the  *)
(* whole process (node.go AddNetworkFace, forwarder.go globalFaceID).       *)
FacesAgree ==
    /\ m_faceIds = ifaceFaces
    /\ \A n \in Node : \A i \in Iface :
         LET f == ifaceFaces[n][i]
         IN  f # 0 => /\ f \in faces[n]
                      /\ f # appFaceID[n]
                      /\ \A j \in Iface : ifaceFaces[n][j] = f => j = i
    /\ \A n \in Node : faces[n] \subseteq dispatch
    /\ \A n, m \in Node : n # m => faces[n] \cap faces[m] = {}

(* No table of a node names a face the node does not have, however links    *)
(* went down and came up under a router that remembers old faces            *)
(* (forwarder.go RemoveFace, engine.go ExecMgmtCmd).                        *)
NoDanglingRoute ==
    \A n \in Node :
        /\ \A r \in rib[n] : r[2] \in faces[n]
        /\ \A h \in fib[n] \cup pet[n] : h[2] \in faces[n]

(* The FIB shows exactly the routes of the RIB, besides the entry of the    *)
(* management prefix: none lost when another origin leaves, none kept when  *)
(* the last one leaves (forwarder.go AddDirectRoute, RemoveDirectRoute).    *)
FibFollowsRib ==
    \A n \in Node :
        {h \in fib[n] : h[1] # "localhost"} = {<<r[1], r[2]>> : r \in rib[n]}

(* While DV routing runs, neighbours can be reached over every interface    *)
(* that is up, the ones that came up later included (node.go StartDv and    *)
(* AddNetworkFace).                                                         *)
NeighborsOnEveryLink ==
    \A n \in dvRouter : \A f \in NetworkFaces(n) : <<"neighbors", f>> \in fib[n]

\* The port a face is for, of a node whose application and interfaces have the
\* faces app and ids: an interface, the application (after the last interface),
\* or none: the face is gone, or serves the management prefix.
Port(app, ids, f) ==
    IF f = app THEN Interfaces
    ELSE IF \E i \in Iface : ids[i] = f THEN CHOOSE i \in Iface : ids[i] = f
         ELSE Interfaces + 1

UpOf(ids) == {i \in Iface : ids[i] # 0}
RoutesOver(app, ids, routes) == {<<r[1], Port(app, ids, r[2]), r[3]>> : r \in routes}
HopsOver(app, ids, hops) ==
    {<<h[1], Port(app, ids, h[2])>> : h \in {g \in hops : g[1] # "localhost"}}

Ports == INSTANCE PortRoutes WITH
    App <- Interfaces,
    up <- [n \in Node |-> UpOf(m_faceIds[n])],
    routes <- [n \in Node |-> RoutesOver(appFaceID[n], ifaceFaces[n], rib[n])],
    shown <- [n \in Node |-> HopsOver(appFaceID[n], ifaceFaces[n], fib[n])],
    egress <- [n \in Node |-> HopsOver(appFaceID[n], ifaceFaces[n], pet[n])]

(* Faces come and go under routers that remember them, in tables of their   *)
(* own that are cleaned one by one; seen from outside a node has ports: a   *)
(* link that goes down takes its routes along and no others, one that comes *)
(* up is empty but for the neighbours, a command over a face that is gone   *)
(* does nothing, and the FIB shows the routes of the RIB (node.go:190-207,  *)
(* forwarder.go:146-292, engine.go:327-363).                                *)
ImplementsPortRoutes == Ports!Spec

(* In onephase, whose forwarder has no multicast egress, the sync prefixes  *)
(* are forwarded to all link faces while DV routing runs (dv.go and         *)
(* inject.go, comments of LinkMulticastPrefixes).                           *)
SyncOnEveryLink ==
    onePhase => \A n \in dvRouter : \A f \in NetworkFaces(n) :
        \A p \in LinkMulticastPrefixes : <<p, f>> \in fib[n]
=============================================================================
