--------------------------- MODULE NodeFaces_proofs -------------------------
(***************************************************************************)
(* The safety invariants of NodeFaces hold for any number of nodes,        *)
(* interfaces, prefixes and faces, in both builds.                         *)
(*                                                                         *)
(* They are inductive together with three facts: every id in use has been  *)
(* drawn, an installed node has its application face, and no route is for  *)
(* the management prefix, whose FIB entry the RIB does not know.           *)
(*                                                                         *)
(* NodeFaces then implements PortRoutes: on the faces a node has, the port *)
(* determines the face, so that a table without dangling routes and the    *)
(* routes over ports say the same.                                         *)
(***************************************************************************)
EXTENDS NodeFaces, TLAPS

Drawn ==
    /\ dispatch \subseteq 1..globalFaceID
    /\ \A n \in Node : appFaceID[n] <= globalFaceID

AppFaceThere == \A n \in installed : appFaceID[n] \in faces[n]

NoMgmtRoute == \A n \in Node : \A r \in rib[n] : r[1] # "localhost"

IInv ==
    /\ TypeOK
    /\ FacesAgree
    /\ NoDanglingRoute
    /\ FibFollowsRib
    /\ NeighborsOnEveryLink
    /\ Drawn
    /\ AppFaceThere
    /\ NoMgmtRoute
-----------------------------------------------------------------------------
(* What a FIB shows of a set of routes. *)
Hops(routes) == {<<r[1], r[2]>> : r \in routes}
FibOf(before, routes, names) ==
    {h \in before : h[1] \notin names} \cup Hops({q \in routes : q[1] \in names})

\* The FIB shows the routes; no route or hop is over a face outside keep; only
\* routes of the names differ.
Agrees(before, routes) == {h \in before : h[1] # "localhost"} = Hops(routes)
Over(routes, hops, keep) ==
    /\ \A r \in routes : r[1] # "localhost" /\ r[2] \in keep
    /\ \A h \in hops : h[2] \in keep
OnlyNamesDiffer(old, new, names) ==
    \A r \in Route : r[1] \notin names => (r \in old <=> r \in new)

\* A recomputation of some names keeps a FIB that agreed with the RIB in
\* agreement, if the routes of all other names stay what they were.
LEMMA Recomputed ==
    ASSUME NEW old, NEW new, NEW F, NEW names,
           old \subseteq Route, new \subseteq Route, F \subseteq Hop,
           \A r \in new : r[1] # "localhost",
           {h \in F : h[1] # "localhost"} = Hops(old),
           \A r \in Route : r[1] \notin names => (r \in old <=> r \in new)
    PROVE  {h \in FibOf(F, new, names) : h[1] # "localhost"} = Hops(new)
<1> DEFINE G == FibOf(F, new, names)
<1>1. ASSUME NEW h \in G, h[1] # "localhost" PROVE h \in Hops(new)
  <2>1. CASE h \in Hops({q \in new : q[1] \in names})
    BY <2>1 DEF Hops
  <2>2. CASE h \in F /\ h[1] \notin names
    <3>1. h \in Hops(old)
      BY <1>1, <2>2
    <3>2. PICK r \in old : h = <<r[1], r[2]>>
      BY <3>1 DEF Hops
    <3>3. r[1] \notin names
      BY <2>2, <3>2
    <3>4. r \in new
      BY <3>3
    <3> QED  BY <3>2, <3>4 DEF Hops
  <2> QED  BY <2>1, <2>2, <1>1 DEF FibOf
<1>2. ASSUME NEW h \in Hops(new) PROVE h \in G /\ h[1] # "localhost"
  <2>1. PICK r \in new : h = <<r[1], r[2]>>
    BY DEF Hops
  <2>2. h[1] = r[1]
    BY <2>1
  <2>3. CASE r[1] \in names
    BY <2>1, <2>2, <2>3 DEF FibOf, Hops
  <2>4. CASE r[1] \notin names
    <3>1. r \in old
      BY <2>4
    <3>2. h \in Hops(old)
      BY <3>1, <2>1 DEF Hops
    <3> QED  BY <3>2, <2>2, <2>4 DEF FibOf
  <2> QED  BY <2>3, <2>4
<1> QED  BY <1>1, <1>2

\* A change of routes as every action makes it: the tables of one node, over
\* faces in keep, with an old RIB that the FIB before the change agreed with.
LEMMA RoutesSet ==
    ASSUME IInv, NEW n \in Node, NEW old, NEW R, NEW B, NEW names, NEW keep,
           old \subseteq Route, R \subseteq Route, B \subseteq fib[n],
           Over(R, B, keep), Agrees(B, old), OnlyNamesDiffer(old, R, names),
           SetRoutes(n, R, B, names)
    PROVE  /\ rib' \in [Node -> SUBSET Route] /\ fib' \in [Node -> SUBSET Hop]
           /\ rib'[n] = R /\ fib'[n] = FibOf(B, R, names)
           /\ \A m \in Node \ {n} : rib'[m] = rib[m] /\ fib'[m] = fib[m]
           /\ Over(rib'[n], fib'[n], keep)
           /\ FibFollowsRib'
           /\ NoMgmtRoute'
<1> USE DEF Over, Agrees, OnlyNamesDiffer
<1>1. /\ rib \in [Node -> SUBSET Route] /\ fib \in [Node -> SUBSET Hop]
      /\ FibFollowsRib /\ NoMgmtRoute
  BY DEF IInv, TypeOK
<1>2. /\ rib' = [rib EXCEPT ![n] = R]
      /\ fib' = [fib EXCEPT ![n] = FibOf(B, R, names)]
  BY DEF SetRoutes, FibOf, Hops
<1>3. B \subseteq Hop
  BY <1>1
<1>4. FibOf(B, R, names) \subseteq Hop
  <2>1. \A r \in R : <<r[1], r[2]>> \in Hop
    BY DEF Route, Hop
  <2> QED  BY <2>1, <1>3 DEF FibOf, Hops
<1>5. /\ rib' \in [Node -> SUBSET Route] /\ fib' \in [Node -> SUBSET Hop]
      /\ rib'[n] = R /\ fib'[n] = FibOf(B, R, names)
      /\ \A m \in Node \ {n} : rib'[m] = rib[m] /\ fib'[m] = fib[m]
  BY <1>1, <1>2, <1>4
<1>6. \A h \in FibOf(B, R, names) : h[2] \in keep
  BY DEF FibOf, Hops
<1>7. {h \in FibOf(B, R, names) : h[1] # "localhost"} = Hops(R)
  BY <1>3, Recomputed
<1>8. FibFollowsRib'
  <2>1. ASSUME NEW m \in Node
        PROVE  {h \in fib'[m] : h[1] # "localhost"} = Hops(rib'[m])
    BY <1>1, <1>5, <1>7 DEF FibFollowsRib, Hops
  <2> QED  BY <2>1 DEF FibFollowsRib, Hops
<1>9. NoMgmtRoute'
  BY <1>1, <1>5 DEF NoMgmtRoute
<1> QED  BY <1>5, <1>6, <1>8, <1>9

\* The same for an action that leaves the faces alone and does not touch the
\* routes to the neighbours, or only adds routes.
LEMMA TableStep ==
    ASSUME IInv, NEW n \in Node, NEW R, NEW names,
           R \subseteq Route,
           Over(R, {}, faces[n]), OnlyNamesDiffer(rib[n], R, names),
           "neighbors" \notin names \/ rib[n] \subseteq R,
           SetRoutes(n, R, fib[n], names),
           pet' \in [Node -> SUBSET Hop],
           \A m \in Node : \A h \in pet'[m] : h[2] \in faces[m],
           UNCHANGED <<interfaces, life, routing>>
    PROVE  IInv'
<1> USE DEF interfaces, life, routing
<1>1. TypeOK /\ FacesAgree /\ NoDanglingRoute /\ FibFollowsRib
      /\ NeighborsOnEveryLink /\ Drawn /\ AppFaceThere
  BY DEF IInv
<1>2. rib[n] \subseteq Route /\ Agrees(fib[n], rib[n]) /\ Over(R, fib[n], faces[n])
  BY <1>1 DEF TypeOK, FibFollowsRib, NoDanglingRoute, Hops, Agrees, Over
<1>3. /\ rib' \in [Node -> SUBSET Route] /\ fib' \in [Node -> SUBSET Hop]
      /\ rib'[n] = R /\ fib'[n] = FibOf(fib[n], R, names)
      /\ \A m \in Node \ {n} : rib'[m] = rib[m] /\ fib'[m] = fib[m]
      /\ Over(rib'[n], fib'[n], faces[n])
      /\ FibFollowsRib' /\ NoMgmtRoute'
  <2> HIDE DEF IInv
  <2> QED  BY <1>2, RoutesSet
<1>4. TypeOK'
  BY <1>1, <1>3 DEF TypeOK
<1>5. FacesAgree' /\ Drawn' /\ AppFaceThere'
  BY <1>1 DEF FacesAgree, Drawn, AppFaceThere
<1>6. NoDanglingRoute'
  BY <1>1, <1>3 DEF NoDanglingRoute, Over
<1>7. NeighborsOnEveryLink'
  <2> SUFFICES ASSUME NEW m \in dvRouter, NEW f \in NetworkFaces(m)
               PROVE  <<"neighbors", f>> \in fib'[m]
    BY DEF NeighborsOnEveryLink, NetworkFaces
  <2>1. m \in Node /\ <<"neighbors", f>> \in fib[m]
    BY <1>1 DEF NeighborsOnEveryLink, TypeOK
  <2>2. CASE m # n
    BY <2>1, <2>2, <1>3
  <2>3. CASE m = n /\ "neighbors" \notin names
    BY <2>1, <2>3, <1>3 DEF FibOf
  <2>4. CASE m = n /\ "neighbors" \in names /\ rib[n] \subseteq R
    <3>1. <<"neighbors", f>> \in Hops(rib[n])
      BY <2>1, <2>4, <1>2 DEF Agrees
    <3>2. <<"neighbors", f>> \in Hops({q \in R : q[1] \in names})
      BY <3>1, <2>4 DEF Hops
    <3> QED  BY <3>2, <2>4, <1>3 DEF FibOf
  <2> QED  BY <2>2, <2>3, <2>4
<1> QED  BY <1>3, <1>4, <1>5, <1>6, <1>7 DEF IInv
-----------------------------------------------------------------------------
\* What the invariant gives of one node, for the lemmas below.
LEMMA NodeFacts ==
    ASSUME IInv, NEW n \in Node
    PROVE  /\ rib[n] \subseteq Route /\ fib[n] \subseteq Hop /\ pet[n] \subseteq Hop
           /\ faces[n] \subseteq 1..globalFaceID /\ globalFaceID \in 0..MaxFace
           /\ NetworkFaces(n) \subseteq faces[n]
           /\ Agrees(fib[n], rib[n]) /\ Over(rib[n], fib[n] \cup pet[n], faces[n])
<1>1. TypeOK /\ FacesAgree /\ NoDanglingRoute /\ FibFollowsRib /\ Drawn /\ NoMgmtRoute
  BY DEF IInv
<1>2. /\ rib[n] \subseteq Route /\ fib[n] \subseteq Hop /\ pet[n] \subseteq Hop
      /\ globalFaceID \in 0..MaxFace
  BY <1>1 DEF TypeOK
<1>3. faces[n] \subseteq 1..globalFaceID
  <2>1. faces[n] \subseteq dispatch
    BY <1>1 DEF FacesAgree
  <2> QED  BY <2>1, <1>1 DEF Drawn
<1>5. NetworkFaces(n) \subseteq faces[n]
  <2>1. \A i \in Iface : ifaceFaces[n][i] # 0 => ifaceFaces[n][i] \in faces[n]
    BY <1>1 DEF FacesAgree
  <2> QED  BY <2>1 DEF NetworkFaces
<1>4. Agrees(fib[n], rib[n]) /\ Over(rib[n], fib[n] \cup pet[n], faces[n])
  BY <1>1 DEF FibFollowsRib, NoDanglingRoute, NoMgmtRoute, Agrees, Over, Hops
<1> QED  BY <1>2, <1>3, <1>4, <1>5

\* New routes over faces the node has.
LEMMA RoutesAdded ==
    ASSUME IInv, NEW n \in Node, NEW new,
           new \subseteq Route, Over(new, {}, faces[n]),
           AddRoutes(n, new),
           pet' \in [Node -> SUBSET Hop],
           \A m \in Node : \A h \in pet'[m] : h[2] \in faces[m],
           UNCHANGED <<interfaces, life, routing>>
    PROVE  IInv'
<1> DEFINE R == rib[n] \cup new
           names == {r[1] : r \in new}
<1>1. R \subseteq Route /\ Over(R, {}, faces[n])
  <2>1. rib[n] \subseteq Route /\ Over(rib[n], fib[n] \cup pet[n], faces[n])
    BY NodeFacts
  <2> QED  BY <2>1 DEF Over
<1>2. OnlyNamesDiffer(rib[n], R, names)
  BY DEF OnlyNamesDiffer
<1>3. rib[n] \subseteq R /\ SetRoutes(n, R, fib[n], names)
  BY DEF AddRoutes
<1> HIDE DEF R, names, IInv
<1> QED  BY <1>1, <1>2, <1>3, TableStep

\* One route of a name of the scenario or the router less.
LEMMA RouteRemoved ==
    ASSUME IInv, NEW n \in Node, NEW p \in Prefix, NEW f, NEW o,
           SetRoutes(n, rib[n] \ {<<p, f, o>>}, fib[n], {p}),
           pet' \in [Node -> SUBSET Hop],
           \A m \in Node : \A h \in pet'[m] : h[2] \in faces[m],
           UNCHANGED <<interfaces, life, routing>>
    PROVE  IInv'
<1> DEFINE R == rib[n] \ {<<p, f, o>>}
           names == {p}
<1>1. R \subseteq Route /\ Over(R, {}, faces[n])
  <2>1. rib[n] \subseteq Route /\ Over(rib[n], fib[n] \cup pet[n], faces[n])
    BY NodeFacts
  <2> QED  BY <2>1 DEF Over
<1>2. OnlyNamesDiffer(rib[n], R, names)
  BY DEF OnlyNamesDiffer
<1>3. "neighbors" \notin names /\ SetRoutes(n, R, fib[n], names)
  BY ConstantsAssumption
<1> HIDE DEF R, names, IInv
<1> QED  BY <1>1, <1>2, <1>3, TableStep

\* The prefix egress table of one node changes; the FIB stays.
LEMMA OnlyPet ==
    ASSUME IInv, UNCHANGED <<rib, fib>>,
           pet' \in [Node -> SUBSET Hop],
           \A m \in Node : \A h \in pet'[m] : h[2] \in faces[m],
           UNCHANGED <<interfaces, life, routing>>
    PROVE  IInv'
<1> USE DEF interfaces, life, routing
<1>1. TypeOK' /\ NoDanglingRoute'
  BY DEF IInv, TypeOK, NoDanglingRoute
<1>2. FacesAgree' /\ FibFollowsRib' /\ NeighborsOnEveryLink'
  BY DEF IInv, FacesAgree, FibFollowsRib, NeighborsOnEveryLink, NetworkFaces
<1>3. Drawn' /\ AppFaceThere' /\ NoMgmtRoute'
  BY DEF IInv, Drawn, AppFaceThere, NoMgmtRoute
<1> QED  BY <1>1, <1>2, <1>3 DEF IInv

\* The two ways an action treats that table.
LEMMA PetUnchanged ==
    ASSUME IInv, UNCHANGED pet
    PROVE  /\ pet' \in [Node -> SUBSET Hop]
           /\ \A m \in Node : \A h \in pet'[m] : h[2] \in faces[m]
BY DEF IInv, TypeOK, NoDanglingRoute

LEMMA PetChanged ==
    ASSUME IInv, NEW n \in Node, NEW hops,
           pet' = [pet EXCEPT ![n] = hops],
           \A h \in hops : h \in pet[n] \/ (h \in Hop /\ h[2] \in faces[n])
    PROVE  /\ pet' \in [Node -> SUBSET Hop]
           /\ \A m \in Node : \A h \in pet'[m] : h[2] \in faces[m]
<1>1. pet \in [Node -> SUBSET Hop] /\ NoDanglingRoute
  BY DEF IInv, TypeOK
<1>2. hops \subseteq Hop /\ \A h \in hops : h[2] \in faces[n]
  BY <1>1 DEF NoDanglingRoute
<1>3. /\ pet' \in [Node -> SUBSET Hop] /\ pet'[n] = hops
      /\ \A m \in Node \ {n} : pet'[m] = pet[m]
  BY <1>1, <1>2
<1> QED  BY <1>1, <1>2, <1>3 DEF NoDanglingRoute
-----------------------------------------------------------------------------
(* The actions that change faces, one lemma each. *)
LEMMA DvStarted ==
    ASSUME IInv, NEW n \in Node, StartDv(n)
    PROVE  IInv'
<1> DEFINE names == {"neighbors"} \cup LinkMulticastPrefixes
           new == names \X NetworkFaces(n) \X {"nlsr"}
           R == rib[n] \cup new
           changed == {r[1] : r \in new}
<1>1. TypeOK /\ FacesAgree /\ NoDanglingRoute /\ NeighborsOnEveryLink
      /\ Drawn /\ AppFaceThere
  BY DEF IInv
<1>2. /\ AddRoutes(n, new) /\ dvRouter' = dvRouter \cup {n}
      /\ learned' = [learned EXCEPT ![n] = NetworkFaces(n)] /\ n \in installed
      /\ UNCHANGED <<globalFaceID, m_faceIds, ifaceFaces, faces, dispatch,
                     installed, appFaceID, pet>>
  BY DEF StartDv, interfaces, life
<1>3. NetworkFaces(n) \subseteq FaceID
  BY <1>1 DEF TypeOK, NetworkFaces, FaceID
<1>4. /\ rib[n] \subseteq Route /\ Agrees(fib[n], rib[n])
      /\ Over(rib[n], fib[n], faces[n]) /\ NetworkFaces(n) \subseteq faces[n]
  BY NodeFacts DEF Over
<1>5. names \subseteq {"neighbors", "sync"}
  BY DEF LinkMulticastPrefixes
<1>6. R \subseteq Route /\ Over(R, fib[n], faces[n])
  <2>1. new \subseteq Route
    BY <1>3, <1>5 DEF Route, Name, Origin
  <2>2. \A r \in new : r[1] # "localhost" /\ r[2] \in faces[n]
    BY <1>4, <1>5
  <2> QED  BY <2>1, <2>2, <1>4 DEF Over
<1>7. OnlyNamesDiffer(rib[n], R, changed)
  BY DEF OnlyNamesDiffer
<1>8. SetRoutes(n, R, fib[n], changed)
  BY <1>2 DEF AddRoutes
<1>9. /\ rib' \in [Node -> SUBSET Route] /\ fib' \in [Node -> SUBSET Hop]
      /\ rib'[n] = R /\ fib'[n] = FibOf(fib[n], R, changed)
      /\ \A m \in Node \ {n} : rib'[m] = rib[m] /\ fib'[m] = fib[m]
      /\ Over(rib'[n], fib'[n], faces[n])
      /\ FibFollowsRib' /\ NoMgmtRoute'
  <2> HIDE DEF R, changed, IInv
  <2> QED  BY <1>4, <1>6, <1>7, <1>8, RoutesSet
<1>10. TypeOK'
  BY <1>1, <1>2, <1>3, <1>9 DEF TypeOK
<1>11. FacesAgree' /\ Drawn' /\ AppFaceThere'
  BY <1>1, <1>2 DEF FacesAgree, Drawn, AppFaceThere
<1>12. NoDanglingRoute'
  BY <1>1, <1>2, <1>9 DEF NoDanglingRoute, Over
<1>13. NeighborsOnEveryLink'
  <2> SUFFICES ASSUME NEW m \in dvRouter', NEW f \in NetworkFaces(m)
               PROVE  <<"neighbors", f>> \in fib'[m]
    BY <1>2 DEF NeighborsOnEveryLink, NetworkFaces
  <2>1. CASE m # n
    BY <2>1, <1>1, <1>2, <1>9 DEF NeighborsOnEveryLink, TypeOK
  <2>2. CASE m = n
    <3>1. <<"neighbors", f, "nlsr">> \in new
      BY <2>2
    <3>2. PICK r \in new : r = <<"neighbors", f, "nlsr">>
      BY <3>1
    <3>3. r \in R /\ r[1] \in changed /\ <<"neighbors", f>> = <<r[1], r[2]>>
      BY <3>2
    <3> QED  BY <2>2, <3>3, <1>9 DEF FibOf, Hops
  <2> QED  BY <2>1, <2>2
<1> QED  BY <1>9, <1>10, <1>11, <1>12, <1>13 DEF IInv

LEMMA DvStopped ==
    ASSUME IInv, NEW n \in Node, StopDv(n)
    PROVE  IInv'
<1> USE DEF StopDv, interfaces, life, tables
<1>1. TypeOK' /\ FacesAgree' /\ NoDanglingRoute' /\ FibFollowsRib'
  BY DEF IInv, TypeOK, FacesAgree, NoDanglingRoute, FibFollowsRib
<1>2. NeighborsOnEveryLink'
  BY DEF IInv, NeighborsOnEveryLink, NetworkFaces
<1>3. Drawn' /\ AppFaceThere' /\ NoMgmtRoute'
  BY DEF IInv, Drawn, AppFaceThere, NoMgmtRoute
<1> QED  BY <1>1, <1>2, <1>3 DEF IInv

LEMMA LinkDown ==
    ASSUME IInv, NEW n \in Node, NEW i \in Iface, DeactivateInterface(n, i)
    PROVE  IInv'
<1> DEFINE f == ifaceFaces[n][i]
           keep == faces[n] \ {f}
           old == {r \in rib[n] : r[2] # f}
           B == {h \in fib[n] : h[2] # f}
           names == {r[1] : r \in {q \in rib[n] : q[2] = f}}
<1>1. TypeOK /\ FacesAgree /\ NoDanglingRoute /\ NeighborsOnEveryLink
      /\ Drawn /\ AppFaceThere
  BY DEF IInv
<1>2. /\ SetRoutes(n, old, B, names)
      /\ pet' = [pet EXCEPT ![n] = {h \in @ : h[2] # f}]
      /\ faces' = [faces EXCEPT ![n] = keep] /\ dispatch' = dispatch \ {f}
      /\ ifaceFaces' = [ifaceFaces EXCEPT ![n][i] = 0]
      /\ m_faceIds' = [m_faceIds EXCEPT ![n][i] = 0]
      /\ f # 0
      /\ UNCHANGED <<globalFaceID, installed, appFaceID, dvRouter, learned>>
  BY <1>1 DEF DeactivateInterface, life, routing, FacesAgree
<1>3. /\ rib[n] \subseteq Route /\ fib[n] \subseteq Hop /\ Agrees(fib[n], rib[n])
      /\ Over(rib[n], fib[n] \cup pet[n], faces[n])
  BY NodeFacts
<1>4. /\ old \subseteq Route /\ B \subseteq fib[n]
      /\ Over(old, B, keep) /\ OnlyNamesDiffer(old, old, names)
  BY <1>3 DEF Over, OnlyNamesDiffer
<1>5. Agrees(B, old)
  <2>1. ASSUME NEW h \in Hops(old) PROVE h \in B /\ h[1] # "localhost"
    <3>1. PICK r \in old : h = <<r[1], r[2]>>
      BY DEF Hops
    <3>2. h \in Hops(rib[n]) /\ h[2] # f
      BY <3>1 DEF Hops
    <3> QED  BY <3>2, <1>3 DEF Agrees
  <2>2. ASSUME NEW h \in B, h[1] # "localhost" PROVE h \in Hops(old)
    <3>1. h \in Hops(rib[n]) /\ h[2] # f
      BY <2>2, <1>3 DEF Agrees
    <3>2. PICK r \in rib[n] : h = <<r[1], r[2]>>
      BY <3>1 DEF Hops
    <3> QED  BY <3>1, <3>2 DEF Hops
  <2> QED  BY <2>1, <2>2 DEF Agrees
<1>6. /\ rib' \in [Node -> SUBSET Route] /\ fib' \in [Node -> SUBSET Hop]
      /\ rib'[n] = old /\ fib'[n] = FibOf(B, old, names)
      /\ \A m \in Node \ {n} : rib'[m] = rib[m] /\ fib'[m] = fib[m]
      /\ Over(rib'[n], fib'[n], keep)
      /\ FibFollowsRib' /\ NoMgmtRoute'
  <2> HIDE DEF old, B, names, keep, IInv
  <2> QED  BY <1>2, <1>4, <1>5, RoutesSet
<1>7. /\ pet' \in [Node -> SUBSET Hop] /\ faces' \in [Node -> SUBSET FaceID]
      /\ ifaceFaces' \in [Node -> [Iface -> 0..MaxFace]]
  <2>1. pet' \in [Node -> SUBSET Hop]
    <3>1. pet \in [Node -> SUBSET Hop] /\ {h \in pet[n] : h[2] # f} \subseteq Hop
      BY <1>1 DEF TypeOK
    <3> QED  BY <3>1, <1>2
  <2>2. faces' \in [Node -> SUBSET FaceID]
    <3>1. faces \in [Node -> SUBSET FaceID] /\ keep \subseteq FaceID
      BY <1>1 DEF TypeOK
    <3> HIDE DEF keep
    <3> QED  BY <3>1, <1>2
  <2>3. ifaceFaces' \in [Node -> [Iface -> 0..MaxFace]]
    <3>1. ifaceFaces \in [Node -> [Iface -> 0..MaxFace]] /\ 0 \in 0..MaxFace
      BY <1>1, ConstantsAssumption DEF TypeOK
    <3> QED  BY <3>1, <1>2
  <2> QED  BY <2>1, <2>2, <2>3
<1>8. /\ faces'[n] = keep /\ \A m \in Node \ {n} : faces'[m] = faces[m]
      /\ pet'[n] = {h \in pet[n] : h[2] # f}
      /\ \A m \in Node \ {n} : pet'[m] = pet[m]
  BY <1>1, <1>2 DEF TypeOK
<1>9. /\ ifaceFaces'[n][i] = 0
      /\ \A m \in Node : \A j \in Iface :
           m # n \/ j # i => ifaceFaces'[m][j] = ifaceFaces[m][j]
  BY <1>1, <1>2 DEF TypeOK
<1>10. TypeOK'
  <2>1. m_faceIds' = ifaceFaces'
    BY <1>1, <1>2 DEF FacesAgree
  <2>2. dispatch' \subseteq FaceID
    BY <1>1, <1>2 DEF TypeOK
  <2> QED  BY <2>1, <2>2, <1>1, <1>2, <1>6, <1>7 DEF TypeOK
<1>11. FacesAgree'
  <2>1. m_faceIds' = ifaceFaces'
    BY <1>1, <1>2 DEF FacesAgree
  <2>2. ASSUME NEW m \in Node, NEW j \in Iface, ifaceFaces'[m][j] # 0
        PROVE  /\ ifaceFaces'[m][j] \in faces'[m]
               /\ ifaceFaces'[m][j] # appFaceID'[m]
               /\ \A k \in Iface : ifaceFaces'[m][k] = ifaceFaces'[m][j] => k = j
    <3>1. m # n \/ j # i
      BY <2>2, <1>9
    <3>2. ifaceFaces'[m][j] = ifaceFaces[m][j]
      BY <3>1, <1>9
    <3>3. /\ ifaceFaces[m][j] \in faces[m] /\ ifaceFaces[m][j] # appFaceID[m]
          /\ \A k \in Iface : ifaceFaces[m][k] = ifaceFaces[m][j] => k = j
      BY <1>1, <2>2, <3>2 DEF FacesAgree
    <3>4. ifaceFaces'[m][j] \in faces'[m]
      <4>1. CASE m # n
        BY <4>1, <3>2, <3>3, <1>8
      <4>2. CASE m = n
        <5>1. f # ifaceFaces[m][j]
          BY <4>2, <3>1, <3>3
        <5> QED  BY <5>1, <4>2, <3>2, <3>3, <1>8
      <4> QED  BY <4>1, <4>2
    <3>5. \A k \in Iface : ifaceFaces'[m][k] = ifaceFaces'[m][j] => k = j
      BY <2>2, <3>2, <3>3, <1>9
    <3> QED  BY <3>2, <3>3, <3>4, <3>5, <1>2
  <2>3. \A m \in Node : faces'[m] \subseteq dispatch'
    <3>1. ASSUME NEW m \in Node, m # n PROVE f \notin faces[m]
      <4>1. f \in faces[n] /\ faces[n] \cap faces[m] = {}
        BY <3>1, <1>1, <1>2 DEF FacesAgree
      <4> QED  BY <4>1
    <3> QED  BY <3>1, <1>1, <1>2, <1>8 DEF FacesAgree
  <2>4. \A m, k \in Node : m # k => faces'[m] \cap faces'[k] = {}
    <3>1. \A m \in Node : faces'[m] \subseteq faces[m]
      BY <1>8
    <3>2. \A m, k \in Node : m # k => faces[m] \cap faces[k] = {}
      BY <1>1 DEF FacesAgree
    <3> QED  BY <3>1, <3>2
  <2> QED  BY <2>1, <2>2, <2>3, <2>4 DEF FacesAgree
<1>12. NoDanglingRoute'
  <2> SUFFICES ASSUME NEW m \in Node
               PROVE  /\ \A r \in rib'[m] : r[2] \in faces'[m]
                      /\ \A h \in fib'[m] \cup pet'[m] : h[2] \in faces'[m]
    BY DEF NoDanglingRoute
  <2>1. CASE m # n
    BY <2>1, <1>1, <1>6, <1>8 DEF NoDanglingRoute
  <2>2. CASE m = n
    BY <2>2, <1>3, <1>6, <1>8 DEF Over
  <2> QED  BY <2>1, <2>2
<1>13. NeighborsOnEveryLink'
  <2> SUFFICES ASSUME NEW m \in dvRouter', NEW g \in NetworkFaces(m)'
               PROVE  <<"neighbors", g>> \in fib'[m]
    BY DEF NeighborsOnEveryLink
  <2>1. m \in dvRouter /\ m \in Node
    BY <1>1, <1>2 DEF TypeOK
  <2>2. PICK j \in Iface : g = ifaceFaces'[m][j] /\ g # 0
    BY DEF NetworkFaces
  <2>3. (m # n \/ j # i) /\ g = ifaceFaces[m][j]
    BY <2>1, <2>2, <1>9
  <2>4. <<"neighbors", g>> \in fib[m]
    BY <2>1, <2>2, <2>3, <1>1 DEF NeighborsOnEveryLink, NetworkFaces
  <2>5. CASE m # n
    BY <2>1, <2>4, <2>5, <1>6
  <2>6. CASE m = n
    <3>1. g # f
      BY <2>2, <2>3, <2>6, <1>1, <1>2 DEF FacesAgree
    <3>2. <<"neighbors", g>> \in Hops(old)
      BY <3>1, <2>4, <2>6, <1>5 DEF Agrees
    <3>3. fib'[n] = FibOf(B, old, names) /\ <<"neighbors", g>> \in B
      BY <3>1, <2>4, <2>6, <1>6
    <3> QED  BY <3>2, <3>3, <2>6 DEF FibOf, Hops
  <2> QED  BY <2>5, <2>6
<1>14. Drawn'
  BY <1>1, <1>2 DEF Drawn
<1>15. AppFaceThere'
  <2>1. installed \subseteq Node
    BY <1>1 DEF TypeOK
  <2>2. n \in installed => f # appFaceID[n]
    BY <1>1, <1>2 DEF FacesAgree
  <2> QED  BY <2>1, <2>2, <1>1, <1>2, <1>8 DEF AppFaceThere
<1> QED  BY <1>6, <1>10, <1>11, <1>12, <1>13, <1>14, <1>15 DEF IInv

\* The face ids that an action draws are in no table and no interface map.
LEMMA NewFace ==
    ASSUME IInv, NEW g \in Nat, g > globalFaceID
    PROVE  /\ g \notin dispatch /\ g # 0
           /\ \A m \in Node : /\ g \notin faces[m] /\ g # appFaceID[m]
                              /\ \A j \in Iface : ifaceFaces[m][j] # g
<1>1. TypeOK /\ FacesAgree /\ Drawn
  BY DEF IInv
<1>2. globalFaceID \in Nat /\ g \notin 1..globalFaceID /\ g # 0
  BY <1>1, ConstantsAssumption DEF TypeOK
<1>3. g \notin dispatch
  BY <1>1, <1>2 DEF Drawn
<1>4. ASSUME NEW m \in Node PROVE g \notin faces[m]
  BY <1>1, <1>3 DEF FacesAgree
<1>5. ASSUME NEW m \in Node PROVE g # appFaceID[m]
  BY <1>1, <1>2, ConstantsAssumption DEF Drawn, TypeOK
<1>6. ASSUME NEW m \in Node, NEW j \in Iface PROVE ifaceFaces[m][j] # g
  BY <1>1, <1>2, <1>4 DEF FacesAgree
<1> QED  BY <1>2, <1>3, <1>4, <1>5, <1>6

LEMMA LinkUp ==
    ASSUME IInv, NEW n \in Node, NEW i \in Iface, ReactivateInterface(n, i)
    PROVE  IInv'
<1> DEFINE f == globalFaceID + 1
           keep == faces[n] \cup {f}
           new == {<<"neighbors", f, "nlsr">>}
           R == rib[n] \cup new
           names == {r[1] : r \in new}
<1>1. TypeOK /\ FacesAgree /\ NoDanglingRoute /\ FibFollowsRib /\ NeighborsOnEveryLink
      /\ Drawn /\ AppFaceThere /\ NoMgmtRoute
  BY DEF IInv
<1>2. /\ n \in installed /\ globalFaceID < MaxFace
      /\ ifaceFaces[n][i] = 0
      /\ faces' = [faces EXCEPT ![n] = keep] /\ dispatch' = dispatch \cup {f}
      /\ ifaceFaces' = [ifaceFaces EXCEPT ![n][i] = f]
      /\ m_faceIds' = [m_faceIds EXCEPT ![n][i] = f]
      /\ globalFaceID' = globalFaceID + 1
      /\ UNCHANGED <<installed, appFaceID, pet, dvRouter>>
  BY <1>1 DEF ReactivateInterface, life, FacesAgree
<1>3. f \in FaceID /\ f \in Nat /\ f > globalFaceID
  BY <1>1, <1>2, ConstantsAssumption DEF TypeOK, FaceID
<1>4. /\ f \notin dispatch /\ f # 0
      /\ \A m \in Node : /\ f \notin faces[m] /\ f # appFaceID[m]
                         /\ \A j \in Iface : ifaceFaces[m][j] # f
  <2> HIDE DEF f, IInv
  <2> QED  BY <1>3, NewFace
<1>5. /\ rib[n] \subseteq Route /\ fib[n] \subseteq Hop /\ Agrees(fib[n], rib[n])
      /\ Over(rib[n], fib[n] \cup pet[n], faces[n])
  BY NodeFacts
\* With a router the new face gets a route, without one the tables stay.
<1>6. /\ rib' \in [Node -> SUBSET Route] /\ fib' \in [Node -> SUBSET Hop]
      /\ \A m \in Node \ {n} : rib'[m] = rib[m] /\ fib'[m] = fib[m]
      /\ Over(rib'[n], fib'[n], keep)
      /\ FibFollowsRib' /\ NoMgmtRoute'
      /\ learned' \in [Node -> SUBSET FaceID]
      /\ fib[n] \subseteq fib'[n]
      /\ n \in dvRouter => <<"neighbors", f>> \in fib'[n]
  <2>1. CASE n \in dvRouter
    <3>1. SetRoutes(n, R, fib[n], names) /\ learned' = [learned EXCEPT ![n] = @ \cup {f}]
      BY <2>1 DEF ReactivateInterface, AddRoutes
    <3>2. <<"neighbors", f, "nlsr">> \in Route
      BY <1>3 DEF Route, Name, Origin
    <3>3. R \subseteq Route /\ Over(R, fib[n], keep) /\ OnlyNamesDiffer(rib[n], R, names)
      BY <3>2, <1>5 DEF Over, OnlyNamesDiffer
    <3>4. /\ rib' \in [Node -> SUBSET Route] /\ fib' \in [Node -> SUBSET Hop]
          /\ rib'[n] = R /\ fib'[n] = FibOf(fib[n], R, names)
          /\ \A m \in Node \ {n} : rib'[m] = rib[m] /\ fib'[m] = fib[m]
          /\ Over(rib'[n], fib'[n], keep)
          /\ FibFollowsRib' /\ NoMgmtRoute'
      <4> HIDE DEF R, names, keep, IInv
      <4> QED  BY <3>1, <3>3, <1>5, RoutesSet
    <3>5. learned' \in [Node -> SUBSET FaceID]
      <4>1. learned[n] \cup {f} \subseteq FaceID /\ learned \in [Node -> SUBSET FaceID]
        BY <1>1, <1>3 DEF TypeOK
      <4> QED  BY <4>1, <3>1
    <3>6. <<"neighbors", f>> \in fib'[n]
      BY <3>4 DEF FibOf, Hops
    <3>7. fib[n] \subseteq fib'[n]
      <4> SUFFICES ASSUME NEW h \in fib[n], h[1] \in names PROVE h \in fib'[n]
        BY <3>4 DEF FibOf
      <4>1. h \in Hops(rib[n])
        BY <1>5 DEF Agrees
      <4>2. h \in Hops({q \in R : q[1] \in names})
        BY <4>1 DEF Hops
      <4> QED  BY <4>2, <3>4 DEF FibOf
    <3> QED  BY <3>4, <3>5, <3>6, <3>7
  <2>2. CASE n \notin dvRouter
    <3>1. UNCHANGED <<rib, fib, learned>>
      BY <2>2 DEF ReactivateInterface
    <3>2. FibFollowsRib' /\ NoMgmtRoute'
      BY <3>1, <1>1 DEF FibFollowsRib, NoMgmtRoute
    <3>3. Over(rib'[n], fib'[n], keep)
      BY <3>1, <1>5 DEF Over
    <3> QED  BY <2>2, <3>1, <3>2, <3>3, <1>1 DEF TypeOK
  <2> QED  BY <2>1, <2>2
<1>7. /\ faces'[n] = keep /\ \A m \in Node \ {n} : faces'[m] = faces[m]
  BY <1>1, <1>2 DEF TypeOK
<1>8. /\ ifaceFaces'[n][i] = f
      /\ \A m \in Node : \A j \in Iface :
           m # n \/ j # i => ifaceFaces'[m][j] = ifaceFaces[m][j]
  BY <1>1, <1>2 DEF TypeOK
<1>9. TypeOK'
  <2>1. faces' \in [Node -> SUBSET FaceID]
    <3>1. faces \in [Node -> SUBSET FaceID] /\ keep \subseteq FaceID
      BY <1>1, <1>3 DEF TypeOK
    <3> HIDE DEF keep
    <3> QED  BY <3>1, <1>2
  <2>2. ifaceFaces' \in [Node -> [Iface -> 0..MaxFace]]
    <3>1. ifaceFaces \in [Node -> [Iface -> 0..MaxFace]] /\ f \in 0..MaxFace
      BY <1>1, <1>3 DEF TypeOK, FaceID
    <3> QED  BY <3>1, <1>2
  <2>3. m_faceIds' = ifaceFaces'
    BY <1>1, <1>2 DEF FacesAgree
  <2>4. dispatch' \subseteq FaceID
    BY <1>1, <1>2, <1>3 DEF TypeOK
  <2>5. globalFaceID' \in 0..MaxFace
    BY <1>1, <1>2, ConstantsAssumption DEF TypeOK
  <2> QED  BY <2>1, <2>2, <2>3, <2>4, <2>5, <1>1, <1>2, <1>6 DEF TypeOK
<1>10. FacesAgree'
  <2>1. m_faceIds' = ifaceFaces'
    BY <1>1, <1>2 DEF FacesAgree
  <2>2. ASSUME NEW m \in Node, NEW j \in Iface, ifaceFaces'[m][j] # 0
        PROVE  /\ ifaceFaces'[m][j] \in faces'[m]
               /\ ifaceFaces'[m][j] # appFaceID'[m]
               /\ \A k \in Iface : ifaceFaces'[m][k] = ifaceFaces'[m][j] => k = j
    <3>1. CASE m = n /\ j = i
      <4>1. \A k \in Iface : k # i => ifaceFaces'[n][k] # f
        BY <1>4, <1>8
      <4> QED  BY <4>1, <3>1, <1>2, <1>4, <1>7, <1>8
    <3>2. CASE m # n \/ j # i
      <4>1. ifaceFaces'[m][j] = ifaceFaces[m][j]
        BY <3>2, <1>8
      <4>2. /\ ifaceFaces[m][j] \in faces[m] /\ ifaceFaces[m][j] # appFaceID[m]
            /\ \A k \in Iface : ifaceFaces[m][k] = ifaceFaces[m][j] => k = j
        BY <1>1, <2>2, <4>1 DEF FacesAgree
      <4>3. faces[m] \subseteq faces'[m]
        BY <1>7
      <4>4. \A k \in Iface : ifaceFaces'[m][k] = ifaceFaces[m][j] => k = j
        BY <4>2, <1>4, <1>8
      <4> QED  BY <4>1, <4>2, <4>3, <4>4, <1>2
    <3> QED  BY <3>1, <3>2
  <2>3. \A m \in Node : faces'[m] \subseteq dispatch'
    BY <1>1, <1>2, <1>7 DEF FacesAgree
  <2>4. \A m, k \in Node : m # k => faces'[m] \cap faces'[k] = {}
    <3>1. \A m, k \in Node : m # k => faces[m] \cap faces[k] = {}
      BY <1>1 DEF FacesAgree
    <3> QED  BY <3>1, <1>4, <1>7
  <2> QED  BY <2>1, <2>2, <2>3, <2>4 DEF FacesAgree
<1>11. NoDanglingRoute'
  <2> SUFFICES ASSUME NEW m \in Node
               PROVE  /\ \A r \in rib'[m] : r[2] \in faces'[m]
                      /\ \A h \in fib'[m] \cup pet'[m] : h[2] \in faces'[m]
    BY DEF NoDanglingRoute
  <2>1. CASE m # n
    BY <2>1, <1>1, <1>2, <1>6, <1>7 DEF NoDanglingRoute
  <2>2. CASE m = n
    BY <2>2, <1>2, <1>5, <1>6, <1>7 DEF Over
  <2> QED  BY <2>1, <2>2
<1>12. NeighborsOnEveryLink'
  <2> SUFFICES ASSUME NEW m \in dvRouter', NEW g \in NetworkFaces(m)'
               PROVE  <<"neighbors", g>> \in fib'[m]
    BY DEF NeighborsOnEveryLink
  <2>1. m \in dvRouter /\ m \in Node
    BY <1>1, <1>2 DEF TypeOK
  <2>2. PICK j \in Iface : g = ifaceFaces'[m][j] /\ g # 0
    BY DEF NetworkFaces
  <2>3. CASE m = n /\ j = i
    BY <2>1, <2>2, <2>3, <1>6, <1>8
  <2>4. CASE m # n \/ j # i
    <3>1. g = ifaceFaces[m][j]
      BY <2>1, <2>2, <2>4, <1>8
    <3>2. <<"neighbors", g>> \in fib[m]
      BY <2>1, <2>2, <3>1, <1>1 DEF NeighborsOnEveryLink, NetworkFaces
    <3> QED  BY <2>1, <3>2, <1>6
  <2> QED  BY <2>3, <2>4
<1>13. Drawn'
  <2>1. globalFaceID \in Nat /\ globalFaceID' = globalFaceID + 1
    BY <1>1, <1>2, ConstantsAssumption DEF TypeOK
  <2>2. dispatch' \subseteq 1..globalFaceID'
    BY <2>1, <1>1, <1>2 DEF Drawn
  <2>3. \A m \in Node : appFaceID'[m] <= globalFaceID'
    BY <2>1, <1>1, <1>2, ConstantsAssumption DEF Drawn, TypeOK
  <2> QED  BY <2>2, <2>3 DEF Drawn
<1>14. AppFaceThere'
  <2>1. \A m \in Node : faces[m] \subseteq faces'[m]
    BY <1>7
  <2> QED  BY <2>1, <1>1, <1>2 DEF AppFaceThere, TypeOK
<1> QED  BY <1>6, <1>9, <1>10, <1>11, <1>12, <1>13, <1>14 DEF IInv

LEMMA Installed ==
    ASSUME IInv, NEW n \in Node, Install(n)
    PROVE  IInv'
<1> DEFINE last == globalFaceID + 2 + Interfaces
           mgmt == globalFaceID + 2
           new == (globalFaceID + 1)..last
           ids == [i \in Iface |-> globalFaceID + 3 + i]
           fibNew == IF onePhase THEN {<<"localhost", mgmt>>} ELSE {}
           petNew == IF onePhase THEN {} ELSE {<<"localhost", mgmt>>}
<1>1. TypeOK /\ FacesAgree /\ NoDanglingRoute /\ FibFollowsRib /\ NeighborsOnEveryLink
      /\ Drawn /\ AppFaceThere /\ NoMgmtRoute
  BY DEF IInv
<1>2. /\ n \notin installed /\ last <= MaxFace
      /\ appFaceID' = [appFaceID EXCEPT ![n] = globalFaceID + 1]
      /\ ifaceFaces' = [ifaceFaces EXCEPT ![n] = ids]
      /\ m_faceIds' = [m_faceIds EXCEPT ![n] = ids]
      /\ faces' = [faces EXCEPT ![n] = new] /\ dispatch' = dispatch \cup new
      /\ fib' = [fib EXCEPT ![n] = fibNew] /\ pet' = [pet EXCEPT ![n] = petNew]
      /\ rib' = [rib EXCEPT ![n] = {}] /\ globalFaceID' = last
      /\ installed' = installed \cup {n} /\ UNCHANGED <<dvRouter, learned>>
  BY DEF Install, routing
<1>3. globalFaceID \in Nat /\ Interfaces \in Nat /\ MaxFace \in Nat /\ last \in 0..MaxFace
  BY <1>1, <1>2, ConstantsAssumption DEF TypeOK
<1>4. /\ new \subseteq FaceID /\ mgmt \in new /\ globalFaceID + 1 \in new
      /\ \A g \in new : g \in Nat /\ g > globalFaceID
  BY <1>2, <1>3 DEF FaceID
<1>5. \A j \in Iface : /\ ids[j] \in new /\ ids[j] # globalFaceID + 1 /\ ids[j] # 0
                       /\ \A k \in Iface : ids[k] = ids[j] => k = j
  BY <1>3 DEF Iface
<1>6. \A g \in new : g \notin dispatch /\ \A m \in Node : g \notin faces[m]
  <2> HIDE DEF new, IInv
  <2> QED  BY <1>4, NewFace
<1>7. /\ faces'[n] = new /\ \A m \in Node \ {n} : faces'[m] = faces[m]
      /\ ifaceFaces'[n] = ids /\ \A m \in Node \ {n} : ifaceFaces'[m] = ifaceFaces[m]
      /\ appFaceID'[n] = globalFaceID + 1
      /\ \A m \in Node \ {n} : appFaceID'[m] = appFaceID[m]
  BY <1>1, <1>2 DEF TypeOK
<1>8. /\ rib'[n] = {} /\ fib'[n] = fibNew /\ pet'[n] = petNew
      /\ \A m \in Node \ {n} : rib'[m] = rib[m] /\ fib'[m] = fib[m] /\ pet'[m] = pet[m]
  BY <1>1, <1>2 DEF TypeOK
<1>9. TypeOK'
  <2>1. faces' \in [Node -> SUBSET FaceID]
    <3> HIDE DEF new
    <3> QED  BY <1>1, <1>2, <1>4 DEF TypeOK
  <2>2. ifaceFaces' \in [Node -> [Iface -> 0..MaxFace]]
    <3>1. ids \in [Iface -> 0..MaxFace]
      BY <1>2, <1>3 DEF Iface
    <3> HIDE DEF ids
    <3> QED  BY <3>1, <1>1, <1>2 DEF TypeOK
  <2>3. m_faceIds' = ifaceFaces'
    BY <1>1, <1>2 DEF FacesAgree
  <2>4. dispatch' \subseteq FaceID
    BY <1>1, <1>2, <1>4 DEF TypeOK
  <2>5. globalFaceID + 1 \in 0..MaxFace /\ appFaceID' \in [Node -> 0..MaxFace]
    BY <1>1, <1>2, <1>3 DEF TypeOK
  <2>6. <<"localhost", mgmt>> \in Hop
    BY <1>4 DEF Hop, Name
  <2>7. fib' \in [Node -> SUBSET Hop] /\ pet' \in [Node -> SUBSET Hop]
    <3>1. fibNew \subseteq Hop /\ petNew \subseteq Hop
      BY <2>6
    <3> HIDE DEF fibNew, petNew
    <3> QED  BY <3>1, <1>1, <1>2 DEF TypeOK
  <2>8. rib' \in [Node -> SUBSET Route] /\ installed' \subseteq Node
    BY <1>1, <1>2 DEF TypeOK
  <2> QED  BY <2>1, <2>2, <2>3, <2>4, <2>5, <2>7, <2>8, <1>1, <1>2, <1>3 DEF TypeOK
<1>10. FacesAgree'
  <2>1. m_faceIds' = ifaceFaces'
    BY <1>1, <1>2 DEF FacesAgree
  <2>2. ASSUME NEW m \in Node, NEW j \in Iface, ifaceFaces'[m][j] # 0
        PROVE  /\ ifaceFaces'[m][j] \in faces'[m]
               /\ ifaceFaces'[m][j] # appFaceID'[m]
               /\ \A k \in Iface : ifaceFaces'[m][k] = ifaceFaces'[m][j] => k = j
    <3> HIDE DEF new, ids
    <3>1. CASE m = n
      BY <3>1, <1>5, <1>7
    <3>2. CASE m # n
      BY <2>2, <3>2, <1>1, <1>7 DEF FacesAgree
    <3> QED  BY <3>1, <3>2
  <2>3. \A m \in Node : faces'[m] \subseteq dispatch'
    <3> HIDE DEF new
    <3> QED  BY <1>1, <1>2, <1>7 DEF FacesAgree
  <2>4. \A m, k \in Node : m # k => faces'[m] \cap faces'[k] = {}
    <3> HIDE DEF new
    <3>1. \A m, k \in Node : m # k => faces[m] \cap faces[k] = {}
      BY <1>1 DEF FacesAgree
    <3> QED  BY <3>1, <1>6, <1>7
  <2> QED  BY <2>1, <2>2, <2>3, <2>4 DEF FacesAgree
<1>11. NoDanglingRoute'
  <2> SUFFICES ASSUME NEW m \in Node
               PROVE  /\ \A r \in rib'[m] : r[2] \in faces'[m]
                      /\ \A h \in fib'[m] \cup pet'[m] : h[2] \in faces'[m]
    BY DEF NoDanglingRoute
  <2> HIDE DEF new, mgmt
  <2>1. CASE m # n
    BY <2>1, <1>1, <1>7, <1>8 DEF NoDanglingRoute
  <2>2. CASE m = n
    BY <2>2, <1>4, <1>7, <1>8
  <2> QED  BY <2>1, <2>2
<1>12. FibFollowsRib'
  <2> SUFFICES ASSUME NEW m \in Node
               PROVE  {h \in fib'[m] : h[1] # "localhost"} = {<<r[1], r[2]>> : r \in rib'[m]}
    BY DEF FibFollowsRib
  <2> HIDE DEF mgmt
  <2>1. CASE m # n
    BY <2>1, <1>1, <1>8 DEF FibFollowsRib
  <2>2. CASE m = n
    BY <2>2, <1>8
  <2> QED  BY <2>1, <2>2
<1>13. NeighborsOnEveryLink'
  <2>1. \A m \in dvRouter' : m \in dvRouter /\ m \in Node /\ m # n
    BY <1>1, <1>2 DEF TypeOK
  <2>2. ASSUME NEW m \in dvRouter', NEW g \in NetworkFaces(m)'
        PROVE  <<"neighbors", g>> \in fib'[m]
    <3> HIDE DEF ids, new, fibNew
    <3>1. ifaceFaces'[m] = ifaceFaces[m] /\ fib'[m] = fib[m]
      BY <2>1, <1>7, <1>8
    <3> QED  BY <3>1, <2>1, <1>1 DEF NeighborsOnEveryLink, NetworkFaces
  <2> QED  BY <2>2 DEF NeighborsOnEveryLink
<1>14. Drawn'
  <2>1. dispatch' \subseteq 1..globalFaceID'
    BY <1>1, <1>2, <1>3 DEF Drawn
  <2>2. \A m \in Node : appFaceID'[m] <= globalFaceID'
    <3>1. ASSUME NEW m \in Node, m # n PROVE appFaceID'[m] <= globalFaceID'
      <4>1. appFaceID[m] \in Nat /\ appFaceID[m] <= globalFaceID
        BY <1>1, <1>3 DEF Drawn, TypeOK
      <4> QED  BY <4>1, <3>1, <1>2, <1>3, <1>7
    <3> QED  BY <3>1, <1>2, <1>3, <1>7
  <2> QED  BY <2>1, <2>2 DEF Drawn
<1>15. AppFaceThere'
  BY <1>1, <1>2, <1>4, <1>7 DEF AppFaceThere, TypeOK
<1>16. NoMgmtRoute'
  BY <1>1, <1>8 DEF NoMgmtRoute
<1> QED  BY <1>9, <1>10, <1>11, <1>12, <1>13, <1>14, <1>15, <1>16 DEF IInv

LEMMA Disposed ==
    ASSUME IInv, NEW n \in Node, DoDispose(n)
    PROVE  IInv'
<1>1. TypeOK /\ FacesAgree /\ NoDanglingRoute /\ FibFollowsRib /\ NeighborsOnEveryLink
      /\ Drawn /\ AppFaceThere /\ NoMgmtRoute
  BY DEF IInv
<1>2. /\ installed' = installed \ {n} /\ dvRouter' = dvRouter \ {n}
      /\ m_faceIds' = [m_faceIds EXCEPT ![n] = NoInterface]
      /\ ifaceFaces' = [ifaceFaces EXCEPT ![n] = NoInterface]
      /\ UNCHANGED <<globalFaceID, appFaceID, dispatch, learned>>
  BY DEF DoDispose
<1>3. /\ faces'[n] = {} /\ rib'[n] = {} /\ fib'[n] = {} /\ pet'[n] = {}
      /\ \A j \in Iface : ifaceFaces'[n][j] = 0
      /\ \A m \in Node \ {n} :
           /\ faces'[m] = faces[m] /\ ifaceFaces'[m] = ifaceFaces[m]
           /\ rib'[m] = rib[m] /\ fib'[m] = fib[m] /\ pet'[m] = pet[m]
  BY <1>1 DEF DoDispose, TypeOK, NoInterface
<1>4. TypeOK'
  <2>1. NoInterface \in [Iface -> 0..MaxFace]
    BY ConstantsAssumption DEF NoInterface
  <2>2. ifaceFaces' \in [Node -> [Iface -> 0..MaxFace]] /\ m_faceIds' = ifaceFaces'
    BY <2>1, <1>1, <1>2 DEF TypeOK, FacesAgree
  <2>3. /\ faces' \in [Node -> SUBSET FaceID] /\ rib' \in [Node -> SUBSET Route]
        /\ fib' \in [Node -> SUBSET Hop] /\ pet' \in [Node -> SUBSET Hop]
    BY <1>1 DEF DoDispose, TypeOK
  <2> QED  BY <2>2, <2>3, <1>1, <1>2 DEF TypeOK
<1>5. FacesAgree'
  <2>1. m_faceIds' = ifaceFaces'
    BY <1>1, <1>2 DEF FacesAgree
  <2>2. ASSUME NEW m \in Node, NEW j \in Iface, ifaceFaces'[m][j] # 0
        PROVE  /\ ifaceFaces'[m][j] \in faces'[m]
               /\ ifaceFaces'[m][j] # appFaceID'[m]
               /\ \A k \in Iface : ifaceFaces'[m][k] = ifaceFaces'[m][j] => k = j
    <3>1. m # n
      BY <2>2, <1>3
    <3> QED  BY <2>2, <3>1, <1>1, <1>2, <1>3 DEF FacesAgree
  <2>3. \A m \in Node : faces'[m] \subseteq dispatch'
    BY <1>1, <1>2, <1>3 DEF FacesAgree
  <2>4. \A m, k \in Node : m # k => faces'[m] \cap faces'[k] = {}
    <3>1. \A m, k \in Node : m # k => faces[m] \cap faces[k] = {}
      BY <1>1 DEF FacesAgree
    <3>2. \A m \in Node : faces'[m] \subseteq faces[m]
      BY <1>3
    <3> QED  BY <3>1, <3>2
  <2> QED  BY <2>1, <2>2, <2>3, <2>4 DEF FacesAgree
<1>6. NoDanglingRoute'
  BY <1>1, <1>3 DEF NoDanglingRoute
<1>7. FibFollowsRib'
  <2> SUFFICES ASSUME NEW m \in Node
               PROVE  {h \in fib'[m] : h[1] # "localhost"} = {<<r[1], r[2]>> : r \in rib'[m]}
    BY DEF FibFollowsRib
  <2>1. CASE m = n
    BY <2>1, <1>3
  <2>2. CASE m # n
    BY <2>2, <1>1, <1>3 DEF FibFollowsRib
  <2> QED  BY <2>1, <2>2
<1>8. NeighborsOnEveryLink'
  <2>1. \A m \in dvRouter' : m \in dvRouter /\ m \in Node /\ m # n
    BY <1>1, <1>2 DEF TypeOK
  <2> QED  BY <2>1, <1>1, <1>3 DEF NeighborsOnEveryLink, NetworkFaces
<1>9. Drawn' /\ AppFaceThere' /\ NoMgmtRoute'
  BY <1>1, <1>2, <1>3 DEF Drawn, AppFaceThere, NoMgmtRoute, TypeOK
<1> QED  BY <1>4, <1>5, <1>6, <1>7, <1>8, <1>9 DEF IInv
-----------------------------------------------------------------------------
(* The initial state satisfies the invariant. *)
THEOREM InitInvariant == Init => IInv
<1> SUFFICES ASSUME Init PROVE IInv
  OBVIOUS
<1> USE ConstantsAssumption DEF Init
<1>1. TypeOK
  BY DEF TypeOK, NoInterface
<1>2. FacesAgree
  BY DEF FacesAgree, NoInterface
<1>3. NoDanglingRoute /\ FibFollowsRib /\ NeighborsOnEveryLink
  BY DEF NoDanglingRoute, FibFollowsRib, NeighborsOnEveryLink
<1>4. Drawn /\ AppFaceThere /\ NoMgmtRoute
  BY DEF Drawn, AppFaceThere, NoMgmtRoute
<1> QED  BY <1>1, <1>2, <1>3, <1>4 DEF IInv

(* The invariant is inductive: one step for each action. *)
THEOREM NextInvariant == IInv /\ [Next]_vars => IInv'
<1> SUFFICES ASSUME IInv, [Next]_vars PROVE IInv'
  OBVIOUS
<1>1. CASE UNCHANGED vars
  <2> USE <1>1 DEF vars, interfaces, life, tables, routing
  <2>1. TypeOK' /\ FacesAgree' /\ NoDanglingRoute' /\ FibFollowsRib'
    BY DEF IInv, TypeOK, FacesAgree, NoDanglingRoute, FibFollowsRib
  <2>2. NeighborsOnEveryLink' /\ Drawn' /\ AppFaceThere' /\ NoMgmtRoute'
    BY DEF IInv, NeighborsOnEveryLink, NetworkFaces, Drawn, AppFaceThere, NoMgmtRoute
  <2> QED  BY <2>1, <2>2 DEF IInv
<1>2. ASSUME NEW n \in Node, Install(n) PROVE IInv'
  <2> HIDE DEF IInv
  <2> QED  BY <1>2, Installed
<1>3. ASSUME NEW n \in Node, DoDispose(n) PROVE IInv'
  <2> HIDE DEF IInv
  <2> QED  BY <1>3, Disposed
<1>4. ASSUME NEW n \in Node, StartDv(n) PROVE IInv'
  <2> HIDE DEF IInv
  <2> QED  BY <1>4, DvStarted
<1>5. ASSUME NEW n \in Node, StopDv(n) PROVE IInv'
  <2> HIDE DEF IInv
  <2> QED  BY <1>5, DvStopped
<1>6. ASSUME NEW n \in Node, NEW i \in Iface, DeactivateInterface(n, i) PROVE IInv'
  <2> HIDE DEF IInv
  <2> QED  BY <1>6, LinkDown
<1>7. ASSUME NEW n \in Node, NEW i \in Iface, ReactivateInterface(n, i) PROVE IInv'
  <2> HIDE DEF IInv
  <2> QED  BY <1>7, LinkUp
<1>8. ASSUME NEW n \in Node, NEW p \in Prefix, NEW f \in FaceID, RibRegister(n, p, f)
      PROVE  IInv'
  <2> DEFINE new == {<<p, f, "nlsr">>}
  <2>1. /\ f \in faces[n] /\ AddRoutes(n, new)
        /\ UNCHANGED <<interfaces, life, routing>> /\ UNCHANGED pet
    BY <1>8 DEF RibRegister
  <2>2. new \subseteq Route /\ Over(new, {}, faces[n])
    BY <2>1, ConstantsAssumption DEF Route, Name, Origin, Over
  <2> HIDE DEF new, IInv
  <2>3. /\ pet' \in [Node -> SUBSET Hop]
        /\ \A m \in Node : \A h \in pet'[m] : h[2] \in faces[m]
    BY <2>1, PetUnchanged
  <2> QED  BY <2>1, <2>2, <2>3, RoutesAdded
<1>9. ASSUME NEW n \in Node, NEW p \in Prefix, NEW f \in FaceID, RibUnregister(n, p, f)
      PROVE  IInv'
  <2>1. /\ SetRoutes(n, rib[n] \ {<<p, f, "nlsr">>}, fib[n], {p})
        /\ UNCHANGED <<interfaces, life, routing>> /\ UNCHANGED pet
    BY <1>9 DEF RibUnregister
  <2> HIDE DEF IInv
  <2>2. /\ pet' \in [Node -> SUBSET Hop]
        /\ \A m \in Node : \A h \in pet'[m] : h[2] \in faces[m]
    BY <2>1, PetUnchanged
  <2> QED  BY <2>1, <2>2, RouteRemoved
<1>10. ASSUME NEW n \in Node, NEW p \in Prefix, NEW i \in Iface, AddDirectRoute(n, p, i)
       PROVE  IInv'
  <2> DEFINE f == m_faceIds[n][i]
             new == {<<p, f, "app">>}
             hops == IF onePhase THEN pet[n] ELSE pet[n] \cup {<<p, f>>}
  <2>1. /\ f # 0 /\ AddRoutes(n, new) /\ pet' = [pet EXCEPT ![n] = hops]
        /\ UNCHANGED <<interfaces, life, routing>>
    BY <1>10 DEF AddDirectRoute
  <2>2. f \in FaceID /\ f \in faces[n]
    BY <2>1 DEF IInv, TypeOK, FacesAgree, FaceID
  <2>3. new \subseteq Route /\ Over(new, {}, faces[n])
    BY <2>2, ConstantsAssumption DEF Route, Name, Origin, Over
  <2>4. \A h \in hops : h \in pet[n] \/ (h \in Hop /\ h[2] \in faces[n])
    BY <2>2 DEF Hop, Name
  <2> HIDE DEF new, hops, IInv
  <2>5. /\ pet' \in [Node -> SUBSET Hop]
        /\ \A m \in Node : \A h \in pet'[m] : h[2] \in faces[m]
    BY <2>1, <2>4, PetChanged
  <2> QED  BY <2>1, <2>3, <2>5, RoutesAdded
<1>11. ASSUME NEW n \in Node, NEW p \in Prefix, NEW i \in Iface, RemoveDirectRoute(n, p, i)
       PROVE  IInv'
  <2> DEFINE f == m_faceIds[n][i]
             hops == pet[n] \ {<<p, f>>}
  <2>1. /\ SetRoutes(n, rib[n] \ {<<p, f, "app">>}, fib[n], {p})
        /\ pet' = [pet EXCEPT ![n] = hops]
        /\ UNCHANGED <<interfaces, life, routing>>
    BY <1>11 DEF RemoveDirectRoute
  <2>2. \A h \in hops : h \in pet[n] \/ (h \in Hop /\ h[2] \in faces[n])
    OBVIOUS
  <2> HIDE DEF f, hops, IInv
  <2>3. /\ pet' \in [Node -> SUBSET Hop]
        /\ \A m \in Node : \A h \in pet'[m] : h[2] \in faces[m]
    BY <2>1, <2>2, PetChanged
  <2> QED  BY <2>1, <2>3, RouteRemoved
<1>12. ASSUME NEW n \in Node, NEW p \in Prefix, RegisterRoute(n, p) PROVE IInv'
  <2> DEFINE app == appFaceID[n]
             new == {<<p, app, "app">>}
             hops == pet[n] \cup {<<p, app>>}
  <2>1. n \in installed /\ UNCHANGED <<interfaces, life, routing>>
    BY <1>12 DEF RegisterRoute
  <2>2. app \in FaceID /\ app \in faces[n]
    BY <2>1 DEF IInv, TypeOK, AppFaceThere
  <2>3. CASE onePhase
    <3>1. AddRoutes(n, new) /\ UNCHANGED pet
      BY <1>12, <2>3 DEF RegisterRoute
    <3>2. new \subseteq Route /\ Over(new, {}, faces[n])
      BY <2>2, ConstantsAssumption DEF Route, Name, Origin, Over
    <3> HIDE DEF new, IInv
    <3>3. /\ pet' \in [Node -> SUBSET Hop]
          /\ \A m \in Node : \A h \in pet'[m] : h[2] \in faces[m]
      BY <3>1, PetUnchanged
    <3> QED  BY <2>1, <3>1, <3>2, <3>3, RoutesAdded
  <2>4. CASE ~onePhase
    <3>1. pet' = [pet EXCEPT ![n] = hops] /\ UNCHANGED <<rib, fib>>
      BY <1>12, <2>4 DEF RegisterRoute
    <3>2. \A h \in hops : h \in pet[n] \/ (h \in Hop /\ h[2] \in faces[n])
      BY <2>2 DEF Hop, Name
    <3> HIDE DEF hops, IInv
    <3>3. /\ pet' \in [Node -> SUBSET Hop]
          /\ \A m \in Node : \A h \in pet'[m] : h[2] \in faces[m]
      BY <3>1, <3>2, PetChanged
    <3> QED  BY <2>1, <3>1, <3>3, OnlyPet
  <2> QED  BY <2>3, <2>4
<1>13. ASSUME NEW n \in Node, NEW p \in Prefix, UnregisterRoute(n, p) PROVE IInv'
  <2> DEFINE app == appFaceID[n]
             hops == pet[n] \ {<<p, app>>}
  <2>1. UNCHANGED <<interfaces, life, routing>>
    BY <1>13 DEF UnregisterRoute
  <2>2. CASE onePhase
    <3>1. SetRoutes(n, rib[n] \ {<<p, app, "app">>}, fib[n], {p}) /\ UNCHANGED pet
      BY <1>13, <2>2 DEF UnregisterRoute
    <3> HIDE DEF app, IInv
    <3>2. /\ pet' \in [Node -> SUBSET Hop]
          /\ \A m \in Node : \A h \in pet'[m] : h[2] \in faces[m]
      BY <3>1, PetUnchanged
    <3> QED  BY <2>1, <3>1, <3>2, RouteRemoved
  <2>3. CASE ~onePhase
    <3>1. pet' = [pet EXCEPT ![n] = hops] /\ UNCHANGED <<rib, fib>>
      BY <1>13, <2>3 DEF UnregisterRoute
    <3>2. \A h \in hops : h \in pet[n] \/ (h \in Hop /\ h[2] \in faces[n])
      OBVIOUS
    <3> HIDE DEF hops, IInv
    <3>3. /\ pet' \in [Node -> SUBSET Hop]
          /\ \A m \in Node : \A h \in pet'[m] : h[2] \in faces[m]
      BY <3>1, <3>2, PetChanged
    <3> QED  BY <2>1, <3>1, <3>3, OnlyPet
  <2> QED  BY <2>2, <2>3
<1>14. ASSUME NEW n \in Node, NEW p \in Prefix, NEW f \in FaceID, PetAddNexthop(n, p, f)
       PROVE  IInv'
  <2> DEFINE hops == pet[n] \cup {<<p, f>>}
  <2>1. /\ f \in faces[n] /\ pet' = [pet EXCEPT ![n] = hops] /\ UNCHANGED <<rib, fib>>
        /\ UNCHANGED <<interfaces, life, routing>>
    BY <1>14 DEF PetAddNexthop
  <2>2. \A h \in hops : h \in pet[n] \/ (h \in Hop /\ h[2] \in faces[n])
    BY <2>1 DEF Hop, Name
  <2> HIDE DEF hops, IInv
  <2>3. /\ pet' \in [Node -> SUBSET Hop]
        /\ \A m \in Node : \A h \in pet'[m] : h[2] \in faces[m]
    BY <2>1, <2>2, PetChanged
  <2> QED  BY <2>1, <2>3, OnlyPet
<1>15. ASSUME NEW n \in Node, NEW p \in Prefix, NEW f \in FaceID, PetRemoveNexthop(n, p, f)
       PROVE  IInv'
  <2> DEFINE hops == pet[n] \ {<<p, f>>}
  <2>1. /\ pet' = [pet EXCEPT ![n] = hops] /\ UNCHANGED <<rib, fib>>
        /\ UNCHANGED <<interfaces, life, routing>>
    BY <1>15 DEF PetRemoveNexthop
  <2>2. \A h \in hops : h \in pet[n] \/ (h \in Hop /\ h[2] \in faces[n])
    OBVIOUS
  <2> HIDE DEF hops, IInv
  <2>3. /\ pet' \in [Node -> SUBSET Hop]
        /\ \A m \in Node : \A h \in pet'[m] : h[2] \in faces[m]
    BY <2>1, <2>2, PetChanged
  <2> QED  BY <2>1, <2>3, OnlyPet
<1> HIDE DEF IInv
<1>16. CASE Next
  BY <1>16, <1>2, <1>3, <1>4, <1>5, <1>6, <1>7, <1>8, <1>9, <1>10, <1>11, <1>12,
     <1>13, <1>14, <1>15 DEF Next
<1> QED  BY <1>1, <1>16

(* Every reachable state satisfies the invariant. *)
THEOREM Invariance == Spec => []IInv
BY InitInvariant, NextInvariant, PTL DEF Spec

(* The types of the interface maps, the faces and the tables.               *)
THEOREM TypeCorrect == Spec => []TypeOK
<1>1. IInv => TypeOK
  BY DEF IInv
<1> QED  BY <1>1, Invariance, PTL

(* C++ and Go never disagree about the face of an interface, and no two     *)
(* nodes or interfaces ever share a face, over any number of links that go  *)
(* down and come up and of nodes installed again.                           *)
THEOREM FacesAgreement == Spec => []FacesAgree
<1>1. IInv => FacesAgree
  BY DEF IInv
<1> QED  BY <1>1, Invariance, PTL

(* RIB, FIB and PET never name a face that is gone, whatever the router     *)
(* asks for.                                                                *)
THEOREM NoDangling == Spec => []NoDanglingRoute
<1>1. IInv => NoDanglingRoute
  BY DEF IInv
<1> QED  BY <1>1, Invariance, PTL

(* The FIB shows the routes of the RIB and no others, with any number of    *)
(* origins for one name and one face.                                       *)
THEOREM FibMatchesRib == Spec => []FibFollowsRib
<1>1. IInv => FibFollowsRib
  BY DEF IInv
<1> QED  BY <1>1, Invariance, PTL

(* A running router reaches its neighbours over every interface that is up. *)
THEOREM NeighborsReachable == Spec => []NeighborsOnEveryLink
<1>1. IInv => NeighborsOnEveryLink
  BY DEF IInv
<1> QED  BY <1>1, Invariance, PTL
-----------------------------------------------------------------------------
(* The refinement of PortRoutes.  First the ports of one node, whose         *)
(* application has face app and whose interfaces have the faces ids.         *)

\* The faces that have a port.
PortFaces(app, ids) == {app} \cup ({ids[i] : i \in Iface} \ {0})

\* What FacesAgree says of one node.
Apart(app, ids) ==
    \A i \in Iface : ids[i] # 0 =>
        /\ ids[i] # app
        /\ \A j \in Iface : ids[j] = ids[i] => j = i

\* The ports are different from each other.
LEMMA IfacePorts ==
    /\ Interfaces \notin Iface /\ Interfaces + 1 \notin Iface
    /\ Interfaces # Interfaces + 1
<1>1. Interfaces \in Nat
  BY ConstantsAssumption
<1> QED  BY <1>1 DEF Iface

\* The face of an interface is for that interface.
LEMMA PortOfIface ==
    ASSUME NEW app, NEW ids, Apart(app, ids), NEW i \in Iface, ids[i] # 0
    PROVE  Port(app, ids, ids[i]) = i
<1>1. ids[i] # app /\ \A j \in Iface : ids[j] = ids[i] => j = i
  BY DEF Apart
<1>2. (CHOOSE j \in Iface : ids[j] = ids[i]) = i
  BY <1>1
<1> QED  BY <1>1, <1>2 DEF Port

\* Every other face has another port.
LEMMA PortInjective ==
    ASSUME NEW app, NEW ids, Apart(app, ids),
           NEW f \in PortFaces(app, ids), NEW g, Port(app, ids, g) = Port(app, ids, f)
    PROVE  g = f
<1>1. CASE f = app
  <2>1. Port(app, ids, f) = Interfaces
    BY <1>1 DEF Port
  <2>2. ASSUME g # app PROVE FALSE
    <3>1. CASE \E i \in Iface : ids[i] = g
      <4>1. Port(app, ids, g) = CHOOSE i \in Iface : ids[i] = g
        BY <2>2, <3>1 DEF Port
      <4>2. Port(app, ids, g) \in Iface
        BY <3>1, <4>1
      <4> QED  BY <2>1, <4>2, IfacePorts
    <3>2. CASE ~\E i \in Iface : ids[i] = g
      <4>1. Port(app, ids, g) = Interfaces + 1
        BY <2>2, <3>2 DEF Port
      <4> QED  BY <2>1, <4>1, IfacePorts
    <3> QED  BY <3>1, <3>2
  <2> QED  BY <1>1, <2>2
<1>2. CASE f # app
  <2>1. PICK i \in Iface : ids[i] = f /\ f # 0
    BY <1>2 DEF PortFaces
  <2>2. Port(app, ids, f) = i
    BY <2>1, PortOfIface
  <2>3. g # app
    BY <2>2, IfacePorts DEF Port
  <2>4. CASE \E j \in Iface : ids[j] = g
    <3>1. Port(app, ids, g) = CHOOSE j \in Iface : ids[j] = g
      BY <2>3, <2>4 DEF Port
    <3>2. ids[Port(app, ids, g)] = g
      BY <2>4, <3>1
    <3> QED  BY <2>1, <2>2, <3>2
  <2>5. CASE ~\E j \in Iface : ids[j] = g
    <3>1. Port(app, ids, g) = Interfaces + 1
      BY <2>3, <2>5 DEF Port
    <3> QED  BY <2>2, <3>1, IfacePorts
  <2> QED  BY <2>4, <2>5
<1> QED  BY <1>1, <1>2

\* A face keeps its port when another one takes the place of a third.
LEMMA PortKept ==
    ASSUME NEW app, NEW ids, NEW ids2, Apart(app, ids), Apart(app, ids2),
           NEW i \in Iface, \A j \in Iface \ {i} : ids2[j] = ids[j],
           NEW g, g # 0, g # ids[i], g # ids2[i]
    PROVE  Port(app, ids2, g) = Port(app, ids, g)
<1>1. CASE g = app
  BY <1>1 DEF Port
<1>2. CASE g # app /\ \E j \in Iface : ids[j] = g
  <2>1. PICK j \in Iface : ids[j] = g
    BY <1>2
  <2>2. ids2[j] = g
    BY <2>1
  <2> QED  BY <2>1, <2>2, PortOfIface
<1>3. CASE g # app /\ ~\E j \in Iface : ids[j] = g
  <2>1. ~\E j \in Iface : ids2[j] = g
    BY <1>3
  <2> QED  BY <1>3, <2>1 DEF Port
<1> QED  BY <1>1, <1>2, <1>3

(* Sets of routes, seen through the ports. *)

\* A FIB that agrees with the routes agrees with them there, too.
LEMMA ShownAgrees ==
    ASSUME NEW app, NEW ids, NEW F, NEW R, Agrees(F, R)
    PROVE  HopsOver(app, ids, F) = {<<x[1], x[2]>> : x \in RoutesOver(app, ids, R)}
<1> DEFINE S == {<<x[1], x[2]>> : x \in RoutesOver(app, ids, R)}
<1>1. HopsOver(app, ids, F) = {<<h[1], Port(app, ids, h[2])>> : h \in Hops(R)}
  BY DEF HopsOver, Agrees
<1>2. ASSUME NEW h \in Hops(R) PROVE <<h[1], Port(app, ids, h[2])>> \in S
  <2>1. PICK r \in R : h = <<r[1], r[2]>>
    BY DEF Hops
  <2>2. <<r[1], Port(app, ids, r[2]), r[3]>> \in RoutesOver(app, ids, R)
    BY DEF RoutesOver
  <2> QED  BY <2>1, <2>2
<1>3. ASSUME NEW s \in S PROVE s \in {<<h[1], Port(app, ids, h[2])>> : h \in Hops(R)}
  <2>1. PICK x \in RoutesOver(app, ids, R) : s = <<x[1], x[2]>>
    OBVIOUS
  <2>2. PICK r \in R : x = <<r[1], Port(app, ids, r[2]), r[3]>>
    BY DEF RoutesOver
  <2>3. <<r[1], r[2]>> \in Hops(R)
    BY DEF Hops
  <2> QED  BY <2>1, <2>2, <2>3
<1> QED  BY <1>1, <1>2, <1>3

\* All but the routes, or the hops, of one name over one face or port.
RoutesBut(routes, p, f) == {r \in routes : <<r[1], r[2]>> # <<p, f>>}
SameRoutesBut(R, R2, p, f) == \A r : <<r[1], r[2]>> # <<p, f>> => (r \in R2 <=> r \in R)
SameHopsBut(H, H2, p, f) == \A h : h # <<p, f>> => (h \in H2 <=> h \in H)
RoutesOf(p, port) == {p} \X {port} \X {"app", "nlsr"}

\* A change of the routes of one name over one face is one over its port.
LEMMA RoutesConfigured ==
    ASSUME NEW app, NEW ids, Apart(app, ids), NEW f \in PortFaces(app, ids),
           NEW port, port = Port(app, ids, f), NEW p,
           NEW R, NEW R2, R2 \subseteq Route,
           SameRoutesBut(R, R2, p, f)
    PROVE  \E over \in SUBSET RoutesOf(p, port) :
              RoutesOver(app, ids, R2) =
                 RoutesBut(RoutesOver(app, ids, R), p, port) \cup over
<1> DEFINE seen(r) == <<r[1], Port(app, ids, r[2]), r[3]>>
           rest == {r \in R2 : <<r[1], r[2]>> # <<p, f>>}
           over == {seen(r) : r \in {q \in R2 : q[1] = p /\ q[2] = f}}
<1>1. over \subseteq RoutesOf(p, port)
  BY DEF Route, Origin, RoutesOf
<1>2. ASSUME NEW r PROVE <<r[1], r[2]>> # <<p, f>> <=> <<r[1], Port(app, ids, r[2])>> # <<p, port>>
  <2>1. Port(app, ids, r[2]) = port <=> r[2] = f
    BY PortInjective
  <2> QED  BY <2>1
<1>3. ASSUME NEW r PROVE seen(r)[1] = r[1] /\ seen(r)[2] = Port(app, ids, r[2])
  OBVIOUS
<1> HIDE DEF seen
<1>4. RoutesOver(app, ids, R2) = {seen(r) : r \in rest} \cup over
  <2>1. RoutesOver(app, ids, R2) = {seen(r) : r \in R2}
    BY DEF RoutesOver, seen
  <2>2. \A r \in R2 : r \in rest \/ (r[1] = p /\ r[2] = f)
    BY DEF SameRoutesBut
  <2> QED  BY <2>1, <2>2
<1>5. RoutesBut(RoutesOver(app, ids, R), p, port) = {seen(r) : r \in rest}
  <2>1. RoutesOver(app, ids, R) = {seen(r) : r \in R}
    BY DEF RoutesOver, seen
  <2>2. \A r \in R : <<seen(r)[1], seen(r)[2]>> # <<p, port>> <=> r \in rest
    BY <1>2, <1>3 DEF SameRoutesBut
  <2>3. \A r \in rest : r \in R
    BY DEF SameRoutesBut
  <2> HIDE DEF rest
  <2> QED  BY <2>1, <2>2, <2>3 DEF RoutesBut
<1>6. RoutesOver(app, ids, R2) = RoutesBut(RoutesOver(app, ids, R), p, port) \cup over
  BY <1>4, <1>5
<1> QED  BY <1>1, <1>6

LEMMA HopsConfigured ==
    ASSUME NEW app, NEW ids, Apart(app, ids), NEW f \in PortFaces(app, ids),
           NEW port, port = Port(app, ids, f), NEW p,
           NEW H, NEW H2, H \subseteq Hop, H2 \subseteq Hop,
           SameHopsBut(H, H2, p, f)
    PROVE  \E over \in SUBSET {<<p, port>>} :
              HopsOver(app, ids, H2) = (HopsOver(app, ids, H) \ {<<p, port>>}) \cup over
<1> DEFINE seen(h) == <<h[1], Port(app, ids, h[2])>>
           named(hops) == {h \in hops : h[1] # "localhost"}
           rest == named(H2) \ {<<p, f>>}
           over == {seen(h) : h \in named(H2) \cap {<<p, f>>}}
<1>1. over \subseteq {<<p, port>>}
  OBVIOUS
<1>2. ASSUME NEW h \in Hop PROVE h = <<p, f>> <=> seen(h) = <<p, port>>
  <2>1. Port(app, ids, h[2]) = port <=> h[2] = f
    BY PortInjective
  <2>2. h = <<h[1], h[2]>>
    BY DEF Hop
  <2> QED  BY <2>1, <2>2
<1>3. rest = named(H) \ {<<p, f>>}
  BY DEF SameHopsBut
<1>4. \A h \in rest : h \in named(H) /\ h \in Hop
  BY <1>3
<1>5. \A h \in named(H) : h \in Hop /\ (h \in rest <=> h # <<p, f>>)
  BY <1>3
<1> HIDE DEF seen
<1>6. HopsOver(app, ids, H2) = {seen(h) : h \in rest} \cup over
  <2>1. HopsOver(app, ids, H2) = {seen(h) : h \in named(H2)}
    BY DEF HopsOver, seen
  <2> QED  BY <2>1
<1>7. HopsOver(app, ids, H) \ {<<p, port>>} = {seen(h) : h \in rest}
  <2>1. HopsOver(app, ids, H) = {seen(h) : h \in named(H)}
    BY DEF HopsOver, seen
  <2> HIDE DEF rest, named
  <2> QED  BY <2>1, <1>2, <1>4, <1>5
<1>8. HopsOver(app, ids, H2) = (HopsOver(app, ids, H) \ {<<p, port>>}) \cup over
  BY <1>6, <1>7
<1> QED  BY <1>1, <1>8

\* All but what is over one face or port.
ButOver(table, f) == {x \in table : x[2] # f}

\* A face that goes takes along what was over its port.
LEMMA RoutesDown ==
    ASSUME NEW app, NEW ids, NEW ids2, Apart(app, ids), Apart(app, ids2),
           NEW i \in Iface, ids[i] # 0, ids2[i] = 0,
           \A j \in Iface \ {i} : ids2[j] = ids[j],
           NEW R, \A r \in R : r[2] # 0
    PROVE  RoutesOver(app, ids2, ButOver(R, ids[i])) = ButOver(RoutesOver(app, ids, R), i)
<1> DEFINE f == ids[i]
           seen(r) == <<r[1], Port(app, ids, r[2]), r[3]>>
<1>1. f \in PortFaces(app, ids) /\ Port(app, ids, f) = i
  BY PortOfIface DEF PortFaces
<1>2. ASSUME NEW r PROVE r[2] # f <=> seen(r)[2] # i
  <2>1. Port(app, ids, r[2]) = i <=> r[2] = f
    BY <1>1, PortInjective
  <2> QED  BY <2>1
<1>3. ASSUME NEW r \in R, r[2] # f
      PROVE  <<r[1], Port(app, ids2, r[2]), r[3]>> = seen(r)
  BY <1>3, PortKept
<1>4. RoutesOver(app, ids, R) = {seen(r) : r \in R}
  BY DEF RoutesOver
<1>5. RoutesOver(app, ids2, {r \in R : r[2] # f}) = {seen(r) : r \in {q \in R : q[2] # f}}
  <2> HIDE DEF f
  <2> QED  BY <1>3 DEF RoutesOver
<1> HIDE DEF seen, f
<1>6. {x \in RoutesOver(app, ids, R) : x[2] # i} = {seen(r) : r \in {q \in R : q[2] # f}}
  BY <1>2, <1>4
<1> QED  BY <1>5, <1>6 DEF f, ButOver

LEMMA HopsDown ==
    ASSUME NEW app, NEW ids, NEW ids2, Apart(app, ids), Apart(app, ids2),
           NEW i \in Iface, ids[i] # 0, ids2[i] = 0,
           \A j \in Iface \ {i} : ids2[j] = ids[j],
           NEW H, \A h \in H : h[2] # 0
    PROVE  HopsOver(app, ids2, ButOver(H, ids[i])) = ButOver(HopsOver(app, ids, H), i)
<1> DEFINE f == ids[i]
           seen(h) == <<h[1], Port(app, ids, h[2])>>
           named == {h \in H : h[1] # "localhost"}
<1>1. f \in PortFaces(app, ids) /\ Port(app, ids, f) = i
  BY PortOfIface DEF PortFaces
<1>2. ASSUME NEW h PROVE h[2] # f <=> seen(h)[2] # i
  <2>1. Port(app, ids, h[2]) = i <=> h[2] = f
    BY <1>1, PortInjective
  <2> QED  BY <2>1
<1>3. ASSUME NEW h \in H, h[2] # f
      PROVE  <<h[1], Port(app, ids2, h[2])>> = seen(h)
  BY <1>3, PortKept
<1>4. HopsOver(app, ids, H) = {seen(h) : h \in named}
  BY DEF HopsOver
<1>5. HopsOver(app, ids2, {h \in H : h[2] # f}) = {seen(h) : h \in {q \in named : q[2] # f}}
  <2> HIDE DEF f
  <2> QED  BY <1>3 DEF HopsOver
<1> HIDE DEF seen, f, named
<1>6. {x \in HopsOver(app, ids, H) : x[2] # i} = {seen(h) : h \in {q \in named : q[2] # f}}
  BY <1>2, <1>4
<1> QED  BY <1>5, <1>6 DEF f, ButOver
-----------------------------------------------------------------------------
(* What PortRoutes sees of the state. *)
Ups == [n \in Node |-> UpOf(m_faceIds[n])]
Routes == [n \in Node |-> RoutesOver(appFaceID[n], ifaceFaces[n], rib[n])]
Shown == [n \in Node |-> HopsOver(appFaceID[n], ifaceFaces[n], fib[n])]
Egress == [n \in Node |-> HopsOver(appFaceID[n], ifaceFaces[n], pet[n])]

\* The FIB shows the routes: the last conjunct of every step.
LEMMA ShownFollows ==
    ASSUME FibFollowsRib
    PROVE  Shown = [n \in Node |-> {<<x[1], x[2]>> : x \in Routes[n]}]
<1>1. ASSUME NEW n \in Node PROVE Shown[n] = {<<x[1], x[2]>> : x \in Routes[n]}
  <2>1. Agrees(fib[n], rib[n])
    BY DEF FibFollowsRib, Agrees, Hops
  <2> QED  BY <2>1, ShownAgrees DEF Shown, Routes
<1> QED  BY <1>1 DEF Shown

LEMMA ShownFollowsNext ==
    ASSUME FibFollowsRib'
    PROVE  Shown' = [n \in Node |-> {<<x[1], x[2]>> : x \in Routes'[n]}]
<1>1. ASSUME NEW n \in Node PROVE Shown'[n] = {<<x[1], x[2]>> : x \in Routes'[n]}
  <2>1. Agrees(fib'[n], rib'[n])
    BY DEF FibFollowsRib, Agrees, Hops
  <2> QED  BY <2>1, ShownAgrees DEF Shown, Routes
<1> QED  BY <1>1 DEF Shown

\* What changes of one node is all that changes.
SameElsewhere(n) ==
    \A m \in Node \ {n} :
        /\ m_faceIds'[m] = m_faceIds[m] /\ ifaceFaces'[m] = ifaceFaces[m]
        /\ appFaceID'[m] = appFaceID[m]
        /\ rib'[m] = rib[m] /\ pet'[m] = pet[m]

LEMMA OneNodeChanges ==
    ASSUME NEW n \in Node, SameElsewhere(n)
    PROVE  /\ Ups' = [Ups EXCEPT ![n] = UpOf(m_faceIds'[n])]
           /\ Routes' = [Routes EXCEPT ![n] =
                            RoutesOver(appFaceID'[n], ifaceFaces'[n], rib'[n])]
           /\ Egress' = [Egress EXCEPT ![n] =
                            HopsOver(appFaceID'[n], ifaceFaces'[n], pet'[n])]
BY DEF SameElsewhere, Ups, Routes, Egress

\* What FacesAgree says of a node, and where the faces of its tables are.
LEMMA NodeApart ==
    ASSUME FacesAgree, NEW n \in Node
    PROVE  Apart(appFaceID[n], ifaceFaces[n])
BY DEF FacesAgree, Apart

LEMMA NodeApartNext ==
    ASSUME FacesAgree', NEW n \in Node
    PROVE  Apart(appFaceID'[n], ifaceFaces'[n])
BY DEF FacesAgree, Apart

\* A port of PortRoutes: an interface that is up, or the application.
LEMMA PortOpen ==
    ASSUME FacesAgree, NEW n \in Node, NEW f \in PortFaces(appFaceID[n], ifaceFaces[n])
    PROVE  Port(appFaceID[n], ifaceFaces[n], f) \in Ups[n] \cup {Interfaces}
<1>1. CASE f = appFaceID[n]
  BY <1>1 DEF Port
<1>2. CASE f # appFaceID[n]
  <2>1. PICK i \in Iface : ifaceFaces[n][i] = f /\ f # 0
    BY <1>2 DEF PortFaces
  <2>2. Port(appFaceID[n], ifaceFaces[n], f) = i
    BY <2>1, NodeApart, PortOfIface
  <2>3. m_faceIds[n][i] # 0
    BY <2>1 DEF FacesAgree
  <2> QED  BY <2>2, <2>3 DEF Ups, UpOf
<1> QED  BY <1>1, <1>2

\* No route changes.
LEMMA NothingNew ==
    ASSUME IInv, IInv',
           UNCHANGED <<installed, dvRouter, appFaceID, m_faceIds, ifaceFaces, rib, pet>>
    PROVE  UNCHANGED Ports!vars
<1>1. Ups' = Ups /\ Routes' = Routes /\ Egress' = Egress
  BY DEF Ups, Routes, Egress
<1>2. Shown = [n \in Node |-> {<<x[1], x[2]>> : x \in Routes[n]}]
  BY ShownFollows DEF IInv
<1>3. Shown' = [n \in Node |-> {<<x[1], x[2]>> : x \in Routes'[n]}]
  BY ShownFollowsNext DEF IInv
<1>4. Shown' = Shown
  BY <1>1, <1>2, <1>3
<1> QED  BY <1>1, <1>4 DEF Ports!vars, Ups, Routes, Egress, Shown

\* The routes of one name over one face of the node change, and nothing else.
LEMMA Configured ==
    ASSUME IInv, IInv', NEW n \in installed, NEW p \in Prefix,
           NEW f \in PortFaces(appFaceID[n], ifaceFaces[n]),
           UNCHANGED <<installed, dvRouter, appFaceID, m_faceIds, ifaceFaces>>,
           \A m \in Node \ {n} : rib'[m] = rib[m] /\ pet'[m] = pet[m],
           SameRoutesBut(rib[n], rib'[n], p, f), SameHopsBut(pet[n], pet'[n], p, f)
    PROVE  Ports!Next
<1> DEFINE app == appFaceID[n]
           ids == ifaceFaces[n]
           port == Port(app, ids, f)
<1>1. /\ n \in Node /\ FacesAgree /\ FibFollowsRib'
      /\ rib'[n] \subseteq Route /\ pet[n] \subseteq Hop /\ pet'[n] \subseteq Hop
  BY DEF IInv, TypeOK
<1>2. Apart(app, ids)
  BY <1>1, NodeApart
<1>3. /\ Ups' = Ups
      /\ Routes' = [Routes EXCEPT ![n] = RoutesOver(app, ids, rib'[n])]
      /\ Egress' = [Egress EXCEPT ![n] = HopsOver(app, ids, pet'[n])]
      /\ Routes[n] = RoutesOver(app, ids, rib[n])
      /\ Egress[n] = HopsOver(app, ids, pet[n])
  BY <1>1, OneNodeChanges DEF SameElsewhere, Ups, Routes, Egress
<1>4. f \in PortFaces(app, ids) /\ port = Port(app, ids, f)
  OBVIOUS
<1>5. \E over \in SUBSET ({p} \X {port} \X {"app", "nlsr"}) :
         Routes' = [Routes EXCEPT ![n] = {r \in @ : <<r[1], r[2]>> # <<p, port>>} \cup over]
  <2>1. \E over \in SUBSET RoutesOf(p, port) :
           RoutesOver(app, ids, rib'[n]) =
              RoutesBut(RoutesOver(app, ids, rib[n]), p, port) \cup over
    <3> HIDE DEF port, app, ids
    <3> QED  BY <1>1, <1>2, <1>4, RoutesConfigured
  <2> QED  BY <2>1, <1>3 DEF RoutesOf, RoutesBut
<1>6. \E over \in SUBSET {<<p, port>>} :
         Egress' = [Egress EXCEPT ![n] = (@ \ {<<p, port>>}) \cup over]
  <2>1. \E over \in SUBSET {<<p, port>>} :
           HopsOver(app, ids, pet'[n]) = (HopsOver(app, ids, pet[n]) \ {<<p, port>>}) \cup over
    <3> HIDE DEF port, app, ids
    <3> QED  BY <1>1, <1>2, <1>4, HopsConfigured
  <2> QED  BY <2>1, <1>3
<1>7. Ports!Configure(n, p, port)
  BY <1>3, <1>5, <1>6 DEF Ports!Configure, Ups, Routes, Egress
<1>8. port \in Ups[n] \cup {Interfaces}
  BY <1>1, PortOpen
<1>9. Shown' = [m \in Node |-> {<<x[1], x[2]>> : x \in Routes'[m]}]
  BY <1>1, ShownFollowsNext
<1> HIDE DEF port
<1> QED  BY <1>1, <1>7, <1>8, <1>9 DEF Ports!Next, Ups, Routes, Shown
-----------------------------------------------------------------------------
(* The steps that change the ports of a node. *)
LEMMA PortsInstalled ==
    ASSUME IInv, IInv', NEW n \in Node, Install(n)
    PROVE  Ports!Next
<1> DEFINE ids == [i \in Iface |-> globalFaceID + 3 + i]
<1>1. TypeOK /\ FibFollowsRib'
  BY DEF IInv
<1>2. /\ n \notin installed /\ installed' = installed \cup {n} /\ dvRouter' = dvRouter
      /\ m_faceIds'[n] = ids /\ rib'[n] = {} /\ pet'[n] \subseteq {<<"localhost", globalFaceID + 2>>}
      /\ SameElsewhere(n)
  BY <1>1 DEF Install, routing, TypeOK, SameElsewhere
<1>3. UpOf(m_faceIds'[n]) = Iface
  <2>1. globalFaceID \in Nat /\ \A i \in Iface : i \in Nat
    BY <1>1, ConstantsAssumption DEF TypeOK, Iface
  <2> QED  BY <2>1, <1>2 DEF UpOf
<1>4. RoutesOver(appFaceID'[n], ifaceFaces'[n], rib'[n]) = {}
  BY <1>2 DEF RoutesOver
<1>5. HopsOver(appFaceID'[n], ifaceFaces'[n], pet'[n]) = {}
  BY <1>2 DEF HopsOver
<1>6. /\ Ups' = [Ups EXCEPT ![n] = Iface] /\ Routes' = [Routes EXCEPT ![n] = {}]
      /\ Egress' = [Egress EXCEPT ![n] = {}]
  BY <1>2, <1>3, <1>4, <1>5, OneNodeChanges
<1>7. Ports!Install(n)
  BY <1>2, <1>6 DEF Ports!Install, Ups, Routes, Egress
<1>8. Shown' = [m \in Node |-> {<<x[1], x[2]>> : x \in Routes'[m]}]
  BY <1>1, ShownFollowsNext
<1> QED  BY <1>7, <1>8 DEF Ports!Next, Routes, Shown

LEMMA PortsDisposed ==
    ASSUME IInv, IInv', NEW n \in Node, DoDispose(n)
    PROVE  Ports!Next
<1>1. TypeOK /\ FibFollowsRib'
  BY DEF IInv
<1>2. /\ n \in installed /\ installed' = installed \ {n} /\ dvRouter' = dvRouter \ {n}
      /\ m_faceIds'[n] = NoInterface /\ rib'[n] = {} /\ pet'[n] = {}
      /\ SameElsewhere(n)
  BY <1>1 DEF DoDispose, TypeOK, SameElsewhere
<1>3. /\ UpOf(m_faceIds'[n]) = {}
      /\ RoutesOver(appFaceID'[n], ifaceFaces'[n], rib'[n]) = {}
      /\ HopsOver(appFaceID'[n], ifaceFaces'[n], pet'[n]) = {}
  BY <1>2 DEF UpOf, NoInterface, RoutesOver, HopsOver
<1>4. /\ Ups' = [Ups EXCEPT ![n] = {}] /\ Routes' = [Routes EXCEPT ![n] = {}]
      /\ Egress' = [Egress EXCEPT ![n] = {}]
  BY <1>2, <1>3, OneNodeChanges
<1>5. Ports!Dispose(n)
  BY <1>2, <1>4 DEF Ports!Dispose, Ups, Routes, Egress
<1>6. Shown' = [m \in Node |-> {<<x[1], x[2]>> : x \in Routes'[m]}]
  BY <1>1, ShownFollowsNext
<1> QED  BY <1>5, <1>6 DEF Ports!Next, Routes, Shown

LEMMA PortsDown ==
    ASSUME IInv, IInv', NEW n \in Node, NEW i \in Iface, DeactivateInterface(n, i)
    PROVE  Ports!Next
<1> DEFINE app == appFaceID[n]
           ids == ifaceFaces[n]
           ids2 == ifaceFaces'[n]
<1>1. TypeOK /\ FacesAgree /\ FacesAgree' /\ FibFollowsRib'
  BY DEF IInv
<1>2. /\ ids[i] # 0 /\ UNCHANGED <<installed, dvRouter, appFaceID>>
      /\ ifaceFaces' = [ifaceFaces EXCEPT ![n][i] = 0]
      /\ m_faceIds' = [m_faceIds EXCEPT ![n][i] = 0]
      /\ rib'[n] = ButOver(rib[n], ids[i]) /\ pet'[n] = ButOver(pet[n], ids[i])
      /\ \A m \in Node \ {n} : rib'[m] = rib[m] /\ pet'[m] = pet[m]
  BY <1>1 DEF DeactivateInterface, SetRoutes, ButOver, life, routing, FacesAgree, TypeOK
<1>3. ids2[i] = 0 /\ \A j \in Iface \ {i} : ids2[j] = ids[j]
  BY <1>1, <1>2 DEF TypeOK
<1>4. SameElsewhere(n)
  BY <1>1, <1>2 DEF SameElsewhere, TypeOK
<1>5. Apart(app, ids) /\ Apart(app, ids2)
  BY <1>1, <1>2, NodeApart, NodeApartNext
<1>6. (\A r \in rib[n] : r[2] # 0) /\ (\A h \in pet[n] : h[2] # 0)
  BY <1>1 DEF TypeOK, Route, Hop, FaceID
<1>7. UpOf(m_faceIds'[n]) = Ups[n] \ {i}
  <2>1. /\ m_faceIds'[n][i] = 0
        /\ \A j \in Iface \ {i} : m_faceIds'[n][j] = m_faceIds[n][j]
    BY <1>1, <1>2 DEF TypeOK
  <2> QED  BY <2>1 DEF UpOf, Ups
<1>8. RoutesOver(app, ids2, rib'[n]) = ButOver(Routes[n], i)
  <2>1. RoutesOver(app, ids2, ButOver(rib[n], ids[i])) = ButOver(RoutesOver(app, ids, rib[n]), i)
    <3> HIDE DEF app, ids, ids2
    <3> QED  BY <1>2, <1>3, <1>5, <1>6, RoutesDown
  <2> QED  BY <2>1, <1>2 DEF Routes
<1>9. HopsOver(app, ids2, pet'[n]) = ButOver(Egress[n], i)
  <2>1. HopsOver(app, ids2, ButOver(pet[n], ids[i])) = ButOver(HopsOver(app, ids, pet[n]), i)
    <3> HIDE DEF app, ids, ids2
    <3> QED  BY <1>2, <1>3, <1>5, <1>6, HopsDown
  <2> QED  BY <2>1, <1>2 DEF Egress
<1>10. /\ Ups' = [Ups EXCEPT ![n] = @ \ {i}]
       /\ Routes' = [Routes EXCEPT ![n] = {r \in @ : r[2] # i}]
       /\ Egress' = [Egress EXCEPT ![n] = {h \in @ : h[2] # i}]
  BY <1>2, <1>4, <1>7, <1>8, <1>9, OneNodeChanges DEF ButOver
<1>11. i \in Ups[n]
  BY <1>1, <1>2 DEF Ups, UpOf, FacesAgree
<1>12. Ports!LinkDown(n, i)
  BY <1>2, <1>10, <1>11 DEF Ports!LinkDown, Ups, Routes, Egress
<1>13. Shown' = [m \in Node |-> {<<x[1], x[2]>> : x \in Routes'[m]}]
  BY <1>1, ShownFollowsNext
<1> QED  BY <1>12, <1>13 DEF Ports!Next, Routes, Shown

LEMMA PortsUp ==
    ASSUME IInv, IInv', NEW n \in Node, NEW i \in Iface, ReactivateInterface(n, i)
    PROVE  Ports!Next
<1> DEFINE app == appFaceID[n]
           ids == ifaceFaces[n]
           ids2 == ifaceFaces'[n]
           f == globalFaceID + 1
           new == {<<"neighbors", f, "nlsr">>}
           added == IF n \in dvRouter THEN new ELSE {}
           seen == IF n \in dvRouter THEN {<<"neighbors", i, "nlsr">>} ELSE {}
<1>1. TypeOK /\ FacesAgree /\ FacesAgree' /\ FibFollowsRib'
  BY DEF IInv
<1>2. /\ n \in installed /\ ids[i] = 0
      /\ UNCHANGED <<installed, dvRouter, appFaceID, pet>>
      /\ ifaceFaces' = [ifaceFaces EXCEPT ![n][i] = f]
      /\ m_faceIds' = [m_faceIds EXCEPT ![n][i] = f]
  BY <1>1 DEF ReactivateInterface, life, FacesAgree
<1>3. rib' = [rib EXCEPT ![n] = @ \cup added]
  <2>1. CASE n \in dvRouter
    BY <2>1 DEF ReactivateInterface, AddRoutes, SetRoutes
  <2>2. CASE n \notin dvRouter
    BY <2>2, <1>1 DEF ReactivateInterface, TypeOK
  <2> QED  BY <2>1, <2>2
<1>4. /\ globalFaceID \in Nat /\ f \in Nat /\ f > globalFaceID
      /\ f # 0 /\ f \notin faces[n]
  <2>1. globalFaceID \in Nat
    BY <1>1, ConstantsAssumption DEF TypeOK
  <2>2. f \in Nat /\ f > globalFaceID
    BY <2>1
  <2> HIDE DEF IInv, f
  <2> QED  BY <2>1, <2>2, NewFace
<1>5. ids2[i] = f /\ \A j \in Iface \ {i} : ids2[j] = ids[j]
  BY <1>1, <1>2 DEF TypeOK
<1>6. SameElsewhere(n)
  BY <1>1, <1>2, <1>3 DEF SameElsewhere, TypeOK
<1>7. Apart(app, ids) /\ Apart(app, ids2)
  BY <1>1, <1>2, NodeApart, NodeApartNext
<1>8. ASSUME NEW g \in faces[n] PROVE Port(app, ids2, g) = Port(app, ids, g)
  <2>1. g # f
    BY <1>4
  <2>2. faces[n] \subseteq 1..MaxFace
    BY <1>1 DEF TypeOK, FaceID
  <2>3. g # 0
    BY <2>2
  <2> HIDE DEF app, ids, ids2, f
  <2> QED  BY <2>1, <2>3, <1>2, <1>5, <1>7, PortKept
<1>9. Over(rib[n], fib[n] \cup pet[n], faces[n])
  <2> HIDE DEF IInv
  <2> QED  BY NodeFacts
<1>10. HopsOver(app, ids2, pet[n]) = HopsOver(app, ids, pet[n])
  <2> HIDE DEF app, ids, ids2
  <2> QED  BY <1>8, <1>9 DEF HopsOver, Over
<1>11. RoutesOver(app, ids2, rib'[n]) = RoutesOver(app, ids, rib[n]) \cup seen
  <2>1. rib'[n] = rib[n] \cup added
    BY <1>1, <1>3 DEF TypeOK
  <2>2. RoutesOver(app, ids2, rib'[n]) =
           RoutesOver(app, ids2, rib[n]) \cup RoutesOver(app, ids2, added)
    <3> HIDE DEF added, app, ids2
    <3> QED  BY <2>1 DEF RoutesOver
  <2>3. RoutesOver(app, ids2, rib[n]) = RoutesOver(app, ids, rib[n])
    <3> HIDE DEF app, ids, ids2
    <3> QED  BY <1>8, <1>9 DEF RoutesOver, Over
  <2>4. Port(app, ids2, f) = i
    <3> HIDE DEF app, ids2, f
    <3> QED  BY <1>4, <1>5, <1>7, PortOfIface
  <2>5. RoutesOver(app, ids2, added) = seen
    <3>1. RoutesOver(app, ids2, new) = {<<"neighbors", Port(app, ids2, f), "nlsr">>}
      <4> HIDE DEF app, ids2, f
      <4> QED  BY DEF RoutesOver
    <3>2. RoutesOver(app, ids2, {}) = {}
      BY DEF RoutesOver
    <3> QED  BY <2>4, <3>1, <3>2
  <2> QED  BY <2>2, <2>3, <2>5
<1>12. UpOf(m_faceIds'[n]) = Ups[n] \cup {i}
  <2>1. /\ m_faceIds'[n][i] = f
        /\ \A j \in Iface \ {i} : m_faceIds'[n][j] = m_faceIds[n][j]
    BY <1>1, <1>2 DEF TypeOK
  <2> QED  BY <2>1, <1>4 DEF UpOf, Ups
<1>13. /\ Ups' = [Ups EXCEPT ![n] = @ \cup {i}]
       /\ Routes' = [Routes EXCEPT ![n] = @ \cup seen]
       /\ UNCHANGED Egress
  <2>1. Routes[n] = RoutesOver(app, ids, rib[n]) /\ Egress[n] = HopsOver(app, ids, pet[n])
    BY DEF Routes, Egress
  <2>2. appFaceID'[n] = app /\ pet'[n] = pet[n]
    BY <1>2
  <2>3. RoutesOver(appFaceID'[n], ifaceFaces'[n], rib'[n]) = Routes[n] \cup seen
    <3> HIDE DEF seen, app, ids
    <3> QED  BY <2>1, <2>2, <1>11
  <2>4. HopsOver(appFaceID'[n], ifaceFaces'[n], pet'[n]) = Egress[n]
    <3> HIDE DEF app, ids
    <3> QED  BY <2>1, <2>2, <1>10
  <2>5. /\ Ups' = [Ups EXCEPT ![n] = UpOf(m_faceIds'[n])]
        /\ Routes' = [Routes EXCEPT ![n] =
                         RoutesOver(appFaceID'[n], ifaceFaces'[n], rib'[n])]
        /\ Egress' = [Egress EXCEPT ![n] =
                         HopsOver(appFaceID'[n], ifaceFaces'[n], pet'[n])]
    <3> HIDE DEF IInv
    <3> QED  BY <1>6, OneNodeChanges
  <2> HIDE DEF seen, IInv
  <2>6. Egress' = [Egress EXCEPT ![n] = Egress[n]]
    BY <2>4, <2>5
  <2> QED  BY <2>3, <2>5, <2>6, <1>12 DEF Egress
<1>14. i \in Iface \ Ups[n]
  BY <1>1, <1>2 DEF Ups, UpOf, FacesAgree
<1>15. Ports!LinkUp(n, i)
  BY <1>2, <1>13, <1>14 DEF Ports!LinkUp, Ups, Routes, Egress
<1>16. Shown' = [m \in Node |-> {<<x[1], x[2]>> : x \in Routes'[m]}]
  BY <1>1, ShownFollowsNext
<1> QED  BY <1>15, <1>16 DEF Ports!Next, Routes, Shown

LEMMA PortsDvStarted ==
    ASSUME IInv, IInv', NEW n \in Node, StartDv(n)
    PROVE  Ports!Next
<1> DEFINE app == appFaceID[n]
           ids == ifaceFaces[n]
           new == {"neighbors", "sync"} \X NetworkFaces(n) \X {"nlsr"}
           seen == {"neighbors", "sync"} \X Ups[n] \X {"nlsr"}
<1>1. TypeOK /\ FacesAgree /\ FibFollowsRib'
  BY DEF IInv
<1>2. /\ n \in installed \ dvRouter /\ dvRouter' = dvRouter \cup {n}
      /\ UNCHANGED <<installed, appFaceID, m_faceIds, ifaceFaces, pet>>
      /\ rib' = [rib EXCEPT ![n] = @ \cup new]
  <2>1. {"neighbors"} \cup LinkMulticastPrefixes = {"neighbors", "sync"}
    BY DEF LinkMulticastPrefixes
  <2> QED  BY <2>1 DEF StartDv, AddRoutes, SetRoutes, interfaces, life
<1>3. rib'[n] = rib[n] \cup new
  BY <1>1, <1>2 DEF TypeOK
<1>4. RoutesOver(app, ids, new) = seen
  <2>1. ASSUME NEW x \in RoutesOver(app, ids, new) PROVE x \in seen
    <3>1. PICK r \in new : x = <<r[1], Port(app, ids, r[2]), r[3]>>
      BY DEF RoutesOver
    <3>2. PICK j \in Iface : ifaceFaces[n][j] = r[2] /\ r[2] # 0
      BY <3>1 DEF NetworkFaces
    <3>3. Port(app, ids, r[2]) = j
      BY <3>2, <1>1, NodeApart, PortOfIface
    <3>4. j \in Ups[n]
      BY <3>2, <1>1 DEF Ups, UpOf, FacesAgree
    <3> QED  BY <3>1, <3>3, <3>4
  <2>2. ASSUME NEW x \in seen PROVE x \in RoutesOver(app, ids, new)
    <3>1. PICK p \in {"neighbors", "sync"}, j \in Ups[n] : x = <<p, j, "nlsr">>
      OBVIOUS
    <3>2. j \in Iface /\ ids[j] # 0
      BY <3>1, <1>1 DEF Ups, UpOf, FacesAgree
    <3>3. ids[j] \in NetworkFaces(n) /\ Port(app, ids, ids[j]) = j
      BY <3>2, <1>1, NodeApart, PortOfIface DEF NetworkFaces
    <3>4. <<p, ids[j], "nlsr">> \in new
      BY <3>3
    <3>5. x = <<p, Port(app, ids, ids[j]), "nlsr">>
      BY <3>1, <3>3
    <3> HIDE DEF new, seen
    <3> QED  BY <3>4, <3>5 DEF RoutesOver
  <2> QED  BY <2>1, <2>2
<1>5. RoutesOver(app, ids, rib'[n]) = Routes[n] \cup seen
  <2>1. RoutesOver(app, ids, rib[n] \cup new) =
           RoutesOver(app, ids, rib[n]) \cup RoutesOver(app, ids, new)
    <3> HIDE DEF new
    <3> QED  BY DEF RoutesOver
  <2> QED  BY <2>1, <1>3, <1>4 DEF Routes
<1>6. SameElsewhere(n)
  BY <1>1, <1>2 DEF SameElsewhere, TypeOK
<1>7. /\ UNCHANGED Ups /\ UNCHANGED Egress
      /\ Routes' = [Routes EXCEPT ![n] = @ \cup seen]
  <2>1. UNCHANGED Ups /\ UNCHANGED Egress
    BY <1>2 DEF Ups, Egress
  <2> HIDE DEF seen
  <2> QED  BY <2>1, <1>2, <1>5, <1>6, OneNodeChanges
<1>8. Ports!StartDv(n)
  BY <1>2, <1>7 DEF Ports!StartDv, Ups, Routes, Egress
<1>9. Shown' = [m \in Node |-> {<<x[1], x[2]>> : x \in Routes'[m]}]
  BY <1>1, ShownFollowsNext
<1> QED  BY <1>8, <1>9 DEF Ports!Next, Routes, Shown

LEMMA PortsDvStopped ==
    ASSUME IInv, IInv', NEW n \in Node, StopDv(n)
    PROVE  Ports!Next
<1>1. /\ n \in dvRouter /\ dvRouter' = dvRouter \ {n} /\ FibFollowsRib'
      /\ UNCHANGED <<installed, Ups, Routes, Egress>>
  BY DEF IInv, StopDv, interfaces, life, tables, Ups, Routes, Egress
<1>2. Ports!StopDv(n)
  BY <1>1 DEF Ports!StopDv, Ups, Routes, Egress
<1>3. Shown' = [m \in Node |-> {<<x[1], x[2]>> : x \in Routes'[m]}]
  BY <1>1, ShownFollowsNext
<1> QED  BY <1>2, <1>3 DEF Ports!Next, Routes, Shown
-----------------------------------------------------------------------------
\* Of the faces that a router remembers, those that its node still has are for
\* its interfaces: no old id was given to a face of another kind.
LearnedFaces == \A n \in dvRouter : learned[n] \cap faces[n] \subseteq NetworkFaces(n)

\* The calls that change nothing but routes.
TableCall(n) ==
    \E p \in Prefix :
        \/ \E f \in FaceID : \/ RibRegister(n, p, f) \/ RibUnregister(n, p, f)
                            \/ PetAddNexthop(n, p, f) \/ PetRemoveNexthop(n, p, f)
        \/ \E i \in Iface : AddDirectRoute(n, p, i) \/ RemoveDirectRoute(n, p, i)
        \/ RegisterRoute(n, p) \/ UnregisterRoute(n, p)

LEMMA TableCallKeeps == ASSUME NEW n, TableCall(n) PROVE UNCHANGED <<interfaces, life, routing>>
BY DEF TableCall, RibRegister, RibUnregister, PetAddNexthop, PetRemoveNexthop,
       AddDirectRoute, RemoveDirectRoute, RegisterRoute, UnregisterRoute

LEMMA LearnedInit == Init => LearnedFaces
BY DEF Init, LearnedFaces

\* It is kept when the interfaces, the router and its memory stay the same.
LEMMA LearnedKept ==
    ASSUME LearnedFaces, NEW m \in dvRouter,
           UNCHANGED <<faces[m], ifaceFaces[m], learned[m]>>
    PROVE  (learned[m] \cap faces[m] \subseteq NetworkFaces(m))'
BY DEF LearnedFaces, NetworkFaces

LEMMA LearnedNext == IInv /\ LearnedFaces /\ [Next]_vars => LearnedFaces'
<1> SUFFICES ASSUME IInv, LearnedFaces, [Next]_vars PROVE LearnedFaces'
  OBVIOUS
<1>1. TypeOK /\ FacesAgree
  BY DEF IInv
<1>2. CASE UNCHANGED <<interfaces, routing>>
  BY <1>2 DEF interfaces, routing, LearnedFaces, NetworkFaces
<1>3. ASSUME NEW n \in Node, NEW m \in dvRouter', m # n,
             \/ Install(n) \/ DoDispose(n) \/ StartDv(n)
             \/ \E i \in Iface : DeactivateInterface(n, i) \/ ReactivateInterface(n, i)
      PROVE  (learned[m] \cap faces[m] \subseteq NetworkFaces(m))'
  <2>1. m \in dvRouter /\ m \in Node
    BY <1>1, <1>3 DEF Install, DoDispose, StartDv, DeactivateInterface,
                      ReactivateInterface, routing, TypeOK
  <2>2. UNCHANGED <<faces[m], ifaceFaces[m], learned[m]>>
    BY <1>1, <1>3, <2>1, ZenonT(40) DEF Install, DoDispose, StartDv, DeactivateInterface,
                            ReactivateInterface, interfaces, routing, TypeOK
  <2> QED  BY <2>1, <2>2, LearnedKept
<1>4. ASSUME NEW n \in Node, Install(n) PROVE n \notin dvRouter'
  BY <1>1, <1>4 DEF Install, routing, TypeOK
<1>5. ASSUME NEW n \in Node, DoDispose(n) PROVE n \notin dvRouter'
  BY <1>5 DEF DoDispose
<1>6. ASSUME NEW n \in Node, StartDv(n)
      PROVE  (learned[n] \cap faces[n] \subseteq NetworkFaces(n))'
  BY <1>1, <1>6 DEF StartDv, interfaces, NetworkFaces, TypeOK
<1>7. ASSUME NEW n \in Node, NEW i \in Iface, DeactivateInterface(n, i), n \in dvRouter'
      PROVE  (learned[n] \cap faces[n] \subseteq NetworkFaces(n))'
  <2> DEFINE f == ifaceFaces[n][i]
  <2>1. /\ n \in dvRouter /\ learned' = learned /\ faces'[n] = faces[n] \ {f}
        /\ \A j \in Iface \ {i} : ifaceFaces'[n][j] = ifaceFaces[n][j]
    <3>1. n \in dvRouter /\ learned' = learned
      BY <1>7 DEF DeactivateInterface, routing
    <3>2. /\ faces' = [faces EXCEPT ![n] = @ \ {f}]
          /\ ifaceFaces' = [ifaceFaces EXCEPT ![n][i] = 0]
      BY <1>7 DEF DeactivateInterface
    <3> QED  BY <1>1, <3>1, <3>2 DEF TypeOK
  <2>2. NetworkFaces(n) \ {f} \subseteq NetworkFaces(n)'
    BY <2>1 DEF NetworkFaces
  <2> QED  BY <2>1, <2>2 DEF LearnedFaces
<1>8. ASSUME NEW n \in Node, NEW i \in Iface, ReactivateInterface(n, i), n \in dvRouter'
      PROVE  (learned[n] \cap faces[n] \subseteq NetworkFaces(n))'
  <2> DEFINE f == globalFaceID + 1
  <2>1. /\ n \in dvRouter /\ ifaceFaces[n][i] = 0 /\ ifaceFaces'[n][i] = f
        /\ learned'[n] = learned[n] \cup {f} /\ faces'[n] = faces[n] \cup {f}
        /\ \A j \in Iface \ {i} : ifaceFaces'[n][j] = ifaceFaces[n][j]
    BY <1>1, <1>8 DEF ReactivateInterface, TypeOK, FacesAgree
  <2>2. f # 0
    BY <1>1, ConstantsAssumption DEF TypeOK
  <2>3. NetworkFaces(n) \cup {f} \subseteq NetworkFaces(n)'
    BY <2>1, <2>2 DEF NetworkFaces
  <2> HIDE DEF f
  <2>4. f \notin faces[n]
    <3>1. f \in Nat /\ f > globalFaceID
      BY <1>1, ConstantsAssumption DEF TypeOK, f
    <3> HIDE DEF IInv
    <3> QED  BY <3>1, NewFace
  <2> QED  BY <2>1, <2>3, <2>4 DEF LearnedFaces
<1>9. ASSUME NEW n \in Node, StopDv(n) PROVE LearnedFaces'
  BY <1>9 DEF StopDv, interfaces, LearnedFaces, NetworkFaces
<1>10. CASE Next
  <2>1. PICK n \in Node :
          \/ Install(n) \/ DoDispose(n) \/ StartDv(n) \/ StopDv(n)
          \/ \E i \in Iface : DeactivateInterface(n, i) \/ ReactivateInterface(n, i)
          \/ TableCall(n)
    BY <1>10 DEF Next, TableCall
  <2>2. CASE StopDv(n) \/ TableCall(n)
    BY <2>2, <1>2, <1>9, TableCallKeeps
  <2>3. CASE \/ Install(n) \/ DoDispose(n) \/ StartDv(n)
             \/ \E i \in Iface : DeactivateInterface(n, i) \/ ReactivateInterface(n, i)
    <3>1. ASSUME NEW m \in dvRouter'
          PROVE  (learned[m] \cap faces[m] \subseteq NetworkFaces(m))'
      BY <2>3, <3>1, <1>3, <1>4, <1>5, <1>6, <1>7, <1>8
    <3> QED  BY <3>1 DEF LearnedFaces
  <2> QED  BY <2>1, <2>2, <2>3
<1>11. CASE UNCHANGED vars
  BY <1>2, <1>11 DEF vars
<1> QED  BY <1>10, <1>11
-----------------------------------------------------------------------------
(* The steps that only change routes, each of one name over one face. *)
LEMMA Called ==
    ASSUME IInv, IInv', NEW n \in installed, NEW p \in Prefix,
           NEW f, f \in PortFaces(appFaceID[n], ifaceFaces[n]), NEW R, NEW H,
           UNCHANGED <<interfaces, life, routing>>,
           rib' = [rib EXCEPT ![n] = R], SameRoutesBut(rib[n], R, p, f),
           pet' = [pet EXCEPT ![n] = H], SameHopsBut(pet[n], H, p, f)
    PROVE  Ports!Next
<1>1. TypeOK /\ n \in Node
  BY DEF IInv, TypeOK
<1>2. /\ rib'[n] = R /\ pet'[n] = H
      /\ \A m \in Node \ {n} : rib'[m] = rib[m] /\ pet'[m] = pet[m]
  BY <1>1 DEF TypeOK
<1>3. UNCHANGED <<installed, dvRouter, appFaceID, m_faceIds, ifaceFaces>>
  BY DEF interfaces, life, routing
<1> HIDE DEF IInv
<1> QED  BY <1>2, <1>3, Configured

\* The face a command names is for a port, or it is gone.
LEMMA CommandPort ==
    ASSUME LearnedFaces, NEW n \in dvRouter, NEW f \in CommandFace(n), f \in faces[n]
    PROVE  f \in PortFaces(appFaceID[n], ifaceFaces[n])
BY DEF LearnedFaces, CommandFace, PortFaces, NetworkFaces

LEMMA AddedDiffers ==
    ASSUME NEW R, NEW H, NEW p, NEW f, NEW o
    PROVE  /\ SameRoutesBut(R, R \cup {<<p, f, o>>}, p, f) /\ SameRoutesBut(R, R, p, f)
           /\ SameHopsBut(H, H \cup {<<p, f>>}, p, f) /\ SameHopsBut(H, H, p, f)
BY DEF SameRoutesBut, SameHopsBut

LEMMA RemovedDiffers ==
    ASSUME NEW R, NEW H, NEW p, NEW f, NEW o
    PROVE  /\ SameRoutesBut(R, R \ {<<p, f, o>>}, p, f)
           /\ SameHopsBut(H, H \ {<<p, f>>}, p, f)
BY DEF SameRoutesBut, SameHopsBut

\* A route or a hop of a face that is gone is not there to be removed.
LEMMA GoneFromTables ==
    ASSUME NoDanglingRoute, NEW n \in Node, NEW p, NEW f, f \notin faces[n], NEW o
    PROVE  rib[n] \ {<<p, f, o>>} = rib[n] /\ pet[n] \ {<<p, f>>} = pet[n]
<1>1. \A r \in rib[n] : r # <<p, f, o>>
  BY DEF NoDanglingRoute
<1>2. \A h \in pet[n] : h # <<p, f>>
  BY DEF NoDanglingRoute
<1> QED  BY <1>1, <1>2

LEMMA PortsCalled ==
    ASSUME IInv, IInv', LearnedFaces, NEW n \in Node, TableCall(n)
    PROVE  Ports!Next \/ UNCHANGED Ports!vars
<1>1. TypeOK /\ FacesAgree /\ NoDanglingRoute
  BY DEF IInv
<1>2. UNCHANGED <<interfaces, life, routing>>
  BY TableCallKeeps
<1>3. rib = [rib EXCEPT ![n] = rib[n]] /\ pet = [pet EXCEPT ![n] = pet[n]]
  BY <1>1 DEF TypeOK
<1>4. dvRouter \subseteq installed
  BY <1>1 DEF TypeOK
<1> HIDE DEF IInv
<1>5. ASSUME NEW p \in Prefix, NEW f \in FaceID, RibRegister(n, p, f) PROVE Ports!Next
  <2>1. /\ n \in dvRouter /\ f \in PortFaces(appFaceID[n], ifaceFaces[n])
        /\ rib' = [rib EXCEPT ![n] = rib[n] \cup {<<p, f, "nlsr">>}]
        /\ pet' = [pet EXCEPT ![n] = pet[n]]
    BY <1>3, <1>5, CommandPort DEF RibRegister, AddRoutes, SetRoutes
  <2> QED  BY <2>1, <1>2, <1>4, AddedDiffers, Called
<1>6. ASSUME NEW p \in Prefix, NEW f \in FaceID, RibUnregister(n, p, f)
      PROVE  Ports!Next \/ UNCHANGED Ports!vars
  <2>1. /\ n \in dvRouter /\ f \in CommandFace(n)
        /\ rib' = [rib EXCEPT ![n] = rib[n] \ {<<p, f, "nlsr">>}]
        /\ pet' = [pet EXCEPT ![n] = pet[n]]
    BY <1>3, <1>6 DEF RibUnregister, SetRoutes
  <2>2. CASE f \in faces[n]
    <3>1. f \in PortFaces(appFaceID[n], ifaceFaces[n])
      BY <2>1, <2>2, CommandPort
    <3> QED  BY <2>1, <3>1, <1>2, <1>4, AddedDiffers, RemovedDiffers, Called
  <2>3. CASE f \notin faces[n]
    <3>1. rib' = rib /\ pet' = pet
      BY <2>1, <2>3, <1>1, <1>3, GoneFromTables
    <3> QED  BY <3>1, <1>2, NothingNew DEF interfaces, life, routing
  <2> QED  BY <2>2, <2>3
<1>7. ASSUME NEW p \in Prefix, NEW f \in FaceID, PetAddNexthop(n, p, f) PROVE Ports!Next
  <2>1. /\ n \in dvRouter /\ f \in PortFaces(appFaceID[n], ifaceFaces[n])
        /\ rib' = [rib EXCEPT ![n] = rib[n]]
        /\ pet' = [pet EXCEPT ![n] = pet[n] \cup {<<p, f>>}]
    BY <1>3, <1>7, CommandPort DEF PetAddNexthop
  <2> QED  BY <2>1, <1>2, <1>4, AddedDiffers, Called
<1>8. ASSUME NEW p \in Prefix, NEW f \in FaceID, PetRemoveNexthop(n, p, f)
      PROVE  Ports!Next \/ UNCHANGED Ports!vars
  <2>1. /\ n \in dvRouter /\ f \in CommandFace(n)
        /\ rib' = [rib EXCEPT ![n] = rib[n]]
        /\ pet' = [pet EXCEPT ![n] = pet[n] \ {<<p, f>>}]
    BY <1>3, <1>8 DEF PetRemoveNexthop
  <2>2. CASE f \in faces[n]
    <3>1. f \in PortFaces(appFaceID[n], ifaceFaces[n])
      BY <2>1, <2>2, CommandPort
    <3> QED  BY <2>1, <3>1, <1>2, <1>4, AddedDiffers, RemovedDiffers, Called
  <2>3. CASE f \notin faces[n]
    <3>1. rib' = rib /\ pet' = pet
      BY <2>1, <2>3, <1>1, <1>3, GoneFromTables
    <3> QED  BY <3>1, <1>2, NothingNew DEF interfaces, life, routing
  <2> QED  BY <2>2, <2>3
<1>9. ASSUME NEW p \in Prefix, NEW i \in Iface,
             AddDirectRoute(n, p, i) \/ RemoveDirectRoute(n, p, i)
      PROVE  Ports!Next
  <2> DEFINE f == m_faceIds[n][i]
  <2>1. /\ n \in installed /\ f \in PortFaces(appFaceID[n], ifaceFaces[n])
    BY <1>1, <1>9 DEF AddDirectRoute, RemoveDirectRoute, PortFaces, FacesAgree
  <2>2. CASE AddDirectRoute(n, p, i)
    <3>1. rib' = [rib EXCEPT ![n] = rib[n] \cup {<<p, f, "app">>}]
      BY <2>2 DEF AddDirectRoute, AddRoutes, SetRoutes
    <3>2. \/ pet' = [pet EXCEPT ![n] = pet[n]]
          \/ pet' = [pet EXCEPT ![n] = pet[n] \cup {<<p, f>>}]
      BY <2>2 DEF AddDirectRoute
    <3> HIDE DEF f
    <3>3. CASE pet' = [pet EXCEPT ![n] = pet[n]]
      BY <2>1, <3>1, <3>3, <1>2, AddedDiffers, Called
    <3>4. CASE pet' = [pet EXCEPT ![n] = pet[n] \cup {<<p, f>>}]
      BY <2>1, <3>1, <3>4, <1>2, AddedDiffers, Called
    <3> QED  BY <3>2, <3>3, <3>4
  <2>3. CASE RemoveDirectRoute(n, p, i)
    <3>1. /\ rib' = [rib EXCEPT ![n] = rib[n] \ {<<p, f, "app">>}]
          /\ pet' = [pet EXCEPT ![n] = pet[n] \ {<<p, f>>}]
      BY <2>3 DEF RemoveDirectRoute, SetRoutes
    <3> HIDE DEF f
    <3> QED  BY <2>1, <3>1, <1>2, RemovedDiffers, Called
  <2> QED  BY <1>9, <2>2, <2>3
<1>10. ASSUME NEW p \in Prefix, RegisterRoute(n, p) \/ UnregisterRoute(n, p)
       PROVE  Ports!Next
  <2> DEFINE f == appFaceID[n]
  <2>1. n \in installed /\ f \in PortFaces(appFaceID[n], ifaceFaces[n])
    BY <1>10 DEF RegisterRoute, UnregisterRoute, PortFaces
  <2>2. CASE RegisterRoute(n, p)
    <3>1. CASE onePhase
      <4>1. /\ rib' = [rib EXCEPT ![n] = rib[n] \cup {<<p, f, "app">>}]
            /\ pet' = [pet EXCEPT ![n] = pet[n]]
        BY <2>2, <3>1, <1>3 DEF RegisterRoute, AddRoutes, SetRoutes
      <4> HIDE DEF f
      <4> QED  BY <2>1, <4>1, <1>2, AddedDiffers, Called
    <3>2. CASE ~onePhase
      <4>1. /\ rib' = [rib EXCEPT ![n] = rib[n]]
            /\ pet' = [pet EXCEPT ![n] = pet[n] \cup {<<p, f>>}]
        BY <2>2, <3>2, <1>3 DEF RegisterRoute
      <4> HIDE DEF f
      <4> QED  BY <2>1, <4>1, <1>2, AddedDiffers, Called
    <3> QED  BY <3>1, <3>2
  <2>3. CASE UnregisterRoute(n, p)
    <3>1. CASE onePhase
      <4>1. /\ rib' = [rib EXCEPT ![n] = rib[n] \ {<<p, f, "app">>}]
            /\ pet' = [pet EXCEPT ![n] = pet[n]]
        BY <2>3, <3>1, <1>3 DEF UnregisterRoute, SetRoutes
      <4> HIDE DEF f
      <4> QED  BY <2>1, <4>1, <1>2, AddedDiffers, RemovedDiffers, Called
    <3>2. CASE ~onePhase
      <4>1. /\ rib' = [rib EXCEPT ![n] = rib[n]]
            /\ pet' = [pet EXCEPT ![n] = pet[n] \ {<<p, f>>}]
        BY <2>3, <3>2, <1>3 DEF UnregisterRoute
      <4> HIDE DEF f
      <4> QED  BY <2>1, <4>1, <1>2, AddedDiffers, RemovedDiffers, Called
    <3> QED  BY <3>1, <3>2
  <2> QED  BY <1>10, <2>2, <2>3
<1> QED  BY <1>5, <1>6, <1>7, <1>8, <1>9, <1>10 DEF TableCall

\* Initial states are initial states, and every step is a step or a stutter.
LEMMA PortsInit == Init => Ports!Init
<1> SUFFICES ASSUME Init PROVE Ports!Init
  OBVIOUS
<1>1. \A n \in Node : /\ UpOf(m_faceIds[n]) = {}
                      /\ RoutesOver(appFaceID[n], ifaceFaces[n], rib[n]) = {}
                      /\ HopsOver(appFaceID[n], ifaceFaces[n], fib[n]) = {}
                      /\ HopsOver(appFaceID[n], ifaceFaces[n], pet[n]) = {}
  BY DEF Init, NoInterface, UpOf, RoutesOver, HopsOver
<1> QED  BY <1>1 DEF Init, Ports!Init

LEMMA PortsNext ==
    IInv /\ LearnedFaces /\ [Next]_vars /\ IInv' => [Ports!Next]_(Ports!vars)
<1> SUFFICES ASSUME IInv, IInv', LearnedFaces, [Next]_vars
             PROVE  Ports!Next \/ UNCHANGED Ports!vars
  OBVIOUS
<1> HIDE DEF IInv
<1>1. CASE Next
  <2>1. PICK n \in Node :
          \/ Install(n) \/ DoDispose(n) \/ StartDv(n) \/ StopDv(n)
          \/ \E i \in Iface : DeactivateInterface(n, i) \/ ReactivateInterface(n, i)
          \/ TableCall(n)
    BY <1>1 DEF Next, TableCall
  <2>2. CASE Install(n) \/ DoDispose(n)
    BY <2>2, PortsInstalled, PortsDisposed
  <2>3. CASE StartDv(n) \/ StopDv(n)
    BY <2>3, PortsDvStarted, PortsDvStopped
  <2>4. ASSUME NEW i \in Iface, DeactivateInterface(n, i) \/ ReactivateInterface(n, i)
        PROVE  Ports!Next
    BY <2>4, PortsDown, PortsUp
  <2>5. CASE TableCall(n)
    BY <2>5, PortsCalled
  <2> QED  BY <2>1, <2>2, <2>3, <2>4, <2>5
<1>2. CASE UNCHANGED vars
  BY <1>2, NothingNew DEF vars, interfaces, life, tables, routing
<1> QED  BY <1>1, <1>2

(* Whatever faces come and go, and in whatever tables they are named, a     *)
(* node behaves like a set of ports with routes over them: nothing of a     *)
(* link survives it or appears on another, and the FIB shows the routes     *)
(* after every call (node.go, forwarder.go, engine.go ExecMgmtCmd).         *)
THEOREM Refinement == Spec => ImplementsPortRoutes
<1>1. Spec => [](IInv /\ LearnedFaces)
  BY InitInvariant, NextInvariant, LearnedInit, LearnedNext, PTL DEF Spec
<1> QED  BY <1>1, PortsInit, PortsNext, PTL DEF Spec, ImplementsPortRoutes, Ports!Spec
=============================================================================
