--------------------------- MODULE DvRouter_proofs --------------------------
(***************************************************************************)
(* What DvRouter says of timers, prefix sync, certificates and silence,    *)
(* for any number of nodes, routers and publications.                      *)
(*                                                                         *)
(* What makes it work: router instances are numbered as they are made, so  *)
(* that a new one shares nothing with those before it; a node that holds a *)
(* router has its handlers attached, so that Init refuses a second one;    *)
(* all keychains hold the same certificates; whoever starts prefix sync    *)
(* leaves a mark that nothing takes away; and in twophase a router whose   *)
(* handlers are attached, stopped or not, bears it before a RIB update     *)
(* can ask.                                                                *)
(***************************************************************************)
EXTENDS DvRouter, TLAPS

Numbered ==
    /\ \A n \in Node : handlers[n] # None => handlers[n] \in 1..routers
    /\ sent \subseteq 1..routers

HandlersAttached ==
    \A n \in Node : /\ handlers[n] # None => n \in installed
                    /\ dvRouter[n] # None => handlers[n] = dvRouter[n]

SameKeys ==
    /\ \A r \in Router : keychain[r] # {} => keychain[r] = nodeCerts
    /\ \A n \in Node : dvRouter[n] # None => n \in keychain[dvRouter[n]]

Marked == \A r \in Router : sync[r] # "off" => r \in pfxStarted

StartedQuietly ==
    ~onePhase => /\ \A r \in Router : sync[r] # "periodic"
                 /\ \A n \in Node : handlers[n] # None => handlers[n] \in pfxStarted

\* The three parts of RouterOwnsItsTimers.
RunningOnClock == \A n \in Node : dvRouter[n] # None => Timers(n, dvRouter[n]) \subseteq timers

ClockOfRunning ==
    \A t \in timers :
        /\ t[2] \in installed
        /\ t[3] # dvRouter[t[2]] => t[1] = "ticker" /\ t[3] # handlers[t[2]]

SyncHasOwner ==
    \A r \in Router : sync[r] \in On =>
        \E n \in installed :
           /\ handlers[n] = r
           /\ dvRouter[n] = r \/ (onePhase /\ sync[r] = "periodic")

IInv ==
    /\ TypeOK /\ Numbered /\ HandlersAttached /\ SameKeys /\ Marked /\ StartedQuietly
    /\ RunningOnClock /\ ClockOfRunning /\ SyncHasOwner /\ QuietWithoutPrefixes
-----------------------------------------------------------------------------
\* A timer is of a kind, a node and a router.
LEMMA TimerParts ==
    ASSUME NEW t \in Timer
    PROVE  /\ t[1] \in {"heartbeat", "deadcheck", "ticker"}
           /\ t[2] \in Node /\ t[3] \in Router
           /\ t = <<t[1], t[2], t[3]>>
BY DEF Timer

\* The timers of a router of a node.
LEMMA TimersOf ==
    ASSUME NEW n \in Node, NEW r, NEW t \in Timer
    PROVE  t \in Timers(n, r) <=> t[2] = n /\ t[3] = r
BY TimerParts DEF Timers

\* Starting prefix sync of routers whose owners may run it.
LEMMA StartPfxKeeps ==
    ASSUME TypeOK, Marked, SyncHasOwner, NEW S \in SUBSET Router,
           NEW mode \in On, StartPfx(S, mode), UNCHANGED <<control, timers>>,
           \A r \in S \ pfxStarted : \E n \in installed :
              /\ handlers[n] = r
              /\ dvRouter[n] = r \/ (onePhase /\ mode = "periodic")
    PROVE  /\ sync' \in [Router -> On \cup {"off", "stopped"}]
           /\ pfxStarted' = pfxStarted \cup S /\ pfxStarted' \subseteq Router
           /\ \A r \in Router : sync'[r] = sync[r] \/ (r \in S \ pfxStarted /\ sync'[r] = mode)
           /\ Marked' /\ SyncHasOwner'
<1>1. /\ sync' = [r \in Router |-> IF r \in S \ pfxStarted THEN mode ELSE sync[r]]
      /\ pfxStarted' = pfxStarted \cup S
  BY DEF StartPfx, Started
<1>2. /\ sync' \in [Router -> On \cup {"off", "stopped"}]
      /\ pfxStarted' \subseteq Router
      /\ \A r \in Router : sync'[r] = sync[r] \/ (r \in S \ pfxStarted /\ sync'[r] = mode)
  BY <1>1 DEF TypeOK, On
<1>3. Marked'
  BY <1>1, <1>2 DEF Marked
<1>4. SyncHasOwner'
  BY <1>1, <1>2 DEF SyncHasOwner, control
<1> QED  BY <1>1, <1>2, <1>3, <1>4

\* Stopping never starts.
LEMMA StoppedModes ==
    ASSUME TypeOK, Marked, NEW S, sync' = Stopped(S), pfxStarted' = pfxStarted
    PROVE  /\ sync' \in [Router -> On \cup {"off", "stopped"}]
           /\ \A r \in Router : sync'[r] \in {sync[r], "stopped"}
           /\ \A r \in S \cap Router : sync'[r] \notin On
           /\ Marked'
<1>1. sync' = [r \in Router |-> IF r \in S /\ sync[r] # "off" THEN "stopped" ELSE sync[r]]
  BY DEF Stopped
<1>2. sync' \in [Router -> On \cup {"off", "stopped"}]
  BY <1>1 DEF TypeOK
<1> QED  BY <1>1, <1>2 DEF Marked, On

\* A publication of a router that has been numbered.
LEMMA PublishKeeps ==
    ASSUME TypeOK, Numbered, QuietWithoutPrefixes, NEW r \in Router, r \in 1..routers,
           NEW modes, Publish(r, modes), UNCHANGED <<onePhase, routers>>
    PROVE  /\ published' \in [Router -> 0..MaxPublished]
           /\ sent' \subseteq Router /\ sent' \subseteq 1..routers
           /\ QuietWithoutPrefixes'
<1>1. /\ published[r] < MaxPublished /\ published' = [published EXCEPT ![r] = @ + 1]
      /\ sent' \in {sent, sent \cup {r}}
  BY DEF Publish
<1>2. published[r] \in 0..MaxPublished
  BY DEF TypeOK
<1>3. published' \in [Router -> 0..MaxPublished] /\ published'[r] > 0
  BY <1>1, <1>2, DvRouterAssumption DEF TypeOK
<1>4. sent' \subseteq Router /\ sent' \subseteq 1..routers
  BY <1>1 DEF TypeOK, Numbered
<1>5. ASSUME ~onePhase, NEW q \in sent' PROVE published'[q] > 0
  BY <1>1, <1>3, <1>4, <1>5 DEF TypeOK, QuietWithoutPrefixes
<1> QED  BY <1>3, <1>4, <1>5 DEF QuietWithoutPrefixes

\* A node gives its certificate to its new keychain and to all others.
LEMMA NodeKeychainKeeps ==
    ASSUME TypeOK, SameKeys, NEW n \in Node, NEW r \in Router, NodeKeychain(n, r)
    PROVE  /\ nodeCerts' = nodeCerts \cup {n}
           /\ keychain' \in [Router -> SUBSET Node]
           /\ \A q \in Router : keychain'[q] # {} => keychain'[q] = nodeCerts'
           /\ \A q \in Router : keychain[q] \subseteq keychain'[q]
           /\ keychain'[r] = nodeCerts'
BY DEF TypeOK, SameKeys, NodeKeychain
-----------------------------------------------------------------------------
(* The initial states satisfy the invariant. *)
THEOREM InitInvariant == Init => IInv
<1> SUFFICES ASSUME Init PROVE IInv
  OBVIOUS
<1>1. TypeOK
  BY DvRouterAssumption DEF Init, TypeOK
<1>2. Numbered /\ HandlersAttached /\ SameKeys /\ QuietWithoutPrefixes
  BY DEF Init, Numbered, HandlersAttached, SameKeys, QuietWithoutPrefixes
<1>3. Marked /\ StartedQuietly /\ SyncHasOwner
  BY DEF Init, Marked, StartedQuietly, SyncHasOwner, On
<1>4. RunningOnClock /\ ClockOfRunning
  BY DEF Init, RunningOnClock, ClockOfRunning
<1> QED  BY <1>1, <1>2, <1>3, <1>4 DEF IInv

LEMMA PublishInvariant ==
    ASSUME IInv, NEW n \in Node, dvRouter[n] # None, Publish(dvRouter[n], sync),
           UNCHANGED <<control, creds, timers, pfxStarted, stable, sync>>
    PROVE  IInv'
<1>1. dvRouter[n] \in Router /\ dvRouter[n] \in 1..routers
  BY DEF IInv, TypeOK, Numbered, HandlersAttached
<1>2. /\ published' \in [Router -> 0..MaxPublished]
      /\ sent' \subseteq Router /\ sent' \subseteq 1..routers
      /\ QuietWithoutPrefixes'
  BY <1>1, PublishKeeps DEF IInv, control
<1>3. TypeOK' /\ Numbered'
  BY <1>2 DEF IInv, TypeOK, Numbered, control, creds
<1>4. HandlersAttached' /\ SameKeys' /\ Marked' /\ StartedQuietly'
  BY DEF IInv, HandlersAttached, SameKeys, Marked, StartedQuietly, control, creds
<1>5. RunningOnClock' /\ ClockOfRunning' /\ SyncHasOwner'
  BY DEF IInv, RunningOnClock, ClockOfRunning, SyncHasOwner, control
<1> QED  BY <1>2, <1>3, <1>4, <1>5 DEF IInv

\* A RIB update of a router whose handlers are attached, running or not.
LEMMA RunConvergenceHookInvariant ==
    ASSUME IInv, NEW n \in Node, NEW r \in Router, handlers[n] = r, RunConvergenceHook(r)
    PROVE  IInv'
<1>1. /\ StartPfx({r} \ stable, "periodic")
      /\ UNCHANGED <<control, creds, timers, stable, published, sent>>
  BY DEF RunConvergenceHook
<1>2. n \in installed /\ r # None
  BY DvRouterAssumption DEF IInv, HandlersAttached, Router
<1>3. ~onePhase => r \in pfxStarted
  BY <1>2 DEF IInv, StartedQuietly
<1>4. /\ sync' \in [Router -> On \cup {"off", "stopped"}]
      /\ pfxStarted' = pfxStarted \cup ({r} \ stable) /\ pfxStarted' \subseteq Router
      /\ \A q \in Router :
            sync'[q] = sync[q] \/ (q \in ({r} \ stable) \ pfxStarted /\ sync'[q] = "periodic")
      /\ Marked' /\ SyncHasOwner'
  BY <1>1, <1>2, <1>3, StartPfxKeeps DEF IInv, On, TypeOK
<1>5. TypeOK' /\ Numbered' /\ HandlersAttached' /\ SameKeys'
  BY <1>1, <1>4 DEF IInv, TypeOK, Numbered, HandlersAttached, SameKeys, control, creds
<1>6. StartedQuietly'
  BY <1>1, <1>3, <1>4 DEF IInv, StartedQuietly, control
<1>7. RunningOnClock' /\ ClockOfRunning' /\ QuietWithoutPrefixes'
  BY <1>1 DEF IInv, RunningOnClock, ClockOfRunning, QuietWithoutPrefixes, control
<1> QED  BY <1>4, <1>5, <1>6, <1>7 DEF IInv

\* Nodes are disposed of, one or all; what becomes of the certificates is the
\* caller's.
LEMMA DisposeInvariant ==
    ASSUME IInv, NEW N \in SUBSET installed, Dispose(N), SameKeys',
           trust' \in {"none", "root", "error"}, nodeCerts' \subseteq Node,
           keychain' \in [Router -> SUBSET Node]
    PROVE  IInv'
<1>1. /\ timers' = {t \in timers : t[2] \notin N}
      /\ sync' = Stopped(UNION {{dvRouter[n], handlers[n]} : n \in N})
      /\ installed' = installed \ N
      /\ dvRouter' = [n \in Node |-> IF n \in N THEN None ELSE dvRouter[n]]
      /\ handlers' = [n \in Node |-> IF n \in N THEN None ELSE handlers[n]]
      /\ UNCHANGED <<onePhase, routers, pfxStarted, stable, published, sent>>
  BY DEF Dispose
<1>2. /\ sync' \in [Router -> On \cup {"off", "stopped"}]
      /\ \A r \in Router : sync'[r] \in {sync[r], "stopped"}
      /\ \A n \in N : handlers[n] \in Router => sync'[handlers[n]] \notin On
      /\ Marked'
  BY <1>1, StoppedModes DEF IInv
<1>3. TypeOK'
  BY <1>1, <1>2 DEF IInv, TypeOK
<1>4. Numbered' /\ HandlersAttached' /\ QuietWithoutPrefixes'
  BY <1>1 DEF IInv, TypeOK, Numbered, HandlersAttached, QuietWithoutPrefixes
<1>5. StartedQuietly'
  BY <1>1, <1>2 DEF IInv, TypeOK, StartedQuietly
<1>6. RunningOnClock'
  <2>1. ASSUME NEW n \in Node, dvRouter'[n] # None PROVE Timers(n, dvRouter'[n]) \subseteq timers'
    <3>1. n \notin N /\ dvRouter'[n] = dvRouter[n]
      BY <1>1, <2>1
    <3>2. Timers(n, dvRouter[n]) \subseteq timers
      BY <2>1, <3>1 DEF IInv, RunningOnClock
    <3> QED  BY <1>1, <3>1, <3>2 DEF Timers
  <2> QED  BY <2>1 DEF RunningOnClock
<1>7. ClockOfRunning'
  <2>1. ASSUME NEW t \in timers'
        PROVE  /\ t[2] \in installed'
               /\ t[3] # dvRouter'[t[2]] => t[1] = "ticker" /\ t[3] # handlers'[t[2]]
    <3>1. t \in timers /\ t[2] \notin N /\ t[2] \in Node
      BY <1>1, TimerParts DEF IInv, TypeOK
    <3> QED  BY <1>1, <3>1 DEF IInv, ClockOfRunning
  <2> QED  BY <2>1 DEF ClockOfRunning
<1>8. SyncHasOwner'
  <2>1. ASSUME NEW r \in Router, sync'[r] \in On
        PROVE  \E n \in installed' : /\ handlers'[n] = r
                                     /\ dvRouter'[n] = r \/ (onePhase' /\ sync'[r] = "periodic")
    <3>1. sync'[r] = sync[r]
      BY <1>2, <2>1 DEF On
    <3>2. PICK n \in installed : /\ handlers[n] = r
                                 /\ dvRouter[n] = r \/ (onePhase /\ sync[r] = "periodic")
      BY <2>1, <3>1 DEF IInv, SyncHasOwner
    <3>3. n \notin N /\ n \in Node
      BY <1>2, <2>1, <3>2 DEF IInv, TypeOK
    <3> QED  BY <1>1, <3>1, <3>2, <3>3
  <2> QED  BY <2>1 DEF SyncHasOwner
<1> QED  BY <1>2, <1>3, <1>4, <1>5, <1>6, <1>7, <1>8 DEF IInv

LEMMA StopDvInvariant ==
    ASSUME IInv, NEW n \in Node, StopDv(n)
    PROVE  IInv'
<1>1. /\ timers' = timers \ Timers(n, dvRouter[n])
      /\ sync' = Stopped({dvRouter[n]})
      /\ dvRouter' = [dvRouter EXCEPT ![n] = None]
      /\ UNCHANGED <<onePhase, installed, handlers, routers, creds, pfxStarted, stable,
                     published, sent>>
  BY DEF StopDv
<1>2. /\ sync' \in [Router -> On \cup {"off", "stopped"}]
      /\ \A r \in Router : sync'[r] \in {sync[r], "stopped"}
      /\ dvRouter[n] \in Router => sync'[dvRouter[n]] \notin On
      /\ Marked'
  BY <1>1, StoppedModes DEF IInv
<1>3. TypeOK'
  BY <1>1, <1>2 DEF IInv, TypeOK, creds
<1>4. Numbered' /\ HandlersAttached' /\ SameKeys' /\ QuietWithoutPrefixes'
  BY <1>1 DEF IInv, TypeOK, Numbered, HandlersAttached, SameKeys, QuietWithoutPrefixes, creds
<1>5. StartedQuietly'
  BY <1>1, <1>2 DEF IInv, StartedQuietly
<1>6. RunningOnClock'
  <2>1. ASSUME NEW m \in Node, dvRouter'[m] # None PROVE Timers(m, dvRouter'[m]) \subseteq timers'
    <3>1. m # n /\ dvRouter'[m] = dvRouter[m]
      BY <1>1, <2>1 DEF IInv, TypeOK
    <3>2. Timers(m, dvRouter[m]) \subseteq timers
      BY <2>1, <3>1 DEF IInv, RunningOnClock
    <3> QED  BY <1>1, <3>1, <3>2 DEF Timers
  <2> QED  BY <2>1 DEF RunningOnClock
<1>7. ClockOfRunning'
  <2>1. ASSUME NEW t \in timers'
        PROVE  /\ t[2] \in installed'
               /\ t[3] # dvRouter'[t[2]] => t[1] = "ticker" /\ t[3] # handlers'[t[2]]
    <3>1. t \in timers /\ t \in Timer /\ t[2] \in Node /\ t \notin Timers(n, dvRouter[n])
      BY <1>1, TimerParts DEF IInv, TypeOK
    <3>2. t[2] = n => t[3] # dvRouter[n]
      BY <3>1, TimersOf
    <3>3. /\ t[2] \in installed
          /\ t[3] # dvRouter[t[2]] => t[1] = "ticker" /\ t[3] # handlers[t[2]]
      BY <3>1 DEF IInv, ClockOfRunning
    <3> QED  BY <1>1, <3>1, <3>2, <3>3 DEF IInv, TypeOK
  <2> QED  BY <2>1 DEF ClockOfRunning
<1>8. SyncHasOwner'
  <2>1. ASSUME NEW r \in Router, sync'[r] \in On
        PROVE  \E m \in installed' : /\ handlers'[m] = r
                                     /\ dvRouter'[m] = r \/ (onePhase' /\ sync'[r] = "periodic")
    <3>1. sync'[r] = sync[r] /\ r # dvRouter[n]
      BY <1>2, <2>1 DEF On
    <3>2. PICK m \in installed : /\ handlers[m] = r
                                 /\ dvRouter[m] = r \/ (onePhase /\ sync[r] = "periodic")
      BY <2>1, <3>1 DEF IInv, SyncHasOwner
    <3>3. m \in Node
      BY DEF IInv, TypeOK
    <3> QED  BY <1>1, <3>1, <3>2, <3>3 DEF IInv, TypeOK
  <2> QED  BY <2>1 DEF SyncHasOwner
<1> QED  BY <1>2, <1>3, <1>4, <1>5, <1>6, <1>7, <1>8 DEF IInv

\* A start that fails leaves its ticker, or nothing.
LEMMA NotStartedInvariant ==
    ASSUME IInv, NEW n \in Node, n \in installed, NEW r, r = routers + 1,
           routers < MaxRouters, trust' = "root", routers' = r,
           NodeKeychain(n, r), NotStarted(n, r),
           UNCHANGED <<onePhase, installed, stable, sent>>
    PROVE  IInv'
<1>1. /\ r \in Router /\ r \notin 1..routers /\ r # None
      /\ 1..routers \subseteq 1..routers' /\ routers' \in 0..MaxRouters
  BY DvRouterAssumption DEF IInv, TypeOK, Router
<1>2. /\ timers' \in {timers, timers \cup {<<"ticker", n, r>>}}
      /\ UNCHANGED <<handlers, dvRouter, pfxStarted, sync, published>>
  BY DEF NotStarted
<1>3. /\ nodeCerts' = nodeCerts \cup {n}
      /\ keychain' \in [Router -> SUBSET Node]
      /\ \A q \in Router : keychain'[q] # {} => keychain'[q] = nodeCerts'
      /\ \A q \in Router : keychain[q] \subseteq keychain'[q]
  BY <1>1, NodeKeychainKeeps DEF IInv
<1>4. TypeOK'
  <2>1. timers' \subseteq Timer
    BY <1>1, <1>2 DEF IInv, TypeOK, Timer
  <2> QED  BY <2>1, <1>1, <1>2, <1>3 DEF IInv, TypeOK
<1>5. Numbered' /\ HandlersAttached' /\ QuietWithoutPrefixes'
  BY <1>1, <1>2 DEF IInv, Numbered, HandlersAttached, QuietWithoutPrefixes
<1>6. SameKeys'
  BY <1>2, <1>3 DEF IInv, TypeOK, SameKeys
<1>7. Marked' /\ StartedQuietly' /\ RunningOnClock' /\ SyncHasOwner'
  BY <1>2 DEF IInv, Marked, StartedQuietly, RunningOnClock, SyncHasOwner
<1>8. ClockOfRunning'
  <2>1. r # handlers[n]
    BY <1>1 DEF IInv, Numbered
  <2> QED  BY <2>1, <1>2 DEF IInv, ClockOfRunning
<1> QED  BY <1>4, <1>5, <1>6, <1>7, <1>8 DEF IInv

\* A router is made, and its node has its handlers and timers.
LEMMA StartInvariant ==
    ASSUME IInv, NEW n \in Node, n \in installed, handlers[n] = None,
           NEW r, r = routers + 1, routers < MaxRouters, trust' = "root", routers' = r,
           NodeKeychain(n, r), RouterInit(n, r), timers' = timers \cup Timers(n, r),
           dvRouter' = [dvRouter EXCEPT ![n] = r],
           UNCHANGED <<onePhase, installed, stable, sent>>
    PROVE  IInv'
<1>1. /\ r \in Router /\ r \in 1..routers' /\ r \notin 1..routers /\ r # None
      /\ 1..routers \subseteq 1..routers' /\ routers' \in 0..MaxRouters
  BY DvRouterAssumption DEF IInv, TypeOK, Router
<1>2. /\ dvRouter[n] = None
      /\ \A m \in Node : dvRouter'[m] = IF m = n THEN r ELSE dvRouter[m]
      /\ \A m \in Node : handlers'[m] = IF m = n THEN r ELSE handlers[m]
      /\ dvRouter' \in [Node -> Router \cup {None}]
      /\ handlers' \in [Node -> Router \cup {None}]
  BY <1>1 DEF IInv, TypeOK, HandlersAttached, RouterInit
<1>3. /\ published' = [published EXCEPT ![r] = Reset]
      /\ sync' = [q \in Router |-> IF q \in (IF onePhase THEN {} ELSE {r}) \ pfxStarted
                                  THEN "quiet" ELSE sync[q]]
      /\ pfxStarted' = pfxStarted \cup (IF onePhase THEN {} ELSE {r})
  BY DEF RouterInit, StartPfx, Started
<1>4. /\ nodeCerts' = nodeCerts \cup {n}
      /\ keychain' \in [Router -> SUBSET Node]
      /\ \A q \in Router : keychain'[q] # {} => keychain'[q] = nodeCerts'
      /\ \A q \in Router : keychain[q] \subseteq keychain'[q]
      /\ keychain'[r] = nodeCerts'
  BY <1>1, NodeKeychainKeeps DEF IInv
<1>5. TypeOK'
  <2>1. published' \in [Router -> 0..MaxPublished]
    <3>1. Reset \in 0..MaxPublished
      BY DvRouterAssumption DEF Reset
    <3> QED  BY <3>1, <1>3, <1>1 DEF IInv, TypeOK
  <2>2. timers' \subseteq Timer
    BY <1>1 DEF IInv, TypeOK, Timers, Timer
  <2>3. /\ sync' \in [Router -> On \cup {"off", "stopped"}]
        /\ pfxStarted' \subseteq Router
    BY <1>1, <1>3 DEF IInv, TypeOK, On
  <2>4. /\ onePhase' \in BOOLEAN /\ installed' \subseteq Node /\ trust' \in {"none", "root", "error"}
        /\ stable' \subseteq Router /\ sent' \subseteq Router /\ nodeCerts' \subseteq Node
    BY <1>4 DEF IInv, TypeOK
  <2> QED  BY <2>1, <2>2, <2>3, <2>4, <1>1, <1>2, <1>4 DEF TypeOK
<1>6. Numbered' /\ HandlersAttached'
  BY <1>1, <1>2 DEF IInv, Numbered, HandlersAttached
<1>7. SameKeys'
  <2>1. ASSUME NEW m \in Node, dvRouter'[m] # None PROVE m \in keychain'[dvRouter'[m]]
    BY <2>1, <1>2, <1>4 DEF IInv, TypeOK, SameKeys
  <2> QED  BY <2>1, <1>4 DEF SameKeys
<1>8. Marked' /\ StartedQuietly'
  BY <1>1, <1>2, <1>3 DEF IInv, Marked, StartedQuietly
<1>9. RunningOnClock'
  BY <1>2 DEF IInv, RunningOnClock
<1>10. ClockOfRunning'
  <2>1. ASSUME NEW t \in timers'
        PROVE  /\ t[2] \in installed'
               /\ t[3] # dvRouter'[t[2]] => t[1] = "ticker" /\ t[3] # handlers'[t[2]]
    <3>1. CASE t \in Timers(n, r)
      BY <3>1, <1>2 DEF Timers
    <3>2. CASE t \in timers
      <4>1. t[2] \in Node /\ t[3] \in Router /\ None \notin Router
        BY <3>2, TimerParts, DvRouterAssumption DEF IInv, TypeOK, Router
      <4>2. /\ t[2] \in installed
            /\ t[3] # dvRouter[t[2]] => t[1] = "ticker" /\ t[3] # handlers[t[2]]
        BY <3>2 DEF IInv, ClockOfRunning
      <4> QED  BY <4>1, <4>2, <1>2
    <3> QED  BY <3>1, <3>2
  <2> QED  BY <2>1 DEF ClockOfRunning
<1>11. SyncHasOwner'
  <2>1. ASSUME NEW q \in Router, sync'[q] \in On
        PROVE  \E m \in installed' : /\ handlers'[m] = q
                                     /\ dvRouter'[m] = q \/ (onePhase' /\ sync'[q] = "periodic")
    <3>1. CASE q = r
      BY <3>1, <1>2
    <3>2. CASE q # r
      <4>1. sync'[q] = sync[q]
        BY <3>2, <1>3
      <4>2. PICK m \in installed : /\ handlers[m] = q
                                   /\ dvRouter[m] = q \/ (onePhase /\ sync[q] = "periodic")
        BY <2>1, <4>1 DEF IInv, SyncHasOwner
      <4>3. m \in Node /\ m # n
        BY <4>2, DvRouterAssumption DEF IInv, TypeOK, Router
      <4> QED  BY <4>1, <4>2, <4>3, <1>2
    <3> QED  BY <3>1, <3>2
  <2> QED  BY <2>1 DEF SyncHasOwner
<1>12. QuietWithoutPrefixes'
  <2>1. ASSUME ~onePhase, NEW q \in sent PROVE published'[q] > 0
    <3>1. q # r /\ q \in Router /\ published[q] > 0
      BY <2>1, <1>1 DEF IInv, TypeOK, Numbered, QuietWithoutPrefixes
    <3>2. published'[q] = published[q]
      BY <3>1, <1>1, <1>3 DEF IInv, TypeOK
    <3> QED  BY <3>1, <3>2
  <2> QED  BY <2>1 DEF QuietWithoutPrefixes
<1> QED  BY <1>5, <1>6, <1>7, <1>8, <1>9, <1>10, <1>11, <1>12 DEF IInv

\* What is waiting is started quietly, and then the prefix is announced.
LEMMA AnnounceInvariant ==
    ASSUME IInv, NEW n \in Node, AnnouncePrefixToDv(n)
    PROVE  IInv'
<1> DEFINE waiting == Running \cap stable
<1>1. /\ StartPfx(waiting, "quiet") /\ stable' = stable \ waiting
      /\ UNCHANGED <<control, creds, timers>>
  BY DEF AnnouncePrefixToDv
<1>2. /\ waiting \in SUBSET Router
      /\ \A r \in waiting : \E m \in installed : handlers[m] = r /\ dvRouter[m] = r
  BY DEF IInv, TypeOK, HandlersAttached, Running
<1>3. /\ sync' \in [Router -> On \cup {"off", "stopped"}]
      /\ pfxStarted' = pfxStarted \cup waiting /\ pfxStarted' \subseteq Router
      /\ \A r \in Router : sync'[r] = sync[r] \/ (r \in waiting \ pfxStarted /\ sync'[r] = "quiet")
      /\ Marked' /\ SyncHasOwner'
  <2> HIDE DEF waiting
  <2> QED  BY <1>1, <1>2, StartPfxKeeps DEF IInv, On
<1>4. /\ published' \in [Router -> 0..MaxPublished]
      /\ sent' \subseteq Router /\ sent' \subseteq 1..routers
      /\ QuietWithoutPrefixes'
  <2>1. CASE dvRouter[n] = None
    <3>1. UNCHANGED <<published, sent, onePhase, routers>>
      BY <1>1, <2>1 DEF AnnouncePrefixToDv, control
    <3> QED  BY <3>1 DEF IInv, TypeOK, Numbered, QuietWithoutPrefixes
  <2>2. CASE dvRouter[n] # None
    <3>1. dvRouter[n] \in Router /\ dvRouter[n] \in 1..routers
      BY <2>2 DEF IInv, TypeOK, Numbered, HandlersAttached
    <3>2. Publish(dvRouter[n], sync')
      BY <2>2 DEF AnnouncePrefixToDv
    <3> QED  BY <1>1, <3>1, <3>2, PublishKeeps DEF IInv, control
  <2> QED  BY <2>1, <2>2
<1>5. TypeOK' /\ Numbered' /\ HandlersAttached' /\ SameKeys'
  BY <1>1, <1>3, <1>4 DEF IInv, TypeOK, Numbered, HandlersAttached, SameKeys, control, creds
<1>6. StartedQuietly'
  BY <1>1, <1>3 DEF IInv, StartedQuietly, control
<1>7. RunningOnClock' /\ ClockOfRunning'
  BY <1>1 DEF IInv, RunningOnClock, ClockOfRunning, control
<1> QED  BY <1>3, <1>4, <1>5, <1>6, <1>7 DEF IInv
-----------------------------------------------------------------------------
(* The invariant is inductive: one step for each action. *)
THEOREM NextInvariant == IInv /\ [Next]_vars => IInv'
<1> SUFFICES ASSUME IInv, [Next]_vars PROVE IInv'
  OBVIOUS
<1> USE DEF control, creds, prefixSync
<1>1. CASE UNCHANGED vars
  BY <1>1 DEF vars, IInv, TypeOK, Numbered, HandlersAttached, SameKeys, Marked,
     StartedQuietly, RunningOnClock, ClockOfRunning, SyncHasOwner, QuietWithoutPrefixes
<1>2. ASSUME NEW n \in Node, CreateNode(n) PROVE IInv'
  <2>1. TypeOK'
    BY <1>2 DEF CreateNode, IInv, TypeOK
  <2>2. installed \subseteq installed'
    BY <1>2 DEF CreateNode
  <2> QED  BY <1>2, <2>1, <2>2 DEF CreateNode, IInv, Numbered, HandlersAttached, SameKeys, Marked,
             StartedQuietly, RunningOnClock, ClockOfRunning, SyncHasOwner, QuietWithoutPrefixes
<1>3. ASSUME NEW n \in Node, InvalidNetwork(n) PROVE IInv'
  <2>1. TypeOK'
    BY <1>3 DEF InvalidNetwork, IInv, TypeOK
  <2> QED  BY <1>3, <2>1 DEF InvalidNetwork, IInv, Numbered, HandlersAttached, SameKeys, Marked,
             StartedQuietly, RunningOnClock, ClockOfRunning, SyncHasOwner, QuietWithoutPrefixes
<1>4. ASSUME NEW n \in Node, StartDv(n) PROVE IInv'
  <2> DEFINE r == routers + 1
  <2>1. /\ n \in installed /\ routers < MaxRouters /\ trust' = "root" /\ routers' = r
        /\ NodeKeychain(n, r) /\ UNCHANGED <<onePhase, installed, stable, sent>>
    BY <1>4 DEF StartDv
  <2>2. CASE NotStarted(n, r)
    <3> HIDE DEF r
    <3> QED  BY <2>1, <2>2, NotStartedInvariant DEF r
  <2>3. CASE /\ handlers[n] = None /\ RouterInit(n, r)
             /\ timers' = timers \cup Timers(n, r)
             /\ dvRouter' = [dvRouter EXCEPT ![n] = r]
    <3> HIDE DEF r
    <3> QED  BY <2>1, <2>3, StartInvariant DEF r
  <2> QED  BY <1>4, <2>2, <2>3 DEF StartDv
<1>5. ASSUME NEW n \in Node, StopDv(n) PROVE IInv'
  BY <1>5, StopDvInvariant
<1>6. ASSUME NEW n \in Node, DestroyNode(n) PROVE IInv'
  <2>1. /\ n \in installed /\ Dispose({n}) /\ UNCHANGED <<trust, nodeCerts, keychain>>
    BY <1>6 DEF DestroyNode
  <2>2. SameKeys'
    BY <2>1 DEF Dispose, IInv, TypeOK, SameKeys
  <2>3. /\ trust' \in {"none", "root", "error"} /\ nodeCerts' \subseteq Node
        /\ keychain' \in [Router -> SUBSET Node] /\ {n} \in SUBSET installed
    BY <2>1 DEF IInv, TypeOK
  <2> QED  BY <2>1, <2>2, <2>3, DisposeInvariant
<1>7. CASE NdndSimDestroy
  <2>1. /\ Dispose(installed)
        /\ trust' = "none" /\ nodeCerts' = {} /\ keychain' = [r \in Router |-> {}]
    BY <1>7 DEF NdndSimDestroy
  <2>2. SameKeys'
    BY <2>1 DEF Dispose, IInv, TypeOK, HandlersAttached, SameKeys
  <2> QED  BY <2>1, <2>2, DisposeInvariant
<1>8. ASSUME NEW n \in Node, SeedSyntheticDvRoutes(n) PROVE IInv'
  <2>1. TypeOK'
    BY <1>8 DEF SeedSyntheticDvRoutes, IInv, TypeOK
  <2> QED  BY <1>8, <2>1 DEF SeedSyntheticDvRoutes, IInv, Numbered, HandlersAttached, SameKeys,
             Marked, StartedQuietly, RunningOnClock, ClockOfRunning, SyncHasOwner,
             QuietWithoutPrefixes
<1>9. ASSUME NEW n \in Node, RegisterProducer(n) \/ WithdrawPrefixFromDv(n) PROVE IInv'
  BY <1>9, PublishInvariant DEF RegisterProducer, WithdrawPrefixFromDv
<1>10. ASSUME NEW n \in Node, AnnouncePrefixToDv(n) PROVE IInv'
  BY <1>10, AnnounceInvariant
<1>11. ASSUME NEW r \in Router, RibUpdate(r) PROVE IInv'
  BY <1>11, RunConvergenceHookInvariant DEF RibUpdate
<1>12. ASSUME NEW r \in Router, Deadcheck(r) PROVE IInv'
  <2>1. PICK n \in Node : <<"deadcheck", n, r>> \in timers
    BY <1>12 DEF Deadcheck
  <2>2. dvRouter[n] = r
    BY <2>1 DEF IInv, ClockOfRunning
  <2>3. handlers[n] = r
    BY <2>2, DvRouterAssumption DEF IInv, HandlersAttached, Router
  <2> QED  BY <1>12, <2>3, RunConvergenceHookInvariant DEF Deadcheck
<1>13. ASSUME NEW r \in Router, SyncTick(r) PROVE IInv'
  <2>1. /\ sync[r] = "periodic" /\ sent' = sent \cup {r}
        /\ UNCHANGED <<control, creds, timers, pfxStarted, stable, sync, published>>
    BY <1>13 DEF SyncTick
  <2>2. r \in 1..routers
    <3>1. PICK n \in installed : handlers[n] = r
      BY <2>1 DEF IInv, SyncHasOwner, On
    <3> QED  BY <3>1, DvRouterAssumption DEF IInv, TypeOK, Numbered, Router
  <2>3. onePhase
    BY <2>1 DEF IInv, StartedQuietly
  <2>4. TypeOK' /\ Numbered'
    BY <2>1, <2>2 DEF IInv, TypeOK, Numbered
  <2>5. QuietWithoutPrefixes'
    BY <2>1, <2>3 DEF QuietWithoutPrefixes
  <2> QED  BY <2>1, <2>4, <2>5 DEF IInv, HandlersAttached, SameKeys, Marked, StartedQuietly,
             RunningOnClock, ClockOfRunning, SyncHasOwner
<1> QED
  BY <1>1, <1>2, <1>3, <1>4, <1>5, <1>6, <1>7, <1>8, <1>9, <1>10, <1>11, <1>12, <1>13 DEF Next
-----------------------------------------------------------------------------
(* The inductive invariant holds of every reachable state. *)
THEOREM Invariant == Spec => []IInv
BY InitInvariant, NextInvariant, PTL DEF Spec

(* Types. *)
THEOREM TypeCorrect == Spec => []TypeOK
<1>1. IInv => TypeOK
  BY DEF IInv
<1> QED  BY <1>1, Invariant, PTL

(* A running router has its heartbeat and its deadcheck, nothing but a ticker  *)
(* is left of one whose start failed, no ticker of one that was stopped, and   *)
(* prefix sync is on where a router runs, or was started late.                 *)
THEOREM TimersOwned == Spec => []RouterOwnsItsTimers
<1>1. IInv => RouterOwnsItsTimers
  BY DEF IInv, RunningOnClock, ClockOfRunning, SyncHasOwner, RouterOwnsItsTimers
<1> QED  BY <1>1, Invariant, PTL

(* In twophase nothing is sent where nothing was published. *)
THEOREM SilentWithoutPrefixes == Spec => []QuietWithoutPrefixes
<1>1. IInv => QuietWithoutPrefixes
  BY DEF IInv
<1> QED  BY <1>1, Invariant, PTL

(* Routers that run have each other's certificates. *)
THEOREM CertificatesEverywhere == Spec => []PeersTrusted
<1>1. ASSUME IInv PROVE PeersTrusted
  <2>1. ASSUME NEW m \in Node, NEW n \in Node, dvRouter[m] # None, dvRouter[n] # None
        PROVE  m \in keychain[dvRouter[n]]
    <3>1. dvRouter[m] \in Router /\ dvRouter[n] \in Router
      BY <1>1, <2>1 DEF IInv, TypeOK
    <3>2. m \in keychain[dvRouter[m]] /\ n \in keychain[dvRouter[n]]
      BY <1>1, <2>1 DEF IInv, SameKeys
    <3>3. keychain[dvRouter[m]] = nodeCerts /\ keychain[dvRouter[n]] = nodeCerts
      BY <1>1, <3>1, <3>2 DEF IInv, SameKeys
    <3> QED  BY <3>2, <3>3
  <2> QED  BY <2>1 DEF PeersTrusted
<1> QED  BY <1>1, Invariant, PTL

(* Prefix sync of a router is started once, and stays as it was started until *)
(* it is stopped for good.                                                    *)
THEOREM StartedOnce == Spec => StartsOnce
<1> DEFINE Keeps == \A r \in Router : sync[r] # "off" => sync'[r] \in {sync[r], "stopped"}
<1>1. IInv /\ [Next]_vars => [Keeps]_vars
  <2> SUFFICES ASSUME IInv, Next PROVE Keeps
    OBVIOUS
  <2> USE DEF control, creds, prefixSync
  <2>1. CASE sync' = sync
    BY <2>1
  <2>2. ASSUME NEW S, NEW mode, StartPfx(S, mode) PROVE Keeps
    BY <2>2 DEF StartPfx, Started, IInv, Marked
  <2>3. ASSUME NEW S, sync' = Stopped(S) PROVE Keeps
    BY <2>3 DEF Stopped
  <2>4. \/ sync' = sync
        \/ \E S, mode : StartPfx(S, mode)
        \/ \E S : sync' = Stopped(S)
    <3>1. ASSUME NEW n \in Node, StartDv(n)
          PROVE  sync' = sync \/ \E S, mode : StartPfx(S, mode)
      BY <3>1 DEF StartDv, NotStarted, RouterInit
    <3>2. ASSUME NEW n \in Node, StopDv(n) \/ DestroyNode(n)
          PROVE  \E S : sync' = Stopped(S)
      BY <3>2 DEF StopDv, DestroyNode, Dispose
    <3>3. ASSUME NEW n \in Node, AnnouncePrefixToDv(n)
          PROVE  \E S, mode : StartPfx(S, mode)
      BY <3>3 DEF AnnouncePrefixToDv
    <3>4. ASSUME NEW n \in Node,
                 \/ CreateNode(n) \/ InvalidNetwork(n) \/ SeedSyntheticDvRoutes(n)
                 \/ RegisterProducer(n) \/ WithdrawPrefixFromDv(n)
          PROVE  sync' = sync
      BY <3>4 DEF CreateNode, InvalidNetwork, SeedSyntheticDvRoutes, RegisterProducer,
         WithdrawPrefixFromDv
    <3>5. ASSUME NEW r \in Router, RibUpdate(r) \/ Deadcheck(r)
          PROVE  \E S, mode : StartPfx(S, mode)
      BY <3>5 DEF RibUpdate, Deadcheck, RunConvergenceHook
    <3>6. ASSUME NEW r \in Router, SyncTick(r) PROVE sync' = sync
      BY <3>6 DEF SyncTick
    <3>7. CASE NdndSimDestroy
      BY <3>7 DEF NdndSimDestroy, Dispose
    <3> QED  BY <3>1, <3>2, <3>3, <3>4, <3>5, <3>6, <3>7 DEF Next
  <2> QED  BY <2>1, <2>2, <2>3, <2>4
<1> QED  BY <1>1, Invariant, PTL DEF Spec, StartsOnce
=============================================================================
