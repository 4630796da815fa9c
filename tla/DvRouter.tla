------------------------------- MODULE DvRouter -------------------------------
(***************************************************************************)
(* The DV routers of a simulation: their start and stop (node.go, dv.go),  *)
(* the certificates they are given (trust.go), their events on the clock,  *)
(* and the start of their prefix sync: in Init (twophase, quietly), at the *)
(* first RIB update (onephase), or, where routing was seeded and is stable *)
(* from the start, with the first prefix that is introduced (notify.go,    *)
(* bier_phase.go and the code injected into dv/dv/router.go and            *)
(* std/sync/svs.go).                                                       *)
(*                                                                         *)
(* Stopping a router leaves its handlers with the engine, and what         *)
(* GoFunc and AfterFunc have given to the clock: a RIB may be updated as   *)
(* long as the node is there, and updating it may start prefix sync.       *)
(***************************************************************************)
EXTENDS Naturals, FiniteSets

CONSTANTS
    Node,
    None,
    MaxRouters,     \* bound on the routers that are made
    MaxPublished    \* bound on the publications of a router

ASSUME DvRouterAssumption ==
    /\ MaxRouters \in Nat /\ MaxPublished \in Nat \ {0}
    /\ None \notin 1..MaxRouters

Router == 1..MaxRouters
Timer == {"heartbeat", "deadcheck", "ticker"} \X Node \X Router

VARIABLES
    onePhase,       \* the build
    installed,      \* Runtime.nodes
    dvRouter,       \* Node.dvRouter
    handlers,       \* the router whose handlers a node's engine has
    routers,        \* how many routers have been made
    trust,          \* globalTrust: "none", "root" or "error"
    nodeCerts,      \* SimTrust.nodeCerts
    keychain,       \* SimTrust.keychains: the certificates in each
    timers,         \* periodic events on the clock
    pfxStarted,     \* _pfxStarted
    stable,         \* _syntheticRoutingStable
    sync,           \* SvSync of each router
    published,      \* how many publications each router has made
    sent            \* history: routers that have sent a prefix sync Interest

control == <<onePhase, installed, dvRouter, handlers, routers>>
creds == <<trust, nodeCerts, keychain>>
prefixSync == <<pfxStarted, stable, sync, published, sent>>
vars == <<control, creds, timers, prefixSync>>

\* onephase publishes a reset before anything is sent.
Reset == IF onePhase THEN 1 ELSE 0

Running == {dvRouter[n] : n \in Node} \ {None}
Timers(n, r) == {"heartbeat", "deadcheck", "ticker"} \X {n} \X {r}

\* The ways in which prefix sync listens, and sends what is published.
On == {"quiet", "periodic"}

TypeOK ==
    /\ onePhase \in BOOLEAN
    /\ installed \subseteq Node
    /\ dvRouter \in [Node -> Router \cup {None}]
    /\ handlers \in [Node -> Router \cup {None}]
    /\ routers \in 0..MaxRouters
    /\ trust \in {"none", "root", "error"}
    /\ nodeCerts \subseteq Node /\ keychain \in [Router -> SUBSET Node]
    /\ timers \subseteq Timer
    /\ pfxStarted \subseteq Router /\ stable \subseteq Router
    /\ sync \in [Router -> On \cup {"off", "stopped"}]
    /\ published \in [Router -> 0..MaxPublished]
    /\ sent \subseteq Router

Init ==
    /\ onePhase \in BOOLEAN
    /\ installed = {} /\ routers = 0
    /\ dvRouter = [n \in Node |-> None] /\ handlers = [n \in Node |-> None]
    /\ trust = "none" /\ nodeCerts = {} /\ keychain = [r \in Router |-> {}]
    /\ timers = {}
    /\ pfxStarted = {} /\ stable = {} /\ sent = {}
    /\ sync = [r \in Router |-> "off"]
    /\ published = [r \in Router |-> 0]
-----------------------------------------------------------------------------
(***************************************************************************)
(* Prefix sync.                                                            *)
(***************************************************************************)
\* A publication is sent at once where sync runs, and waits where it does not.
Publish(r, modes) ==
    /\ published[r] < MaxPublished
    /\ published' = [published EXCEPT ![r] = @ + 1]
    /\ sent' = IF modes[r] \in On THEN sent \cup {r} ELSE sent

\* Fault: nobody asks whether prefix sync has been started before.
StartedAgain(S, mode) == [r \in Router |-> IF r \in S THEN mode ELSE sync[r]]

\* The modes after starting the routers of S, each at most once.
Started(S, mode) ==
    [r \in Router |-> IF r \in S \ pfxStarted THEN mode ELSE sync[r]]

StartPfx(S, mode) ==
    /\ sync' = Started(S, mode)
    /\ pfxStarted' = pfxStarted \cup S

\* Every RIB update ends here: the first one starts prefix sync, unless routing
\* is synthetic.
RunConvergenceHook(r) ==
    /\ StartPfx({r} \ stable, "periodic")
    /\ UNCHANGED <<control, creds, timers, stable, published, sent>>

\* By a handler, or by an event that a handler or a reply has queued: neither
\* asks whether the router has been stopped.
RibUpdate(r) == (\E n \in Node : handlers[n] = r) /\ RunConvergenceHook(r)

\* The event schedules itself again.
Deadcheck(r) == (\E n \in Node : <<"deadcheck", n, r>> \in timers) /\ RunConvergenceHook(r)

\* simStart sends a sync Interest at once and makes timerExpired, which sends
\* another, the handler of the ticker; SimStartQuiet does neither.
SyncTick(r) ==
    /\ sync[r] = "periodic"
    /\ sent' = sent \cup {r}
    /\ UNCHANGED <<control, creds, timers, pfxStarted, stable, sync, published>>
-----------------------------------------------------------------------------
(***************************************************************************)
(* Life cycle.                                                             *)
(***************************************************************************)
CreateNode(n) ==
    /\ n \notin installed
    /\ installed' = installed \cup {n}
    /\ UNCHANGED <<onePhase, dvRouter, handlers, routers, creds, timers, prefixSync>>

\* A network prefix that is no name: the error is kept.
InvalidNetwork(n) ==
    /\ n \in installed /\ trust = "none"
    /\ trust' = "error"
    /\ UNCHANGED <<control, nodeCerts, keychain, timers, prefixSync>>

\* Fault: the certificate is not given to the keychains that exist.
NodeKeychainAlone(n, r) ==
    /\ nodeCerts' = nodeCerts \cup {n}
    /\ keychain' = [keychain EXCEPT ![r] = nodeCerts']

\* The new keychain gets all certificates, the others get the new one.
NodeKeychain(n, r) ==
    /\ nodeCerts' = nodeCerts \cup {n}
    /\ keychain' = [q \in Router |-> CASE q = r -> nodeCerts'
                                       [] q # r /\ keychain[q] = {} -> {}
                                       [] q # r /\ keychain[q] # {} -> keychain[q] \cup {n}]

\* Fault: nothing remembers that prefix sync has started in Init.
RouterInitUnmarked(n, r) ==
    /\ handlers' = [handlers EXCEPT ![n] = r]
    /\ published' = [published EXCEPT ![r] = Reset]
    /\ sync' = IF onePhase THEN sync ELSE [sync EXCEPT ![r] = "quiet"]
    /\ UNCHANGED pfxStarted

\* register, the reset, and the quiet start of twophase.
RouterInit(n, r) ==
    /\ handlers' = [handlers EXCEPT ![n] = r]
    /\ published' = [published EXCEPT ![r] = Reset]
    /\ StartPfx(IF onePhase THEN {} ELSE {r}, "quiet")

\* Fault: the timers run before it is known whether Init succeeds.
StartDvTimersFirst(n) ==
    LET r == routers + 1
    IN  /\ n \in installed /\ routers < MaxRouters /\ trust # "error"
        /\ trust' = "root" /\ NodeKeychain(n, r) /\ routers' = r
        /\ timers' = timers \cup Timers(n, r)
        /\ IF handlers[n] # None
              THEN UNCHANGED <<handlers, dvRouter, pfxStarted, sync, published>>
              ELSE RouterInit(n, r) /\ dvRouter' = [dvRouter EXCEPT ![n] = r]
        /\ UNCHANGED <<onePhase, installed, stable, sent>>

\* NewRouter makes the ticker of prefix sync, and may refuse the configuration
\* before it has or after.  Init fails where the handlers of a router are still
\* attached, which stopping it does not change.  Either failure leaves the node
\* as it is, but for the keys and the ticker, which nobody stops.
NotStarted(n, r) ==
    /\ timers' \in {timers, timers \cup {<<"ticker", n, r>>}}
    /\ UNCHANGED <<handlers, dvRouter, pfxStarted, sync, published>>

\* Nothing asks whether a router runs already.
StartDv(n) ==
    LET r == routers + 1
    IN  /\ n \in installed /\ routers < MaxRouters /\ trust # "error"
        /\ trust' = "root" /\ NodeKeychain(n, r) /\ routers' = r
        /\ \/ NotStarted(n, r)
           \/ /\ handlers[n] = None
              /\ RouterInit(n, r)
              /\ timers' = timers \cup Timers(n, r)
              /\ dvRouter' = [dvRouter EXCEPT ![n] = r]
        /\ UNCHANGED <<onePhase, installed, stable, sent>>

\* What is started can be stopped; what is not may still be started.
Stopped(S) ==
    [r \in Router |-> IF r \in S /\ sync[r] # "off" THEN "stopped" ELSE sync[r]]

\* SimDvRouter.Stop and Router.Cleanup.
StopDv(n) ==
    /\ n \in installed
    /\ timers' = timers \ Timers(n, dvRouter[n])
    /\ sync' = Stopped({dvRouter[n]})
    /\ dvRouter' = [dvRouter EXCEPT ![n] = None]
    /\ UNCHANGED <<onePhase, installed, handlers, routers, creds, pfxStarted, stable,
                   published, sent>>

\* No event of the nodes of N is executed any more, and their engines go.
Dispose(N) ==
    /\ timers' = {t \in timers : t[2] \notin N}
    /\ sync' = Stopped(UNION {{dvRouter[n], handlers[n]} : n \in N})
    /\ installed' = installed \ N
    /\ dvRouter' = [n \in Node |-> IF n \in N THEN None ELSE dvRouter[n]]
    /\ handlers' = [n \in Node |-> IF n \in N THEN None ELSE handlers[n]]
    /\ UNCHANGED <<onePhase, routers, pfxStarted, stable, published, sent>>

DestroyNode(n) == n \in installed /\ Dispose({n}) /\ UNCHANGED creds

\* The trust root goes with the simulation; the next one makes its own.
NdndSimDestroy ==
    /\ Dispose(installed)
    /\ trust' = "none" /\ nodeCerts' = {} /\ keychain' = [r \in Router |-> {}]
-----------------------------------------------------------------------------
(***************************************************************************)
(* Calls of scenarios and applications.                                    *)
(***************************************************************************)
SeedSyntheticDvRoutes(n) ==
    /\ dvRouter[n] # None
    /\ stable' = stable \cup {dvRouter[n]}
    /\ UNCHANGED <<control, creds, timers, pfxStarted, sync, published, sent>>

\* A producer announces its prefix, where DV runs.
RegisterProducer(n) ==
    /\ dvRouter[n] # None
    /\ Publish(dvRouter[n], sync)
    /\ UNCHANGED <<control, creds, timers, pfxStarted, stable, sync>>

\* First prefix sync is started on every node with stable synthetic routing.
AnnouncePrefixToDv(n) ==
    LET waiting == Running \cap stable
    IN  /\ n \in installed
        /\ StartPfx(waiting, "quiet")
        /\ stable' = stable \ waiting
        /\ IF dvRouter[n] = None THEN UNCHANGED <<published, sent>>
                                 ELSE Publish(dvRouter[n], sync')
        /\ UNCHANGED <<control, creds, timers>>

\* Only what was announced is withdrawn.
WithdrawPrefixFromDv(n) ==
    /\ dvRouter[n] # None
    /\ published[dvRouter[n]] > Reset
    /\ Publish(dvRouter[n], sync)
    /\ UNCHANGED <<control, creds, timers, pfxStarted, stable, sync>>
-----------------------------------------------------------------------------
Next ==
    \/ \E n \in Node :
          \/ CreateNode(n) \/ DestroyNode(n) \/ InvalidNetwork(n)
          \/ StartDv(n) \/ StopDv(n) \/ SeedSyntheticDvRoutes(n)
          \/ RegisterProducer(n) \/ AnnouncePrefixToDv(n) \/ WithdrawPrefixFromDv(n)
    \/ \E r \in Router : RibUpdate(r) \/ Deadcheck(r) \/ SyncTick(r)
    \/ NdndSimDestroy

Spec == Init /\ [][Next]_vars
-----------------------------------------------------------------------------
(***************************************************************************)
(* Properties.                                                             *)
(***************************************************************************)
\* Every node's router, and no other, has a heartbeat and a deadcheck, one of
\* each; of a router that is stopped no ticker stays, and of one whose start
\* failed nothing but its ticker, until its node is destroyed; a second StartDv
\* leaves the first router as it is (dv.go:84-140, node.go:340-379).  Prefix sync
\* is on where a router runs; the one exception is a router of onephase that was
\* stopped before its first RIB update, which a late one starts.
RouterOwnsItsTimers ==
    /\ \A n \in Node : dvRouter[n] # None => Timers(n, dvRouter[n]) \subseteq timers
    /\ \A t \in timers :
          /\ t[2] \in installed
          /\ t[3] # dvRouter[t[2]] => t[1] = "ticker" /\ t[3] # handlers[t[2]]
    /\ \A r \in Router : sync[r] \in On =>
          \E n \in installed :
             /\ handlers[n] = r
             /\ dvRouter[n] = r \/ (onePhase /\ sync[r] = "periodic")

\* "a no-prefix p0 run has zero PSD traffic" (inject.go:493-494): in twophase a
\* router sends no prefix sync Interest that carries no publication of its own,
\* although every RIB update asks for the start of prefix sync, a late one of a
\* router that has been stopped included.
QuietWithoutPrefixes == ~onePhase => \A r \in sent : published[r] > 0

\* "eliminating network cert fetches" (trust.go:191): a router has the certificate
\* of every other one that runs, in whatever order they started or failed to.
PeersTrusted ==
    \A m, n \in Node :
        dvRouter[m] # None /\ dvRouter[n] # None => m \in keychain[dvRouter[n]]

\* "exactly-once startup of the prefix daemon" (inject.go:1903-1905): whoever asks
\* for the start, prefix sync keeps the mode in which it was started until it
\* stops, and where it has been stopped it is not started again.
StartsOnce ==
    [][\A r \in Router : sync[r] # "off" => sync'[r] \in {sync[r], "stopped"}]_vars
=============================================================================
