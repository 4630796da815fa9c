# ndndSIM in TLA+

Formal models of ndndSIM, the ns-3 module that runs the unmodified Go code of
the NDN daemon *ndnd* inside a discrete-event simulation.  The models are
written from the code under `src/`.  TLC checks them on small instances; TLAPS
proves the safety of all nine modelled components, but for what the transformed
source means, and five refinements, for every value of the constants.

To check a run: `tlc -config MCEventBridge.cfg MCEventBridge`.  To check a
proof: `tlapm EventBridge_proofs.tla`.  `PROJECT.json` maps every definition to
its lines of source, and lists runs, findings, hazards and theorems.

## 1. The system

ndndSIM has two halves in one process.  The C++ half (`model/`, `helper/`,
`apps/`) is an ns-3 module: an `NdndStack` per node, applications, helpers and
tracers.  The Go half (`go/overlay/sim`, `go/ndndsim`) is a c-archive with the
forwarder, an application engine and a distance-vector (DV) router per node.
`go/transform` rewrites the upstream daemon at build time so that `go`
statements, timers and clocks go through per-node hooks (`go/ndndsim/hooks.go`)
and become simulator events.

```
 ns-3 loop ---> FireEventTrampoline ---> NdndSimFireEvent ---> Ns3Clock.events
   ^   device ---> ReceiveFromDevice ---> Node.ReceiveOnInterface ---> forwarder
   |                                                              ^        |
 OnScheduleEvent / OnCancelEvent <--- Ns3Clock <--- engine, DV router, apps
```

The daemon itself comes from outside the repository (a Go module); the models
take from it only what the code here relies on, and say so (`external` in the
map).  The daemon is built in two flavours, *onephase* and *twophase*, which
differ in how producers are reached: by FIB routes and multicast sync prefixes,
or by the prefix egress table (PET).

### Components, their state, and what makes them correct

| Component | State | Operations | What makes it correct | Model |
|---|---|---|---|---|
| Event bridge (`cgo_export.go`, `ndndsim-go-bridge.cc`) | `Ns3Clock.events` per node, `globalNextEvID`, pending and cancelled sets, ns-3 queue, node registry | schedule, cancel, fire, create and destroy node, init and destroy bridge | a callback runs at most once, for the node that scheduled it, never after a cancel, and is not lost | `EventBridge` |
| Application engine (`engine.go`, `face.go`) | table of pending Interests, token counter, running flags | Express, Data, timeout, start, stop | one callback per accepted Express, with its own Data or a timeout | `SimEngine` |
| Interest handlers (`engine.go`) | name trie | attach, detach, longest-prefix lookup | the trie is the map of handlers | `HandlerTrie` |
| Hooks and locks (`hooks.go`, `forwarder.go`, `dv.go`) | goroutine bindings, `nodeMu`, `nodeHolder`, `faceMu`, DV mutex | every exported call and event callback | node code runs bound to its node, the pipeline and the RIB are exclusive, nothing stays bound or locked, no deadlock but the one that `dv.go:53-58` describes | `HookBinding` |
| Faces and tables (`ndndsim-stack.cc`, `node.go`, `forwarder.go`) | interface map (twice), faces, dispatch table, RIB, FIB, PET | install, dispose, link down and up, DV start and stop, routes of scenarios, producers and router | all copies agree, no table names a face that is gone | `NodeFaces`, which implements `PortRoutes` |
| simTicker (`transform/inject.go`) | event, version, stopped flag | reset, stop, tick, handler | one chain of ticks, the timing of `time.Ticker` | `SimTicker` |
| Stack helper (`ndndsim-stack-helper.cc`) | Dijkstra's heap, distances, next hops | CalculateRoutes, AddRoute, EnableDvRouting | loop-free routes at shortest distances to every producer, over a shortest path where no device hides a faster one | `RouteCalculation` over `Topology` |
| DV wrapper, overlay router code, prefix sync, trust (`dv.go`, `trust.go`, `overlay*/dv`, `inject.go`) | router of a node, handlers, heartbeat, deadcheck and ticker, root and keychains, start flags | start, stop, seed, announce, withdraw, RIB update, sync Interest | a router owns its timers and none of a stopped one stays, prefix sync starts once and is silent as promised, certificates are where they are needed | `DvRouter` (the injected ticker: `SimTicker`; locks: `HookBinding`; routes: `NodeFaces`) |
| Transformer (`go/transform`, `go/overlay*`, `build.sh`) | output tree, rules, overlays | copy, rewrite, add, patch, rebuild | what is built depends on its input alone, compiles and stays on the simulation clock, production code keeps its meaning, nothing is replaced silently | `Build`, `GoSource`, `RewriteRules`, `Transformer` |
| Applications (`apps/`, `consumer.go`) | stop flags and trace callbacks per node | start, stop, periodic Express | a stop stops its own loop and no more | routes, handler and announcement of a producer, in the modules above; loops not |
| Clocks for tests, tracers, metrics, readers, broadcast strategy, tools, examples | none that influences a simulation | | | not modelled |

### Interaction

* **Calls down**: ns-3 calls exported Go functions; Go calls C function pointers
  back (schedule, cancel, send packet, data produced, data received).
* **Callbacks**: every timer, timeout, delivery, `go` statement and heartbeat of
  the daemon is an event: scheduled in Go, queued in ns-3, fired back into Go.
* **Shared state**: one C++ bridge, one face-id counter, one dispatch table and
  one event-id counter serve all nodes; a node's id may be used again after the
  node was destroyed, with its old events still in the ns-3 queue.
* **Threads**: almost everything runs on the thread of the ns-3 loop.  Real
  goroutines still exist (the comments of `withNodeFib` and `node.go` reckon with
  them), which is why there are mutexes and goroutine bindings.

### What is hard

Re-entrance (a callback that schedules, expresses or stops; a pipeline that
enters itself through the application face), events that outlive their node,
cancels racing fires, a restart with the table of the previous run, two copies
of the interface map, links flapping under a router that remembers face ids,
bindings saved and restored around nested calls, and a ticker reset by its own
handler.  `PROJECT.json` lists each as a hazard, at its line, with the
properties that would catch it going wrong.

## 2. The modules

### EventBridge, implementing EventService

One action per atomic step of `Ns3Clock.Schedule` and `Cancel`, `OnScheduleEvent`,
`OnCancelEvent`, `FireEventTrampoline`, `NdndSimFireEvent`, and of
`NdndSimCreateNode`, `NdndSimDestroyNode`, `NdndSimInit`, `NdndSimDestroy` and
`DestroyGoBridge`.  `call[t]` is the call of a clock that thread `t` is in, with
a program counter between the mutexes the code takes; `fire` is what the
simulator thread does with an event.  Node incarnations are clocks; `home` and
`runs` are history variables.  Delays are left out: any queued event may be next.

`EventService` is what a user of a clock relies on: an event is scheduled,
cancelled, run or gone with its node, and never changes its mind.  The
refinement mapping `Status` reads the state of an event off the clock, the
cancelled calls and the running callback.

### SimEngine, implementing PendingInterest

`Express` in its steps (check, register under the lock, encode, send or undo),
the timeout, the arrival of Data at the face, the callbacks, and start and stop
of engine and face, with `pit`, `token` and `timer` as in the code.  `answers`
and `servedBy` are history.  `PendingInterest` is the promise: a call is refused,
or accepted and then answered at most once.

### HookBinding

Every entry point is a *script*: the list of lock, bind, swap, restore and work
steps the code takes, in order, deferred calls last.  A step may be replaced by
a nested call (a packet delivered into the node again, a management command,
a command with the DV mutex held).  `binding` is `hooksMap`, `holder` is
`nodeHolder`, `saved` is what frames keep for their deferred calls.

Work is of three kinds.  The pipeline and the RIB are inside `withNodeFib`, and
`PipelineExclusive` is about them.  The FIB and the PET are written outside it
(`forwarder.go:160-164`, `247-248`, `282-283`, the `fib` and `pet` commands of
`engine.go`), under locks of their own: step `tables`, of which no exclusion is
claimed.  The code of routers and applications makes nested calls.

Goroutines send packets, or run code of a router (`"goroutine"`), which may take
`dv.mutex` and then, in a command, `nodeMu`.  Init, the heartbeat, the deadcheck
and seeding take them in the opposite order, so a circle of two threads exists
(`Abba`), and the run reaches it: it is the one `dv.go:53-58` keeps `GoFunc` out
of `withNodeFib` for.  `DeadlockOnlyAbba` says that there is no other, and
`CallsReturn` that every call returns unless it happens.  With the hooks of a
simulated node a `go` statement is an event of the clock, and `Go` and `GoLong`
panic (`hooks.go:200-255`), so the circle takes a goroutine that did not come
that way, such as the comment reckons with.

### NodeFaces, implementing PortRoutes

`NdndStack::Install`, `DoDispose`, `DeactivateInterface`, `ReactivateInterface`,
`StartDv`, `StopDv`, direct routes, producer routes, and the `rib/*` and `pet/*`
management commands of a router, with both interface maps, the faces, the dispatch
table and the three tables.  The build, `onePhase`, is chosen in `Init`.  All of
it runs on the simulator thread, so each operation is one step.  The router issues commands
for any face it has ever had: it may remember one that is gone.

`PortRoutes` is the same node without faces: its ports are its interfaces and its
application, routes lead over ports, and what the forwarder shows is what the
routes say.  There a link that goes down takes along what was over it and nothing
else, one that comes up has only the way to the neighbours, and a call changes the
routes of one name over one port that is there.  The mapping `Port` reads the port
of a face off the interface map, and a face that is gone has none; that commands
which name such a face are stutters is part of what is shown.

### HandlerTrie, implementing HandlerMap

A trie node is the name that leads to it.  `Lookup` is the walk down and up of
`onInterest`, `Pruned` the walk up of `prune`.  The abstract map says only that
attaching and detaching change one name.  The names of its specification begin
with `Trie`, because `Engine_proofs` is about this module and `SimEngine`.

### SimTicker, implementing Ticker

`schedule`, `Reset`, `Stop`, the event, the handler and what happens when the
handler returns, with the version that each event captures.  `Elapse` is one
unit of time.  `Ticker` counts down a period and ticks.

### RouteCalculation, implementing ShortestRoutes

`CalculateRoutes` for one prefix over an arbitrary topology: start at a
producer, one iteration of the heap loop (`Visit`), installation.  Topologies
are initial states.  `Topology` has the nodes and channels and the reference for
distances: `Walks`, all walks up to the number of nodes, without Dijkstra's
algorithm.  `ShortestRoutes` is what the function promises, in those terms: one
step for each producer, which gives every other connected node with a stack a
route at its distance.  The route leads over a device that is on a shortest path by
its own delay (`OnShortestPath`), or over the first device to a neighbour that a
faster parallel channel reaches (`Shadows`): the code takes the first, whatever
its delay.  Without such a device every route is as the helper's header promises
(theorem `PromiseKept`).  `EachNodeOnce` is about the heap: an entry that is stale does nothing, and a node expanded stays as it is.

### DvRouter

The routers of a simulation over their life: `NdndSimCreateNode`, `StartDv` with
both of its failures, `StopDv`, `NdndSimDestroyNode`, `NdndSimDestroy`; the trust
root and the keychains that `StartDv` fills; seeding, announcing and
withdrawing; RIB updates and the deadcheck, which both end in
`runConvergenceHook`; and the sync Interests of prefix sync.  A *router* is one
instance: a node that starts again gets a new one, with names of its own.
`timers` has the periodic events on the clock: heartbeat, deadcheck, and the
ticker that `NewRouter` makes, also where the start fails afterwards.  `handlers`
is the router whose handlers a node's engine has: stopping a router leaves them
there, with whatever `GoFunc` and `AfterFunc` have queued, so a RIB update
(`RibUpdate`) may come after the stop, and in onephase start prefix sync then.
`sync` tells the ways of running apart: off, periodic, quiet, where only
publications are sent, and stopped.

### Build, and GoSource, RewriteRules, Transformer

`Build` is the machine: copy, rewrite file by file and package by package, add
the overlay, patch `go.mod`, add the overlay of the build phase; any step may
fail, and a build may run again in the same directory.  What files hold, what the
rules make of them and which packages are listed are its constants, so that what
is proved of it holds for any commit of the daemon and any rules.

`Transformer` extends it with the real ones, which the `.cfg` files assign to
those constants.  `GoSource` is Go source at the level the rules look at:
declarations that are sequences of statements, and what a statement does when a
goroutine with given hooks runs it (`Effects`, which follows calls into rewritten
code).  `Upstream` is the part of the daemon that the rules expect to find, plus one
further function in any file, which a new commit may bring: of six shapes that the
rules look for (`Foreseen`) and six that they do not (`Unforeseen`: an endless
method that is not called `main` or `run`, or not alone in its goroutine, a loop
over a channel, `time.NewTimer` and `time.NewTicker`, a send of another type).
`SimulationStaysOnTheClock` says of both that a function leaves the clock exactly
where its shape is missed.  `RewriteRules` has one operator per rule of `rules.go` and `inject.go`
and the tables of `rewrite.go`.  The properties in `Transformer` compare what
source does before and after: they are about meaning, not text.

## 3. The runs

| Run | Instance | Shows | States |
|---|---|---|---|
| `event_bridge` | 2 nodes, 2 incarnations, the simulator and 1 goroutine, 2 events | owner, nothing lost, refinement (at most once, a cancel is final); every event settles | 29 300 |
| `sim_engine` | 2 calls of Express, 2 tokens, 3 starts | own Data, entries and timeouts correspond, refinement; every accepted Interest is answered | 11 190 |
| `sim_engine_contract` | 1 call | finding 1 | violation |
| `hook_binding` | 2 nodes, the simulator and 1 goroutine, 1 nested call | exclusive pipeline and RIB, bound code, clean return, no circular wait but that of `dv.go:53-58`, commands are executed; every call returns unless it happens | 314 504 |
| `node_faces` | both builds, 2 nodes, 1 interface each, 7 face ids | copies agree, no face shared by nodes, no dangling route, neighbours reachable, refinement (routes live and die with their link, FIB is RIB) | 104 138 |
| `node_faces_sync` | the same, 8 face ids | finding 2 | violation |
| `handler_trie` | a tree of names with a fork and a chain, 2 handlers | the trie is the map, longest prefix, no dead branch | 2 187 |
| `sim_ticker` | 3 periods, 4 resets and stops | ticks unless stopped, timing of a ticker, ticks go on | 459 |
| `route_calculation` | 4 nodes, at most 4 of 13 channels, 2 producers, 1 node that may lack a stack | each search and installation is one step to routes at their distances, to every producer, on shortest paths except behind a device that hides a faster one; no node is expanded twice | 950 374 |
| `transformer` | both builds, the further function of 12 shapes in any of the files, overlay with or without collision, 1 failure | what is built depends on the input alone, compiles, leaves the clock only where the rules miss a shape, keeps production, reports each event; overlays only add; rebuilding is safe | 121 152 |
| `transformer_router_name` | the same, no failure | finding 3 | violation |
| `dv_router` | both builds, 2 nodes, 3 routers, 3 publications each | timers, silence, certificates, one start of prefix sync | 744 388 |

**Bounds.**  Two events are enough for one to be cancelled by the callback of the
other and for ids of two incarnations to meet; two clocks for a node id to be used
again with the old event in the queue.  Two calls of Express over three starts
fill the table with entries of two runs of the engine and let one fail.  A
nested call brings a binding back through a frame of the same thread, and runs
with the mutexes of the outer call held.  Seven face ids allow both nodes to be
installed and a link to go down and come up again under the router of one, or one
node a second life and a flap in it.
Four nodes and four channels are the smallest graph in which a node gets closer
twice over parallel and shared channels and still has another neighbour to
misroute.  Three routers are two nodes of which one starts twice, or one node with a router
that runs or was stopped, a failed start beside it, and a second life;
three publications are a reset, an announcement and a withdrawal.  One failure
and a rebuild put any half-written tree under the next build.  `MaxEvents`,
`MaxToken`, `MaxStarts`, `MaxFace`, `MaxNested`, `MaxVersion`, `MaxChannels`,
`MaxRouters`, `MaxPublished` and `MaxFailures` are the only bounds that the code
does not have.  Where there are theorems they hold for every value of them.

**Symmetry** is used in `node_faces` (nodes and prefixes), `dv_router` (nodes) and
`route_calculation` (the two producers): no definition tells those apart, and none
of these runs has a liveness property.

**Deadlock** is checked where the system can always go on (`event_bridge`,
`handler_trie`, `sim_ticker`, `transformer`, `dv_router`).
`SimEngine`, `NodeFaces` and `RouteCalculation` may stop: all calls made, all ids
drawn, all producers routed.  `HookBinding` stops in the circle of `dv.go:53-58`;
that nothing else stops it is what `DeadlockOnlyAbba` says.

**Fairness.**  `EventBridge`: a thread inside a call goes on; ns-3 executes every
queued event in time order, so an event cannot be passed over for ever (strong
fairness per event, as the loop may be busy with others whenever we look).
Nothing is assumed of creation, destruction or of the code that schedules and
cancels.  `SimEngine`: the same for goroutines inside Express and for timeouts;
nothing is assumed of the network.  `HookBinding`: threads run, and a Go mutex is
handed to a waiter that has starved (strong fairness for taking a lock).
`SimTicker`: time passes, events that are due run, handlers return.  `DvRouter`
and `Transformer` have no fairness: nothing is assumed of routing, links or
scenarios, and that a build is done in the end is not claimed, only that it fails
for no other reason than an error or a collision.

**Mutants.**  Every property of a passing run has a mutant, a definition named
next to the one it replaces and commented *Fault*: an id counter per clock, a
route kept when a face goes, a rule that takes endless loops for goroutines that
return.  TLC finds each
property violated under its mutant.

## 4. Findings

1. *`sim_engine_contract`, code bug* (`go/overlay/sim/engine.go:262`): when
   `face.Send` fails, Express returns the error and leaves entry and timeout, so
   the caller gets an error and a callback.  The comment at 249-253 of the same
   function rules that out, and cleans up after the encode error only.  It takes
   a stop between the check at the top and the send.
2. *`node_faces_sync`, divergence* (`go/overlay/sim/node.go:203`): in onephase a
   link that comes up under a running router gets the neighbours' prefix but not
   the sync prefixes, which `go/overlay/sim/dv.go:203-204` says must be
   forwarded to all link faces.
3. *`transformer_router_name`, code bug* (`go/transform/inject.go:1555`): the
   rule that replaces the calls of `CfgRouterName` in `thread.go` also replaces
   the one in the fallback of the `simRouterName` it has just injected, which
   from then on calls itself.  On a node without DV router, where
   `hooks.RouterName` is not set, the lookup never returns, contrary to
   `go/ndndsim/hooks.go:78-80`.  The helpers for the tables escape the same fate
   because the global rewrites run before they are injected.

Observations made while modelling, each visible in the definitions but without a
run of its own, because no document of the repository says otherwise or because
it lies outside a model:

* Lock order.  `dv.go:53-58` keeps `GoFunc` and `AfterFunc` out of `withNodeFib`
  because a goroutine in a command may hold `dv.mutex` and want `nodeMu`;
  `dv.go:114`, `147`, `160` and `176` take `nodeMu` around code that takes
  `dv.mutex`.  `hook_binding` reaches the circle (`Abba`).
* Tables.  Routes enter and leave the FIB and the PET without `nodeMu`, before or
  after the RIB follows under it; what a goroutine in the pipeline sees in between
  is up to the locks of the tables, which are the daemon's.
* Router life cycle.  `StartDv` fails on a node whose router was stopped until
  the node is created again, since the handlers stay attached; a failed start
  leaves the first router as it is, but the ticker that `NewRouter` made stays on
  the clock until the node is destroyed, with nobody to stop it (`NotStarted`).
  What `GoFunc` and `AfterFunc` have queued outlives `SimDvRouter.Stop`, and
  `startPfxOnce` does not ask whether the router was stopped
  (`inject.go:1911-1915`): in onephase a router stopped before its first RIB
  update may start prefix sync afterwards (`RibUpdate`).  `hooks.RouterName`
  is not cleared by `StopDv`.
* Trust.  There is one root per process, although `trust.go:17-18` speaks of one
  per network; an invalid first network name makes every later start fail until
  `NdndSimDestroy` (`InvalidNetwork`).
* Prefix sync.  twophase starts it quietly in Init, so what `startPfxOnce` and
  `startPfxSyntheticReady` do later has no effect there, and a lost sync Interest
  is not repeated; `notify.go:14-17` describes the start as it was before.  Over
  seeded synthetic routes in onephase, `RegisterProducer` (`cgo_export.go:586`)
  announces but does not start prefix sync, as `NdndSimAnnouncePrefixToDv` does:
  nobody hears of the prefix until some node announces one the other way.
* Transformer.  `ruleSvsALOMaxPipelineSim` is not handled by the switch that
  applies rules (`rules.go:1060` describes its effect), `ruleSvsAloConsumeCheckPatch`
  is disabled, the comment of `pruneUnusedPackageImports` speaks of dot imports,
  which it skips, and the rewritten channel sends of `std/sync` have no branch for
  production.  An endless goroutine is recognised by the name of its method or a
  literal `for {}` (`rules.go:164-241`), and of package time only `Now`,
  `AfterFunc`, `Sleep` and `Since` are rewritten outside `svs.go` (`rules.go:66`):
  `Unforeseen` lists what slips through.  In onephase both the subscription's
  callback and the `Apply` that it calls report a delivery (`rewrite.go:113`, `116`);
  the report stores a time, so the second is harmless.
* Stack helper.  With parallel channels the route takes the first device that
  leads to the next hop (`ndndsim-stack-helper.cc:232`), whatever its delay,
  although `ndndsim-stack-helper.h:94-96` promises the interface of the shortest
  path.  The properties name the exception (`Shadows`) and hold for every other device.
* Producers.  A second producer on a node replaces the trace callback of the
  first (`ndndsim-producer.cc:101`); flags that stop a consumer are kept per node.

## 5. The proofs

Each `*_proofs` module has the inductive invariant in named parts, one lemma per
action, and the theorems.  The assumptions are those of `ConstantsAssumption` in
the module concerned (`TrieAssumption` and `BuildAssumption` in `HandlerTrie` and
`Build`), which TLC evaluates in each run: special values lie outside the sets
they are compared with, bounds are naturals, nodes are finitely many
(`HookBinding`, `RouteCalculation`), names are sequences of their own components
(`HandlerTrie`), and a checkout is a function from paths to files (`Build`).

* **EventBridge_proofs**: types, `RunsForItsOwner`, `RunsAtMostOnce`,
  `CanceledIsPending`, `CancelIsFinal` (after a cancel has returned the event
  never starts), `LiveEventsBacked`, and the refinement of `EventService`.
  The properties are not inductive: a callback runs once because ids above
  the counter are fresh, a stored callback has neither run nor been cancelled and
  lies in the clock that drew its id, calls work on ids of their own clock, and
  the runtime exists only while the bridge is up.  For `LiveEventsBacked` there is
  a second layer (`Backing`): what ns-3 has queued is at the node of the clock that
  drew its id, an id on its way to ns-3 is in one call and nowhere else, and the
  bridge knows it as pending before ns-3 gets it.
* **Engine_proofs**, of `SimEngine`: types, `OwnData`, `EntryBacked`, `NoIdleTimeout`, and the
  refinement of `PendingInterest`.  The invariant ties each entry to the one call
  that drew its token, says that a held entry has not been answered by anything
  in progress, and that a fired timer is not armed.
* **HookBinding_proofs**: types, `PipelineExclusive`, `RunsBound`, `LeavesNothing`
  and `CommandsExecuted`, for any number of nodes and goroutines, whatever calls
  they make, and any depth of nested calls; and `DeadlockOnlyAbba` if goroutines
  send packets or run code of routers (`Goroutines`, the instance of the run).
  What a script does to
  its own thread depends on that thread alone: `After` says what each step asks of
  its binding, its saved values and its locks, and what it makes of them.  Every
  script of the code runs from the state it begins in back to that state, a nested
  one from wherever it interrupts.  So the invariant says of each thread that
  what is left of its call leads from where it is to a thread that has nothing, and
  of each node that its `nodeHolder` has its `nodeMu`.  The properties are what the
  next step asks for.  There is no other circular wait because a goroutine that
  wants a lock holds none, or `dv.mutex` of the node whose `nodeMu` it wants, nobody
  waits for `dv.mutex` with `faceMu` in hand, and the simulator thread wants no lock
  that it holds.
* **Engine_proofs**, of `HandlerTrie`: types, `NoDeadBranch`, `LongestPrefixWins` and the
  refinement of `HandlerMap`, for names of any length.  The nodes of the trie are
  closed under prefixes, so the walk down passes every handler on its way; what
  a detach prunes are the nodes above it that nothing else hangs on.
* **NodeFaces_proofs**: `FacesAgree`, `NoDanglingRoute`, `FibFollowsRib`,
  `NeighborsOnEveryLink`, and the refinement of `PortRoutes`, for any number of
  nodes, interfaces and prefixes and both builds.  The invariants are inductive
  with three facts: ids in use have been drawn, an installed node has its
  application face, and no route names the management prefix.  For the refinement,
  a port determines its face (`PortInjective`), a face keeps its port while others
  come and go (`PortKept`), and so what a table says of faces it says of ports.
  `LearnedFaces` adds that of the faces a router remembers those that are still
  there are its interfaces': a command is about a port, or about nothing.
* **SimTicker_proofs**: `OneChain`, `TicksUnlessStopped` (no tick ahead of a
  stopped ticker, one ahead of any other), and the refinement of
  `Ticker`.  All ticks of the clock have captured the current version and are the
  ones `cancel` cancels; while the version of the running handler is current,
  none is scheduled.
* **RouteCalculation_proofs**: types, `NoShortcut`, `NextHopsDescend`, `Shortest`,
  `RoutesToEveryProducer`, `PromiseKept` (the promise of the header where parallel
  channels are alike), `CostsAreDistances`, `EachNodeOnce`, the refinement of
  `ShortestRoutes`, and that a search ends, for any topology of finitely many nodes.  A node whose channels
  have not been relaxed at its distance is on the heap with that distance; a next
  hop is at least the channel closer.  None of this needs the order of the heap.  At the
  end of a search the distances are therefore a solution of the equations of
  shortest paths (`Distances`): 0 at the producer, no channel is a shortcut, and
  each node has a neighbour on the way.  Such a solution is what the walks measure
  (`ShortestWalks`): no walk is shorter, by induction over its channels
  (`WalksNoShorter`), and there is a walk of that length with at most as many
  channels as there are nodes closer to the producer, so the bound of `Walks`
  suffices (`DistancesAreWalks`, by descent to the closest node without such a walk).  The second layer of the invariant (`Installed`) says
  of every producer done that its routes are there, and of every route that it
  is at the distance of some producer: a route that takes the place of another
  over the same device still leads to both.  The order of the heap is what `EachNodeOnce` needs: no entry
  is below the distance of a node that has been expanded (`HeapAbove`), so nothing
  can bring it closer.  Hence each `Visit` expands one more node or takes away a
  stale entry and adds none: the pair of nodes still to be expanded and entries of
  the heap, both finite, goes down (`SearchEnds`).
* **Build_proofs**: `Reproducible`, `OverlayOnlyAdds`, `LeftoversHarmless` and
  `OutputDecides`, for any source, rules, list of packages and overlays and any
  number of failures.  From the copy to the end, the invariant gives the whole
  tree (`Built`): the files of the checkout, each rewritten as often as its package
  has come up among those before the present position, less one if it is still
  pending, and the files of an overlay that are no longer pending.  Nothing is
  said of a tree before the copy or after a failure, because nothing is true of
  it, and nothing has to be: that is the point of removing it first.  `OutputDecides`
  makes the check of the source complete: a property that the output has for
  each input holds of every build, so the instance of the run, with one failure,
  stands for any number of failures and rebuilds.
* **DvRouter_proofs**: types, `RouterOwnsItsTimers`, `QuietWithoutPrefixes`,
  `PeersTrusted` and `StartsOnce`, for any number of nodes, routers and
  publications, in both builds.  The invariant adds that routers are numbered as
  they are made, so a new one has no handlers, no certificates and has sent
  nothing yet; that a node which holds a router has its handlers attached, so a
  second start fails before it changes more than the clock; that all keychains that
  have been filled hold the same certificates; that prefix sync which is on, or was,
  is marked as started; and that in twophase every router whose handlers are
  attached, stopped or not, bears the mark, so that a late RIB update does nothing.

`Walks` and `Rewritings` are recursive functions on the naturals.  The provers
cannot instantiate an induction theorem, but induction over a *set* of numbers is
first-order (`Induction`): a function that satisfies the recursion exists because
each finite part of it does and any two parts agree.

Type correctness, `RunsAtMostOnce`, `FibFollowsRib`, `OneChain`, `NoShortcut` and
`NextHopsDescend` are proved and in no run, whose properties imply them: the first
two are part of what `ImplementsService` and `ImplementsPortRoutes` say, and the
last two say of the search what `ImplementsShortestRoutes` says of its outcome.

**Only model-checked**: all liveness, which the provers cannot reach; and the four
properties of the source (`Builds`, `SimulationStaysOnTheClock`, `ProductionKept`,
`EventsReported`), which are about particular source texts and whose evaluation is
by `RECURSIVE` operators on syntax trees.  By `OutputDecides` they are claims about
finitely many inputs, all of which the run visits.

## 6. What is abstracted, and what is not modelled

* Packets: an Interest and its Data are a call of Express; names are model values
  or short sequences; decoding, signing and wire formats are left out.
* Time: `EventBridge` and `SimEngine` allow any order of events, a superset of
  what delays permit; `SimTicker` has discrete time.
* Routes: name, face and origin.  Costs and names that are prefixes of each other
  appear in `RouteCalculation` (costs) and `HandlerTrie` (prefixes) only.  The
  `fib/add-nexthop` command, the multicast egress of the PET and BIER are left out.
* Routers: the routing algorithm is the daemon's.  `DvRouter` lets RIB updates
  come at any time while the handlers of a router are attached, its life after a
  stop included.  A publication is counted; state vectors, what a lost sync
  Interest does to them, fetching, suppression timers and snapshots are left out:
  they are the daemon's.
* Source: statements the rules do not look at, types, comments and formatting.
  The files of a directory are rewritten in one fixed order, which nothing
  depends on since a rule reads and writes one file.
* In `RouteCalculation` a node without a face for a device behaves like a node
  without a stack.

Not modelled:

* The loops of consumers: a periodic event until a flag is set, with bytes and
  traces around it.  What they call (`Express`, handlers, routes, announcements)
  is in the modules above; what is left, that the flag belongs to the node and not
  to the application, is listed as a hazard.
* `WallClock` and `DeterministicClock`: only Go tests use them.
* Tracers, metrics, memory report: counters and text, which influence nothing.
* Topology reader and application helper: parsing, and creation of ns-3 objects.
* The broadcast strategy: three stateless callbacks into a pipeline and tables
  that belong to the daemon.
* Traffic tools, examples, tests: programs around the system.

## 7. Plan

Written so far, in order of importance: `EventBridge`, `SimEngine`,
`HookBinding`, `NodeFaces`, `HandlerTrie`, `SimTicker`, `RouteCalculation`,
`Build` and `Transformer` with its two libraries, `DvRouter`.

What is left to model: `Apps`, a composition of the producer's handler, route,
announcement and trace callback with the flags that stop consumers, over
`HandlerTrie`, `NodeFaces` and `DvRouter`.  Properties: a stop ends its own loop
and no more; what is announced is served.

Every safety property that a prover can reach is proved.  Next steps for the
proofs: an abstract specification of prefix sync for `DvRouter` to implement, and
the rules of the transformer over source trees of any depth.
