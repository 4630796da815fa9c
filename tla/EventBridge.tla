---------------------------- MODULE EventBridge -----------------------------
(***************************************************************************)
(* The way of an event from Go code to the ns-3 scheduler and back: the    *)
(* Ns3Clock of every simulation node (go/overlay/sim/cgo_export.go), the   *)
(* pending and cancelled sets of the C++ bridge                            *)
(* (model/ndndsim-go-bridge.cc), and the creation and destruction of nodes *)
(* and of the bridge itself around it.                                     *)
(*                                                                         *)
(* The simulator thread Sim runs the ns-3 loop: it fires events, runs their*)
(* callbacks to completion and executes every exported function.  Worker   *)
(* threads are goroutines that schedule and cancel at any moment; the      *)
(* bridge takes a mutex because of them.  A node incarnation is identified *)
(* with its clock: NdndSimCreateNode makes one new clock per node.         *)
(* Delays are abstracted: any event in the ns-3 queue may be the next.     *)
(***************************************************************************)
EXTENDS Naturals, FiniteSets

CONSTANTS
    Node,       \* ns-3 node ids
    Clock,      \* Ns3Clock objects, one per node incarnation
    Worker,     \* goroutines that do not run on the simulator thread
    Sim,        \* the simulator thread
    None,       \* nil
    MaxEvents   \* bound on the events scheduled in a behaviour

ASSUME ConstantsAssumption ==
    /\ None \notin Node \cup Clock
    /\ Sim \notin Worker
    /\ MaxEvents \in Nat

Thread == Worker \cup {Sim}
EvID == 1..MaxEvents

VARIABLES
    g_bridgeActive,     \* C++: the bridge accepts calls
    g_pendingEvents,    \* C++: ids handed to ns-3 and not fired yet
    g_canceledEvents,   \* C++: pending ids whose trampoline must do nothing
    queue,              \* ns-3's scheduler: <<node, id>> still to fire
    globalRuntime,      \* Go: the Runtime exists
    nodes,              \* Go: Runtime.nodes
    globalClocks,       \* Go: the clocks NdndSimFireEvent can reach
    clockNode,          \* Go: Ns3Clock.nodeID, None before the clock is made
    globalNextEvID,     \* Go: the process-wide id counter
    events,             \* Go: Ns3Clock.events, the callbacks of each clock
    call,               \* the Schedule or Cancel a thread is in the middle of
    fire,               \* the event the simulator thread is busy with
    home,               \* history: the clock whose Schedule drew the id
    runs,               \* history: how often the callback of an id started
    cancelled           \* history: the ids for which a Cancel has returned

bridge == <<g_bridgeActive, g_pendingEvents, g_canceledEvents, queue>>
registry == <<globalRuntime, nodes, globalClocks, clockNode>>
vars == <<bridge, registry, globalNextEvID, events, call, fire, home, runs,
          cancelled>>

NoCall == [op |-> "none", clk |-> None, id |-> 0]
Call(op, c, id) == [op |-> op, clk |-> c, id |-> id]
Calls == {NoCall} \cup
         [op : {"schedule", "enqueue", "unregister"}, clk : Clock, id : EvID]

NotFiring == [pc |-> "idle", node |-> None, id |-> 0, clk |-> None, bound |-> None]
Fires == {NotFiring,
          [NotFiring EXCEPT !.pc = "deactivated"],
          [NotFiring EXCEPT !.pc = "destroyed"]} \cup
         [pc : {"dispatch"}, node : Node, id : EvID, clk : {None}, bound : {None}] \cup
         [pc : {"callback"}, node : Node, id : EvID, clk : Clock, bound : Clock]

TypeOK ==
    /\ g_bridgeActive \in BOOLEAN
    /\ g_pendingEvents \in SUBSET EvID
    /\ g_canceledEvents \in SUBSET EvID
    /\ queue \in SUBSET (Node \X EvID)
    /\ globalRuntime \in BOOLEAN
    /\ nodes \in [Node -> Clock \cup {None}]
    /\ globalClocks \in [Node -> Clock \cup {None}]
    /\ clockNode \in [Clock -> Node \cup {None}]
    /\ globalNextEvID \in 0..MaxEvents
    /\ events \in [Clock -> SUBSET EvID]
    /\ call \in [Thread -> Calls]
    /\ fire \in Fires
    /\ home \in [EvID -> Clock \cup {None}]
    /\ runs \in [EvID -> Nat]
    /\ cancelled \in SUBSET EvID

Init ==
    /\ g_bridgeActive = FALSE
    /\ g_pendingEvents = {}
    /\ g_canceledEvents = {}
    /\ queue = {}
    /\ globalRuntime = FALSE
    /\ nodes = [n \in Node |-> None]
    /\ globalClocks = [n \in Node |-> None]
    /\ clockNode = [c \in Clock |-> None]
    /\ globalNextEvID = 0
    /\ events = [c \in Clock |-> {}]
    /\ call = [t \in Thread |-> NoCall]
    /\ fire = NotFiring
    /\ home = [id \in EvID |-> None]
    /\ runs = [id \in EvID |-> 0]
    /\ cancelled = {}
-----------------------------------------------------------------------------
(***************************************************************************)
(* Who may call the clock.  Go code runs on the simulator thread inside an *)
(* exported call (idle) or inside a callback, and only for nodes that      *)
(* exist; a goroutine may still hold the clock of a node that is gone.     *)
(***************************************************************************)
Live(c) == \E n \in Node : nodes[n] = c

SimIdle == fire = NotFiring /\ call[Sim] = NoCall

MayUse(t, c) ==
    /\ call[t] = NoCall
    /\ clockNode[c] # None
    /\ t = Sim => Live(c) /\ fire.pc \in {"idle", "callback"}

\* The ids some caller of Schedule has been given.
Returned(id) ==
    /\ home[id] # None
    /\ \A t \in Thread : call[t].id = id => call[t].op = "unregister"

\* Fault: every clock numbers its own events.
ClockLocalID(c) == Cardinality({id \in EvID : home[id] = c}) + 1

\* globalNextEvID.Add(1): the same counter for every clock.
NewEventID(c) == globalNextEvID + 1

(***************************************************************************)
(* Ns3Clock.Schedule: draw an id and store the callback, then the bridge's *)
(* OnScheduleEvent: mark the id pending under the mutex, release it, and   *)
(* only then hand the event to ns-3.  An inactive bridge returns at once,  *)
(* and the callback stays behind in the clock's map.                       *)
(***************************************************************************)
Schedule(t, c) ==
    /\ MayUse(t, c)
    /\ globalNextEvID < MaxEvents
    /\ globalNextEvID' = globalNextEvID + 1
    /\ LET id == NewEventID(c)
       IN  /\ events' = [events EXCEPT ![c] = @ \cup {id}]
           /\ call' = [call EXCEPT ![t] = Call("schedule", c, id)]
           /\ home' = [home EXCEPT ![id] = c]
    /\ UNCHANGED <<bridge, registry, fire, runs, cancelled>>

\* Fault: an event is only handed over when no other event is pending.
OnScheduleEventCoalesced(t) ==
    /\ call[t].op = "schedule"
    /\ IF g_bridgeActive /\ g_pendingEvents = {}
       THEN /\ g_pendingEvents' = g_pendingEvents \cup {call[t].id}
            /\ call' = [call EXCEPT ![t] = Call("enqueue", @.clk, @.id)]
       ELSE /\ call' = [call EXCEPT ![t] = NoCall]
            /\ UNCHANGED g_pendingEvents
    /\ UNCHANGED <<g_bridgeActive, g_canceledEvents, queue, registry,
                   globalNextEvID, events, fire, home, runs, cancelled>>

OnScheduleEvent(t) ==
    /\ call[t].op = "schedule"
    /\ IF g_bridgeActive
       THEN /\ g_pendingEvents' = g_pendingEvents \cup {call[t].id}
            /\ g_canceledEvents' = g_canceledEvents \ {call[t].id}
            /\ call' = [call EXCEPT ![t] = Call("enqueue", @.clk, @.id)]
       ELSE /\ call' = [call EXCEPT ![t] = NoCall]
            /\ UNCHANGED <<g_pendingEvents, g_canceledEvents>>
    /\ UNCHANGED <<g_bridgeActive, queue, registry, globalNextEvID, events,
                   fire, home, runs, cancelled>>

ScheduleWithContext(t) ==
    /\ call[t].op = "enqueue"
    /\ queue' = queue \cup {<<clockNode[call[t].clk], call[t].id>>}
    /\ call' = [call EXCEPT ![t] = NoCall]
    /\ UNCHANGED <<g_bridgeActive, g_pendingEvents, g_canceledEvents, registry,
                   globalNextEvID, events, fire, home, runs, cancelled>>

(***************************************************************************)
(* Ns3Clock.Cancel: OnCancelEvent marks a pending id, then the callback is *)
(* deleted from the clock's map.                                           *)
(***************************************************************************)
Marked(S) == IF g_bridgeActive THEN S \cap g_pendingEvents ELSE {}

Cancel(t, c, id) ==
    /\ MayUse(t, c)
    /\ home[id] = c
    /\ Returned(id)
    /\ g_canceledEvents' = g_canceledEvents \cup Marked({id})
    /\ call' = [call EXCEPT ![t] = Call("unregister", c, id)]
    /\ UNCHANGED <<g_bridgeActive, g_pendingEvents, queue, registry,
                   globalNextEvID, events, fire, home, runs, cancelled>>

\* Fault: leave the callback to the mark of the bridge.
CancelKeepsCallback(t) ==
    /\ call[t].op = "unregister"
    /\ cancelled' = cancelled \cup {call[t].id}
    /\ call' = [call EXCEPT ![t] = NoCall]
    /\ UNCHANGED <<bridge, registry, globalNextEvID, events, fire, home, runs>>

CancelUnregister(t) ==
    /\ call[t].op = "unregister"
    /\ events' = [events EXCEPT ![call[t].clk] = @ \ {call[t].id}]
    /\ cancelled' = cancelled \cup {call[t].id}
    /\ call' = [call EXCEPT ![t] = NoCall]
    /\ UNCHANGED <<bridge, registry, globalNextEvID, fire, home, runs>>
-----------------------------------------------------------------------------
(***************************************************************************)
(* FireEventTrampoline, run by ns-3: forget the id, and stop there when it *)
(* was cancelled or the bridge is down; otherwise call NdndSimFireEvent.   *)
(***************************************************************************)
TakeFromQueue(e) ==
    /\ SimIdle
    /\ e \in queue
    /\ queue' = queue \ {e}
    /\ g_pendingEvents' = g_pendingEvents \ {e[2]}
    /\ g_canceledEvents' = g_canceledEvents \ {e[2]}
    /\ UNCHANGED <<g_bridgeActive, registry, globalNextEvID, events, call, home,
                   runs, cancelled>>

TrampolineReturns(e) ==
    /\ e[2] \in g_canceledEvents \/ ~g_bridgeActive
    /\ TakeFromQueue(e)
    /\ UNCHANGED fire

TrampolineDispatches(e) ==
    /\ e[2] \notin g_canceledEvents
    /\ g_bridgeActive
    /\ TakeFromQueue(e)
    /\ fire' = [NotFiring EXCEPT !.pc = "dispatch", !.node = e[1], !.id = e[2]]

(***************************************************************************)
(* NdndSimFireEvent: find the clock of the node, bind the node's hooks, and*)
(* let the clock take the callback out of its map and run it.  The event   *)
(* is lost when there is no clock, no runtime or no such callback.         *)
(***************************************************************************)
Reachable(n, id) ==
    /\ globalClocks[n] # None
    /\ globalRuntime
    /\ id \in events[globalClocks[n]]

FireEventRuns ==
    /\ fire.pc = "dispatch"
    /\ Reachable(fire.node, fire.id)
    /\ LET c == globalClocks[fire.node]
       IN  /\ events' = [events EXCEPT ![c] = @ \ {fire.id}]
           /\ fire' = [pc |-> "callback", node |-> fire.node, id |-> fire.id,
                       clk |-> c, bound |-> nodes[fire.node]]
    /\ runs' = [runs EXCEPT ![fire.id] = @ + 1]
    /\ UNCHANGED <<bridge, registry, globalNextEvID, call, home, cancelled>>

FireEventMisses ==
    /\ fire.pc = "dispatch"
    /\ ~Reachable(fire.node, fire.id)
    /\ fire' = NotFiring
    /\ UNCHANGED <<bridge, registry, globalNextEvID, events, call, home, runs,
                   cancelled>>

CallbackReturns ==
    /\ fire.pc = "callback"
    /\ call[Sim] = NoCall
    /\ fire' = NotFiring
    /\ UNCHANGED <<bridge, registry, globalNextEvID, events, call, home, runs,
                   cancelled>>
-----------------------------------------------------------------------------
(***************************************************************************)
(* The life cycle calls, all made by C++ on the simulator thread.          *)
(***************************************************************************)
InitGoBridge ==
    /\ SimIdle
    /\ ~g_bridgeActive
    /\ g_bridgeActive' = TRUE
    /\ globalRuntime' = TRUE
    /\ nodes' = [n \in Node |-> None]
    /\ UNCHANGED <<g_pendingEvents, g_canceledEvents, queue, globalClocks,
                   clockNode, globalNextEvID, events, call, fire, home, runs,
                   cancelled>>

\* A new clock is made and the forwarder's Start schedules its first
\* maintenance event on it.
NewClock(n, c) ==
    /\ SimIdle
    /\ globalRuntime
    /\ nodes[n] = None
    /\ clockNode[c] = None
    /\ globalNextEvID < MaxEvents
    /\ clockNode' = [clockNode EXCEPT ![c] = n]
    /\ globalNextEvID' = globalNextEvID + 1
    /\ home' = [home EXCEPT ![NewEventID(c)] = c]
    /\ g_pendingEvents' = g_pendingEvents \cup {NewEventID(c)}
    /\ queue' = queue \cup {<<n, NewEventID(c)>>}
    /\ UNCHANGED <<g_bridgeActive, globalRuntime, call, fire, runs>>

CreateNode(n, c) ==
    /\ NewClock(n, c)
    /\ nodes' = [nodes EXCEPT ![n] = c]
    /\ globalClocks' = [globalClocks EXCEPT ![n] = c]
    /\ events' = [events EXCEPT ![c] = {NewEventID(c)}]
    /\ g_canceledEvents' = g_canceledEvents \ {NewEventID(c)}
    /\ UNCHANGED cancelled

\* Node.Start fails: the node is taken out of the runtime and stopped, which
\* cancels the maintenance event; its clock never becomes reachable.
CreateNodeFails(n, c) ==
    /\ NewClock(n, c)
    /\ g_canceledEvents' = g_canceledEvents \cup {NewEventID(c)}
    /\ cancelled' = cancelled \cup {NewEventID(c)}
    /\ UNCHANGED <<nodes, globalClocks, events>>

\* The handles Node.Stop cancels (DV heartbeat and dead check, forwarder
\* maintenance, router timers) are some of the ids of the node's clock.
StopHandles(c) == {id \in EvID : home[id] = c /\ Returned(id)}

\* Fault: the clock of the destroyed node stays reachable.
DestroyNodeKeepsClock(n) ==
    /\ SimIdle
    /\ globalRuntime
    /\ nodes[n] # None
    /\ nodes' = [nodes EXCEPT ![n] = None]
    /\ UNCHANGED <<bridge, globalRuntime, globalClocks, clockNode, globalNextEvID,
                   events, call, fire, home, runs, cancelled>>

NdndSimDestroyNode(n) ==
    /\ SimIdle
    /\ globalRuntime
    /\ nodes[n] # None
    /\ \E S \in SUBSET StopHandles(nodes[n]) :
          /\ g_canceledEvents' = g_canceledEvents \cup Marked(S)
          /\ events' = [events EXCEPT ![nodes[n]] = @ \ S]
          /\ cancelled' = cancelled \cup S
    /\ nodes' = [nodes EXCEPT ![n] = None]
    /\ globalClocks' = [globalClocks EXCEPT ![n] = None]
    /\ UNCHANGED <<g_bridgeActive, g_pendingEvents, queue, globalRuntime,
                   clockNode, globalNextEvID, call, fire, home, runs>>

\* DestroyGoBridge in its three stages: switch the bridge off, destroy the
\* Go side (every node is stopped, with a bridge that ignores the cancels),
\* and clear the bridge's sets.
DeactivateBridge ==
    /\ SimIdle
    /\ g_bridgeActive
    /\ g_bridgeActive' = FALSE
    /\ fire' = [NotFiring EXCEPT !.pc = "deactivated"]
    /\ UNCHANGED <<g_pendingEvents, g_canceledEvents, queue, registry,
                   globalNextEvID, events, call, home, runs, cancelled>>

NdndSimDestroy ==
    /\ fire.pc = "deactivated"
    /\ \E S \in SUBSET UNION {StopHandles(nodes[n]) : n \in {m \in Node : nodes[m] # None}} :
          /\ events' = [c \in Clock |-> IF Live(c) THEN events[c] \ S ELSE events[c]]
          /\ cancelled' = cancelled \cup S
    /\ nodes' = [n \in Node |-> None]
    /\ globalClocks' = [n \in Node |-> None]
    /\ globalRuntime' = FALSE
    /\ fire' = [NotFiring EXCEPT !.pc = "destroyed"]
    /\ UNCHANGED <<bridge, clockNode, globalNextEvID, call, home, runs>>

ClearBridge ==
    /\ fire.pc = "destroyed"
    /\ g_pendingEvents' = {}
    /\ g_canceledEvents' = {}
    /\ fire' = NotFiring
    /\ UNCHANGED <<g_bridgeActive, queue, registry, globalNextEvID, events, call,
                   home, runs, cancelled>>

\* ns-3's Simulator::Destroy disposes of the nodes first and then drops
\* whatever is still queued.
SimulatorDestroy ==
    /\ SimIdle
    /\ \A n \in Node : nodes[n] = None
    /\ queue' = {}
    /\ UNCHANGED <<g_bridgeActive, g_pendingEvents, g_canceledEvents, registry,
                   globalNextEvID, events, call, fire, home, runs, cancelled>>
-----------------------------------------------------------------------------
ThreadStep(t) ==
    \/ OnScheduleEvent(t)
    \/ ScheduleWithContext(t)
    \/ CancelUnregister(t)

FireStep ==
    \/ \E e \in queue : TrampolineReturns(e) \/ TrampolineDispatches(e)
    \/ FireEventRuns
    \/ FireEventMisses
    \/ CallbackReturns

LifeCycle ==
    \/ InitGoBridge
    \/ \E n \in Node, c \in Clock : CreateNode(n, c) \/ CreateNodeFails(n, c)
    \/ \E n \in Node : NdndSimDestroyNode(n)
    \/ DeactivateBridge
    \/ NdndSimDestroy
    \/ ClearBridge
    \/ SimulatorDestroy

Next ==
    \/ \E t \in Thread, c \in Clock :
          \/ Schedule(t, c)
          \/ \E id \in EvID : Cancel(t, c, id)
    \/ \E t \in Thread : ThreadStep(t)
    \/ FireStep
    \/ LifeCycle

Spec == Init /\ [][Next]_vars

(***************************************************************************)
(* A call of the clock returns, a callback returns after finitely many     *)
(* calls, and Simulator::Run executes every queued event, in time order,   *)
(* so none stays behind for ever while the loop runs.  Nothing is assumed  *)
(* of the life cycle calls or of the code that schedules and cancels,      *)
(* except that a started DestroyGoBridge completes.                        *)
(***************************************************************************)
Fairness ==
    /\ \A t \in Thread : WF_vars(ThreadStep(t))
    /\ \A e \in Node \X EvID : SF_vars(TrampolineReturns(e) \/ TrampolineDispatches(e))
    /\ WF_vars(FireEventRuns \/ FireEventMisses)
    /\ SF_vars(CallbackReturns)
    /\ WF_vars(NdndSimDestroy \/ ClearBridge)

FairSpec == Spec /\ Fairness
-----------------------------------------------------------------------------
(***************************************************************************)
(* Properties                                                              *)
(***************************************************************************)
\* The callback that runs belongs to the clock that scheduled it, and the
\* node hooks bound meanwhile are those of that clock's node: an event of one
\* node, or of an earlier incarnation of the same node id, never runs as
\* another (cgo_export.go, globalNextEvID and NdndSimFireEvent).
RunsForItsOwner ==
    fire.pc = "callback" =>
        /\ fire.clk = home[fire.id]
        /\ fire.bound = fire.clk
        /\ clockNode[fire.clk] = fire.node

\* No event runs twice (Ns3Clock.FireEvent takes the callback out of the map).
RunsAtMostOnce == \A id \in EvID : runs[id] <= 1

\* The cancelled set of the bridge only holds events that ns-3 will still
\* fire, so that an id marked there is always taken out again
\* (OnCancelEvent marks nothing that is not pending).
CanceledIsPending == g_canceledEvents \subseteq g_pendingEvents

\* While the bridge is up, no callback of a reachable clock is orphaned: it
\* has its event in the ns-3 queue, on its way in or out, or a Cancel is
\* about to delete it.
LiveEventsBacked ==
    g_bridgeActive =>
        \A n \in Node : globalClocks[n] # None =>
            \A id \in events[globalClocks[n]] :
                \/ <<n, id>> \in queue /\ id \in g_pendingEvents
                                       /\ id \notin g_canceledEvents
                \/ fire.pc = "dispatch" /\ fire.id = id
                \/ \E t \in Thread : call[t].id = id

\* An event scheduled for a node runs in the end, unless it is cancelled or
\* its node disappears.
EventuallySettled ==
    \A id \in EvID :
        (home[id] # None) ~> \/ runs[id] > 0
                             \/ id \in cancelled
                             \/ ~Live(home[id])

(***************************************************************************)
(* The bridge implements EventService.                                     *)
(***************************************************************************)
StatusOf(id) ==
    IF home[id] = None THEN "new"
    ELSE IF runs[id] > 0 THEN "ran"
    ELSE IF id \in cancelled THEN "cancelled"
    ELSE IF Live(home[id]) THEN "scheduled"
    ELSE "dropped"

Status == [id \in EvID |-> StatusOf(id)]

Service == INSTANCE EventService WITH status <- Status

\* The whole path behaves like the abstract event service.
ImplementsService == Service!Spec
=============================================================================
