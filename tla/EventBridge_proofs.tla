------------------------- MODULE EventBridge_proofs -------------------------
(***************************************************************************)
(* Proofs about EventBridge, for any number of nodes, clocks, goroutines   *)
(* and events.                                                             *)
(***************************************************************************)
EXTENDS EventBridge, TLAPS

(***************************************************************************)
(* The inductive invariant, in named parts.                                *)
(***************************************************************************)
\* Ids above the counter have never been drawn, and an id that has not been
\* drawn has left no trace.
FreshIds ==
    /\ \A id \in EvID : id > globalNextEvID => home[id] = None
    /\ \A id \in EvID : home[id] = None => runs[id] = 0 /\ id \notin cancelled

\* A callback is stored in the clock that drew its id, and only as long as
\* it has not run and no Cancel of it has returned.
StoredEvents ==
    \A c \in Clock : \A id \in events[c] :
        home[id] = c /\ runs[id] = 0 /\ id \notin cancelled

\* A pending call works on an id of its own clock.
CallsOwnIds ==
    \A t \in Thread : call[t] # NoCall =>
        home[call[t].id] = call[t].clk

\* The two registries agree, and name a node's own clock.
Registries ==
    /\ nodes = globalClocks
    /\ \A n \in Node : nodes[n] # None => clockNode[nodes[n]] = n
    /\ \A id \in EvID : home[id] # None => clockNode[home[id]] # None

\* The runtime only exists while the bridge is up or being taken down.
Lifecycle ==
    /\ ~globalRuntime => \A n \in Node : nodes[n] = None
    /\ fire.pc \in {"deactivated", "destroyed"} => ~g_bridgeActive
    /\ ~g_bridgeActive /\ fire.pc # "deactivated" => ~globalRuntime

IInv == /\ TypeOK
        /\ FreshIds
        /\ StoredEvents
        /\ CallsOwnIds
        /\ Registries
        /\ Lifecycle
        /\ RunsForItsOwner
        /\ RunsAtMostOnce
        /\ CanceledIsPending
-----------------------------------------------------------------------------
LEMMA ScheduleStep ==
    ASSUME IInv, NEW t \in Thread, NEW c \in Clock,
           Schedule(t, c)
    PROVE  IInv'
<1> USE ConstantsAssumption DEF IInv, EvID, Thread
<1>1. TypeOK'
    BY DEF TypeOK, Schedule, MayUse, NewEventID, Call, NoCall, Calls, bridge,
           registry
<1>2. FreshIds'
    BY DEF TypeOK, FreshIds, StoredEvents, CallsOwnIds, Calls, NoCall, Fires,
           Schedule, MayUse, NewEventID, Call, bridge, registry
<1>3. StoredEvents'
    BY DEF TypeOK, StoredEvents, FreshIds, CallsOwnIds, Calls, NoCall,
           Schedule, MayUse, NewEventID, Call, bridge, registry
<1>4. CallsOwnIds'
    BY DEF TypeOK, CallsOwnIds, FreshIds, Calls, NoCall, Schedule, MayUse,
           NewEventID, Call, bridge, registry
<1>5. Registries'
    BY DEF TypeOK, Registries, FreshIds, CallsOwnIds, Lifecycle, Schedule,
           MayUse, NewEventID, Call, NoCall, Calls, bridge, registry
<1>6. RunsForItsOwner'
    BY DEF TypeOK, RunsForItsOwner, FreshIds, StoredEvents, Registries, Fires,
           NotFiring, Schedule, MayUse, NewEventID, Call, NoCall, Calls,
           bridge, registry
<1>7. Lifecycle' /\ RunsAtMostOnce' /\ CanceledIsPending'
    BY DEF Lifecycle, RunsAtMostOnce, CanceledIsPending, Schedule, bridge,
           registry
<1> QED
    BY <1>1, <1>2, <1>3, <1>4, <1>5, <1>6, <1>7

LEMMA OnScheduleEventStep ==
    ASSUME IInv, NEW t \in Thread, OnScheduleEvent(t)
    PROVE  IInv'
<1> USE ConstantsAssumption DEF IInv
<1>1. call[t] \in [op : {"schedule", "enqueue", "unregister"}, clk : Clock, id : EvID]
    BY DEF TypeOK, OnScheduleEvent, Calls, NoCall
<1>2. Call("enqueue", call[t].clk, call[t].id) \in Calls /\ NoCall \in Calls
    BY <1>1 DEF Call, Calls
<1>3. call' \in [Thread -> Calls]
    BY <1>2 DEF TypeOK, OnScheduleEvent
<1>4. TypeOK'
    BY <1>1, <1>3 DEF TypeOK, OnScheduleEvent, bridge, registry
<1>5. CallsOwnIds'
    <2> SUFFICES ASSUME NEW u \in Thread, call'[u] # NoCall
                 PROVE  home'[call'[u].id] = call'[u].clk
        BY DEF CallsOwnIds
    <2>1. CASE u = t
        BY <1>1, <2>1 DEF TypeOK, CallsOwnIds, OnScheduleEvent, Call, NoCall
    <2>2. CASE u # t
        BY <2>2 DEF TypeOK, CallsOwnIds, OnScheduleEvent
    <2> QED
        BY <2>1, <2>2
<1>6. CanceledIsPending'
    BY DEF TypeOK, CanceledIsPending, OnScheduleEvent
<1>7. FreshIds' /\ StoredEvents' /\ Registries' /\ Lifecycle' /\ RunsForItsOwner' /\
           RunsAtMostOnce'
    BY DEF FreshIds, StoredEvents, Registries, Lifecycle, RunsForItsOwner,
           RunsAtMostOnce, OnScheduleEvent, bridge, registry
<1> QED
    BY <1>4, <1>5, <1>6, <1>7

LEMMA ScheduleWithContextStep ==
    ASSUME IInv, NEW t \in Thread, ScheduleWithContext(t)
    PROVE  IInv'
<1> USE ConstantsAssumption DEF IInv
<1>1. call[t] \in [op : {"schedule", "enqueue", "unregister"}, clk : Clock, id : EvID]
    BY DEF TypeOK, ScheduleWithContext, Calls, NoCall
<1>2. home[call[t].id] = call[t].clk
    BY DEF CallsOwnIds, ScheduleWithContext, NoCall
<1>3. clockNode[call[t].clk] \in Node
    BY <1>1, <1>2 DEF TypeOK, Registries
<1>4. queue' \in SUBSET (Node \X EvID)
    BY <1>1, <1>3 DEF TypeOK, ScheduleWithContext
<1>5. call' \in [Thread -> Calls]
    BY DEF TypeOK, ScheduleWithContext, Calls
<1>6. TypeOK'
    BY <1>4, <1>5 DEF TypeOK, ScheduleWithContext, registry
<1>7. CallsOwnIds'
    BY DEF TypeOK, CallsOwnIds, ScheduleWithContext
<1>8. FreshIds' /\ StoredEvents' /\ Registries' /\ Lifecycle' /\ RunsForItsOwner' /\
           RunsAtMostOnce' /\ CanceledIsPending'
    BY DEF FreshIds, StoredEvents, Registries, Lifecycle, RunsForItsOwner,
           RunsAtMostOnce, CanceledIsPending, ScheduleWithContext, bridge,
           registry
<1> QED
    BY <1>6, <1>7, <1>8

LEMMA CancelStep ==
    ASSUME IInv, NEW t \in Thread, NEW c \in Clock, NEW id \in EvID,
           Cancel(t, c, id)
    PROVE  IInv'
<1> USE ConstantsAssumption DEF IInv, EvID, Thread
<1>1. TypeOK'
    BY DEF TypeOK, Cancel, MayUse, Marked, Call, NoCall, Calls, bridge,
           registry
<1>2. CallsOwnIds'
    BY DEF TypeOK, CallsOwnIds, FreshIds, Calls, NoCall, Cancel, MayUse,
           Marked, Call, bridge, registry
<1>3. CanceledIsPending'
    BY DEF TypeOK, CanceledIsPending, Cancel, MayUse, Marked, Call, NoCall,
           Calls, bridge, registry
<1>4. FreshIds' /\ StoredEvents' /\ Registries' /\ Lifecycle' /\ RunsForItsOwner' /\
           RunsAtMostOnce'
    BY DEF FreshIds, StoredEvents, Registries, Lifecycle, RunsForItsOwner,
           RunsAtMostOnce, Cancel, bridge, registry
<1> QED
    BY <1>1, <1>2, <1>3, <1>4

LEMMA CancelUnregisterStep ==
    ASSUME IInv, NEW t \in Thread, CancelUnregister(t)
    PROVE  IInv'
<1> USE ConstantsAssumption DEF IInv, EvID, Thread
<1>1. TypeOK'
    <2>1. call[t] \in [op : {"schedule", "enqueue", "unregister"}, clk : Clock, id : EvID]
        BY DEF TypeOK, CancelUnregister, Calls, NoCall
    <2>2. events' \in [Clock -> SUBSET EvID] /\ cancelled' \in SUBSET EvID
        BY <2>1 DEF TypeOK, CancelUnregister
    <2>3. call' \in [Thread -> Calls]
        BY DEF TypeOK, CancelUnregister, Calls
    <2> QED
        BY <2>2, <2>3 DEF TypeOK, CancelUnregister, bridge, registry
<1>2. FreshIds'
    BY SMTT(30) DEF TypeOK, FreshIds, StoredEvents, CallsOwnIds, Calls, NoCall, Fires,
           CancelUnregister, bridge, registry
<1>3. StoredEvents'
    BY DEF TypeOK, StoredEvents, FreshIds, CallsOwnIds, Calls, NoCall,
           CancelUnregister, bridge, registry
<1>4. CallsOwnIds'
    BY DEF TypeOK, CallsOwnIds, FreshIds, Calls, NoCall, CancelUnregister,
           bridge, registry
<1>5. Registries' /\ Lifecycle' /\ RunsForItsOwner' /\ RunsAtMostOnce' /\
           CanceledIsPending'
    BY DEF Registries, Lifecycle, RunsForItsOwner, RunsAtMostOnce,
           CanceledIsPending, CancelUnregister, bridge, registry
<1> QED
    BY <1>1, <1>2, <1>3, <1>4, <1>5

LEMMA TrampolineReturnsStep ==
    ASSUME IInv, NEW e \in queue, TrampolineReturns(e)
    PROVE  IInv'
<1> USE ConstantsAssumption DEF IInv, EvID, Thread
<1>1. TypeOK'
    BY DEF TypeOK, TrampolineReturns, TakeFromQueue, bridge, registry
<1>2. CanceledIsPending'
    BY DEF TypeOK, CanceledIsPending, TrampolineReturns, TakeFromQueue,
           bridge, registry
<1>3. FreshIds' /\ StoredEvents' /\ CallsOwnIds' /\ Registries' /\ Lifecycle' /\
           RunsForItsOwner' /\ RunsAtMostOnce'
    BY DEF FreshIds, StoredEvents, CallsOwnIds, Registries, Lifecycle,
           RunsForItsOwner, RunsAtMostOnce, TrampolineReturns, TakeFromQueue,
           bridge, registry
<1> QED
    BY <1>1, <1>2, <1>3

LEMMA TrampolineDispatchesStep ==
    ASSUME IInv, NEW e \in queue, TrampolineDispatches(e)
    PROVE  IInv'
<1> USE ConstantsAssumption DEF IInv, EvID, Thread
<1>1. TypeOK'
    BY DEF TypeOK, TrampolineDispatches, TakeFromQueue, NotFiring, Fires,
           bridge, registry
<1>2. Lifecycle'
    BY DEF TypeOK, Lifecycle, Registries, TrampolineDispatches, TakeFromQueue,
           NotFiring, Fires, bridge, registry
<1>3. RunsForItsOwner'
    BY DEF TypeOK, RunsForItsOwner, FreshIds, StoredEvents, Registries, Fires,
           NotFiring, TrampolineDispatches, TakeFromQueue, bridge, registry
<1>4. CanceledIsPending'
    BY DEF TypeOK, CanceledIsPending, TrampolineDispatches, TakeFromQueue,
           NotFiring, Fires, bridge, registry
<1>5. FreshIds' /\ StoredEvents' /\ CallsOwnIds' /\ Registries' /\ RunsAtMostOnce'
    BY DEF FreshIds, StoredEvents, CallsOwnIds, Registries, RunsAtMostOnce,
           TrampolineDispatches, TakeFromQueue, bridge, registry
<1> QED
    BY <1>1, <1>2, <1>3, <1>4, <1>5

LEMMA FireEventRunsStep ==
    ASSUME IInv, FireEventRuns
    PROVE  IInv'
<1> USE ConstantsAssumption DEF IInv, EvID, Thread
<1>1. TypeOK'
    BY DEF TypeOK, Registries, FireEventRuns, Reachable, Fires, NotFiring, bridge,
           registry
<1>2. FreshIds'
    BY DEF TypeOK, FreshIds, StoredEvents, CallsOwnIds, Calls, NoCall, Fires,
           FireEventRuns, Reachable, NotFiring, bridge, registry
<1>3. StoredEvents'
    BY DEF TypeOK, StoredEvents, FreshIds, CallsOwnIds, Calls, NoCall,
           FireEventRuns, Reachable, Fires, NotFiring, bridge, registry
<1>4. Lifecycle'
    BY DEF TypeOK, Lifecycle, Registries, FireEventRuns, Reachable, Fires,
           NotFiring, bridge, registry
<1>5. RunsForItsOwner'
    BY DEF TypeOK, RunsForItsOwner, FreshIds, StoredEvents, Registries, Fires,
           NotFiring, FireEventRuns, Reachable, bridge, registry
<1>6. RunsAtMostOnce'
    BY DEF TypeOK, RunsAtMostOnce, StoredEvents, Registries, FireEventRuns,
           Reachable, Fires, NotFiring, bridge, registry
<1>7. CallsOwnIds' /\ Registries' /\ CanceledIsPending'
    BY DEF CallsOwnIds, Registries, CanceledIsPending, FireEventRuns, bridge,
           registry
<1> QED
    BY <1>1, <1>2, <1>3, <1>4, <1>5, <1>6, <1>7

LEMMA FireEventMissesStep ==
    ASSUME IInv, FireEventMisses
    PROVE  IInv'
<1> USE ConstantsAssumption DEF IInv, EvID, Thread
<1>1. TypeOK'
    BY DEF TypeOK, FireEventMisses, NotFiring, Fires, bridge, registry
<1>2. Lifecycle'
    BY DEF TypeOK, Lifecycle, Registries, FireEventMisses, NotFiring, Fires,
           bridge, registry
<1>3. RunsForItsOwner'
    BY DEF TypeOK, RunsForItsOwner, FreshIds, StoredEvents, Registries, Fires,
           NotFiring, FireEventMisses, bridge, registry
<1>4. FreshIds' /\ StoredEvents' /\ CallsOwnIds' /\ Registries' /\ RunsAtMostOnce' /\
           CanceledIsPending'
    BY DEF FreshIds, StoredEvents, CallsOwnIds, Registries, RunsAtMostOnce,
           CanceledIsPending, FireEventMisses, bridge, registry
<1> QED
    BY <1>1, <1>2, <1>3, <1>4

LEMMA CallbackReturnsStep ==
    ASSUME IInv, CallbackReturns
    PROVE  IInv'
<1> USE ConstantsAssumption DEF IInv, EvID, Thread
<1>1. TypeOK'
    BY DEF TypeOK, CallbackReturns, NotFiring, Fires, bridge, registry
<1>2. Lifecycle'
    BY DEF TypeOK, Lifecycle, Registries, CallbackReturns, NotFiring, Fires,
           bridge, registry
<1>3. RunsForItsOwner'
    BY DEF TypeOK, RunsForItsOwner, FreshIds, StoredEvents, Registries, Fires,
           NotFiring, CallbackReturns, bridge, registry
<1>4. FreshIds' /\ StoredEvents' /\ CallsOwnIds' /\ Registries' /\ RunsAtMostOnce' /\
           CanceledIsPending'
    BY DEF FreshIds, StoredEvents, CallsOwnIds, Registries, RunsAtMostOnce,
           CanceledIsPending, CallbackReturns, bridge, registry
<1> QED
    BY <1>1, <1>2, <1>3, <1>4

LEMMA InitGoBridgeStep ==
    ASSUME IInv, InitGoBridge
    PROVE  IInv'
<1> USE ConstantsAssumption DEF IInv, EvID, Thread
<1>1. TypeOK'
    BY DEF TypeOK, InitGoBridge, SimIdle, NotFiring, bridge, registry
<1>2. Registries'
    BY DEF TypeOK, Registries, FreshIds, CallsOwnIds, Lifecycle, InitGoBridge,
           SimIdle, NotFiring, bridge, registry
<1>3. Lifecycle'
    BY DEF TypeOK, Lifecycle, Registries, InitGoBridge, SimIdle, NotFiring,
           bridge, registry
<1>4. FreshIds' /\ StoredEvents' /\ CallsOwnIds' /\ RunsForItsOwner' /\
           RunsAtMostOnce' /\ CanceledIsPending'
    BY DEF FreshIds, StoredEvents, CallsOwnIds, RunsForItsOwner,
           RunsAtMostOnce, CanceledIsPending, InitGoBridge, bridge, registry
<1> QED
    BY <1>1, <1>2, <1>3, <1>4

LEMMA CreateNodeStep ==
    ASSUME IInv, NEW n \in Node, NEW c \in Clock, CreateNode(n, c)
    PROVE  IInv'
<1> USE ConstantsAssumption DEF IInv, EvID, Thread
<1>1. TypeOK'
    BY DEF TypeOK, CreateNode, NewClock, NewEventID, SimIdle, NotFiring,
           bridge, registry
<1>2. FreshIds'
    BY DEF TypeOK, FreshIds, StoredEvents, CallsOwnIds, Calls, NoCall, Fires,
           CreateNode, NewClock, NewEventID, SimIdle, NotFiring, bridge,
           registry
<1>3. StoredEvents'
    BY DEF TypeOK, StoredEvents, FreshIds, CallsOwnIds, Calls, NoCall,
           CreateNode, NewClock, NewEventID, SimIdle, NotFiring, bridge,
           registry
<1>4. CallsOwnIds'
    BY DEF TypeOK, CallsOwnIds, FreshIds, Calls, NoCall, CreateNode, NewClock,
           NewEventID, SimIdle, NotFiring, bridge, registry
<1>5. Registries'
    BY DEF TypeOK, Registries, FreshIds, CallsOwnIds, Lifecycle, CreateNode,
           NewClock, NewEventID, SimIdle, NotFiring, bridge, registry
<1>6. Lifecycle'
    BY DEF TypeOK, Lifecycle, Registries, CreateNode, NewClock, NewEventID,
           SimIdle, NotFiring, bridge, registry
<1>7. RunsForItsOwner'
    BY DEF TypeOK, RunsForItsOwner, FreshIds, StoredEvents, Registries, Fires,
           NotFiring, CreateNode, NewClock, NewEventID, SimIdle, bridge,
           registry
<1>8. CanceledIsPending'
    BY DEF TypeOK, CanceledIsPending, CreateNode, NewClock, NewEventID,
           SimIdle, NotFiring, bridge, registry
<1>9. RunsAtMostOnce'
    BY DEF RunsAtMostOnce, CreateNode, NewClock, bridge, registry
<1> QED
    BY <1>1, <1>2, <1>3, <1>4, <1>5, <1>6, <1>7, <1>8, <1>9

LEMMA CreateNodeFailsStep ==
    ASSUME IInv, NEW n \in Node, NEW c \in Clock,
           CreateNodeFails(n, c)
    PROVE  IInv'
<1> USE ConstantsAssumption DEF IInv, EvID, Thread
<1>1. TypeOK'
    BY DEF TypeOK, CreateNodeFails, NewClock, NewEventID, SimIdle, NotFiring,
           bridge, registry
<1>2. FreshIds'
    BY DEF TypeOK, FreshIds, StoredEvents, CallsOwnIds, Calls, NoCall, Fires,
           CreateNodeFails, NewClock, NewEventID, SimIdle, NotFiring, bridge,
           registry
<1>3. StoredEvents'
    BY DEF TypeOK, StoredEvents, FreshIds, CallsOwnIds, Calls, NoCall,
           CreateNodeFails, NewClock, NewEventID, SimIdle, NotFiring, bridge,
           registry
<1>4. CallsOwnIds'
    BY DEF TypeOK, CallsOwnIds, FreshIds, Calls, NoCall, CreateNodeFails,
           NewClock, NewEventID, SimIdle, NotFiring, bridge, registry
<1>5. Registries'
    BY DEF TypeOK, Registries, FreshIds, CallsOwnIds, Lifecycle,
           CreateNodeFails, NewClock, NewEventID, SimIdle, NotFiring, bridge,
           registry
<1>6. RunsForItsOwner'
    BY DEF TypeOK, RunsForItsOwner, FreshIds, StoredEvents, Registries, Fires,
           NotFiring, CreateNodeFails, NewClock, NewEventID, SimIdle, bridge,
           registry
<1>7. CanceledIsPending'
    BY DEF TypeOK, CanceledIsPending, CreateNodeFails, NewClock, NewEventID,
           SimIdle, NotFiring, bridge, registry
<1>8. Lifecycle' /\ RunsAtMostOnce'
    BY DEF Lifecycle, RunsAtMostOnce, CreateNodeFails, NewClock, bridge,
           registry
<1> QED
    BY <1>1, <1>2, <1>3, <1>4, <1>5, <1>6, <1>7, <1>8

LEMMA NdndSimDestroyNodeStep ==
    ASSUME IInv, NEW n \in Node, NdndSimDestroyNode(n)
    PROVE  IInv'
<1> USE ConstantsAssumption DEF IInv, EvID, Thread
<1>1. TypeOK'
    BY DEF TypeOK, NdndSimDestroyNode, StopHandles, Marked, bridge, registry
<1>2. FreshIds'
    BY DEF TypeOK, FreshIds, StoredEvents, CallsOwnIds, Calls, NoCall, Fires,
           NdndSimDestroyNode, StopHandles, Marked, bridge, registry
<1>3. StoredEvents'
    BY DEF TypeOK, StoredEvents, FreshIds, CallsOwnIds, Calls, NoCall,
           NdndSimDestroyNode, StopHandles, Marked, bridge, registry
<1>4. Registries'
    BY DEF TypeOK, Registries, FreshIds, CallsOwnIds, Lifecycle,
           NdndSimDestroyNode, StopHandles, Marked, bridge, registry
<1>5. Lifecycle'
    BY DEF TypeOK, Lifecycle, Registries, NdndSimDestroyNode, StopHandles,
           Marked, bridge, registry
<1>6. CanceledIsPending'
    BY DEF TypeOK, CanceledIsPending, NdndSimDestroyNode, StopHandles, Marked,
           bridge, registry
<1>7. CallsOwnIds' /\ RunsForItsOwner' /\ RunsAtMostOnce'
    BY DEF CallsOwnIds, RunsForItsOwner, RunsAtMostOnce, NdndSimDestroyNode,
           bridge, registry
<1> QED
    BY <1>1, <1>2, <1>3, <1>4, <1>5, <1>6, <1>7

LEMMA DeactivateBridgeStep ==
    ASSUME IInv, DeactivateBridge
    PROVE  IInv'
<1> USE ConstantsAssumption DEF IInv, EvID, Thread
<1>1. TypeOK'
    BY DEF TypeOK, DeactivateBridge, SimIdle, NotFiring, Fires, bridge,
           registry
<1>2. Lifecycle'
    BY DEF TypeOK, Lifecycle, Registries, DeactivateBridge, SimIdle,
           NotFiring, Fires, bridge, registry
<1>3. RunsForItsOwner'
    BY DEF TypeOK, RunsForItsOwner, FreshIds, StoredEvents, Registries, Fires,
           NotFiring, DeactivateBridge, SimIdle, bridge, registry
<1>4. FreshIds' /\ StoredEvents' /\ CallsOwnIds' /\ Registries' /\ RunsAtMostOnce' /\
           CanceledIsPending'
    BY DEF FreshIds, StoredEvents, CallsOwnIds, Registries, RunsAtMostOnce,
           CanceledIsPending, DeactivateBridge, bridge, registry
<1> QED
    BY <1>1, <1>2, <1>3, <1>4

LEMMA NdndSimDestroyStep ==
    ASSUME IInv, NdndSimDestroy
    PROVE  IInv'
<1> USE ConstantsAssumption DEF IInv
<1>1. PICK S \in SUBSET UNION {StopHandles(nodes[n]) : n \in {m \in Node : nodes[m] # None}} :
          /\ events' = [c \in Clock |-> IF Live(c) THEN events[c] \ S ELSE events[c]]
          /\ cancelled' = cancelled \cup S
    BY DEF NdndSimDestroy
<1>2. \A id \in S : id \in EvID /\ home[id] # None /\ Live(home[id])
    BY <1>1 DEF StopHandles, Returned, Live
<1>3. events' \in [Clock -> SUBSET EvID] /\ cancelled' \in SUBSET EvID
    BY <1>1, <1>2 DEF TypeOK
<1>4. nodes' = [n \in Node |-> None] /\ globalClocks' = [n \in Node |-> None]
    BY DEF NdndSimDestroy
<1>5. fire' \in Fires
    BY DEF NdndSimDestroy, Fires
<1>6. TypeOK'
    BY <1>3, <1>4, <1>5 DEF TypeOK, NdndSimDestroy, bridge
<1>7. FreshIds'
    BY <1>1, <1>2 DEF FreshIds, NdndSimDestroy
<1>8. StoredEvents'
    <2> SUFFICES ASSUME NEW c \in Clock, NEW id \in events'[c]
                 PROVE  home[id] = c /\ runs[id] = 0 /\ id \notin cancelled'
        BY DEF StoredEvents, NdndSimDestroy
    <2>1. id \in events[c] /\ (Live(c) => id \notin S)
        BY <1>1
    <2>2. home[id] = c /\ runs[id] = 0 /\ id \notin cancelled
        BY <2>1 DEF StoredEvents
    <2> QED
        BY <1>1, <1>2, <2>1, <2>2
<1>9. Registries'
    BY <1>4 DEF TypeOK, Registries, NdndSimDestroy
<1>10. Lifecycle' /\ RunsForItsOwner'
    BY <1>4 DEF TypeOK, Lifecycle, RunsForItsOwner, NdndSimDestroy, NotFiring,
                bridge
<1>11. CallsOwnIds' /\ RunsAtMostOnce' /\ CanceledIsPending'
    BY DEF CallsOwnIds, RunsAtMostOnce, CanceledIsPending, NdndSimDestroy,
           bridge
<1> QED
    BY <1>6, <1>7, <1>8, <1>9, <1>10, <1>11

LEMMA ClearBridgeStep ==
    ASSUME IInv, ClearBridge
    PROVE  IInv'
<1> USE ConstantsAssumption DEF IInv, EvID, Thread
<1>1. TypeOK'
    BY DEF TypeOK, ClearBridge, Fires, NotFiring, bridge, registry
<1>2. Lifecycle'
    BY DEF TypeOK, Lifecycle, Registries, ClearBridge, Fires, NotFiring,
           bridge, registry
<1>3. RunsForItsOwner'
    BY DEF TypeOK, RunsForItsOwner, FreshIds, StoredEvents, Registries, Fires,
           NotFiring, ClearBridge, bridge, registry
<1>4. CanceledIsPending'
    BY DEF TypeOK, CanceledIsPending, ClearBridge, Fires, NotFiring, bridge,
           registry
<1>5. FreshIds' /\ StoredEvents' /\ CallsOwnIds' /\ Registries' /\ RunsAtMostOnce'
    BY DEF FreshIds, StoredEvents, CallsOwnIds, Registries, RunsAtMostOnce,
           ClearBridge, bridge, registry
<1> QED
    BY <1>1, <1>2, <1>3, <1>4, <1>5

LEMMA SimulatorDestroyStep ==
    ASSUME IInv, SimulatorDestroy
    PROVE  IInv'
<1> USE ConstantsAssumption DEF IInv, EvID, Thread
<1>1. TypeOK'
    BY DEF TypeOK, SimulatorDestroy, bridge, registry
<1>2. FreshIds' /\ StoredEvents' /\ CallsOwnIds' /\ Registries' /\ Lifecycle' /\
           RunsForItsOwner' /\ RunsAtMostOnce' /\ CanceledIsPending'
    BY DEF FreshIds, StoredEvents, CallsOwnIds, Registries, Lifecycle,
           RunsForItsOwner, RunsAtMostOnce, CanceledIsPending,
           SimulatorDestroy, bridge, registry
<1> QED
    BY <1>1, <1>2
-----------------------------------------------------------------------------
LEMMA InitInvariant == Init => IInv
<1> SUFFICES ASSUME Init
             PROVE  IInv
    OBVIOUS
<1> USE ConstantsAssumption
<1>1. TypeOK
    <2>1. call \in [Thread -> Calls] /\ fire \in Fires
        BY DEF Init, Calls, Fires
    <2>2. globalNextEvID \in 0..MaxEvents /\ runs \in [EvID -> Nat]
        BY DEF Init
    <2> QED
        BY <2>1, <2>2 DEF Init, TypeOK
<1>2. FreshIds /\ StoredEvents /\ CallsOwnIds
    BY DEF Init, FreshIds, StoredEvents, CallsOwnIds
<1>3. Registries /\ Lifecycle /\ RunsForItsOwner
    BY DEF Init, Registries, Lifecycle, RunsForItsOwner, NotFiring
<1>4. RunsAtMostOnce /\ CanceledIsPending
    BY DEF Init, RunsAtMostOnce, CanceledIsPending
<1> QED
    BY <1>1, <1>2, <1>3, <1>4 DEF IInv

LEMMA StutterStep == IInv /\ UNCHANGED vars => IInv'
BY DEF IInv, TypeOK, FreshIds, StoredEvents, CallsOwnIds, Registries, Lifecycle,
       RunsForItsOwner, RunsAtMostOnce, CanceledIsPending, vars, bridge, registry

LEMMA NextInvariant == IInv /\ [Next]_vars => IInv'
<1> SUFFICES ASSUME IInv, [Next]_vars
             PROVE  IInv'
    OBVIOUS
<1>1. CASE \E t \in Thread, c \in Clock : Schedule(t, c)
    BY <1>1, ScheduleStep
<1>2. CASE \E t \in Thread, c \in Clock, id \in EvID : Cancel(t, c, id)
    BY <1>2, CancelStep
<1>3. CASE \E t \in Thread : ThreadStep(t)
    BY <1>3, OnScheduleEventStep, ScheduleWithContextStep, CancelUnregisterStep
       DEF ThreadStep
<1>4. CASE FireStep
    BY <1>4, TrampolineReturnsStep, TrampolineDispatchesStep, FireEventRunsStep,
       FireEventMissesStep, CallbackReturnsStep DEF FireStep
<1>5. CASE LifeCycle
    BY <1>5, InitGoBridgeStep, CreateNodeStep, CreateNodeFailsStep,
       NdndSimDestroyNodeStep, DeactivateBridgeStep, NdndSimDestroyStep,
       ClearBridgeStep, SimulatorDestroyStep DEF LifeCycle
<1>6. CASE UNCHANGED vars
    BY <1>6, StutterStep
<1> QED
    BY <1>1, <1>2, <1>3, <1>4, <1>5, <1>6 DEF Next

\* IInv is inductive, hence an invariant.
LEMMA Invariance == Spec => []IInv
BY InitInvariant, NextInvariant, PTL DEF Spec

\* The variables of the bridge and of the clocks keep their types, and a
\* running callback always has a clock and a bound node (ndndsim-go-bridge.cc
\* and cgo_export.go).
THEOREM TypeCorrect == Spec => []TypeOK
<1>1. IInv => TypeOK
    BY DEF IInv
<1> QED
    BY <1>1, Invariance, PTL

\* Every callback runs on the clock that scheduled it, with the hooks of that
\* clock's node, across the destruction and re-creation of nodes
\* (NdndSimFireEvent, globalNextEvID).
THEOREM OwnerSafety == Spec => []RunsForItsOwner
<1>1. IInv => RunsForItsOwner
    BY DEF IInv
<1> QED
    BY <1>1, Invariance, PTL

\* No callback starts twice (Ns3Clock.FireEvent).
THEOREM AtMostOnce == Spec => []RunsAtMostOnce
<1>1. IInv => RunsAtMostOnce
    BY DEF IInv
<1> QED
    BY <1>1, Invariance, PTL

\* The cancelled set of the bridge never outgrows its pending set
\* (OnCancelEvent, FireEventTrampoline).
THEOREM CanceledPending == Spec => []CanceledIsPending
<1>1. IInv => CanceledIsPending
    BY DEF IInv
<1> QED
    BY <1>1, Invariance, PTL

\* Only FireEventRuns starts a callback, and only one that is still stored.
LEMMA CancelledNeverStarts ==
    ASSUME IInv, [Next]_vars, NEW id \in cancelled
    PROVE  runs'[id] = runs[id]
<1>1. CASE FireEventRuns
    <2>1. globalClocks[fire.node] \in Clock /\ fire.id \in events[globalClocks[fire.node]]
        BY <1>1 DEF IInv, TypeOK, FireEventRuns, Reachable, Fires, NotFiring
    <2>2. fire.id \notin cancelled
        BY <2>1 DEF IInv, StoredEvents
    <2> QED
        BY <1>1, <2>2 DEF IInv, TypeOK, FireEventRuns
<1>2. CASE ~FireEventRuns
    BY <1>2 DEF Next, ThreadStep, FireStep, LifeCycle, Schedule, OnScheduleEvent,
       ScheduleWithContext, Cancel, CancelUnregister, TrampolineReturns,
       TrampolineDispatches, TakeFromQueue, FireEventMisses, CallbackReturns,
       InitGoBridge, CreateNode, CreateNodeFails, NewClock, NdndSimDestroyNode,
       DeactivateBridge, NdndSimDestroy, ClearBridge, SimulatorDestroy, vars
<1> QED
    BY <1>1, <1>2

\* Once a Cancel has returned, the event never starts, whatever the bridge
\* knew of it at that moment (Ns3Clock.Cancel).
CancelIsFinal ==
    [][\A id \in cancelled : runs'[id] = runs[id]]_vars

\* Once Ns3Clock.Cancel has returned the event never starts, whatever the
\* bridge and ns-3 still hold of it.
THEOREM CancelFinal == Spec => CancelIsFinal
<1>1. IInv /\ [Next]_vars => [\A id \in cancelled : runs'[id] = runs[id]]_vars
    BY CancelledNeverStarts
<1> QED
    BY <1>1, Invariance, PTL DEF Spec, CancelIsFinal
-----------------------------------------------------------------------------
(***************************************************************************)
(* No callback is orphaned.                                                *)
(***************************************************************************)
\* An event is in the ns-3 queue of the node of the clock that drew its id.
QueuedAtHome ==
    /\ \A e \in queue : home[e[2]] # None /\ clockNode[home[e[2]]] = e[1]
    /\ fire.pc = "dispatch" =>
          home[fire.id] # None /\ clockNode[home[fire.id]] = fire.node

\* A call that has drawn an id and not yet given the event to ns-3.
Scheduling(t) == call[t].op \in {"schedule", "enqueue"}

\* While it is on its way nobody else has the id, and ns-3 does not know it.
OneScheduler ==
    \A t \in Thread : Scheduling(t) =>
        /\ \A u \in Thread : call[u].id = call[t].id => u = t
        /\ \A e \in queue : e[2] # call[t].id
        /\ fire.pc = "dispatch" => fire.id # call[t].id

\* What is about to be handed to ns-3 is known to the bridge, and not cancelled.
EnqueuedIsPending ==
    \A t \in Thread : g_bridgeActive /\ call[t].op = "enqueue" /\ Live(call[t].clk) =>
        call[t].id \in g_pendingEvents \ g_canceledEvents

Backing == QueuedAtHome /\ OneScheduler /\ EnqueuedIsPending /\ LiveEventsBacked

LEMMA CallOf ==
    ASSUME IInv, NEW t \in Thread, call[t].op # "none"
    PROVE  /\ call[t].id \in EvID /\ call[t].clk \in Clock
           /\ home[call[t].id] = call[t].clk
BY DEF IInv, TypeOK, Calls, NoCall, CallsOwnIds

\* The id that is drawn next occurs nowhere.
LEMMA FreshUnused ==
    ASSUME IInv, QueuedAtHome, globalNextEvID < MaxEvents
    PROVE  /\ \A u \in Thread : call[u].id # globalNextEvID + 1
           /\ \A e \in queue : e[2] # globalNextEvID + 1
           /\ fire.pc = "dispatch" => fire.id # globalNextEvID + 1
<1>1. globalNextEvID + 1 \in EvID /\ globalNextEvID \in Nat
  BY ConstantsAssumption DEF IInv, TypeOK, EvID
<1>2. home[globalNextEvID + 1] = None
  BY <1>1 DEF IInv, FreshIds
<1>3. \A u \in Thread : call[u].id # globalNextEvID + 1
  <2> SUFFICES ASSUME NEW u \in Thread PROVE call[u].id # globalNextEvID + 1
    OBVIOUS
  <2>1. CASE call[u].op = "none"
    BY <1>1, <2>1 DEF IInv, TypeOK, Calls, NoCall
  <2>2. CASE call[u].op # "none"
    BY <1>2, <2>2, CallOf, ConstantsAssumption
  <2> QED  BY <2>1, <2>2
<1> QED  BY <1>2, <1>3 DEF QueuedAtHome

LEMMA ScheduleBacks ==
    ASSUME IInv, Backing, NEW t \in Thread, NEW c \in Clock, Schedule(t, c)
    PROVE  Backing'
<1> USE ConstantsAssumption DEF IInv, Backing, Thread, EvID
<1>1. QueuedAtHome'
  BY DEF QueuedAtHome, TypeOK, FreshIds, Schedule, NewEventID, bridge,
     registry
<1>2. OneScheduler'
  <2>1. /\ call' = [call EXCEPT ![t] = Call("schedule", c, globalNextEvID + 1)]
        /\ call'[t].id = globalNextEvID + 1
        /\ \A u \in Thread \ {t} : call'[u] = call[u]
        /\ UNCHANGED <<queue, fire>>
    BY DEF Schedule, NewEventID, Call, TypeOK, bridge
  <2>2. /\ \A u \in Thread : call[u].id # globalNextEvID + 1
        /\ \A e \in queue : e[2] # globalNextEvID + 1
        /\ fire.pc = "dispatch" => fire.id # globalNextEvID + 1
    BY FreshUnused DEF Schedule
  <2> QED  BY <2>1, <2>2 DEF OneScheduler, Scheduling
<1>3. EnqueuedIsPending'
  BY DEF EnqueuedIsPending, Live, Schedule, Call, bridge, registry
<1>4. LiveEventsBacked'
  <2> SUFFICES ASSUME g_bridgeActive', NEW m \in Node, globalClocks'[m] # None,
                      NEW i \in events'[globalClocks'[m]]
               PROVE  \/ <<m, i>> \in queue' /\ i \in g_pendingEvents'
                                             /\ i \notin g_canceledEvents'
                      \/ fire'.pc = "dispatch" /\ fire'.id = i
                      \/ \E u \in Thread : call'[u].id = i
    BY DEF LiveEventsBacked
  <2>1. /\ call'[t].id = globalNextEvID + 1 /\ call[t] = NoCall
        /\ \A u \in Thread \ {t} : call'[u] = call[u]
        /\ events' = [events EXCEPT ![c] = @ \cup {globalNextEvID + 1}]
        /\ UNCHANGED <<bridge, globalClocks, fire>>
    BY DEF Schedule, MayUse, NewEventID, Call, TypeOK, registry
  <2>2. CASE i = globalNextEvID + 1
    BY <2>1, <2>2
  <2>3. CASE i # globalNextEvID + 1
    <3>1. i \in events[globalClocks[m]] /\ i \in EvID
      BY <2>1, <2>3 DEF TypeOK
    <3>2. call[t].id # i
      BY <2>1, <3>1 DEF NoCall
    <3> QED  BY <2>1, <3>1, <3>2 DEF LiveEventsBacked, bridge
  <2> QED  BY <2>2, <2>3
<1> QED  BY <1>1, <1>2, <1>3, <1>4

LEMMA OnScheduleEventBacks ==
    ASSUME IInv, Backing, NEW t \in Thread, OnScheduleEvent(t)
    PROVE  Backing'
<1> USE ConstantsAssumption DEF IInv, Backing, Thread, EvID
<1>1. QueuedAtHome'
  BY DEF QueuedAtHome, OnScheduleEvent, registry
<1>2. OneScheduler'
  <2>1. /\ call[t].id \in EvID /\ Scheduling(t)
        /\ call'[t] = NoCall \/ call'[t].id = call[t].id
        /\ \A u \in Thread \ {t} : call'[u] = call[u]
        /\ UNCHANGED <<queue, fire>>
    BY CallOf DEF OnScheduleEvent, Scheduling, Call, TypeOK
  <2>2. \A u \in Thread : Scheduling(u)' => Scheduling(u) /\ call'[u].id = call[u].id
    BY <2>1 DEF Scheduling, NoCall
  <2>3. \A u \in Thread : Scheduling(u) => call[u].id \in EvID
    BY CallOf DEF Scheduling
  <2>4. \A u \in Thread : call'[u].id = call[u].id \/ call'[u].id = 0
    BY <2>1 DEF NoCall
  <2> QED  BY <2>1, <2>2, <2>3, <2>4 DEF OneScheduler
<1>3. EnqueuedIsPending'
  <2> SUFFICES ASSUME NEW u \in Thread, g_bridgeActive', call'[u].op = "enqueue",
                      \E k \in Node : nodes'[k] = call'[u].clk
               PROVE  call'[u].id \in g_pendingEvents' \ g_canceledEvents'
    BY DEF EnqueuedIsPending, Live
  <2>1. /\ g_bridgeActive /\ nodes' = nodes
        /\ \A v \in Thread \ {t} : call'[v] = call[v]
        /\ call'[t].id = call[t].id
        /\ g_pendingEvents' = g_pendingEvents \cup {call[t].id}
        /\ g_canceledEvents' = g_canceledEvents \ {call[t].id}
    BY DEF OnScheduleEvent, Call, TypeOK, registry
  <2>2. CASE u = t
    BY <2>1, <2>2
  <2>3. CASE u # t
    <3>1. call'[u] = call[u] /\ Live(call[u].clk)
      BY <2>1, <2>3 DEF Live
    <3>2. call[u].id \in g_pendingEvents \ g_canceledEvents
      BY <2>1, <3>1 DEF EnqueuedIsPending
    <3> QED  BY <2>1, <3>1, <3>2
  <2> QED  BY <2>2, <2>3
<1>4. LiveEventsBacked'
  <2> SUFFICES ASSUME g_bridgeActive', NEW m \in Node, globalClocks'[m] # None,
                      NEW i \in events'[globalClocks'[m]]
               PROVE  \/ <<m, i>> \in queue' /\ i \in g_pendingEvents'
                                             /\ i \notin g_canceledEvents'
                      \/ fire'.pc = "dispatch" /\ fire'.id = i
                      \/ \E u \in Thread : call'[u].id = i
    BY DEF LiveEventsBacked
  <2>1. /\ g_bridgeActive /\ call'[t].id = call[t].id
        /\ \A u \in Thread \ {t} : call'[u] = call[u]
        /\ g_pendingEvents \subseteq g_pendingEvents'
        /\ g_canceledEvents' \subseteq g_canceledEvents
        /\ UNCHANGED <<queue, events, globalClocks, fire>>
    BY DEF OnScheduleEvent, Call, TypeOK, registry
  <2> QED  BY <2>1 DEF LiveEventsBacked
<1> QED  BY <1>1, <1>2, <1>3, <1>4

LEMMA ScheduleWithContextBacks ==
    ASSUME IInv, Backing, NEW t \in Thread, ScheduleWithContext(t)
    PROVE  Backing'
<1> USE ConstantsAssumption DEF IInv, Backing, Thread, EvID
<1>1. QueuedAtHome'
  BY SMTT(30) DEF QueuedAtHome, TypeOK, Calls, NoCall, CallsOwnIds,
     ScheduleWithContext, registry
<1>2. OneScheduler'
  <2>1. /\ call[t].id \in EvID /\ Scheduling(t)
        /\ call'[t] = NoCall
        /\ \A u \in Thread \ {t} : call'[u] = call[u]
        /\ queue' = queue \cup {<<clockNode[call[t].clk], call[t].id>>}
        /\ UNCHANGED fire
    BY CallOf DEF ScheduleWithContext, Scheduling, TypeOK
  <2>2. \A u \in Thread : Scheduling(u)' => u # t /\ Scheduling(u) /\ call[u].id \in EvID
    BY <2>1, CallOf DEF Scheduling, NoCall
  <2>3. \A u \in Thread \ {t} : Scheduling(u) => call[u].id # call[t].id
    BY <2>1 DEF OneScheduler
  <2>4. call'[t].id = 0
    BY <2>1 DEF NoCall
  <2> QED  BY <2>1, <2>2, <2>3, <2>4 DEF OneScheduler
<1>3. EnqueuedIsPending'
  BY DEF EnqueuedIsPending, Live, NoCall, ScheduleWithContext, registry
<1>4. LiveEventsBacked'
  BY DEF LiveEventsBacked, EnqueuedIsPending, Live, StoredEvents, TypeOK,
     CallsOwnIds, Registries, Lifecycle, ScheduleWithContext, registry
<1> QED  BY <1>1, <1>2, <1>3, <1>4

LEMMA CancelBacks ==
    ASSUME IInv, Backing, NEW t \in Thread, NEW c \in Clock, NEW id \in EvID, Cancel(t, c, id)
    PROVE  Backing'
<1> USE ConstantsAssumption DEF IInv, Backing, Thread, EvID
<1>1. QueuedAtHome'
  BY DEF QueuedAtHome, Cancel, registry
<1>2. OneScheduler'
  BY DEF OneScheduler, Scheduling, Cancel, Returned, Call
<1>3. EnqueuedIsPending'
  BY DEF EnqueuedIsPending, Live, Cancel, Returned, Marked, Call, registry
<1>4. LiveEventsBacked'
  BY DEF LiveEventsBacked, TypeOK, NoCall, Cancel, MayUse, Marked, Call,
     registry
<1> QED  BY <1>1, <1>2, <1>3, <1>4

LEMMA CancelUnregisterBacks ==
    ASSUME IInv, Backing, NEW t \in Thread, CancelUnregister(t)
    PROVE  Backing'
<1> USE ConstantsAssumption DEF IInv, Backing, Thread, EvID
<1>1. QueuedAtHome'
  BY DEF QueuedAtHome, CancelUnregister, bridge, registry
<1>2. OneScheduler'
  BY DEF OneScheduler, Scheduling, QueuedAtHome, TypeOK, Calls, NoCall, Fires,
     CancelUnregister, bridge
<1>3. EnqueuedIsPending'
  BY DEF EnqueuedIsPending, Live, NoCall, CancelUnregister, bridge, registry
<1>4. LiveEventsBacked'
  <2> SUFFICES ASSUME g_bridgeActive', NEW m \in Node, globalClocks'[m] # None,
                      NEW i \in events'[globalClocks'[m]]
               PROVE  \/ <<m, i>> \in queue' /\ i \in g_pendingEvents'
                                             /\ i \notin g_canceledEvents'
                      \/ fire'.pc = "dispatch" /\ fire'.id = i
                      \/ \E u \in Thread : call'[u].id = i
    BY DEF LiveEventsBacked
  <2>1. /\ call[t].id \in EvID /\ call[t].clk \in Clock /\ home[call[t].id] = call[t].clk
        /\ \A u \in Thread \ {t} : call'[u] = call[u]
        /\ events' = [events EXCEPT ![call[t].clk] = @ \ {call[t].id}]
        /\ UNCHANGED <<bridge, globalClocks, fire>>
    BY CallOf DEF CancelUnregister, TypeOK, registry
  <2>2. globalClocks[m] \in Clock /\ i \in events[globalClocks[m]]
    BY <2>1 DEF TypeOK
  <2>3. i # call[t].id
    BY <2>1, <2>2 DEF TypeOK, StoredEvents
  <2> QED  BY <2>1, <2>2, <2>3 DEF LiveEventsBacked, bridge
<1> QED  BY <1>1, <1>2, <1>3, <1>4

LEMMA TrampolineReturnsBacks ==
    ASSUME IInv, Backing, NEW e \in queue, TrampolineReturns(e)
    PROVE  Backing'
<1> USE ConstantsAssumption DEF IInv, Backing, Thread, EvID
<1>1. QueuedAtHome'
  BY DEF QueuedAtHome, TrampolineReturns, TakeFromQueue, registry
<1>2. OneScheduler'
  BY DEF OneScheduler, Scheduling, TrampolineReturns, TakeFromQueue
<1>3. EnqueuedIsPending'
  BY DEF EnqueuedIsPending, Live, TrampolineReturns, TakeFromQueue, registry
<1>4. LiveEventsBacked'
  <2> SUFFICES ASSUME g_bridgeActive', NEW m \in Node, globalClocks'[m] # None,
                      NEW i \in events'[globalClocks'[m]]
               PROVE  \/ <<m, i>> \in queue' /\ i \in g_pendingEvents'
                                             /\ i \notin g_canceledEvents'
                      \/ fire'.pc = "dispatch" /\ fire'.id = i
                      \/ \E u \in Thread : call'[u].id = i
    BY DEF LiveEventsBacked
  <2>1. /\ g_bridgeActive /\ e[2] \in g_canceledEvents /\ fire.pc = "idle"
        /\ queue' = queue \ {e} /\ g_pendingEvents' = g_pendingEvents \ {e[2]}
        /\ g_canceledEvents' = g_canceledEvents \ {e[2]}
        /\ UNCHANGED <<events, globalClocks, fire, call>>
    BY DEF TrampolineReturns, TakeFromQueue, SimIdle, NotFiring, registry
  <2>2. CASE \E u \in Thread : call[u].id = i
    BY <2>1, <2>2
  <2>3. CASE <<m, i>> \in queue /\ i \in g_pendingEvents /\ i \notin g_canceledEvents
    BY <2>1, <2>3
  <2> QED  BY <2>1, <2>2, <2>3 DEF LiveEventsBacked
<1> QED  BY <1>1, <1>2, <1>3, <1>4

LEMMA TrampolineDispatchesBacks ==
    ASSUME IInv, Backing, NEW e \in queue, TrampolineDispatches(e)
    PROVE  Backing'
<1> USE ConstantsAssumption DEF IInv, Backing, Thread, EvID
<1>1. QueuedAtHome'
  BY DEF QueuedAtHome, TrampolineDispatches, TakeFromQueue, registry
<1>2. OneScheduler'
  BY DEF OneScheduler, Scheduling, TrampolineDispatches, TakeFromQueue
<1>3. EnqueuedIsPending'
  BY DEF EnqueuedIsPending, OneScheduler, Scheduling, Live,
     TrampolineDispatches, TakeFromQueue, registry
<1>4. LiveEventsBacked'
  BY DEF LiveEventsBacked, NotFiring, TrampolineDispatches, TakeFromQueue,
     SimIdle, registry
<1> QED  BY <1>1, <1>2, <1>3, <1>4

LEMMA FireEventRunsBacks ==
    ASSUME IInv, Backing, FireEventRuns
    PROVE  Backing'
<1> USE ConstantsAssumption DEF IInv, Backing, Thread, EvID
<1>1. QueuedAtHome'
  BY DEF QueuedAtHome, FireEventRuns, bridge, registry
<1>2. OneScheduler'
  BY DEF OneScheduler, Scheduling, FireEventRuns, bridge
<1>3. EnqueuedIsPending'
  BY DEF EnqueuedIsPending, Live, FireEventRuns, bridge, registry
<1>4. LiveEventsBacked'
  BY DEF LiveEventsBacked, QueuedAtHome, StoredEvents, TypeOK, Calls, NoCall,
     Registries, FireEventRuns, bridge, registry
<1> QED  BY <1>1, <1>2, <1>3, <1>4

LEMMA FireEventMissesBacks ==
    ASSUME IInv, Backing, FireEventMisses
    PROVE  Backing'
<1> USE ConstantsAssumption DEF IInv, Backing, Thread, EvID
<1>1. QueuedAtHome'
  BY DEF QueuedAtHome, NotFiring, FireEventMisses, bridge, registry
<1>2. OneScheduler'
  BY DEF OneScheduler, Scheduling, NotFiring, FireEventMisses, bridge
<1>3. EnqueuedIsPending'
  BY DEF EnqueuedIsPending, Live, FireEventMisses, bridge, registry
<1>4. LiveEventsBacked'
  BY DEF LiveEventsBacked, QueuedAtHome, StoredEvents, TypeOK, Registries,
     Lifecycle, FireEventMisses, Reachable, bridge, registry
<1> QED  BY <1>1, <1>2, <1>3, <1>4

LEMMA CallbackReturnsBacks ==
    ASSUME IInv, Backing, CallbackReturns
    PROVE  Backing'
<1> USE ConstantsAssumption DEF IInv, Backing, Thread, EvID
<1>1. QueuedAtHome'
  BY DEF QueuedAtHome, NotFiring, CallbackReturns, bridge, registry
<1>2. OneScheduler'
  BY DEF OneScheduler, Scheduling, NotFiring, CallbackReturns, bridge
<1>3. EnqueuedIsPending'
  BY DEF EnqueuedIsPending, Live, CallbackReturns, bridge, registry
<1>4. LiveEventsBacked'
  BY DEF LiveEventsBacked, CallbackReturns, bridge, registry
<1> QED  BY <1>1, <1>2, <1>3, <1>4

LEMMA InitGoBridgeBacks ==
    ASSUME IInv, Backing, InitGoBridge
    PROVE  Backing'
<1> USE ConstantsAssumption DEF IInv, Backing, Thread, EvID
<1>1. QueuedAtHome'
  BY DEF QueuedAtHome, InitGoBridge
<1>2. OneScheduler'
  BY DEF OneScheduler, Scheduling, InitGoBridge
<1>3. EnqueuedIsPending'
  BY DEF EnqueuedIsPending, Live, TypeOK, Calls, NoCall, InitGoBridge
<1>4. LiveEventsBacked'
  BY DEF LiveEventsBacked, NotFiring, Registries, Lifecycle, InitGoBridge,
     SimIdle
<1> QED  BY <1>1, <1>2, <1>3, <1>4

LEMMA CreateNodeBacks ==
    ASSUME IInv, Backing, NEW n \in Node, NEW c \in Clock, CreateNode(n, c)
    PROVE  Backing'
<1> USE ConstantsAssumption DEF IInv, Backing, Thread, EvID
<1>1. QueuedAtHome'
  BY DEF QueuedAtHome, TypeOK, NotFiring, FreshIds, CreateNode, NewClock,
     NewEventID, SimIdle
<1>2. OneScheduler'
  <2>1. /\ UNCHANGED <<call, fire>>
        /\ queue' = queue \cup {<<n, globalNextEvID + 1>>}
    BY DEF CreateNode, NewClock, NewEventID
  <2>2. \A u \in Thread : call[u].id # globalNextEvID + 1
    BY FreshUnused DEF CreateNode, NewClock
  <2> QED  BY <2>1, <2>2 DEF OneScheduler, Scheduling
<1>3. EnqueuedIsPending'
  <2> SUFFICES ASSUME NEW u \in Thread, g_bridgeActive', call'[u].op = "enqueue",
                      \E k \in Node : nodes'[k] = call'[u].clk
               PROVE  call'[u].id \in g_pendingEvents' \ g_canceledEvents'
    BY DEF EnqueuedIsPending, Live
  <2>1. /\ g_bridgeActive /\ call' = call /\ clockNode[c] = None
        /\ nodes' = [nodes EXCEPT ![n] = c]
        /\ g_pendingEvents \subseteq g_pendingEvents'
        /\ g_canceledEvents' \subseteq g_canceledEvents
    BY DEF CreateNode, NewClock
  <2>2. call[u].id \in EvID /\ call[u].clk \in Clock /\ home[call[u].id] = call[u].clk
    BY <2>1, CallOf
  <2>3. call[u].clk # c
    BY <2>1, <2>2 DEF Registries
  <2>4. Live(call[u].clk)
    BY <2>1, <2>3 DEF Live, TypeOK
  <2>5. call[u].id \in g_pendingEvents \ g_canceledEvents
    BY <2>1, <2>4 DEF EnqueuedIsPending
  <2> QED  BY <2>1, <2>5
<1>4. LiveEventsBacked'
  <2> SUFFICES ASSUME g_bridgeActive', NEW m \in Node, globalClocks'[m] # None,
                      NEW i \in events'[globalClocks'[m]]
               PROVE  \/ <<m, i>> \in queue' /\ i \in g_pendingEvents'
                                             /\ i \notin g_canceledEvents'
                      \/ fire'.pc = "dispatch" /\ fire'.id = i
                      \/ \E u \in Thread : call'[u].id = i
    BY DEF LiveEventsBacked
  <2>1. /\ globalNextEvID < MaxEvents
        /\ g_bridgeActive /\ UNCHANGED <<fire, call>>
        /\ globalClocks' = [globalClocks EXCEPT ![n] = c]
        /\ events' = [events EXCEPT ![c] = {globalNextEvID + 1}]
        /\ queue' = queue \cup {<<n, globalNextEvID + 1>>}
        /\ g_pendingEvents' = g_pendingEvents \cup {globalNextEvID + 1}
        /\ g_canceledEvents' = g_canceledEvents \ {globalNextEvID + 1}
    BY DEF CreateNode, NewClock, NewEventID
  <2>2. CASE m = n
    BY <2>1, <2>2 DEF TypeOK
  <2>3. CASE m # n
    <3>1. globalClocks[m] = globalClocks'[m] /\ globalClocks[m] \in Clock
      BY <2>1, <2>3 DEF TypeOK
    <3>2. globalClocks[m] # c
      BY <3>1 DEF Registries, CreateNode, NewClock
    <3>3. i \in events[globalClocks[m]]
      BY <2>1, <3>1, <3>2 DEF TypeOK
    <3> QED  BY <2>1, <3>1, <3>3 DEF LiveEventsBacked
  <2> QED  BY <2>2, <2>3
<1> QED  BY <1>1, <1>2, <1>3, <1>4

LEMMA CreateNodeFailsBacks ==
    ASSUME IInv, Backing, NEW n \in Node, NEW c \in Clock, CreateNodeFails(n, c)
    PROVE  Backing'
<1> USE ConstantsAssumption DEF IInv, Backing, Thread, EvID
<1>1. QueuedAtHome'
  BY DEF QueuedAtHome, TypeOK, NotFiring, FreshIds, CreateNodeFails, NewClock,
     NewEventID, SimIdle
<1>2. OneScheduler'
  <2>1. /\ UNCHANGED <<call, fire>>
        /\ queue' = queue \cup {<<n, globalNextEvID + 1>>}
    BY DEF CreateNodeFails, NewClock, NewEventID
  <2>2. \A u \in Thread : call[u].id # globalNextEvID + 1
    BY FreshUnused DEF CreateNodeFails, NewClock
  <2> QED  BY <2>1, <2>2 DEF OneScheduler, Scheduling
<1>3. EnqueuedIsPending'
  BY DEF EnqueuedIsPending, OneScheduler, Live, TypeOK, Calls, NoCall,
     FreshIds, CallsOwnIds, CreateNodeFails, NewClock, NewEventID, SimIdle
<1>4. LiveEventsBacked'
  BY DEF LiveEventsBacked, StoredEvents, TypeOK, FreshIds, CreateNodeFails,
     NewClock, NewEventID
<1> QED  BY <1>1, <1>2, <1>3, <1>4

LEMMA DestroyNodeBacks ==
    ASSUME IInv, Backing, NEW n \in Node, NdndSimDestroyNode(n)
    PROVE  Backing'
<1> USE ConstantsAssumption DEF IInv, Backing, Thread, EvID
<1>1. QueuedAtHome'
  BY DEF QueuedAtHome, NdndSimDestroyNode
<1>2. OneScheduler'
  BY DEF OneScheduler, Scheduling, NdndSimDestroyNode
<1>3. EnqueuedIsPending'
  BY DEF EnqueuedIsPending, Live, TypeOK, Calls, NoCall, NdndSimDestroyNode,
     StopHandles, Returned, Marked
<1>4. LiveEventsBacked'
  <2> SUFFICES ASSUME g_bridgeActive', NEW m \in Node, globalClocks'[m] # None,
                      NEW i \in events'[globalClocks'[m]]
               PROVE  \/ <<m, i>> \in queue' /\ i \in g_pendingEvents'
                                             /\ i \notin g_canceledEvents'
                      \/ fire'.pc = "dispatch" /\ fire'.id = i
                      \/ \E u \in Thread : call'[u].id = i
    BY DEF LiveEventsBacked
  <2>1. PICK S \in SUBSET StopHandles(nodes[n]) :
           /\ g_canceledEvents' = g_canceledEvents \cup Marked(S)
           /\ events' = [events EXCEPT ![nodes[n]] = @ \ S]
    BY DEF NdndSimDestroyNode
  <2>2. /\ g_bridgeActive /\ globalClocks' = [globalClocks EXCEPT ![n] = None]
        /\ UNCHANGED <<queue, g_pendingEvents, fire, call>>
    BY DEF NdndSimDestroyNode
  <2>3. m # n /\ globalClocks'[m] = globalClocks[m] /\ globalClocks[m] \in Clock
    BY <2>2 DEF TypeOK
  <2>4. i \in events[globalClocks[m]] /\ home[i] = globalClocks[m]
    BY <2>1, <2>3 DEF TypeOK, StoredEvents
  <2>5. globalClocks[m] # nodes[n]
    BY <2>3 DEF Registries
  <2>6. i \notin S /\ i \notin Marked(S)
    BY <2>1, <2>4, <2>5 DEF StopHandles, Marked
  <2> QED  BY <2>1, <2>2, <2>3, <2>4, <2>6 DEF LiveEventsBacked
<1> QED  BY <1>1, <1>2, <1>3, <1>4

LEMMA DeactivateBridgeBacks ==
    ASSUME IInv, Backing, DeactivateBridge
    PROVE  Backing'
<1> USE ConstantsAssumption DEF IInv, Backing, Thread, EvID
<1>1. QueuedAtHome'
  BY DEF QueuedAtHome, DeactivateBridge, registry
<1>2. OneScheduler'
  BY DEF OneScheduler, Scheduling, DeactivateBridge
<1>3. EnqueuedIsPending'
  BY DEF EnqueuedIsPending, DeactivateBridge
<1>4. LiveEventsBacked'
  BY DEF LiveEventsBacked, DeactivateBridge
<1> QED  BY <1>1, <1>2, <1>3, <1>4

LEMMA NdndSimDestroyBacks ==
    ASSUME IInv, Backing, NdndSimDestroy
    PROVE  Backing'
<1> USE ConstantsAssumption DEF IInv, Backing, Thread, EvID
<1>1. QueuedAtHome'
  BY DEF QueuedAtHome, NdndSimDestroy, bridge
<1>2. OneScheduler'
  BY DEF OneScheduler, Scheduling, NdndSimDestroy, bridge
<1>3. EnqueuedIsPending'
  BY DEF EnqueuedIsPending, Lifecycle, NdndSimDestroy, bridge
<1>4. LiveEventsBacked'
  BY DEF LiveEventsBacked, NdndSimDestroy
<1> QED  BY <1>1, <1>2, <1>3, <1>4

LEMMA ClearBridgeBacks ==
    ASSUME IInv, Backing, ClearBridge
    PROVE  Backing'
<1> USE ConstantsAssumption DEF IInv, Backing, Thread, EvID
<1>1. QueuedAtHome'
  BY DEF QueuedAtHome, NotFiring, ClearBridge, registry
<1>2. OneScheduler'
  BY DEF OneScheduler, Scheduling, NotFiring, ClearBridge
<1>3. EnqueuedIsPending'
  BY DEF EnqueuedIsPending, Lifecycle, ClearBridge
<1>4. LiveEventsBacked'
  BY DEF LiveEventsBacked, Lifecycle, ClearBridge
<1> QED  BY <1>1, <1>2, <1>3, <1>4

LEMMA SimulatorDestroyBacks ==
    ASSUME IInv, Backing, SimulatorDestroy
    PROVE  Backing'
<1> USE ConstantsAssumption DEF IInv, Backing, Thread, EvID
<1>1. QueuedAtHome'
  BY DEF QueuedAtHome, SimulatorDestroy, registry
<1>2. OneScheduler'
  BY DEF OneScheduler, Scheduling, SimulatorDestroy
<1>3. EnqueuedIsPending'
  BY DEF EnqueuedIsPending, Live, SimulatorDestroy, registry
<1>4. LiveEventsBacked'
  BY DEF LiveEventsBacked, Registries, SimulatorDestroy, registry
<1> QED  BY <1>1, <1>2, <1>3, <1>4

LEMMA InitBacking == Init => Backing
<1>1. Init => \A t \in Thread : call[t].op = "none"
  BY DEF Init, NoCall
<1> QED
  BY <1>1 DEF Init, Backing, QueuedAtHome, OneScheduler, Scheduling, EnqueuedIsPending,
     LiveEventsBacked, NotFiring

LEMMA StutterBacks == Backing /\ UNCHANGED vars => Backing'
BY DEF Backing, QueuedAtHome, OneScheduler, Scheduling, EnqueuedIsPending, Live,
   LiveEventsBacked, vars, bridge, registry

LEMMA NextBacking == IInv /\ Backing /\ [Next]_vars => Backing'
<1> SUFFICES ASSUME IInv, Backing, [Next]_vars
             PROVE  Backing'
  OBVIOUS
<1>1. CASE \E t \in Thread, c \in Clock : Schedule(t, c)
  BY <1>1, ScheduleBacks
<1>2. CASE \E t \in Thread, c \in Clock, id \in EvID : Cancel(t, c, id)
  BY <1>2, CancelBacks
<1>3. CASE \E t \in Thread : ThreadStep(t)
  BY <1>3, OnScheduleEventBacks, ScheduleWithContextBacks, CancelUnregisterBacks
     DEF ThreadStep
<1>4. CASE FireStep
  BY <1>4, TrampolineReturnsBacks, TrampolineDispatchesBacks, FireEventRunsBacks,
     FireEventMissesBacks, CallbackReturnsBacks DEF FireStep
<1>5. CASE LifeCycle
  BY <1>5, InitGoBridgeBacks, CreateNodeBacks, CreateNodeFailsBacks, DestroyNodeBacks,
     DeactivateBridgeBacks, NdndSimDestroyBacks, ClearBridgeBacks,
     SimulatorDestroyBacks DEF LifeCycle
<1>6. CASE UNCHANGED vars
  BY <1>6, StutterBacks
<1> QED
  BY <1>1, <1>2, <1>3, <1>4, <1>5, <1>6 DEF Next

\* While the bridge is up every callback of a reachable clock has its event in
\* the queue of ns-3, on its way there or back, or a Cancel deleting it
\* (Ns3Clock.Schedule, OnScheduleEvent, NdndSimFireEvent).
THEOREM NothingLost == Spec => []LiveEventsBacked
<1>1. Init => IInv /\ Backing
  BY InitInvariant, InitBacking
<1>2. IInv /\ Backing /\ [Next]_vars => (IInv /\ Backing)'
  BY NextInvariant, NextBacking
<1>3. Backing => LiveEventsBacked
  BY DEF Backing
<1> QED
  BY <1>1, <1>2, <1>3, PTL DEF Spec
-----------------------------------------------------------------------------
(***************************************************************************)
(* The refinement of EventService: every step of the detailed system is a  *)
(* step of the service or leaves Status alone.                             *)
(***************************************************************************)
LEMMA SameStatus ==
    ASSUME UNCHANGED <<home, runs, cancelled, nodes>>
    PROVE  Status' = Status
BY DEF Status, StatusOf, Live

LEMMA StatusType == Status \in [EvID -> Service!Stage]
BY DEF Status, StatusOf, Service!Stage

\* A step that gives one event another status is a Move of that event.
LEMMA OneMoves ==
    ASSUME NEW id \in EvID,
           \A other \in EvID \ {id} : StatusOf(other)' = StatusOf(other)
    PROVE  Status' = [Status EXCEPT ![id] = StatusOf(id)']
BY DEF Status

LEMMA ServiceSchedule ==
    ASSUME IInv, NEW t \in Thread, NEW c \in Clock, Schedule(t, c)
    PROVE  Service!Next
<1> USE ConstantsAssumption DEF IInv
<1>0. PICK id \in EvID : id = NewEventID(c)
    BY DEF TypeOK, Schedule, NewEventID, EvID
<1>1. home[id] = None /\ runs[id] = 0 /\ id \notin cancelled
    BY <1>0 DEF TypeOK, FreshIds, NewEventID, EvID
<1>2. /\ home' = [home EXCEPT ![id] = c]
      /\ UNCHANGED <<runs, cancelled, nodes>>
    BY <1>0 DEF Schedule, registry
<1>3. StatusOf(id) = "new"
    BY <1>1 DEF StatusOf
<1>4. StatusOf(id)' \in {"scheduled", "dropped"}
    BY <1>1, <1>2 DEF TypeOK, StatusOf
<1>5. \A other \in EvID \ {id} : StatusOf(other)' = StatusOf(other)
    BY <1>2 DEF TypeOK, StatusOf, Live
<1>6. Status[id] = "new" /\ Status' = [Status EXCEPT ![id] = StatusOf(id)']
    BY <1>1, <1>3, <1>5, OneMoves DEF Status
<1>7. Service!Schedule(id) \/ Service!ScheduleDead(id)
    BY <1>4, <1>6 DEF Service!Schedule, Service!ScheduleDead, Service!Move
<1> QED
    BY <1>1, <1>7 DEF Service!Next

LEMMA ServiceCancel ==
    ASSUME IInv, NEW t \in Thread, CancelUnregister(t)
    PROVE  Service!Next \/ Status' = Status
<1> USE ConstantsAssumption DEF IInv
<1>1. PICK id \in EvID : id = call[t].id /\ home[id] # None
    <2>1. call[t] \in [op : {"schedule", "enqueue", "unregister"}, clk : Clock, id : EvID]
        BY DEF TypeOK, CancelUnregister, Calls, NoCall
    <2>2. home[call[t].id] = call[t].clk
        BY <2>1 DEF CallsOwnIds, CancelUnregister, NoCall
    <2> QED
        BY <2>1, <2>2
<1>2. /\ cancelled' = cancelled \cup {id}
      /\ UNCHANGED <<home, runs, nodes>>
    BY <1>1 DEF CancelUnregister, registry
<1>3. CASE runs[id] > 0 \/ id \in cancelled
    BY <1>1, <1>2, <1>3 DEF Status, StatusOf, Live
<1>4. CASE ~(runs[id] > 0 \/ id \in cancelled)
    <2>1. StatusOf(id) \in {"scheduled", "dropped"} /\ StatusOf(id)' = "cancelled"
        BY <1>1, <1>2, <1>4 DEF StatusOf
    <2>2. \A other \in EvID \ {id} : StatusOf(other)' = StatusOf(other)
        BY <1>2 DEF StatusOf, Live
    <2>3. Status[id] \in {"scheduled", "dropped"} /\ Status' = [Status EXCEPT ![id] = "cancelled"]
        BY <1>1, <2>1, <2>2, OneMoves DEF Status
    <2> QED
        BY <1>1, <2>3 DEF Service!Next, Service!Cancel, Service!Move
<1> QED
    BY <1>3, <1>4

LEMMA ServiceRun ==
    ASSUME IInv, FireEventRuns
    PROVE  Service!Next
<1> USE ConstantsAssumption DEF IInv
<1>1. PICK id \in EvID : id = fire.id /\ fire.node \in Node
    BY DEF TypeOK, FireEventRuns, Fires, NotFiring
<1>2. PICK c \in Clock : c = nodes[fire.node] /\ id \in events[c]
    BY <1>1 DEF TypeOK, Registries, FireEventRuns, Reachable
<1>3. home[id] = c /\ runs[id] = 0 /\ id \notin cancelled
    BY <1>2 DEF StoredEvents
<1>4. runs' = [runs EXCEPT ![id] = 1] /\ UNCHANGED <<home, cancelled, nodes>>
    BY <1>1, <1>3 DEF TypeOK, FireEventRuns, registry
<1>5. StatusOf(id) = "scheduled"
    BY <1>1, <1>2, <1>3 DEF StatusOf, Live
<1>6. StatusOf(id)' = "ran"
    BY <1>1, <1>2, <1>3, <1>4 DEF TypeOK, StatusOf
<1>7. \A other \in EvID \ {id} : StatusOf(other)' = StatusOf(other)
    BY <1>4 DEF TypeOK, StatusOf, Live
<1>8. Status[id] = "scheduled" /\ Status' = [Status EXCEPT ![id] = "ran"]
    BY <1>1, <1>5, <1>6, <1>7, OneMoves DEF Status
<1> QED
    BY <1>1, <1>8 DEF Service!Next, Service!Run, Service!Move

LEMMA ServiceNewClock ==
    ASSUME IInv, NEW n \in Node, NEW c \in Clock,
           CreateNode(n, c) \/ CreateNodeFails(n, c)
    PROVE  Service!Next
<1> USE ConstantsAssumption DEF IInv
<1>0. PICK id \in EvID : id = NewEventID(c)
    BY DEF TypeOK, CreateNode, CreateNodeFails, NewClock, NewEventID, EvID
<1>1. home[id] = None /\ runs[id] = 0 /\ id \notin cancelled
    BY <1>0 DEF TypeOK, FreshIds, NewEventID, EvID
<1>2. home' = [home EXCEPT ![id] = c] /\ runs' = runs
    BY <1>0 DEF CreateNode, CreateNodeFails, NewClock
<1>3. StatusOf(id) = "new"
    BY <1>1 DEF StatusOf
<1>4. \A other \in EvID : home[other] # c
    BY DEF TypeOK, Registries, CreateNode, CreateNodeFails, NewClock
<1>5. CASE CreateNode(n, c)
    <2>1. nodes' = [nodes EXCEPT ![n] = c] /\ cancelled' = cancelled /\ nodes[n] = None
        BY <1>0, <1>5 DEF CreateNode, NewClock
    <2>2. StatusOf(id)' = "scheduled"
        BY <1>1, <1>2, <2>1 DEF TypeOK, StatusOf, Live
    <2>3. \A other \in EvID \ {id} : StatusOf(other)' = StatusOf(other)
        BY <1>2, <1>4, <2>1 DEF TypeOK, StatusOf, Live
    <2>4. Status[id] = "new" /\ Status' = [Status EXCEPT ![id] = "scheduled"]
        BY <1>1, <1>3, <2>2, <2>3, OneMoves DEF Status
    <2> QED
        BY <1>1, <2>4 DEF Service!Next, Service!Schedule, Service!Move
<1>6. CASE CreateNodeFails(n, c)
    <2>1. nodes' = nodes /\ cancelled' = cancelled \cup {id}
        BY <1>0, <1>6 DEF CreateNodeFails
    <2>2. StatusOf(id)' = "cancelled"
        BY <1>1, <1>2, <2>1 DEF TypeOK, StatusOf
    <2>3. \A other \in EvID \ {id} : StatusOf(other)' = StatusOf(other)
        BY <1>2, <2>1 DEF TypeOK, StatusOf, Live
    <2>4. Status[id] = "new" /\ Status' = [Status EXCEPT ![id] = "cancelled"]
        BY <1>1, <1>3, <2>2, <2>3, OneMoves DEF Status
    <2> QED
        BY <1>1, <2>4 DEF Service!Next, Service!StillBorn, Service!Move
<1> QED
    BY <1>5, <1>6

\* What both ways of taking nodes down do to the status of their events.
LEMMA ServiceNodesGone ==
    ASSUME IInv, NEW gone \in SUBSET Node, NEW S \in SUBSET EvID,
           \A id \in S : home[id] # None,
           cancelled' = cancelled \cup S,
           nodes' = [n \in Node |-> IF n \in gone THEN None ELSE nodes[n]],
           UNCHANGED <<home, runs>>
    PROVE  Service!Next
<1> USE ConstantsAssumption DEF IInv
<1> DEFINE lost == {id \in EvID : /\ StatusOf(id) = "scheduled"
                                  /\ \E n \in gone : nodes[n] = home[id]}
<1>1. \A id \in S : Status[id] \in {"scheduled", "dropped", "ran", "cancelled"}
    BY DEF Status, StatusOf
<1>2. \A id \in lost : Status[id] = "scheduled"
    BY DEF Status
<1>3. ASSUME NEW id \in EvID, home[id] # None
      PROVE  Live(home[id])' <=> Live(home[id]) /\ ~\E n \in gone : nodes[n] = home[id]
    BY <1>3 DEF TypeOK, Registries, Live
<1>4. ASSUME NEW id \in EvID
      PROVE  StatusOf(id)' = IF id \in S /\ Status[id] \in {"scheduled", "dropped"}
                             THEN "cancelled"
                             ELSE IF id \in lost THEN "dropped" ELSE Status[id]
    <2>1. CASE home[id] = None
        BY <2>1 DEF StatusOf, Status
    <2>2. CASE home[id] # None /\ (runs[id] > 0 \/ id \in cancelled)
        BY <2>2 DEF StatusOf, Status
    <2>3. CASE home[id] # None /\ ~(runs[id] > 0 \/ id \in cancelled) /\ id \in S
        BY <2>3 DEF StatusOf, Status
    <2>4. CASE home[id] # None /\ ~(runs[id] > 0 \/ id \in cancelled) /\ id \notin S
        BY <1>3, <2>4 DEF StatusOf, Status
    <2> QED
        BY <2>1, <2>2, <2>3, <2>4
<1>5. Service!NodeGone(S, lost)
    BY <1>1, <1>2, <1>4 DEF Service!NodeGone, Status
<1> QED
    BY <1>5 DEF Service!Next

LEMMA ServiceDestroyNode ==
    ASSUME IInv, NEW n \in Node, NdndSimDestroyNode(n)
    PROVE  Service!Next
<1>1. PICK S \in SUBSET StopHandles(nodes[n]) : cancelled' = cancelled \cup S
    BY DEF NdndSimDestroyNode
<1>2. S \in SUBSET EvID /\ \A id \in S : home[id] # None
    BY <1>1 DEF StopHandles, Returned
<1>3. nodes' = [m \in Node |-> IF m \in {n} THEN None ELSE nodes[m]]
    BY DEF NdndSimDestroyNode, IInv, TypeOK
<1>4. UNCHANGED <<home, runs>>
    BY DEF NdndSimDestroyNode
<1> QED
    BY <1>1, <1>2, <1>3, <1>4, ServiceNodesGone

LEMMA ServiceDestroy ==
    ASSUME IInv, NdndSimDestroy
    PROVE  Service!Next
<1>1. PICK S \in SUBSET UNION {StopHandles(nodes[n]) : n \in {m \in Node : nodes[m] # None}} :
          cancelled' = cancelled \cup S
    BY DEF NdndSimDestroy
<1>2. S \in SUBSET EvID /\ \A id \in S : home[id] # None
    BY <1>1 DEF StopHandles, Returned
<1>3. nodes' = [m \in Node |-> IF m \in Node THEN None ELSE nodes[m]]
    BY DEF NdndSimDestroy
<1>4. UNCHANGED <<home, runs>>
    BY DEF NdndSimDestroy
<1> QED
    BY <1>1, <1>2, <1>3, <1>4, ServiceNodesGone

\* The nodes of an inactive bridge are gone already, so InitGoBridge's new
\* registry changes nothing.
LEMMA ServiceInitGoBridge ==
    ASSUME IInv, InitGoBridge
    PROVE  Status' = Status
<1>1. nodes' = nodes
    BY DEF IInv, TypeOK, Lifecycle, InitGoBridge, SimIdle, NotFiring
<1> QED
    BY <1>1, SameStatus DEF InitGoBridge

LEMMA ServiceStutters ==
    ASSUME IInv, [Next]_vars,
           ~\E t \in Thread, c \in Clock : Schedule(t, c),
           ~\E t \in Thread : CancelUnregister(t),
           ~FireEventRuns,
           ~\E n \in Node, c \in Clock : CreateNode(n, c) \/ CreateNodeFails(n, c),
           ~\E n \in Node : NdndSimDestroyNode(n),
           ~NdndSimDestroy, ~InitGoBridge
    PROVE  Status' = Status
<1>1. UNCHANGED <<home, runs, cancelled, nodes>>
    BY DEF Next, ThreadStep, FireStep, LifeCycle, OnScheduleEvent, ScheduleWithContext,
       Cancel, TrampolineReturns, TrampolineDispatches, TakeFromQueue,
       FireEventMisses, CallbackReturns, DeactivateBridge, ClearBridge,
       SimulatorDestroy, vars, registry
<1> QED
    BY <1>1, SameStatus

LEMMA ServiceInit == Init => Service!Init
BY DEF Init, Service!Init, Status, StatusOf

LEMMA ServiceNext == IInv /\ [Next]_vars => [Service!Next]_Status
BY ServiceSchedule, ServiceCancel, ServiceRun, ServiceNewClock, ServiceDestroyNode,
   ServiceDestroy, ServiceInitGoBridge, ServiceStutters

\* Clock, bridge, scheduler and life cycle together implement EventService:
\* at most one run, no run after a cancel, none for a node that is gone.
THEOREM Refinement == Spec => ImplementsService
BY ServiceInit, ServiceNext, Invariance, PTL DEF Spec, ImplementsService, Service!Spec
=============================================================================
