----------------------------- MODULE HookBinding ----------------------------
(***************************************************************************)
(* What every thread of the process must get right before it runs the code *)
(* of a node: bind the node's hooks to the goroutine (go/ndndsim/hooks.go),*)
(* take the node's re-entrant lock (SimForwarder.withNodeFib), and leave   *)
(* both as it found them.                                                  *)
(*                                                                         *)
(* A call of a thread is a script, the list of the steps below in the order*)
(* in which the code takes them; a step may replace itself by the script of*)
(* a nested call.  Simulator is the thread of the ns-3 loop: it makes the  *)
(* calls of the C++ side and runs the events of the clocks.  The workers   *)
(* are real goroutines, which the comments of withNodeFib, node.go and     *)
(* NewSimDvRouter reckon with; WorkerCalls says which calls they make.     *)
(*                                                                         *)
(* Three kinds of work are told apart: the pipeline and the RIB, which run *)
(* inside withNodeFib; the FIB and the PET, which the code writes without  *)
(* nodeMu, under locks of their own; and the code of routers, of SVS and of*)
(* applications, which makes nested calls.                                 *)
(***************************************************************************)
EXTENDS Naturals, Sequences, FiniteSets, SequencesExt

CONSTANTS
    Node,
    Simulator,      \* the thread of the ns-3 loop
    Worker,         \* real goroutines, not bound to any node when they start
    None,           \* no node, no thread
    Kept,           \* saved by a withNodeFib that found its node bound already
    SimulatorCalls, \* the calls the simulator thread makes, of Call
    WorkerCalls,    \* the calls the workers make, of Call
    MaxNested       \* bound on the nested calls of one call

Call == {"receive", "addRoute", "removeFace", "startDv", "seed", "announce",
         "withdraw", "maintenance", "callback", "timer", "timeout",
         "heartbeat", "express", "goroutine"}

ASSUME ConstantsAssumption ==
    /\ IsFiniteSet(Node)
    /\ Simulator \notin Worker
    /\ None \notin Node \cup Worker \cup {Simulator}
    /\ Kept \notin Node \cup {None}
    /\ SimulatorCalls \subseteq Call
    /\ WorkerCalls \subseteq Call
    /\ MaxNested \in Nat

Thread == Worker \cup {Simulator}

\* nodeMu and faceMu of the forwarder, mutex of the DV router.
Mutex == Node \X {"node", "face", "dv"}

VARIABLES
    binding,    \* hooksMap: the node a goroutine is bound to
    mutex,      \* the thread that holds each mutex
    holder,     \* SimForwarder.nodeHolder
    todo,       \* the steps each thread still has to take
    saved,      \* what the frames of a thread keep for their deferred calls
    nested,     \* the nested calls of the current call
    stable,     \* _syntheticRoutingStable
    stranded    \* nodes whose nfdc channel holds a command: nobody reads it

locks == <<mutex, holder>>
synthetic == <<stable, stranded>>
vars == <<binding, locks, todo, saved, nested, synthetic>>
-----------------------------------------------------------------------------
(***************************************************************************)
(* The scripts.                                                            *)
(***************************************************************************)
\* A step: what is done, for which node and, for a plain mutex, with which one.
Todo(op, n, kind) == [op |-> op, node |-> n, kind |-> kind]
Do(op, n) == <<Todo(op, n, "node")>>

Lock(kind, n) == <<Todo("lock", n, kind)>>
Unlock(kind, n) == <<Todo("unlock", n, kind)>>

\* A deferred call runs last: the binding is restored before the unlock.
WithNodeFib(n, body) ==
    Do("lockNode", n) \o Do("own", n) \o Do("bindFib", n) \o body
    \o Do("restore", n) \o Do("disown", n) \o Do("unlockNode", n)

Swapped(n, body) == Do("swap", n) \o body \o Do("restore", n)
Bound(n, body) == Do("bind", n) \o body \o Do("unbind", n)

GetFace(n) == Lock("face", n) \o Unlock("face", n)
Forward(n) == WithNodeFib(n, Do("pipeline", n))

\* A route enters or leaves the RIB under nodeMu, the FIB and the PET without it.
WriteRib(n) == WithNodeFib(n, Do("rib", n))
WriteTables(n) == Do("tables", n)

\* Fault: the face is looked up inside the pipeline, under nodeMu.
ReceivePacketFaceInside(n) ==
    Swapped(n, WithNodeFib(n, GetFace(n) \o Do("pipeline", n)))

ReceivePacket(n) == Swapped(n, GetFace(n) \o Forward(n))

\* nfdc.Exec of a router that holds its mutex.
ExecLocked(n) == Lock("dv", n) \o Do("simExec", n) \o Unlock("dv", n)

\* Calls of the C++ side.
ReceiveCall(n) == Swapped(n, ReceivePacket(n))

AddRouteCall(n) == WriteTables(n) \o WriteRib(n)

RemoveFaceCall(n) ==
    Lock("face", n) \o WriteRib(n) \o WriteTables(n) \o Unlock("face", n)

\* NewSimDvRouter, SimDvRouter.Start, the routes to the neighbours and those
\* of the sync prefixes with their egress in the PET.
StartDvCall(n) ==
    Bound(n, Do("router", n)) \o Bound(n, WithNodeFib(n, Do("router", n)))
    \o WriteRib(n) \o WriteTables(n) \o WriteRib(n)

SeedCall(n) ==
    Bound(n, WithNodeFib(n, Lock("dv", n) \o Unlock("dv", n)
                            \o Do("router", n) \o Do("seeded", n)))

StartPfxEverywhere ==
    LET each == SetToSeq(Node)
    IN  [i \in DOMAIN each |-> Todo("startPfx", each[i], "node")]

\* Fault: the announcement runs like the start of prefix sync, unbound.
AnnounceCallUnbound(n) == StartPfxEverywhere \o Do("router", n)

\* Prefix sync is started on every node before the prefix is announced.
AnnounceCall(n) == StartPfxEverywhere \o Swapped(n, Swapped(n, Do("router", n)))

WithdrawCall(n) == Swapped(n, Do("router", n))

\* Callbacks that NdndSimFireEvent runs, each under the binding it swaps in.
MaintenanceEvent(n) == Swapped(n, Forward(n))
GoEvent(n) == Swapped(n, Bound(n, Do("router", n)))
AfterFuncEvent(n) == Swapped(n, Bound(n, Bound(n, Do("router", n))))
TimeoutEvent(n) == Swapped(n, Do("router", n))
HeartbeatEvent(n) == Swapped(n, Bound(n, WithNodeFib(n, Do("router", n))))

\* A goroutine that runs code of a router, bound to the hooks of who started it.
GoroutineCall(n) == Bound(n, Do("router", n))

Script(call, n) ==
    CASE call = "receive"     -> ReceiveCall(n)
      [] call = "addRoute"    -> AddRouteCall(n)
      [] call = "removeFace"  -> RemoveFaceCall(n)
      [] call = "startDv"     -> StartDvCall(n)
      [] call = "seed"        -> SeedCall(n)
      [] call = "announce"    -> AnnounceCall(n)
      [] call = "withdraw"    -> WithdrawCall(n)
      [] call = "maintenance" -> MaintenanceEvent(n)
      [] call = "callback"    -> GoEvent(n)
      [] call = "timer"       -> AfterFuncEvent(n)
      [] call = "timeout"     -> TimeoutEvent(n)
      [] call = "heartbeat"   -> HeartbeatEvent(n)
      [] call = "express"     -> ReceivePacket(n)
      [] call = "goroutine"   -> GoroutineCall(n)

\* The scripts that the code of a router may run at any point.
NestedScripts(n) == {ReceivePacket(n), Do("simExec", n), ExecLocked(n)}

\* The management commands: into the FIB or the PET, out of them or to a
\* strategy, into the RIB, and out of it.
Commands(n) ==
    {GetFace(n) \o WriteTables(n), WriteTables(n), GetFace(n) \o WriteRib(n), WriteRib(n)}
-----------------------------------------------------------------------------
TypeOK ==
    /\ binding \in [Thread -> Node \cup {None}]
    /\ mutex \in [Mutex -> Thread \cup {None}]
    /\ holder \in [Node -> Thread \cup {None}]
    /\ \A t \in Thread :
         /\ \A i \in DOMAIN todo[t] : todo[t][i].node \in Node
         /\ \A i \in DOMAIN saved[t] :
              saved[t][i] \in Node \cup {None, Kept} \cup BOOLEAN
         /\ nested[t] \in 0..MaxNested
    /\ stable \subseteq Node
    /\ stranded \subseteq Node

Init ==
    /\ binding = [t \in Thread |-> None]
    /\ mutex = [m \in Mutex |-> None]
    /\ holder = [n \in Node |-> None]
    /\ todo = [t \in Thread |-> <<>>]
    /\ saved = [t \in Thread |-> <<>>]
    /\ nested = [t \in Thread |-> 0]
    /\ stable = {}
    /\ stranded = {}

At(t, op) == todo[t] # <<>> /\ Head(todo[t]).op = op
TheNode(t) == Head(todo[t]).node
Done(t) == todo' = [todo EXCEPT ![t] = Tail(@)]
Insert(t, script) == todo' = [todo EXCEPT ![t] = script \o Tail(@)]
Save(t, x) == saved' = [saved EXCEPT ![t] = <<x>> \o @]
Drop(t) == saved' = [saved EXCEPT ![t] = Tail(@)]

Begin(t, call, n) ==
    /\ todo[t] = <<>>
    /\ todo' = [todo EXCEPT ![t] = Script(call, n)]
    /\ nested' = [nested EXCEPT ![t] = 0]
    /\ UNCHANGED <<binding, locks, saved, synthetic>>
-----------------------------------------------------------------------------
(* hooks.go. *)
SwapNode(t) ==
    /\ At(t, "swap")
    /\ Save(t, binding[t])
    /\ binding' = [binding EXCEPT ![t] = TheNode(t)]
    /\ Done(t)
    /\ UNCHANGED <<locks, nested, synthetic>>

\* Fault: the binding is removed and not restored.
RestoreUnbinds(t) ==
    /\ At(t, "restore")
    /\ binding' = [binding EXCEPT ![t] = None]
    /\ Drop(t)
    /\ Done(t)
    /\ UNCHANGED <<locks, nested, synthetic>>

RestoreNode(t) ==
    /\ At(t, "restore")
    /\ binding' = [binding EXCEPT ![t] = IF Head(saved[t]) = Kept THEN @ ELSE Head(saved[t])]
    /\ Drop(t)
    /\ Done(t)
    /\ UNCHANGED <<locks, nested, synthetic>>

BindNode(t) ==
    /\ At(t, "bind")
    /\ binding' = [binding EXCEPT ![t] = TheNode(t)]
    /\ Done(t)
    /\ UNCHANGED <<locks, saved, nested, synthetic>>

\* Fault: the deferred UnbindNode is missing.
UnbindForgotten(t) ==
    /\ At(t, "unbind")
    /\ Done(t)
    /\ UNCHANGED <<binding, locks, saved, nested, synthetic>>

UnbindNode(t) ==
    /\ At(t, "unbind")
    /\ binding' = [binding EXCEPT ![t] = None]
    /\ Done(t)
    /\ UNCHANGED <<locks, saved, nested, synthetic>>
-----------------------------------------------------------------------------
(* forwarder.go: lockNode, unlockNode and the binding of withNodeFib.  Only *)
(* t itself writes t to nodeHolder, so its test and its wait are one step.  *)

\* Fault: a re-entrant call waits for its own thread.
LockNodePlain(t) ==
    /\ At(t, "lockNode")
    /\ LET m == <<TheNode(t), "node">>
       IN  /\ mutex[m] = None
           /\ mutex' = [mutex EXCEPT ![m] = t]
           /\ Save(t, TRUE)
    /\ Done(t)
    /\ UNCHANGED <<binding, holder, nested, synthetic>>

LockNode(t) ==
    /\ At(t, "lockNode")
    /\ LET n == TheNode(t)
           m == <<n, "node">>
       IN  IF holder[n] = t
           THEN Save(t, FALSE) /\ UNCHANGED mutex
           ELSE /\ mutex[m] = None
                /\ mutex' = [mutex EXCEPT ![m] = t]
                /\ Save(t, TRUE)
    /\ Done(t)
    /\ UNCHANGED <<binding, holder, nested, synthetic>>

OwnNode(t) ==
    /\ At(t, "own")
    /\ holder' = [holder EXCEPT ![TheNode(t)] = IF Head(saved[t]) THEN t ELSE @]
    /\ Done(t)
    /\ UNCHANGED <<binding, mutex, saved, nested, synthetic>>

BindFib(t) ==
    /\ At(t, "bindFib")
    /\ Save(t, IF binding[t] = TheNode(t) THEN Kept ELSE binding[t])
    /\ binding' = [binding EXCEPT ![t] = TheNode(t)]
    /\ Done(t)
    /\ UNCHANGED <<locks, nested, synthetic>>

DisownNode(t) ==
    /\ At(t, "disown")
    /\ holder' = [holder EXCEPT ![TheNode(t)] = IF Head(saved[t]) THEN None ELSE @]
    /\ Done(t)
    /\ UNCHANGED <<binding, mutex, saved, nested, synthetic>>

\* Fault: the inner of two nested calls releases the lock of the outer one.
UnlockNodeAlways(t) ==
    /\ At(t, "unlockNode")
    /\ mutex' = [mutex EXCEPT ![<<TheNode(t), "node">>] = None]
    /\ Drop(t)
    /\ Done(t)
    /\ UNCHANGED <<binding, holder, nested, synthetic>>

UnlockNode(t) ==
    /\ At(t, "unlockNode")
    /\ mutex' = [mutex EXCEPT ![<<TheNode(t), "node">>] = IF Head(saved[t]) THEN None ELSE @]
    /\ Drop(t)
    /\ Done(t)
    /\ UNCHANGED <<binding, holder, nested, synthetic>>
-----------------------------------------------------------------------------
(* The plain mutexes. *)
LockMutex(t, kind) ==
    /\ At(t, "lock") /\ Head(todo[t]).kind = kind
    /\ mutex[<<TheNode(t), kind>>] = None
    /\ mutex' = [mutex EXCEPT ![<<TheNode(t), kind>>] = t]
    /\ Done(t)
    /\ UNCHANGED <<binding, holder, saved, nested, synthetic>>

UnlockMutex(t, kind) ==
    /\ At(t, "unlock") /\ Head(todo[t]).kind = kind
    /\ mutex' = [mutex EXCEPT ![<<TheNode(t), kind>>] = None]
    /\ Done(t)
    /\ UNCHANGED <<binding, holder, saved, nested, synthetic>>

(* The work itself. *)
RunPipeline(t) ==
    /\ At(t, "pipeline") \/ At(t, "rib")
    /\ Done(t)
    /\ UNCHANGED <<binding, locks, saved, nested, synthetic>>

RunTables(t) ==
    /\ At(t, "tables")
    /\ Done(t)
    /\ UNCHANGED <<binding, locks, saved, nested, synthetic>>

\* Code of the router, of SVS or of an application: it ends, or it makes a
\* nested call and goes on.
RunRouter(t) ==
    /\ At(t, "router")
    /\ Done(t)
    /\ UNCHANGED <<binding, locks, saved, nested, synthetic>>

NestedCall(t) ==
    /\ At(t, "router")
    /\ nested[t] < MaxNested
    /\ nested' = [nested EXCEPT ![t] = @ + 1]
    /\ \E s \in NestedScripts(TheNode(t)) : todo' = [todo EXCEPT ![t] = s \o @]
    /\ UNCHANGED <<binding, locks, saved, synthetic>>

\* A management command runs inline if the goroutine is bound and goes to the
\* channel of nfdc, whose reader is never started, if it is not.
SimExec(t) ==
    /\ At(t, "simExec")
    /\ IF binding[t] # None
       THEN /\ \E command \in Commands(TheNode(t)) : Insert(t, command)
            /\ UNCHANGED stranded
       ELSE /\ Done(t)
            /\ stranded' = stranded \cup {TheNode(t)}
    /\ UNCHANGED <<binding, locks, saved, nested, stable>>

Seeded(t) ==
    /\ At(t, "seeded")
    /\ stable' = stable \cup {TheNode(t)}
    /\ Done(t)
    /\ UNCHANGED <<binding, locks, saved, nested, stranded>>

\* StartPfxIfSyntheticStable binds no hooks.  It counts the reachable routers
\* under the mutex of the router; no command follows, since in twophase prefix
\* sync has been running since Init and onephase only attaches a handler
\* (DvRouter has what happens there).
StartPfx(t) ==
    /\ At(t, "startPfx")
    /\ LET n == TheNode(t)
       IN  IF n \in stable THEN Insert(t, Lock("dv", n) \o Unlock("dv", n)) ELSE Done(t)
    /\ stable' = stable \ {TheNode(t)}
    /\ UNCHANGED <<binding, locks, saved, nested, stranded>>
-----------------------------------------------------------------------------
Step(t) ==
    \/ SwapNode(t) \/ RestoreNode(t) \/ BindNode(t) \/ UnbindNode(t)
    \/ LockNode(t) \/ OwnNode(t) \/ BindFib(t) \/ DisownNode(t) \/ UnlockNode(t)
    \/ \E kind \in {"face", "dv"} : LockMutex(t, kind) \/ UnlockMutex(t, kind)
    \/ RunPipeline(t) \/ RunTables(t) \/ RunRouter(t)
    \/ SimExec(t) \/ Seeded(t) \/ StartPfx(t)

Next ==
    \/ \E n \in Node : \/ \E c \in SimulatorCalls : Begin(Simulator, c, n)
                       \/ \E t \in Worker, c \in WorkerCalls : Begin(t, c, n)
    \/ \E t \in Thread : Step(t) \/ NestedCall(t)

\* A thread that can run runs; a Go mutex hands itself to a waiter that has
\* starved, so taking a lock is fair even if it is only free now and then.
Fairness ==
    \A t \in Thread :
        /\ WF_vars(Step(t))
        /\ SF_vars(LockNode(t) \/ \E kind \in {"face", "dv"} : LockMutex(t, kind))

Spec == Init /\ [][Next]_vars
FairSpec == Spec /\ Fairness
-----------------------------------------------------------------------------
(* Whoever is inside the forwarding pipeline or the RIB of a node is the    *)
(* one thread that holds its nodeMu and is its nodeHolder, however often    *)
(* withNodeFib was entered again (forwarder.go, withNodeFib).  Writers of   *)
(* the FIB and the PET need not be: nothing is claimed of "tables".         *)
PipelineExclusive ==
    \A t \in Thread : At(t, "pipeline") \/ At(t, "rib") =>
        mutex[<<TheNode(t), "node">>] = t /\ holder[TheNode(t)] = t

(* The pipeline, the RIB and the code of routers run on a goroutine bound to*)
(* the node, also after a nested call has come back (hooks.go, SwapNode and *)
(* RestoreNode).                                                            *)
RunsBound ==
    \A t \in Thread : At(t, "pipeline") \/ At(t, "rib") \/ At(t, "router") =>
        binding[t] = TheNode(t)

(* A thread that has finished its call is bound to no node and holds no     *)
(* lock: the next event, of any node, starts clean.                         *)
LeavesNothing ==
    \A t \in Thread : todo[t] = <<>> =>
        /\ binding[t] = None
        /\ saved[t] = <<>>
        /\ \A n \in Node : holder[n] # t
        /\ \A m \in Mutex : mutex[m] # t

\* The mutex a thread is about to lock; a re-entrant lockNode waits for none.
WantedMutex(t) ==
    IF todo[t] = <<>> THEN {}
    ELSE LET n == TheNode(t)
         IN  CASE At(t, "lockNode") -> IF holder[n] = t THEN {} ELSE {<<n, "node">>}
               [] At(t, "lock") -> {<<n, Head(todo[t]).kind>>}
               [] OTHER -> {}

\* The deadlock that NewSimDvRouter describes: t, in a command, holds the mutex
\* of the router of n and wants nodeMu; u, in a heartbeat, a deadcheck, an Init
\* or a seeding that withNodeFib wraps, holds nodeMu and wants that mutex.
Abba(t, u, n) ==
    /\ mutex[<<n, "dv">>] = t /\ <<n, "node">> \in WantedMutex(t)
    /\ mutex[<<n, "node">>] = u /\ <<n, "dv">> \in WantedMutex(u)

SomeAbba == \E t, u \in Thread, n \in Node : Abba(t, u, n)

(* Threads wait for each other's locks in one way only, the one that dv.go  *)
(* names (comment of makeGoFunc) and keeps out of GoFunc but not out of the *)
(* heartbeat, the deadcheck, Init and seeding.  faceMu is in no such circle,*)
(* and nodeMu may be taken again by its holder (comment of withNodeFib).    *)
DeadlockOnlyAbba ==
    \A S \in (SUBSET Thread) \ {{}} :
        (\A t \in S : \E m \in WantedMutex(t) : mutex[m] \in S)
        => \E t, u \in S, n \in Node : Abba(t, u, n)

(* Every management command of a router is executed: none is left in the    *)
(* channel of nfdc, whose goroutine simulation never starts (inject.go,     *)
(* Router.Init and simExec).                                                *)
CommandsExecuted == stranded = {}

(* Every call comes to its end, unless two threads meet in the deadlock of  *)
(* dv.go.                                                                   *)
CallsReturn == \A t \in Thread : []<>(todo[t] = <<>> \/ SomeAbba)
=============================================================================
