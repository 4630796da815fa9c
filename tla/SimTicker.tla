------------------------------ MODULE SimTicker -----------------------------
(***************************************************************************)
(* simTicker (transform/inject.go), which stands for time.Ticker in the    *)
(* state vector sync of a simulation: every tick is an event of the clock  *)
(* that schedules the next one itself, unless the handler it called has    *)
(* reset or stopped the ticker, which version tells it.                    *)
(*                                                                         *)
(* Ticker, handler and clock run on the simulator thread.  The channel of  *)
(* the ticker is left out: in a simulation nobody reads it.                *)
(***************************************************************************)
EXTENDS Naturals, FiniteSets

CONSTANTS
    Period,
    Handle,         \* events of the clock; none is used again while it is known
    NoHandle,       \* cancel is nil
    MaxVersion      \* bound on the calls of Reset and Stop

ASSUME ConstantsAssumption ==
    /\ Period \subseteq Nat \ {0}
    /\ NoHandle \notin Handle
    /\ MaxVersion \in Nat

VARIABLES
    events,     \* the ticks the clock holds: time left and version captured
    cancel,     \* the event that t.cancel cancels
    period,
    version,
    stopped,
    callback,   \* ticks call the handler (TRUE) or go to the channel (FALSE)
    running     \* the version captured by the tick whose handler runs, if any

vars == <<events, cancel, period, version, stopped, callback, running>>

Event == [handle : Handle, left : Nat, version : Nat]

TypeOK ==
    /\ events \subseteq Event
    /\ cancel \in Handle \cup {NoHandle}
    /\ period \in Period
    /\ version \in Nat
    /\ stopped \in BOOLEAN
    /\ callback \in BOOLEAN
    /\ running \subseteq Nat

Free(h) == h # cancel /\ \A e \in events : e.handle # h

Tick(h, d, v) == [handle |-> h, left |-> d, version |-> v]

\* newSimTicker schedules the first tick.
Init ==
    /\ period \in Period
    /\ cancel \in Handle
    /\ events = {Tick(cancel, period, 0)}
    /\ version = 0
    /\ stopped = FALSE
    /\ callback = FALSE
    /\ running = {}

\* schedule: a tick is added to some events, and t.cancel is for it.
Schedule(others, d, v) ==
    \E h \in Handle :
        /\ Free(h)
        /\ events' = others \cup {Tick(h, d, v)}
        /\ cancel' = h

\* simStart sets the handler of the ticks.
SimStart ==
    /\ ~callback
    /\ callback' = TRUE
    /\ UNCHANGED <<events, cancel, period, version, stopped, running>>

Cancelled == {e \in events : e.handle # cancel}

\* Fault: the version stays the same.
ResetUnversioned(d) ==
    /\ version < MaxVersion
    /\ stopped' = FALSE
    /\ period' = d
    /\ Schedule(Cancelled, d, version)
    /\ UNCHANGED <<version, callback, running>>

Reset(d) ==
    /\ version < MaxVersion
    /\ version' = version + 1
    /\ stopped' = FALSE
    /\ period' = d
    /\ Schedule(Cancelled, d, version + 1)
    /\ UNCHANGED <<callback, running>>

\* Fault: the version stays the same.
StopUnversioned ==
    /\ version < MaxVersion
    /\ stopped' = TRUE
    /\ events' = Cancelled
    /\ cancel' = NoHandle
    /\ UNCHANGED <<version, period, callback, running>>

Stop ==
    /\ version < MaxVersion
    /\ version' = version + 1
    /\ stopped' = TRUE
    /\ events' = Cancelled
    /\ cancel' = NoHandle
    /\ UNCHANGED <<period, callback, running>>
-----------------------------------------------------------------------------
Elapse ==
    /\ running = {}
    /\ \A e \in events : e.left > 0
    /\ events' = {[e EXCEPT !.left = @ - 1] : e \in events}
    /\ UNCHANGED <<cancel, period, version, stopped, callback, running>>

\* An event that is due is taken from the clock and run; with a handler, the
\* next tick waits until it has returned.
Fire ==
    /\ running = {}
    /\ \E e \in events :
        /\ e.left = 0
        /\ IF ~stopped /\ ~callback
           THEN /\ Schedule(events \ {e}, period, version)
                /\ UNCHANGED running
           ELSE /\ events' = events \ {e}
                /\ running' = IF stopped THEN {} ELSE {e.version}
                /\ UNCHANGED cancel
    /\ UNCHANGED <<period, version, stopped, callback>>

\* Fault: nobody goes on after a tick whose handler has done nothing.
CallbackReturnsIdle ==
    /\ running # {}
    /\ running' = {}
    /\ UNCHANGED <<events, cancel, period, version, stopped, callback>>

CallbackReturns ==
    /\ running # {}
    /\ running' = {}
    /\ IF version \in running
       THEN Schedule(events, period, version)
       ELSE UNCHANGED <<events, cancel>>
    /\ UNCHANGED <<period, version, stopped, callback>>

Next ==
    \/ SimStart \/ Stop \/ (\E d \in Period : Reset(d))
    \/ Elapse \/ Fire \/ CallbackReturns

Spec == Init /\ [][Next]_vars

\* The clock runs on, events that are due run, and handlers return.
Fairness == WF_vars(Elapse) /\ WF_vars(Fire) /\ WF_vars(CallbackReturns)

FairSpec == Spec /\ Fairness
-----------------------------------------------------------------------------
(* There is one chain of ticks, whatever a handler does to its own ticker   *)
(* (inject.go, the comment at version).                                     *)
OneChain == \A e, f \in events : e = f

(* A stopped ticker has no tick ahead, and one that is not stopped has one  *)
(* as soon as its handler has returned or has reset it.                     *)
TicksUnlessStopped ==
    /\ stopped => events = {}
    /\ ~stopped /\ (\A v \in running : v # version) => events # {}

ATicker == INSTANCE Ticker WITH
    due <- {e.left : e \in events},
    handling <- running # {},
    touched <- running # {} /\ version \notin running

(* For its user it is a plain periodic ticker: the next tick comes a period *)
(* after the last one or after Reset, never twice and never after Stop.     *)
ImplementsTicker == ATicker!Spec

(* A ticker that is left running with a handler ticks again and again.      *)
KeepsTicking ==
    <>[](callback /\ ~stopped) /\ <>[][version' = version]_vars
        => []<>(running # {})
=============================================================================
