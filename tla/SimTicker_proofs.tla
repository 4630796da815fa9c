--------------------------- MODULE SimTicker_proofs -------------------------
(***************************************************************************)
(* SimTicker has one chain of ticks and implements Ticker, for any periods *)
(* and any number of resets.                                               *)
(*                                                                         *)
(* What makes it work: every tick the clock holds has captured the current *)
(* version and is the one that t.cancel cancels, and while the version of  *)
(* the running handler is still current nothing is scheduled.              *)
(***************************************************************************)
EXTENDS SimTicker, TLAPS

Captured == \A e \in events : e.version = version /\ e.handle = cancel

HandlerOpen ==
    /\ running = {} \/ \E v \in Nat : running = {v} /\ v <= version
    /\ version \in running => events = {} /\ ~stopped

IInv == TypeOK /\ OneChain /\ TicksUnlessStopped /\ Captured /\ HandlerOpen

\* A tick scheduled when the clock holds none.
LEMMA Scheduled ==
    ASSUME NEW d \in Nat, NEW v \in Nat, Schedule({}, d, v)
    PROVE  /\ events' \subseteq Event /\ events' # {} /\ cancel' \in Handle
           /\ \A e \in events' : e.version = v /\ e.handle = cancel'
           /\ {e.left : e \in events'} = {d}
           /\ OneChain'
<1>1. PICK h \in Handle : events' = {Tick(h, d, v)} /\ cancel' = h
  BY DEF Schedule
<1>2. /\ Tick(h, d, v) \in Event /\ Tick(h, d, v).left = d
      /\ Tick(h, d, v).version = v /\ Tick(h, d, v).handle = h
  BY DEF Tick, Event
<1> HIDE DEF Tick
<1>3. OneChain'
  BY <1>1 DEF OneChain
<1>4. {e.left : e \in events'} = {d}
  BY <1>1, <1>2
<1> QED  BY <1>1, <1>2, <1>3, <1>4

\* Reset and Stop leave no tick of the old chain.
LEMMA NoneLeft == ASSUME Captured PROVE Cancelled = {}
BY DEF Captured, Cancelled

(* The initial states satisfy the invariant. *)
THEOREM InitInvariant == Init => IInv
<1> SUFFICES ASSUME Init PROVE IInv
  OBVIOUS
<1>1. /\ period \in Nat /\ cancel \in Handle /\ version = 0 /\ running = {}
      /\ events = {Tick(cancel, period, 0)}
  BY ConstantsAssumption DEF Init
<1>4. /\ Tick(cancel, period, 0) \in Event /\ Tick(cancel, period, 0).version = 0
      /\ Tick(cancel, period, 0).handle = cancel
  BY <1>1 DEF Tick, Event
<1>2. TypeOK
  <2>1. period \in Period /\ stopped = FALSE /\ callback = FALSE
    BY DEF Init
  <2> QED  BY <2>1, <1>1, <1>4 DEF TypeOK
<1>3. OneChain /\ TicksUnlessStopped /\ Captured /\ HandlerOpen
  BY <1>1, <1>4 DEF Init, OneChain, TicksUnlessStopped, Captured, HandlerOpen
<1> QED  BY <1>2, <1>3 DEF IInv

(* The invariant is inductive: one step for each action. *)
THEOREM NextInvariant == IInv /\ [Next]_vars => IInv'
<1> SUFFICES ASSUME IInv, [Next]_vars PROVE IInv'
  OBVIOUS
<1>1. TypeOK /\ OneChain /\ TicksUnlessStopped /\ Captured /\ HandlerOpen
  BY DEF IInv
<1> USE DEF OneChain, TicksUnlessStopped, Captured, HandlerOpen
<1>2. CASE UNCHANGED vars
  BY <1>1, <1>2 DEF IInv, vars, TypeOK
<1>3. CASE SimStart
  BY <1>1, <1>3 DEF IInv, SimStart, TypeOK
<1>4. CASE Stop
  <2>1. /\ events' = {} /\ version' = version + 1 /\ stopped' = TRUE
        /\ cancel' = NoHandle /\ UNCHANGED <<period, callback, running>>
    BY <1>1, <1>4, NoneLeft DEF Stop
  <2>2. TypeOK'
    BY <2>1, <1>1 DEF TypeOK
  <2>3. version' \notin running'
    BY <2>1, <1>1 DEF TypeOK
  <2> QED  BY <2>1, <2>2, <2>3, <1>1 DEF IInv, TypeOK
<1>5. ASSUME NEW d \in Period, Reset(d) PROVE IInv'
  <2>1. /\ Schedule({}, d, version + 1) /\ version' = version + 1
        /\ stopped' = FALSE /\ period' = d /\ UNCHANGED <<callback, running>>
    BY <1>1, <1>5, NoneLeft DEF Reset
  <2>2. d \in Nat /\ version \in Nat /\ version + 1 \in Nat
    BY <1>1, ConstantsAssumption DEF TypeOK
  <2>3. /\ events' \subseteq Event /\ events' # {} /\ cancel' \in Handle
        /\ \A e \in events' : e.version = version + 1 /\ e.handle = cancel'
        /\ OneChain'
    BY <2>1, <2>2, Scheduled
  <2>4. TypeOK'
    BY <2>1, <2>2, <2>3, <1>1 DEF TypeOK
  <2>5. version' \notin running'
    BY <2>1, <2>2, <1>1
  <2>6. OneChain' /\ TicksUnlessStopped' /\ Captured'
    BY <2>1, <2>3
  <2>7. HandlerOpen'
    BY <2>1, <2>2, <2>5, <1>1
  <2> QED  BY <2>4, <2>6, <2>7 DEF IInv
<1>6. CASE Elapse
  <2>1. /\ running = {} /\ \A e \in events : e.left > 0
        /\ events' = {[e EXCEPT !.left = @ - 1] : e \in events}
        /\ UNCHANGED <<cancel, period, version, stopped, callback, running>>
    BY <1>6 DEF Elapse
  <2>2. ASSUME NEW e \in events
        PROVE  /\ [e EXCEPT !.left = @ - 1] \in Event
               /\ [e EXCEPT !.left = @ - 1].version = e.version
               /\ [e EXCEPT !.left = @ - 1].handle = e.handle
    BY <2>1, <1>1 DEF TypeOK, Event
  <2>3. TypeOK'
    BY <2>1, <2>2, <1>1 DEF TypeOK
  <2>4. OneChain' /\ TicksUnlessStopped'
    BY <2>1, <1>1
  <2>5. Captured'
    BY <2>1, <2>2, <1>1
  <2>6. HandlerOpen'
    BY <2>1, <1>1
  <2> QED  BY <2>3, <2>4, <2>5, <2>6 DEF IInv
<1>7. CASE Fire
  <2>1. PICK f \in events :
           /\ f.left = 0
           /\ IF ~stopped /\ ~callback
              THEN Schedule(events \ {f}, period, version) /\ UNCHANGED running
              ELSE /\ events' = events \ {f}
                   /\ running' = IF stopped THEN {} ELSE {f.version}
                   /\ UNCHANGED cancel
    BY <1>7 DEF Fire
  <2>2. events \ {f} = {} /\ ~stopped /\ f.version = version /\ running = {}
    BY <1>1, <1>7 DEF Fire
  <2>3. UNCHANGED <<period, version, stopped, callback>>
    BY <1>7 DEF Fire
  <2>4. CASE callback
    <3>1. events' = {} /\ running' = {version} /\ UNCHANGED cancel
      BY <2>1, <2>2, <2>4
    <3>2. TypeOK'
      BY <3>1, <2>3, <1>1 DEF TypeOK
    <3> QED  BY <3>1, <3>2, <2>2, <2>3, <1>1 DEF IInv, TypeOK
  <2>5. CASE ~callback
    <3>1. Schedule({}, period, version) /\ UNCHANGED running
      BY <2>1, <2>2, <2>5
    <3>2. period \in Nat /\ version \in Nat
      BY <1>1, ConstantsAssumption DEF TypeOK
    <3>3. /\ events' \subseteq Event /\ events' # {} /\ cancel' \in Handle
          /\ \A e \in events' : e.version = version /\ e.handle = cancel'
          /\ OneChain'
      BY <3>1, <3>2, Scheduled
    <3>4. TypeOK'
      BY <3>1, <3>2, <3>3, <2>3, <1>1 DEF TypeOK
    <3>5. OneChain' /\ TicksUnlessStopped' /\ Captured'
      BY <3>3, <2>2, <2>3
    <3>6. HandlerOpen'
      BY <3>1, <2>2, <2>3
    <3> QED  BY <3>4, <3>5, <3>6 DEF IInv
  <2> QED  BY <2>4, <2>5
<1>8. CASE CallbackReturns
  <2>1. running # {} /\ running' = {} /\ UNCHANGED <<period, version, stopped, callback>>
    BY <1>8 DEF CallbackReturns
  <2>2. CASE version \in running
    <3>1. events = {} /\ ~stopped /\ Schedule({}, period, version)
      BY <2>2, <1>1, <1>8 DEF CallbackReturns
    <3>2. period \in Nat /\ version \in Nat
      BY <1>1, ConstantsAssumption DEF TypeOK
    <3>3. /\ events' \subseteq Event /\ events' # {} /\ cancel' \in Handle
          /\ \A e \in events' : e.version = version /\ e.handle = cancel'
          /\ OneChain'
      BY <3>1, <3>2, Scheduled
    <3>4. TypeOK'
      BY <3>2, <3>3, <2>1, <1>1 DEF TypeOK
    <3>5. OneChain' /\ TicksUnlessStopped' /\ Captured' /\ HandlerOpen'
      BY <3>1, <3>3, <2>1
    <3> QED  BY <3>4, <3>5 DEF IInv
  <2>3. CASE version \notin running
    <3>1. UNCHANGED <<events, cancel>>
      BY <2>3, <1>8 DEF CallbackReturns
    <3>2. TypeOK'
      BY <3>1, <2>1, <1>1 DEF TypeOK
    <3>3. TicksUnlessStopped'
      BY <3>1, <2>1, <2>3, <1>1
    <3> QED  BY <3>1, <3>2, <3>3, <2>1, <1>1 DEF IInv
  <2> QED  BY <2>2, <2>3
<1> QED  BY <1>2, <1>3, <1>4, <1>5, <1>6, <1>7, <1>8 DEF Next

(* Every reachable state satisfies the invariant. *)
THEOREM Invariance == Spec => []IInv
BY InitInvariant, NextInvariant, PTL DEF Spec

(* There is never a second chain of ticks, however often a handler resets   *)
(* its own ticker.                                                          *)
THEOREM SingleChain == Spec => []OneChain
<1>1. IInv => OneChain
  BY DEF IInv
<1> QED  BY <1>1, Invariance, PTL

(* No tick is ahead of a stopped ticker and one is ahead of any other.      *)
THEOREM StopsAndTicks == Spec => []TicksUnlessStopped
<1>1. IInv => TicksUnlessStopped
  BY DEF IInv
<1> QED  BY <1>1, Invariance, PTL
-----------------------------------------------------------------------------
(* Every step of SimTicker is a step of Ticker or a stutter. *)
THEOREM StepRefines == IInv /\ IInv' /\ [Next]_vars => [ATicker!Next]_(ATicker!vars)
<1> SUFFICES ASSUME IInv, IInv', [Next]_vars PROVE [ATicker!Next]_(ATicker!vars)
  OBVIOUS
<1> USE DEF ATicker!vars, ATicker!Next
<1>1. TypeOK /\ OneChain /\ TicksUnlessStopped /\ Captured /\ HandlerOpen
  BY DEF IInv
<1>2. CASE UNCHANGED vars
  BY <1>2 DEF vars
<1>3. CASE SimStart
  BY <1>3 DEF SimStart
<1>4. CASE Stop
  <2>1. /\ events' = {} /\ version' = version + 1 /\ UNCHANGED <<period, running>>
    BY <1>1, <1>4, NoneLeft DEF Stop
  <2>2. version' \notin running'
    BY <2>1, <1>1 DEF TypeOK, HandlerOpen
  <2> QED  BY <2>1, <2>2 DEF ATicker!Stop
<1>5. ASSUME NEW d \in Period, Reset(d) PROVE ATicker!Reset(d)
  <2>1. /\ Schedule({}, d, version + 1) /\ version' = version + 1
        /\ period' = d /\ UNCHANGED running
    BY <1>1, <1>5, NoneLeft DEF Reset
  <2>2. d \in Nat /\ version \in Nat /\ version + 1 \in Nat
    BY <1>1, ConstantsAssumption DEF TypeOK
  <2>3. {e.left : e \in events'} = {d}
    BY <2>1, <2>2, Scheduled
  <2>4. version' \notin running'
    BY <2>1, <2>2, <1>1 DEF HandlerOpen
  <2> QED  BY <2>1, <2>3, <2>4 DEF ATicker!Reset
<1>6. CASE Elapse
  <2>1. /\ running = {} /\ \A e \in events : e.left > 0
        /\ events' = {[e EXCEPT !.left = @ - 1] : e \in events}
        /\ UNCHANGED <<period, version, running>>
    BY <1>6 DEF Elapse
  <2>2. \A e \in events : [e EXCEPT !.left = @ - 1].left = e.left - 1
    BY <1>1 DEF TypeOK, Event
  <2>3. {e.left : e \in events'} = {d - 1 : d \in {e.left : e \in events}}
    <3>1. ASSUME NEW x \in events' PROVE \E e \in events : x.left = e.left - 1
      <4>1. PICK e \in events : x = [e EXCEPT !.left = @ - 1]
        BY <2>1
      <4> QED  BY <4>1, <2>2
    <3>2. ASSUME NEW e \in events PROVE \E x \in events' : x.left = e.left - 1
      <4>1. [e EXCEPT !.left = @ - 1] \in events'
        BY <2>1
      <4> QED  BY <4>1, <2>2
    <3> QED  BY <3>1, <3>2
  <2>4. {e.left : e \in events} # {0}
    BY <2>1
  <2> QED  BY <2>1, <2>3, <2>4 DEF ATicker!Elapse
<1>7. CASE Fire
  <2>1. PICK e \in events :
           /\ e.left = 0
           /\ IF ~stopped /\ ~callback
              THEN Schedule(events \ {e}, period, version) /\ UNCHANGED running
              ELSE /\ events' = events \ {e}
                   /\ running' = IF stopped THEN {} ELSE {e.version}
                   /\ UNCHANGED cancel
    BY <1>7 DEF Fire
  <2>2. /\ events = {e} /\ events \ {e} = {} /\ ~stopped /\ e.version = version
        /\ running = {} /\ UNCHANGED <<period, version>>
    BY <1>1, <1>7 DEF Fire, OneChain, TicksUnlessStopped, Captured
  <2>3. {x.left : x \in events} = {0}
    BY <2>1, <2>2
  <2>4. CASE callback
    <3>1. events' = {} /\ running' = {version}
      BY <2>1, <2>2, <2>4
    <3>2. {x.left : x \in events'} = {}
      BY <3>1
    <3> QED  BY <3>1, <3>2, <2>2, <2>3 DEF ATicker!Tick
  <2>5. CASE ~callback
    <3>1. Schedule({}, period, version) /\ UNCHANGED running
      BY <2>1, <2>2, <2>5
    <3>2. period \in Nat /\ version \in Nat
      BY <1>1, ConstantsAssumption DEF TypeOK
    <3>3. {x.left : x \in events'} = {period}
      BY <3>1, <3>2, Scheduled
    <3> QED  BY <3>1, <3>3, <2>2, <2>3 DEF ATicker!Skip
  <2> QED  BY <2>4, <2>5
<1>8. CASE CallbackReturns
  <2>1. running # {} /\ running' = {} /\ UNCHANGED <<period, version>>
    BY <1>8 DEF CallbackReturns
  <2>2. CASE version \in running
    <3>1. Schedule({}, period, version)
      BY <2>2, <1>1, <1>8 DEF CallbackReturns, HandlerOpen
    <3>2. period \in Nat /\ version \in Nat
      BY <1>1, ConstantsAssumption DEF TypeOK
    <3>3. {x.left : x \in events'} = {period}
      BY <3>1, <3>2, Scheduled
    <3> QED  BY <3>3, <2>1, <2>2 DEF ATicker!Handled
  <2>3. CASE version \notin running
    <3>1. UNCHANGED events
      BY <2>3, <1>8 DEF CallbackReturns
    <3> QED  BY <3>1, <2>1, <2>3 DEF ATicker!Handled
  <2> QED  BY <2>2, <2>3
<1> QED  BY <1>2, <1>3, <1>4, <1>5, <1>6, <1>7, <1>8 DEF Next

(* SimTicker implements the periodic ticker that time.Ticker's users expect. *)
THEOREM Refinement == Spec => ImplementsTicker
<1>1. Init => ATicker!Init
  BY DEF Init, Tick, ATicker!Init
<1> QED  BY <1>1, StepRefines, Invariance, PTL DEF Spec, ImplementsTicker, ATicker!Spec
=============================================================================
