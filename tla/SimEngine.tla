------------------------------ MODULE SimEngine -----------------------------
(***************************************************************************)
(* The application engine of a node (go/overlay/sim/engine.go): Express    *)
(* with its table of pending Interests, the timeout each of them schedules,*)
(* the Data that comes back, and the start and stop of the engine and of   *)
(* its face (face.go).                                                     *)
(*                                                                         *)
(* Express is called by goroutines and by callbacks at any moment; every   *)
(* timeout, every delivery of a Data (node.go schedules it on the clock)   *)
(* and every Start and Stop is a piece of work of the simulator thread,    *)
(* which finishes one before it begins the next.                           *)
(* An Express without a callback leaves no state in the engine and is left *)
(* out.                                                                    *)
(***************************************************************************)
EXTENDS Naturals, Sequences

CONSTANTS
    Expr,       \* calls of Express with a callback
    None,       \* no pending Interest
    MaxToken,   \* bound on the PIT tokens drawn
    MaxStarts   \* bound on the calls of Start

ASSUME ConstantsAssumption ==
    /\ None \notin Expr
    /\ MaxToken \in Nat
    /\ MaxStarts \in Nat

Token == 1..MaxToken

VARIABLES
    running,        \* SimEngine.running
    faceRunning,    \* SimFace.running
    pitSeq,         \* SimEngine.pitSeq
    pit,            \* SimEngine.pit, by token
    pc,             \* how far each Express is, and how it returned
    token,          \* the PIT token an Express has drawn, 0 before
    timer,          \* the timeout of each Express on the node's clock
    sent,           \* external: Interests the forwarder may still answer
    sim,            \* the work the simulator thread is in the middle of
    clockAlive,     \* external: the node's clock can still be reached
    starts,         \* the calls of Start so far
    answers,        \* history: the callbacks each Express has received
    servedBy        \* history: whose Data an Express was given

control == <<running, faceRunning, clockAlive, starts>>
history == <<answers, servedBy>>
vars == <<control, pitSeq, pit, pc, token, timer, sent, sim, history>>

Idle == [act |-> "idle", expr |-> None]
Work(act, x) == [act |-> act, expr |-> x]

TypeOK ==
    /\ running \in BOOLEAN
    /\ faceRunning \in BOOLEAN
    /\ clockAlive \in BOOLEAN
    /\ starts \in 0..MaxStarts
    /\ pitSeq \in 0..MaxToken
    /\ pit \in [Token -> Expr \cup {None}]
    /\ pc \in [Expr -> {"new", "checked", "registered", "undoing",
                      "ok", "error", "sendError"}]
    /\ token \in [Expr -> 0..MaxToken]
    /\ timer \in [Expr -> {"none", "armed", "cancelled", "done", "lost"}]
    /\ sent \in SUBSET Expr
    /\ sim \in [act : {"timer", "timeout", "data"}, expr : Expr] \cup
               [act : {"idle", "opened", "stopping"}, expr : {None}]
    /\ answers \in [Expr -> Seq({"data", "timeout"})]
    /\ servedBy \in [Expr -> Expr \cup {None}]

Init ==
    /\ running = FALSE
    /\ faceRunning = FALSE
    /\ clockAlive = TRUE
    /\ starts = 0
    /\ pitSeq = 0
    /\ pit = [k \in Token |-> None]
    /\ pc = [x \in Expr |-> "new"]
    /\ token = [x \in Expr |-> 0]
    /\ timer = [x \in Expr |-> "none"]
    /\ sent = {}
    /\ sim = Idle
    /\ answers = [x \in Expr |-> <<>>]
    /\ servedBy = [x \in Expr |-> None]
-----------------------------------------------------------------------------
(***************************************************************************)
(* Express: the check, the critical section that draws the token, schedules*)
(* the timeout and inserts the entry, and the hand-over to the face.  The  *)
(* steps of other threads may come between any two of them.                *)
(***************************************************************************)
ExpressCheck(x) ==
    /\ pc[x] = "new"
    /\ pc' = [pc EXCEPT ![x] = IF running /\ faceRunning THEN "checked" ELSE "error"]
    /\ UNCHANGED <<control, pitSeq, pit, token, timer, sent, sim, history>>

\* Fault: the entry is published without its timeout.
ExpressRegisterUntimed(x) ==
    /\ pc[x] = "checked"
    /\ pitSeq < MaxToken
    /\ pitSeq' = pitSeq + 1
    /\ token' = [token EXCEPT ![x] = pitSeq']
    /\ pit' = [pit EXCEPT ![pitSeq'] = x]
    /\ pc' = [pc EXCEPT ![x] = "registered"]
    /\ UNCHANGED <<control, timer, sent, sim, history>>

\* A timeout scheduled on the clock of a node that is gone never fires.
ExpressRegister(x) ==
    /\ pc[x] = "checked"
    /\ pitSeq < MaxToken
    /\ pitSeq' = pitSeq + 1
    /\ token' = [token EXCEPT ![x] = pitSeq']
    /\ timer' = [timer EXCEPT ![x] = IF clockAlive THEN "armed" ELSE "lost"]
    /\ pit' = [pit EXCEPT ![pitSeq'] = x]
    /\ pc' = [pc EXCEPT ![x] = "registered"]
    /\ UNCHANGED <<control, sent, sim, history>>

ExpressSend(x) ==
    /\ pc[x] = "registered"
    /\ IF faceRunning
       THEN /\ sent' = sent \cup {x}
            /\ pc' = [pc EXCEPT ![x] = "ok"]
       ELSE /\ pc' = [pc EXCEPT ![x] = "sendError"]
            /\ UNCHANGED sent
    /\ UNCHANGED <<control, pitSeq, pit, token, timer, sim, history>>

\* What timer[x] becomes when its cancel function is called: only a timeout
\* that has not fired yet can be stopped.
Cancelled(x) == IF timer[x] = "armed" THEN "cancelled" ELSE timer[x]

\* The LP packet cannot be encoded: cancel the timeout and, in a second
\* critical section, remove the entry and return the error.
EncodeFails(x) ==
    /\ pc[x] = "registered"
    /\ timer' = [timer EXCEPT ![x] = Cancelled(x)]
    /\ pc' = [pc EXCEPT ![x] = "undoing"]
    /\ UNCHANGED <<control, pitSeq, pit, token, sent, sim, history>>

EncodeFailsRemove(x) ==
    /\ pc[x] = "undoing"
    /\ pit' = [pit EXCEPT ![token[x]] = None]
    /\ pc' = [pc EXCEPT ![x] = "error"]
    /\ UNCHANGED <<control, pitSeq, token, timer, sent, sim, history>>
-----------------------------------------------------------------------------
(***************************************************************************)
(* The timeout: the clock takes the function out, the function takes the   *)
(* entry of its own token under the lock, and calls its own callback only  *)
(* if the entry was still there.                                           *)
(***************************************************************************)
TimerFires(x) ==
    /\ sim = Idle
    /\ timer[x] = "armed"
    /\ timer' = [timer EXCEPT ![x] = "done"]
    /\ sim' = Work("timer", x)
    /\ UNCHANGED <<control, pitSeq, pit, pc, token, sent, history>>

\* Fault: the timeout calls back without looking for its entry.
TimerTakesAlways ==
    /\ sim.act = "timer"
    /\ sim' = Work("timeout", sim.expr)
    /\ pit' = [pit EXCEPT ![token[sim.expr]] = None]
    /\ UNCHANGED <<control, pitSeq, pc, token, timer, sent, history>>

TimerTakes ==
    /\ sim.act = "timer"
    /\ LET x == sim.expr
       IN  /\ sim' = IF pit[token[x]] # None THEN Work("timeout", x) ELSE Idle
           /\ pit' = [pit EXCEPT ![token[x]] = None]
    /\ UNCHANGED <<control, pitSeq, pc, token, timer, sent, history>>

TimeoutCallback ==
    /\ sim.act = "timeout"
    /\ answers' = [answers EXCEPT ![sim.expr] = Append(@, "timeout")]
    /\ sim' = Idle
    /\ UNCHANGED <<control, pitSeq, pit, pc, token, timer, sent, servedBy>>

(***************************************************************************)
(* A Data comes back with the token of the Interest of x.  onPacket and    *)
(* SimFace.Receive do not ask whether the engine runs.                     *)
(***************************************************************************)
OnData(x) ==
    /\ sim = Idle
    /\ x \in sent
    /\ sent' = sent \ {x}
    /\ LET pi == pit[token[x]]
       IN  IF pi = None THEN UNCHANGED <<sim, servedBy>>
           ELSE /\ sim' = Work("data", pi)
                /\ servedBy' = [servedBy EXCEPT ![pi] = x]
    /\ pit' = [pit EXCEPT ![token[x]] = None]
    /\ UNCHANGED <<control, pitSeq, pc, token, timer, answers>>

\* Fault: the timeout of an answered Interest is left on the clock.
DataCallbackKeepsTimer ==
    /\ sim.act = "data"
    /\ answers' = [answers EXCEPT ![sim.expr] = Append(@, "data")]
    /\ sim' = Idle
    /\ UNCHANGED <<control, pitSeq, pit, pc, token, timer, sent, servedBy>>

DataCallback ==
    /\ sim.act = "data"
    /\ timer' = [timer EXCEPT ![sim.expr] = Cancelled(sim.expr)]
    /\ answers' = [answers EXCEPT ![sim.expr] = Append(@, "data")]
    /\ sim' = Idle
    /\ UNCHANGED <<control, pitSeq, pit, pc, token, sent, servedBy>>

\* External: the forwarder drops the Interest, or its answer.
NoAnswer(x) ==
    /\ x \in sent
    /\ sent' = sent \ {x}
    /\ UNCHANGED <<control, pitSeq, pit, pc, token, timer, sim, history>>
-----------------------------------------------------------------------------
(***************************************************************************)
(* Start opens the face and then sets running; Stop clears running and then*)
(* closes the face.  Neither touches the table of pending Interests.       *)
(***************************************************************************)
StartOpens ==
    /\ sim = Idle
    /\ clockAlive
    /\ ~faceRunning
    /\ starts < MaxStarts
    /\ starts' = starts + 1
    /\ faceRunning' = TRUE
    /\ sim' = Work("opened", None)
    /\ UNCHANGED <<running, clockAlive, pitSeq, pit, pc, token, timer, sent, history>>

\* Fault: a new run of the engine numbers its tokens from the beginning.
StartRunsAfresh ==
    /\ sim.act = "opened"
    /\ running' = TRUE
    /\ pitSeq' = 0
    /\ pit' = [k \in Token |-> None]
    /\ sim' = Idle
    /\ UNCHANGED <<faceRunning, clockAlive, starts, pc, token, timer, sent, history>>

StartRuns ==
    /\ sim.act = "opened"
    /\ running' = TRUE
    /\ sim' = Idle
    /\ UNCHANGED <<faceRunning, clockAlive, starts, pitSeq, pit, pc, token, timer,
                   sent, history>>

StopClears ==
    /\ sim = Idle
    /\ running
    /\ running' = FALSE
    /\ sim' = Work("stopping", None)
    /\ UNCHANGED <<faceRunning, clockAlive, starts, pitSeq, pit, pc, token, timer,
                   sent, history>>

StopCloses ==
    /\ sim.act = "stopping"
    /\ faceRunning' = FALSE
    /\ sim' = Idle
    /\ UNCHANGED <<running, clockAlive, starts, pitSeq, pit, pc, token, timer, sent,
                   history>>

\* External: the node is destroyed after its Stop; what its clock still held,
\* timeouts and deliveries of Data, never runs.
ClockGone ==
    /\ sim = Idle
    /\ clockAlive
    /\ ~running
    /\ starts > 0
    /\ clockAlive' = FALSE
    /\ timer' = [x \in Expr |-> IF timer[x] = "armed" THEN "lost" ELSE timer[x]]
    /\ sent' = {}
    /\ UNCHANGED <<running, faceRunning, starts, pitSeq, pit, pc, token, sim, history>>
-----------------------------------------------------------------------------
Express(x) ==
    \/ ExpressCheck(x)
    \/ ExpressRegister(x)
    \/ ExpressSend(x)
    \/ EncodeFails(x)
    \/ EncodeFailsRemove(x)

SimWork == TimerTakes \/ TimeoutCallback \/ DataCallback \/ StartRuns \/ StopCloses

Control == StartOpens \/ StopClears \/ ClockGone

Next ==
    \/ \E x \in Expr : Express(x) \/ TimerFires(x) \/ OnData(x) \/ NoAnswer(x)
    \/ SimWork
    \/ Control

Spec == Init /\ [][Next]_vars

(***************************************************************************)
(* A goroutine in the middle of Express goes on, the simulator thread      *)
(* finishes what it began, and the scheduler runs every event in the end,  *)
(* however much other work the simulator thread finds in between.  Nothing *)
(* is assumed of the network, of Start, Stop or the life of the node.      *)
(***************************************************************************)
Fairness ==
    /\ \A x \in Expr : WF_vars(pc[x] # "new" /\ Express(x))
    /\ WF_vars(SimWork)
    /\ \A x \in Expr : SF_vars(TimerFires(x))

FairSpec == Spec /\ Fairness
-----------------------------------------------------------------------------
(***************************************************************************)
(* Properties                                                              *)
(***************************************************************************)
\* The Data an Express is given is the answer to its own Interest, also when
\* the engine was stopped and started since.
OwnData == \A x \in Expr : servedBy[x] \in {None, x}

\* A pending Interest cannot be forgotten: as long as its entry is in the
\* table, its timeout is still to come, or being run, or the failing Express
\* is about to take the entry back.
EntryBacked ==
    clockAlive =>
        \A k \in Token : pit[k] # None =>
            \/ timer[pit[k]] = "armed"
            \/ sim = Work("timer", pit[k])
            \/ pc[pit[k]] = "undoing"

\* A timeout that can still fire belongs to an Express that is pending or is
\* just getting its Data: none is left behind to fire for nothing.
NoIdleTimeout ==
    \A x \in Expr : timer[x] = "armed" =>
        pit[token[x]] = x \/ sim = Work("data", x)

\* Every accepted Interest is answered in the end, unless its node goes away.
EventuallyAnswered ==
    \A x \in Expr :
        (pc[x] = "registered") ~> \/ answers[x] # <<>>
                                  \/ pc[x] = "error"
                                  \/ ~clockAlive

\* The contract stated in Express: exactly one of an error and a callback is
\* delivered, so a call whose Send failed is not called back later
\* (engine.go:249-253 and the return at 262).
ErrorExcludesCallback ==
    \A x \in Expr : pc[x] = "sendError" => answers[x] = <<>>

(***************************************************************************)
(* The engine implements PendingInterest.  A call is decided when its entry*)
(* is taken out of the table.                                              *)
(***************************************************************************)
OutcomeOf(x) ==
    IF pc[x] \in {"new", "checked"} THEN "new"
    ELSE IF sim = Work("data", x) \/ answers[x] = <<"data">> THEN "data"
    ELSE IF sim = Work("timeout", x) \/ answers[x] = <<"timeout">> THEN "timeout"
    ELSE IF token[x] = 0 \/ pit[token[x]] # x THEN "refused"
    ELSE "waiting"

Outcomes == [x \in Expr |-> OutcomeOf(x)]

Promise == INSTANCE PendingInterest WITH outcome <- Outcomes

\* The engine behaves like the abstract Express: one callback at most, and no
\* change of mind, whatever the order in which Data, timeout, failure and
\* restart of the engine come.
ImplementsPromise == Promise!Spec
=============================================================================
