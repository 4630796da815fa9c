---------------------------- MODULE Engine_proofs ---------------------------
(***************************************************************************)
(* Proofs about the two halves of the application engine (engine.go):      *)
(* SimEngine, for any number of calls of Express, tokens and restarts, and *)
(* HandlerTrie, for any names and any handlers.  They share the engine and *)
(* no state.                                                               *)
(***************************************************************************)
EXTENDS SimEngine, HandlerTrie, TLAPS, SequenceTheorems, WellFoundedInduction

(***************************************************************************)
(* The inductive invariant, in named parts.                                *)
(***************************************************************************)
\* A token is drawn once, by a call that has passed its critical section.
Tokens ==
    /\ \A x \in Expr : token[x] <= pitSeq
    /\ \A x \in Expr : token[x] = 0 <=> timer[x] = "none"
    /\ \A x \in Expr : pc[x] \in {"registered", "undoing", "ok", "sendError"} => token[x] # 0
    /\ \A x \in Expr : pc[x] \in {"new", "checked"} => token[x] = 0
    /\ \A x \in Expr : pc[x] = "undoing" => timer[x] # "armed"
    /\ \A x, y \in Expr : token[x] = token[y] /\ token[x] # 0 => x = y

\* An entry belongs to the call that drew its token and has not been called
\* back.
Entries ==
    \A k \in Token : pit[k] # None => token[pit[k]] = k

\* Whether the entry of a call is still in the table.
Held(x) == token[x] # 0 /\ pit[token[x]] = x

\* A call whose entry is in the table has not been called back, and nothing
\* is on the way to do it but its own timeout, which is still to come, is
\* being run, or was cancelled by the failing call itself.
HeldOpen ==
    \A x \in Expr : Held(x) =>
        /\ answers[x] = <<>>
        /\ sim # Work("data", x)
        /\ sim # Work("timeout", x)
        /\ pc[x] # "error"

\* The work in progress is for a call that has drawn its token and not been
\* called back.
WorkOpen ==
    sim.expr # None => token[sim.expr] # 0 /\ answers[sim.expr] = <<>>

\* The timeout being run is not on the clock any more.
TimersDone ==
    sim.act = "timer" => timer[sim.expr] = "done"

\* A call is answered at most once, and only after its entry was inserted.
Answers ==
    /\ \A x \in Expr : answers[x] \in {<<>>, <<"data">>, <<"timeout">>}
    /\ \A x \in Expr : token[x] = 0 => answers[x] = <<>>
    /\ \A x \in Expr : x \in sent => token[x] # 0

IInv == /\ TypeOK
        /\ Tokens
        /\ Entries
        /\ HeldOpen
        /\ WorkOpen
        /\ TimersDone
        /\ Answers
        /\ OwnData
        /\ NoIdleTimeout
        /\ EntryBacked
-----------------------------------------------------------------------------
LEMMA ExpressCheckStep ==
    ASSUME IInv, NEW x \in Expr, ExpressCheck(x)
    PROVE  IInv'
<1> USE ConstantsAssumption DEF IInv, Token
<1>1. TypeOK'
    BY DEF TypeOK, ExpressCheck, Work, control, history
<1>2. Tokens'
    BY DEF TypeOK, Tokens, ExpressCheck, Work, control, history
<1>3. HeldOpen'
    BY DEF TypeOK, Tokens, Entries, HeldOpen, Held, WorkOpen, NoIdleTimeout,
           Answers, ExpressCheck, Work, control, history
<1>4. Entries' /\ WorkOpen' /\ TimersDone' /\ Answers' /\ OwnData' /\ NoIdleTimeout' /\ EntryBacked'
    BY DEF Entries, WorkOpen, TimersDone, Answers, OwnData, NoIdleTimeout,
           EntryBacked, ExpressCheck, control, history
<1> QED
    BY <1>1, <1>2, <1>3, <1>4

LEMMA ExpressRegisterStep ==
    ASSUME IInv, NEW x \in Expr, ExpressRegister(x)
    PROVE  IInv'
<1> USE ConstantsAssumption DEF IInv, Token
<1>1. TypeOK'
    BY DEF TypeOK, ExpressRegister, Work, control, history
<1>2. TimersDone'
    BY DEF TypeOK, TimersDone, WorkOpen, Tokens, ExpressRegister, Work,
           control, history
<1>3. Tokens'
    BY DEF TypeOK, Tokens, ExpressRegister, Work, control, history
<1>4. Entries'
    BY DEF TypeOK, Tokens, Entries, ExpressRegister, Work, control, history
<1>5. HeldOpen'
    BY DEF TypeOK, Tokens, Entries, HeldOpen, Held, WorkOpen, NoIdleTimeout,
           Answers, ExpressRegister, Work, control, history
<1>6. WorkOpen'
    BY DEF TypeOK, Tokens, Entries, HeldOpen, Held, WorkOpen, NoIdleTimeout,
           Answers, ExpressRegister, Work, control, history
<1>7. Answers'
    BY DEF TypeOK, Tokens, WorkOpen, Answers, Entries, ExpressRegister, Work,
           control, history
<1>8. NoIdleTimeout'
    BY DEF TypeOK, NoIdleTimeout, Tokens, Entries, WorkOpen, ExpressRegister,
           Work, control, history
<1>9. EntryBacked'
    BY DEF TypeOK, EntryBacked, Tokens, Entries, HeldOpen, Held,
           ExpressRegister, Work, control, history
<1>10. OwnData'
    BY DEF OwnData, ExpressRegister, control, history
<1> QED
    BY <1>1, <1>2, <1>3, <1>4, <1>5, <1>6, <1>7, <1>8, <1>9, <1>10

LEMMA ExpressSendStep ==
    ASSUME IInv, NEW x \in Expr, ExpressSend(x)
    PROVE  IInv'
<1> USE ConstantsAssumption DEF IInv, Token
<1>1. TypeOK'
    BY ZenonT(40) DEF TypeOK, ExpressSend, Work, control, history
<1>2. Tokens'
    BY DEF TypeOK, Tokens, ExpressSend, Work, control, history
<1>3. HeldOpen'
    BY DEF TypeOK, Tokens, Entries, HeldOpen, Held, WorkOpen, NoIdleTimeout,
           Answers, ExpressSend, Work, control, history
<1>4. Answers'
    BY DEF TypeOK, Tokens, WorkOpen, Answers, Entries, ExpressSend, Work,
           control, history
<1>5. EntryBacked'
    BY DEF TypeOK, EntryBacked, Tokens, Entries, HeldOpen, Held, ExpressSend,
           Work, control, history
<1>6. Entries' /\ WorkOpen' /\ TimersDone' /\ OwnData' /\ NoIdleTimeout'
    BY DEF Entries, WorkOpen, TimersDone, OwnData, NoIdleTimeout, ExpressSend,
           control, history
<1> QED
    BY <1>1, <1>2, <1>3, <1>4, <1>5, <1>6

LEMMA EncodeFailsStep ==
    ASSUME IInv, NEW x \in Expr, EncodeFails(x)
    PROVE  IInv'
<1> USE ConstantsAssumption DEF IInv, Token
<1>1. TypeOK'
    BY DEF TypeOK, EncodeFails, Cancelled, Work, control, history
<1>2. TimersDone'
    BY DEF TypeOK, TimersDone, WorkOpen, Tokens, EncodeFails, Cancelled, Work,
           control, history
<1>3. Tokens'
    BY DEF TypeOK, Tokens, EncodeFails, Cancelled, Work, control, history
<1>4. HeldOpen'
    BY DEF TypeOK, Tokens, Entries, HeldOpen, Held, WorkOpen, NoIdleTimeout,
           Answers, EncodeFails, Cancelled, Work, control, history
<1>5. NoIdleTimeout'
    BY DEF TypeOK, NoIdleTimeout, Tokens, Entries, WorkOpen, EncodeFails,
           Cancelled, Work, control, history
<1>6. EntryBacked'
    BY DEF TypeOK, EntryBacked, Tokens, Entries, HeldOpen, Held, EncodeFails,
           Cancelled, Work, control, history
<1>7. Entries' /\ WorkOpen' /\ Answers' /\ OwnData'
    BY DEF Entries, WorkOpen, Answers, OwnData, EncodeFails, control, history
<1> QED
    BY <1>1, <1>2, <1>3, <1>4, <1>5, <1>6, <1>7

LEMMA EncodeFailsRemoveStep ==
    ASSUME IInv, NEW x \in Expr, EncodeFailsRemove(x)
    PROVE  IInv'
<1> USE ConstantsAssumption DEF IInv, Token
<1>1. TypeOK'
    BY DEF TypeOK, EncodeFailsRemove, Work, control, history
<1>2. Tokens'
    BY DEF TypeOK, Tokens, EncodeFailsRemove, Work, control, history
<1>3. Entries'
    BY DEF TypeOK, Tokens, Entries, EncodeFailsRemove, Work, control, history
<1>4. HeldOpen'
    BY DEF TypeOK, Tokens, Entries, HeldOpen, Held, WorkOpen, NoIdleTimeout,
           Answers, EncodeFailsRemove, Work, control, history
<1>5. NoIdleTimeout'
    BY DEF TypeOK, NoIdleTimeout, Tokens, Entries, WorkOpen,
           EncodeFailsRemove, Work, control, history
<1>6. EntryBacked'
    BY DEF TypeOK, EntryBacked, Tokens, Entries, HeldOpen, Held,
           EncodeFailsRemove, Work, control, history
<1>7. WorkOpen' /\ TimersDone' /\ Answers' /\ OwnData'
    BY DEF WorkOpen, TimersDone, Answers, OwnData, EncodeFailsRemove, control,
           history
<1> QED
    BY <1>1, <1>2, <1>3, <1>4, <1>5, <1>6, <1>7

LEMMA TimerFiresStep ==
    ASSUME IInv, NEW x \in Expr, TimerFires(x)
    PROVE  IInv'
<1> USE ConstantsAssumption DEF IInv, Token
<1>1. TypeOK'
    BY DEF TypeOK, TimerFires, Idle, Work, control, history
<1>2. TimersDone'
    BY DEF TypeOK, TimersDone, WorkOpen, Tokens, TimerFires, Idle, Work,
           control, history
<1>3. Tokens'
    BY DEF TypeOK, Tokens, TimerFires, Idle, Work, control, history
<1>4. HeldOpen'
    BY DEF TypeOK, Tokens, Entries, HeldOpen, Held, WorkOpen, NoIdleTimeout,
           Answers, TimerFires, Idle, Work, control, history
<1>5. WorkOpen'
    BY DEF TypeOK, Tokens, Entries, HeldOpen, Held, WorkOpen, NoIdleTimeout,
           Answers, TimerFires, Idle, Work, control, history
<1>6. NoIdleTimeout'
    BY DEF TypeOK, NoIdleTimeout, Tokens, Entries, WorkOpen, TimerFires, Idle,
           Work, control, history
<1>7. EntryBacked'
    BY DEF TypeOK, EntryBacked, Tokens, Entries, HeldOpen, Held, TimerFires,
           Idle, Work, control, history
<1>8. Entries' /\ Answers' /\ OwnData'
    BY DEF Entries, Answers, OwnData, TimerFires, control, history
<1> QED
    BY <1>1, <1>2, <1>3, <1>4, <1>5, <1>6, <1>7, <1>8

LEMMA TimerTakesStep ==
    ASSUME IInv, TimerTakes
    PROVE  IInv'
<1> USE ConstantsAssumption DEF IInv, Token
<1>1. TypeOK'
    BY DEF TypeOK, TimerTakes, Idle, Work, control, history
<1>2. TimersDone'
    BY DEF TypeOK, TimersDone, WorkOpen, Tokens, TimerTakes, Idle, Work,
           control, history
<1>3. Entries'
    BY DEF TypeOK, Tokens, Entries, TimerTakes, Idle, Work, control, history
<1>4. HeldOpen'
    BY DEF TypeOK, Tokens, Entries, HeldOpen, Held, WorkOpen, NoIdleTimeout,
           Answers, TimerTakes, Idle, Work, control, history
<1>5. WorkOpen'
    BY DEF TypeOK, Tokens, Entries, HeldOpen, Held, WorkOpen, NoIdleTimeout,
           Answers, TimerTakes, Idle, Work, control, history
<1>6. NoIdleTimeout'
    <2> SUFFICES ASSUME NEW x \in Expr, timer[x] = "armed"
                 PROVE  pit'[token[x]] = x \/ sim' = Work("data", x)
        BY DEF NoIdleTimeout, TimerTakes
    <2>1. pit[token[x]] = x /\ x # sim.expr /\ token[x] # 0
        BY DEF TypeOK, NoIdleTimeout, Tokens, TimersDone, TimerTakes, Work
    <2>2. token[x] # token[sim.expr]
        BY <2>1 DEF TypeOK, Tokens, TimerTakes
    <2> QED
        BY <2>1, <2>2 DEF TypeOK, TimerTakes
<1>7. EntryBacked'
    BY DEF TypeOK, EntryBacked, Tokens, Entries, HeldOpen, Held, TimerTakes,
           Idle, Work, control, history
<1>8. Tokens' /\ Answers' /\ OwnData'
    BY DEF Tokens, Answers, OwnData, TimerTakes, control, history
<1> QED
    BY <1>1, <1>2, <1>3, <1>4, <1>5, <1>6, <1>7, <1>8

LEMMA TimeoutCallbackStep ==
    ASSUME IInv, TimeoutCallback
    PROVE  IInv'
<1> USE ConstantsAssumption DEF IInv, Token
<1>1. TypeOK'
    BY DEF TypeOK, TimeoutCallback, Idle, Work, control, history
<1>2. TimersDone'
    BY DEF TypeOK, TimersDone, WorkOpen, Tokens, TimeoutCallback, Idle, Work,
           control, history
<1>3. HeldOpen'
    BY DEF TypeOK, Tokens, Entries, HeldOpen, Held, WorkOpen, NoIdleTimeout,
           Answers, TimeoutCallback, Idle, Work, control, history
<1>4. WorkOpen'
    BY DEF TypeOK, Tokens, Entries, HeldOpen, Held, WorkOpen, NoIdleTimeout,
           Answers, TimeoutCallback, Idle, Work, control, history
<1>5. Answers'
    <2>1. answers[sim.expr] = <<>> /\ token[sim.expr] # 0 /\ sim.expr \in Expr
        BY DEF TypeOK, WorkOpen, TimeoutCallback
    <2>2. Append(<<>>, "timeout") = <<"timeout">>
        OBVIOUS
    <2>3. answers' = [answers EXCEPT ![sim.expr] = <<"timeout">>]
        BY <2>1, <2>2 DEF TimeoutCallback
    <2> QED
        BY <2>1, <2>3 DEF TypeOK, Answers, TimeoutCallback, control
<1>6. NoIdleTimeout'
    BY DEF TypeOK, NoIdleTimeout, Tokens, Entries, WorkOpen, TimeoutCallback,
           Idle, Work, control, history
<1>7. EntryBacked'
    BY DEF TypeOK, EntryBacked, Tokens, Entries, HeldOpen, Held,
           TimeoutCallback, Idle, Work, control, history
<1>8. Tokens' /\ Entries' /\ OwnData'
    BY DEF Tokens, Entries, OwnData, TimeoutCallback, control, history
<1> QED
    BY <1>1, <1>2, <1>3, <1>4, <1>5, <1>6, <1>7, <1>8

LEMMA OnDataStep ==
    ASSUME IInv, NEW x \in Expr, OnData(x)
    PROVE  IInv'
<1> USE ConstantsAssumption DEF IInv, Token
<1>1. token[x] \in Token
    BY DEF TypeOK, Answers, OnData
<1>2. pit[token[x]] \in {None, x}
    BY <1>1 DEF TypeOK, Tokens, Entries
<1>3. pit' = [pit EXCEPT ![token[x]] = None] /\ sent' = sent \ {x} /\ sim = Idle
    BY DEF OnData
<1>4. UNCHANGED <<control, pitSeq, pc, token, timer, answers>>
    BY DEF OnData
<1>5. CASE pit[token[x]] = None
    <2>1. pit' = pit /\ UNCHANGED <<sim, servedBy>>
        BY <1>1, <1>5 DEF TypeOK, OnData
    <2> QED
        BY <2>1, <1>3, <1>4 DEF TypeOK, Tokens, Entries, HeldOpen, Held, WorkOpen,
           TimersDone, Answers, OwnData, NoIdleTimeout, EntryBacked, control
<1>6. CASE pit[token[x]] = x
    <2>1. sim' = Work("data", x) /\ servedBy' = [servedBy EXCEPT ![x] = x]
        BY <1>6 DEF OnData
    <2>2. Held(x) /\ answers[x] = <<>>
        BY <1>1, <1>6 DEF Held, HeldOpen
    <2>3. TypeOK'
        BY <1>1, <1>3, <1>4, <2>1 DEF TypeOK, Work, control
    <2>4. Tokens' /\ Entries'
        BY <1>1, <1>3, <1>4 DEF TypeOK, Tokens, Entries
    <2>5. HeldOpen'
        BY <1>1, <1>3, <1>4, <2>1 DEF TypeOK, Tokens, HeldOpen, Held, Work
    <2>6. WorkOpen' /\ TimersDone' /\ Answers'
        BY <1>1, <1>3, <1>4, <2>1, <2>2 DEF TypeOK, WorkOpen, TimersDone, Answers, Work
    <2>7. OwnData'
        BY <2>1 DEF TypeOK, OwnData
    <2>8. NoIdleTimeout'
        BY <1>1, <1>3, <1>4, <2>1 DEF TypeOK, Tokens, NoIdleTimeout, Work, Idle
    <2>9. EntryBacked'
        BY <1>1, <1>3, <1>4, <2>1 DEF TypeOK, EntryBacked, Work, Idle, control
    <2> QED
        BY <2>3, <2>4, <2>5, <2>6, <2>7, <2>8, <2>9
<1> QED
    BY <1>2, <1>5, <1>6

LEMMA DataCallbackStep ==
    ASSUME IInv, DataCallback
    PROVE  IInv'
<1> USE ConstantsAssumption DEF IInv, Token
<1>1. TypeOK'
    BY DEF TypeOK, DataCallback, Cancelled, Idle, Work, control, history
<1>2. TimersDone'
    BY DEF TypeOK, TimersDone, WorkOpen, Tokens, DataCallback, Cancelled,
           Idle, Work, control, history
<1>3. Tokens'
    BY DEF TypeOK, Tokens, DataCallback, Cancelled, Idle, Work, control,
           history
<1>4. HeldOpen'
    BY DEF TypeOK, Tokens, Entries, HeldOpen, Held, WorkOpen, NoIdleTimeout,
           Answers, DataCallback, Cancelled, Idle, Work, control, history
<1>5. WorkOpen'
    BY DEF TypeOK, Tokens, Entries, HeldOpen, Held, WorkOpen, NoIdleTimeout,
           Answers, DataCallback, Cancelled, Idle, Work, control, history
<1>6. Answers'
    <2>1. answers[sim.expr] = <<>> /\ token[sim.expr] # 0 /\ sim.expr \in Expr
        BY DEF TypeOK, WorkOpen, DataCallback
    <2>2. Append(<<>>, "data") = <<"data">>
        OBVIOUS
    <2>3. answers' = [answers EXCEPT ![sim.expr] = <<"data">>]
        BY <2>1, <2>2 DEF DataCallback
    <2> QED
        BY <2>1, <2>3 DEF TypeOK, Answers, DataCallback, control
<1>7. NoIdleTimeout'
    BY DEF TypeOK, NoIdleTimeout, Tokens, Entries, WorkOpen, DataCallback,
           Cancelled, Idle, Work, control, history
<1>8. EntryBacked'
    BY DEF TypeOK, EntryBacked, Tokens, Entries, HeldOpen, Held, DataCallback,
           Cancelled, Idle, Work, control, history
<1>9. Entries' /\ OwnData'
    BY DEF Entries, OwnData, DataCallback, control, history
<1> QED
    BY <1>1, <1>2, <1>3, <1>4, <1>5, <1>6, <1>7, <1>8, <1>9

LEMMA NoAnswerStep ==
    ASSUME IInv, NEW x \in Expr, NoAnswer(x)
    PROVE  IInv'
<1> USE ConstantsAssumption DEF IInv, Token
<1>1. TypeOK'
    BY DEF TypeOK, NoAnswer, Work, control, history
<1>2. Answers'
    BY DEF TypeOK, Tokens, WorkOpen, Answers, Entries, NoAnswer, Work,
           control, history
<1>3. Tokens' /\ Entries' /\ HeldOpen' /\ WorkOpen' /\ TimersDone' /\ OwnData' /\ NoIdleTimeout' /\ EntryBacked'
    BY DEF Tokens, Entries, HeldOpen, WorkOpen, TimersDone, OwnData,
           NoIdleTimeout, EntryBacked, Held, NoAnswer, control, history
<1> QED
    BY <1>1, <1>2, <1>3

LEMMA StartOpensStep ==
    ASSUME IInv, StartOpens
    PROVE  IInv'
<1> USE ConstantsAssumption DEF IInv, Token
<1>1. TypeOK'
    BY DEF TypeOK, StartOpens, Idle, Work, control, history
<1>2. TimersDone'
    BY DEF TypeOK, TimersDone, WorkOpen, Tokens, StartOpens, Idle, Work,
           control, history
<1>3. HeldOpen'
    BY DEF TypeOK, Tokens, Entries, HeldOpen, Held, WorkOpen, NoIdleTimeout,
           Answers, StartOpens, Idle, Work, control, history
<1>4. WorkOpen'
    BY DEF TypeOK, Tokens, Entries, HeldOpen, Held, WorkOpen, NoIdleTimeout,
           Answers, StartOpens, Idle, Work, control, history
<1>5. NoIdleTimeout'
    BY DEF TypeOK, NoIdleTimeout, Tokens, Entries, WorkOpen, StartOpens, Idle,
           Work, control, history
<1>6. EntryBacked'
    BY DEF TypeOK, EntryBacked, Tokens, Entries, HeldOpen, Held, StartOpens,
           Idle, Work, control, history
<1>7. Tokens' /\ Entries' /\ Answers' /\ OwnData'
    BY DEF Tokens, Entries, Answers, OwnData, StartOpens, control, history
<1> QED
    BY <1>1, <1>2, <1>3, <1>4, <1>5, <1>6, <1>7

LEMMA StartRunsStep ==
    ASSUME IInv, StartRuns
    PROVE  IInv'
<1> USE ConstantsAssumption DEF IInv, Token
<1>1. TypeOK'
    BY DEF TypeOK, StartRuns, Idle, Work, control, history
<1>2. TimersDone'
    BY DEF TypeOK, TimersDone, WorkOpen, Tokens, StartRuns, Idle, Work,
           control, history
<1>3. HeldOpen'
    BY DEF TypeOK, Tokens, Entries, HeldOpen, Held, WorkOpen, NoIdleTimeout,
           Answers, StartRuns, Idle, Work, control, history
<1>4. WorkOpen'
    BY DEF TypeOK, Tokens, Entries, HeldOpen, Held, WorkOpen, NoIdleTimeout,
           Answers, StartRuns, Idle, Work, control, history
<1>5. NoIdleTimeout'
    BY DEF TypeOK, NoIdleTimeout, Tokens, Entries, WorkOpen, StartRuns, Idle,
           Work, control, history
<1>6. EntryBacked'
    BY DEF TypeOK, EntryBacked, Tokens, Entries, HeldOpen, Held, StartRuns,
           Idle, Work, control, history
<1>7. Tokens' /\ Entries' /\ Answers' /\ OwnData'
    BY DEF Tokens, Entries, Answers, OwnData, StartRuns, control, history
<1> QED
    BY <1>1, <1>2, <1>3, <1>4, <1>5, <1>6, <1>7

LEMMA StopClearsStep ==
    ASSUME IInv, StopClears
    PROVE  IInv'
<1> USE ConstantsAssumption DEF IInv, Token
<1>1. TypeOK'
    BY DEF TypeOK, StopClears, Idle, Work, control, history
<1>2. TimersDone'
    BY DEF TypeOK, TimersDone, WorkOpen, Tokens, StopClears, Idle, Work,
           control, history
<1>3. HeldOpen'
    BY DEF TypeOK, Tokens, Entries, HeldOpen, Held, WorkOpen, NoIdleTimeout,
           Answers, StopClears, Idle, Work, control, history
<1>4. WorkOpen'
    BY DEF TypeOK, Tokens, Entries, HeldOpen, Held, WorkOpen, NoIdleTimeout,
           Answers, StopClears, Idle, Work, control, history
<1>5. NoIdleTimeout'
    BY DEF TypeOK, NoIdleTimeout, Tokens, Entries, WorkOpen, StopClears, Idle,
           Work, control, history
<1>6. EntryBacked'
    BY DEF TypeOK, EntryBacked, Tokens, Entries, HeldOpen, Held, StopClears,
           Idle, Work, control, history
<1>7. Tokens' /\ Entries' /\ Answers' /\ OwnData'
    BY DEF Tokens, Entries, Answers, OwnData, StopClears, control, history
<1> QED
    BY <1>1, <1>2, <1>3, <1>4, <1>5, <1>6, <1>7

LEMMA StopClosesStep ==
    ASSUME IInv, StopCloses
    PROVE  IInv'
<1> USE ConstantsAssumption DEF IInv, Token
<1>1. TypeOK'
    BY DEF TypeOK, StopCloses, Idle, Work, control, history
<1>2. TimersDone'
    BY DEF TypeOK, TimersDone, WorkOpen, Tokens, StopCloses, Idle, Work,
           control, history
<1>3. HeldOpen'
    BY DEF TypeOK, Tokens, Entries, HeldOpen, Held, WorkOpen, NoIdleTimeout,
           Answers, StopCloses, Idle, Work, control, history
<1>4. WorkOpen'
    BY DEF TypeOK, Tokens, Entries, HeldOpen, Held, WorkOpen, NoIdleTimeout,
           Answers, StopCloses, Idle, Work, control, history
<1>5. NoIdleTimeout'
    BY DEF TypeOK, NoIdleTimeout, Tokens, Entries, WorkOpen, StopCloses, Idle,
           Work, control, history
<1>6. EntryBacked'
    BY DEF TypeOK, EntryBacked, Tokens, Entries, HeldOpen, Held, StopCloses,
           Idle, Work, control, history
<1>7. Tokens' /\ Entries' /\ Answers' /\ OwnData'
    BY DEF Tokens, Entries, Answers, OwnData, StopCloses, control, history
<1> QED
    BY <1>1, <1>2, <1>3, <1>4, <1>5, <1>6, <1>7

LEMMA ClockGoneStep ==
    ASSUME IInv, ClockGone
    PROVE  IInv'
<1> USE ConstantsAssumption DEF IInv, Token
<1>1. TypeOK'
    BY DEF TypeOK, ClockGone, Idle, Work, control, history
<1>2. TimersDone'
    BY DEF TypeOK, TimersDone, WorkOpen, Tokens, ClockGone, Idle, Work,
           control, history
<1>3. Tokens'
    BY DEF TypeOK, Tokens, ClockGone, Idle, Work, control, history
<1>4. HeldOpen'
    BY DEF TypeOK, Tokens, Entries, HeldOpen, Held, WorkOpen, NoIdleTimeout,
           Answers, ClockGone, Idle, Work, control, history
<1>5. Answers'
    BY DEF TypeOK, Tokens, WorkOpen, Answers, Entries, ClockGone, Idle, Work,
           control, history
<1>6. NoIdleTimeout'
    BY DEF TypeOK, NoIdleTimeout, Tokens, Entries, WorkOpen, ClockGone, Idle,
           Work, control, history
<1>7. EntryBacked'
    BY DEF TypeOK, EntryBacked, Tokens, Entries, HeldOpen, Held, ClockGone,
           Idle, Work, control, history
<1>8. Entries' /\ WorkOpen' /\ OwnData'
    BY DEF Entries, WorkOpen, OwnData, ClockGone, control, history
<1> QED
    BY <1>1, <1>2, <1>3, <1>4, <1>5, <1>6, <1>7, <1>8
-----------------------------------------------------------------------------
LEMMA InitInvariant == Init => IInv
<1> SUFFICES ASSUME Init
             PROVE  IInv
    OBVIOUS
<1> USE ConstantsAssumption DEF Init
<1>1. TypeOK
    <2>1. answers \in [Expr -> Seq({"data", "timeout"})]
        OBVIOUS
    <2>2. sim \in [act : {"idle", "opened", "stopping"}, expr : {None}]
        BY DEF Idle
    <2>3. starts \in 0..MaxStarts /\ pitSeq \in 0..MaxToken
          /\ token \in [Expr -> 0..MaxToken]
        OBVIOUS
    <2> QED
        BY <2>1, <2>2, <2>3 DEF TypeOK
<1>2. Tokens /\ Entries /\ HeldOpen
    BY DEF Tokens, Entries, HeldOpen, Held
<1>3. WorkOpen /\ TimersDone /\ Answers /\ OwnData
    BY DEF WorkOpen, TimersDone, Answers, OwnData, Idle
<1>4. NoIdleTimeout /\ EntryBacked
    BY DEF NoIdleTimeout, EntryBacked
<1> QED
    BY <1>1, <1>2, <1>3, <1>4 DEF IInv

LEMMA NextInvariant == IInv /\ [Next]_vars => IInv'
<1> SUFFICES ASSUME IInv, [Next]_vars
             PROVE  IInv'
    OBVIOUS
<1>1. CASE \E x \in Expr : Express(x)
    BY <1>1, ExpressCheckStep, ExpressRegisterStep, ExpressSendStep, EncodeFailsStep,
       EncodeFailsRemoveStep DEF Express
<1>2. CASE \E x \in Expr : TimerFires(x) \/ OnData(x) \/ NoAnswer(x)
    BY <1>2, TimerFiresStep, OnDataStep, NoAnswerStep
<1>3. CASE SimWork
    BY <1>3, TimerTakesStep, TimeoutCallbackStep, DataCallbackStep, StartRunsStep,
       StopClosesStep DEF SimWork
<1>4. CASE Control
    BY <1>4, StartOpensStep, StopClearsStep, ClockGoneStep DEF Control
<1>5. CASE UNCHANGED vars
    BY <1>5 DEF IInv, TypeOK, Tokens, Entries, HeldOpen, Held, WorkOpen, TimersDone,
       Answers, OwnData, NoIdleTimeout, EntryBacked, vars, control, history
<1> QED
    BY <1>1, <1>2, <1>3, <1>4, <1>5 DEF Next

\* IInv is inductive, hence an invariant.
LEMMA Invariance == Spec => []IInv
BY InitInvariant, NextInvariant, PTL DEF Spec

\* The engine's table, tokens and timers keep their types; the simulator
\* thread never calls back an Interest that was not found (engine.go onData).
THEOREM TypeCorrect == Spec => []TypeOK
<1>1. IInv => TypeOK
    BY DEF IInv
<1> QED
    BY <1>1, Invariance, PTL

\* Nobody is given the Data of another Interest, across restarts of the
\* engine (engine.go, pitSeq).
THEOREM OwnDataOnly == Spec => []OwnData
<1>1. IInv => OwnData
    BY DEF IInv
<1> QED
    BY <1>1, Invariance, PTL

\* Every entry of the table has its timeout ahead (engine.go Express, the
\* order of Schedule and insertion).
THEOREM EntriesBacked == Spec => []EntryBacked
<1>1. IInv => EntryBacked
    BY DEF IInv
<1> QED
    BY <1>1, Invariance, PTL

\* No timeout outlives its Interest (engine.go onData and the failing
\* Express cancel it).
THEOREM NoTimeoutLeftBehind == Spec => []NoIdleTimeout
<1>1. IInv => NoIdleTimeout
    BY DEF IInv
<1> QED
    BY <1>1, Invariance, PTL
-----------------------------------------------------------------------------
(***************************************************************************)
(* The refinement of PendingInterest: a call is decided when its entry is  *)
(* taken, and every other step leaves Outcomes alone.                      *)
(***************************************************************************)
\* A step that gives one call another outcome is a Move of that call.
LEMMA OneMoves ==
    ASSUME NEW x \in Expr, NEW from, NEW to,
           OutcomeOf(x) = from, OutcomeOf(x)' = to,
           \A y \in Expr \ {x} : OutcomeOf(y)' = OutcomeOf(y)
    PROVE  Promise!Move(x, from, to)
BY DEF Outcomes, Promise!Move

LEMMA NoneMoves ==
    ASSUME \A y \in Expr : OutcomeOf(y)' = OutcomeOf(y)
    PROVE  Outcomes' = Outcomes
BY DEF Outcomes

LEMMA PromiseCheck ==
    ASSUME IInv, NEW x \in Expr, ExpressCheck(x)
    PROVE  Promise!Next \/ Outcomes' = Outcomes
<1> USE ConstantsAssumption DEF IInv
<1>1. OutcomeOf(x) = "new"
    BY DEF OutcomeOf, ExpressCheck
<1>2. OutcomeOf(x)' \in {"new", "refused"}
    <2>1. token[x] = 0 /\ answers[x] = <<>> /\ sim.expr # x
        BY DEF Tokens, Answers, WorkOpen, ExpressCheck
    <2> QED
        BY <2>1 DEF TypeOK, OutcomeOf, ExpressCheck, Work, control, history
<1>3. \A y \in Expr \ {x} : OutcomeOf(y)' = OutcomeOf(y)
    BY DEF TypeOK, OutcomeOf, ExpressCheck, history
<1>4. CASE OutcomeOf(x)' = "refused"
    BY <1>1, <1>3, <1>4, OneMoves DEF Promise!Next, Promise!Refuse
<1>5. CASE OutcomeOf(x)' = "new"
    BY <1>1, <1>3, <1>5, NoneMoves
<1> QED
    BY <1>2, <1>4, <1>5

LEMMA PromiseRegister ==
    ASSUME IInv, NEW x \in Expr, ExpressRegister(x)
    PROVE  Promise!Next
<1> USE ConstantsAssumption DEF IInv
<1>1. OutcomeOf(x) = "new"
    BY DEF OutcomeOf, ExpressRegister
<1>2. token[x] = 0 /\ answers[x] = <<>> /\ sim.expr # x
    BY DEF Tokens, Answers, WorkOpen, ExpressRegister
<1>3. pitSeq + 1 \in Token /\ \A y \in Expr : token[y] # pitSeq + 1
    BY DEF TypeOK, Tokens, ExpressRegister, Token
<1>4. /\ token' = [token EXCEPT ![x] = pitSeq + 1]
      /\ pit' = [pit EXCEPT ![pitSeq + 1] = x]
      /\ pc' = [pc EXCEPT ![x] = "registered"]
      /\ UNCHANGED <<sim, answers>>
    BY DEF ExpressRegister, history
<1>5. OutcomeOf(x)' = "waiting"
    BY <1>2, <1>3, <1>4 DEF TypeOK, OutcomeOf, Work, Token
<1>6. \A y \in Expr \ {x} : OutcomeOf(y)' = OutcomeOf(y)
    BY <1>3, <1>4 DEF TypeOK, OutcomeOf
<1> QED
    BY <1>1, <1>5, <1>6, OneMoves DEF Promise!Next, Promise!Accept

\* What taking the entry of x out of the table does to the outcomes.
LEMMA PromiseTaken ==
    ASSUME IInv, NEW x \in Expr, token[x] # 0,
           pit' = [pit EXCEPT ![token[x]] = None],
           UNCHANGED <<token, answers>>,
           NEW y \in Expr \ {x},
           pc'[y] \in {"new", "checked"} <=> pc[y] \in {"new", "checked"},
           sim' = Work("data", y) <=> sim = Work("data", y),
           sim' = Work("timeout", y) <=> sim = Work("timeout", y)
    PROVE  OutcomeOf(y)' = OutcomeOf(y)
BY ConstantsAssumption DEF IInv, TypeOK, Tokens, OutcomeOf, Work

LEMMA PromiseRemove ==
    ASSUME IInv, NEW x \in Expr, EncodeFailsRemove(x)
    PROVE  Promise!Next \/ Outcomes' = Outcomes
<1> USE ConstantsAssumption DEF IInv
<1>1. token[x] \in Token /\ pc[x] = "undoing"
    BY DEF TypeOK, Tokens, EncodeFailsRemove, Token
<1>2. pit' = [pit EXCEPT ![token[x]] = None] /\ UNCHANGED <<token, sim, answers>>
    BY DEF EncodeFailsRemove, history
<1>3. pc' = [pc EXCEPT ![x] = "error"]
    BY DEF EncodeFailsRemove
<1>4. \A y \in Expr \ {x} : OutcomeOf(y)' = OutcomeOf(y)
    <2>1. \A y \in Expr \ {x} : pc'[y] = pc[y]
        BY <1>3 DEF TypeOK
    <2> QED
        <3>1. token[x] # 0
            BY <1>1 DEF Token
        <3> HIDE DEF IInv
        <3> QED
            BY <1>2, <2>1, <3>1, PromiseTaken
<1>5. CASE Held(x)
    <2>1. /\ token[x] # 0 /\ pit[token[x]] = x /\ answers[x] = <<>>
          /\ sim # Work("data", x) /\ sim # Work("timeout", x)
        BY <1>5 DEF HeldOpen, Held
    <2>2. OutcomeOf(x) = "waiting"
        BY <1>1, <2>1 DEF OutcomeOf
    <2>3. pit'[token'[x]] = None /\ pc'[x] = "error"
        BY <1>1, <1>2, <1>3 DEF TypeOK
    <2>4. OutcomeOf(x)' = "refused"
        BY <1>2, <2>1, <2>3 DEF OutcomeOf
    <2> QED
        BY <2>2, <2>4, <1>4, OneMoves DEF Promise!Next, Promise!TakeBack
<1>6. CASE ~Held(x)
    <2>1. OutcomeOf(x)' = OutcomeOf(x)
        BY <1>1, <1>2, <1>3, <1>6 DEF TypeOK, Held, OutcomeOf
    <2> QED
        BY <2>1, <1>4, NoneMoves
<1> QED
    BY <1>5, <1>6

LEMMA PromiseTimer ==
    ASSUME IInv, TimerTakes
    PROVE  Promise!Next \/ Outcomes' = Outcomes
<1> USE ConstantsAssumption DEF IInv
<1>1. PICK x \in Expr : sim = Work("timer", x)
    BY DEF TypeOK, TimerTakes, Work
<1>2. token[x] \in Token /\ answers[x] = <<>>
    BY <1>1 DEF TypeOK, WorkOpen, Token, Work
<1>3. pit' = [pit EXCEPT ![token[x]] = None] /\ UNCHANGED <<token, pc, answers>>
    BY <1>1 DEF TimerTakes, Work, history
<1>4. pit[token[x]] \in {None, x} /\ pc[x] \notin {"new", "checked"}
    BY <1>2 DEF TypeOK, Tokens, Entries, Token
<1>5. CASE pit[token[x]] = x
    <2>1. sim' = Work("timeout", x)
        BY <1>1, <1>5 DEF TimerTakes, Work
    <2>2. OutcomeOf(x) = "waiting"
        BY <1>1, <1>2, <1>4, <1>5 DEF OutcomeOf, Work, Token
    <2>3. OutcomeOf(x)' = "timeout"
        BY <1>2, <1>3, <1>4, <2>1 DEF OutcomeOf, Work
    <2>4. \A y \in Expr \ {x} : OutcomeOf(y)' = OutcomeOf(y)
        <3>1. \A y \in Expr \ {x} : /\ sim' = Work("data", y) <=> sim = Work("data", y)
                                    /\ sim' = Work("timeout", y) <=> sim = Work("timeout", y)
            BY <1>1, <2>1 DEF Work
        <3>2. token[x] # 0
            BY <1>2 DEF Token
        <3> HIDE DEF IInv
        <3> QED
            BY <1>2, <1>3, <3>1, <3>2, PromiseTaken
    <2> QED
        BY <2>2, <2>3, <2>4, OneMoves DEF Promise!Next, Promise!Timeout
<1>6. CASE pit[token[x]] = None
    <2>1. sim' = Idle /\ pit' = pit
        BY <1>1, <1>2, <1>3, <1>6 DEF TypeOK, TimerTakes, Work
    <2>2. \A y \in Expr : OutcomeOf(y)' = OutcomeOf(y)
        BY <1>1, <1>3, <2>1 DEF OutcomeOf, Work, Idle
    <2> QED
        BY <2>2, NoneMoves
<1> QED
    BY <1>4, <1>5, <1>6

LEMMA PromiseData ==
    ASSUME IInv, NEW x \in Expr, OnData(x)
    PROVE  Promise!Next \/ Outcomes' = Outcomes
<1> USE ConstantsAssumption DEF IInv
<1>1. token[x] \in Token /\ sim = Idle
    BY DEF TypeOK, Answers, OnData, Token
<1>2. pit' = [pit EXCEPT ![token[x]] = None] /\ UNCHANGED <<token, pc, answers>>
    BY DEF OnData
<1>3. pit[token[x]] \in {None, x} /\ pc[x] \notin {"new", "checked"}
    BY <1>1 DEF TypeOK, Tokens, Entries, Token
<1>4. CASE pit[token[x]] = x
    <2>1. sim' = Work("data", x)
        BY <1>4 DEF OnData
    <2>2. OutcomeOf(x) = "waiting"
        <3>1. token[x] # 0 /\ answers[x] = <<>>
            BY <1>1, <1>4 DEF HeldOpen, Held, Token
        <3> QED
            BY <1>1, <1>3, <1>4, <3>1 DEF OutcomeOf, Work, Idle
    <2>3. OutcomeOf(x)' = "data"
        BY <1>2, <1>3, <2>1 DEF OutcomeOf
    <2>4. \A y \in Expr \ {x} : OutcomeOf(y)' = OutcomeOf(y)
        <3>1. \A y \in Expr \ {x} : /\ sim' = Work("data", y) <=> sim = Work("data", y)
                                    /\ sim' = Work("timeout", y) <=> sim = Work("timeout", y)
            BY <1>1, <2>1 DEF Work, Idle
        <3>2. token[x] # 0
            BY <1>1 DEF Token
        <3> HIDE DEF IInv
        <3> QED
            BY <1>2, <3>1, <3>2, PromiseTaken
    <2> QED
        BY <2>2, <2>3, <2>4, OneMoves DEF Promise!Next, Promise!Data
<1>5. CASE pit[token[x]] = None
    <2>1. sim' = sim /\ pit' = pit
        BY <1>1, <1>2, <1>5 DEF TypeOK, OnData
    <2>2. \A y \in Expr : OutcomeOf(y)' = OutcomeOf(y)
        BY <1>2, <2>1 DEF OutcomeOf
    <2> QED
        BY <2>2, NoneMoves
<1> QED
    BY <1>3, <1>4, <1>5

\* A callback only carries out what was decided before.
LEMMA PromiseCallback ==
    ASSUME IInv, TimeoutCallback \/ DataCallback
    PROVE  Outcomes' = Outcomes
<1> USE ConstantsAssumption DEF IInv
<1>1. PICK x \in Expr : sim = Work("timeout", x) \/ sim = Work("data", x)
    BY DEF TypeOK, TimeoutCallback, DataCallback, Work
<1>2. answers[x] = <<>> /\ token[x] # 0 /\ pc[x] \notin {"new", "checked"}
    BY <1>1 DEF Tokens, WorkOpen, Work
<1>3. sim' = Idle /\ UNCHANGED <<pit, token, pc>>
    BY DEF TimeoutCallback, DataCallback
<1>4. \A y \in Expr \ {x} : answers'[y] = answers[y]
    BY <1>1 DEF TypeOK, TimeoutCallback, DataCallback, Work
<1>5. \A y \in Expr \ {x} : OutcomeOf(y)' = OutcomeOf(y)
    BY <1>1, <1>3, <1>4 DEF OutcomeOf, Work, Idle
<1>6. /\ sim = Work("timeout", x) => answers'[x] = <<"timeout">>
      /\ sim = Work("data", x) => answers'[x] = <<"data">>
    <2>1. Append(<<>>, "timeout") = <<"timeout">> /\ Append(<<>>, "data") = <<"data">>
        OBVIOUS
    <2> QED
        BY <1>2, <2>1 DEF TypeOK, TimeoutCallback, DataCallback, Work
<1>7. OutcomeOf(x)' = OutcomeOf(x)
    BY <1>1, <1>2, <1>3, <1>6 DEF OutcomeOf, Work, Idle
<1> QED
    BY <1>5, <1>7, NoneMoves

LEMMA PromiseStutters ==
    ASSUME IInv, [Next]_vars,
           ~\E x \in Expr : \/ ExpressCheck(x) \/ ExpressRegister(x)
                            \/ EncodeFailsRemove(x) \/ OnData(x),
           ~TimerTakes, ~TimeoutCallback, ~DataCallback
    PROVE  Outcomes' = Outcomes
<1>1. UNCHANGED <<pit, token, answers>>
    BY DEF Next, Express, ExpressSend, EncodeFails, TimerFires, NoAnswer, SimWork,
       StartRuns, StopCloses, Control, StartOpens, StopClears, ClockGone, vars, history
<1>2. \A x \in Expr : pc'[x] \in {"new", "checked"} <=> pc[x] \in {"new", "checked"}
    BY DEF IInv, TypeOK, Next, Express, ExpressSend, EncodeFails, TimerFires, NoAnswer,
       SimWork, StartRuns, StopCloses, Control, StartOpens, StopClears, ClockGone, vars
<1>3. \A x \in Expr : /\ sim' = Work("data", x) <=> sim = Work("data", x)
                      /\ sim' = Work("timeout", x) <=> sim = Work("timeout", x)
    BY DEF Next, Express, ExpressSend, EncodeFails, TimerFires, NoAnswer, SimWork,
       StartRuns, StopCloses, Control, StartOpens, StopClears, ClockGone, vars, Work, Idle
<1> QED
    BY <1>1, <1>2, <1>3, NoneMoves DEF OutcomeOf

LEMMA PromiseInit == Init => Promise!Init
BY DEF Init, Promise!Init, Outcomes, OutcomeOf

LEMMA PromiseNext == IInv /\ [Next]_vars => [Promise!Next]_Outcomes
BY PromiseCheck, PromiseRegister, PromiseRemove, PromiseTimer, PromiseData,
   PromiseCallback, PromiseStutters

\* Every accepted Express is called back at most once, with Data or with a
\* timeout and never with both, and one whose entry was taken back is never
\* called.
THEOREM Refinement == Spec => ImplementsPromise
BY PromiseInit, PromiseNext, Invariance, PTL DEF Spec, ImplementsPromise, Promise!Spec
-----------------------------------------------------------------------------
(***************************************************************************)
(* The trie of handlers is the map of handlers, finds the longest prefix   *)
(* and keeps no dead branch.                                               *)
(*                                                                         *)
(* What makes it work: the nodes of the trie are closed under prefixes, so *)
(* the walk down of a lookup passes every handler there is on its way; and *)
(* what is pruned are the nodes above the detached one that nothing else   *)
(* hangs on, so that closure and live branches are kept.                   *)
(***************************************************************************)
Component == UNION {Range(n) : n \in Name}

Closed == \A n \in DOMAIN trie : Prefixes(n) \subseteq DOMAIN trie

TrieIInv == TrieTypeOK /\ Closed /\ NoDeadBranch
-----------------------------------------------------------------------------
(***************************************************************************)
(* Prefixes of names.                                                      *)
(***************************************************************************)
\* The two ways of saying that a name is a prefix of another.
LEMMA PrefixOf ==
    ASSUME NEW m \in Name, NEW n \in Name
    PROVE  /\ IsPrefix(m, n) <=> m \in Prefixes(n)
           /\ m \in Prefixes(n) => Len(m) <= Len(n) /\ m = SubSeq(n, 1, Len(m))
<1>1. m \in Seq(Component) /\ n \in Seq(Component)
  BY TrieAssumption DEF Component
<1>2. SubSeq(m, 1, Len(m)) = m
  BY <1>1, SubSeqFull
<1>3. ASSUME NEW l \in 0..Len(n) PROVE Len(SubSeq(n, 1, l)) = l
  <2>1. \A i \in 1..l : n[i] \in Component
    BY <1>1
  <2>2. Len(n) \in Nat /\ l \in Nat
    BY <1>1
  <2> QED  BY <2>1, <2>2, SubSeqProperties
<1>4. m \in Prefixes(n) => Len(m) <= Len(n) /\ m = SubSeq(n, 1, Len(m))
  <2> SUFFICES ASSUME NEW l \in 0..Len(n), m = SubSeq(n, 1, l)
               PROVE  Len(m) <= Len(n) /\ m = SubSeq(n, 1, Len(m))
    BY DEF Prefixes
  <2> QED  BY <1>1, <1>3
<1>5. Len(m) \in Nat /\ Len(n) \in Nat
  BY <1>1
<1>6. ASSUME IsPrefix(m, n) PROVE m \in Prefixes(n)
  <2>1. Len(m) \in 0..Len(n) /\ m = SubSeq(n, 1, Len(m))
    BY <1>2, <1>5, <1>6 DEF IsPrefix
  <2> QED  BY <2>1 DEF Prefixes
<1>7. m \in Prefixes(n) => IsPrefix(m, n)
  BY <1>2, <1>4 DEF IsPrefix
<1> QED  BY <1>4, <1>6, <1>7

\* A prefix of a prefix.
LEMMA SubSeqTwice ==
    ASSUME NEW n \in Name, NEW j \in Nat, NEW k \in Nat, j <= k, k <= Len(n)
    PROVE  SubSeq(SubSeq(n, 1, k), 1, j) = SubSeq(n, 1, j)
<1>1. n \in Seq(Component) /\ Len(n) \in Nat
  BY TrieAssumption DEF Component
<1>2. SubSeq(n, 1, k) \in Seq(Component)
  BY <1>1, SubSeqProperties
<1>3. CASE j = 0
  BY <1>3, SubSeqEmpty
<1>4. CASE j > 0
  BY <1>1, <1>2, <1>4, SubSeqOfSubSeq
<1> QED  BY <1>3, <1>4

\* Prefixes order names: reflexive, antisymmetric, transitive, with a least
\* element, and the prefixes of one name form a chain.
LEMMA PrefixOrder ==
    ASSUME NEW n \in Name
    PROVE  /\ Prefixes(n) \subseteq Name
           /\ n \in Prefixes(n) /\ <<>> \in Prefixes(n)
           /\ \A m \in Prefixes(n) : Prefixes(m) \subseteq Prefixes(n)
           /\ \A m \in Prefixes(n) : n \in Prefixes(m) => m = n
           /\ \A m, k \in Prefixes(n) : m \in Prefixes(k) \/ k \in Prefixes(m)
<1>1. n \in Seq(Component) /\ Len(n) \in Nat /\ Prefixes(n) \subseteq Name
  BY TrieAssumption DEF Component
<1>2. n \in Prefixes(n)
  BY <1>1, SubSeqFull DEF Prefixes
<1>3. <<>> \in Prefixes(n)
  <2>1. SubSeq(n, 1, 0) = <<>>
    BY SubSeqEmpty
  <2> QED  BY <1>1, <2>1 DEF Prefixes
<1>4. ASSUME NEW m \in Prefixes(n), NEW k \in Prefixes(m) PROVE k \in Prefixes(n)
  <2>1. m \in Name /\ k \in Name
    BY <1>1, <1>4, TrieAssumption
  <2>2. Len(m) \in Nat /\ Len(k) \in Nat
    BY <2>1, TrieAssumption DEF Component
  <2>3. /\ Len(m) <= Len(n) /\ m = SubSeq(n, 1, Len(m))
        /\ Len(k) <= Len(m) /\ k = SubSeq(m, 1, Len(k))
    BY <1>4, <2>1, PrefixOf
  <2>4. SubSeq(SubSeq(n, 1, Len(m)), 1, Len(k)) = SubSeq(n, 1, Len(k))
    BY <2>2, <2>3, SubSeqTwice
  <2>5. k = SubSeq(n, 1, Len(k)) /\ Len(k) \in 0..Len(n)
    BY <1>1, <2>2, <2>3, <2>4
  <2> QED  BY <2>5 DEF Prefixes
<1>5. ASSUME NEW m \in Prefixes(n), n \in Prefixes(m) PROVE m = n
  <2>1. m \in Name /\ Len(m) \in Nat
    BY <1>1, <1>5, TrieAssumption DEF Component
  <2>2. Len(m) <= Len(n) /\ Len(n) <= Len(m) /\ m = SubSeq(n, 1, Len(m))
    BY <1>5, <2>1, PrefixOf
  <2> QED  BY <1>1, <2>1, <2>2, SubSeqFull
<1>6. ASSUME NEW m \in Prefixes(n), NEW k \in Prefixes(n), Len(m) <= Len(k)
      PROVE  m \in Prefixes(k)
  <2>1. m \in Name /\ k \in Name /\ Len(m) \in Nat /\ Len(k) \in Nat
    BY <1>1, TrieAssumption DEF Component
  <2>2. m = SubSeq(n, 1, Len(m)) /\ k = SubSeq(n, 1, Len(k)) /\ Len(k) <= Len(n)
    BY <2>1, PrefixOf
  <2>3. SubSeq(SubSeq(n, 1, Len(k)), 1, Len(m)) = SubSeq(n, 1, Len(m))
    BY <1>6, <2>1, <2>2, SubSeqTwice
  <2>4. m = SubSeq(k, 1, Len(m)) /\ Len(m) \in 0..Len(k)
    BY <1>6, <2>1, <2>2, <2>3
  <2> QED  BY <2>4 DEF Prefixes
<1>7. \A m, k \in Prefixes(n) : m \in Prefixes(k) \/ k \in Prefixes(m)
  <2> TAKE m, k \in Prefixes(n)
  <2>1. Len(m) \in Nat /\ Len(k) \in Nat
    BY <1>1, TrieAssumption DEF Component
  <2>2. Len(m) <= Len(k) \/ Len(k) <= Len(m)
    BY <2>1
  <2> QED  BY <1>6, <2>2
<1> QED  BY <1>1, <1>2, <1>3, <1>4, <1>5, <1>7

\* Of some prefixes of one name one is the longest, and Longest chooses it.
LEMMA LongestOf ==
    ASSUME NEW n \in Name, NEW S \in SUBSET Prefixes(n), S # {}
    PROVE  Longest(S) \in S /\ \A m \in S : m \in Prefixes(Longest(S))
<1> DEFINE Left(m) == Len(n) - Len(m)
           Lefts == {Left(m) : m \in S}
           R == {ss \in Nat \X Nat : ss[1] < ss[2]}
<1>1. /\ \A m \in S : m \in Name /\ Len(m) \in Nat /\ Len(m) <= Len(n)
      /\ Len(n) \in Nat
  BY PrefixOrder, PrefixOf, TrieAssumption DEF Component
<1>2. Lefts \subseteq Nat /\ Lefts # {}
  BY <1>1
<1>3. IsWellFoundedOn(R, Nat)
  BY NatLessThanWellFounded, SMT DEF OpToRel
<1>4. PICK l \in Lefts : \A k \in Lefts : ~ (<<k, l>> \in R)
  <2> HIDE DEF R, Lefts
  <2> QED  BY <1>2, <1>3, WFMin
<1>5. PICK x \in S : l = Left(x)
  OBVIOUS
<1>6. ASSUME NEW m \in S PROVE m \in Prefixes(x)
  <2>1. ~ (<<Left(m), Left(x)>> \in R) /\ Left(m) \in Nat /\ Left(x) \in Nat
    BY <1>2, <1>4, <1>5
  <2>2. Len(m) <= Len(x)
    BY <1>1, <2>1
  <2>3. CASE m \in Prefixes(x)
    BY <2>3
  <2>4. CASE x \in Prefixes(m)
    <3>1. Len(x) <= Len(m)
      BY <1>1, <2>4, PrefixOf
    <3>2. m = SubSeq(n, 1, Len(m)) /\ x = SubSeq(n, 1, Len(x)) /\ Len(m) = Len(x)
      BY <1>1, <2>2, <3>1, PrefixOf
    <3> QED  BY <1>1, <3>2, PrefixOrder
  <2> QED  BY <2>3, <2>4, PrefixOrder
<1>7. \A m \in S : IsPrefix(m, x)
  BY <1>1, <1>6, PrefixOf
<1>8. Longest(S) \in S /\ \A m \in S : IsPrefix(m, Longest(S))
  BY <1>5, <1>7 DEF Longest
<1> QED  BY <1>1, <1>8, PrefixOf

\* The children of a node, in terms of prefixes.
LEMMA ChildrenOf ==
    ASSUME TrieTypeOK, NEW n \in Name
    PROVE  Children(n) = {c \in DOMAIN trie : n \in Prefixes(c) /\ c # n}
BY PrefixOf DEF TrieTypeOK, Children, IsStrictPrefix
-----------------------------------------------------------------------------
(***************************************************************************)
(* The invariant.                                                          *)
(***************************************************************************)
THEOREM TrieInitInvariant == TrieInit => TrieIInv
<1> SUFFICES ASSUME TrieInit PROVE TrieIInv
  OBVIOUS
<1>1. PICK n \in Name : TRUE
  BY TrieAssumption
<1>2. <<>> \in Name
  BY <1>1, PrefixOrder
<1>3. DOMAIN trie = {<<>>} /\ trie[<<>>] = NoHandler
  BY DEF TrieInit
<1>4. TrieTypeOK /\ NoDeadBranch
  BY <1>2, <1>3 DEF TrieInit, TrieTypeOK, NoDeadBranch
<1>5. Prefixes(<<>>) \subseteq {<<>>}
  BY <1>2, PrefixOrder
<1> QED  BY <1>3, <1>4, <1>5 DEF TrieIInv, Closed

\* What MatchAlways adds are nodes without handler on the way to the name.
LEMMA Attached ==
    ASSUME TrieIInv, NEW n \in Name, NEW h \in Handler, AttachHandler(n, h)
    PROVE  /\ DOMAIN trie' = DOMAIN trie \cup Prefixes(n)
           /\ trie'[n] = h
           /\ \A m \in DOMAIN trie' \ {n} :
                 trie'[m] = IF m \in DOMAIN trie THEN trie[m] ELSE NoHandler
           /\ n \in DOMAIN trie => trie[n] = NoHandler
           /\ trie' = [m \in DOMAIN trie' |-> trie'[m]]
<1>1. n \in Prefixes(n)
  BY PrefixOrder
<1> QED  BY <1>1 DEF AttachHandler, MatchAlways

LEMMA AttachInvariant ==
    ASSUME TrieIInv, NEW n \in Name, NEW h \in Handler, AttachHandler(n, h)
    PROVE  TrieIInv'
<1>1. /\ DOMAIN trie' = DOMAIN trie \cup Prefixes(n)
      /\ trie'[n] = h
      /\ \A m \in DOMAIN trie' \ {n} :
            trie'[m] = IF m \in DOMAIN trie THEN trie[m] ELSE NoHandler
      /\ trie' = [m \in DOMAIN trie' |-> trie'[m]]
  BY Attached
<1>2. /\ Prefixes(n) \subseteq Name /\ n \in Prefixes(n)
      /\ \A m \in Prefixes(n) : Prefixes(m) \subseteq Prefixes(n)
  BY PrefixOrder
<1>3. TrieTypeOK'
  <2>1. \A m \in DOMAIN trie' : trie'[m] \in Handler \cup {NoHandler}
    BY <1>1 DEF TrieIInv, TrieTypeOK
  <2> QED  BY <1>1, <1>2, <2>1 DEF TrieIInv, TrieTypeOK
<1>4. Closed'
  BY <1>1, <1>2 DEF TrieIInv, Closed
<1>5. NoDeadBranch'
  <2> SUFFICES ASSUME NEW m \in DOMAIN trie', m # <<>>, Children(m)' = {}
               PROVE  trie'[m] # NoHandler
    BY DEF NoDeadBranch
  <2>1. m \in Name
    BY <1>3 DEF TrieTypeOK
  <2>2. Children(m)' = {c \in DOMAIN trie' : m \in Prefixes(c) /\ c # m}
    BY <1>3, <2>1, PrefixOf DEF TrieTypeOK, Children, IsStrictPrefix
  <2>3. CASE m = n
    BY <1>1, <2>3, TrieAssumption
  <2>4. CASE m # n
    <3>1. m \notin Prefixes(n)
      BY <1>1, <1>2, <2>2, <2>4
    <3>2. m \in DOMAIN trie /\ trie'[m] = trie[m]
      BY <1>1, <2>4, <3>1
    <3>3. Children(m) = {}
      BY <1>1, <2>1, <2>2, ChildrenOf DEF TrieIInv
    <3> QED  BY <3>2, <3>3 DEF TrieIInv, NoDeadBranch
  <2> QED  BY <2>3, <2>4
<1> QED  BY <1>3, <1>4, <1>5 DEF TrieIInv

\* What is pruned: nodes on the way to the name with nothing else below them.
LEMMA PrunedOf ==
    ASSUME TrieIInv, NEW n \in DOMAIN trie
    PROVE  Pruned(n) = {p \in Prefixes(n) \ {<<>>} :
              \A q \in DOMAIN trie : p \in Prefixes(q) =>
                  q \in Prefixes(n) /\ (q = n \/ trie[q] = NoHandler)}
<1>1. n \in Name /\ Prefixes(n) \subseteq Name /\ Prefixes(n) \subseteq DOMAIN trie
  BY PrefixOrder DEF TrieIInv, TrieTypeOK, Closed
<1>2. ASSUME NEW p \in Prefixes(n)
      PROVE  {p} \cup Children(p) = {q \in DOMAIN trie : p \in Prefixes(q)}
  BY <1>1, ChildrenOf, PrefixOrder DEF TrieIInv
<1> QED  BY <1>2 DEF Pruned

LEMMA DetachInvariant ==
    ASSUME TrieIInv, NEW n \in DOMAIN trie, DetachHandler(n)
    PROVE  TrieIInv'
<1>1. /\ DOMAIN trie' = DOMAIN trie \ Pruned(n)
      /\ \A m \in DOMAIN trie' : trie'[m] = IF m = n THEN NoHandler ELSE trie[m]
      /\ trie' = [m \in DOMAIN trie' |-> trie'[m]]
  BY DEF DetachHandler
<1>2. n \in Name /\ n \in Prefixes(n) /\ Prefixes(n) \subseteq Name
  BY PrefixOrder DEF TrieIInv, TrieTypeOK
<1>3. <<>> \notin Pruned(n)
  BY DEF Pruned
<1>4. TrieTypeOK'
  BY <1>1, <1>3 DEF TrieIInv, TrieTypeOK
<1>5. Closed'
  <2> SUFFICES ASSUME NEW m \in DOMAIN trie', NEW p \in Prefixes(m), p \in Pruned(n)
               PROVE  FALSE
    BY <1>1 DEF TrieIInv, Closed
  <2>1. m \in Name /\ m \in DOMAIN trie /\ m \notin Pruned(n)
    BY <1>1 DEF TrieIInv, TrieTypeOK
  <2>2. m \in Prefixes(n)
    BY <2>1, PrunedOf
  <2>3. m # <<>>
    <3>1. p # <<>> /\ p \in Name
      BY <1>2, PrunedOf
    <3>2. m = <<>> => m \in Prefixes(p)
      BY <3>1, PrefixOrder
    <3> QED  BY <2>1, <3>1, <3>2, PrefixOrder
  <2>4. PICK q \in DOMAIN trie :
           m \in Prefixes(q) /\ ~(q \in Prefixes(n) /\ (q = n \/ trie[q] = NoHandler))
    BY <2>1, <2>2, <2>3, PrunedOf
  <2>5. q \in Name /\ p \in Prefixes(q)
    BY <2>4, PrefixOrder DEF TrieIInv, TrieTypeOK
  <2> QED  BY <2>4, <2>5, PrunedOf
<1>6. NoDeadBranch'
  <2> SUFFICES ASSUME NEW m \in DOMAIN trie', m # <<>>, Children(m)' = {},
                      trie'[m] = NoHandler
               PROVE  FALSE
    BY DEF NoDeadBranch
  <2>1. m \in Name /\ m \in DOMAIN trie /\ m \notin Pruned(n) /\ (m = n \/ trie[m] = NoHandler)
    BY <1>1 DEF TrieIInv, TrieTypeOK
  <2>2. Children(m)' = {c \in DOMAIN trie' : m \in Prefixes(c) /\ c # m}
    BY <1>4, <2>1, PrefixOf DEF TrieTypeOK, Children, IsStrictPrefix
  <2>3. Children(m) \subseteq Pruned(n)
    BY <1>1, <2>1, <2>2, ChildrenOf DEF TrieIInv
  <2>4. m \in Prefixes(n)
    <3>1. CASE m = n
      BY <1>2, <3>1
    <3>2. CASE m # n
      <4>1. Children(m) # {}
        BY <2>1, <3>2 DEF TrieIInv, NoDeadBranch
      <4>2. PICK c \in Children(m) : c \in Prefixes(n) /\ m \in Prefixes(c)
        BY <2>1, <2>3, <4>1, ChildrenOf, PrunedOf DEF TrieIInv
      <4> QED  BY <1>2, <4>2, PrefixOrder
    <3> QED  BY <3>1, <3>2
  <2>5. ASSUME NEW q \in DOMAIN trie, m \in Prefixes(q)
        PROVE  q \in Prefixes(n) /\ (q = n \/ trie[q] = NoHandler)
    <3>1. CASE q = m
      BY <2>1, <2>4, <3>1
    <3>2. CASE q # m
      <4>1. q \in Pruned(n) /\ q \in Name
        BY <2>1, <2>3, <2>5, <3>2, ChildrenOf DEF TrieIInv, TrieTypeOK
      <4> QED  BY <4>1, PrunedOf, PrefixOrder
    <3> QED  BY <3>1, <3>2
  <2> QED  BY <2>1, <2>4, <2>5, PrunedOf
<1> QED  BY <1>4, <1>5, <1>6 DEF TrieIInv

THEOREM TrieStepInvariant == TrieIInv /\ [TrieNext]_trie => TrieIInv'
<1> SUFFICES ASSUME TrieIInv, [TrieNext]_trie PROVE TrieIInv'
  OBVIOUS
<1>1. CASE UNCHANGED trie
  BY <1>1 DEF TrieIInv, TrieTypeOK, Closed, NoDeadBranch, Children
<1>2. ASSUME NEW n \in Name, DetachHandler(n) PROVE TrieIInv'
  BY <1>2, DetachInvariant DEF DetachHandler
<1>3. ASSUME NEW n \in Name, NEW h \in Handler, AttachHandler(n, h) PROVE TrieIInv'
  BY <1>3, AttachInvariant
<1> QED  BY <1>1, <1>2, <1>3 DEF TrieNext

THEOREM TrieInvariance == TrieSpec => []TrieIInv
BY TrieInitInvariant, TrieStepInvariant, PTL DEF TrieSpec
-----------------------------------------------------------------------------
(* A node of the trie is a name and holds a handler or nothing.             *)
THEOREM TrieTypeCorrect == TrieSpec => []TrieTypeOK
BY TrieInvariance, PTL DEF TrieIInv

(* Every leaf but the root has a handler, however handlers came and went    *)
(* (engine.go, prune).                                                      *)
THEOREM LiveBranches == TrieSpec => []NoDeadBranch
BY TrieInvariance, PTL DEF TrieIInv

LEMMA LookupLongest == TrieIInv => LongestPrefixWins
<1> SUFFICES ASSUME TrieIInv, NEW n \in Name
             PROVE  LET matching == {p \in Prefixes(n) : Handlers[p] # NoHandler}
                    IN  Lookup(n) = IF matching = {} THEN NoHandler
                                    ELSE Handlers[Longest(matching)]
  BY DEF LongestPrefixWins
<1> DEFINE reached == {p \in Prefixes(n) : Prefixes(p) \subseteq DOMAIN trie}
           matching == {p \in Prefixes(n) : Handlers[p] # NoHandler}
           end == PrefixMatch(n)
<1>1. /\ Prefixes(n) \subseteq Name /\ <<>> \in Prefixes(n) /\ <<>> \in Name
      /\ \A p \in Prefixes(n) : p \in DOMAIN trie => p \in reached
  BY PrefixOrder DEF TrieIInv, Closed
<1>2. /\ end \in reached /\ \A p \in reached : p \in Prefixes(end)
  <2>1. <<>> \in reached
    BY <1>1 DEF TrieIInv, TrieTypeOK
  <2> QED  BY <2>1, LongestOf DEF PrefixMatch
<1>3. Prefixes(end) \subseteq Prefixes(n) /\ Prefixes(end) \subseteq DOMAIN trie
  BY <1>2, PrefixOrder
<1>4. \A p \in Name : p \in DOMAIN trie => Handlers[p] = trie[p]
  BY DEF Handlers
<1>5. matching = {p \in Prefixes(end) : trie[p] # NoHandler}
  <2>1. ASSUME NEW p \in matching PROVE p \in Prefixes(end) /\ trie[p] # NoHandler
    <3>1. p \in DOMAIN trie /\ trie[p] # NoHandler
      BY <1>1 DEF Handlers
    <3> QED  BY <1>1, <1>2, <3>1
  <2>2. ASSUME NEW p \in Prefixes(end), trie[p] # NoHandler PROVE p \in matching
    BY <1>1, <1>3, <1>4, <2>2
  <2> QED  BY <2>1, <2>2
<1>6. CASE matching = {}
  BY <1>5, <1>6 DEF Lookup
<1>7. CASE matching # {}
  <2>1. Longest(matching) \in matching
    BY <1>7, LongestOf
  <2>2. Handlers[Longest(matching)] = trie[Longest(matching)]
    BY <1>1, <1>3, <1>4, <1>5, <2>1
  <2> QED  BY <1>5, <1>7, <2>2 DEF Lookup
<1> QED  BY <1>6, <1>7

(* An Interest goes to the handler with the longest prefix of its name, also*)
(* when the walk down ends at a node without one (engine.go, onInterest).   *)
THEOREM LongestWins == TrieSpec => []LongestPrefixWins
BY TrieInvariance, LookupLongest, PTL

LEMMA StepRefines == TrieIInv /\ [TrieNext]_trie => [Map!Next]_Handlers
<1> SUFFICES ASSUME TrieIInv, [TrieNext]_trie PROVE [Map!Next]_Handlers
  OBVIOUS
<1>1. Handlers = [n \in Name |-> IF n \in DOMAIN trie THEN trie[n] ELSE NoHandler]
  BY DEF Handlers
<1>2. CASE UNCHANGED trie
  BY <1>2 DEF Handlers
<1>3. ASSUME NEW n \in Name, NEW h \in Handler, AttachHandler(n, h)
      PROVE  Map!Attach(n, h)
  <2>1. /\ DOMAIN trie' = DOMAIN trie \cup Prefixes(n)
        /\ trie'[n] = h
        /\ \A m \in DOMAIN trie' \ {n} :
              trie'[m] = IF m \in DOMAIN trie THEN trie[m] ELSE NoHandler
        /\ n \in DOMAIN trie => trie[n] = NoHandler
    BY <1>3, Attached
  <2>2. n \in DOMAIN trie' /\ Handlers[n] = NoHandler
    BY <2>1, PrefixOrder DEF Handlers
  <2>3. \A m \in Name : Handlers'[m] = IF m = n THEN h ELSE Handlers[m]
    BY <2>1, <2>2 DEF Handlers
  <2> QED  BY <1>1, <2>2, <2>3 DEF Map!Attach, Handlers
<1>4. ASSUME NEW n \in Name, DetachHandler(n)
      PROVE  Map!Detach(n) \/ UNCHANGED Handlers
  <2>1. /\ n \in DOMAIN trie
        /\ DOMAIN trie' = DOMAIN trie \ Pruned(n)
        /\ \A m \in DOMAIN trie' : trie'[m] = IF m = n THEN NoHandler ELSE trie[m]
    BY <1>4 DEF DetachHandler
  <2>2. \A p \in Pruned(n) : p # n => trie[p] = NoHandler
    <3>1. \A p \in Pruned(n) : p \in DOMAIN trie /\ p \in Prefixes(p)
      BY <2>1, PrunedOf, PrefixOrder DEF TrieIInv, Closed
    <3> QED  BY <2>1, <3>1, PrunedOf
  <2>3. \A m \in Name : Handlers'[m] = IF m = n THEN NoHandler ELSE Handlers[m]
    BY <2>1, <2>2 DEF Handlers
  <2>4. CASE Handlers[n] # NoHandler
    BY <1>1, <2>3, <2>4 DEF Map!Detach, Handlers
  <2>5. CASE Handlers[n] = NoHandler
    BY <2>3, <2>5 DEF Handlers
  <2> QED  BY <2>4, <2>5
<1> QED  BY <1>2, <1>3, <1>4 DEF TrieNext, Map!Next

(* The trie implements the partial map of handlers: attaching and detaching *)
(* touch one name (engine.go, AttachHandler, DetachHandler and prune).      *)
THEOREM TrieRefinement == TrieSpec => ImplementsMap
<1>1. TrieInit => Map!Init
  BY DEF TrieInit, Handlers, Map!Init
<1> QED  BY <1>1, StepRefines, TrieInvariance, PTL DEF TrieSpec, ImplementsMap, Map!Spec
=============================================================================
