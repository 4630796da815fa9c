------------------------------- MODULE Ticker -------------------------------
(***************************************************************************)
(* A periodic ticker as its user sees it: it is due once or not at all,    *)
(* ticks when its time has come, and while the handler of a tick runs is   *)
(* either set by that handler or goes on with its period.                  *)
(***************************************************************************)
EXTENDS Naturals

CONSTANT Period

VARIABLES
    due,        \* the time left to the next tick: {} or one number
    period,
    handling,   \* the handler of a tick is running
    touched     \* that handler has reset or stopped the ticker

vars == <<due, period, handling, touched>>

Init ==
    /\ period \in Period
    /\ due = {period}
    /\ handling = FALSE
    /\ touched = FALSE

Elapse ==
    /\ ~handling
    /\ due # {0}
    /\ due' = {d - 1 : d \in due}
    /\ UNCHANGED <<period, handling, touched>>

Tick ==
    /\ ~handling
    /\ due = {0}
    /\ due' = {}
    /\ handling' = TRUE
    /\ UNCHANGED <<period, touched>>

\* A tick that nobody handles.
Skip ==
    /\ ~handling
    /\ due = {0}
    /\ due' = {period}
    /\ UNCHANGED <<period, handling, touched>>

Handled ==
    /\ handling
    /\ handling' = FALSE
    /\ touched' = FALSE
    /\ due' = IF touched THEN due ELSE {period}
    /\ UNCHANGED period

Reset(d) ==
    /\ due' = {d}
    /\ period' = d
    /\ touched' = handling
    /\ UNCHANGED handling

Stop ==
    /\ due' = {}
    /\ touched' = handling
    /\ UNCHANGED <<period, handling>>

Next == Elapse \/ Tick \/ Skip \/ Handled \/ Stop \/ \E d \in Period : Reset(d)

Spec == Init /\ [][Next]_vars
=============================================================================
