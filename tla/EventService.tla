---------------------------- MODULE EventService ----------------------------
(***************************************************************************)
(* What a Clock promises to the code that schedules on it: an event that   *)
(* was scheduled runs at most once, a cancelled event never starts, and    *)
(* the events of a node that is gone are dropped without running.  Cancel  *)
(* is harmless on an event that has already run or was already cancelled.  *)
(***************************************************************************)
CONSTANT EvID     \* event identifiers

VARIABLE status   \* the stage of its life each event is in

Stage == {"new", "scheduled", "ran", "cancelled", "dropped"}

ServiceTypeOK == status \in [EvID -> Stage]

Init == status = [id \in EvID |-> "new"]

Move(id, from, to) ==
    /\ status[id] \in from
    /\ status' = [status EXCEPT ![id] = to]

Schedule(id) == Move(id, {"new"}, "scheduled")

\* Scheduled by code that still runs for a node that no longer exists, or
\* while the simulator is being torn down.
ScheduleDead(id) == Move(id, {"new"}, "dropped")

Run(id) == Move(id, {"scheduled"}, "ran")

Cancel(id) == Move(id, {"scheduled", "dropped"}, "cancelled")

\* A node disappears: some of its events are cancelled by its Stop, the
\* other ones are dropped.
NodeGone(stopped, lost) ==
    /\ \A id \in stopped : status[id] \in {"scheduled", "dropped", "ran", "cancelled"}
    /\ \A id \in lost : status[id] = "scheduled"
    /\ status' = [id \in EvID |->
                    IF id \in stopped /\ status[id] \in {"scheduled", "dropped"}
                    THEN "cancelled"
                    ELSE IF id \in lost THEN "dropped" ELSE status[id]]

\* A node whose start failed: its first event is scheduled and cancelled
\* in one go.
StillBorn(id) == Move(id, {"new"}, "cancelled")

Next ==
    \/ \E id \in EvID : \/ Schedule(id) \/ ScheduleDead(id) \/ StillBorn(id)
                        \/ Run(id) \/ Cancel(id)
    \/ \E stopped, lost \in SUBSET EvID : NodeGone(stopped, lost)

Spec == Init /\ [][Next]_status
=============================================================================
