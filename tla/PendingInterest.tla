--------------------------- MODULE PendingInterest --------------------------
(***************************************************************************)
(* What Engine.Express promises for an Interest with a callback: once it   *)
(* is accepted it gets exactly one of a Data, a timeout or an error.       *)
(***************************************************************************)
CONSTANT Expr     \* calls of Express

VARIABLE outcome  \* what has become of each call

Outcome == {"new", "waiting", "data", "timeout", "refused"}

OutcomeTypeOK == outcome \in [Expr -> Outcome]

Init == outcome = [x \in Expr |-> "new"]

Move(x, from, to) ==
    /\ outcome[x] = from
    /\ outcome' = [outcome EXCEPT ![x] = to]

Refuse(x) == Move(x, "new", "refused")
Accept(x) == Move(x, "new", "waiting")
Data(x) == Move(x, "waiting", "data")
Timeout(x) == Move(x, "waiting", "timeout")
TakeBack(x) == Move(x, "waiting", "refused")

Next == \E x \in Expr :
    Refuse(x) \/ Accept(x) \/ Data(x) \/ Timeout(x) \/ TakeBack(x)

Spec == Init /\ [][Next]_outcome
=============================================================================
