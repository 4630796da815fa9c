----------------------------- MODULE HandlerMap -----------------------------
(***************************************************************************)
(* What AttachHandler and DetachHandler of an engine promise: a partial map*)
(* from names to handlers, in which the first handler of a name stays until*)
(* it is detached.                                                         *)
(***************************************************************************)
EXTENDS Naturals, Sequences

CONSTANTS Name, Handler, None

VARIABLE handlers

Init == handlers = [n \in Name |-> None]

Attach(n, h) ==
    /\ handlers[n] = None
    /\ handlers' = [handlers EXCEPT ![n] = h]

Detach(n) ==
    /\ handlers[n] # None
    /\ handlers' = [handlers EXCEPT ![n] = None]

Next == \E n \in Name : Detach(n) \/ \E h \in Handler : Attach(n, h)

Spec == Init /\ [][Next]_handlers
=============================================================================
