------------------------- MODULE MCRouteCalculation -------------------------
EXTENDS RouteCalculation, TLC

\* Point-to-point links, fast and slow, and one shared channel without delay.
Channels ==
    [ends : {S \in SUBSET Node : Cardinality(S) = 2}, delay : {1, 3}]
        \cup {[ends |-> Node, delay |-> 0]}

\* No definition chooses between producers.
ProducersAlike == Permutations(producers)
=============================================================================
