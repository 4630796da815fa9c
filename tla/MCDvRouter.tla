------------------------------ MODULE MCDvRouter ------------------------------
EXTENDS DvRouter, TLC

\* No definition chooses between nodes.
NodesAlike == Permutations(Node)
=============================================================================
