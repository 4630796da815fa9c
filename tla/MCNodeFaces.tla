----------------------------- MODULE MCNodeFaces ----------------------------
EXTENDS NodeFaces, TLC

\* Nodes and prefixes are interchangeable.
Symmetry == Permutations(Node) \cup Permutations(Prefix)
=============================================================================
