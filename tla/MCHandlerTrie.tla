---------------------------- MODULE MCHandlerTrie ---------------------------
EXTENDS HandlerTrie

CONSTANTS a, b

\* A root with two branches, one of them three deep and forked at its end.
Names == {<<>>, <<a>>, <<b>>, <<a, a>>, <<a, b>>, <<a, b, a>>, <<a, b, b>>}
=============================================================================
