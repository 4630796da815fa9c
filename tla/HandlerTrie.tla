----------------------------- MODULE HandlerTrie ----------------------------
(***************************************************************************)
(* The name trie with which SimEngine finds the handler of an Interest     *)
(* (engine.go, nameTrie).  A node of the trie is the name that leads to it;*)
(* its parent, depth and children follow from that name.  Every operation  *)
(* holds fibLock, so it is one step.  The names of the specification begin *)
(* with Trie: Engine_proofs extends this module and SimEngine.             *)
(***************************************************************************)
EXTENDS Naturals, Sequences, SequencesExt

CONSTANTS
    Name,       \* the names in use, with all their prefixes
    Handler,
    NoHandler        \* a node without handler

ASSUME TrieAssumption ==
    /\ Name # {}
    /\ Name \subseteq Seq(UNION {Range(n) : n \in Name})
    /\ \A n \in Name : Prefixes(n) \subseteq Name
    /\ NoHandler \notin Handler

VARIABLE trie   \* the handler, or NoHandler, of every node there is

TrieTypeOK ==
    /\ trie \in [DOMAIN trie -> Handler \cup {NoHandler}]
    /\ DOMAIN trie \subseteq Name
    /\ <<>> \in DOMAIN trie

TrieInit == trie = [n \in {<<>>} |-> NoHandler]
-----------------------------------------------------------------------------
Children(n) == {c \in DOMAIN trie : IsStrictPrefix(n, c)}

\* The longest of some prefixes of one name.
Longest(names) == CHOOSE n \in names : \A m \in names : IsPrefix(m, n)

\* The walk down goes on as long as there is a child to go to.
PrefixMatch(n) == Longest({p \in Prefixes(n) : Prefixes(p) \subseteq DOMAIN trie})

\* Fault: the node where the walk ends is asked, and none of those above it.
LookupAtEnd(n) == trie[PrefixMatch(n)]

\* The walk up from there ends at the first node with a handler.
Lookup(n) ==
    LET found == {p \in Prefixes(PrefixMatch(n)) : trie[p] # NoHandler}
    IN  IF found = {} THEN NoHandler ELSE trie[Longest(found)]
-----------------------------------------------------------------------------
\* The trie with the nodes on the way to n, made if they are missing.
MatchAlways(n) ==
    [m \in DOMAIN trie \cup Prefixes(n) |->
        IF m \in DOMAIN trie THEN trie[m] ELSE NoHandler]

\* Fault: a second handler takes the place of the first.
AttachHandlerOver(n, h) == trie' = [MatchAlways(n) EXCEPT ![n] = h]

AttachHandler(n, h) ==
    /\ MatchAlways(n)[n] = NoHandler
    /\ trie' = [MatchAlways(n) EXCEPT ![n] = h]

\* Fault: only n itself is taken out.
PrunedOnce(n) == {p \in {n} \ {<<>>} : Children(p) = {}}

\* The loop takes n and the nodes above it out as long as they have neither
\* handler nor children; a node on the way up is childless once the one below
\* it is gone.  The root stays.
Pruned(n) ==
    {p \in Prefixes(n) \ {<<>>} :
        \A q \in {p} \cup Children(p) :
            q \in Prefixes(n) /\ (q = n \/ trie[q] = NoHandler)}

\* A node without handler is there too, if a longer name has one.
DetachHandler(n) ==
    /\ n \in DOMAIN trie
    /\ trie' = [m \in DOMAIN trie \ Pruned(n) |-> IF m = n THEN NoHandler ELSE trie[m]]

TrieNext == \E n \in Name : DetachHandler(n) \/ \E h \in Handler : AttachHandler(n, h)

TrieSpec == TrieInit /\ [][TrieNext]_trie
-----------------------------------------------------------------------------
\* The handlers that a trie holds.
Handlers == [n \in Name |-> IF n \in DOMAIN trie THEN trie[n] ELSE NoHandler]

Map == INSTANCE HandlerMap WITH handlers <- Handlers, None <- NoHandler

(* Attaching and detaching touches the handler of one name, never one of a  *)
(* longer or a shorter name, however the nodes on the way come and go       *)
(* (engine.go, AttachHandler, DetachHandler and prune).                     *)
ImplementsMap == Map!Spec

(* An Interest goes to the handler with the longest prefix of its name,     *)
(* also when the walk down ends at a node that has no handler of its own    *)
(* (engine.go, onInterest and DispatchInterest).                            *)
LongestPrefixWins ==
    \A n \in Name :
        LET matching == {p \in Prefixes(n) : Handlers[p] # NoHandler}
        IN  Lookup(n) = IF matching = {} THEN NoHandler ELSE Handlers[Longest(matching)]

(* A trie that handlers come to and go from does not grow: every leaf but   *)
(* the root has a handler (engine.go, prune).                               *)
NoDeadBranch ==
    \A n \in DOMAIN trie \ {<<>>} : Children(n) = {} => trie[n] # NoHandler
=============================================================================
