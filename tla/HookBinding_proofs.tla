-------------------------- MODULE HookBinding_proofs ------------------------
(***************************************************************************)
(* The bindings and locks of HookBinding are right for any number of nodes *)
(* and goroutines and any depth of nested calls.  Which threads can block  *)
(* each other is shown for goroutines that send packets or run code of a   *)
(* router.                                                                 *)
(*                                                                         *)
(* What makes it work: what a script does to its own thread (its binding,  *)
(* what it has saved, the locks it holds) depends on that thread alone.    *)
(* Every script runs from the local state it starts in back to that state, *)
(* asking on the way for what each step needs; so does a nested one, from  *)
(* the state in which it interrupts.  Hence what is left to do of a call   *)
(* always runs from where the thread is to a thread that has nothing.      *)
(***************************************************************************)
EXTENDS HookBinding, TLAPS, SequenceTheorems, FiniteSetTheorems

\* The real goroutines send packets or run code of a router.
Goroutines == WorkerCalls \subseteq {"express", "goroutine"}
Alone(t) == t \in Worker /\ Goroutines

Saved == Node \cup {None, Kept} \cup BOOLEAN
Ops == {"swap", "restore", "bind", "unbind", "lockNode", "own", "bindFib", "disown",
        "unlockNode", "lock", "unlock", "pipeline", "rib", "tables", "router", "simExec",
        "seeded", "startPfx"}
Todos == [op : Ops, node : Node, kind : {"node", "face", "dv"}]

\* What a step can see and change of its thread.  A worker is alone: it waits
\* for a lock only while it holds none but the mutex of the same node's router.
Local == [bind : Node \cup {None}, saved : Seq(Saved), own : SUBSET Node,
          held : SUBSET Mutex, alone : BOOLEAN]

Top(s) == Head(s.saved)
Push(s, x) == [s EXCEPT !.saved = <<x>> \o s.saved]
Pop(s) == [s EXCEPT !.saved = Tail(s.saved)]

\* The thread is inside withNodeFib of the nodes whose nodeMu it holds.
Consistent(s) == \A n \in Node : n \in s.own <=> <<n, "node">> \in s.held

\* Nobody waits for the mutex of a router with a faceMu in hand.
MayLock(s, m) ==
    /\ m \notin s.held
    /\ m[2] = "dv" => \A l \in s.held : l[2] # "face"
    /\ s.alone => \A l \in s.held : l = <<m[1], "dv">>

\* A thread may take nodeMu or faceMu of n.
Calm(s, n) == Consistent(s) /\ (s.alone => \A l \in s.held : l = <<n, "dv">>)

\* A thread may run code of the router of n.
Routing(s, n) ==
    /\ s.bind = n /\ Consistent(s)
    /\ \A l \in s.held : l[2] = "node"
    /\ s.alone => s.held = {}

\* What a step asks of its thread, and what it makes of it.
After(s, e, r) ==
    LET n == e.node
        m == <<n, "node">>
        k == <<n, e.kind>>
    IN  \/ /\ e.op = "swap"
           /\ r = [Push(s, s.bind) EXCEPT !.bind = n]
        \/ /\ e.op = "restore"
           /\ s.saved # <<>> /\ Top(s) \in Node \cup {None, Kept}
           /\ r = [Pop(s) EXCEPT !.bind = IF Top(s) = Kept THEN s.bind ELSE Top(s)]
        \/ /\ e.op = "bind" /\ r = [s EXCEPT !.bind = n]
        \/ /\ e.op = "unbind" /\ r = [s EXCEPT !.bind = None]
        \/ /\ e.op = "lockNode" /\ n \in s.own /\ m \in s.held
           /\ r = Push(s, FALSE)
        \/ /\ e.op = "lockNode" /\ n \notin s.own /\ MayLock(s, m)
           /\ r = [Push(s, TRUE) EXCEPT !.held = s.held \cup {m}]
        \/ /\ e.op = "own" /\ s.saved # <<>> /\ Top(s) = TRUE /\ m \in s.held
           /\ r = [s EXCEPT !.own = s.own \cup {n}]
        \/ /\ e.op \in {"own", "disown"} /\ s.saved # <<>> /\ Top(s) = FALSE
           /\ r = s
        \/ /\ e.op = "bindFib"
           /\ r = [Push(s, IF s.bind = n THEN Kept ELSE s.bind) EXCEPT !.bind = n]
        \/ /\ e.op = "disown" /\ s.saved # <<>> /\ Top(s) = TRUE /\ n \in s.own
           /\ r = [s EXCEPT !.own = s.own \ {n}]
        \/ /\ e.op = "unlockNode" /\ s.saved # <<>> /\ Top(s) = TRUE
           /\ m \in s.held /\ n \notin s.own
           /\ r = [Pop(s) EXCEPT !.held = s.held \ {m}]
        \/ /\ e.op = "unlockNode" /\ s.saved # <<>> /\ Top(s) = FALSE
           /\ r = Pop(s)
        \/ /\ e.op = "lock" /\ e.kind \in {"face", "dv"} /\ MayLock(s, k)
           /\ r = [s EXCEPT !.held = s.held \cup {k}]
        \/ /\ e.op = "unlock" /\ e.kind \in {"face", "dv"} /\ k \in s.held
           /\ r = [s EXCEPT !.held = s.held \ {k}]
        \/ /\ e.op \in {"pipeline", "rib"}
           /\ s.bind = n /\ n \in s.own /\ m \in s.held
           /\ r = s
        \/ /\ e.op = "router" /\ Routing(s, n) /\ r = s
        \/ /\ e.op = "simExec"
           /\ s.bind = n /\ Calm(s, n) /\ <<n, "face">> \notin s.held
           /\ r = s
        \/ /\ e.op \in {"tables", "seeded"} /\ r = s
        \/ /\ e.op = "startPfx" /\ MayLock(s, <<n, "dv">>) /\ r = s

\* Script x takes a thread from a to b.
Runs(a, x, b) ==
    /\ x \in Seq(Todos)
    /\ \E st \in [1..(Len(x) + 1) -> Local] :
          /\ st[1] = a /\ st[Len(x) + 1] = b
          /\ \A i \in 1..Len(x) : After(st[i], x[i], st[i + 1])
-----------------------------------------------------------------------------
(***************************************************************************)
(* Scripts, put together and taken apart.                                  *)
(***************************************************************************)
LEMMA RunsEmpty ==
    ASSUME NEW a, NEW b
    PROVE  Runs(a, <<>>, b) <=> a \in Local /\ a = b
<1>1. ASSUME Runs(a, <<>>, b) PROVE a \in Local /\ a = b
  <2>1. PICK st \in [1..(Len(<<>>) + 1) -> Local] : st[1] = a /\ st[Len(<<>>) + 1] = b
    BY <1>1 DEF Runs
  <2> QED  BY <2>1
<1>2. ASSUME a \in Local, a = b PROVE Runs(a, <<>>, b)
  <2> DEFINE st == [i \in 1..(Len(<<>>) + 1) |-> a]
  <2>1. st \in [1..(Len(<<>>) + 1) -> Local] /\ st[1] = a /\ st[Len(<<>>) + 1] = b
    BY <1>2
  <2>2. <<>> \in Seq(Todos) /\ \A i \in 1..Len(<<>>) : FALSE
    OBVIOUS
  <2> QED  BY <2>1, <2>2 DEF Runs
<1> QED  BY <1>1, <1>2

LEMMA RunsOne ==
    ASSUME NEW a \in Local, NEW b \in Local, NEW e \in Todos, After(a, e, b)
    PROVE  Runs(a, <<e>>, b)
<1> DEFINE st == [i \in 1..(Len(<<e>>) + 1) |-> IF i = 1 THEN a ELSE b]
<1> HIDE DEF After
<1>1. <<e>> \in Seq(Todos) /\ Len(<<e>>) = 1 /\ <<e>>[1] = e
  OBVIOUS
<1>2. st \in [1..(Len(<<e>>) + 1) -> Local] /\ st[1] = a /\ st[2] = b
  BY <1>1
<1>3. \A i \in 1..Len(<<e>>) : After(st[i], <<e>>[i], st[i + 1])
  <2> SUFFICES ASSUME NEW i \in 1..Len(<<e>>) PROVE After(st[i], <<e>>[i], st[i + 1])
    OBVIOUS
  <2>1. i = 1 /\ i + 1 = 2
    BY <1>1
  <2> QED  BY <1>1, <1>2, <2>1
<1> HIDE DEF st
<1> QED  BY <1>1, <1>2, <1>3 DEF Runs

\* One script after another.
LEMMA RunsThen ==
    ASSUME NEW a, NEW b, NEW c, NEW x, NEW y, Runs(a, x, b), Runs(b, y, c)
    PROVE  Runs(a, x \o y, c)
<1>1. x \in Seq(Todos) /\ y \in Seq(Todos) /\ Len(x) \in Nat /\ Len(y) \in Nat
  BY DEF Runs
<1>2. /\ x \o y \in Seq(Todos) /\ Len(x \o y) = Len(x) + Len(y)
      /\ \A i \in 1..Len(x) : (x \o y)[i] = x[i]
      /\ \A i \in 1..Len(y) : (x \o y)[Len(x) + i] = y[i]
  BY <1>1
<1>3. PICK p \in [1..(Len(x) + 1) -> Local] :
         /\ p[1] = a /\ p[Len(x) + 1] = b
         /\ \A i \in 1..Len(x) : After(p[i], x[i], p[i + 1])
  BY DEF Runs
<1>4. PICK q \in [1..(Len(y) + 1) -> Local] :
         /\ q[1] = b /\ q[Len(y) + 1] = c
         /\ \A i \in 1..Len(y) : After(q[i], y[i], q[i + 1])
  BY DEF Runs
<1> DEFINE st == [i \in 1..(Len(x \o y) + 1) |->
                     IF i <= Len(x) THEN p[i] ELSE q[i - Len(x)]]
<1>5. /\ \A i \in 1..Len(x) : st[i] = p[i]
      /\ \A i \in 1..(Len(y) + 1) : st[Len(x) + i] = q[i]
  BY <1>1, <1>2
<1>6. st \in [1..(Len(x \o y) + 1) -> Local]
  <2>1. \A i \in 1..(Len(x \o y) + 1) :
           IF i <= Len(x) THEN i \in 1..(Len(x) + 1) ELSE i - Len(x) \in 1..(Len(y) + 1)
    BY <1>1, <1>2
  <2> QED  BY <2>1
<1> HIDE DEF st
<1>7. st[Len(x) + 1] = b
  BY <1>1, <1>4, <1>5
<1>8. st[1] = a
  <2>1. CASE Len(x) = 0
    BY <1>3, <1>7, <2>1
  <2>2. CASE Len(x) # 0
    <3>1. 1 \in 1..Len(x)
      BY <1>1, <2>2
    <3> QED  BY <1>3, <1>5, <3>1
  <2> QED  BY <2>1, <2>2
<1>9. st[Len(x \o y) + 1] = c
  <2>1. Len(y) + 1 \in 1..(Len(y) + 1) /\ Len(x \o y) + 1 = Len(x) + (Len(y) + 1)
    BY <1>1, <1>2
  <2> QED  BY <1>4, <1>5, <2>1
<1>10. ASSUME NEW i \in 1..Len(x \o y)
       PROVE  After(st[i], (x \o y)[i], st[i + 1])
  <2>1. CASE i \in 1..Len(x)
    <3>1. st[i] = p[i] /\ (x \o y)[i] = x[i]
      BY <1>2, <1>5, <2>1
    <3>2. st[i + 1] = p[i + 1]
      <4>1. CASE i + 1 \in 1..Len(x)
        BY <1>5, <4>1
      <4>2. CASE i + 1 \notin 1..Len(x)
        <5>1. i + 1 = Len(x) + 1
          BY <1>1, <2>1, <4>2
        <5> QED  BY <1>3, <1>7, <5>1
      <4> QED  BY <4>1, <4>2
    <3> QED  BY <1>3, <2>1, <3>1, <3>2
  <2>2. CASE i \notin 1..Len(x)
    <3>1. PICK j \in 1..Len(y) : i = Len(x) + j /\ i + 1 = Len(x) + (j + 1)
      <4>1. i - Len(x) \in 1..Len(y) /\ i = Len(x) + (i - Len(x))
            /\ i + 1 = Len(x) + ((i - Len(x)) + 1)
        BY <1>1, <1>2, <2>2
      <4> QED  BY <4>1
    <3>2. j \in 1..(Len(y) + 1) /\ j + 1 \in 1..(Len(y) + 1)
      BY <1>1
    <3>3. st[i] = q[j] /\ st[i + 1] = q[j + 1] /\ (x \o y)[i] = y[j]
      BY <1>2, <1>5, <3>1, <3>2
    <3> QED  BY <1>4, <3>3
  <2> QED  BY <2>1, <2>2
<1> QED  BY <1>2, <1>6, <1>8, <1>9, <1>10 DEF Runs

\* The first step of a script.
LEMMA RunsStep ==
    ASSUME NEW a, NEW c, NEW x, Runs(a, x, c), x # <<>>
    PROVE  /\ a \in Local /\ Head(x) \in Todos
           /\ \E b \in Local : After(a, Head(x), b) /\ Runs(b, Tail(x), c)
<1>1. /\ x \in Seq(Todos) /\ Len(x) \in Nat /\ Len(x) > 0
      /\ Head(x) = x[1] /\ Head(x) \in Todos
      /\ Tail(x) \in Seq(Todos) /\ Len(Tail(x)) = Len(x) - 1
      /\ \A i \in 1..Len(Tail(x)) : Tail(x)[i] = x[i + 1]
  BY HeadTailProperties DEF Runs
<1>2. PICK st \in [1..(Len(x) + 1) -> Local] :
         /\ st[1] = a /\ st[Len(x) + 1] = c
         /\ \A i \in 1..Len(x) : After(st[i], x[i], st[i + 1])
  BY DEF Runs
<1> DEFINE rest == [i \in 1..(Len(Tail(x)) + 1) |-> st[i + 1]]
<1>3. rest \in [1..(Len(Tail(x)) + 1) -> Local]
  <2>1. \A i \in 1..(Len(Tail(x)) + 1) : i + 1 \in 1..(Len(x) + 1)
    BY <1>1
  <2> QED  BY <2>1
<1>4. rest[1] = st[2] /\ rest[Len(Tail(x)) + 1] = c
  <2>1. 1 \in 1..(Len(Tail(x)) + 1) /\ Len(Tail(x)) + 1 \in 1..(Len(Tail(x)) + 1)
        /\ (Len(Tail(x)) + 1) + 1 = Len(x) + 1
    BY <1>1
  <2> QED  BY <1>2, <2>1
<1>5. \A i \in 1..Len(Tail(x)) : After(rest[i], Tail(x)[i], rest[i + 1])
  <2> SUFFICES ASSUME NEW i \in 1..Len(Tail(x))
               PROVE  After(rest[i], Tail(x)[i], rest[i + 1])
    OBVIOUS
  <2>1. i \in 1..(Len(Tail(x)) + 1) /\ i + 1 \in 1..(Len(Tail(x)) + 1) /\ i + 1 \in 1..Len(x)
    BY <1>1
  <2>2. rest[i] = st[i + 1] /\ rest[i + 1] = st[(i + 1) + 1] /\ Tail(x)[i] = x[i + 1]
    BY <1>1, <2>1
  <2> QED  BY <1>2, <2>1, <2>2
<1> HIDE DEF rest
<1>6. Runs(st[2], Tail(x), c)
  BY <1>1, <1>3, <1>4, <1>5 DEF Runs
<1>7. 1 \in 1..Len(x) /\ 1 \in 1..(Len(x) + 1) /\ 2 \in 1..(Len(x) + 1)
  BY <1>1
<1>8. After(a, Head(x), st[2]) /\ st[2] \in Local /\ a \in Local
  <2>1. After(st[1], x[1], st[1 + 1])
    BY <1>2, <1>7
  <2> QED  BY <1>1, <1>2, <1>7, <2>1
<1> QED  BY <1>1, <1>6, <1>8
-----------------------------------------------------------------------------
(***************************************************************************)
(* The scripts of the code: each leads back to where it started.           *)
(***************************************************************************)
LEMMA DoRuns ==
    ASSUME NEW a \in Local, NEW b \in Local, NEW op \in Ops, NEW n \in Node,
           After(a, Todo(op, n, "node"), b)
    PROVE  Runs(a, Do(op, n), b)
<1>1. Todo(op, n, "node") \in Todos
  BY DEF Todo, Todos
<1> QED  BY <1>1, RunsOne DEF Do

LEMMA Stacked ==
    ASSUME NEW v \in Seq(Saved), NEW x \in Saved
    PROVE  /\ <<x>> \o v \in Seq(Saved) /\ <<x>> \o v # <<>>
           /\ Head(<<x>> \o v) = x /\ Tail(<<x>> \o v) = v
<1>1. <<x>> \in Seq(Saved)
  OBVIOUS
<1>2. <<x>> \o v \in Seq(Saved) /\ Len(<<x>> \o v) = Len(v) + 1 /\ (<<x>> \o v)[1] = x
      /\ \A i \in 1..Len(v) : (<<x>> \o v)[i + 1] = v[i]
  BY <1>1
<1>3. <<x>> \o v # <<>>
  BY <1>2
<1>4. Head(<<x>> \o v) = x
  BY <1>2, <1>3
<1>5. Tail(<<x>> \o v) \in Seq(Saved) /\ Len(Tail(<<x>> \o v)) = Len(v)
      /\ \A i \in 1..Len(v) : Tail(<<x>> \o v)[i] = v[i]
  BY <1>2, <1>3, HeadTailProperties
<1> QED  BY <1>2, <1>3, <1>4, <1>5, SeqEqual

LEMMA Pushed ==
    ASSUME NEW s \in Local, NEW x \in Saved
    PROVE  /\ Push(s, x) \in Local /\ Push(s, x).saved # <<>>
           /\ Top(Push(s, x)) = x /\ Tail(Push(s, x).saved) = s.saved
           /\ Push(s, x).bind = s.bind /\ Push(s, x).own = s.own
           /\ Push(s, x).held = s.held /\ Push(s, x).alone = s.alone
<1>1. s.saved \in Seq(Saved)
  BY DEF Local
<1>2. Push(s, x).saved = <<x>> \o s.saved
  BY DEF Push, Local
<1> QED  BY <1>1, <1>2, Stacked DEF Push, Top, Local

\* Code run under a binding that is saved and restored.
LEMMA SwappedRuns ==
    ASSUME NEW s \in Local, NEW n \in Node, NEW body, NEW r \in Local,
           Runs([Push(s, s.bind) EXCEPT !.bind = n], body, r),
           r = [Push(s, s.bind) EXCEPT !.bind = r.bind]
    PROVE  Runs(s, Swapped(n, body), s)
<1> DEFINE p == Push(s, s.bind)
           q == [p EXCEPT !.bind = n]
<1>1. /\ s.bind \in Saved /\ s.bind \in Node \cup {None} /\ s.bind # Kept
      /\ p \in Local /\ p.saved # <<>> /\ Top(p) = s.bind /\ Tail(p.saved) = s.saved
      /\ p.bind = s.bind /\ p.own = s.own /\ p.held = s.held /\ p.alone = s.alone
  <2>1. s.bind \in Saved /\ s.bind \in Node \cup {None} /\ s.bind # Kept
    BY ConstantsAssumption DEF Saved, Local
  <2> QED  BY <2>1, Pushed
<1>2. q \in Local
  BY <1>1 DEF Local
<1>3. Runs(s, Do("swap", n), q)
  <2>1. After(s, Todo("swap", n, "node"), q)
    BY DEF After, Todo
  <2> QED  BY <1>2, <2>1, DoRuns DEF Ops
<1>4. r.saved = p.saved /\ r.own = s.own /\ r.held = s.held /\ r.alone = s.alone
  BY <1>1 DEF Local
<1>5. Runs(r, Do("restore", n), s)
  <2>1. Top(r) = s.bind /\ r.saved # <<>>
    BY <1>1, <1>4 DEF Top
  <2>2. s = [Pop(r) EXCEPT !.bind = IF Top(r) = Kept THEN r.bind ELSE Top(r)]
    BY <1>1, <1>4, <2>1 DEF Pop, Local
  <2>3. After(r, Todo("restore", n, "node"), s)
    BY <1>1, <2>1, <2>2 DEF After, Todo
  <2> HIDE DEF p, q
  <2> QED  BY <2>3, DoRuns DEF Ops
<1> HIDE DEF q, p
<1> QED  BY <1>3, <1>5, RunsThen DEF Swapped, q, p

LEMMA BoundRuns ==
    ASSUME NEW s \in Local, NEW n \in Node, NEW body, NEW r \in Local,
           Runs([s EXCEPT !.bind = n], body, r)
    PROVE  Runs(s, Bound(n, body), [r EXCEPT !.bind = None])
<1> DEFINE q == [s EXCEPT !.bind = n]
           e == [r EXCEPT !.bind = None]
<1>1. q \in Local /\ e \in Local
  BY DEF Local
<1>2. Runs(s, Do("bind", n), q)
  <2>1. After(s, Todo("bind", n, "node"), q)
    BY DEF After, Todo
  <2> QED  BY <1>1, <2>1, DoRuns DEF Ops
<1>3. Runs(r, Do("unbind", n), e)
  <2>1. After(r, Todo("unbind", n, "node"), e)
    BY DEF After, Todo
  <2> QED  BY <1>1, <2>1, DoRuns DEF Ops
<1> HIDE DEF q, e
<1> QED  BY <1>2, <1>3, RunsThen DEF Bound, q, e

\* The stages of withNodeFib: nodeMu is held, the thread is nodeHolder, and its
\* binding is that of the node.
Locked(s, n) ==
    [Push(s, IF n \in s.own THEN FALSE ELSE TRUE) EXCEPT !.held = s.held \cup {<<n, "node">>}]
Holding(s, n) == [Locked(s, n) EXCEPT !.own = s.own \cup {n}]
Within(s, n) ==
    [Push(Holding(s, n), IF s.bind = n THEN Kept ELSE s.bind) EXCEPT !.bind = n]

LEMMA Stages ==
    ASSUME NEW s \in Local, NEW n \in Node
    PROVE  LET l == Locked(s, n)
               o == Holding(s, n)
               w == Within(s, n)
               kept == IF s.bind = n THEN Kept ELSE s.bind
           IN  /\ l \in Local /\ o \in Local /\ w \in Local
               /\ l.saved # <<>> /\ Top(l) = IF n \in s.own THEN FALSE ELSE TRUE
               /\ Tail(l.saved) = s.saved /\ l.held = s.held \cup {<<n, "node">>}
               /\ l.bind = s.bind /\ l.own = s.own /\ l.alone = s.alone
               /\ o.saved = l.saved /\ o.held = l.held /\ o.own = s.own \cup {n}
               /\ o.bind = s.bind /\ o.alone = s.alone
               /\ w.saved # <<>> /\ Top(w) = kept /\ Tail(w.saved) = l.saved
               /\ w.held = l.held /\ w.own = o.own /\ w.bind = n /\ w.alone = s.alone
<1> DEFINE flag == IF n \in s.own THEN FALSE ELSE TRUE
           kept == IF s.bind = n THEN Kept ELSE s.bind
           l == Locked(s, n)
           o == Holding(s, n)
           w == Within(s, n)
<1>1. flag \in Saved /\ kept \in Saved /\ <<n, "node">> \in Mutex
  BY DEF Saved, Local, Mutex
<1> HIDE DEF kept
<1>2. /\ Push(s, flag) \in Local /\ Push(s, flag).saved # <<>>
      /\ Top(Push(s, flag)) = flag /\ Tail(Push(s, flag).saved) = s.saved
      /\ Push(s, flag).bind = s.bind /\ Push(s, flag).own = s.own
      /\ Push(s, flag).held = s.held /\ Push(s, flag).alone = s.alone
  BY <1>1, Pushed
<1>3. l = [Push(s, flag) EXCEPT !.held = s.held \cup {<<n, "node">>}]
  BY DEF Locked
<1> HIDE DEF flag, l
<1>4. /\ l \in Local /\ l.saved = Push(s, flag).saved /\ l.held = s.held \cup {<<n, "node">>}
      /\ l.bind = s.bind /\ l.own = s.own /\ l.alone = s.alone
  BY <1>1, <1>2, <1>3 DEF Local
<1>5. Top(l) = flag
  BY <1>2, <1>4 DEF Top
<1>6. o = [l EXCEPT !.own = s.own \cup {n}]
  BY DEF Holding, l
<1> HIDE DEF o
<1>7. /\ o \in Local /\ o.saved = l.saved /\ o.held = l.held /\ o.own = s.own \cup {n}
      /\ o.bind = s.bind /\ o.alone = s.alone
  BY <1>4, <1>6 DEF Local
<1>8. /\ Push(o, kept) \in Local /\ Push(o, kept).saved # <<>>
      /\ Top(Push(o, kept)) = kept /\ Tail(Push(o, kept).saved) = o.saved
      /\ Push(o, kept).bind = o.bind /\ Push(o, kept).own = o.own
      /\ Push(o, kept).held = o.held /\ Push(o, kept).alone = o.alone
  BY <1>1, <1>7, Pushed
<1>9. w = [Push(o, kept) EXCEPT !.bind = n]
  BY DEF Within, o, kept
<1> HIDE DEF w
<1>10. /\ w \in Local /\ w.saved = Push(o, kept).saved /\ w.held = o.held /\ w.own = o.own
       /\ w.bind = n /\ w.alone = o.alone
  BY <1>8, <1>9 DEF Local
<1>11. Top(w) = kept
  BY <1>8, <1>10 DEF Top
<1>12. flag = IF n \in s.own THEN FALSE ELSE TRUE
  BY DEF flag
<1> QED  BY <1>2, <1>4, <1>5, <1>7, <1>8, <1>10, <1>11, <1>12 DEF l, o, w, kept

LEMMA SameLocal ==
    ASSUME NEW a \in Local, NEW b \in Local, a.bind = b.bind, a.saved = b.saved,
           a.own = b.own, a.held = b.held, a.alone = b.alone
    PROVE  a = b
BY DEF Local

LEMMA WithNodeFibRuns ==
    ASSUME NEW s \in Local, NEW n \in Node, NEW body,
           Calm(s, n), Runs(Within(s, n), body, Within(s, n))
    PROVE  Runs(s, WithNodeFib(n, body), s)
<1> DEFINE l == Locked(s, n)
           o == Holding(s, n)
           w == Within(s, n)
           kept == IF s.bind = n THEN Kept ELSE s.bind
           m == <<n, "node">>
<1>1. /\ l \in Local /\ o \in Local /\ w \in Local
      /\ l.saved # <<>> /\ Top(l) = IF n \in s.own THEN FALSE ELSE TRUE
      /\ Tail(l.saved) = s.saved /\ l.held = s.held \cup {m}
      /\ l.bind = s.bind /\ l.own = s.own /\ l.alone = s.alone
      /\ o.saved = l.saved /\ o.held = l.held /\ o.own = s.own \cup {n}
      /\ o.bind = s.bind /\ o.alone = s.alone
      /\ w.saved # <<>> /\ Top(w) = kept /\ Tail(w.saved) = l.saved
      /\ w.held = l.held /\ w.own = o.own /\ w.bind = n /\ w.alone = s.alone
  BY Stages
<1>2. s.bind \in Node \cup {None} /\ s.bind # Kept /\ n # Kept
  BY ConstantsAssumption DEF Local
<1>3. n \in s.own <=> m \in s.held
  BY DEF Consistent, Calm
<1>4. After(s, Todo("lockNode", n, "node"), l)
  <2>1. CASE n \in s.own
    <3>1. l = Push(s, FALSE)
      <4>1. l = [Push(s, FALSE) EXCEPT !.held = s.held] /\ Push(s, FALSE).held = s.held
            /\ Push(s, FALSE) \in Local
        <5>1. s.held \cup {m} = s.held /\ FALSE \in Saved
          BY <1>3, <2>1 DEF Saved
        <5> QED  BY <2>1, <5>1, Pushed DEF Locked
      <4> QED  BY <4>1 DEF Local
    <3> QED  BY <1>3, <2>1, <3>1 DEF After, Todo
  <2>2. CASE n \notin s.own
    <3>1. l = [Push(s, TRUE) EXCEPT !.held = s.held \cup {m}]
      BY <2>2 DEF Locked
    <3>2. MayLock(s, m)
      BY <1>3, <2>2 DEF Calm, MayLock
    <3> QED  BY <2>2, <3>1, <3>2 DEF After, Todo
  <2> QED  BY <2>1, <2>2
<1>5. After(l, Todo("own", n, "node"), o)
  <2>1. CASE n \in s.own
    <3>1. o = l
      <4>1. s.own \cup {n} = s.own
        BY <2>1
      <4> HIDE DEF l, o
      <4> QED  BY <1>1, <4>1, SameLocal
    <3> QED  BY <1>1, <2>1, <3>1 DEF After, Todo
  <2>2. CASE n \notin s.own
    <3>1. o = [l EXCEPT !.own = l.own \cup {n}]
      BY <1>1 DEF Holding
    <3> QED  BY <1>1, <2>2, <3>1 DEF After, Todo
  <2> QED  BY <2>1, <2>2
<1>6. After(o, Todo("bindFib", n, "node"), w)
  <2>1. w = [Push(o, IF o.bind = n THEN Kept ELSE o.bind) EXCEPT !.bind = n]
    BY <1>1 DEF Within
  <2> QED  BY <2>1 DEF After, Todo
<1>7. After(w, Todo("restore", n, "node"), o)
  <2>1. Top(w) \in Node \cup {None, Kept} /\ Pop(w).saved = o.saved
    BY <1>1, <1>2 DEF Pop, Local
  <2>2. (IF Top(w) = Kept THEN w.bind ELSE Top(w)) = s.bind
    BY <1>1, <1>2
  <2>3. o = [Pop(w) EXCEPT !.bind = s.bind]
    BY <1>1, <2>1 DEF Pop, Local
  <2> QED  BY <1>1, <2>1, <2>2, <2>3 DEF After, Todo
<1>8. After(o, Todo("disown", n, "node"), l)
  <2>1. Top(o) = Top(l)
    BY <1>1 DEF Top
  <2>2. CASE n \in s.own
    <3>1. l = o
      <4>1. s.own \cup {n} = s.own
        BY <2>2
      <4> HIDE DEF l, o
      <4> QED  BY <1>1, <4>1, SameLocal
    <3> QED  BY <1>1, <2>1, <2>2, <3>1 DEF After, Todo
  <2>3. CASE n \notin s.own
    <3>1. l = [o EXCEPT !.own = o.own \ {n}] /\ n \in o.own
      <4> DEFINE x == [o EXCEPT !.own = o.own \ {n}]
      <4>1. (s.own \cup {n}) \ {n} = s.own
        BY <2>3
      <4> HIDE DEF l, o
      <4>2. /\ x \in Local /\ x.bind = o.bind /\ x.saved = o.saved /\ x.held = o.held
            /\ x.alone = o.alone /\ x.own = o.own \ {n}
        BY <1>1 DEF Local
      <4> HIDE DEF x
      <4>3. l \in Local /\ l.bind = x.bind /\ l.saved = x.saved /\ l.held = x.held
            /\ l.alone = x.alone /\ l.own = x.own
        BY <1>1, <4>1, <4>2
      <4>4. l = x
        BY <4>2, <4>3, SameLocal
      <4> QED  BY <1>1, <4>4 DEF x
    <3> QED  BY <1>1, <2>1, <2>3, <3>1 DEF After, Todo
  <2> QED  BY <2>2, <2>3
<1>9. After(l, Todo("unlockNode", n, "node"), s)
  <2>1. CASE n \in s.own
    <3>1. s = Pop(l)
      <4>1. s.held \cup {m} = s.held
        BY <1>3, <2>1
      <4> QED  BY <1>1, <4>1 DEF Pop, Local
    <3> QED  BY <1>1, <2>1, <3>1 DEF After, Todo
  <2>2. CASE n \notin s.own
    <3>1. s = [Pop(l) EXCEPT !.held = l.held \ {m}] /\ m \in l.held
      <4>1. (s.held \cup {m}) \ {m} = s.held
        BY <1>3, <2>2
      <4> QED  BY <1>1, <4>1 DEF Pop, Local
    <3> QED  BY <1>1, <2>2, <3>1 DEF After, Todo
  <2> QED  BY <2>1, <2>2
<1> HIDE DEF l, o, w
<1>10. /\ Runs(s, Do("lockNode", n), l) /\ Runs(l, Do("own", n), o)
       /\ Runs(o, Do("bindFib", n), w) /\ Runs(w, body, w)
       /\ Runs(w, Do("restore", n), o) /\ Runs(o, Do("disown", n), l)
       /\ Runs(l, Do("unlockNode", n), s)
  BY <1>1, <1>4, <1>5, <1>6, <1>7, <1>8, <1>9, DoRuns DEF Ops, w
<1>11. Runs(s, Do("lockNode", n) \o Do("own", n) \o Do("bindFib", n) \o body, w)
  BY <1>10, RunsThen
<1> QED  BY <1>10, <1>11, RunsThen DEF WithNodeFib

\* The state in which the code between SwapNode and RestoreNode runs.
SwappedIn(s, n) == [Push(s, s.bind) EXCEPT !.bind = n]

LEMMA InSwapped ==
    ASSUME NEW s \in Local, NEW n \in Node
    PROVE  /\ SwappedIn(s, n) \in Local /\ SwappedIn(s, n).bind = n
           /\ SwappedIn(s, n).own = s.own /\ SwappedIn(s, n).held = s.held
           /\ SwappedIn(s, n).alone = s.alone
           /\ Consistent(s) => Consistent(SwappedIn(s, n))
<1>1. s.bind \in Saved
  BY DEF Saved, Local
<1>2. /\ Push(s, s.bind) \in Local /\ Push(s, s.bind).own = s.own
      /\ Push(s, s.bind).held = s.held /\ Push(s, s.bind).alone = s.alone
  BY <1>1, Pushed
<1> QED  BY <1>2 DEF SwappedIn, Local, Consistent

LEMMA SwappedBack ==
    ASSUME NEW s \in Local, NEW n \in Node, NEW b \in Node \cup {None}, NEW body,
           Runs(SwappedIn(s, n), body, [SwappedIn(s, n) EXCEPT !.bind = b])
    PROVE  Runs(s, Swapped(n, body), s)
<1> DEFINE r == [SwappedIn(s, n) EXCEPT !.bind = b]
<1>1. r \in Local /\ r.bind = b
  BY InSwapped DEF Local
<1>2. r = [Push(s, s.bind) EXCEPT !.bind = b]
  <2>1. Push(s, s.bind) \in Local
    BY Pushed DEF Saved, Local
  <2> QED  BY <2>1 DEF SwappedIn, Local
<1>3. r = [Push(s, s.bind) EXCEPT !.bind = r.bind]
  BY <1>1, <1>2
<1>4. Runs([Push(s, s.bind) EXCEPT !.bind = n], body, r)
  BY DEF SwappedIn
<1> HIDE DEF r
<1> QED  BY <1>1, <1>3, <1>4, SwappedRuns

LEMMA BoundTo ==
    ASSUME NEW s \in Local, NEW b \in Node \cup {None}
    PROVE  /\ [s EXCEPT !.bind = b] \in Local /\ [s EXCEPT !.bind = b].bind = b
           /\ [s EXCEPT !.bind = b].saved = s.saved
           /\ [s EXCEPT !.bind = b].own = s.own /\ [s EXCEPT !.bind = b].held = s.held
           /\ [s EXCEPT !.bind = b].alone = s.alone
           /\ s.bind = b => [s EXCEPT !.bind = b] = s
           /\ \A c : [[s EXCEPT !.bind = b] EXCEPT !.bind = c] = [s EXCEPT !.bind = c]
           /\ Consistent(s) => Consistent([s EXCEPT !.bind = b])
BY DEF Local, Consistent

LEMMA BoundBack ==
    ASSUME NEW s \in Local, NEW n \in Node, NEW b \in Node \cup {None}, NEW body,
           Runs([s EXCEPT !.bind = n], body, [s EXCEPT !.bind = b])
    PROVE  Runs(s, Bound(n, body), [s EXCEPT !.bind = None])
<1> DEFINE r == [s EXCEPT !.bind = b]
<1>1. r \in Local /\ [r EXCEPT !.bind = None] = [s EXCEPT !.bind = None]
  BY BoundTo, ZenonT(40)
<1> HIDE DEF r
<1>2. Runs(s, Bound(n, body), [r EXCEPT !.bind = None])
  BY <1>1, BoundRuns DEF r
<1> QED  BY <1>1, <1>2

\* A plain mutex around a body.
LEMMA MutexRuns ==
    ASSUME NEW s \in Local, NEW n \in Node, NEW kind \in {"face", "dv"},
           MayLock(s, <<n, kind>>)
    PROVE  LET h == [s EXCEPT !.held = s.held \cup {<<n, kind>>}]
           IN  /\ h \in Local /\ h.bind = s.bind /\ h.own = s.own
               /\ h.held = s.held \cup {<<n, kind>>} /\ h.alone = s.alone
               /\ Consistent(s) => Consistent(h)
               /\ Runs(s, Lock(kind, n), h) /\ Runs(h, Unlock(kind, n), s)
<1> DEFINE k == <<n, kind>>
           h == [s EXCEPT !.held = s.held \cup {k}]
           e == Todo("lock", n, kind)
           f == Todo("unlock", n, kind)
<1>1. k \in Mutex /\ e \in Todos /\ f \in Todos
  BY DEF Mutex, Todo, Todos, Ops
<1>2. /\ h \in Local /\ h.bind = s.bind /\ h.own = s.own /\ h.saved = s.saved
      /\ h.held = s.held \cup {k} /\ h.alone = s.alone
  BY <1>1 DEF Local
<1>3. Consistent(s) => Consistent(h)
  BY <1>2 DEF Consistent
<1>4. After(s, e, h)
  BY DEF After, Todo
<1>5. After(h, f, s)
  <2> DEFINE x == [h EXCEPT !.held = h.held \ {k}]
  <2> HIDE DEF h
  <2>1. x \in Local /\ x.bind = h.bind /\ x.own = h.own /\ x.saved = h.saved
        /\ x.alone = h.alone /\ x.held = h.held \ {k}
    BY <1>2 DEF Local
  <2>2. (s.held \cup {k}) \ {k} = s.held
    BY DEF MayLock
  <2> HIDE DEF x
  <2>3. s = x
    BY <1>2, <2>1, <2>2, SameLocal
  <2> QED  BY <1>2, <2>3 DEF After, Todo, x
<1> HIDE DEF h, e, f
<1>6. Runs(s, <<e>>, h) /\ Runs(h, <<f>>, s)
  BY <1>1, <1>2, <1>4, <1>5, RunsOne
<1> QED  BY <1>2, <1>3, <1>6 DEF Lock, Unlock, h, e, f

LEMMA RouterRuns ==
    ASSUME NEW s \in Local, NEW n \in Node, Routing(s, n)
    PROVE  Runs(s, Do("router", n), s)
<1>1. After(s, Todo("router", n, "node"), s)
  BY DEF After, Todo, Routing
<1> QED  BY <1>1, DoRuns DEF Ops

LEMMA GetFaceRuns ==
    ASSUME NEW s \in Local, NEW n \in Node, Calm(s, n), <<n, "face">> \notin s.held
    PROVE  Runs(s, GetFace(n), s)
<1>1. MayLock(s, <<n, "face">>)
  BY DEF MayLock, Calm
<1> QED  BY <1>1, MutexRuns, RunsThen DEF GetFace

\* withNodeFib keeps its thread fit to run code of the node.
LEMMA WithinNode ==
    ASSUME NEW s \in Local, NEW n \in Node, Consistent(s)
    PROVE  LET w == Within(s, n)
           IN  /\ w \in Local /\ w.bind = n /\ w.own = s.own \cup {n}
               /\ w.held = s.held \cup {<<n, "node">>} /\ w.alone = s.alone
               /\ Consistent(w)
<1> DEFINE w == Within(s, n)
<1>1. /\ w \in Local /\ w.bind = n /\ w.own = s.own \cup {n}
      /\ w.held = s.held \cup {<<n, "node">>} /\ w.alone = s.alone
  <2> DEFINE l == Locked(s, n)
             o == Holding(s, n)
             kept == IF s.bind = n THEN Kept ELSE s.bind
  <2>1. /\ l \in Local /\ o \in Local /\ w \in Local
        /\ l.saved # <<>> /\ Top(l) = IF n \in s.own THEN FALSE ELSE TRUE
        /\ Tail(l.saved) = s.saved /\ l.held = s.held \cup {<<n, "node">>}
        /\ l.bind = s.bind /\ l.own = s.own /\ l.alone = s.alone
        /\ o.saved = l.saved /\ o.held = l.held /\ o.own = s.own \cup {n}
        /\ o.bind = s.bind /\ o.alone = s.alone
        /\ w.saved # <<>> /\ Top(w) = kept /\ Tail(w.saved) = l.saved
        /\ w.held = l.held /\ w.own = o.own /\ w.bind = n /\ w.alone = s.alone
    BY Stages
  <2> HIDE DEF l, o, w
  <2> QED  BY <2>1
<1> HIDE DEF w
<1>2. Consistent(w)
  BY <1>1 DEF Consistent
<1> QED  BY <1>1, <1>2 DEF w

LEMMA WithinRuns ==
    ASSUME NEW s \in Local, NEW n \in Node, Calm(s, n), NEW op \in {"pipeline", "rib"}
    PROVE  Runs(s, WithNodeFib(n, Do(op, n)), s)
<1> DEFINE w == Within(s, n)
<1>1. w \in Local /\ w.bind = n /\ n \in w.own /\ <<n, "node">> \in w.held
  BY WithinNode DEF Calm
<1> HIDE DEF w
<1>2. After(w, Todo(op, n, "node"), w)
  BY <1>1 DEF After, Todo
<1>3. Runs(w, Do(op, n), w)
  BY <1>1, <1>2, DoRuns DEF Ops
<1> QED  BY <1>3, WithNodeFibRuns DEF w

LEMMA ForwardRuns ==
    ASSUME NEW s \in Local, NEW n \in Node, Calm(s, n)
    PROVE  Runs(s, Forward(n), s)
BY WithinRuns DEF Forward

\* The writers of the RIB, the FIB and the PET.
LEMMA WriteRuns ==
    ASSUME NEW s \in Local, NEW n \in Node, Calm(s, n)
    PROVE  Runs(s, WriteRib(n), s) /\ Runs(s, WriteTables(n), s)
<1>1. After(s, Todo("tables", n, "node"), s)
  BY DEF After, Todo
<1>2. Runs(s, Do("tables", n), s)
  BY <1>1, DoRuns DEF Ops
<1> QED  BY <1>2, WithinRuns DEF WriteRib, WriteTables

LEMMA CommandRuns ==
    ASSUME NEW s \in Local, NEW n \in Node, Calm(s, n), <<n, "face">> \notin s.held,
           NEW x \in Commands(n)
    PROVE  Runs(s, x, s)
BY GetFaceRuns, WriteRuns, RunsThen DEF Commands

LEMMA ReceivePacketRuns ==
    ASSUME NEW s \in Local, NEW n \in Node, Calm(s, n), <<n, "face">> \notin s.held
    PROVE  Runs(s, ReceivePacket(n), s)
<1> DEFINE q == SwappedIn(s, n)
<1>1. q \in Local /\ q.bind = n /\ Calm(q, n) /\ <<n, "face">> \notin q.held
  BY InSwapped DEF Calm
<1>2. [q EXCEPT !.bind = n] = q
  BY <1>1, BoundTo
<1> HIDE DEF q
<1>3. Runs(q, GetFace(n) \o Forward(n), q)
  BY <1>1, GetFaceRuns, ForwardRuns, RunsThen
<1> QED  BY <1>2, <1>3, SwappedBack DEF ReceivePacket, q

LEMMA SimExecRuns ==
    ASSUME NEW s \in Local, NEW n \in Node, s.bind = n, Calm(s, n),
           <<n, "face">> \notin s.held
    PROVE  Runs(s, Do("simExec", n), s)
<1>1. After(s, Todo("simExec", n, "node"), s)
  BY DEF After, Todo
<1> QED  BY <1>1, DoRuns DEF Ops

LEMMA NestedRuns ==
    ASSUME NEW s \in Local, NEW n \in Node, Routing(s, n), NEW x \in NestedScripts(n)
    PROVE  Runs(s, x, s)
<1>1. Calm(s, n) /\ <<n, "face">> \notin s.held /\ MayLock(s, <<n, "dv">>)
  BY DEF Calm, Routing, MayLock
<1>2. CASE x = ReceivePacket(n)
  BY <1>1, <1>2, ReceivePacketRuns
<1>3. CASE x = Do("simExec", n)
  BY <1>1, <1>3, SimExecRuns DEF Routing
<1>4. CASE x = ExecLocked(n)
  <2> DEFINE h == [s EXCEPT !.held = s.held \cup {<<n, "dv">>}]
  <2>1. /\ h \in Local /\ h.bind = s.bind /\ h.alone = s.alone
        /\ h.held = s.held \cup {<<n, "dv">>}
        /\ Consistent(s) => Consistent(h)
        /\ Runs(s, Lock("dv", n), h) /\ Runs(h, Unlock("dv", n), s)
    <3>1. "dv" \in {"face", "dv"}
      OBVIOUS
    <3> QED  BY <1>1, <3>1, MutexRuns
  <2> HIDE DEF h
  <2>3. h.bind = n /\ Calm(h, n) /\ <<n, "face">> \notin h.held
    BY <1>1, <2>1 DEF Routing, Calm
  <2>2. Runs(h, Do("simExec", n), h)
    BY <2>1, <2>3, SimExecRuns
  <2> QED  BY <1>4, <2>1, <2>2, RunsThen DEF ExecLocked
<1> QED  BY <1>2, <1>3, <1>4 DEF NestedScripts

LEMMA SwappedSame ==
    ASSUME NEW s \in Local, NEW n \in Node, NEW body,
           Runs(SwappedIn(s, n), body, SwappedIn(s, n))
    PROVE  Runs(s, Swapped(n, body), s)
<1>1. [SwappedIn(s, n) EXCEPT !.bind = n] = SwappedIn(s, n)
  <2> DEFINE q == SwappedIn(s, n)
  <2>1. q \in Local /\ q.bind = n
    BY InSwapped
  <2> HIDE DEF q
  <2>2. [q EXCEPT !.bind = n] = q
    BY <2>1, BoundTo
  <2> QED  BY <2>2 DEF q
<1> QED  BY <1>1, SwappedBack

\* A thread that may be made to run code of the router by binding it.
Ready(s) == Consistent(s) /\ ~s.alone /\ \A l \in s.held : l[2] = "node"

LEMMA ReadyIn ==
    ASSUME NEW s \in Local, NEW n \in Node, Ready(s)
    PROVE  /\ Calm(s, n)
           /\ Ready(SwappedIn(s, n)) /\ Routing(SwappedIn(s, n), n)
           /\ Ready([s EXCEPT !.bind = n]) /\ Routing([s EXCEPT !.bind = n], n)
           /\ Ready(Within(s, n)) /\ Routing(Within(s, n), n)
<1> DEFINE q == SwappedIn(s, n)
           b == [s EXCEPT !.bind = n]
           w == Within(s, n)
<1>1. Consistent(s) /\ ~s.alone /\ Calm(s, n) /\ \A l \in s.held : l[2] = "node"
  BY DEF Ready, Calm
<1>2. q.bind = n /\ q.held = s.held /\ q.alone = s.alone /\ Consistent(q)
  BY <1>1, InSwapped
<1>3. b.bind = n /\ b.held = s.held /\ b.alone = s.alone /\ Consistent(b)
  BY <1>1, BoundTo
<1>4. w.bind = n /\ w.held = s.held \cup {<<n, "node">>} /\ w.alone = s.alone
      /\ Consistent(w)
  BY <1>1, WithinNode
<1> HIDE DEF q, b, w
<1>5. Ready(q) /\ Routing(q, n) /\ Ready(b) /\ Routing(b, n)
  BY <1>1, <1>2, <1>3 DEF Ready, Routing
<1>6. Ready(w) /\ Routing(w, n)
  BY <1>1, <1>4 DEF Ready, Routing
<1> QED  BY <1>1, <1>5, <1>6 DEF q, b, w

LEMMA RouterFibRuns ==
    ASSUME NEW s \in Local, NEW n \in Node, Ready(s)
    PROVE  Runs(s, WithNodeFib(n, Do("router", n)), s)
<1>1. Within(s, n) \in Local /\ Routing(Within(s, n), n) /\ Calm(s, n)
  BY ReadyIn, WithinNode DEF Ready
<1>2. Runs(Within(s, n), Do("router", n), Within(s, n))
  BY <1>1, RouterRuns
<1> QED  BY <1>1, <1>2, WithNodeFibRuns

LEMMA RouterBoundRuns ==
    ASSUME NEW s \in Local, NEW n \in Node, Ready(s)
    PROVE  /\ Runs(s, Bound(n, Do("router", n)), [s EXCEPT !.bind = None])
           /\ Runs(s, Bound(n, WithNodeFib(n, Do("router", n))), [s EXCEPT !.bind = None])
<1> DEFINE b == [s EXCEPT !.bind = n]
<1>1. b \in Local /\ Routing(b, n) /\ Ready(b)
  BY ReadyIn, BoundTo
<1> HIDE DEF b
<1>2. Runs(b, Do("router", n), b) /\ Runs(b, WithNodeFib(n, Do("router", n)), b)
  BY <1>1, RouterRuns, RouterFibRuns
<1> QED  BY <1>2, BoundBack DEF b

LEMMA RouterSwappedRuns ==
    ASSUME NEW s \in Local, NEW n \in Node, Ready(s)
    PROVE  Runs(s, Swapped(n, Do("router", n)), s)
<1>1. SwappedIn(s, n) \in Local /\ Routing(SwappedIn(s, n), n)
  BY ReadyIn, InSwapped
<1> QED  BY <1>1, RouterRuns, SwappedSame

\* The callbacks of events, in the binding that FireEvent swaps in.
LEMMA EventRuns ==
    ASSUME NEW s \in Local, NEW n \in Node, Ready(s)
    PROVE  /\ Runs(s, GoEvent(n), s) /\ Runs(s, AfterFuncEvent(n), s)
           /\ Runs(s, HeartbeatEvent(n), s)
<1> DEFINE q == SwappedIn(s, n)
           b == [q EXCEPT !.bind = n]
           e == [q EXCEPT !.bind = None]
<1>1. q \in Local /\ Ready(q)
  BY ReadyIn, InSwapped
<1>2. b \in Local /\ Ready(b)
  BY <1>1, BoundTo, ReadyIn
<1>3. [b EXCEPT !.bind = None] = e
  <2> HIDE DEF q
  <2> QED  BY <1>1, BoundTo, ZenonT(40)
<1>4. Runs(q, Bound(n, Do("router", n)), e)
      /\ Runs(q, Bound(n, WithNodeFib(n, Do("router", n))), e)
  <2> HIDE DEF q
  <2> QED  BY <1>1, RouterBoundRuns
<1>5. Runs(b, Bound(n, Do("router", n)), e)
  <2> HIDE DEF b
  <2> QED  BY <1>2, <1>3, RouterBoundRuns
<1>6. Runs(q, Bound(n, Bound(n, Do("router", n))), e)
  <2> HIDE DEF q
  <2> QED  BY <1>1, <1>5, BoundBack
<1> QED  BY <1>4, <1>6, SwappedBack DEF GoEvent, AfterFuncEvent, HeartbeatEvent

LEMMA SeedRuns ==
    ASSUME NEW s \in Local, NEW n \in Node, Ready(s)
    PROVE  Runs(s, SeedCall(n), [s EXCEPT !.bind = None])
<1> DEFINE b == [s EXCEPT !.bind = n]
           w == Within(b, n)
<1>1. b \in Local /\ Ready(b) /\ Calm(b, n)
  BY ReadyIn, BoundTo DEF Ready, Calm
<1> HIDE DEF b
<1>2. w \in Local /\ Routing(w, n) /\ Ready(w)
  BY <1>1, ReadyIn, WithinNode DEF Calm
<1> HIDE DEF w
<1>3. MayLock(w, <<n, "dv">>) /\ "dv" \in {"face", "dv"}
  BY <1>2 DEF MayLock, Ready
<1>4. Runs(w, Lock("dv", n) \o Unlock("dv", n), w)
  BY <1>2, <1>3, MutexRuns, RunsThen
<1>5. Runs(w, Do("router", n), w)
  BY <1>2, RouterRuns
<1>6. Runs(w, Do("seeded", n), w)
  <2>1. After(w, Todo("seeded", n, "node"), w)
    BY DEF After, Todo
  <2> QED  BY <1>2, <2>1, DoRuns DEF Ops
<1> DEFINE body == Lock("dv", n) \o Unlock("dv", n) \o Do("router", n) \o Do("seeded", n)
<1>7. Runs(w, body, w)
  BY <1>4, <1>5, <1>6, RunsThen
<1> HIDE DEF body
<1>8. Runs(b, WithNodeFib(n, body), b)
  BY <1>1, <1>7, WithNodeFibRuns DEF w
<1>9. Runs(s, Bound(n, WithNodeFib(n, body)), [s EXCEPT !.bind = None])
  BY <1>8, BoundBack DEF b
<1> QED  BY <1>9 DEF SeedCall, body

LEMMA StartPfxRuns ==
    ASSUME NEW s \in Local, s.held = {}
    PROVE  Runs(s, StartPfxEverywhere, s)
<1> DEFINE each == SetToSeq(Node)
           size == Cardinality(Node)
<1>1. size \in Nat /\ each \in [1..size -> Node]
  <2>1. size \in Nat /\ ExistsBijection(1..size, Node)
    BY FS_CardinalityType, ConstantsAssumption
  <2>2. PICK f \in [1..size -> Node] : \A i, j \in DOMAIN f : f[i] = f[j] => i = j
    BY <2>1 DEF ExistsBijection, Bijection, Injection, IsInjective
  <2>3. IsInjective(f)
    BY <2>2 DEF IsInjective
  <2> QED  BY <2>1, <2>3 DEF SetToSeq
<1> HIDE DEF each
<1> DEFINE x == [i \in DOMAIN each |-> Todo("startPfx", each[i], "node")]
           st == [i \in 1..(size + 1) |-> s]
<1>2. x \in Seq(Todos) /\ Len(x) = size
      /\ \A i \in 1..size : x[i] = Todo("startPfx", each[i], "node")
  <2>1. x = [i \in 1..size |-> Todo("startPfx", each[i], "node")]
    BY <1>1
  <2>2. \A i \in 1..size : Todo("startPfx", each[i], "node") \in Todos
    BY <1>1 DEF Todo, Todos, Ops
  <2> HIDE DEF x
  <2> QED  BY <1>1, <2>1, <2>2
<1>3. st \in [1..(Len(x) + 1) -> Local] /\ st[1] = s /\ st[Len(x) + 1] = s
      /\ \A i \in 1..Len(x) : st[i] = s /\ st[i + 1] = s
  BY <1>1, <1>2
<1>4. \A i \in 1..Len(x) : After(s, x[i], s)
  BY <1>1, <1>2 DEF After, Todo, MayLock
<1>5. x = StartPfxEverywhere
  BY DEF StartPfxEverywhere, each
<1> HIDE DEF st, x
<1>6. Runs(s, x, s)
  BY <1>2, <1>3, <1>4 DEF Runs
<1> QED  BY <1>5, <1>6

\* A thread that has nothing.
Idle(s) == s.bind = None /\ s.saved = <<>> /\ s.own = {} /\ s.held = {}

\* Every call leads back to the idle thread it begins in.
LEMMA ScriptRuns ==
    ASSUME NEW s \in Local, Idle(s), NEW call \in Call, NEW n \in Node,
           s.alone => call \in {"express", "goroutine"}
    PROVE  Runs(s, Script(call, n), s)
<1>1. Calm(s, n) /\ <<n, "face">> \notin s.held /\ [s EXCEPT !.bind = None] = s
  BY BoundTo DEF Idle, Calm, Consistent
<1>2. CASE call = "express"
  BY <1>1, <1>2, ReceivePacketRuns DEF Script
<1>4. CASE call = "goroutine"
  <2> DEFINE b == [s EXCEPT !.bind = n]
  <2>1. b \in Local /\ Routing(b, n)
    BY BoundTo, <1>1 DEF Routing, Calm, Idle
  <2> HIDE DEF b
  <2>2. Runs(b, Do("router", n), b)
    BY <2>1, RouterRuns
  <2>3. Runs(s, GoroutineCall(n), [s EXCEPT !.bind = None])
    BY <2>2, BoundBack DEF GoroutineCall, b
  <2> QED  BY <1>1, <1>4, <2>3 DEF Script
<1>3. CASE call \notin {"express", "goroutine"}
  <2>1. Ready(s)
    BY <1>1, <1>3 DEF Ready, Calm, Idle
  <2>2. CASE call = "receive"
    <3>1. SwappedIn(s, n) \in Local /\ Calm(SwappedIn(s, n), n)
          /\ <<n, "face">> \notin SwappedIn(s, n).held
      BY <1>1, InSwapped DEF Calm
    <3>2. Runs(s, Swapped(n, ReceivePacket(n)), s)
      BY <3>1, ReceivePacketRuns, SwappedSame
    <3> QED  BY <2>2, <3>2 DEF Script, ReceiveCall
  <2>3. CASE call = "addRoute"
    BY <1>1, <2>3, WriteRuns, RunsThen DEF Script, AddRouteCall
  <2>4. CASE call = "removeFace"
    <3> DEFINE h == [s EXCEPT !.held = s.held \cup {<<n, "face">>}]
    <3>1. "face" \in {"face", "dv"} /\ MayLock(s, <<n, "face">>)
      BY <1>1, <2>1 DEF MayLock, Ready, Idle
    <3>2. /\ h \in Local /\ h.alone = s.alone
          /\ Consistent(s) => Consistent(h)
          /\ Runs(s, Lock("face", n), h) /\ Runs(h, Unlock("face", n), s)
      BY <3>1, MutexRuns
    <3> HIDE DEF h
    <3>3. Runs(h, WriteRib(n), h) /\ Runs(h, WriteTables(n), h)
      <4>1. Calm(h, n)
        BY <2>1, <3>2 DEF Calm, Ready
      <4> QED  BY <3>2, <4>1, WriteRuns
    <3>4. Runs(s, RemoveFaceCall(n), s)
      BY <3>2, <3>3, RunsThen DEF RemoveFaceCall
    <3> QED  BY <2>4, <3>4 DEF Script
  <2>5. CASE call = "startDv"
    <3>1. /\ Runs(s, Bound(n, Do("router", n)), s)
          /\ Runs(s, Bound(n, WithNodeFib(n, Do("router", n))), s)
          /\ Runs(s, WriteRib(n), s) /\ Runs(s, WriteTables(n), s)
      BY <1>1, <2>1, RouterBoundRuns, WriteRuns
    <3>2. Runs(s, StartDvCall(n), s)
      BY <3>1, RunsThen DEF StartDvCall
    <3> QED  BY <2>5, <3>2 DEF Script
  <2>6. CASE call = "seed"
    BY <1>1, <2>1, <2>6, SeedRuns DEF Script
  <2>7. CASE call = "announce"
    <3> DEFINE q == SwappedIn(s, n)
    <3>1. q \in Local /\ Ready(q)
      BY <2>1, ReadyIn, InSwapped
    <3> HIDE DEF q
    <3>2. Runs(q, Swapped(n, Do("router", n)), q)
      BY <3>1, RouterSwappedRuns
    <3>3. Runs(s, Swapped(n, Swapped(n, Do("router", n))), s)
      BY <3>2, SwappedSame DEF q
    <3>4. Runs(s, StartPfxEverywhere, s)
      BY StartPfxRuns DEF Idle
    <3>5. Runs(s, AnnounceCall(n), s)
      BY <3>3, <3>4, RunsThen DEF AnnounceCall
    <3> QED  BY <2>7, <3>5 DEF Script
  <2>8. CASE call = "withdraw" \/ call = "timeout"
    BY <2>1, <2>8, RouterSwappedRuns DEF Script, WithdrawCall, TimeoutEvent
  <2>9. CASE call = "maintenance"
    <3>1. SwappedIn(s, n) \in Local /\ Calm(SwappedIn(s, n), n)
      BY <1>1, InSwapped DEF Calm
    <3>2. Runs(s, Swapped(n, Forward(n)), s)
      BY <3>1, ForwardRuns, SwappedSame
    <3> QED  BY <2>9, <3>2 DEF Script, MaintenanceEvent
  <2>10. CASE call \in {"callback", "timer", "heartbeat"}
    BY <2>1, <2>10, EventRuns DEF Script
  <2> QED
    BY <1>3, <2>2, <2>3, <2>4, <2>5, <2>6, <2>7, <2>8, <2>9, <2>10 DEF Call
<1> QED  BY <1>2, <1>3, <1>4
-----------------------------------------------------------------------------
(***************************************************************************)
(* The invariant.                                                          *)
(***************************************************************************)
\* What a thread has of the shared state.
LocalOf(t) ==
    [bind |-> binding[t], saved |-> saved[t],
     own |-> {n \in Node : holder[n] = t}, held |-> {m \in Mutex : mutex[m] = t},
     alone |-> Alone(t)]
Clean(t) ==
    [bind |-> None, saved |-> <<>>, own |-> {}, held |-> {}, alone |-> Alone(t)]

Typed ==
    /\ binding \in [Thread -> Node \cup {None}]
    /\ mutex \in [Mutex -> Thread \cup {None}]
    /\ holder \in [Node -> Thread \cup {None}]
    /\ todo \in [Thread -> Seq(Todos)]
    /\ saved \in [Thread -> Seq(Saved)]
    /\ nested \in [Thread -> 0..MaxNested]
    /\ stable \subseteq Node

\* The nodeHolder of a node is the thread that holds its nodeMu.
HolderLocks ==
    \A n \in Node : holder[n] # None => mutex[<<n, "node">>] = holder[n]

\* What is left of the call of a thread leads it to having nothing.
OnCourse == \A t \in Thread : Runs(LocalOf(t), todo[t], Clean(t))

IInv == Typed /\ HolderLocks /\ OnCourse /\ CommandsExecuted

LEMMA LocalFields ==
    ASSUME Typed, NEW t \in Thread
    PROVE  /\ LocalOf(t) \in Local
           /\ LocalOf(t).bind = binding[t] /\ LocalOf(t).saved = saved[t]
           /\ LocalOf(t).own = {n \in Node : holder[n] = t}
           /\ LocalOf(t).held = {m \in Mutex : mutex[m] = t}
           /\ LocalOf(t).alone = Alone(t)
BY DEF Typed, LocalOf, Local, Alone

LEMMA CleanIdle ==
    ASSUME NEW t
    PROVE  Clean(t) \in Local /\ Idle(Clean(t)) /\ Clean(t).alone = Alone(t)
<1>1. <<>> \in Seq(Saved)
  OBVIOUS
<1> QED  BY <1>1 DEF Clean, Local, Idle, Alone

LEMMA AfterAlone ==
    ASSUME NEW s \in Local, NEW e \in Todos, NEW r \in Local, After(s, e, r)
    PROVE  r.alone = s.alone
<1>1. \A x : Push(s, x).alone = s.alone /\ Pop(s).alone = s.alone
  BY DEF Push, Pop, Local
<1> QED  BY <1>1 DEF After, Push, Pop, Local

\* A step of t that leaves t in state b and the other threads as they were.
LEMMA Arrives ==
    ASSUME IInv, NEW t \in Thread, NEW b \in Local, Typed', HolderLocks',
           stranded' = stranded, Runs(b, todo'[t], Clean(t)),
           binding'[t] = b.bind, saved'[t] = b.saved, b.alone = Alone(t),
           \A n \in Node : holder'[n] = t <=> n \in b.own,
           \A m \in Mutex : mutex'[m] = t <=> m \in b.held,
           \A u \in Thread \ {t} :
              /\ todo'[u] = todo[u] /\ binding'[u] = binding[u] /\ saved'[u] = saved[u]
              /\ \A n \in Node : holder'[n] = u <=> holder[n] = u
              /\ \A m \in Mutex : mutex'[m] = u <=> mutex[m] = u
    PROVE  IInv'
<1>1. ASSUME NEW u \in Thread PROVE Runs(LocalOf(u)', todo'[u], Clean(u))
  <2>1. /\ LocalOf(u)' \in Local
        /\ LocalOf(u)'.bind = binding'[u] /\ LocalOf(u)'.saved = saved'[u]
        /\ LocalOf(u)'.own = {n \in Node : holder'[n] = u}
        /\ LocalOf(u)'.held = {m \in Mutex : mutex'[m] = u}
        /\ LocalOf(u)'.alone = Alone(u)
    BY DEF Typed, LocalOf, Local, Alone
  <2>2. CASE u = t
    <3>1. LocalOf(u)'.own = b.own /\ LocalOf(u)'.held = b.held
      BY <2>1, <2>2 DEF Local
    <3>2. LocalOf(u)' = b
      BY <2>1, <2>2, <3>1, SameLocal
    <3> QED  BY <2>2, <3>2
  <2>3. CASE u # t
    <3>1. /\ LocalOf(u) \in Local
          /\ LocalOf(u).bind = binding[u] /\ LocalOf(u).saved = saved[u]
          /\ LocalOf(u).own = {n \in Node : holder[n] = u}
          /\ LocalOf(u).held = {m \in Mutex : mutex[m] = u}
          /\ LocalOf(u).alone = Alone(u)
      BY LocalFields DEF IInv
    <3>2. /\ todo'[u] = todo[u] /\ binding'[u] = binding[u] /\ saved'[u] = saved[u]
          /\ \A n \in Node : holder'[n] = u <=> holder[n] = u
          /\ \A m \in Mutex : mutex'[m] = u <=> mutex[m] = u
      BY <2>3
    <3>3. LocalOf(u)'.own = LocalOf(u).own /\ LocalOf(u)'.held = LocalOf(u).held
      BY <2>1, <3>1, <3>2
    <3>4. LocalOf(u)' = LocalOf(u)
      <4>1. LocalOf(u)'.bind = LocalOf(u).bind /\ LocalOf(u)'.saved = LocalOf(u).saved
        BY <2>1, <3>1, <3>2
      <4>2. LocalOf(u)'.alone = LocalOf(u).alone
        BY <2>1, <3>1
      <4> QED  BY <2>1, <3>1, <3>3, <4>1, <4>2, SameLocal
    <3> QED  BY <3>2, <3>4 DEF IInv, OnCourse
  <2> QED  BY <2>2, <2>3
<1>2. OnCourse'
  BY <1>1 DEF OnCourse, Clean
<1>3. CommandsExecuted'
  BY DEF IInv, CommandsExecuted
<1> QED  BY <1>2, <1>3 DEF IInv

\* The next step of a thread, with what it asks for.
LEMMA StepTaken ==
    ASSUME IInv, NEW t \in Thread, todo[t] # <<>>
    PROVE  /\ Head(todo[t]) \in Todos /\ Tail(todo[t]) \in Seq(Todos)
           /\ \E b \in Local : /\ After(LocalOf(t), Head(todo[t]), b)
                               /\ Runs(b, Tail(todo[t]), Clean(t))
                               /\ b.alone = Alone(t)
<1>1. Runs(LocalOf(t), todo[t], Clean(t)) /\ LocalOf(t) \in Local
      /\ LocalOf(t).alone = Alone(t)
  BY LocalFields DEF IInv, OnCourse
<1>2. Head(todo[t]) \in Todos
      /\ \E b \in Local : After(LocalOf(t), Head(todo[t]), b) /\ Runs(b, Tail(todo[t]), Clean(t))
  BY <1>1, RunsStep
<1>3. PICK b \in Local : After(LocalOf(t), Head(todo[t]), b)
                         /\ Runs(b, Tail(todo[t]), Clean(t))
  BY <1>2
<1>4. b.alone = Alone(t)
  BY <1>1, <1>2, <1>3, AfterAlone
<1>5. Tail(todo[t]) \in Seq(Todos)
  BY <1>3 DEF Runs
<1> QED  BY <1>2, <1>3, <1>4, <1>5

LEMMA Popped ==
    ASSUME NEW s \in Local, s.saved # <<>>
    PROVE  /\ Top(s) \in Saved /\ Tail(s.saved) \in Seq(Saved)
           /\ Pop(s) \in Local /\ Pop(s).saved = Tail(s.saved)
           /\ Pop(s).bind = s.bind /\ Pop(s).own = s.own
           /\ Pop(s).held = s.held /\ Pop(s).alone = s.alone
<1>1. s.saved \in Seq(Saved)
  BY DEF Local
<1>2. Head(s.saved) \in Saved /\ Tail(s.saved) \in Seq(Saved)
  BY <1>1, HeadTailProperties
<1> QED  BY <1>2 DEF Top, Pop, Local

\* A step that does to t what After says, and nothing to the other threads.
LEMMA Taken ==
    ASSUME IInv, NEW t \in Thread, todo[t] # <<>>, Done(t),
           UNCHANGED <<nested, stranded>>, stable' \subseteq Node, HolderLocks',
           binding' = [binding EXCEPT ![t] = binding'[t]],
           saved' = [saved EXCEPT ![t] = saved'[t]],
           mutex' \in [Mutex -> Thread \cup {None}],
           holder' \in [Node -> Thread \cup {None}],
           \A u \in Thread \ {t} :
              /\ \A n \in Node : holder'[n] = u <=> holder[n] = u
              /\ \A m \in Mutex : mutex'[m] = u <=> mutex[m] = u,
           \A b \in Local : After(LocalOf(t), Head(todo[t]), b) =>
              /\ binding'[t] = b.bind /\ saved'[t] = b.saved
              /\ \A n \in Node : holder'[n] = t <=> n \in b.own
              /\ \A m \in Mutex : mutex'[m] = t <=> m \in b.held
    PROVE  IInv'
<1>1. todo \in [Thread -> Seq(Todos)] /\ binding \in [Thread -> Node \cup {None}]
      /\ saved \in [Thread -> Seq(Saved)] /\ nested \in [Thread -> 0..MaxNested]
  BY DEF IInv, Typed
<1>2. /\ Tail(todo[t]) \in Seq(Todos)
      /\ \E b \in Local : /\ After(LocalOf(t), Head(todo[t]), b)
                          /\ Runs(b, Tail(todo[t]), Clean(t)) /\ b.alone = Alone(t)
  BY StepTaken
<1>3. PICK b \in Local : /\ After(LocalOf(t), Head(todo[t]), b)
                         /\ Runs(b, Tail(todo[t]), Clean(t)) /\ b.alone = Alone(t)
  BY <1>2
<1>4. /\ binding'[t] = b.bind /\ saved'[t] = b.saved
      /\ \A n \in Node : holder'[n] = t <=> n \in b.own
      /\ \A m \in Mutex : mutex'[m] = t <=> m \in b.held
  BY <1>3
<1>5. b.bind \in Node \cup {None} /\ b.saved \in Seq(Saved)
  BY DEF Local
<1>6. /\ todo'[t] = Tail(todo[t])
      /\ \A u \in Thread \ {t} : todo'[u] = todo[u]
      /\ todo' \in [Thread -> Seq(Todos)]
  BY <1>1, <1>2 DEF Done
<1>7. /\ binding' \in [Thread -> Node \cup {None}]
      /\ \A u \in Thread \ {t} : binding'[u] = binding[u]
  <2> DEFINE x == b.bind
  <2>1. x \in Node \cup {None} /\ binding' = [binding EXCEPT ![t] = x]
    BY <1>4, <1>5
  <2> HIDE DEF x
  <2> QED  BY <1>1, <2>1
<1>8. /\ saved' \in [Thread -> Seq(Saved)]
      /\ \A u \in Thread \ {t} : saved'[u] = saved[u]
  BY <1>1, <1>4, <1>5, ZenonT(40)
<1>9. Typed'
  BY <1>1, <1>6, <1>7, <1>8 DEF Typed
<1>10. \A u \in Thread \ {t} :
         /\ todo'[u] = todo[u] /\ binding'[u] = binding[u] /\ saved'[u] = saved[u]
         /\ \A n \in Node : holder'[n] = u <=> holder[n] = u
         /\ \A m \in Mutex : mutex'[m] = u <=> mutex[m] = u
  BY <1>6, <1>7, <1>8
<1>11. stranded' = stranded /\ Runs(b, todo'[t], Clean(t))
  BY <1>3, <1>6
<1> QED  BY <1>3, <1>4, <1>9, <1>10, <1>11, Arrives

\* Most steps touch no lock.
LEMMA TakenUnlocked ==
    ASSUME IInv, NEW t \in Thread, todo[t] # <<>>, Done(t),
           UNCHANGED <<mutex, holder, nested, stranded>>, stable' \subseteq Node,
           binding' = [binding EXCEPT ![t] = binding'[t]],
           saved' = [saved EXCEPT ![t] = saved'[t]],
           \A b \in Local : After(LocalOf(t), Head(todo[t]), b) =>
              /\ binding'[t] = b.bind /\ saved'[t] = b.saved
              /\ b.own = LocalOf(t).own /\ b.held = LocalOf(t).held
    PROVE  IInv'
<1>1. /\ mutex \in [Mutex -> Thread \cup {None}] /\ holder \in [Node -> Thread \cup {None}]
      /\ LocalOf(t).own = {n \in Node : holder[n] = t}
      /\ LocalOf(t).held = {m \in Mutex : mutex[m] = t}
  BY LocalFields DEF IInv, Typed
<1>2. HolderLocks'
  BY DEF IInv, HolderLocks
<1>3. \A b \in Local : After(LocalOf(t), Head(todo[t]), b) =>
         /\ binding'[t] = b.bind /\ saved'[t] = b.saved
         /\ \A n \in Node : holder'[n] = t <=> n \in b.own
         /\ \A m \in Mutex : mutex'[m] = t <=> m \in b.held
  BY <1>1
<1> QED  BY <1>1, <1>2, <1>3, Taken

\* What an action finds of its thread.
LEMMA Found ==
    ASSUME IInv, NEW t \in Thread, todo[t] # <<>>
    PROVE  /\ Head(todo[t]) \in Todos /\ Head(todo[t]).node \in Node
           /\ binding \in [Thread -> Node \cup {None}] /\ saved \in [Thread -> Seq(Saved)]
           /\ mutex \in [Mutex -> Thread \cup {None}] /\ holder \in [Node -> Thread \cup {None}]
           /\ stable \subseteq Node
           /\ LocalOf(t) \in Local
           /\ LocalOf(t).bind = binding[t] /\ LocalOf(t).saved = saved[t]
           /\ LocalOf(t).own = {n \in Node : holder[n] = t}
           /\ LocalOf(t).held = {m \in Mutex : mutex[m] = t}
           /\ LocalOf(t).alone = Alone(t)
<1>1. Head(todo[t]) \in Todos
  BY StepTaken
<1> QED  BY <1>1, LocalFields DEF IInv, Typed, Todos
-----------------------------------------------------------------------------
(***************************************************************************)
(* Each action keeps it.                                                   *)
(***************************************************************************)
LEMMA SwapNodeKeeps ==
    ASSUME IInv, NEW t \in Thread, SwapNode(t)
    PROVE  IInv'
<1> DEFINE e == Head(todo[t])
           s == LocalOf(t)
<1>1. /\ todo[t] # <<>> /\ e.op = "swap" /\ Done(t)
      /\ saved' = [saved EXCEPT ![t] = <<binding[t]>> \o @]
      /\ binding' = [binding EXCEPT ![t] = e.node]
      /\ UNCHANGED <<mutex, holder, nested, stranded, stable>>
  BY DEF SwapNode, At, Save, TheNode, locks, synthetic
<1>2. /\ binding \in [Thread -> Node \cup {None}] /\ saved \in [Thread -> Seq(Saved)]
      /\ stable \subseteq Node
      /\ s \in Local /\ s.bind = binding[t] /\ s.saved = saved[t] /\ s.bind \in Saved
  BY <1>1, Found DEF Saved
<1> HIDE DEF e, s
<1>3. ASSUME NEW b \in Local, After(s, e, b)
      PROVE  /\ binding'[t] = b.bind /\ saved'[t] = b.saved
             /\ b.own = s.own /\ b.held = s.held
  <2>1. b = [Push(s, s.bind) EXCEPT !.bind = e.node]
    BY <1>1, <1>3 DEF After
  <2>2. /\ Push(s, s.bind) \in Local /\ Push(s, s.bind).own = s.own
        /\ Push(s, s.bind).held = s.held
        /\ Push(s, s.bind).saved = <<s.bind>> \o s.saved
    BY <1>2, Pushed DEF Push, Local
  <2>3. /\ b.bind = e.node /\ b.saved = <<s.bind>> \o s.saved
        /\ b.own = s.own /\ b.held = s.held
    BY <2>1, <2>2 DEF Local
  <2> QED  BY <1>1, <1>2, <2>3
<1>4. binding' = [binding EXCEPT ![t] = binding'[t]] /\ saved' = [saved EXCEPT ![t] = saved'[t]]
  BY <1>1, <1>2
<1> QED  BY <1>1, <1>2, <1>3, <1>4, TakenUnlocked DEF e, s

LEMMA RestoreNodeKeeps ==
    ASSUME IInv, NEW t \in Thread, RestoreNode(t)
    PROVE  IInv'
<1> DEFINE e == Head(todo[t])
           s == LocalOf(t)
<1>1. /\ todo[t] # <<>> /\ e.op = "restore" /\ Done(t)
      /\ saved' = [saved EXCEPT ![t] = Tail(@)]
      /\ binding' = [binding EXCEPT
                       ![t] = IF Head(saved[t]) = Kept THEN @ ELSE Head(saved[t])]
      /\ UNCHANGED <<mutex, holder, nested, stranded, stable>>
  BY DEF RestoreNode, At, Drop, locks, synthetic
<1>2. /\ binding \in [Thread -> Node \cup {None}] /\ saved \in [Thread -> Seq(Saved)]
      /\ stable \subseteq Node
      /\ s \in Local /\ s.bind = binding[t] /\ s.saved = saved[t]
  BY <1>1, Found
<1> HIDE DEF e, s
<1>3. ASSUME NEW b \in Local, After(s, e, b)
      PROVE  /\ binding'[t] = b.bind /\ saved'[t] = b.saved
             /\ b.own = s.own /\ b.held = s.held
  <2>1. /\ s.saved # <<>>
        /\ b = [Pop(s) EXCEPT !.bind = IF Top(s) = Kept THEN s.bind ELSE Top(s)]
    BY <1>1, <1>3 DEF After
  <2>2. /\ Pop(s) \in Local /\ Pop(s).own = s.own /\ Pop(s).held = s.held
        /\ Pop(s).saved = Tail(s.saved)
    BY <1>2, <2>1, Popped
  <2>3. /\ b.bind = IF Top(s) = Kept THEN s.bind ELSE Top(s)
        /\ b.saved = Tail(s.saved) /\ b.own = s.own /\ b.held = s.held
    BY <2>1, <2>2 DEF Local
  <2> QED  BY <1>1, <1>2, <2>3 DEF Top
<1>4. binding' = [binding EXCEPT ![t] = binding'[t]] /\ saved' = [saved EXCEPT ![t] = saved'[t]]
  BY <1>1, <1>2
<1> QED  BY <1>1, <1>2, <1>3, <1>4, TakenUnlocked DEF e, s

LEMMA BindNodeKeeps ==
    ASSUME IInv, NEW t \in Thread, BindNode(t) \/ UnbindNode(t)
    PROVE  IInv'
<1> DEFINE e == Head(todo[t])
           s == LocalOf(t)
           x == IF e.op = "bind" THEN e.node ELSE None
<1>1. /\ todo[t] # <<>> /\ e.op \in {"bind", "unbind"} /\ Done(t)
      /\ binding' = [binding EXCEPT ![t] = x]
      /\ UNCHANGED <<saved, mutex, holder, nested, stranded, stable>>
  BY DEF BindNode, UnbindNode, At, TheNode, locks, synthetic
<1>2. /\ binding \in [Thread -> Node \cup {None}] /\ saved \in [Thread -> Seq(Saved)]
      /\ stable \subseteq Node
      /\ s \in Local /\ s.bind = binding[t] /\ s.saved = saved[t]
  BY <1>1, Found
<1> HIDE DEF e, s
<1>3. ASSUME NEW b \in Local, After(s, e, b)
      PROVE  /\ binding'[t] = b.bind /\ saved'[t] = b.saved
             /\ b.own = s.own /\ b.held = s.held
  <2>1. b = [s EXCEPT !.bind = x]
    BY <1>1, <1>3 DEF After
  <2>2. b.bind = x /\ b.saved = s.saved /\ b.own = s.own /\ b.held = s.held
    BY <1>2, <2>1 DEF Local
  <2> QED  BY <1>1, <1>2, <2>2
<1>4. binding' = [binding EXCEPT ![t] = binding'[t]] /\ saved' = [saved EXCEPT ![t] = saved'[t]]
  BY <1>1, <1>2
<1> QED  BY <1>1, <1>2, <1>3, <1>4, TakenUnlocked DEF e, s

LEMMA BindFibKeeps ==
    ASSUME IInv, NEW t \in Thread, BindFib(t)
    PROVE  IInv'
<1> DEFINE e == Head(todo[t])
           s == LocalOf(t)
           x == IF binding[t] = e.node THEN Kept ELSE binding[t]
<1>1. /\ todo[t] # <<>> /\ e.op = "bindFib" /\ Done(t)
      /\ saved' = [saved EXCEPT ![t] = <<x>> \o @]
      /\ binding' = [binding EXCEPT ![t] = e.node]
      /\ UNCHANGED <<mutex, holder, nested, stranded, stable>>
  BY DEF BindFib, At, Save, TheNode, locks, synthetic
<1>2. /\ binding \in [Thread -> Node \cup {None}] /\ saved \in [Thread -> Seq(Saved)]
      /\ stable \subseteq Node
      /\ s \in Local /\ s.bind = binding[t] /\ s.saved = saved[t] /\ x \in Saved
  BY <1>1, Found DEF Saved
<1> HIDE DEF e, s
<1>3. ASSUME NEW b \in Local, After(s, e, b)
      PROVE  /\ binding'[t] = b.bind /\ saved'[t] = b.saved
             /\ b.own = s.own /\ b.held = s.held
  <2>1. b = [Push(s, x) EXCEPT !.bind = e.node]
    BY <1>1, <1>2, <1>3 DEF After
  <2> HIDE DEF x
  <2>2. /\ Push(s, x) \in Local /\ Push(s, x).own = s.own /\ Push(s, x).held = s.held
        /\ Push(s, x).saved = <<x>> \o s.saved
    BY <1>2, Pushed DEF Push, Local
  <2>3. /\ b.bind = e.node /\ b.saved = <<x>> \o s.saved
        /\ b.own = s.own /\ b.held = s.held
    BY <2>1, <2>2 DEF Local
  <2> QED  BY <1>1, <1>2, <2>3
<1> HIDE DEF x
<1>4. binding' = [binding EXCEPT ![t] = binding'[t]] /\ saved' = [saved EXCEPT ![t] = saved'[t]]
  BY <1>1, <1>2
<1> QED  BY <1>1, <1>2, <1>3, <1>4, TakenUnlocked DEF e, s

\* The steps that only run.
LEMMA RunKeeps ==
    ASSUME IInv, NEW t \in Thread,
           RunPipeline(t) \/ RunTables(t) \/ RunRouter(t) \/ Seeded(t)
    PROVE  IInv'
<1> DEFINE e == Head(todo[t])
           s == LocalOf(t)
<1>1. /\ todo[t] # <<>> /\ e.op \in {"pipeline", "rib", "tables", "router", "seeded"} /\ Done(t)
      /\ stable' = stable \/ stable' = stable \cup {e.node}
      /\ UNCHANGED <<binding, saved, mutex, holder, nested, stranded>>
  BY DEF RunPipeline, RunTables, RunRouter, Seeded, At, TheNode, locks, synthetic
<1>2. /\ binding \in [Thread -> Node \cup {None}] /\ saved \in [Thread -> Seq(Saved)]
      /\ stable' \subseteq Node
      /\ s \in Local /\ s.bind = binding[t] /\ s.saved = saved[t]
  BY <1>1, Found
<1> HIDE DEF e, s
<1>3. ASSUME NEW b \in Local, After(s, e, b) PROVE b = s
  BY <1>1, <1>3 DEF After
<1>4. binding' = [binding EXCEPT ![t] = binding'[t]] /\ saved' = [saved EXCEPT ![t] = saved'[t]]
  BY <1>1, <1>2
<1> QED  BY <1>1, <1>2, <1>3, <1>4, TakenUnlocked DEF e, s

LEMMA LockNodeKeeps ==
    ASSUME IInv, NEW t \in Thread, LockNode(t)
    PROVE  IInv'
<1> DEFINE e == Head(todo[t])
           s == LocalOf(t)
           m == <<e.node, "node">>
           x == IF holder[e.node] = t THEN FALSE ELSE TRUE
<1>1. /\ todo[t] # <<>> /\ e.op = "lockNode" /\ Done(t)
      /\ saved' = [saved EXCEPT ![t] = <<x>> \o @]
      /\ \/ holder[e.node] = t /\ mutex' = mutex
         \/ holder[e.node] # t /\ mutex[m] = None /\ mutex' = [mutex EXCEPT ![m] = t]
      /\ UNCHANGED <<binding, holder, nested, stranded, stable>>
  BY DEF LockNode, At, Save, TheNode, locks, synthetic
<1>2. /\ e.node \in Node /\ m \in Mutex /\ None \notin Thread
      /\ binding \in [Thread -> Node \cup {None}] /\ saved \in [Thread -> Seq(Saved)]
      /\ mutex \in [Mutex -> Thread \cup {None}] /\ holder \in [Node -> Thread \cup {None}]
      /\ stable \subseteq Node /\ x \in Saved
      /\ s \in Local /\ s.bind = binding[t] /\ s.saved = saved[t]
      /\ s.own = {y \in Node : holder[y] = t} /\ s.held = {l \in Mutex : mutex[l] = t}
  BY <1>1, Found, ConstantsAssumption DEF Saved, Mutex, Thread
<1> HIDE DEF e, s, m
<1>3. ASSUME NEW b \in Local, After(s, e, b)
      PROVE  /\ binding'[t] = b.bind /\ saved'[t] = b.saved /\ b.own = s.own
             /\ b.held = IF x THEN s.held \cup {m} ELSE s.held
  <2>1. \/ x = FALSE /\ b = Push(s, x)
        \/ x = TRUE /\ b = [Push(s, x) EXCEPT !.held = s.held \cup {m}]
    BY <1>1, <1>2, <1>3 DEF After, m
  <2> HIDE DEF x
  <2>2. /\ Push(s, x) \in Local /\ Push(s, x).own = s.own /\ Push(s, x).held = s.held
        /\ Push(s, x).saved = <<x>> \o s.saved /\ Push(s, x).bind = s.bind
    BY <1>2, Pushed DEF Push, Local
  <2>3. /\ b.bind = s.bind /\ b.saved = <<x>> \o s.saved /\ b.own = s.own
        /\ b.held = IF x THEN s.held \cup {m} ELSE s.held
    BY <2>1, <2>2 DEF Local
  <2> QED  BY <1>1, <1>2, <2>3
<1>4. binding' = [binding EXCEPT ![t] = binding'[t]] /\ saved' = [saved EXCEPT ![t] = saved'[t]]
  <2> HIDE DEF x
  <2> QED  BY <1>1, <1>2
<1>5. HolderLocks'
  <2> SUFFICES ASSUME NEW n \in Node, holder[n] # None
               PROVE  mutex'[<<n, "node">>] = holder[n]
    BY <1>1 DEF HolderLocks
  <2>1. mutex[<<n, "node">>] = holder[n]
    BY DEF IInv, HolderLocks
  <2>2. <<n, "node">> = m \/ mutex'[<<n, "node">>] = mutex[<<n, "node">>]
    BY <1>1, <1>2 DEF Mutex
  <2>3. mutex' = mutex \/ mutex[m] = None
    BY <1>1
  <2> QED  BY <2>1, <2>2, <2>3
<1>6. mutex' \in [Mutex -> Thread \cup {None}]
      /\ \A u \in Thread \ {t}, l \in Mutex : mutex'[l] = u <=> mutex[l] = u
  BY <1>1, <1>2
<1>7. \A b \in Local : After(s, e, b) =>
         /\ \A n \in Node : holder'[n] = t <=> n \in b.own
         /\ \A l \in Mutex : mutex'[l] = t <=> l \in b.held
  <2>1. \/ x = FALSE /\ mutex' = mutex
        \/ x = TRUE /\ mutex' = [mutex EXCEPT ![m] = t]
    BY <1>1
  <2> HIDE DEF x
  <2>2. \A l \in Mutex : mutex'[l] = t <=> l \in IF x THEN s.held \cup {m} ELSE s.held
    BY <1>2, <2>1
  <2> QED  BY <1>1, <1>2, <1>3, <2>2, ZenonT(40)
<1> HIDE DEF x
<1> QED  BY <1>1, <1>2, <1>3, <1>4, <1>5, <1>6, <1>7, Taken DEF e, s

LEMMA OwnNodeKeeps ==
    ASSUME IInv, NEW t \in Thread, OwnNode(t)
    PROVE  IInv'
<1> DEFINE e == Head(todo[t])
           s == LocalOf(t)
           m == <<e.node, "node">>
<1>1. /\ todo[t] # <<>> /\ e.op = "own" /\ Done(t)
      /\ holder' = [holder EXCEPT ![e.node] = IF Head(saved[t]) THEN t ELSE @]
      /\ UNCHANGED <<binding, saved, mutex, nested, stranded, stable>>
  BY DEF OwnNode, At, TheNode, synthetic
<1>2. /\ e.node \in Node /\ m \in Mutex /\ None \notin Thread
      /\ binding \in [Thread -> Node \cup {None}] /\ saved \in [Thread -> Seq(Saved)]
      /\ mutex \in [Mutex -> Thread \cup {None}] /\ holder \in [Node -> Thread \cup {None}]
      /\ stable \subseteq Node
      /\ s \in Local /\ s.bind = binding[t] /\ s.saved = saved[t]
      /\ s.own = {y \in Node : holder[y] = t} /\ s.held = {l \in Mutex : mutex[l] = t}
      /\ HolderLocks
  BY <1>1, Found, ConstantsAssumption DEF Mutex, Thread, IInv
<1> HIDE DEF e, s, m
<1>3. ASSUME NEW b \in Local, After(s, e, b)
      PROVE  /\ b.bind = s.bind /\ b.saved = s.saved /\ b.held = s.held
             /\ \/ Head(s.saved) = TRUE /\ m \in s.held /\ b.own = s.own \cup {e.node}
                \/ Head(s.saved) = FALSE /\ b.own = s.own
  <2>1. \/ Head(s.saved) = TRUE /\ m \in s.held
           /\ b = [s EXCEPT !.own = s.own \cup {e.node}]
        \/ Head(s.saved) = FALSE /\ b = s
    BY <1>1, <1>3 DEF After, m, Top
  <2> QED  BY <1>2, <2>1 DEF Local
<1>4. PICK b \in Local : After(s, e, b)
  BY <1>1, StepTaken DEF e, s
<1>5. \/ mutex[m] = t /\ holder' = [holder EXCEPT ![e.node] = t]
      \/ holder' = holder
  BY <1>1, <1>2, <1>3, <1>4
<1>6. HolderLocks'
  BY <1>1, <1>2, <1>5 DEF HolderLocks, m
<1>7. holder' \in [Node -> Thread \cup {None}]
      /\ \A u \in Thread \ {t}, n \in Node : holder'[n] = u <=> holder[n] = u
  <2>1. mutex[m] = t => holder[e.node] \in {None, t}
    BY <1>2 DEF HolderLocks, m
  <2> QED  BY <1>2, <1>5, <2>1
<1>8. \A c \in Local : After(s, e, c) =>
         /\ binding'[t] = c.bind /\ saved'[t] = c.saved
         /\ \A n \in Node : holder'[n] = t <=> n \in c.own
         /\ \A l \in Mutex : mutex'[l] = t <=> l \in c.held
  BY <1>1, <1>2, <1>3, ZenonT(40)
<1>9. binding' = [binding EXCEPT ![t] = binding'[t]] /\ saved' = [saved EXCEPT ![t] = saved'[t]]
  BY <1>1, <1>2
<1> QED  BY <1>1, <1>2, <1>6, <1>7, <1>8, <1>9, Taken DEF e, s

LEMMA DisownNodeKeeps ==
    ASSUME IInv, NEW t \in Thread, DisownNode(t)
    PROVE  IInv'
<1> DEFINE e == Head(todo[t])
           s == LocalOf(t)
<1>1. /\ todo[t] # <<>> /\ e.op = "disown" /\ Done(t)
      /\ holder' = [holder EXCEPT ![e.node] = IF Head(saved[t]) THEN None ELSE @]
      /\ UNCHANGED <<binding, saved, mutex, nested, stranded, stable>>
  BY DEF DisownNode, At, TheNode, synthetic
<1>2. /\ e.node \in Node /\ None \notin Thread
      /\ binding \in [Thread -> Node \cup {None}] /\ saved \in [Thread -> Seq(Saved)]
      /\ mutex \in [Mutex -> Thread \cup {None}] /\ holder \in [Node -> Thread \cup {None}]
      /\ stable \subseteq Node
      /\ s \in Local /\ s.bind = binding[t] /\ s.saved = saved[t]
      /\ s.own = {y \in Node : holder[y] = t} /\ s.held = {l \in Mutex : mutex[l] = t}
      /\ HolderLocks
  BY <1>1, Found, ConstantsAssumption DEF Thread, IInv
<1> HIDE DEF e, s
<1>3. ASSUME NEW b \in Local, After(s, e, b)
      PROVE  /\ b.bind = s.bind /\ b.saved = s.saved /\ b.held = s.held
             /\ \/ Head(s.saved) = TRUE /\ e.node \in s.own /\ b.own = s.own \ {e.node}
                \/ Head(s.saved) = FALSE /\ b.own = s.own
  <2>1. \/ Head(s.saved) = TRUE /\ e.node \in s.own
           /\ b = [s EXCEPT !.own = s.own \ {e.node}]
        \/ Head(s.saved) = FALSE /\ b = s
    BY <1>1, <1>3 DEF After, Top
  <2> QED  BY <1>2, <2>1 DEF Local
<1>4. PICK b \in Local : After(s, e, b)
  BY <1>1, StepTaken DEF e, s
<1>5. \/ holder[e.node] = t /\ holder' = [holder EXCEPT ![e.node] = None]
      \/ holder' = holder
  BY <1>1, <1>2, <1>3, <1>4
<1>6. HolderLocks'
  BY <1>1, <1>2, <1>5 DEF HolderLocks
<1>7. holder' \in [Node -> Thread \cup {None}]
      /\ \A u \in Thread \ {t}, n \in Node : holder'[n] = u <=> holder[n] = u
  BY <1>2, <1>5
<1>8. \A c \in Local : After(s, e, c) =>
         /\ binding'[t] = c.bind /\ saved'[t] = c.saved
         /\ \A n \in Node : holder'[n] = t <=> n \in c.own
         /\ \A l \in Mutex : mutex'[l] = t <=> l \in c.held
  BY <1>1, <1>2, <1>3, ZenonT(40)
<1>9. binding' = [binding EXCEPT ![t] = binding'[t]] /\ saved' = [saved EXCEPT ![t] = saved'[t]]
  BY <1>1, <1>2
<1> QED  BY <1>1, <1>2, <1>6, <1>7, <1>8, <1>9, Taken DEF e, s

LEMMA UnlockNodeKeeps ==
    ASSUME IInv, NEW t \in Thread, UnlockNode(t)
    PROVE  IInv'
<1> DEFINE e == Head(todo[t])
           s == LocalOf(t)
           m == <<e.node, "node">>
<1>1. /\ todo[t] # <<>> /\ e.op = "unlockNode" /\ Done(t)
      /\ mutex' = [mutex EXCEPT ![m] = IF Head(saved[t]) THEN None ELSE @]
      /\ saved' = [saved EXCEPT ![t] = Tail(@)]
      /\ UNCHANGED <<binding, holder, nested, stranded, stable>>
  BY DEF UnlockNode, At, TheNode, Drop, synthetic
<1>2. /\ e.node \in Node /\ m \in Mutex /\ None \notin Thread
      /\ binding \in [Thread -> Node \cup {None}] /\ saved \in [Thread -> Seq(Saved)]
      /\ mutex \in [Mutex -> Thread \cup {None}] /\ holder \in [Node -> Thread \cup {None}]
      /\ stable \subseteq Node
      /\ s \in Local /\ s.bind = binding[t] /\ s.saved = saved[t]
      /\ s.own = {y \in Node : holder[y] = t} /\ s.held = {l \in Mutex : mutex[l] = t}
      /\ HolderLocks
  BY <1>1, Found, ConstantsAssumption DEF Mutex, Thread, IInv
<1> HIDE DEF e, s, m
<1>3. ASSUME NEW b \in Local, After(s, e, b)
      PROVE  /\ b.bind = s.bind /\ b.saved = Tail(s.saved) /\ b.own = s.own
             /\ \/ Head(s.saved) = TRUE /\ m \in s.held /\ e.node \notin s.own
                   /\ b.held = s.held \ {m}
                \/ Head(s.saved) = FALSE /\ b.held = s.held
  <2>1. s.saved # <<>>
        /\ \/ Head(s.saved) = TRUE /\ m \in s.held /\ e.node \notin s.own
              /\ b = [Pop(s) EXCEPT !.held = s.held \ {m}]
           \/ Head(s.saved) = FALSE /\ b = Pop(s)
    BY <1>1, <1>3 DEF After, m, Top
  <2>2. /\ Pop(s) \in Local /\ Pop(s).own = s.own /\ Pop(s).held = s.held
        /\ Pop(s).saved = Tail(s.saved) /\ Pop(s).bind = s.bind
    BY <1>2, <2>1, Popped
  <2> QED  BY <1>2, <2>1, <2>2 DEF Local
<1>4. PICK b \in Local : After(s, e, b)
  BY <1>1, StepTaken DEF e, s
<1>5. \/ mutex[m] = t /\ holder[e.node] # t /\ mutex' = [mutex EXCEPT ![m] = None]
      \/ mutex' = mutex
  BY <1>1, <1>2, <1>3, <1>4
<1>6. HolderLocks'
  <2> SUFFICES ASSUME NEW n \in Node, holder[n] # None
               PROVE  mutex'[<<n, "node">>] = holder[n]
    BY <1>1 DEF HolderLocks
  <2>1. mutex[<<n, "node">>] = holder[n]
    BY <1>2 DEF HolderLocks
  <2>2. n = e.node \/ mutex'[<<n, "node">>] = mutex[<<n, "node">>]
    BY <1>2, <1>5 DEF Mutex, m
  <2>3. n = e.node => mutex' = mutex
    BY <1>5, <2>1 DEF m
  <2> QED  BY <2>1, <2>2, <2>3
<1>7. mutex' \in [Mutex -> Thread \cup {None}]
      /\ \A u \in Thread \ {t}, l \in Mutex : mutex'[l] = u <=> mutex[l] = u
  BY <1>2, <1>5
<1>8. \A c \in Local : After(s, e, c) =>
         /\ binding'[t] = c.bind /\ saved'[t] = c.saved
         /\ \A n \in Node : holder'[n] = t <=> n \in c.own
         /\ \A l \in Mutex : mutex'[l] = t <=> l \in c.held
  BY <1>1, <1>2, <1>3, ZenonT(40)
<1>9. binding' = [binding EXCEPT ![t] = binding'[t]] /\ saved' = [saved EXCEPT ![t] = saved'[t]]
  BY <1>1, <1>2
<1> QED  BY <1>1, <1>2, <1>6, <1>7, <1>8, <1>9, Taken DEF e, s

LEMMA MutexKeeps ==
    ASSUME IInv, NEW t \in Thread, NEW kind \in {"face", "dv"},
           LockMutex(t, kind) \/ UnlockMutex(t, kind)
    PROVE  IInv'
<1> DEFINE e == Head(todo[t])
           s == LocalOf(t)
           k == <<e.node, e.kind>>
<1>1. /\ todo[t] # <<>> /\ e.kind \in {"face", "dv"} /\ Done(t)
      /\ \/ e.op = "lock" /\ mutex[k] = None /\ mutex' = [mutex EXCEPT ![k] = t]
         \/ e.op = "unlock" /\ mutex' = [mutex EXCEPT ![k] = None]
      /\ UNCHANGED <<binding, saved, holder, nested, stranded, stable>>
  BY DEF LockMutex, UnlockMutex, At, TheNode, synthetic
<1>2. /\ e.node \in Node /\ k \in Mutex /\ None \notin Thread
      /\ binding \in [Thread -> Node \cup {None}] /\ saved \in [Thread -> Seq(Saved)]
      /\ mutex \in [Mutex -> Thread \cup {None}] /\ holder \in [Node -> Thread \cup {None}]
      /\ stable \subseteq Node
      /\ s \in Local /\ s.bind = binding[t] /\ s.saved = saved[t]
      /\ s.own = {y \in Node : holder[y] = t} /\ s.held = {l \in Mutex : mutex[l] = t}
      /\ HolderLocks
  BY <1>1, Found, ConstantsAssumption DEF Mutex, Thread, IInv
<1>3. \A n \in Node : <<n, "node">> # k
  BY <1>1
<1> HIDE DEF e, s, k
<1>4. ASSUME NEW b \in Local, After(s, e, b)
      PROVE  /\ b.bind = s.bind /\ b.saved = s.saved /\ b.own = s.own
             /\ e.op = "lock" => b.held = s.held \cup {k}
             /\ e.op = "unlock" => k \in s.held /\ b.held = s.held \ {k}
  <2>1. \/ e.op = "lock" /\ b = [s EXCEPT !.held = s.held \cup {k}]
        \/ e.op = "unlock" /\ k \in s.held /\ b = [s EXCEPT !.held = s.held \ {k}]
    BY <1>1, <1>4 DEF After, k
  <2> QED  BY <1>2, <2>1 DEF Local
<1>5. PICK b \in Local : After(s, e, b)
  BY <1>1, StepTaken DEF e, s
<1>6. \/ e.op = "lock" /\ mutex[k] = None /\ mutex' = [mutex EXCEPT ![k] = t]
      \/ e.op = "unlock" /\ mutex[k] = t /\ mutex' = [mutex EXCEPT ![k] = None]
  BY <1>1, <1>2, <1>4, <1>5
<1>7. HolderLocks'
  BY <1>1, <1>2, <1>3, <1>6 DEF HolderLocks, Mutex
<1>8. mutex' \in [Mutex -> Thread \cup {None}]
      /\ \A u \in Thread \ {t}, l \in Mutex : mutex'[l] = u <=> mutex[l] = u
  <2>1. \E c \in {t, None} : mutex' = [mutex EXCEPT ![k] = c]
    BY <1>6
  <2>2. mutex[k] \in {t, None}
    BY <1>6
  <2> QED  BY <1>2, <2>1, <2>2
<1>9. \A c \in Local : After(s, e, c) =>
         /\ binding'[t] = c.bind /\ saved'[t] = c.saved
         /\ \A n \in Node : holder'[n] = t <=> n \in c.own
         /\ \A l \in Mutex : mutex'[l] = t <=> l \in c.held
  BY <1>1, <1>2, <1>4, <1>6
<1>10. binding' = [binding EXCEPT ![t] = binding'[t]] /\ saved' = [saved EXCEPT ![t] = saved'[t]]
  BY <1>1, <1>2
<1> QED  BY <1>1, <1>2, <1>7, <1>8, <1>9, <1>10, Taken DEF e, s

\* A step that only changes what its thread still has to do.
LEMMA Inserted ==
    ASSUME IInv, NEW t \in Thread, UNCHANGED <<binding, saved, mutex, holder, stranded>>,
           stable' \subseteq Node, nested' \in [Thread -> 0..MaxNested],
           todo' = [todo EXCEPT ![t] = todo'[t]],
           Runs(LocalOf(t), todo'[t], Clean(t))
    PROVE  IInv'
<1> DEFINE s == LocalOf(t)
<1>1. /\ s \in Local /\ s.bind = binding[t] /\ s.saved = saved[t]
      /\ s.own = {n \in Node : holder[n] = t} /\ s.held = {m \in Mutex : mutex[m] = t}
      /\ s.alone = Alone(t)
  BY LocalFields DEF IInv
<1>2. /\ todo' \in [Thread -> Seq(Todos)]
      /\ \A u \in Thread \ {t} : todo'[u] = todo[u]
  <2>1. todo'[t] \in Seq(Todos)
    BY DEF Runs
  <2>2. todo \in [Thread -> Seq(Todos)]
    BY DEF IInv, Typed
  <2> DEFINE x == todo'[t]
  <2>3. x \in Seq(Todos) /\ todo' = [todo EXCEPT ![t] = x]
    BY <2>1
  <2> HIDE DEF x
  <2> QED  BY <2>2, <2>3
<1>3. Typed' /\ HolderLocks'
  BY <1>2 DEF IInv, Typed, HolderLocks
<1> HIDE DEF s
<1>4. /\ \A n \in Node : holder'[n] = t <=> n \in s.own
      /\ \A m \in Mutex : mutex'[m] = t <=> m \in s.held
  BY <1>1
<1> QED  BY <1>1, <1>2, <1>3, <1>4, Arrives DEF s

LEMMA SimExecKeeps ==
    ASSUME IInv, NEW t \in Thread, SimExec(t)
    PROVE  IInv'
<1> DEFINE e == Head(todo[t])
           s == LocalOf(t)
           n == e.node
<1>1. /\ todo[t] # <<>> /\ e.op = "simExec"
      /\ IF binding[t] # None
         THEN /\ \E x \in Commands(n) : todo' = [todo EXCEPT ![t] = x \o Tail(@)]
              /\ stranded' = stranded
         ELSE stranded' = stranded \cup {n}
      /\ UNCHANGED <<binding, saved, mutex, holder, nested, stable>>
  BY DEF SimExec, At, Insert, TheNode, locks
<1>2. /\ n \in Node /\ s \in Local /\ s.bind = binding[t] /\ stable \subseteq Node
      /\ None \notin Node /\ todo \in [Thread -> Seq(Todos)]
      /\ nested \in [Thread -> 0..MaxNested]
  BY <1>1, Found, ConstantsAssumption DEF IInv, Typed
<1>3. PICK b \in Local : After(s, e, b) /\ Runs(b, Tail(todo[t]), Clean(t))
  BY <1>1, StepTaken
<1> HIDE DEF e, s, n
<1>4. b = s /\ s.bind = n /\ Calm(s, n) /\ <<n, "face">> \notin s.held
  BY <1>1, <1>3 DEF After, n
<1>5. PICK x \in Commands(n) : todo' = [todo EXCEPT ![t] = x \o Tail(@)]
  BY <1>1, <1>2, <1>4
<1>6. Runs(s, x \o Tail(todo[t]), Clean(t))
  <2>1. Runs(s, x, s)
    BY <1>2, <1>4, CommandRuns
  <2> QED  BY <1>3, <1>4, <2>1, RunsThen
<1>7. stranded' = stranded
  BY <1>1, <1>2, <1>4
<1>8. todo'[t] = x \o Tail(todo[t]) /\ todo' = [todo EXCEPT ![t] = todo'[t]]
  BY <1>2, <1>5
<1> QED  BY <1>1, <1>2, <1>6, <1>7, <1>8, Inserted DEF s

LEMMA StartPfxKeeps ==
    ASSUME IInv, NEW t \in Thread, StartPfx(t)
    PROVE  IInv'
<1> DEFINE e == Head(todo[t])
           s == LocalOf(t)
           n == e.node
           x == Lock("dv", n) \o Unlock("dv", n)
<1>1. /\ todo[t] # <<>> /\ e.op = "startPfx"
      /\ \/ todo' = [todo EXCEPT ![t] = x \o Tail(@)]
         \/ todo' = [todo EXCEPT ![t] = Tail(@)]
      /\ stable' = stable \ {n}
      /\ UNCHANGED <<binding, saved, mutex, holder, nested, stranded>>
  BY DEF StartPfx, At, Insert, Done, TheNode, locks
<1>2. /\ n \in Node /\ s \in Local /\ stable' \subseteq Node
      /\ todo \in [Thread -> Seq(Todos)] /\ nested \in [Thread -> 0..MaxNested]
  BY <1>1, Found DEF IInv, Typed
<1>3. PICK b \in Local : After(s, e, b) /\ Runs(b, Tail(todo[t]), Clean(t))
  BY <1>1, StepTaken
<1> HIDE DEF e, s, n, x
<1>4. b = s /\ MayLock(s, <<n, "dv">>) /\ "dv" \in {"face", "dv"}
  BY <1>1, <1>3 DEF After, n
<1>5. Runs(s, x, s)
  BY <1>2, <1>4, MutexRuns, RunsThen DEF x
<1>6. Runs(s, x \o Tail(todo[t]), Clean(t)) /\ Runs(s, Tail(todo[t]), Clean(t))
  BY <1>3, <1>4, <1>5, RunsThen
<1>7. /\ todo'[t] \in {x \o Tail(todo[t]), Tail(todo[t])}
      /\ todo' = [todo EXCEPT ![t] = todo'[t]]
  BY <1>1, <1>2
<1> QED  BY <1>1, <1>2, <1>6, <1>7, Inserted DEF s

LEMMA NestedCallKeeps ==
    ASSUME IInv, NEW t \in Thread, NestedCall(t)
    PROVE  IInv'
<1> DEFINE e == Head(todo[t])
           s == LocalOf(t)
           n == e.node
<1>1. /\ todo[t] # <<>> /\ e.op = "router" /\ nested[t] < MaxNested
      /\ nested' = [nested EXCEPT ![t] = @ + 1]
      /\ \E x \in NestedScripts(n) : todo' = [todo EXCEPT ![t] = x \o @]
      /\ UNCHANGED <<binding, saved, mutex, holder, stable, stranded>>
  BY DEF NestedCall, At, TheNode, locks, synthetic
<1>2. PICK x \in NestedScripts(n) : todo' = [todo EXCEPT ![t] = x \o @]
  BY <1>1
<1>3. /\ n \in Node /\ s \in Local /\ stable \subseteq Node
      /\ todo \in [Thread -> Seq(Todos)] /\ nested \in [Thread -> 0..MaxNested]
      /\ Runs(s, todo[t], Clean(t)) /\ MaxNested \in Nat
  BY <1>1, Found, ConstantsAssumption DEF IInv, Typed, OnCourse
<1>4. PICK b \in Local : After(s, e, b)
  BY <1>1, StepTaken
<1> HIDE DEF e, s, n
<1>5. Routing(s, n)
  BY <1>1, <1>4 DEF After, n
<1>6. Runs(s, x \o todo[t], Clean(t))
  BY <1>3, <1>5, NestedRuns, RunsThen
<1>7. todo'[t] = x \o todo[t] /\ todo' = [todo EXCEPT ![t] = todo'[t]]
  BY <1>2, <1>3
<1>8. nested' \in [Thread -> 0..MaxNested]
  BY <1>1, <1>3
<1> QED  BY <1>1, <1>3, <1>6, <1>7, <1>8, Inserted DEF s

LEMMA BeginKeeps ==
    ASSUME IInv, NEW t \in Thread, NEW call \in Call, NEW n \in Node,
           Alone(t) => call \in {"express", "goroutine"}, Begin(t, call, n)
    PROVE  IInv'
<1> DEFINE s == LocalOf(t)
           x == Script(call, n)
<1>1. /\ todo[t] = <<>> /\ todo' = [todo EXCEPT ![t] = x]
      /\ nested' = [nested EXCEPT ![t] = 0]
      /\ UNCHANGED <<binding, saved, mutex, holder, stable, stranded>>
  BY DEF Begin, locks, synthetic
<1>2. /\ todo \in [Thread -> Seq(Todos)] /\ nested \in [Thread -> 0..MaxNested]
      /\ MaxNested \in Nat /\ stable \subseteq Node /\ Runs(s, todo[t], Clean(t))
  BY ConstantsAssumption DEF IInv, Typed, OnCourse
<1> HIDE DEF s, x
<1>3. s = Clean(t)
  BY <1>1, <1>2, RunsEmpty
<1>4. Runs(s, x, Clean(t))
  BY <1>3, CleanIdle, ScriptRuns DEF x
<1>5. todo'[t] = x /\ todo' = [todo EXCEPT ![t] = todo'[t]]
  BY <1>1, <1>2
<1>6. nested' \in [Thread -> 0..MaxNested]
  BY <1>1, <1>2
<1> QED  BY <1>1, <1>2, <1>4, <1>5, <1>6, Inserted DEF s

LEMMA StepKeeps ==
    ASSUME IInv, NEW t \in Thread, Step(t)
    PROVE  IInv'
<1>1. CASE SwapNode(t)
  BY <1>1, SwapNodeKeeps
<1>2. CASE RestoreNode(t)
  BY <1>2, RestoreNodeKeeps
<1>3. CASE BindNode(t) \/ UnbindNode(t)
  BY <1>3, BindNodeKeeps
<1>4. CASE LockNode(t)
  BY <1>4, LockNodeKeeps
<1>5. CASE OwnNode(t)
  BY <1>5, OwnNodeKeeps
<1>6. CASE BindFib(t)
  BY <1>6, BindFibKeeps
<1>7. CASE DisownNode(t)
  BY <1>7, DisownNodeKeeps
<1>8. CASE UnlockNode(t)
  BY <1>8, UnlockNodeKeeps
<1>9. CASE \E kind \in {"face", "dv"} : LockMutex(t, kind) \/ UnlockMutex(t, kind)
  BY <1>9, MutexKeeps
<1>10. CASE RunPipeline(t) \/ RunTables(t) \/ RunRouter(t) \/ Seeded(t)
  BY <1>10, RunKeeps
<1>11. CASE SimExec(t)
  BY <1>11, SimExecKeeps
<1>12. CASE StartPfx(t)
  BY <1>12, StartPfxKeeps
<1> QED
  BY <1>1, <1>2, <1>3, <1>4, <1>5, <1>6, <1>7, <1>8, <1>9, <1>10, <1>11, <1>12 DEF Step

LEMMA NextKeeps ==
    ASSUME IInv, [Next]_vars
    PROVE  IInv'
<1>1. CASE UNCHANGED vars
  BY <1>1 DEF vars, locks, synthetic, IInv, Typed, HolderLocks, OnCourse, LocalOf, Clean,
       CommandsExecuted
<1>2. ASSUME NEW n \in Node, NEW c \in SimulatorCalls, Begin(Simulator, c, n) PROVE IInv'
  <2>1. Simulator \in Thread /\ ~Alone(Simulator) /\ c \in Call
    BY ConstantsAssumption DEF Thread, Alone
  <2> QED  BY <1>2, <2>1, BeginKeeps
<1>3. ASSUME NEW n \in Node, NEW t \in Worker, NEW c \in WorkerCalls, Begin(t, c, n)
      PROVE  IInv'
  <2>1. t \in Thread /\ c \in Call /\ (Alone(t) => c \in {"express", "goroutine"})
    BY ConstantsAssumption DEF Thread, Alone, Goroutines
  <2> QED  BY <1>3, <2>1, BeginKeeps
<1>4. ASSUME NEW t \in Thread, Step(t) \/ NestedCall(t) PROVE IInv'
  BY <1>4, StepKeeps, NestedCallKeeps
<1> QED  BY <1>1, <1>2, <1>3, <1>4 DEF Next

LEMMA InitKeeps ==
    ASSUME Init
    PROVE  IInv
<1>1. None \notin Thread /\ MaxNested \in Nat /\ <<>> \in Seq(Todos) /\ <<>> \in Seq(Saved)
  BY ConstantsAssumption DEF Thread
<1>2. Typed
  BY <1>1 DEF Init, Typed
<1>3. HolderLocks /\ CommandsExecuted
  BY DEF Init, HolderLocks, CommandsExecuted
<1>4. ASSUME NEW t \in Thread PROVE Runs(LocalOf(t), todo[t], Clean(t))
  <2>1. /\ LocalOf(t) \in Local
        /\ LocalOf(t).bind = binding[t] /\ LocalOf(t).saved = saved[t]
        /\ LocalOf(t).own = {n \in Node : holder[n] = t}
        /\ LocalOf(t).held = {m \in Mutex : mutex[m] = t}
        /\ LocalOf(t).alone = Alone(t)
    BY <1>2, LocalFields
  <2>2. LocalOf(t).own = {} /\ LocalOf(t).held = {}
        /\ LocalOf(t).bind = None /\ LocalOf(t).saved = <<>>
    BY <1>1, <2>1 DEF Init
  <2>3. LocalOf(t).alone = Clean(t).alone
    BY <2>1, CleanIdle
  <2>4. LocalOf(t) = Clean(t)
    BY <2>1, <2>2, <2>3, CleanIdle, SameLocal DEF Idle
  <2>5. todo[t] = <<>>
    BY DEF Init
  <2> QED  BY <2>1, <2>4, <2>5, RunsEmpty
<1> QED  BY <1>2, <1>3, <1>4 DEF IInv, OnCourse
-----------------------------------------------------------------------------
(***************************************************************************)
(* The theorems.                                                           *)
(***************************************************************************)
\* What is left of every call leads its thread to having nothing, always.
THEOREM Invariance == Spec => []IInv
<1>1. Init => IInv
  BY InitKeeps
<1>2. IInv /\ [Next]_vars => IInv'
  BY NextKeeps
<1> QED  BY <1>1, <1>2, PTL DEF Spec

\* The bindings, locks and scripts of the threads have their types.
THEOREM TypeCorrect == Spec => []TypeOK
<1>1. ASSUME IInv PROVE TypeOK
  <2>1. Typed /\ stranded \subseteq Node
    BY <1>1 DEF IInv, CommandsExecuted
  <2>2. ASSUME NEW t \in Thread
        PROVE  /\ \A i \in DOMAIN todo[t] : todo[t][i].node \in Node
               /\ \A i \in DOMAIN saved[t] :
                    saved[t][i] \in Node \cup {None, Kept} \cup BOOLEAN
               /\ nested[t] \in 0..MaxNested
    <3>1. todo[t] \in Seq(Todos) /\ saved[t] \in Seq(Saved)
      BY <2>1 DEF Typed
    <3>2. /\ \A i \in DOMAIN todo[t] : todo[t][i] \in Todos
          /\ \A i \in DOMAIN saved[t] : saved[t][i] \in Saved
      BY <3>1
    <3> QED  BY <2>1, <3>2 DEF Typed, Todos, Saved
  <2> QED  BY <2>1, <2>2 DEF TypeOK, Typed
<1> QED  BY <1>1, Invariance, PTL

\* Whoever is inside the pipeline or the RIB of a node holds its nodeMu and is
\* its nodeHolder (forwarder.go, withNodeFib).
THEOREM Exclusion == Spec => []PipelineExclusive
<1>1. ASSUME IInv PROVE PipelineExclusive
  <2> SUFFICES ASSUME NEW t \in Thread, At(t, "pipeline") \/ At(t, "rib")
               PROVE  mutex[<<TheNode(t), "node">>] = t /\ holder[TheNode(t)] = t
    BY DEF PipelineExclusive
  <2>1. todo[t] # <<>> /\ Head(todo[t]).op \in {"pipeline", "rib"}
    BY DEF At
  <2>2. PICK b \in Local : After(LocalOf(t), Head(todo[t]), b)
    BY <1>1, <2>1, StepTaken
  <2>3. TheNode(t) \in LocalOf(t).own /\ <<TheNode(t), "node">> \in LocalOf(t).held
    BY <2>1, <2>2 DEF After, TheNode
  <2> QED  BY <1>1, <2>1, <2>3, Found
<1> QED  BY <1>1, Invariance, PTL

\* Code of a node runs on a goroutine bound to that node, also after nested
\* calls (hooks.go, SwapNode and RestoreNode).
THEOREM Binding == Spec => []RunsBound
<1>1. ASSUME IInv PROVE RunsBound
  <2> SUFFICES ASSUME NEW t \in Thread,
                      At(t, "pipeline") \/ At(t, "rib") \/ At(t, "router")
               PROVE  binding[t] = TheNode(t)
    BY DEF RunsBound
  <2>1. todo[t] # <<>> /\ Head(todo[t]).op \in {"pipeline", "rib", "router"}
    BY DEF At
  <2>2. PICK b \in Local : After(LocalOf(t), Head(todo[t]), b)
    BY <1>1, <2>1, StepTaken
  <2>3. LocalOf(t).bind = TheNode(t)
    BY <2>1, <2>2 DEF After, TheNode, Routing
  <2> QED  BY <1>1, <2>1, <2>3, Found
<1> QED  BY <1>1, Invariance, PTL

\* A thread that has finished its call is bound to no node and holds no lock.
THEOREM Restored == Spec => []LeavesNothing
<1>1. ASSUME IInv PROVE LeavesNothing
  <2> SUFFICES ASSUME NEW t \in Thread, todo[t] = <<>>
               PROVE  /\ binding[t] = None /\ saved[t] = <<>>
                      /\ \A n \in Node : holder[n] # t
                      /\ \A m \in Mutex : mutex[m] # t
    BY DEF LeavesNothing
  <2>1. Typed /\ Runs(LocalOf(t), todo[t], Clean(t))
    BY <1>1 DEF IInv, OnCourse
  <2>2. LocalOf(t) = Clean(t)
    BY <2>1, RunsEmpty
  <2>3. Idle(LocalOf(t))
    BY <2>2, CleanIdle
  <2> QED  BY <2>1, <2>3, LocalFields DEF Idle
<1> QED  BY <1>1, Invariance, PTL

\* Every management command of a router is executed inline (inject.go, simExec).
THEOREM Executed == Spec => []CommandsExecuted
BY Invariance, PTL DEF IInv

\* Threads wait for each other in the one way that dv.go describes (comment of
\* makeGoFunc).  A worker waits with the mutex of a router in hand, if anything,
\* and never for the mutex of a router then; so the simulator is in the circle,
\* the worker it waits for waits for it, and since the simulator waits for no
\* router with a faceMu in hand, what the worker wants is nodeMu.
THEOREM OnlyAbba ==
    ASSUME Goroutines
    PROVE  Spec => []DeadlockOnlyAbba
<1>1. ASSUME IInv, NEW t \in Thread, NEW m \in WantedMutex(t)
      PROVE  /\ m \in Mutex /\ mutex[m] # t
             /\ m[2] = "dv" => \A l \in Mutex : mutex[l] = t => l[2] # "face"
             /\ t \in Worker => \A l \in Mutex : mutex[l] = t => l = <<m[1], "dv">>
  <2> DEFINE e == Head(todo[t])
             s == LocalOf(t)
  <2>1. todo[t] # <<>>
        /\ \/ e.op = "lockNode" /\ holder[e.node] # t /\ m = <<e.node, "node">>
           \/ e.op = "lock" /\ m = <<e.node, e.kind>>
    BY <1>1 DEF WantedMutex, At, TheNode
  <2>2. PICK b \in Local : After(s, e, b)
    BY <1>1, <2>1, StepTaken
  <2>3. /\ e \in Todos /\ e.node \in Node
        /\ s.own = {n \in Node : holder[n] = t} /\ s.held = {l \in Mutex : mutex[l] = t}
        /\ s.alone = Alone(t)
    BY <1>1, <2>1, Found
  <2> HIDE DEF e, s
  <2>4. MayLock(s, m)
    BY <2>1, <2>2, <2>3 DEF After
  <2>5. m \in Mutex
    BY <2>1, <2>3 DEF Mutex, Todos
  <2> QED  BY <2>3, <2>4, <2>5 DEF MayLock, Alone
<1>2. ASSUME IInv PROVE DeadlockOnlyAbba
  <2> SUFFICES ASSUME NEW S \in (SUBSET Thread) \ {{}},
                      \A t \in S : \E m \in WantedMutex(t) : mutex[m] \in S
               PROVE  \E t, u \in S, n \in Node : Abba(t, u, n)
    BY Zenon DEF DeadlockOnlyAbba
  \* A worker that is waited for and waits.
  <2>1. ASSUME NEW u \in S, u \in Worker, NEW m \in Mutex, mutex[m] = u
        PROVE  \E l \in WantedMutex(u) :
                 /\ mutex[l] \in S /\ l \in Mutex /\ m = <<l[1], "dv">> /\ l[2] # "dv"
    <3>1. PICK l \in WantedMutex(u) : mutex[l] \in S
      BY <2>1
    <3>2. l \in Mutex /\ mutex[l] # u /\ m = <<l[1], "dv">>
      BY <1>1, <1>2, <2>1, <3>1
    <3>3. l[2] # "dv"
      BY <2>1, <3>2 DEF Mutex
    <3> QED  BY <3>1, <3>2, <3>3
  \* Hence who holds something else than the mutex of a router is the simulator.
  <2>2. ASSUME NEW l \in Mutex, mutex[l] \in S, l[2] # "dv"
        PROVE  mutex[l] = Simulator
    <3>1. mutex[l] \notin Worker
      <4> SUFFICES ASSUME mutex[l] \in Worker PROVE FALSE
        OBVIOUS
      <4>1. PICK k \in WantedMutex(mutex[l]) : l = <<k[1], "dv">>
        BY <2>1, <2>2
      <4> QED  BY <2>2, <4>1
    <3> QED  BY <2>2, <3>1 DEF Thread
  <2>3. Simulator \in S
    <3>1. PICK t \in S : \E m \in WantedMutex(t) : mutex[m] \in S
      OBVIOUS
    <3>2. PICK m \in WantedMutex(t) : mutex[m] \in S
      BY <3>1
    <3>3. m \in Mutex
      BY <1>1, <1>2, <3>2
    <3>4. CASE mutex[m] = Simulator
      BY <3>2, <3>4
    <3>5. CASE mutex[m] \in Worker
      <4>1. PICK l \in WantedMutex(mutex[m]) : mutex[l] \in S /\ l \in Mutex /\ l[2] # "dv"
        BY <2>1, <3>2, <3>3, <3>5
      <4> QED  BY <2>2, <4>1
    <3> QED  BY <3>2, <3>4, <3>5 DEF Thread
  <2>4. PICK m \in WantedMutex(Simulator) : mutex[m] \in S
    BY <2>3
  <2>5. /\ m \in Mutex /\ mutex[m] # Simulator
        /\ m[2] = "dv" => \A l \in Mutex : mutex[l] = Simulator => l[2] # "face"
    BY <1>1, <1>2, <2>3, <2>4
  <2> DEFINE u == mutex[m]
  <2>6. u \in S /\ u \in Worker
    BY <2>4, <2>5 DEF Thread
  <2>7. PICK l \in WantedMutex(u) :
          mutex[l] \in S /\ l \in Mutex /\ m = <<l[1], "dv">> /\ l[2] # "dv"
    BY <2>1, <2>5, <2>6
  <2>8. mutex[l] = Simulator
    BY <2>2, <2>7
  <2>9. l[2] # "face"
    BY <2>5, <2>7, <2>8
  <2>10. l[1] \in Node /\ l = <<l[1], "node">>
    BY <2>7, <2>9 DEF Mutex
  <2>11. Abba(u, Simulator, l[1])
    BY <2>4, <2>7, <2>8, <2>10 DEF Abba
  <2> QED  BY <2>3, <2>6, <2>10, <2>11
<1> QED  BY <1>2, Invariance, PTL
=============================================================================
