------------------------------- MODULE GoSource -------------------------------
(***************************************************************************)
(* Go source as the transformer (go/transform) sees it: a file is its      *)
(* imports and its declarations, a declaration the statements the rules    *)
(* look for or insert, in order.  A tree maps <<package, file>> to files.  *)
(*                                                                         *)
(* Upstream is the part of ndnd the rules expect to find; it is not in     *)
(* this repository and is read off the rules.                              *)
(***************************************************************************)
EXTENDS Naturals, Sequences, FiniteSets, SequencesExt

\* use: of.name with the statements of its arguments;  go, send, loop (a for without
\* condition), range (over a channel): the statements;  when: a test of the hooks of
\* the goroutine, and what it guards.
Node(kind, of, name, body) ==
    [kind |-> kind, of |-> of, name |-> name, body |-> body]

Call(of, name, args) == Node("use", of, name, args)
Use(of, name) == Call(of, name, <<>>)
GoStmt(body) == Node("go", "", "", body)
Forever(body) == Node("loop", "", "", body)
RangeOver(body) == Node("range", "", "", body)
Send(of, name) == Node("send", of, name, <<>>)
When(test, of, body) == Node("when", test, of, body)

Decl(name, body) == [name |-> name, body |-> body]

\* A lookup in the hooks of the node, with the global as the fallback.
PerNode(name, field, fallback) ==
    Decl(name, <<Use("_ndndsim", "GetHooks"), When("set", field, <<Use("h", field)>>),
                 When("unset", field, <<fallback>>)>>)

RECURSIVE Nodes(_)
Nodes(body) == Range(body) \cup UNION {Nodes(n.body) : n \in Range(body)}

NodesOf(decls) == UNION {Nodes(d.body) : d \in Range(decls)}
Named(body, name) == \E n \in Range(body) : n.name = name

\* The packages whose import matters here, and those a declaration list uses.
Packages == {"_ndndsim", "time", "table", "bier", "keychain", "rand", "sync",
             "ndn_sync", "enc", "log", "core"}
Qualifiers(decls) == {n.of : n \in {m \in NodesOf(decls) : m.kind = "use"}} \cap Packages

File(decls) == [imports |-> Qualifiers(decls), decls |-> decls]
-----------------------------------------------------------------------------
(***************************************************************************)
(* Upstream.                                                               *)
(***************************************************************************)
Loop == GoStmt(<<Forever(<<Use("time", "Sleep"), Use("p", "prune")>>)>>)
Worker == GoStmt(<<Use("time", "Now"), Use("p", "work")>>)

\* One further function, of a shape that a new commit of ndnd could bring.  The rules
\* look for goroutines that return, for loops in a literal, nested or not, for a method
\* named as the loop of SvsALO, and for AfterFunc.
Foreseen ==
    {<<Worker>>, <<Loop>>, <<GoStmt(<<Worker, Use("time", "Since")>>)>>,
     <<GoStmt(<<Loop>>)>>, <<GoStmt(<<Use("p", "run")>>)>>,
     <<Call("time", "AfterFunc", <<Worker>>)>>}

\* They do not look for an endless method of another name, or of that name after a
\* statement; for a loop over a channel; for the other timers of package time
\* (NewTimer stands for After and Tick too); or for sends of other types.
Unforeseen ==
    {<<GoStmt(<<Use("p", "loop")>>)>>, <<GoStmt(<<Use("p", "prepare"), Use("p", "run")>>)>>,
     <<GoStmt(<<RangeOver(<<Use("p", "work")>>)>>)>>,
     <<Use("time", "NewTimer")>>, <<Use("time", "NewTicker")>>, <<Send("p", "channel")>>}

GuestBody == Foreseen \cup Unforeseen

\* What is delivered of another router goes to processUpdate of the prefix module;
\* in onephase to Apply of the prefix table.
Subscription(handler) ==
    <<Use("ndn_sync", "SvsPub"),
      Call("pfxSvs", "SubscribePublisher", <<Use("pfx", handler)>>)>>

Common ==
    <<"fw/fw", "thread.go">> :>
        <<Decl("Run", <<Use("time", "Now"), Use("table", "FibStrategyTable")>>)>>
    @@ <<"fw/table", "rib.go">> :>
        <<Decl("RibEntry.updateNexthops", <<Use("FibStrategyTable", "SetNextHops")>>)>>
    @@ <<"fw/table", "fib-strategy-tree.go">> :> <<Decl("FibStrategyTable", <<>>)>>
    @@ <<"fw/table", "fib-strategy-hashtable.go">> :> <<>>
    @@ <<"fw/table", "dead-nonce-list.go">> :>
        <<Decl("Find", <<Use("d", "list")>>), Decl("Insert", <<Use("d", "list")>>)>>
    @@ <<"dv/table", "neighbor_table.go">> :> <<Decl("IsDead", <<Use("time", "Since")>>)>>
    @@ <<"dv/dv", "router.go">> :>
        <<Decl("NewRouter", <<Use("keychain", "NewKeyChain")>>), Decl("Start", <<Worker>>)>>
    @@ <<"dv/dv", "advert_data.go">> :> <<Decl("dataHandler", <<Use("ns", "Advert")>>)>>
    @@ <<"dv/nfdc", "nfdc.go">> :> <<Decl("Exec", <<Send("m", "channel")>>)>>
    @@ <<"std/sync", "svs.go">> :>
        <<Decl("NewSvSync", <<Use("time", "NewTicker")>>),
          Decl("SvSync.Start", <<GoStmt(<<Use("s", "main")>>)>>),
          Decl("SvSync.Stop", <<Send("s", "stop")>>),
          Decl("SvSync.onSyncInterest", <<Use("rand", "Int64N"), Send("s", "recvSv")>>)>>
    @@ <<"std/sync", "svs_alo.go">> :>
        <<Decl("NewSvsALO", <<Use("s", "init")>>),
          Decl("SvsALO.Start", <<GoStmt(<<Use("s", "run")>>)>>),
          Decl("SvsALO.Stop", <<Send("s", "stop")>>),
          Decl("SvsALO.onSvsUpdate", <<Send("s", "publpipe")>>)>>
    @@ <<"std/sync", "svs_alo_initial_state.go">> :>
        <<Decl("instanceState", <<Use("s", "encode")>>),
          Decl("parseInstanceState", <<Use("s.state", "Set")>>)>>
    @@ <<"std/sync", "svs_alo_data.go">> :>
        <<Decl("produceObject", <<Use("s.state", "Set")>>),
          Decl("SvsALO.deliver", <<Send("s", "outpipe"), Send("s", "errpipe")>>)>>

TwoPhaseFiles ==
    <<"fw/fw", "pipeline.go">> :>
        <<Decl("egress", <<Use("table", "Pet"), Use("table", "MulticastStrategyTable")>>)>>
    @@ <<"fw/fw", "config.go">> :> <<Decl("CfgRouterName", <<Use("core", "C.Fw.RouterName")>>)>>
    @@ <<"fw/fw", "bier.go">> :> <<Decl("replicate", <<Use("bier", "Bift")>>)>>
    @@ <<"fw/table", "pet.go">> :> <<Decl("Pet", <<>>)>>
    @@ <<"fw/table", "multicast.go">> :> <<Decl("MulticastStrategyTable", <<>>)>>
    @@ <<"fw/bier", "bier.go">> :>
        <<Decl("Bift", <<>>), Decl("CfgBierIndex", <<Use("core", "C.Fw.BierIndex")>>),
          Decl("BuildFromFib", <<Use("table", "FibStrategyTable")>>)>>
    @@ <<"dv/dv", "table_algo.go">> :> <<Decl("postUpdateRib", <<Use("bier", "Bift")>>)>>
    @@ <<"dv/dv", "prefix.go">> :>
        <<Decl("startFaceEvents", <<Worker>>), Decl("startPrefixPrune", <<Loop>>),
          Decl("onPublisher", Subscription("processUpdate"))>>
    @@ <<"dv/table", "prefix_state.go">> :>
        <<Decl("publishEntry", <<Use("log", "Global announce")>>),
          Decl("Apply", <<Use("log", "Add remote prefix")>>)>>

OnePhaseFiles ==
    <<"dv/dv", "table_algo.go">> :>
        <<Decl("postUpdateRib", <<Use("dv", "updateFib")>>),
          Decl("updatePrefixSubs", Subscription("Apply"))>>
    @@ <<"dv/table", "prefix_table.go">> :>
        <<Decl("publishAdd", <<Use("log", "Global announce")>>),
          Decl("Apply", <<Use("log", "Add remote prefix")>>)>>

\* twophase: thread.go asks for the name of the router.
RouterNameReader == Decl("processIncomingInterest", <<Use("", "CfgRouterName")>>)

Upstream(phase, guest) ==
    LET declared == IF phase = "twophase" THEN TwoPhaseFiles @@ Common
                                          ELSE OnePhaseFiles @@ Common
        Further(p) ==
            (IF p = <<"fw/fw", "thread.go">> /\ phase = "twophase"
                THEN <<RouterNameReader>> ELSE <<>>)
            \o (IF p = guest.file THEN <<Decl("guest", guest.body)>> ELSE <<>>)
    IN  [p \in DOMAIN declared |-> File(declared[p] \o Further(p))]
-----------------------------------------------------------------------------
(***************************************************************************)
(* What source code does when a goroutine with some hooks runs it.         *)
(***************************************************************************)
Production == [synchronous |-> FALSE, fields |-> {}, faceEvents |-> TRUE]

NodeFields == {"Fib", "Pet", "MulticastFib", "Bift", "BierIndexSet", "KeyChain"}
\* A node of the simulation, without and with a DV router.
Forwarder == [synchronous |-> TRUE, fields |-> NodeFields, faceEvents |-> FALSE]
Simulation == [Forwarder EXCEPT !.fields = @ \cup {"RouterName"}]

\* GetHooks().Synchronous, EnableFaceEvents and the fields of NodeHooks.
Holds(hooks, n) ==
    CASE n.of = "synchronous" -> hooks.synchronous
      [] n.of = "asynchronous" -> ~hooks.synchronous
      [] n.of = "face events" -> hooks.faceEvents
      [] n.of = "set" -> n.name \in hooks.fields
      [] n.of = "unset" -> n.name \notin hooks.fields

\* Go, Now, AfterFunc and Sleep of the hooks: [as, in], the effect itself and
\* where the function they are given runs.  Now and timers are one idea under
\* several names in package time.
GoHook(hooks) == [as |-> <<>>, in |-> IF hooks.synchronous THEN "event" ELSE "goroutine"]
TimeOf(hooks) == IF hooks.synchronous THEN "clock" ELSE "time"
NowHook(hooks) == [as |-> <<<<TimeOf(hooks), "Now">>>>, in |-> "now"]
AfterFuncHook(hooks) == [as |-> <<<<TimeOf(hooks), "timer">>>>, in |-> "timer"]
SleepHook(hooks) ==
    [as |-> IF hooks.synchronous THEN <<>> ELSE <<<<"time", "Sleep">>>>, in |-> "now"]

Reports == {"runConvergenceHook", "NotifyPrefixEvent", "NdndsimRecordDvAdvReceipt",
            "NdndsimRecordPfxSvsDelivery"}
\* Methods that loop until a channel tells them to stop.
Endless == {"main", "run", "loop"}
Globals == {"FibStrategyTable", "MulticastStrategyTable", "Pet", "Bift"}

Meaning(hooks, n) ==
    CASE n.of = "_ndndsim" /\ n.name = "Go" -> GoHook(hooks)
      [] n.of = "_ndndsim" /\ n.name = "Now" -> NowHook(hooks)
      [] n.of = "_ndndsim" /\ n.name = "AfterFunc" -> AfterFuncHook(hooks)
      [] n.of = "_ndndsim" /\ n.name = "Sleep" -> SleepHook(hooks)
      [] n.of = "time" /\ n.name \in {"Now", "Since"} ->
            [as |-> <<<<"time", "Now">>>>, in |-> "now"]
      [] n.of = "time" /\ n.name \in {"AfterFunc", "NewTimer", "NewTicker"} ->
            [as |-> <<<<"time", "timer">>>>, in |-> "timer"]
      [] n.name \in Endless -> [as |-> <<<<"go", "loop">>>>, in |-> "now"]
      [] n.name \in Reports -> [as |-> <<<<"report", n.name>>>>, in |-> "report"]
      [] n.name \in Globals /\ n.of \in {"", "table", "bier"} ->
            [as |-> <<<<"global", n.name>>>>, in |-> "now"]
      [] n.of \in Globals -> [as |-> <<<<"global", n.of>>>>, in |-> "now"]
      [] n.of \in {"_ndndsim", "d.mu", "log"} -> [as |-> <<>>, in |-> "now"]
      [] OTHER -> [as |-> <<<<n.of, n.name>>>>, in |-> "now"]

\* The package a name is looked up in.
Home(package, of) ==
    CASE of = "" -> package
      [] of = "bier" -> "fw/bier"
      [] of = "table" /\ package \in {"fw/fw", "fw/bier"} -> "fw/table"
      [] of \in {"table", "pfx"} /\ package = "dv/dv" -> "dv/table"
      [] OTHER -> "external"

DeclsOf(tree, package) ==
    UNION {{<<p, d>> : d \in DOMAIN tree[p].decls} : p \in {q \in DOMAIN tree : q[1] = package}}
Declared(tree, package, name) ==
    {pd \in DeclsOf(tree, package) : tree[pd[1]].decls[pd[2]].name = name}

\* A name that is declared is called, down to Depth calls.
Depth == 6
RECURSIVE Effects(_, _, _, _, _, _)
Effects(tree, package, hooks, where, depth, body) ==
    LET In(place) == IF place = "now" THEN where ELSE Append(where, place)
        Run(place, statements) == Effects(tree, package, hooks, In(place), depth, statements)
        Do(n) ==
            LET home == Home(package, n.of)
                targets == IF n.name \in Globals \cup Reports THEN {}
                           ELSE Declared(tree, home, n.name)
                meaning == Meaning(hooks, n)
            IN  CASE n.kind = "go" -> Run("goroutine", n.body)
                  [] n.kind \in {"loop", "range"} -> <<<<where, "go", "loop">>>> \o Run("now", n.body)
                  [] n.kind = "send" -> <<<<where, "send", n.name>>>>
                  [] n.kind = "when" ->
                        IF Holds(hooks, n) THEN Run("now", n.body) ELSE <<>>
                  [] n.kind = "use" /\ targets # {} /\ depth = 0 ->
                        <<<<where, "call", "endless">>>>
                  [] n.kind = "use" /\ targets # {} /\ depth > 0 ->
                        LET t == CHOOSE pd \in targets : TRUE
                        IN  Run("now", n.body)
                            \o Effects(tree, home, hooks, where, depth - 1,
                                       tree[t[1]].decls[t[2]].body)
                  [] OTHER ->
                        [i \in DOMAIN meaning.as |-> <<where>> \o meaning.as[i]]
                        \o Run(meaning.in, n.body)
    IN  FlattenSeq([i \in DOMAIN body |-> Do(body[i])])

\* What the declarations of a file do, one sequence of effects for each.
Behaviour(tree, p, hooks, decl) == Effects(tree, p[1], hooks, <<>>, Depth, decl.body)
=============================================================================
