----------------------------- MODULE Transformer -----------------------------
(***************************************************************************)
(* What the build (Build) makes of ndnd: the source it starts from, the    *)
(* rules it applies and the overlays it adds, and the properties of the    *)
(* source that comes out.                                                  *)
(***************************************************************************)
EXTENDS Build, RewriteRules

CONSTANTS
    Host,           \* the files that may hold the further function of upstream
    None            \* no upstream file is in the overlay too

\* phase: --phase;  guest: [file, body], the further function of upstream;
\* shadow: an upstream file that the overlay holds too, or None.
Inputs ==
    {i \in [phase : {"twophase", "onephase"}, guest : [file : Host, body : GuestBody],
            shadow : Host \cup {None}] :
        /\ i.guest.file \in DOMAIN Upstream(i.phase, i.guest)
        /\ i.shadow \in {None, i.guest.file}}

CleanWorktree(i) == Upstream(i.phase, i.guest)
Rewrites(i) == IF i.phase = "twophase" THEN TwoPhaseRewrites ELSE OnePhaseRewrites

\* A file without rules is rewritten too, by the global rewrites.
FileRewritten(target, p, file) ==
    RewriteFile(IF p[2] \in DOMAIN target.rules THEN target.rules[p[2]] ELSE <<>>, file)

\* go/overlay: the files of packages that the rules touch.
Additions(i) ==
    <<"dv/dv", "notify.go">> :>
        File(<<Decl("runConvergenceHook",
                    <<Use("_ndndsim", "Now"), Use("", "registerPhaseBierRouters"),
                      Use("", "syntheticRoutingIsStable"), Use("", "startPfxOnce"),
                      Use("table", "NotifyRouterReachable")>>)>>)
    @@ <<"dv/table", "prefix_event.go">> :>
        File(<<Decl("NotifyPrefixEvent", <<Use("sync", "RWMutex"), Use("time", "Time")>>)>>)
    @@ <<"dv/table", "router_event.go">> :>
        File(<<Decl("NotifyRouterReachable", <<Use("sync", "RWMutex"), Use("time", "Time")>>)>>)
    @@ IF i.shadow = None THEN <<>> ELSE i.shadow :> File(<<Decl("shadow", <<>>)>>)

\* go/overlay-twophase, go/overlay-onephase.
PhaseAdditions(i) ==
    <<"dv/dv", "bier_phase.go">> :>
        File(IF i.phase = "twophase"
                THEN <<Decl("registerPhaseBierRouters", <<Use("", "RegisterSimBierRouters")>>),
                       Decl("simSeedPsdPrefix", <<>>), Decl("resetPfxForSim", <<>>),
                       Decl("startPfxFromScratchReady", <<Use("pfxSvs", "SimStartQuiet")>>),
                       Decl("startPfxSyntheticReady",
                            <<Call("pfxSvs", "SubscribePublisher",
                                   <<RecordDelivery, Use("pfx", "processUpdate")>>),
                              Use("ndn_sync", "SvsPub"), Use("pfxSvs", "SimStartQuiet")>>)>>
                ELSE <<Decl("registerPhaseBierRouters", <<>>), Decl("simSeedPsdPrefix", <<>>),
                       Decl("resetPfxForSim", <<Use("pfx", "Reset")>>),
                       Decl("startPfxFromScratchReady", <<>>),
                       Decl("startPfxSyntheticReady", <<Use("pfxSvs", "SimStartQuiet")>>)>>)
-----------------------------------------------------------------------------
(***************************************************************************)
(* Properties of a build that is done.                                     *)
(***************************************************************************)
\* The names the transformer and the overlays bring in.
OwnNames ==
    {n : n \in UNION {{out[p].decls[d].name : d \in DOMAIN out[p].decls} : p \in DOMAIN out}}
    \cup {"simFib", "simPet", "simMulticastFib", "simRouterName", "SimBift", "simExec",
          "simNewKeyChain", "newSimTicker", "runConvergenceHook", "NotifyPrefixEvent",
          "startPfxFromScratchReady", "NewPrefixEgressTable", "initSnapContent"}

\* The tree compiles, as far as it depends on the rules, on their order and on
\* the overlays: a name is declared once in its package, a name of ours that is
\* used is declared, and a file imports the packages it uses and no other.  The
\* rules insert calls of helpers that other rules, or files of the overlays,
\* declare, in packages picked by hand, and half of them rely on an import that
\* another rule adds.
Builds ==
    Done =>
        /\ \A p \in DOMAIN out : \A d \in DOMAIN out[p].decls :
              Cardinality(Declared(out, p[1], out[p].decls[d].name)) = 1
        /\ \A p \in DOMAIN out :
              /\ \A n \in NodesOf(out[p].decls) :
                    /\ n.kind = "use" /\ n.name \in OwnNames
                    /\ Home(p[1], n.of) # "external"
                    => Declared(out, Home(p[1], n.of), n.name) # {}
              /\ out[p].imports = Qualifiers(out[p].decls)

\* What a node must not do: start a goroutine, loop or call itself without end,
\* send on a channel nobody reads, look at the wall clock, or use the tables, the
\* keychain or the random numbers of the process.
LeavesClock(e) ==
    \/ "goroutine" \in Range(e[1])
    \/ e[2] \in {"go", "send", "global"} \/ e[3] = "endless"
    \/ e[2] = "time" /\ e[3] \in {"Now", "timer", "Sleep"}
    \/ <<e[2], e[3]>> \in {<<"rand", "Int64N">>, <<"keychain", "NewKeyChain">>}

\* Upstream's function has a shape the rules do not look for.  For NewTicker they do,
\* in svs.go only (rewrite.go:124,173).
Missed(p, d) ==
    /\ d.name = "guest" /\ input.guest.body \in Unforeseen
    /\ ~(p = <<"std/sync", "svs.go">> /\ input.guest.body = <<Use("time", "NewTicker")>>)

\* Run by a node with a DV router, the declarations that leave the simulation clock and
\* the tables of the node ("zero-tolerance for goroutines in DES", hooks.go:236-243) are
\* the ones upstream wrote in a shape the rules do not look for (rules.go:66,164-241),
\* in whatever file, and no other of the rewritten packages, injected ones included.
SimulationStaysOnTheClock ==
    Done => \A p \in DOMAIN out : \A d \in Range(out[p].decls) :
               (\E e \in Range(Behaviour(out, p, Simulation, d)) : LeavesClock(e))
                   <=> Missed(p, d)

\* Observable effects: not the reports the rules add.
Observable(effects) ==
    SelectSeq(effects, LAMBDA e : e[2] # "report" /\ "report" \notin Range(e[1]))

\* A goroutine that belongs to no node runs what upstream says, the same
\* statements in the same order (hooks.go:87-88: "They preserve 100% of ndnd's
\* original production behaviour").  std/sync is left out: its sends have no
\* branch for production; and so is the name of the router (RouterNameFallsBack).
ProductionKept ==
    Done => \A p \in DOMAIN Checkout(input) : p[1] # "std/sync" =>
               \A d \in Range(Checkout(input)[p].decls) : d # RouterNameReader =>
                  \E e \in Range(out[p].decls) :
                     /\ e.name = d.name
                     /\ Observable(Behaviour(out, p, Production, e))
                        = Behaviour(Checkout(input), p, Production, d)

\* The function, with all it calls, makes a report so many times.
Reported(where, name, report, times) ==
    \A pd \in Declared(out, where, name) :
        LET effects == Behaviour(out, pd[1], Simulation, out[pd[1]].decls[pd[2]])
        IN  Len(SelectSeq(effects, LAMBDA e : e[3] = report)) = times

\* The measurements of a run miss no event, and those that are counted are counted
\* once, although packages, and functions some rules look at, are visited more than
\* once: a RIB update, an announcement, a remote prefix and an advertisement.  A
\* delivery, which only sets a time, is reported once in twophase, by each of its three
\* subscriptions, and twice in onephase: by the subscription and by Apply, which it
\* calls (rewrite.go:113,116).

EventsReported ==
    Done => /\ Reported("dv/dv", "postUpdateRib", "runConvergenceHook", 1)
            /\ Reported("dv/table", "publishEntry", "NotifyPrefixEvent", 1)
            /\ Reported("dv/table", "publishAdd", "NotifyPrefixEvent", 1)
            /\ Reported("dv/table", "Apply", "NotifyPrefixEvent", 1)
            /\ Reported("dv/dv", "updatePrefixSubs", "NotifyPrefixEvent", 1)
            /\ Reported("dv/dv", "dataHandler", "NdndsimRecordDvAdvReceipt", 1)
            /\ Reported("dv/dv", "onPublisher", "NdndsimRecordPfxSvsDelivery", 1)
            /\ Reported("dv/dv", "updatePrefixSubs", "NdndsimRecordPfxSvsDelivery", 2)
            /\ input.phase = "twophase" =>
                  /\ Reported("dv/dv", "startPfxOnce", "NdndsimRecordPfxSvsDelivery", 1)
                  /\ Reported("dv/dv", "startPfxSyntheticReady", "NdndsimRecordPfxSvsDelivery", 1)

\* hooks.go:78-80: "nil -> no per-node router name; the global CfgRouterName()
\* falls back to core.C.Fw.RouterName".
RouterNameFallsBack ==
    Done /\ input.phase = "twophase" =>
        \A d \in Range(out[<<"fw/fw", "thread.go">>].decls) :
            d.name = RouterNameReader.name =>
                Behaviour(out, <<"fw/fw", "thread.go">>, Forwarder, d)
                = <<<<<<>>, "core", "C.Fw.RouterName">>>>
=============================================================================
