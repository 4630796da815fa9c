----------------------------- MODULE RewriteRules -----------------------------
(***************************************************************************)
(* The rules of the transformer (go/transform/rules.go, inject.go) and     *)
(* which file of which package they are for (rewrite.go).  A rule is an    *)
(* operator from a file to a file, named as its function without "apply".  *)
(***************************************************************************)
EXTENDS GoSource

\* injectDecls, addNamedImport.
WithDecls(file, decls) == [file EXCEPT !.decls = @ \o decls]
WithImports(file, packages) == [file EXCEPT !.imports = @ \cup packages]

\* A function found by its name.
Changed(file, name, F(_)) ==
    [file EXCEPT !.decls = [i \in DOMAIN @ |->
        IF @[i].name = name THEN Decl(name, F(@[i].body)) ELSE @[i]]]

\* Statements after, or before, the first statement that uses a name.
First(body, name) ==
    CHOOSE i \in DOMAIN body : body[i].name = name
                               /\ \A j \in 1..(i - 1) : body[j].name # name
After(body, name, statements) ==
    IF Named(body, name)
       THEN SubSeq(body, 1, First(body, name)) \o statements
            \o SubSeq(body, First(body, name) + 1, Len(body))
       ELSE body
Before(body, name, statements) ==
    IF Named(body, name)
       THEN SubSeq(body, 1, First(body, name) - 1) \o statements
            \o SubSeq(body, First(body, name), Len(body))
       ELSE body

\* Every node that matches, and those in its arguments, replaced (astutil.Apply
\* walks the children of a node it has replaced).
Rewritten(file, Replace(_)) ==
    LET RECURSIVE Body(_)
        Body(body) == FlattenSeq([i \in DOMAIN body |->
                          Replace([body[i] EXCEPT !.body = Body(@)])])
    IN  [file EXCEPT !.decls = [i \in DOMAIN @ |-> [@[i] EXCEPT !.body = Body(@)]]]

\* rows: the uses, or sends, <<kind, of, name>> and the call that replaces each.
Substituted(file, rows) ==
    LET Replace(n) ==
            LET from == <<n.kind, n.of, n.name>>
            IN  IF from \in DOMAIN rows
                   THEN <<Call(rows[from][1], rows[from][2], n.body)>> ELSE <<n>>
    IN  Rewritten(file, Replace)
-----------------------------------------------------------------------------
(***************************************************************************)
(* Rewrites of every file.                                                 *)
(***************************************************************************)
BodyContainsInfiniteForLoop(n) == \E m \in Nodes(n.body) : m.kind = "loop"

\* Fault: the loops are not told from other goroutines.
MakeGoCallAlways(n) == <<Call("_ndndsim", "Go", n.body)>>

\* What a go statement becomes.  The loops that never return, known by the name
\* of their method or by a for without condition, start only in production.
MakeGoCall(n) ==
    LET inner == IF Len(n.body) = 1 /\ n.body[1].kind = "use" THEN n.body[1].name ELSE ""
        IsSynchronous == Use("_ndndsim", "IsSynchronous")
        InProduction == When("asynchronous", "", <<n>>)
    IN  CASE inner = "main" ->
                <<IsSynchronous, When("synchronous", "", <<Use("", "SvSync.simStart")>>),
                  InProduction>>
          [] inner = "run" -> <<IsSynchronous, InProduction>>
          [] BodyContainsInfiniteForLoop(n) -> <<IsSynchronous, InProduction>>
          [] OTHER -> <<Call("_ndndsim", "Go", n.body)>>

GlobalRows ==
    [from \in {"use"} \X {"time"} \X {"Now", "AfterFunc", "Sleep"} |-> <<"_ndndsim", from[3]>>]
    @@ <<"use", "time", "Since">> :> <<"_ndndsim", "Now">>
    @@ <<"use", "table", "FibStrategyTable">> :> <<"", "simFib">>
    @@ <<"use", "table", "MulticastStrategyTable">> :> <<"", "simMulticastFib">>
    @@ <<"use", "table", "Pet">> :> <<"", "simPet">>

GlobalRewrites(file) ==
    LET GoCalls(n) == IF n.kind = "go" THEN MakeGoCall(n) ELSE <<n>>
    IN  Rewritten(Substituted(file, GlobalRows), GoCalls)
-----------------------------------------------------------------------------
(***************************************************************************)
(* Substitutions.                                                          *)
(***************************************************************************)
NfdcChannelSend(file) ==
    Substituted(file, <<"send", "m", "channel">> :> <<"", "simExec">>)

KeychainReplace(file) ==
    Substituted(file, <<"use", "keychain", "NewKeyChain">> :> <<"", "simNewKeyChain">>)

SimTicker(file) == Substituted(file, <<"use", "time", "NewTicker">> :> <<"", "newSimTicker">>)

\* A generator per instance, made by the constructor.
SvsDeterministicRNG(file) ==
    LET Constructed(body) == body \o <<Use("rand", "New")>>
    IN  Substituted(Changed(file, "NewSvSync", Constructed),
                    <<"use", "rand", "Int64N">> :> <<"s.rng", "Int64N">>)

FibGlobalPointerInternal(file) ==
    Substituted(file, <<"use", "FibStrategyTable", "SetNextHops">> :> <<"", "simFib">>)

BierSimBiftInTableAlgo(file) ==
    Substituted(file, <<"use", "bier", "Bift">> :> <<"bier", "SimBift">>)

ThreadRouterNameHook(file) ==
    Substituted(file, <<"use", "", "CfgRouterName">> :> <<"", "simRouterName">>)

SvsChannels(file) ==
    Substituted(file, <<"send", "s", "recvSv">> :> <<"", "SvSync.simRecvSv">>
                   @@ <<"send", "s", "stop">> :> <<"", "SvSync.simStop">>)

SvsAloChannels(file) ==
    Substituted(file, <<"send", "s", "stop">> :> <<"", "SvsALO.simStop">>
                   @@ <<"send", "s", "publpipe">> :> <<"", "SvsALO.simQueuePubl">>)

SvsAloDataChannels(file) ==
    Substituted(file, <<"send", "s", "outpipe">> :> <<"", "SvsALO.simQueuePub">>
                   @@ <<"send", "s", "errpipe">> :> <<"", "SvsALO.simQueueError">>)
-----------------------------------------------------------------------------
(***************************************************************************)
(* Changes of one function.                                                *)
(***************************************************************************)
FaceEventsGuard(file) ==
    LET Guarded(body) == <<Use("_ndndsim", "EnableFaceEvents"), When("face events", "", body)>>
    IN  Changed(file, "startFaceEvents", Guarded)

PetGlobalPointer(file) ==
    LET Pointer(body) == <<Use("", "NewPrefixEgressTable")>>
    IN  Changed(file, "Pet", Pointer)

PostUpdateRibConvergenceHook(file) ==
    LET Hooked(body) == IF Named(body, "runConvergenceHook") THEN body
                        ELSE Append(body, Use("", "runConvergenceHook"))
    IN  Changed(file, "postUpdateRib", Hooked)

NotifyPrefixEventStmt == Call("", "NotifyPrefixEvent", <<Use("_ndndsim", "Now")>>)

NotifyInsidePrefixAddLoop(body) ==
    IF Named(body, "NotifyPrefixEvent") THEN body
    ELSE After(body, "Add remote prefix", <<NotifyPrefixEventStmt>>)

NotifyAfterMatchingLog(body) ==
    IF Named(body, "NotifyPrefixEvent") THEN body
    ELSE After(body, "Global announce", <<NotifyPrefixEventStmt>>)

PrefixEventHooks(file) ==
    Changed(Changed(Changed(file, "publishEntry", NotifyAfterMatchingLog),
                    "publishAdd", NotifyAfterMatchingLog),
            "Apply", NotifyInsidePrefixAddLoop)

DeadNonceListMutex(file) ==
    LET Locked(body) == <<Use("d.mu", "Lock")>> \o body
    IN  WithImports(WithDecls(Changed(Changed(file, "Find", Locked), "Insert", Locked),
                              <<Decl("DeadNonceList.mu", <<Use("sync", "RWMutex")>>)>>),
                    {"sync"})

DvAdvReceiptCallback(file) ==
    LET Stamped(body) ==
            Before(body, "Advert", <<Use("_ndndsim", "NdndsimRecordDvAdvReceipt")>>)
    IN  Changed(file, "dataHandler", Stamped)

RecordDelivery == Use("_ndndsim", "NdndsimRecordPfxSvsDelivery")

\* The callback given to SubscribePublisher starts with the record.
Recorded(body) ==
    [i \in DOMAIN body |->
        IF body[i].name = "SubscribePublisher" /\ body[i].body # <<>>
           THEN [body[i] EXCEPT !.body = IF @[1] = RecordDelivery THEN @
                                         ELSE <<RecordDelivery>> \o @]
           ELSE body[i]]

PfxSvsDeliveryCallback(file) == Changed(file, "onPublisher", Recorded)
PfxSvsDeliveryCallbackOp(file) == Changed(file, "updatePrefixSubs", Recorded)

PfxSvsDeliveryCallbackInApplyOp(file) ==
    LET Stamped(body) == <<RecordDelivery>> \o body
    IN  Changed(file, "Apply", Stamped)

\* Sequence number 0 is skipped when a state is restored.
SvsAloInitialStatePatch(file) ==
    LET Skipping(body) ==
            IF Named(body, "Set") THEN <<Use("seqEntry", "SeqNo")>> \o body ELSE body
    IN  Changed(file, "parseInstanceState", Skipping)

SvsAloSnapContentInit(file) ==
    LET Initialised(body) == After(body, "init", <<Use("", "initSnapContent")>>)
    IN  Changed(file, "NewSvsALO", Initialised)

SvsAloStoreContentData(file) ==
    LET Stored(body) == After(body, "Set", <<Use("", "SvsALO.storeSnapContent")>>)
    IN  Changed(file, "produceObject", Stored)
-----------------------------------------------------------------------------
(***************************************************************************)
(* Code that is appended to a file.                                        *)
(***************************************************************************)
fibHashTableSnippet == <<Decl("FibStrategyHashTable.CleanUpFace", <<>>)>>

fibStrategyTreeSnippet ==
    <<Decl("NewFibStrategyTree", <<>>), Decl("NewMulticastStrategyTree", <<>>),
      Decl("FibStrategyTree.CleanUpFace", <<>>)>>

petConstructorSnippet == <<Decl("NewPrefixEgressTable", <<>>)>>

ribSimSnippet ==
    <<PerNode("simFib", "Fib", Use("", "FibStrategyTable")), Decl("RibTable.InitRoot", <<>>)>>

svsSimSnippet ==
    <<Decl("SvSync.SuppressionStats", <<>>),
      Decl("newSimTicker", <<Use("_ndndsim", "AfterFunc")>>),
      Decl("SvSync.simStart",
           <<Call("_ndndsim", "AfterFunc", <<Use("s", "sendSyncInterest")>>),
             Call("_ndndsim", "Go", <<Use("s", "sendSyncInterest")>>)>>),
      Decl("SvSync.SimStartQuiet", <<Use("s", "AttachHandler")>>),
      Decl("SvSync.simRecvSv", <<Use("s", "onReceiveStateVector")>>),
      Decl("SvSync.simStop", <<Use("s", "DetachHandler"), Use("s.ticker", "Stop")>>)>>

simFibOfThread == PerNode("simFib", "Fib", Use("table", "FibStrategyTable"))

threadSimSnippet ==
    <<simFibOfThread,
      PerNode("simPet", "Pet", Use("table", "Pet")),
      PerNode("simMulticastFib", "MulticastFib", Use("table", "MulticastStrategyTable")),
      PerNode("simRouterName", "RouterName", Use("", "CfgRouterName")),
      Decl("Thread.Fib", <<Use("sync", "RWMutex"), Use("", "simFib")>>),
      Decl("Thread.Pet", <<Use("", "simPet")>>), Decl("Thread.ProcessPacket", <<>>)>>

bierSimSnippet == <<simFibOfThread, PerNode("SimBift", "Bift", Use("", "Bift"))>>

nfdcSimSnippet ==
    <<Decl("simExec", <<Use("_ndndsim", "IsSynchronous"),
                        When("synchronous", "", <<Use("m.engine", "ExecMgmtCmd")>>),
                        When("asynchronous", "", <<Send("m", "channel")>>)>>)>>

prefixSimSnippet ==
    <<Decl("PrefixModule.SuppressionStats", <<Use("ndn_sync", "SuppressStats")>>),
      Decl("PrefixModule.RestorePfxEntries", <<>>)>>

simNewKeyChain == PerNode("simNewKeyChain", "KeyChain", Use("keychain", "NewKeyChain"))

routerSimSnippet ==
    <<simNewKeyChain,
      Decl("Router.Init", <<Use("log", "Info"), Use("_ndndsim", "Now"),
                            Use("", "resetPfxForSim"), Use("", "startPfxFromScratchReady")>>),
      Decl("Router.Cleanup", <<Use("sync", "Map")>>),
      Decl("startPfxOnce",
           <<Use("sync", "Map"),
             Call("pfxSvs", "SubscribePublisher", <<RecordDelivery, Use("pfx", "processUpdate")>>),
             Use("pfxSvs", "Start"), Use("", "startFaceEvents"), Use("", "startPrefixPrune")>>),
      Decl("Router.PrefixSyncSuppressionStats", <<Use("ndn_sync", "SuppressStats")>>),
      Decl("Router.LinkMulticastPrefixes", <<Use("enc", "Name")>>),
      Decl("RegisterSimBierRouters", <<Use("bier", "SimBift")>>),
      Decl("syntheticRoutingIsStable", <<>>),
      Decl("Router.SeedSyntheticRoutes", <<Use("", "runConvergenceHook"),
                                           Use("", "simSeedPsdPrefix")>>),
      Decl("Router.StartPfxIfSyntheticStable", <<Use("", "startPfxSyntheticReady")>>)>>

svsAloSimSnippet ==
    <<Decl("SvsALO.simQueuePub", <<Use("s", "subscription")>>),
      Decl("SvsALO.simQueueError", <<Use("s", "onError")>>),
      Decl("SvsALO.simQueuePubl", <<Use("s", "onPublisher")>>),
      Decl("SvsALO.simStop", <<>>), Decl("SvsALO.SimStartQuiet", <<>>)>>

svsAloSnapContentHelpersSnippet ==
    <<Decl("SvsALO.storeSnapContent", <<Use("s", "snapContent")>>),
      Decl("initSnapContent", <<Use("s", "snapContent")>>),
      Decl("SvsALO.encodeSnapContent", <<>>), Decl("SvsALO.decodeSnapContent", <<>>)>>

threadSimSnippetOp ==
    <<simFibOfThread, Decl("Thread.Fib", <<Use("sync", "RWMutex"), Use("", "simFib")>>),
      Decl("Thread.ProcessPacket", <<>>)>>

routerSimSnippetOp ==
    <<simNewKeyChain,
      Decl("Router.Init", <<Use("", "resetPfxForSim")>>),
      Decl("Router.Cleanup", <<Use("sync", "Map")>>),
      Decl("startPfxOnce", <<Use("pfxSvs", "Start")>>),
      Decl("Router.PrefixSyncSuppressionStats", <<Use("ndn_sync", "SuppressStats")>>),
      Decl("Router.LinkMulticastPrefixes", <<Use("enc", "Name")>>),
      Decl("syntheticRoutingIsStable", <<>>),
      Decl("Router.SeedSyntheticRoutes", <<Use("", "runConvergenceHook"),
                                           Use("", "simSeedPsdPrefix")>>),
      Decl("Router.StartPfxIfSyntheticStable", <<Use("", "startPfxSyntheticReady")>>)>>

\* The snippet is injected before the calls of the file are renamed.
ThreadSimExtensions(file) ==
    WithImports(ThreadRouterNameHook(WithDecls(file, threadSimSnippet)), {"sync"})

ThreadSimExtensionsOp(file) == WithImports(WithDecls(file, threadSimSnippetOp), {"sync"})

CfgBierIndexHooks(file) ==
    LET Looked(body) == <<Use("_ndndsim", "GetHooks"),
                          When("set", "BierIndexSet", <<Use("h", "BierIndex")>>),
                          When("unset", "BierIndexSet", <<Use("core", "C.Fw.BierIndex")>>)>>
    IN  Changed(file, "CfgBierIndex", Looked)

BierSimExtensions(file) == CfgBierIndexHooks(WithDecls(file, bierSimSnippet))

RouterSimExtensions(file) ==
    WithImports(WithDecls(file, routerSimSnippet), {"ndn_sync", "bier", "enc", "log", "sync"})
RouterSimExtensionsOp(file) ==
    WithImports(WithDecls(file, routerSimSnippetOp), {"ndn_sync", "enc", "sync"})

\* instanceState and parseInstanceState are deleted and written anew.
SvsAloSnapContentState(file) ==
    LET Other(d) == d.name \notin {"instanceState", "parseInstanceState"}
    IN  WithDecls([file EXCEPT !.decls = SelectSeq(@, Other)],
            <<Decl("instanceState", <<Use("s", "encode"), Use("", "SvsALO.encodeSnapContent")>>),
              Decl("parseInstanceState", <<Use("", "SvsALO.decodeSnapContent"),
                                           Use("seqEntry", "SeqNo"), Use("s.state", "Set")>>)>>)
-----------------------------------------------------------------------------
(***************************************************************************)
(* The packages and their files, in the order they are rewritten.          *)
(***************************************************************************)
Package(package, rules) == [package |-> package, rules |-> rules]

SyncRules(svsAlo, svsAloData) ==
    Package("std/sync",
            "svs.go" :> <<"SimTicker", "DeterministicRNG", "SvsSimExtensions", "SvsChannels">>
         @@ "svs_alo.go" :> svsAlo
         @@ "svs_alo_initial_state.go" :> <<"InitialStatePatch", "SnapContentState">>
         @@ "svs_alo_data.go" :> svsAloData)

\* Fault: the helper is injected before the sends of the file are replaced.
NfdcRulesSwapped ==
    Package("dv/nfdc", "nfdc.go" :> <<"NfdcSimExtensions", "NfdcChannelSend">>)

NfdcRules == Package("dv/nfdc", "nfdc.go" :> <<"NfdcChannelSend", "NfdcSimExtensions">>)

TableRules(tree) ==
    "fib-strategy-tree.go" :> <<tree>>
    @@ "fib-strategy-hashtable.go" :> <<"FibHashTableExtensions">>
    @@ "rib.go" :> <<"FibGlobalPointerInternal", "RibSimExtensions">>
    @@ "dead-nonce-list.go" :> <<"DeadNonceListMutex">>

\* Fault: the rules of dv/table are given for both of its entries.
TableGlobalsOnlyWithRules ==
    Package("dv/table", "prefix_table.go" :> <<"PfxSvsDeliveryCallbackInApplyOp">>)

\* dv/table is listed twice: once for the global rewrites, once with its rules.
TableGlobalsOnly == Package("dv/table", <<>>)

OnePhaseRewrites ==
    <<Package("fw/fw", "thread.go" :> <<"ThreadSimExtensionsOp">>),
      Package("fw/table", TableRules("FibStrategyTreeExtensionsOp")),
      TableGlobalsOnly,
      Package("dv/table",
              "prefix_table.go" :> <<"PrefixEventHooks", "PfxSvsDeliveryCallbackInApplyOp">>),
      Package("dv/dv",
              "table_algo.go" :> <<"PostUpdateRibConvergenceHook", "PfxSvsDeliveryCallbackOp">>
           @@ "router.go" :> <<"KeychainReplace", "RouterSimExtensionsOp", "SvsALOMaxPipeline">>
           @@ "advert_data.go" :> <<"DvAdvReceiptCallback">>),
      NfdcRules,
      SyncRules(<<"SvsAloChannels", "SvsAloSimExtensions", "SnapContent">>,
                <<"SvsAloDataChannels", "SnapContentData">>)>>

TwoPhaseRewrites ==
    <<Package("fw/fw", "thread.go" :> <<"ThreadSimExtensions", "BierSimBiftInTableAlgo">>
                    @@ "bier.go" :> <<"BierSimBiftInTableAlgo">>),
      Package("fw/table", "pet.go" :> <<"PetGlobalPointer", "PetConstructor">>
                       @@ TableRules("FibStrategyTreeExtensions")),
      Package("fw/bier", "bier.go" :> <<"BierSimExtensions">>),
      TableGlobalsOnly,
      Package("dv/table", "prefix_state.go" :> <<"PrefixEventHooks">>),
      Package("dv/dv",
              "table_algo.go" :> <<"PostUpdateRibConvergenceHook", "BierSimBiftInTableAlgo">>
           @@ "router.go" :> <<"KeychainReplace", "RouterSimExtensions">>
           @@ "prefix.go" :> <<"FaceEventsGuard", "PrefixSimExtensions", "SvsALOMaxPipeline",
                               "PfxSvsDeliveryCallback">>
           @@ "advert_data.go" :> <<"DvAdvReceiptCallback">>),
      NfdcRules,
      SyncRules(<<"SvsAloChannels", "SvsAloSimExtensions", "OnSvsUpdatePatch", "SnapContent">>,
                <<"SvsAloDataChannels", "ConsumeCheckPatch", "SnapContentData">>)>>

\* The switch of rewriteFile.  Three rules do nothing there: one has no case,
\* one is commented out, one is a function without effect.
Rule(rule, file) ==
    CASE rule = "NfdcChannelSend" -> NfdcChannelSend(file)
      [] rule = "KeychainReplace" -> KeychainReplace(file)
      [] rule = "FaceEventsGuard" -> FaceEventsGuard(file)
      [] rule = "PetGlobalPointer" -> PetGlobalPointer(file)
      [] rule = "SimTicker" -> SimTicker(file)
      [] rule = "FibGlobalPointerInternal" -> FibGlobalPointerInternal(file)
      [] rule = "DeadNonceListMutex" -> DeadNonceListMutex(file)
      [] rule = "PostUpdateRibConvergenceHook" -> PostUpdateRibConvergenceHook(file)
      [] rule = "PrefixEventHooks" -> PrefixEventHooks(file)
      [] rule \in {"FibStrategyTreeExtensions", "FibStrategyTreeExtensionsOp"} ->
            WithDecls(file, fibStrategyTreeSnippet)
      [] rule = "FibHashTableExtensions" -> WithDecls(file, fibHashTableSnippet)
      [] rule = "PetConstructor" -> WithDecls(file, petConstructorSnippet)
      [] rule = "RibSimExtensions" -> WithDecls(file, ribSimSnippet)
      [] rule = "SvsSimExtensions" -> WithDecls(file, svsSimSnippet)
      [] rule = "DeterministicRNG" -> SvsDeterministicRNG(file)
      [] rule = "SvsAloSimExtensions" ->
            WithDecls(SvsAloInitialStatePatch(file), svsAloSimSnippet)
      [] rule = "SvsChannels" -> SvsChannels(file)
      [] rule = "SvsAloChannels" -> SvsAloChannels(file)
      [] rule = "InitialStatePatch" -> SvsAloInitialStatePatch(file)
      [] rule = "SvsAloDataChannels" -> SvsAloDataChannels(file)
      [] rule = "SnapContentData" -> SvsAloStoreContentData(file)
      [] rule = "SnapContentState" -> SvsAloSnapContentState(file)
      [] rule = "SnapContent" ->
            SvsAloSnapContentInit(WithDecls(file, svsAloSnapContentHelpersSnippet))
      [] rule = "ThreadSimExtensions" -> ThreadSimExtensions(file)
      [] rule = "BierSimExtensions" -> BierSimExtensions(file)
      [] rule = "NfdcSimExtensions" -> WithDecls(file, nfdcSimSnippet)
      [] rule = "PrefixSimExtensions" -> WithDecls(file, prefixSimSnippet)
      [] rule = "RouterSimExtensions" -> RouterSimExtensions(file)
      [] rule = "DvAdvReceiptCallback" -> DvAdvReceiptCallback(file)
      [] rule = "PfxSvsDeliveryCallback" -> PfxSvsDeliveryCallback(file)
      [] rule = "PfxSvsDeliveryCallbackOp" -> PfxSvsDeliveryCallbackOp(file)
      [] rule = "PfxSvsDeliveryCallbackInApplyOp" -> PfxSvsDeliveryCallbackInApplyOp(file)
      [] rule = "BierSimBiftInTableAlgo" -> BierSimBiftInTableAlgo(file)
      [] rule = "ThreadSimExtensionsOp" -> ThreadSimExtensionsOp(file)
      [] rule = "RouterSimExtensionsOp" -> RouterSimExtensionsOp(file)
      [] rule \in {"SvsALOMaxPipeline", "ConsumeCheckPatch", "OnSvsUpdatePatch"} -> file

\* Fault: rib.go is taken to import the hooks already.
SetsNdndsimUsedNotRib ==
    {"FaceEventsGuard", "PrefixEventHooks", "BierSimExtensions", "NfdcSimExtensions",
     "DvAdvReceiptCallback", "PfxSvsDeliveryCallback", "PfxSvsDeliveryCallbackOp",
     "PfxSvsDeliveryCallbackInApplyOp"}

\* The rules after which the hooks are imported; the others rely on the global
\* rewrites having done so, or need no import.
SetsNdndsimUsed ==
    {"FaceEventsGuard", "PrefixEventHooks", "RibSimExtensions", "BierSimExtensions",
     "NfdcSimExtensions", "DvAdvReceiptCallback", "PfxSvsDeliveryCallback",
     "PfxSvsDeliveryCallbackOp", "PfxSvsDeliveryCallbackInApplyOp"}

\* pruneUnusedPackageImports.
Pruned(file) == [file EXCEPT !.imports = @ \cap Qualifiers(file.decls)]

\* rewriteFile.
RewriteFile(rules, file) ==
    LET global == GlobalRewrites(file)
        Step(done, rule) ==
            LET next == Rule(rule, done.file)
            IN  [file |-> next,
                 ndndsimUsed |-> done.ndndsimUsed
                                 \/ (rule \in SetsNdndsimUsed /\ next # done.file)]
        done == FoldLeft(Step, [file |-> global,
                                ndndsimUsed |-> "_ndndsim" \in Qualifiers(global.decls)], rules)
        imported == IF done.ndndsimUsed THEN WithImports(done.file, {"_ndndsim"})
                                        ELSE done.file
    IN  IF done.file = file THEN file ELSE Pruned(imported)
=============================================================================
