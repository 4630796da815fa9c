---------------------------- MODULE Build_proofs ----------------------------
(***************************************************************************)
(* What a build promises of its output, for any source, any rules and any  *)
(* overlays, however many builds have failed before it.                    *)
(*                                                                         *)
(* What makes it work: no step before the copy looks at what there was, and*)
(* from the copy on the position in the list of packages, with the files   *)
(* of that package still to rewrite, says of every file how often it has   *)
(* been rewritten; likewise which files of an overlay are there.           *)
(***************************************************************************)
EXTENDS Build, TLAPS, WellFoundedInduction
-----------------------------------------------------------------------------
(***************************************************************************)
(* A file after the first k packages: the recursion of Rewritings.         *)
(***************************************************************************)
\* Induction as a fact about a set of numbers.
LEMMA Induction ==
    ASSUME NEW S, 0 \in S, \A n \in Nat : n \in S => n + 1 \in S
    PROVE  \A n \in Nat : n \in S
<1> DEFINE C == {n \in Nat : n \notin S}
           R == {ss \in Nat \X Nat : ss[1] < ss[2]}
<1>1. SUFFICES ASSUME C # {} PROVE FALSE
  OBVIOUS
<1>2. IsWellFoundedOn(R, Nat)
  BY NatLessThanWellFounded, SMT DEF OpToRel
<1>3. PICK m \in C : \A n \in C : ~ (<<n, m>> \in R)
  <2>1. C \subseteq Nat
    OBVIOUS
  <2> HIDE DEF C, R
  <2> QED  BY <1>1, <1>2, <2>1, WFMin
<1>4. m # 0 /\ m \in Nat /\ m - 1 \in Nat /\ <<m - 1, m>> \in R
  BY <1>3
<1>5. m - 1 \in S
  BY <1>3, <1>4
<1> QED  BY <1>3, <1>4, <1>5

\* The first n + 1 values of the function that Rewritings defines.
Follows(g, i, p, n) ==
    /\ g[0] = Checkout(i)[p]
    /\ \A k \in 1..n : g[k] = Passed(i, p, k, g[k - 1])

LEMMA FollowsOnce ==
    ASSUME NEW i, NEW p, NEW m \in Nat, NEW n \in Nat, NEW g, NEW h,
           Follows(g, i, p, m), Follows(h, i, p, n)
    PROVE  \A k \in Nat : k <= m /\ k <= n => g[k] = h[k]
<1> DEFINE S == {k \in Nat : k <= m /\ k <= n => g[k] = h[k]}
<1>1. 0 \in S
  BY DEF Follows
<1>2. ASSUME NEW k \in Nat, k \in S PROVE k + 1 \in S
  <2>1. SUFFICES ASSUME k + 1 <= m, k + 1 <= n PROVE g[k + 1] = h[k + 1]
    OBVIOUS
  <2>2. g[k] = h[k]
    BY <1>2, <2>1
  <2>3. k + 1 \in 1..m /\ k + 1 \in 1..n /\ (k + 1) - 1 = k
    BY <2>1
  <2>4. g[k + 1] = Passed(i, p, k + 1, g[k]) /\ h[k + 1] = Passed(i, p, k + 1, h[k])
    BY <2>3 DEF Follows
  <2> QED  BY <2>2, <2>4
<1>3. \A k \in Nat : k \in S
  <2> HIDE DEF S
  <2> QED  BY <1>1, <1>2, Induction
<1> QED  BY <1>3

LEMMA FollowsFar ==
    ASSUME NEW i, NEW p
    PROVE  \A n \in Nat : \E g : Follows(g, i, p, n)
<1> DEFINE S == {n \in Nat : \E g : Follows(g, i, p, n)}
<1>1. 0 \in S
  <2>1. Follows([k \in Nat |-> Checkout(i)[p]], i, p, 0)
    BY DEF Follows
  <2> QED  BY <2>1
<1>2. ASSUME NEW n \in Nat, n \in S PROVE n + 1 \in S
  <2>1. PICK g : Follows(g, i, p, n)
    BY <1>2
  <2> DEFINE h == [k \in Nat |-> IF k = n + 1 THEN Passed(i, p, k, g[n]) ELSE g[k]]
  <2>2. h[0] = Checkout(i)[p]
    BY <2>1 DEF Follows
  <2>3. ASSUME NEW k \in 1..(n + 1) PROVE h[k] = Passed(i, p, k, h[k - 1])
    <3>1. k \in Nat /\ k - 1 \in Nat /\ k - 1 # n + 1 /\ h[k - 1] = g[k - 1]
      OBVIOUS
    <3>2. CASE k = n + 1
      <4>1. h[k] = Passed(i, p, k, g[n]) /\ k - 1 = n
        BY <3>1, <3>2
      <4> QED  BY <3>1, <4>1
    <3>3. CASE k # n + 1
      <4>1. k \in 1..n /\ h[k] = g[k]
        BY <3>1, <3>3
      <4> QED  BY <2>1, <3>1, <4>1 DEF Follows
    <3> QED  BY <3>2, <3>3
  <2>4. Follows(h, i, p, n + 1)
    <3> HIDE DEF h
    <3> QED  BY <2>2, <2>3 DEF Follows
  <2> QED  BY <2>4
<1> HIDE DEF S
<1>3. \A n \in Nat : n \in S
  BY <1>1, <1>2, Induction
<1> QED  BY <1>3 DEF S

\* Rewritings is what its definition says: a function that satisfies it exists.
LEMMA RewritingsAre ==
    ASSUME NEW i, NEW p
    PROVE  /\ Rewritings(i, p)[0] = Checkout(i)[p]
           /\ \A k \in Nat : Rewritings(i, p)[k + 1]
                                = Passed(i, p, k + 1, Rewritings(i, p)[k])
<1> DEFINE G(n) == CHOOSE g : Follows(g, i, p, n)
           h == [n \in Nat |-> G(n)[n]]
           Recursion(g) == g = [k \in Nat |-> IF k = 0 THEN Checkout(i)[p]
                                              ELSE Passed(i, p, k, g[k - 1])]
           after == CHOOSE g : Recursion(g)
<1>1. \A n \in Nat : Follows(G(n), i, p, n)
  BY FollowsFar
<1> HIDE DEF G
<1>2. h[0] = Checkout(i)[p]
  BY <1>1 DEF Follows
<1>3. ASSUME NEW n \in Nat PROVE h[n + 1] = Passed(i, p, n + 1, h[n])
  <2>1. n + 1 \in Nat /\ n + 1 \in 1..(n + 1) /\ (n + 1) - 1 = n
    OBVIOUS
  <2>2. G(n + 1)[n + 1] = Passed(i, p, n + 1, G(n + 1)[n])
    BY <1>1, <2>1 DEF Follows
  <2>3. G(n + 1)[n] = G(n)[n]
    BY <1>1, <2>1, FollowsOnce
  <2> QED  BY <2>1, <2>2, <2>3
<1>4. h = [k \in Nat |-> h[k]]
  OBVIOUS
<1> HIDE DEF h
<1>5. Recursion(h)
  <2>1. \A k \in Nat : h[k] = IF k = 0 THEN Checkout(i)[p] ELSE Passed(i, p, k, h[k - 1])
    <3> TAKE k \in Nat
    <3>1. CASE k = 0
      BY <1>2, <3>1
    <3>2. CASE k # 0
      <4>1. k - 1 \in Nat /\ (k - 1) + 1 = k
        BY <3>2
      <4>2. h[(k - 1) + 1] = Passed(i, p, (k - 1) + 1, h[k - 1])
        BY <1>3, <4>1
      <4> QED  BY <3>2, <4>1, <4>2
    <3> QED  BY <3>1, <3>2
  <2> QED  BY <1>4, <2>1
<1> HIDE DEF Recursion
<1>6. Recursion(after)
  BY <1>5
<1>7. Rewritings(i, p) = after
  BY DEF Rewritings, after, Recursion
<1> HIDE DEF after
<1>8. after[0] = Checkout(i)[p]
  BY <1>6 DEF Recursion
<1>9. ASSUME NEW k \in Nat PROVE after[k + 1] = Passed(i, p, k + 1, after[k])
  <2>1. k + 1 \in Nat /\ k + 1 # 0 /\ (k + 1) - 1 = k
    OBVIOUS
  <2> QED  BY <1>6, <2>1 DEF Recursion
<1> QED  BY <1>7, <1>8, <1>9
-----------------------------------------------------------------------------
(***************************************************************************)
(* The inductive invariant.                                                *)
(***************************************************************************)
Statuses == {"start", "rewrite", "overlay", "adding", "phase overlay", "adding phase",
             "done", "failed"}

TypeOK ==
    /\ input \in Input
    /\ package \in 0..Len(TargetRewrites(input))
    /\ goMod \in {0, 1}
    /\ status \in Statuses
    /\ failures \in 0..MaxFailures

Source == DOMAIN Checkout(input)
Added == DOMAIN Overlay(input)
PhaseAdded == DOMAIN PhaseOverlay(input)

\* The files that are there, between the copy and the end of a build.
Present ==
    Source \cup (IF status = "adding" THEN Added \ files
                 ELSE IF status \in {"phase overlay", "adding phase", "done"} THEN Added
                 ELSE {})
           \cup (IF status = "adding phase" THEN PhaseAdded \ files
                 ELSE IF status = "done" THEN PhaseAdded ELSE {})

\* How far a file of the checkout has come in the list of packages.
Position(p) == IF status = "rewrite" /\ p \in files THEN package - 1 ELSE package

Content(p) ==
    IF p \in Source THEN Rewritings(input, p)[Position(p)]
    ELSE IF p \in Added THEN Overlay(input)[p] ELSE PhaseOverlay(input)[p]

\* The files still to be handled in this step.
Pending ==
    /\ status = "rewrite" =>
          files \subseteq {p \in Source : /\ package > 0
                                          /\ p[1] = TargetRewrites(input)[package].package}
    /\ status = "adding" => files \subseteq Added
    /\ status = "adding phase" => files \subseteq PhaseAdded
    /\ status \in {"start", "overlay", "phase overlay", "done"} => files = {}

\* What has been passed on the way to a status.
Passage ==
    /\ status \in {"overlay", "adding", "phase overlay", "adding phase", "done"} =>
          package = Len(TargetRewrites(input))
    /\ status \in {"rewrite", "overlay", "adding"} => goMod = 0
    /\ status \in {"phase overlay", "adding phase", "done"} => goMod = 1
    /\ status \in {"adding", "phase overlay", "adding phase", "done"} =>
          Source \cap Added = {}
    /\ status \in {"adding phase", "done"} => (Source \cup Added) \cap PhaseAdded = {}

Built == status \notin {"start", "failed"} => out = [p \in Present |-> Content(p)]

IInv == TypeOK /\ Pending /\ Passage /\ Built
-----------------------------------------------------------------------------
LEMMA NextFileIs == ASSUME files # {} PROVE NextFile \in files
BY DEF NextFile

\* Nothing but status and counters matters to what is where.
LEMMA SameFiles ==
    ASSUME UNCHANGED input
    PROVE  Source' = Source /\ Added' = Added /\ PhaseAdded' = PhaseAdded
BY DEF Source, Added, PhaseAdded

LEMMA InitInvariant == Init => IInv
<1> SUFFICES ASSUME Init PROVE IInv
  OBVIOUS
<1>1. Len(TargetRewrites(input)) \in Nat
  BY BuildAssumption DEF Init
<1>2. TypeOK
  BY <1>1, BuildAssumption DEF Init, TypeOK, Statuses
<1> QED  BY <1>2 DEF Init, IInv, Pending, Passage, Built

LEMMA CopyStep == ASSUME IInv, Copy PROVE IInv'
<1>1. Len(TargetRewrites(input)) \in Nat /\ input \in Input
  BY BuildAssumption DEF IInv, TypeOK
<1>2. TypeOK' /\ Pending' /\ Passage'
  BY <1>1 DEF IInv, TypeOK, Pending, Passage, Copy, Statuses
<1>3. files = {} /\ files' = {} /\ package' = 0 /\ status' = "rewrite"
  BY DEF IInv, Pending, Copy
<1>4. out' = [p \in Source |-> Checkout(input)[p]] /\ input' = input
  BY <1>1, BuildAssumption DEF Copy, CopyDir, Source
<1>5. Present' = Source
  BY <1>3, <1>4, SameFiles DEF Present
<1>6. ASSUME NEW p \in Source PROVE Content(p)' = Checkout(input)[p]
  BY <1>3, <1>4, RewritingsAre DEF Content, Position, Source
<1>7. Built'
  BY <1>4, <1>5, <1>6 DEF Built
<1> QED  BY <1>2, <1>7 DEF IInv

LEMMA OpenPackageStep == ASSUME IInv, OpenPackage PROVE IInv'
<1>1. Len(TargetRewrites(input)) \in Nat /\ input \in Input
  BY BuildAssumption DEF IInv, TypeOK
<1>2. /\ status = "rewrite" /\ files = {} /\ UNCHANGED <<input, out, goMod, failures>>
      /\ package \in Nat /\ package <= Len(TargetRewrites(input))
  BY <1>1 DEF IInv, TypeOK, OpenPackage
<1>3. Present = Source
  BY <1>2 DEF Present
<1>4. DOMAIN out = Source /\ \A p \in Source : out[p] = Rewritings(input, p)[package]
  BY <1>2, <1>3 DEF IInv, Built, Content, Position
<1>5. Source' = Source /\ Added' = Added /\ PhaseAdded' = PhaseAdded
  BY <1>2, SameFiles
<1>6. CASE package < Len(TargetRewrites(input))
  <2>1. /\ package' = package + 1 /\ status' = "rewrite"
        /\ files' = {p \in Source : p[1] = TargetRewrites(input)[package'].package}
    BY <1>2, <1>4, <1>6 DEF OpenPackage
  <2>2. TypeOK' /\ Pending' /\ Passage'
    <3>1. TypeOK'
      BY <1>1, <1>2, <1>6, <2>1 DEF IInv, TypeOK
    <3>2. Pending'
      BY <1>2, <1>5, <2>1 DEF Pending
    <3>3. Passage'
      BY <1>2, <2>1 DEF IInv, Passage
    <3> QED  BY <3>1, <3>2, <3>3
  <2>3. ASSUME NEW p \in Source PROVE Content(p)' = Rewritings(input, p)[package]
    <3>1. CASE p \in files'
      <4>1. Position(p)' = package
        BY <1>2, <2>1, <3>1 DEF Position
      <4> QED  BY <1>2, <1>5, <4>1 DEF Content
    <3>2. CASE p \notin files'
      <4>1. Position(p)' = package + 1
        BY <2>1, <3>2 DEF Position
      <4>2. TargetRewrites(input)[package + 1].package # p[1]
        BY <2>1, <3>2
      <4>3. Rewritings(input, p)[package + 1] = Rewritings(input, p)[package]
        <5>1. Rewritings(input, p)[package + 1]
                 = Passed(input, p, package + 1, Rewritings(input, p)[package])
          BY <1>2, RewritingsAre
        <5> QED  BY <4>2, <5>1 DEF Passed
      <4> QED  BY <1>2, <1>5, <4>1, <4>3 DEF Content
    <3> QED  BY <3>1, <3>2
  <2>4. Present' = Source
    BY <1>5, <2>1 DEF Present
  <2>5. out = [p \in Source |-> Rewritings(input, p)[package]]
    BY <1>2, <1>3, <1>4 DEF IInv, Built
  <2>6. Built'
    BY <1>2, <2>3, <2>4, <2>5 DEF Built
  <2> QED  BY <2>2, <2>6 DEF IInv
<1>7. CASE ~ (package < Len(TargetRewrites(input)))
  <2>1. status' = "overlay" /\ package' = package /\ files' = {}
        /\ package = Len(TargetRewrites(input))
    BY <1>1, <1>2, <1>7 DEF OpenPackage
  <2>2. TypeOK' /\ Pending' /\ Passage'
    BY <1>2, <2>1 DEF IInv, TypeOK, Pending, Passage, Statuses
  <2>3. Present' = Source
    BY <1>5, <2>1 DEF Present
  <2>4. \A p \in Source : Content(p)' = Content(p)
    BY <1>2, <1>5, <2>1 DEF Content, Position
  <2>5. Built'
    BY <1>2, <1>3, <2>1, <2>3, <2>4 DEF IInv, Built
  <2> QED  BY <2>2, <2>5 DEF IInv
<1> QED  BY <1>6, <1>7

LEMMA RewriteStep == ASSUME IInv, Rewrite PROVE IInv'
<1> PICK f \in files : f = NextFile
  BY NextFileIs DEF Rewrite
<1>1. Len(TargetRewrites(input)) \in Nat /\ input \in Input
  BY BuildAssumption DEF IInv, TypeOK
<1>2. /\ status = "rewrite" /\ f \in files /\ files' = files \ {f}
      /\ UNCHANGED <<input, package, goMod, status, failures>>
      /\ out' = [out EXCEPT ![f] = Transformed(TargetRewrites(input)[package], f, @)]
  BY DEF Rewrite
<1>3. /\ f \in Source /\ files \subseteq Source /\ package \in Nat /\ package - 1 \in Nat
      /\ f[1] = TargetRewrites(input)[package].package
  BY <1>1, <1>2 DEF IInv, TypeOK, Pending
<1>4. Source' = Source /\ Added' = Added /\ PhaseAdded' = PhaseAdded
  BY <1>2, SameFiles
<1>5. Present = Source /\ Present' = Source
  BY <1>2, <1>4 DEF Present
<1>6. TypeOK' /\ Pending' /\ Passage'
  BY <1>2, <1>4 DEF IInv, TypeOK, Pending, Passage
<1>7. out = [p \in Source |-> Content(p)]
  BY <1>2, <1>5 DEF IInv, Built
<1>8. Content(f)' = Transformed(TargetRewrites(input)[package], f, out[f])
  <2>1. out[f] = Rewritings(input, f)[package - 1]
    BY <1>2, <1>3, <1>7 DEF Content, Position
  <2>2. Rewritings(input, f)[(package - 1) + 1]
           = Passed(input, f, (package - 1) + 1, Rewritings(input, f)[package - 1])
    BY <1>3, RewritingsAre
  <2>3. (package - 1) + 1 = package
    BY <1>3
  <2>4. Rewritings(input, f)[package]
           = Transformed(TargetRewrites(input)[package], f, out[f])
    BY <1>3, <2>1, <2>2, <2>3 DEF Passed
  <2>5. Content(f)' = Rewritings(input, f)[package]
    <3>1. f \notin files' /\ f \in Source' /\ input' = input /\ package' = package
      BY <1>2, <1>3, <1>4
    <3> QED  BY <3>1 DEF Content, Position
  <2> QED  BY <2>4, <2>5
<1>9. ASSUME NEW p \in Source, p # f PROVE Content(p)' = out[p]
  <2>1. p \in files' <=> p \in files
    BY <1>2, <1>9
  <2> QED  BY <1>2, <1>4, <1>7, <2>1 DEF Content, Position
<1>10. out' = [p \in Source |-> Content(p)']
  BY <1>2, <1>3, <1>7, <1>8, <1>9
<1>11. Built'
  BY <1>5, <1>10 DEF Built
<1> QED  BY <1>6, <1>11 DEF IInv

\* A scan that finds nothing makes all files of the overlay pending.
LEMMA ScanStep ==
    ASSUME IInv, ScanOverlay("overlay", Overlay(input), "adding")
                 \/ ScanOverlay("phase overlay", PhaseOverlay(input), "adding phase")
    PROVE  IInv'
<1>1. UNCHANGED <<input, out, package, goMod, failures>> /\ status \in {"overlay", "phase overlay"}
  BY DEF ScanOverlay
<1>2. Source' = Source /\ Added' = Added /\ PhaseAdded' = PhaseAdded
  BY <1>1, SameFiles
<1>3. out = [p \in Present |-> Content(p)]
  BY <1>1 DEF IInv, Built
<1>4. CASE status' = "failed"
  BY <1>1, <1>4 DEF IInv, TypeOK, Statuses, Pending, Passage, Built
<1>5. CASE status' # "failed"
  <2>1. /\ status = "overlay" => /\ status' = "adding" /\ files' = Added
                                 /\ Added \cap DOMAIN out = {}
        /\ status = "phase overlay" => /\ status' = "adding phase" /\ files' = PhaseAdded
                                       /\ PhaseAdded \cap DOMAIN out = {}
    BY <1>5 DEF ScanOverlay, Collides, Added, PhaseAdded
  <2>2. DOMAIN out = Present
    BY <1>3
  <2>3. Present = IF status = "overlay" THEN Source ELSE Source \cup Added
    BY <1>1 DEF Present
  <2>4. TypeOK' /\ Pending'
    BY <1>1, <1>2, <2>1 DEF IInv, TypeOK, Statuses, Pending
  <2>5. Passage'
    BY <1>1, <1>2, <2>1, <2>2, <2>3 DEF IInv, Passage
  <2>6. Present' = Present
    BY <1>1, <1>2, <2>1, <2>3 DEF Present
  <2>7. \A p : Content(p)' = Content(p)
    BY <1>1, <1>2, <2>1 DEF Content, Position
  <2>8. Built'
    BY <1>1, <1>3, <2>6, <2>7 DEF Built
  <2> QED  BY <2>4, <2>5, <2>8 DEF IInv
<1> QED  BY <1>4, <1>5

\* Each of them is added in its turn.
LEMMA AdditionStep ==
    ASSUME IInv, CopyAddition("adding", Overlay(input))
                 \/ CopyAddition("adding phase", PhaseOverlay(input))
    PROVE  IInv'
<1>1. /\ UNCHANGED <<input, package, goMod, status, failures>> /\ files # {}
      /\ status \in {"adding", "adding phase"}
  BY DEF CopyAddition
<1>2. PICK f \in files : f = NextFile
  BY <1>1, NextFileIs
<1>3. Source' = Source /\ Added' = Added /\ PhaseAdded' = PhaseAdded
  BY <1>1, SameFiles
<1>4. out = [p \in Present |-> Content(p)]
  BY <1>1 DEF IInv, Built
<1>5. files' = files \ {f}
  BY <1>2 DEF CopyAddition
<1>6. /\ status = "adding" => f \in Added /\ f \notin Source
      /\ status = "adding phase" => f \in PhaseAdded /\ f \notin Source /\ f \notin Added
  BY <1>2 DEF IInv, Pending, Passage
<1>7. f \notin Present /\ Present' = Present \cup {f}
  BY <1>1, <1>2, <1>3, <1>5, <1>6 DEF IInv, Pending, Passage, Present
<1>8. \A p : Content(p)' = Content(p)
  BY <1>1, <1>3 DEF Content, Position
<1>9. out' = Joined([p \in {f} |-> Content(p)], out)
  <2>1. CASE status = "adding"
    <3>1. out' = Joined([p \in {f} |-> Overlay(input)[p]], out)
      BY <1>2, <2>1 DEF CopyAddition
    <3> QED  BY <1>6, <2>1, <3>1 DEF Content
  <2>2. CASE status = "adding phase"
    <3>1. out' = Joined([p \in {f} |-> PhaseOverlay(input)[p]], out)
      BY <1>2, <2>2 DEF CopyAddition
    <3> QED  BY <1>6, <2>2, <3>1 DEF Content
  <2> QED  BY <1>1, <2>1, <2>2
<1>10. out' = [p \in Present \cup {f} |-> Content(p)]
  BY <1>4, <1>7, <1>9 DEF Joined
<1>11. Built'
  BY <1>7, <1>8, <1>10 DEF Built
<1>12. TypeOK' /\ Pending' /\ Passage'
  BY <1>1, <1>3, <1>5 DEF IInv, TypeOK, Pending, Passage
<1> QED  BY <1>11, <1>12 DEF IInv

\* The end of a step, or of the build: what is there stays.
LEMMA ForwardStep == ASSUME IInv, PatchGoMod \/ Finish PROVE IInv'
<1>1. /\ UNCHANGED <<input, out, package, files, failures>> /\ files = {}
      /\ \/ status = "adding" /\ status' = "phase overlay" /\ goMod' = goMod + 1
         \/ status = "adding phase" /\ status' = "done" /\ goMod' = goMod
  BY DEF PatchGoMod, Finish
<1>2. Source' = Source /\ Added' = Added /\ PhaseAdded' = PhaseAdded
  BY <1>1, SameFiles
<1>3. TypeOK' /\ Pending' /\ Passage'
  <2>1. goMod' = 1
    <3>1. CASE status = "adding"
      <4>1. goMod = 0 /\ goMod' = goMod + 1
        BY <1>1, <3>1 DEF IInv, Passage
      <4> QED  BY <4>1
    <3>2. CASE status = "adding phase"
      BY <1>1, <3>2 DEF IInv, Passage
    <3> QED  BY <1>1, <3>1, <3>2
  <2>2. TypeOK' /\ Pending'
    BY <1>1, <1>2, <2>1 DEF IInv, TypeOK, Statuses, Pending
  <2>3. Passage'
    BY <1>1, <1>2, <2>1 DEF IInv, Passage
  <2> QED  BY <2>2, <2>3
<1>4. Present' = Present
  BY <1>1, <1>2 DEF Present
<1>5. \A p : Content(p)' = Content(p)
  BY <1>1, <1>2 DEF Content, Position
<1>6. Built'
  BY <1>1, <1>4, <1>5 DEF IInv, Built
<1> QED  BY <1>3, <1>6 DEF IInv

\* The end of a failed build, and the beginning of another.
LEMMA AgainStep == ASSUME IInv, Fail \/ Run PROVE IInv'
<1>1. /\ UNCHANGED <<input, out, package, goMod>>
      /\ \/ status' = "failed" /\ failures' = failures + 1 /\ failures < MaxFailures
         \/ status' = "start" /\ failures' = failures /\ files' = {}
  BY DEF Fail, Run
<1>2. failures' \in 0..MaxFailures
  BY <1>1, BuildAssumption DEF IInv, TypeOK
<1> QED  BY <1>1, <1>2 DEF IInv, TypeOK, Statuses, Pending, Passage, Built

LEMMA NextInvariant == IInv /\ [Next]_vars => IInv'
<1> SUFFICES ASSUME IInv, [Next]_vars PROVE IInv'
  OBVIOUS
<1>1. CASE UNCHANGED vars
  <2>1. Present' = Present /\ \A p : Content(p)' = Content(p)
    BY <1>1 DEF vars, Present, Content, Position, Source, Added, PhaseAdded
  <2> QED  BY <1>1, <2>1 DEF vars, IInv, TypeOK, Pending, Passage, Built, Source, Added, PhaseAdded
<1>2. CASE Next
  BY <1>2, CopyStep, OpenPackageStep, RewriteStep, ScanStep, AdditionStep, ForwardStep,
     AgainStep DEF Next, ApplyOverlay, ApplyPhaseOverlay
<1> QED  BY <1>1, <1>2

LEMMA Invariance == Spec => []IInv
BY InitInvariant, NextInvariant, PTL DEF Spec
-----------------------------------------------------------------------------
(* A build that is done holds of every file of the checkout what the rules  *)
(* make of it, once for each time that its package is listed, and the files *)
(* of both overlays, and no other; whatever builds failed or were done      *)
(* before it in the same directory (main.go, copyDir to patchGoMod).        *)
THEOREM DoneIsReproducible == Spec => []Reproducible
<1>1. IInv => Reproducible
  <2> SUFFICES ASSUME IInv, Done PROVE out = Output(input) /\ goMod = 1
    BY DEF Reproducible
  <2>1. status = "done" /\ goMod = 1 /\ package = Len(TargetRewrites(input))
    BY DEF Done, IInv, Passage
  <2>2. out = [p \in Source \cup Added \cup PhaseAdded |-> Content(p)]
    BY <2>1 DEF IInv, Built, Present
  <2>3. \A p \in Source : Content(p) = Rewritings(input, p)[Len(TargetRewrites(input))]
    BY <2>1 DEF Content, Position
  <2>4. \A p \in Added \ Source : Content(p) = Overlay(input)[p]
    BY DEF Content
  <2>5. \A p \in PhaseAdded \ (Source \cup Added) : Content(p) = PhaseOverlay(input)[p]
    BY DEF Content
  <2>6. Output(input) =
           [p \in Source \cup Added \cup PhaseAdded |->
               IF p \in Source THEN Rewritings(input, p)[Len(TargetRewrites(input))]
               ELSE IF p \in Added THEN Overlay(input)[p] ELSE PhaseOverlay(input)[p]]
    BY DEF Output, Joined, Source, Added, PhaseAdded
  <2> QED  BY <2>1, <2>2, <2>3, <2>4, <2>5, <2>6
<1> QED  BY <1>1, Invariance, PTL

(* What is true of the outcome for every input is true of every build that  *)
(* is done, however many builds failed or were done before it: to check a   *)
(* property of the built source, as Transformer does of its four, one       *)
(* build for each input is enough (main.go, main).                          *)
THEOREM OutputDecides ==
    ASSUME NEW CONSTANT Good, \A i \in Input : <<i, Output(i)>> \in Good
    PROVE  Spec => [](Done => <<input, out>> \in Good)
<1>1. IInv => input \in Input
  BY DEF IInv, TypeOK
<1>2. input \in Input /\ Reproducible => (Done => <<input, out>> \in Good)
  BY DEF Reproducible
<1> QED  BY <1>1, <1>2, Invariance, DoneIsReproducible, PTL

(* From the end of the rewriting to the next run no file that is there      *)
(* changes or goes (build.sh, "never silently replaces pristine sources").  *)
THEOREM NothingReplaced == Spec => OverlayOnlyAdds
<1>1. IInv /\ [Next]_vars =>
         [status \notin {"start", "rewrite"} =>
            \A p \in DOMAIN out : p \in DOMAIN out' /\ out'[p] = out[p]]_vars
  <2> SUFFICES ASSUME IInv, Next, status \notin {"start", "rewrite"}, UNCHANGED out => FALSE,
                      NEW p \in DOMAIN out
               PROVE  p \in DOMAIN out' /\ out'[p] = out[p]
    BY DEF vars
  <2>1. \/ CopyAddition("adding", Overlay(input))
        \/ CopyAddition("adding phase", PhaseOverlay(input))
    BY DEF Next, Copy, OpenPackage, Rewrite, ApplyOverlay, ScanOverlay, PatchGoMod,
           ApplyPhaseOverlay, Finish, Fail, Run
  <2>2. /\ files # {} /\ \E tree : out' = Joined([q \in {NextFile} |-> tree[q]], out)
        /\ status \in {"adding", "adding phase"}
    BY <2>1 DEF CopyAddition
  <2>3. NextFile \in files
    BY <2>2, NextFileIs
  <2>4. DOMAIN out = Present
    BY <2>2 DEF IInv, Built
  <2>5. NextFile \notin DOMAIN out
    BY <2>2, <2>3, <2>4 DEF IInv, Pending, Passage, Present
  <2> QED  BY <2>2, <2>5 DEF Joined
<1> QED  BY <1>1, Invariance, PTL DEF Spec, OverlayOnlyAdds

(* A build fails of an input/output error, or of a file that upstream and an *)
(* overlay or both overlays have, never of leftovers (main.go, copyDir).    *)
THEOREM LeftoversDoNoHarm == Spec => LeftoversHarmless
<1>1. IInv /\ [Next]_vars =>
         [status' = "failed" /\ status # "failed" => failures' > failures \/ Shadowed]_vars
  <2> SUFFICES ASSUME IInv, Next, status' = "failed", status # "failed",
                      ~ (failures' > failures)
               PROVE  Shadowed
    BY DEF vars
  <2>1. failures \in Nat
    BY BuildAssumption DEF IInv, TypeOK
  <2>2. \/ ScanOverlay("overlay", Overlay(input), "adding")
        \/ ScanOverlay("phase overlay", PhaseOverlay(input), "adding phase")
    <3>1. ~ Fail
      BY <2>1 DEF Fail
    <3>2. ~ (Copy \/ OpenPackage \/ Rewrite \/ PatchGoMod \/ Finish \/ Run)
      BY DEF Copy, OpenPackage, Rewrite, PatchGoMod, Finish, Run
    <3>3. \A at, overlay : ~ CopyAddition(at, overlay)
      BY DEF CopyAddition
    <3> QED  BY <3>1, <3>2, <3>3 DEF Next, ApplyOverlay, ApplyPhaseOverlay
  <2>3. \/ status = "overlay" /\ Added \cap DOMAIN out # {}
        \/ status = "phase overlay" /\ PhaseAdded \cap DOMAIN out # {}
    BY <2>2 DEF ScanOverlay, Collides, Added, PhaseAdded
  <2>4. DOMAIN out = IF status = "overlay" THEN Source ELSE Source \cup Added
    BY <2>3 DEF IInv, Built, Present
  <2> QED  BY <2>3, <2>4 DEF Shadowed, Source, Added, PhaseAdded
<1> QED  BY <1>1, Invariance, PTL DEF Spec, LeftoversHarmless
=============================================================================
