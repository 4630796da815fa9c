-------------------------------- MODULE Build --------------------------------
(***************************************************************************)
(* A build of the daemon for the simulation (go/build.sh and the main      *)
(* program of go/transform): the transformer copies a clean checkout of    *)
(* ndnd, rewrites the files of its packages, adds the files of the overlay *)
(* that are new, and requires the hooks in go.mod; the script then adds    *)
(* the overlay of the build phase.  Any step may fail; a build may be run  *)
(* again, after a failure or a success, into the same directory.           *)
(*                                                                         *)
(* What files hold and what the rules make of them is left to constants,   *)
(* which Transformer gives their meaning.  A tree maps <<package, file>>   *)
(* to files.                                                               *)
(***************************************************************************)
EXTENDS Naturals, Sequences

CONSTANTS
    Input,              \* what a build may be given
    Checkout(_),        \* the tree of the clean checkout
    TargetRewrites(_),  \* the packages to rewrite, in order, with their rules
    Transformed(_, _, _),   \* what the rules for a package make of one of its files
    Overlay(_),         \* the tree of go/overlay
    PhaseOverlay(_),    \* the tree of the overlay of the build phase
    MaxFailures         \* bound on the input/output errors of a behaviour

ASSUME BuildAssumption ==
    /\ MaxFailures \in Nat
    /\ \A i \in Input :
          /\ Len(TargetRewrites(i)) \in Nat
          /\ Checkout(i) = [p \in DOMAIN Checkout(i) |-> Checkout(i)[p]]

VARIABLES
    input,      \* the input of the build
    out,        \* the output tree
    package,    \* position in the list of packages
    files,      \* the files still to rewrite, or to add, in this step
    goMod,      \* how often go.mod requires the hooks
    status,
    failures

vars == <<input, out, package, files, goMod, status, failures>>
-----------------------------------------------------------------------------
\* The files of two trees; the first has precedence.
Joined(tree, other) ==
    [p \in DOMAIN tree \cup DOMAIN other |-> IF p \in DOMAIN tree THEN tree[p] ELSE other[p]]

Init ==
    /\ input \in Input
    /\ out = <<>> /\ package = 0 /\ files = {} /\ goMod = 0
    /\ status = "start" /\ failures = 0

\* Fault: what an earlier build left is kept.
CopyDirKeepsLeftovers(tree) == Joined(Checkout(input), tree)

\* Fault: files that are there are not copied again.
CopyDirSkipsExisting(tree) ==
    [p \in DOMAIN Checkout(input) |-> IF p \in DOMAIN tree THEN tree[p] ELSE Checkout(input)[p]]

\* copyDir: the output is removed first.  (So what a copy or a write that fails
\* has left of a file is never looked at again.)
CopyDir(tree) == Checkout(input)

Copy ==
    /\ status = "start"
    /\ out' = CopyDir(out) /\ package' = 0 /\ goMod' = 0
    /\ status' = "rewrite"
    /\ UNCHANGED <<input, files, failures>>

\* rewritePackage: the files of the directory, or the overlay if it was the last.
OpenPackage ==
    /\ status = "rewrite" /\ files = {}
    /\ IF package < Len(TargetRewrites(input))
          THEN /\ package' = package + 1
               /\ files' = {p \in DOMAIN out : p[1] = TargetRewrites(input)[package'].package}
               /\ UNCHANGED status
          ELSE status' = "overlay" /\ UNCHANGED <<package, files>>
    /\ UNCHANGED <<input, out, goMod, failures>>

\* The files of a directory come in a fixed order.
NextFile == CHOOSE p \in files : TRUE

Rewrite ==
    /\ status = "rewrite" /\ files # {}
    /\ out' = [out EXCEPT ![NextFile] =
                  Transformed(TargetRewrites(input)[package], NextFile, @)]
    /\ files' = files \ {NextFile}
    /\ UNCHANGED <<input, package, goMod, status, failures>>

\* Fault: the overlay replaces what is there.
CollidesNever(overlay) == FALSE

\* No file of the overlay may be there already.
Collides(overlay) == DOMAIN overlay \cap DOMAIN out # {}

\* applyOverlay, and copy_overlay_additions of the script: nothing is copied
\* when one of the files is there.
ScanOverlay(from, overlay, to) ==
    /\ status = from
    /\ IF Collides(overlay)
          THEN status' = "failed" /\ UNCHANGED files
          ELSE status' = to /\ files' = DOMAIN overlay
    /\ UNCHANGED <<input, out, package, goMod, failures>>

CopyAddition(at, overlay) ==
    /\ status = at /\ files # {}
    /\ out' = Joined([p \in {NextFile} |-> overlay[p]], out)
    /\ files' = files \ {NextFile}
    /\ UNCHANGED <<input, package, goMod, status, failures>>

ApplyOverlay ==
    \/ ScanOverlay("overlay", Overlay(input), "adding")
    \/ CopyAddition("adding", Overlay(input))

PatchGoMod ==
    /\ status = "adding" /\ files = {}
    /\ goMod' = goMod + 1 /\ status' = "phase overlay"
    /\ UNCHANGED <<input, out, package, files, failures>>

ApplyPhaseOverlay ==
    \/ ScanOverlay("phase overlay", PhaseOverlay(input), "adding phase")
    \/ CopyAddition("adding phase", PhaseOverlay(input))

Finish ==
    /\ status = "adding phase" /\ files = {}
    /\ status' = "done"
    /\ UNCHANGED <<input, out, package, files, goMod, failures>>

\* A read, a parse or a write that fails ends the build where it is.
Fail ==
    /\ status \notin {"done", "failed"} /\ failures < MaxFailures
    /\ status' = "failed" /\ failures' = failures + 1
    /\ UNCHANGED <<input, out, package, files, goMod>>

Run ==
    /\ status \in {"done", "failed"}
    /\ status' = "start" /\ files' = {}
    /\ UNCHANGED <<input, out, package, goMod, failures>>

Next == \/ Copy \/ OpenPackage \/ Rewrite \/ ApplyOverlay \/ PatchGoMod
        \/ ApplyPhaseOverlay \/ Finish \/ Run \/ Fail

Spec == Init /\ [][Next]_vars
-----------------------------------------------------------------------------
Done == status = "done"

\* What the package at position k of the list makes of a file.
Passed(i, p, k, file) ==
    LET target == TargetRewrites(i)[k]
    IN  IF target.package = p[1] THEN Transformed(target, p, file) ELSE file

\* A file of the checkout after the first packages of the list: rewritten once
\* each time that its package comes up (dv/table does twice).
Rewritings(i, p) ==
    LET after[k \in Nat] ==
            IF k = 0 THEN Checkout(i)[p] ELSE Passed(i, p, k, after[k - 1])
    IN  after

\* What a build makes of its input.
Output(i) ==
    Joined([p \in DOMAIN Checkout(i) |-> Rewritings(i, p)[Len(TargetRewrites(i))]],
           Joined(Overlay(i), PhaseOverlay(i)))

(* A build that is done has made the same of its input as any other, with   *)
(* every file rewritten as often as the list of packages says, whatever a   *)
(* build before it, that failed at any step or was done, had left in the    *)
(* directory (main.go:74, copyDir removes it).                              *)
Reproducible == Done => out = Output(input) /\ goMod = 1

(* "the build never silently replaces pristine sources" (build.sh:134):     *)
(* from the end of the rewriting to the next run files are added, and none  *)
(* changes.                                                                 *)
OverlayOnlyAdds ==
    [][status \notin {"start", "rewrite"} =>
          \A p \in DOMAIN out : p \in DOMAIN out' /\ out'[p] = out[p]]_vars

\* A file that two of upstream and the overlays have.
Shadowed ==
    \/ DOMAIN Checkout(input) \cap (DOMAIN Overlay(input) \cup DOMAIN PhaseOverlay(input)) # {}
    \/ DOMAIN Overlay(input) \cap DOMAIN PhaseOverlay(input) # {}

(* A build fails of an input/output error or of such a file, never of what a *)
(* build before it has left in the directory.                               *)
LeftoversHarmless ==
    [][status' = "failed" /\ status # "failed" => failures' > failures \/ Shadowed]_vars
=============================================================================
