----------------------------- MODULE MCScanner -----------------------------
(* Files, signatures and targets for checking Scanner with TLC.            *)
EXTENDS Scanner, TLC

CONSTANTS b1, b2, s1, s2, p1, uploads, app, other

\* One file with two findings, one with one; an advisory about the same path.
MCHits == (b1 :> {s1, s2}) @@ (b2 :> {s1})
MCAdvisories == {<<p1, s2>>}

\* A log_only target that covers the file, a movable one that does not, a name with paths
\* of its own that is no target; and a run that names nothing.
MCCovers == (uploads :> {}) @@ (app :> {p1}) @@ (other :> {p1})
MCTargetLists == {<<>>, <<app>>, <<other, uploads, app>>}
Symmetry == Permutations(Procs) \cup Permutations(Findings)
=============================================================================
