----------------------------- MODULE MCAclCache -----------------------------
(* Model values for checking AclCache with TLC.                            *)
EXTENDS AclCache, TLC

Symmetry == Permutations(Procs)
=============================================================================
