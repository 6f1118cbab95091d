----------------------------- MODULE MCIntegrity -----------------------------
(* Model values and files for checking Integrity with TLC.                 *)
EXTENDS Integrity, TLC

CONSTANTS b1, b2

F(link, body, size, mtime, readable) ==
    [link |-> link, body |-> body, size |-> size, mtime |-> mtime, readable |-> readable]

\* A file, and the same path rewritten to the same size later.
MCFiles == {F(FALSE, b1, 1, 1, TRUE), F(FALSE, b2, 1, 2, TRUE)}

MCSizes == {1, 2}
MCMtimes == {1, 2}
Symmetry == Permutations(Procs)
=============================================================================
