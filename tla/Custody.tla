------------------------------ MODULE Custody ------------------------------
(***************************************************************************)
(* What the quarantine promises its users: a file that is seized is kept,  *)
(* whole, under the finding it was seized for, until it goes back to the   *)
(* path it came from; an empty stub stands there meanwhile.  Each of these *)
(* takes one step.                                                         *)
(*                                                                         *)
(* Three things are not promised.  What stands at the path when a file     *)
(* goes back is discarded: the original itself, once two findings of one   *)
(* file have been moved and are restored one after the other.  A finding   *)
(* seized again loses what it held before.  And a path that is no longer   *)
(* quiet - an operation on it was broken off, or met another one - may     *)
(* lose the file it has.  No file in custody is ever lost another way,     *)
(* and none appears that its owner did not put there.                      *)
(***************************************************************************)
CONSTANTS
    Paths,
    Findings,
    Bodies,     \* files: each has its own identity
    Stub,       \* the empty file left in place of a seized one
    Absent,     \* no file
    NoHome

VARIABLES
    site,       \* site[p]: the file at path p
    vault,      \* vault[f]: the file in custody for finding f
    home,       \* home[f]: the path finding f is about
    deployed,   \* the files their owner has put on the site so far
    quiet       \* the paths on which no operation was ever disturbed

vars == <<site, vault, home, deployed, quiet>>

Init ==
    /\ site = [p \in Paths |-> Absent]
    /\ vault = [f \in Findings |-> Absent]
    /\ home = [f \in Findings |-> NoHome]
    /\ deployed = {}
    /\ quiet = Paths

\* A path may be disturbed by whatever happens to it.
MayDisturb(p) == quiet' \in {quiet, quiet \ {p}}

Deploy(p, b) ==
    /\ b \notin deployed
    /\ deployed' = deployed \cup {b}
    /\ site' = [site EXCEPT ![p] = b]
    /\ MayDisturb(p)
    /\ UNCHANGED <<vault, home>>

Report(f, p) ==
    /\ home[f] = NoHome
    /\ home' = [home EXCEPT ![f] = p]
    /\ UNCHANGED <<site, vault, deployed, quiet>>

Seize(f, p) ==
    /\ home[f] = p
    /\ site[p] # Absent
    /\ vault' = [vault EXCEPT ![f] = site[p]]
    /\ MayDisturb(p)
    /\ site' = [site EXCEPT ![p] = IF p \in quiet' THEN Stub ELSE Absent]
    /\ UNCHANGED <<home, deployed>>

Release(f, p) ==
    /\ home[f] = p
    /\ vault[f] # Absent
    /\ site' = [site EXCEPT ![p] = vault[f]]
    /\ vault' = [vault EXCEPT ![f] = Absent]
    /\ UNCHANGED <<home, deployed, quiet>>

Disturb(p) ==
    /\ quiet' = quiet \ {p}
    /\ \E file \in {site[p], Absent} : site' = [site EXCEPT ![p] = file]
    /\ UNCHANGED <<vault, home, deployed>>

Spoil(p) ==
    /\ p \notin quiet
    /\ \E file \in {Stub, Absent} : site' = [site EXCEPT ![p] = file]
    /\ UNCHANGED <<vault, home, deployed, quiet>>

Next ==
    \/ \E p \in Paths, b \in Bodies : Deploy(p, b)
    \/ \E f \in Findings, p \in Paths : Report(f, p) \/ Seize(f, p) \/ Release(f, p)
    \/ \E p \in Paths : Disturb(p) \/ Spoil(p)

Spec == Init /\ [][Next]_vars
=============================================================================
