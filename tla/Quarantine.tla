----------------------------- MODULE Quarantine -----------------------------
(***************************************************************************)
(* Quarantine: the files of a site, the vault of the files taken away from *)
(* it, and the findings that say which is which.                           *)
(*                                                                         *)
(* move() renames the file into the vault, writes the sidecar, writes an   *)
(* empty stub in its place, then saves the finding; restore() deletes what *)
(* is at the path, renames the vault file back, then saves the finding.    *)
(* Nothing excludes two calls, on one finding or on two findings of one    *)
(* file, and a process may be killed between any two steps.  The host      *)
(* application calls move() with a model it loaded earlier; restore()      *)
(* loads the finding itself.                                               *)
(*                                                                         *)
(* The vault file is named after the finding, and the sidecar repeats the  *)
(* finding's path, so only the file itself is modelled.  Mode, mtime and   *)
(* the audit records are left out.  Scanner adds what creates findings.    *)
(***************************************************************************)
EXTENDS Integers

CONSTANTS
    Procs,      \* processes that call move() or restore()
    Paths,
    Findings,   \* uuids
    Bodies,     \* files an owner may put on the site, each at most once
    Targets,    \* scanner targets
    Movable,    \* those whose policy is 'move_and_stub', not 'log_only'
    Stub, Absent, None,
    MaxFaults   \* bound on killed processes and failed renames

ASSUME QuarantineAssumption ==
    /\ Movable \subseteq Targets
    /\ Stub \notin Bodies
    /\ Absent \notin Bodies \cup {Stub}
    /\ None \notin Paths
    /\ MaxFaults \in Nat

VARIABLES
    disk,       \* disk[p]: the file at path p
    vault,      \* vault[f]: the file <uuid>.bin
    rows,       \* ls_scanner_findings
    proc,       \* proc[x]: the call process x is in
    deployed,   \* history: the files put on the site so far
    quiet,      \* history: paths where no operation was broken off or met another
    marred,     \* history: findings of which the same cannot be said
    faults

quarantineVars == <<disk, vault, rows, proc, deployed, quiet, marred, faults>>

File == Bodies \cup {Stub, Absent}

Idle == [at |-> "idle"]
\* held: what the loaded model says of the two columns move() sets.
Moving == [at : {"loaded", "seized", "stubbed"}, finding : Findings, held : BOOLEAN]
\* was: what unlink removed.
Restoring == [at : {"unlink", "back", "returned"}, finding : Findings, was : File]

Init ==
    /\ disk = [p \in Paths |-> Absent]
    /\ vault = [f \in Findings |-> Absent]
    /\ rows = [f \in Findings |-> None]
    /\ proc = [x \in Procs |-> Idle]
    /\ deployed = {}
    /\ quiet = Paths
    /\ marred = {}
    /\ faults = 0

At(x, label) == proc[x].at = label
Goto(x, label) == proc' = [proc EXCEPT ![x].at = label]
Leave(x) == proc' = [proc EXCEPT ![x] = Idle]

Reported == {f \in Findings : rows[f] # None}
PathOf(x) == rows[proc[x].finding].path

\* Calls that are past their first check and have not saved yet.
UnderWay == {x \in Procs : proc[x].at \notin {"idle", "loaded"}}
OnPath(p) == {x \in UnderWay : PathOf(x) = p}
OnFinding(f) == {x \in UnderWay : proc[x].finding = f}

\* The operation on finding f at path p that is about to begin meets another.
Meet(p, f) ==
    /\ quiet' = IF OnPath(p) = {} THEN quiet ELSE quiet \ {p}
    /\ marred' = IF OnFinding(f) = {} THEN marred ELSE marred \cup {f}

-----------------------------------------------------------------------------
(* The owner of the site puts a file at a path.                            *)
Deploy(p, b) ==
    /\ b \notin deployed
    /\ deployed' = deployed \cup {b}
    /\ disk' = [disk EXCEPT ![p] = b]
    /\ quiet' = IF OnPath(p) = {} THEN quiet ELSE quiet \ {p}
    /\ UNCHANGED <<vault, rows, proc, marred, faults>>

(* move().                                                                 *)
Load(x, f) ==
    /\ At(x, "idle")
    /\ f \in Reported
    /\ proc' = [proc EXCEPT ![x] = [at |-> "loaded", finding |-> f, held |-> rows[f].held]]
    /\ UNCHANGED <<disk, vault, rows, deployed, quiet, marred, faults>>

\* is_file, stat and rename: the rename replaces whatever the vault held.
Seize(x) ==
    LET f == proc[x].finding
        p == PathOf(x)
    IN /\ At(x, "loaded")
       /\ rows[f].target \in Movable
       /\ disk[p] # Absent
       /\ vault' = [vault EXCEPT ![f] = disk[p]]
       /\ disk' = [disk EXCEPT ![p] = Absent]
       /\ Goto(x, "seized")
       /\ quiet' = IF OnPath(p) = {} THEN quiet ELSE quiet \ {p}
       /\ marred' = IF OnFinding(f) = {} /\ (proc[x].held => rows[f].held)
                    THEN marred ELSE marred \cup {f}
       /\ UNCHANGED <<rows, deployed, faults>>

\* log_only, no file there, or a rename that fails.
Refuse(x) ==
    /\ At(x, "loaded")
    /\ Leave(x)
    /\ UNCHANGED <<disk, vault, rows, deployed, quiet, marred, faults>>

WriteStub(x) ==
    /\ At(x, "seized")
    /\ disk' = [disk EXCEPT ![PathOf(x)] = Stub]
    /\ Goto(x, "stubbed")
    /\ UNCHANGED <<vault, rows, deployed, quiet, marred, faults>>

\* save() writes the attributes that differ from the loaded model.
SaveMove(x) ==
    LET f == proc[x].finding
    IN /\ At(x, "stubbed")
       /\ rows' = [rows EXCEPT ![f].held = @ \/ ~proc[x].held]
       /\ Leave(x)
       /\ UNCHANGED <<disk, vault, deployed, quiet, marred, faults>>

(* restore().                                                              *)
StartRestore(x, f) ==
    /\ At(x, "idle")
    /\ f \in Reported
    /\ rows[f].held
    /\ vault[f] # Absent
    /\ proc' = [proc EXCEPT ![x] = [at |-> "unlink", finding |-> f, was |-> Absent]]
    /\ Meet(rows[f].path, f)
    /\ UNCHANGED <<disk, vault, rows, deployed, faults>>

Unlink(x) ==
    /\ At(x, "unlink")
    /\ proc' = [proc EXCEPT ![x].at = "back", ![x].was = disk[PathOf(x)]]
    /\ disk' = [disk EXCEPT ![PathOf(x)] = Absent]
    /\ UNCHANGED <<vault, rows, deployed, quiet, marred, faults>>

\* Mutant: the vault file is copied back and kept.
ReturnCopy(x) ==
    /\ At(x, "back")
    /\ disk' = [disk EXCEPT ![PathOf(x)] = vault[proc[x].finding]]
    /\ Goto(x, "returned")
    /\ UNCHANGED <<vault, rows, deployed, quiet, marred, faults>>

Return(x) ==
    LET f == proc[x].finding
    IN /\ At(x, "back")
       /\ vault[f] # Absent
       /\ disk' = [disk EXCEPT ![PathOf(x)] = vault[f]]
       /\ vault' = [vault EXCEPT ![f] = Absent]
       /\ Goto(x, "returned")
       /\ UNCHANGED <<rows, deployed, quiet, marred, faults>>

\* The vault file is gone: restore() throws.
Vanished(x) ==
    /\ At(x, "back")
    /\ vault[proc[x].finding] = Absent
    /\ Leave(x)
    /\ UNCHANGED <<disk, vault, rows, deployed, quiet, marred, faults>>

\* Mutant: quarantine_path is left as it was.
SaveRestoreNothing(x) ==
    /\ At(x, "returned")
    /\ Leave(x)
    /\ UNCHANGED <<disk, vault, rows, deployed, quiet, marred, faults>>

SaveRestore(x) ==
    /\ At(x, "returned")
    /\ rows' = [rows EXCEPT ![proc[x].finding].held = FALSE]
    /\ Leave(x)
    /\ UNCHANGED <<disk, vault, deployed, quiet, marred, faults>>

\* The process is killed, or (at "back") its rename fails and it throws.
Kill(x) ==
    /\ faults < MaxFaults
    /\ faults' = faults + 1
    /\ ~At(x, "idle")
    /\ Leave(x)
    /\ quiet' = IF proc[x].at \in {"seized", "back"} THEN quiet \ {PathOf(x)} ELSE quiet
    /\ marred' = IF proc[x].at \in {"seized", "stubbed", "returned"}
                 THEN marred \cup {proc[x].finding} ELSE marred
    /\ UNCHANGED <<disk, vault, rows, deployed>>

Move(x) == (\E f \in Findings : Load(x, f)) \/ Seize(x) \/ Refuse(x) \/ WriteStub(x) \/ SaveMove(x)

Restore(x) ==
    (\E f \in Findings : StartRestore(x, f)) \/ Unlink(x) \/ Return(x) \/ Vanished(x) \/ SaveRestore(x)

\* Everything but the creation of findings.
VaultNext ==
    \/ \E p \in Paths, b \in Bodies : Deploy(p, b)
    \/ \E x \in Procs : Move(x) \/ Restore(x) \/ Kill(x)

=============================================================================
