------------------------------ MODULE Scanner ------------------------------
(***************************************************************************)
(* Scanner on top of Quarantine: the runs, and the findings they create.   *)
(*                                                                         *)
(* A run is executed by one process, which gives each backend it was asked *)
(* for and has its turn: for a per-file backend it lists the files of its  *)
(* targets and reads them one after the other, a run-level one is asked    *)
(* once.  Then it stores one finding per detection and marks the run       *)
(* completed.  shield:scan-cancel writes its own status over whatever the  *)
(* run has; the scan is not told.  Files are deployed, moved and restored  *)
(* meanwhile, by Quarantine's actions.                                     *)
(*                                                                         *)
(* A detection is a path and a signature (deduplicateFindings keeps one    *)
(* per path, signature and backend; one backend of each kind is modelled). *)
(* What a run-level backend reports, composer.lock and an advisory, need   *)
(* not be a file of any target.  The service provider registers a per-file *)
(* backend only: there Advisories is empty.                                *)
(***************************************************************************)
EXTENDS Quarantine, Sequences

CONSTANTS
    Runs,
    Signatures,
    Hits,           \* Hits[b]: the signatures file b matches
    Advisories,     \* the detections a run-level backend may report
    Names,          \* what may be given as a target, a row of ls_scanner_targets or not
    Covers,         \* Covers[n]: the paths name n stands for
    TargetLists,    \* what a run may be asked for
    UnknownFiles,   \* the target of the findings of a run that names none
    PerFile, RunLevel

ASSUME ScannerAssumption ==
    /\ Hits \in [Bodies -> SUBSET Signatures]
    /\ Advisories \subseteq Paths \X Signatures
    /\ Covers \in [Names -> SUBSET Paths]
    /\ TargetLists \subseteq Seq(Names)
    /\ UnknownFiles \in Targets
    /\ {PerFile, RunLevel} \cap Paths = {} /\ PerFile # RunLevel
    /\ None \notin Signatures

VARIABLES
    runs,       \* ls_scanner_runs
    scan,       \* scan[r]: what the process executing run r has, or None
    seen        \* history: seen[r]: everything run r has detected

scannerVars == <<runs, scan, seen>>
vars == <<disk, vault, rows, proc, deployed, quiet, marred, faults, runs, scan, seen>>

Statuses == {"running", "completed", "failed", "cancelled"}
Detections == Paths \X Signatures
Finding == [run : Runs, path : Paths, signature : Signatures, target : Targets, held : BOOLEAN]
Run == [status : Statuses, targets : TargetLists]
Turns == {PerFile, RunLevel}
\* todo: the backends whose turn is still to come, and the files the present one has to read.
Scan == [todo : SUBSET (Turns \cup Paths), found : SUBSET Detections]

ASSUME NullsAssumption == None \notin Finding /\ None \notin Run /\ None \notin Scan

TypeOK ==
    /\ disk \in [Paths -> File]
    /\ vault \in [Findings -> File]
    /\ rows \in [Findings -> Finding \cup {None}]
    /\ proc \in [Procs -> {Idle} \cup Moving \cup Restoring]
    /\ \A x \in Procs : proc[x] # Idle => proc[x].finding \in Reported
    /\ deployed \in SUBSET Bodies /\ quiet \in SUBSET Paths /\ marred \in SUBSET Findings
    /\ faults \in 0..MaxFaults
    /\ runs \in [Runs -> Run \cup {None}]
    /\ scan \in [Runs -> Scan \cup {None}]
    /\ seen \in [Runs -> SUBSET Detections]

ScannerInit ==
    /\ Init
    /\ runs = [r \in Runs |-> None]
    /\ scan = [r \in Runs |-> None]
    /\ seen = [r \in Runs |-> {}]

HitsOf(file) == IF file \in Bodies THEN Hits[file] ELSE {}

\* resolveFirstMatchingTargetId: whichever target the file was found under, if under any.
Resolves(targets, t) ==
    \/ \E i \in DOMAIN targets : targets[i] = t /\ \A j \in 1..(i - 1) : targets[j] \notin Targets
    \/ t = UnknownFiles /\ \A i \in DOMAIN targets : targets[i] \notin Targets

SetStatus(r, status) == runs' = [runs EXCEPT ![r].status = status]
EndScan(r) == scan' = [scan EXCEPT ![r] = None]

-----------------------------------------------------------------------------
\* turns: the backends asked for that are registered and available.
Start(r, targets, turns) ==
    /\ runs[r] = None
    /\ runs' = [runs EXCEPT ![r] = [status |-> "running", targets |-> targets]]
    /\ scan' = [scan EXCEPT ![r] = [todo |-> turns, found |-> {}]]
    /\ UNCHANGED <<quarantineVars, seen>>

FilesOf(targets) ==
    {p \in UNION {Covers[targets[i]] : i \in DOMAIN targets} : disk[p] # Absent}

ListFiles(r) ==
    /\ scan[r] # None
    /\ PerFile \in scan[r].todo
    /\ scan' = [scan EXCEPT ![r].todo = (@ \ {PerFile}) \cup FilesOf(runs[r].targets)]
    /\ UNCHANGED <<quarantineVars, runs, seen>>

Detect(r, item, hits) ==
    /\ scan[r] # None
    /\ item \in scan[r].todo
    /\ scan' = [scan EXCEPT ![r].todo = @ \ {item}, ![r].found = @ \cup hits]
    /\ seen' = [seen EXCEPT ![r] = @ \cup hits]
    /\ UNCHANGED <<quarantineVars, runs>>

ScanFile(r, p) == Detect(r, p, {p} \X HitsOf(disk[p]))

\* The backend before it is through with its files.
ScanRun(r, advisories) ==
    /\ scan[r] # None
    /\ scan[r].todo \cap Paths = {}
    /\ Detect(r, RunLevel, advisories)

StoreFinding(r, f) ==
    /\ scan[r] # None
    /\ scan[r].todo = {}
    /\ f \notin Reported
    /\ \E d \in scan[r].found, t \in Targets :
        /\ Resolves(runs[r].targets, t)
        /\ rows' = [rows EXCEPT ![f] = [run |-> r, path |-> d[1], signature |-> d[2],
                                        target |-> t, held |-> FALSE]]
        /\ scan' = [scan EXCEPT ![r].found = @ \ {d}]
    /\ UNCHANGED <<disk, vault, proc, deployed, quiet, marred, faults, runs, seen>>

\* Mutant: the run is completed as soon as the files are read.
CompleteEarly(r) ==
    /\ scan[r] # None
    /\ scan[r].todo = {}
    /\ SetStatus(r, "completed")
    /\ EndScan(r)
    /\ UNCHANGED <<quarantineVars, seen>>

Complete(r) ==
    /\ scan[r] # None
    /\ scan[r].todo = {} /\ scan[r].found = {}
    /\ SetStatus(r, "completed")
    /\ EndScan(r)
    /\ UNCHANGED <<quarantineVars, seen>>

\* A backend or the database throws.
Fail(r) ==
    /\ scan[r] # None
    /\ SetStatus(r, "failed")
    /\ EndScan(r)
    /\ UNCHANGED <<quarantineVars, seen>>

\* The process is killed; its run stays as it is.
Die(r) ==
    /\ scan[r] # None
    /\ faults < MaxFaults
    /\ faults' = faults + 1
    /\ EndScan(r)
    /\ UNCHANGED <<disk, vault, rows, proc, deployed, quiet, marred, runs, seen>>

\* Mutant: a status no seeder knows.
CancelUnknown(r) ==
    /\ runs[r] # None
    /\ SetStatus(r, "aborted")
    /\ UNCHANGED <<quarantineVars, scan, seen>>

Cancel(r) ==
    /\ runs[r] # None
    /\ SetStatus(r, "cancelled")
    /\ UNCHANGED <<quarantineVars, scan, seen>>

ScanNext ==
    \E r \in Runs :
        \/ \E targets \in TargetLists, turns \in SUBSET Turns : Start(r, targets, turns)
        \/ ListFiles(r)
        \/ \E p \in Paths : ScanFile(r, p)
        \/ \E advisories \in SUBSET Advisories : ScanRun(r, advisories)
        \/ \E f \in Findings : StoreFinding(r, f)
        \/ Complete(r) \/ Fail(r) \/ Die(r) \/ Cancel(r)

Next == (VaultNext /\ UNCHANGED scannerVars) \/ ScanNext

Spec == ScannerInit /\ [][Next]_vars

-----------------------------------------------------------------------------
(* Quarantine!move, restore: on a quiet path both happen in one step, the  *)
(* rename into the vault and the rename back; elsewhere a file may be lost *)
(* from the site, never from the vault.                                    *)
PutAway(p) == \E x \in Procs : At(x, "seized") /\ PathOf(x) = p

PutAside(p) == {x \in Procs : At(x, "back") /\ PathOf(x) = p}

SiteView ==
    [p \in Paths |->
        IF p \notin quiet THEN disk[p]
        ELSE IF PutAway(p) THEN Stub
        ELSE IF PutAside(p) # {} THEN proc[CHOOSE x \in PutAside(p) : TRUE].was
        ELSE disk[p]]

Promise == INSTANCE Custody WITH
    site <- SiteView,
    home <- [f \in Findings |-> IF rows[f] = None THEN None ELSE rows[f].path],
    NoHome <- None

KeepsCustody == Promise!Spec

\* What restore() relies on, and shield:quarantine-list shows: a finding is
\* marked as held exactly if the vault has its file - while no call is under
\* way on it, none was broken off or met another, and move() was not given a
\* model from before a restore.
RowsMatchVault ==
    \A f \in Reported \ marred : OnFinding(f) = {} => (rows[f].held <=> vault[f] # Absent)

\* A completed run has a finding for every detection, whatever was cancelled.
CompletedIsWhole ==
    \A r \in Runs : runs[r] # None /\ runs[r].status = "completed" =>
        \A d \in seen[r] :
            \E f \in Reported : rows[f].run = r /\ <<rows[f].path, rows[f].signature>> = d
=============================================================================
