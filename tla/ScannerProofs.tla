--------------------------- MODULE ScannerProofs ---------------------------
(***************************************************************************)
(* Proofs about the quarantine and the scanner, for any processes, paths,  *)
(* files, findings, targets and runs.                                      *)
(*                                                                         *)
(* TypeOK needs that a scan at work has a run, which is not completed      *)
(* (ScansHaveRuns): the two together are Types, and every other invariant  *)
(* below is inductive relative to it.                                      *)
(*                                                                         *)
(* - KeepsCustody, the refinement: every step of the two maps to a step of *)
(*   Custody or to none.  The view of a quiet path depends on which calls  *)
(*   are under way on it, so the invariant says that there is at most one, *)
(*   and what it has done to the file so far (QuietIsQuiet).               *)
(* - RowsMatchVault: for an unmarred finding the invariant relates the     *)
(*   vault, the row and the one call that may be under way, label by label *)
(*   (Sound); what is not reported has nothing in the vault.               *)
(* - CompletedIsWhole: a detection is with the process or in the table as  *)
(*   long as the process lives (NothingSlips).                             *)
(***************************************************************************)
EXTENDS Scanner, TLAPS

-----------------------------------------------------------------------------
(* Types.                                                                  *)

\* A scan at work has a run, which is not completed.
ScansHaveRuns ==
    \A r \in Runs : scan[r] # None => runs[r] # None /\ runs[r].status # "completed"

Types == TypeOK /\ ScansHaveRuns

LEMMA TypesInit == ScannerInit => Types
  BY QuarantineAssumption DEF ScannerInit, Init, Types, TypeOK, ScansHaveRuns, Idle, File

\* What the type invariant says of a call, by its label.
LEMMA CallTypes ==
    ASSUME TypeOK, NEW x \in Procs
    PROVE  /\ At(x, "idle") <=> proc[x] = Idle
           /\ ~At(x, "idle") => /\ proc[x].finding \in Reported
                                /\ proc[x].finding \in Findings
                                /\ rows[proc[x].finding] \in Finding
                                /\ PathOf(x) \in Paths
           /\ proc[x].at \in {"loaded", "seized", "stubbed"} => proc[x] \in Moving
           /\ proc[x].at \in {"unlink", "back", "returned"} => proc[x] \in Restoring
  <1>1. proc[x] \in {Idle} \cup Moving \cup Restoring
    BY DEF TypeOK
  <1>2. At(x, "idle") <=> proc[x] = Idle
    BY <1>1 DEF At, Idle, Moving, Restoring
  <1>3. ASSUME ~At(x, "idle")
        PROVE  proc[x].finding \in Reported
    BY <1>2, <1>3 DEF TypeOK
  <1>4. \A f \in Reported : f \in Findings /\ rows[f] \in Finding /\ rows[f].path \in Paths
    BY DEF TypeOK, Reported, Finding
  <1> QED
    BY <1>1, <1>2, <1>3, <1>4 DEF At, Idle, Moving, Restoring, PathOf

\* A step of the vault preserves the types.
LEMMA TypesVault ==
    ASSUME Types, VaultNext, UNCHANGED scannerVars
    PROVE  Types'
  <1> USE DEF Types, TypeOK, ScansHaveRuns, scannerVars
  <1>1. ASSUME NEW p \in Paths, NEW b \in Bodies, Deploy(p, b)
        PROVE  Types'
    BY <1>1 DEF Deploy, File, Reported
  <1> DEFINE Rest == /\ disk' \in [Paths -> File] /\ vault' \in [Findings -> File]
                     /\ rows' \in [Findings -> Finding \cup {None}]
                     /\ \A y \in Procs : proc[y] # Idle => proc[y].finding \in Reported'
                     /\ deployed' = deployed /\ quiet' \in SUBSET Paths
                     /\ marred' \in SUBSET Findings /\ faults' \in 0..MaxFaults
  <1>2. ASSUME NEW x \in Procs, Rest,
               NEW r \in {Idle} \cup Moving \cup Restoring, proc' = [proc EXCEPT ![x] = r],
               r # Idle => r.finding \in Reported'
        PROVE  Types'
    <2>1. proc' \in [Procs -> {Idle} \cup Moving \cup Restoring]
      BY <1>2
    <2>2. \A y \in Procs : proc'[y] # Idle => proc'[y].finding \in Reported'
      BY <1>2
    <2> QED
      BY <1>2, <2>1, <2>2
  <1>3. ASSUME NEW x \in Procs, NEW f \in Findings, Load(x, f)
        PROVE  Types'
    <2> DEFINE r == [at |-> "loaded", finding |-> f, held |-> rows[f].held]
    <2>1. f \in Reported /\ rows[f] \in Finding /\ rows' = rows
      BY <1>3 DEF Load, Reported
    <2>2. r \in Moving
      BY <2>1 DEF Moving, Finding
    <2>3. Rest
      BY <1>3 DEF Load, Reported
    <2> QED
      BY <1>2, <1>3, <2>1, <2>2, <2>3 DEF Load, Reported
  <1>4. ASSUME NEW x \in Procs, Seize(x)
        PROVE  Types'
    <2> DEFINE r == [proc[x] EXCEPT !.at = "seized"]
    <2>1. proc[x] \in Moving /\ proc[x].finding \in Reported /\ PathOf(x) \in Paths
      BY <1>4, CallTypes DEF Seize, At
    <2>2. r \in Moving /\ r.finding = proc[x].finding /\ disk[PathOf(x)] \in File
      BY <2>1 DEF Moving
    <2>3. Rest
      BY <1>4, <2>1, <2>2 DEF Seize, Reported, File
    <2> QED
      BY <1>2, <1>4, <2>1, <2>2, <2>3 DEF Seize, Goto, Reported
  <1>5. ASSUME NEW x \in Procs, Refuse(x)
        PROVE  Types'
    <2>1. Rest
      BY <1>5 DEF Refuse, Reported
    <2> QED
      BY <1>2, <1>5, <2>1 DEF Refuse, Leave
  <1>6. ASSUME NEW x \in Procs, WriteStub(x)
        PROVE  Types'
    <2> DEFINE r == [proc[x] EXCEPT !.at = "stubbed"]
    <2>1. proc[x] \in Moving /\ proc[x].finding \in Reported
      BY <1>6, CallTypes DEF WriteStub, At
    <2>2. r \in Moving /\ r.finding = proc[x].finding
      BY <2>1 DEF Moving
    <2>3. Rest
      BY <1>6 DEF WriteStub, Reported, File
    <2> QED
      BY <1>2, <1>6, <2>1, <2>2, <2>3 DEF WriteStub, Goto, Reported
  <1>7. ASSUME NEW x \in Procs, SaveMove(x)
        PROVE  Types'
    <2> DEFINE f == proc[x].finding
               v == rows[f].held \/ ~proc[x].held
    <2>1. proc[x] \in Moving /\ f \in Reported /\ rows[f] \in Finding /\ f \in Findings
      BY <1>7, CallTypes DEF SaveMove, At
    <2>2. v \in BOOLEAN
      OBVIOUS
    <2>3. rows' = [rows EXCEPT ![f] = [@ EXCEPT !.held = v]]
      BY <1>7 DEF SaveMove
    <2>4. [rows[f] EXCEPT !.held = v] \in Finding
      BY <2>1, <2>2 DEF Finding
    <2>5. Rest
      <3> HIDE DEF v
      <3> QED
        BY <1>7, <2>1, <2>3, <2>4, NullsAssumption DEF SaveMove, Reported
    <2> QED
      BY <1>2, <1>7, <2>5 DEF SaveMove, Leave
  <1>8. ASSUME NEW x \in Procs, NEW f \in Findings, StartRestore(x, f)
        PROVE  Types'
    <2> DEFINE r == [at |-> "unlink", finding |-> f, was |-> Absent]
    <2>1. f \in Reported /\ r \in Restoring /\ Reported' = Reported
      BY <1>8 DEF StartRestore, Restoring, File, Reported
    <2>2. Rest
      BY <1>8 DEF StartRestore, Meet, Reported
    <2> QED
      BY <1>2, <1>8, <2>1, <2>2 DEF StartRestore
  <1>9. ASSUME NEW x \in Procs, Unlink(x)
        PROVE  Types'
    <2> DEFINE r == [proc[x] EXCEPT !.at = "back", !.was = disk[PathOf(x)]]
    <2>1. proc[x] \in Restoring /\ proc[x].finding \in Reported /\ PathOf(x) \in Paths
      BY <1>9, CallTypes DEF Unlink, At
    <2>2. r \in Restoring /\ r.finding = proc[x].finding
      BY <2>1 DEF Restoring
    <2>3. Rest
      BY <1>9 DEF Unlink, Reported, File
    <2>4. proc' = [proc EXCEPT ![x] = r]
      BY <1>9 DEF Unlink
    <2> QED
      BY <1>2, <1>9, <2>1, <2>2, <2>3, <2>4 DEF Unlink, Reported
  <1>10. ASSUME NEW x \in Procs, Return(x)
         PROVE  Types'
    <2> DEFINE r == [proc[x] EXCEPT !.at = "returned"]
    <2>1. proc[x] \in Restoring /\ proc[x].finding \in Reported /\ PathOf(x) \in Paths
          /\ proc[x].finding \in Findings
      BY <1>10, CallTypes DEF Return, At
    <2>2. r \in Restoring /\ r.finding = proc[x].finding
      BY <2>1 DEF Restoring
    <2>3. Rest
      BY <1>10, <2>1 DEF Return, Reported, File
    <2> QED
      BY <1>2, <1>10, <2>1, <2>2, <2>3 DEF Return, Goto, Reported
  <1>11. ASSUME NEW x \in Procs, Vanished(x)
         PROVE  Types'
    <2>1. Rest
      BY <1>11 DEF Vanished, Reported
    <2> QED
      BY <1>2, <1>11, <2>1 DEF Vanished, Leave
  <1>12. ASSUME NEW x \in Procs, SaveRestore(x)
         PROVE  Types'
    <2> DEFINE f == proc[x].finding
    <2>1. f \in Reported /\ rows[f] \in Finding /\ f \in Findings
      BY <1>12, CallTypes DEF SaveRestore, At
    <2>2. [rows[f] EXCEPT !.held = FALSE] \in Finding
      BY <2>1 DEF Finding
    <2>3. Rest
      BY <1>12, <2>1, <2>2, NullsAssumption DEF SaveRestore, Reported
    <2> QED
      BY <1>2, <1>12, <2>3 DEF SaveRestore, Leave
  <1>13. ASSUME NEW x \in Procs, Kill(x)
         PROVE  Types'
    <2>1. proc[x].finding \in Findings
      BY <1>13, CallTypes DEF Kill
    <2>2. Rest
      BY <1>13, <2>1, QuarantineAssumption DEF Kill, Reported
    <2> QED
      BY <1>2, <1>13, <2>2 DEF Kill, Leave
  <1> QED
    BY <1>1, <1>3, <1>4, <1>5, <1>6, <1>7, <1>8, <1>9, <1>10, <1>11, <1>12, <1>13
    DEF VaultNext, Move, Restore

\* Run r stores finding f, row new, for detection d.
Stores(r, f, d, new) ==
    /\ new.run = r /\ new.path = d[1] /\ new.signature = d[2] /\ new.held = FALSE
    /\ d \in scan[r].found
    /\ rows' = [rows EXCEPT ![f] = new]
    /\ scan' = [scan EXCEPT ![r].found = @ \ {d}]

LEMMA NewFinding ==
    ASSUME Types, NEW r \in Runs, NEW f \in Findings, StoreFinding(r, f)
    PROVE  \E d \in Detections, new \in Finding : Stores(r, f, d, new)
  <1>1. scan[r] \in Scan /\ runs[r] \in Run
    BY DEF StoreFinding, Types, TypeOK, ScansHaveRuns
  <1>2. PICK d \in scan[r].found, t \in Targets :
          /\ rows' = [rows EXCEPT ![f] = [run |-> r, path |-> d[1], signature |-> d[2],
                                          target |-> t, held |-> FALSE]]
          /\ scan' = [scan EXCEPT ![r].found = @ \ {d}]
    BY DEF StoreFinding
  <1>3. d \in Detections /\ d[1] \in Paths /\ d[2] \in Signatures
    BY <1>1 DEF Scan, Detections
  <1> DEFINE new == [run |-> r, path |-> d[1], signature |-> d[2], target |-> t, held |-> FALSE]
  <1>4. new \in Finding
    BY <1>3 DEF Finding
  <1>5. new.run = r /\ new.path = d[1] /\ new.signature = d[2] /\ new.held = FALSE
    OBVIOUS
  <1>6. rows' = [rows EXCEPT ![f] = new] /\ scan' = [scan EXCEPT ![r].found = @ \ {d}]
    BY <1>2
  <1> HIDE DEF new
  <1> QED
    BY <1>2, <1>3, <1>4, <1>5, <1>6 DEF Stores

\* What a backend finds, whether in a file or in the run, are detections.
LEMMA Detects ==
    ASSUME NEW r \in Runs,
           \/ \E p \in Paths : ScanFile(r, p)
           \/ \E advisories \in SUBSET Advisories : ScanRun(r, advisories)
    PROVE  \E item \in Turns \cup Paths, hits \in SUBSET Detections : Detect(r, item, hits)
  <1>1. ASSUME NEW p \in Paths, ScanFile(r, p)
        PROVE  {p} \X HitsOf(disk[p]) \in SUBSET Detections
    BY ScannerAssumption DEF HitsOf, Detections
  <1>2. SUBSET Advisories \subseteq SUBSET Detections
    BY ScannerAssumption DEF Detections
  <1> QED
    BY <1>1, <1>2 DEF ScanFile, ScanRun, Turns

\* A step of a scan preserves them.
LEMMA TypesScan ==
    ASSUME Types, ScanNext
    PROVE  Types'
  <1> USE DEF Types, TypeOK, ScansHaveRuns
  <1>1. ASSUME NEW r \in Runs, NEW targets \in TargetLists, NEW turns \in SUBSET Turns,
               Start(r, targets, turns)
        PROVE  Types'
    <2>1. [status |-> "running", targets |-> targets] \in Run
      BY DEF Run, Statuses
    <2>2. [todo |-> turns, found |-> {}] \in Scan
      BY DEF Scan
    <2> QED
      BY <1>1, <2>1, <2>2, NullsAssumption DEF Start, quarantineVars, Reported
  <1>7. ASSUME NEW r \in Runs, ListFiles(r)
        PROVE  Types'
    <2> DEFINE files == FilesOf(runs[r].targets)
               next == [scan[r] EXCEPT !.todo = (@ \ {PerFile}) \cup files]
    <2>1. scan[r] \in Scan /\ runs[r] \in Run
      BY <1>7 DEF ListFiles
    <2>2. files \in SUBSET Paths
      BY <2>1, ScannerAssumption DEF FilesOf, Run
    <2> HIDE DEF files
    <2>3. next \in Scan
      BY <2>1, <2>2 DEF Scan
    <2>4. scan' = [scan EXCEPT ![r] = next] /\ UNCHANGED <<quarantineVars, runs, seen>>
      BY <1>7 DEF ListFiles, files
    <2> HIDE DEF next
    <2>5. /\ scan' \in [Runs -> Scan \cup {None}]
          /\ \A s \in Runs : scan'[s] # None => scan[s] # None
      BY <1>7, <2>3, <2>4 DEF ListFiles
    <2> QED
      BY <2>4, <2>5 DEF quarantineVars, Reported
  <1>2. ASSUME NEW r \in Runs, NEW item, NEW hits \in SUBSET Detections, Detect(r, item, hits)
        PROVE  Types'
    <2> DEFINE next == [scan[r] EXCEPT !.todo = @ \ {item}, !.found = @ \cup hits]
    <2>1. scan[r] \in Scan
      BY <1>2 DEF Detect
    <2>2. next \in Scan
      BY <2>1 DEF Scan
    <2>3. /\ scan' = [scan EXCEPT ![r] = next]
          /\ seen' = [seen EXCEPT ![r] = @ \cup hits]
          /\ UNCHANGED <<quarantineVars, runs>>
      BY <1>2 DEF Detect
    <2> HIDE DEF next
    <2>4. scan' \in [Runs -> Scan \cup {None}] /\ seen' \in [Runs -> SUBSET Detections]
      BY <2>2, <2>3
    <2>5. \A s \in Runs : scan'[s] # None => scan[s] # None
      BY <1>2, <2>3 DEF Detect
    <2> QED
      BY <2>3, <2>4, <2>5 DEF quarantineVars, Reported
  <1>3. ASSUME NEW r \in Runs, NEW f \in Findings, StoreFinding(r, f)
        PROVE  Types'
    <2>1. scan[r] \in Scan
      BY <1>3 DEF StoreFinding
    <2>3. PICK d \in Detections, new \in Finding : Stores(r, f, d, new)
      BY <1>3, NewFinding
    <2>2. rows' = [rows EXCEPT ![f] = new] /\ scan' = [scan EXCEPT ![r].found = @ \ {d}]
      BY <2>3 DEF Stores
    <2>6. [scan[r] EXCEPT !.found = @ \ {d}] \in Scan
      BY <2>1 DEF Scan
    <2>7. /\ rows' \in [Findings -> Finding \cup {None}]
          /\ Reported \subseteq Reported'
      BY <2>2, NullsAssumption DEF Reported
    <2>8. /\ scan' \in [Runs -> Scan \cup {None}]
          /\ \A s \in Runs : scan'[s] # None => scan[s] # None
      BY <1>3, <2>2, <2>6 DEF StoreFinding
    <2> QED
      BY <1>3, <2>7, <2>8 DEF StoreFinding
  <1>4. ASSUME NEW r \in Runs, NEW status \in Statuses, runs[r] # None, SetStatus(r, status),
               scan' = scan \/ EndScan(r), status # "completed" \/ EndScan(r),
               UNCHANGED <<disk, vault, rows, proc, deployed, quiet, marred, seen>>,
               faults' \in 0..MaxFaults
        PROVE  Types'
    <2>1. [runs[r] EXCEPT !.status = status] \in Run
      BY <1>4 DEF Run
    <2>2. /\ runs' \in [Runs -> Run \cup {None}]
          /\ runs'[r] # None /\ runs'[r].status = status
          /\ \A s \in Runs \ {r} : runs'[s] = runs[s]
      BY <1>4, <2>1, NullsAssumption DEF SetStatus, Run
    <2>3. /\ scan' \in [Runs -> Scan \cup {None}]
          /\ \A s \in Runs : scan'[s] # None => scan[s] # None
      BY <1>4 DEF EndScan
    <2>4. status = "completed" => scan'[r] = None
      BY <1>4 DEF EndScan
    <2> QED
      BY <1>4, <2>2, <2>3, <2>4 DEF Reported
  <1>5. ASSUME NEW r \in Runs, Complete(r) \/ Fail(r) \/ Cancel(r)
        PROVE  Types'
    BY <1>4, <1>5 DEF Complete, Fail, Cancel, quarantineVars, Statuses
  <1>6. ASSUME NEW r \in Runs, Die(r)
        PROVE  Types'
    BY <1>6, QuarantineAssumption DEF Die, EndScan, Reported
  <1> QED
    BY <1>1, <1>2, <1>3, <1>5, <1>6, <1>7, Detects DEF ScanNext

LEMMA TypesStep ==
    ASSUME Types, [Next]_vars
    PROVE  Types'
  <1>1. CASE Next
    BY <1>1, TypesVault, TypesScan DEF Next
  <1>2. CASE UNCHANGED vars
    BY <1>2 DEF vars, Types, TypeOK, ScansHaveRuns, Reported
  <1> QED
    BY <1>1, <1>2

LEMMA TypesAlways == Spec => []Types
  BY TypesInit, TypesStep, PTL DEF Spec

\* Every variable of the quarantine and the scanner keeps its type.
THEOREM TypeCorrect == Spec => []TypeOK
  BY TypesAlways, PTL DEF Types

-----------------------------------------------------------------------------
(* The refinement.                                                         *)

\* On a quiet path one operation at most is under way.  Between its two steps
\* on the disk the path is empty, and the file it is to put back is in the vault.
Alone(p) ==
    /\ \A x, y \in OnPath(p) : x = y
    /\ \A x \in OnPath(p) :
        /\ proc[x].at \in {"seized", "back"} => disk[p] = Absent
        /\ proc[x].at \in {"unlink", "back"} => vault[proc[x].finding] # Absent

QuietIsQuiet == \A p \in quiet : Alone(p)

Home == [f \in Findings |-> IF rows[f] = None THEN None ELSE rows[f].path]

\* Process y hides what is on the disk at path p.
Hides(y, p) == proc[y].at \in {"seized", "back"} /\ PathOf(y) = p

LEMMA OnPathIs ==
    ASSUME NEW p, NEW x
    PROVE  x \in OnPath(p) <=>
             x \in Procs /\ proc[x].at \notin {"idle", "loaded"} /\ PathOf(x) = p
  BY DEF OnPath, UnderWay

LEMMA OnPathIsNext ==
    ASSUME NEW p, NEW x
    PROVE  x \in OnPath(p)' <=>
             x \in Procs /\ proc'[x].at \notin {"idle", "loaded"} /\ PathOf(x)' = p
  BY DEF OnPath, UnderWay

\* The site as it is seen, path by path: now and after a step.
LEMMA Seen ==
    ASSUME NEW p \in Paths
    PROVE  /\ p \notin quiet => SiteView[p] = disk[p]
           /\ (\A y \in Procs : ~Hides(y, p)) => SiteView[p] = disk[p]
           /\ \A x \in Procs : p \in quiet /\ Alone(p) /\ Hides(x, p) =>
                SiteView[p] = IF At(x, "seized") THEN Stub ELSE proc[x].was
  <1>1. p \notin quiet => SiteView[p] = disk[p]
    BY DEF SiteView
  <1>2. ASSUME \A y \in Procs : ~Hides(y, p)
        PROVE  SiteView[p] = disk[p]
    BY <1>2 DEF SiteView, PutAway, PutAside, Hides, At
  <1>3. ASSUME NEW x \in Procs, p \in quiet, Alone(p), Hides(x, p)
        PROVE  SiteView[p] = IF At(x, "seized") THEN Stub ELSE proc[x].was
    <2>1. \A y \in Procs : Hides(y, p) => y = x
      BY <1>3, OnPathIs DEF Alone, Hides
    <2>2. CASE At(x, "seized")
      BY <1>3, <2>2 DEF SiteView, PutAway, Hides
    <2>3. CASE At(x, "back")
      <3>1. ~PutAway(p)
        BY <2>1, <2>3 DEF PutAway, Hides, At
      <3>2. PutAside(p) = {x}
        BY <1>3, <2>1, <2>3 DEF PutAside, Hides, At
      <3>3. (CHOOSE y \in PutAside(p) : TRUE) = x
        BY <3>2
      <3> QED
        BY <1>3, <2>3, <3>1, <3>2, <3>3 DEF SiteView, At
    <2> QED
      BY <1>3, <2>2, <2>3 DEF Hides, At
  <1> QED
    BY <1>1, <1>2, <1>3

LEMMA SeenNext ==
    ASSUME NEW p \in Paths
    PROVE  /\ p \notin quiet' => SiteView'[p] = disk'[p]
           /\ (\A y \in Procs : ~Hides(y, p)') => SiteView'[p] = disk'[p]
           /\ \A x \in Procs : p \in quiet' /\ Alone(p)' /\ Hides(x, p)' =>
                SiteView'[p] = IF At(x, "seized")' THEN Stub ELSE proc'[x].was
  <1>1. p \notin quiet' => SiteView'[p] = disk'[p]
    BY DEF SiteView
  <1>2. ASSUME \A y \in Procs : ~Hides(y, p)'
        PROVE  SiteView'[p] = disk'[p]
    BY <1>2 DEF SiteView, PutAway, PutAside, Hides, At
  <1>3. ASSUME NEW x \in Procs, p \in quiet', Alone(p)', Hides(x, p)'
        PROVE  SiteView'[p] = IF At(x, "seized")' THEN Stub ELSE proc'[x].was
    <2>1. \A y \in Procs : Hides(y, p)' => y = x
      BY <1>3, OnPathIsNext DEF Alone, Hides
    <2>2. CASE At(x, "seized")'
      BY <1>3, <2>2 DEF SiteView, PutAway, Hides
    <2>3. CASE At(x, "back")'
      <3>1. ~PutAway(p)'
        BY <2>1, <2>3 DEF PutAway, Hides, At
      <3>2. PutAside(p)' = {x}
        BY <1>3, <2>1, <2>3 DEF PutAside, Hides, At
      <3>3. (CHOOSE y \in PutAside(p)' : TRUE) = x
        BY <3>2
      <3> QED
        BY <1>3, <2>3, <3>1, <3>2, <3>3 DEF SiteView, At
    <2> QED
      BY <1>3, <2>2, <2>3 DEF Hides, At
  <1> QED
    BY <1>1, <1>2, <1>3

\* Nothing changes at path p if nothing that concerns it does.
LEMMA SeenSame ==
    ASSUME NEW p \in Paths, disk'[p] = disk[p], p \in quiet' <=> p \in quiet,
           \A y \in Procs : \/ ~Hides(y, p) /\ ~Hides(y, p)'
                            \/ proc'[y] = proc[y] /\ PathOf(y)' = PathOf(y)
    PROVE  SiteView'[p] = SiteView[p]
  <1>1. PutAway(p)' = PutAway(p) /\ PutAside(p)' = PutAside(p)
    BY DEF PutAway, PutAside, Hides, At
  <1>2. \A y \in PutAside(p) : proc'[y].was = proc[y].was
    BY DEF PutAside, Hides, At
  <1>3. PutAside(p) # {} => (CHOOSE y \in PutAside(p) : TRUE) \in PutAside(p)
    OBVIOUS
  <1> QED
    BY <1>1, <1>2, <1>3 DEF SiteView

\* The view of the site is a function of the paths.
LEMMA ViewChanges ==
    ASSUME NEW p \in Paths, NEW file, SiteView'[p] = file,
           \A q \in Paths \ {p} : SiteView'[q] = SiteView[q]
    PROVE  SiteView' = [SiteView EXCEPT ![p] = file]
  <1>1. /\ SiteView = [q \in Paths |-> SiteView[q]]
        /\ SiteView' = [q \in Paths |-> SiteView'[q]]
    BY DEF SiteView
  <1> QED
    BY <1>1

LEMMA ViewSame ==
    ASSUME \A q \in Paths : SiteView'[q] = SiteView[q]
    PROVE  SiteView' = SiteView
  BY DEF SiteView

\* Findings stay, and stay where they are.
SamePaths ==
    \A f \in Findings :
        /\ rows'[f] = None <=> rows[f] = None
        /\ rows[f] # None => rows'[f].path = rows[f].path

LEMMA HomeSame ==
    ASSUME SamePaths
    PROVE  Home' = Home
  BY DEF SamePaths, Home

LEMMA AloneStays ==
    ASSUME NEW p, Alone(p), disk'[p] = disk[p],
           \A y \in OnPath(p)' : /\ y \in OnPath(p) /\ proc'[y] = proc[y]
                                 /\ vault'[proc[y].finding] = vault[proc[y].finding]
    PROVE  Alone(p)'
  BY DEF Alone

\* A step of one process on finding f at path p concerns no other process and
\* no other path.
LEMMA Elsewhere ==
    ASSUME Types, QuietIsQuiet, SamePaths,
           NEW x \in Procs, NEW f \in Reported, NEW p \in Paths, rows[f].path = p,
           \A y \in Procs \ {x} : proc'[y] = proc[y],
           proc[x].at # "idle" => proc[x].finding = f,
           proc'[x].at # "idle" => proc'[x].finding = f,
           \A q \in Paths \ {p} : disk'[q] = disk[q] /\ (q \in quiet' <=> q \in quiet),
           \A g \in Findings \ {f} : vault'[g] = vault[g],
           quiet' \subseteq quiet
    PROVE  /\ \A q \in Paths \ {p} : SiteView'[q] = SiteView[q]
           /\ \A q \in quiet' \ {p} : Alone(q)'
           /\ \A y \in Procs \ {x} : /\ y \in OnPath(p)' <=> y \in OnPath(p)
                                     /\ Hides(y, p)' <=> Hides(y, p)
           /\ (\A g \in Findings : vault'[g] = vault[g]) /\ p \in quiet /\ disk'[p] = disk[p]
                /\ x \notin OnPath(p)' => Alone(p)'
           /\ x \in OnPath(p) <=> proc[x].at \notin {"idle", "loaded"}
           /\ x \in OnPath(p)' <=> proc'[x].at \notin {"idle", "loaded"}
           /\ Hides(x, p) <=> proc[x].at \in {"seized", "back"}
           /\ Hides(x, p)' <=> proc'[x].at \in {"seized", "back"}
  <1>1. /\ proc[x].at # "idle" => PathOf(x) = p
        /\ proc'[x].at # "idle" => PathOf(x)' = p
    BY DEF PathOf, SamePaths, Reported
  <1>2. ASSUME NEW y \in Procs \ {x}, proc[y].at # "idle"
        PROVE  /\ PathOf(y)' = PathOf(y)
               /\ proc[y].finding \in Findings
               /\ PathOf(y) # p => vault'[proc[y].finding] = vault[proc[y].finding]
    BY <1>2, CallTypes DEF PathOf, SamePaths, Reported, Types, At
  <1>3. ASSUME NEW y \in Procs \ {x}, NEW q
        PROVE  /\ y \in OnPath(q)' <=> y \in OnPath(q)
               /\ Hides(y, q)' <=> Hides(y, q)
    BY <1>2, <1>3, OnPathIs, OnPathIsNext DEF Hides
  <1>4. /\ x \in OnPath(p) <=> proc[x].at \notin {"idle", "loaded"}
        /\ x \in OnPath(p)' <=> proc'[x].at \notin {"idle", "loaded"}
        /\ Hides(x, p) <=> proc[x].at \in {"seized", "back"}
        /\ Hides(x, p)' <=> proc'[x].at \in {"seized", "back"}
    BY <1>1, OnPathIs, OnPathIsNext DEF Hides
  <1>5. ASSUME NEW q \in Paths \ {p}
        PROVE  SiteView'[q] = SiteView[q]
    <2>1. ~Hides(x, q) /\ ~Hides(x, q)'
      BY <1>1 DEF Hides
    <2>2. \A y \in Procs \ {x} : \/ ~Hides(y, q) /\ ~Hides(y, q)'
                                 \/ proc'[y] = proc[y] /\ PathOf(y)' = PathOf(y)
      BY <1>2, <1>3 DEF Hides
    <2> QED
      BY <2>1, <2>2, SeenSame
  <1>6. ASSUME NEW q \in quiet' \ {p}
        PROVE  Alone(q)'
    <2>1. q \in quiet /\ q \in Paths /\ Alone(q)
      BY DEF QuietIsQuiet, Types, TypeOK
    <2>2. \A y \in OnPath(q)' : /\ y \in Procs \ {x} /\ y \in OnPath(q) /\ proc'[y] = proc[y]
                               /\ PathOf(y) = q /\ proc[y].at # "idle"
      BY <1>1, <1>3, OnPathIs, OnPathIsNext
    <2> QED
      BY <1>2, <2>1, <2>2, AloneStays
  <1>7. ASSUME \A g \in Findings : vault'[g] = vault[g], p \in quiet, disk'[p] = disk[p],
               x \notin OnPath(p)'
        PROVE  Alone(p)'
    <2>1. Alone(p)
      BY <1>7 DEF QuietIsQuiet
    <2>2. \A y \in OnPath(p)' : y \in Procs \ {x} /\ y \in OnPath(p) /\ proc'[y] = proc[y]
                               /\ proc[y].at # "idle"
      BY <1>3, <1>7, OnPathIs, OnPathIsNext
    <2>3. \A y \in OnPath(p)' : vault'[proc[y].finding] = vault[proc[y].finding]
      BY <1>2, <1>7, <2>2
    <2> QED
      BY <1>7, <2>1, <2>2, <2>3, AloneStays
  <1>8. \A y \in Procs \ {x} : /\ y \in OnPath(p)' <=> y \in OnPath(p)
                               /\ Hides(y, p)' <=> Hides(y, p)
    BY <1>3
  <1>9. (\A g \in Findings : vault'[g] = vault[g]) /\ p \in quiet /\ disk'[p] = disk[p]
          /\ x \notin OnPath(p)' => Alone(p)'
    BY <1>7
  <1>10. /\ \A q \in Paths \ {p} : SiteView'[q] = SiteView[q]
         /\ \A q \in quiet' \ {p} : Alone(q)'
    BY <1>5, <1>6
  <1> QED
    BY <1>4, <1>8, <1>9, <1>10

Refines == [Promise!Next]_(Promise!vars)

LEMMA Stutters ==
    ASSUME SamePaths, \A p \in Paths : SiteView'[p] = SiteView[p],
           UNCHANGED <<vault, deployed, quiet>>
    PROVE  Refines
  BY ViewSame, HomeSame DEF Refines, Promise!vars, Home

\* What a step of the vault does: it keeps the quiet paths quiet, and is a
\* step of Custody or none.
Faithful == QuietIsQuiet' /\ Refines

\* A finding that is saved is still one.
LEMMA TypesSaved ==
    ASSUME Types, NEW f \in Reported, NEW x \in Procs, f = proc[x].finding,
           SaveMove(x) \/ SaveRestore(x)
    PROVE  rows'[f] \in Finding
  <1>1. f \in Findings /\ rows[f] \in Finding
    BY DEF Types, TypeOK, Reported
  <1>2. CASE SaveMove(x)
    <2> DEFINE v == rows[f].held \/ ~proc[x].held
    <2>1. v \in BOOLEAN /\ rows' = [rows EXCEPT ![f] = [@ EXCEPT !.held = v]]
      BY <1>2 DEF SaveMove
    <2> HIDE DEF v
    <2> QED
      BY <1>1, <2>1 DEF Finding, Types, TypeOK
  <1>3. CASE SaveRestore(x)
    BY <1>1, <1>3 DEF SaveRestore, Finding, Types, TypeOK
  <1> QED
    BY <1>2, <1>3

LEMMA FaithfulDeploy ==
    ASSUME Types, QuietIsQuiet, NEW p \in Paths, NEW b \in Bodies, Deploy(p, b)
    PROVE  Faithful
  <1>1. /\ rows' = rows /\ proc' = proc /\ vault' = vault
        /\ disk' = [disk EXCEPT ![p] = b]
        /\ disk'[p] = b /\ \A q \in Paths \ {p} : disk'[q] = disk[q]
        /\ quiet' = IF OnPath(p) = {} THEN quiet ELSE quiet \ {p}
    BY DEF Deploy, Types, TypeOK
  <1>2. SamePaths
    BY <1>1 DEF SamePaths
  <1>3. \A q : OnPath(q)' = OnPath(q) /\ \A y : Hides(y, q)' <=> Hides(y, q)
    BY <1>1 DEF OnPath, UnderWay, PathOf, Hides
  <1>4. \A q \in quiet' : q \in quiet /\ q \in Paths /\ (q = p => OnPath(q) = {})
    BY <1>1 DEF Types, TypeOK
  <1>5. QuietIsQuiet'
    BY <1>1, <1>3, <1>4 DEF QuietIsQuiet, Alone
  <1>6. \A q \in Paths \ {p} : SiteView'[q] = SiteView[q]
    <2> SUFFICES ASSUME NEW q \in Paths \ {p}
                 PROVE  SiteView'[q] = SiteView[q]
      OBVIOUS
    <2>1. \A y \in Procs : proc'[y] = proc[y] /\ PathOf(y)' = PathOf(y)
      BY <1>1 DEF PathOf
    <2>2. q \in quiet' <=> q \in quiet
      BY <1>1
    <2> QED
      BY <1>1, <2>1, <2>2, SeenSame
  <1>7. SiteView'[p] = b
    <2>1. CASE p \in quiet'
      <3>1. \A y \in Procs : ~Hides(y, p)'
        BY <1>3, <1>4, <2>1, OnPathIs DEF Hides
      <3> QED
        BY <1>1, <3>1, SeenNext
    <2>2. CASE p \notin quiet'
      BY <1>1, <2>2, SeenNext
    <2> QED
      BY <2>1, <2>2
  <1>8. SiteView' = [SiteView EXCEPT ![p] = b]
    BY <1>6, <1>7, ViewChanges
  <1>9. Promise!Deploy(p, b)
    BY <1>1, <1>2, <1>8, HomeSame DEF Deploy, Promise!Deploy, Promise!MayDisturb, Home
  <1> QED
    BY <1>5, <1>9 DEF Faithful, Refines, Promise!Next

\* A step that only moves process x, and not between the two steps on the disk.
LEMMA FaithfulQuiet ==
    ASSUME Types, QuietIsQuiet, SamePaths, NEW x \in Procs, NEW f \in Reported,
           \A y \in Procs \ {x} : proc'[y] = proc[y],
           proc[x].at # "idle" => proc[x].finding = f,
           proc'[x].at # "idle" => proc'[x].finding = f,
           proc[x].at \notin {"seized", "back"}, proc'[x].at \in {"idle", "loaded"},
           UNCHANGED <<disk, vault, deployed, quiet>>
    PROVE  Faithful
  <1>0. PICK p \in Paths : rows[f].path = p
    BY DEF Types, TypeOK, Reported, Finding
  <1>1. /\ \A q \in Paths \ {p} : disk'[q] = disk[q] /\ (q \in quiet' <=> q \in quiet)
        /\ \A g \in Findings : vault'[g] = vault[g]
        /\ quiet' \subseteq quiet /\ disk'[p] = disk[p]
    OBVIOUS
  <1>2. /\ \A q \in Paths \ {p} : SiteView'[q] = SiteView[q]
        /\ \A q \in quiet' \ {p} : Alone(q)'
        /\ \A y \in Procs \ {x} : Hides(y, p)' <=> Hides(y, p)
        /\ p \in quiet => Alone(p)'
        /\ ~Hides(x, p) /\ ~Hides(x, p)'
    BY <1>0, <1>1, Elsewhere
  <1>3. QuietIsQuiet'
    BY <1>1, <1>2 DEF QuietIsQuiet
  <1>4. \A y \in Procs : \/ ~Hides(y, p) /\ ~Hides(y, p)'
                         \/ proc'[y] = proc[y] /\ PathOf(y)' = PathOf(y)
    BY <1>2, CallTypes DEF Types, Hides, PathOf, SamePaths, Reported, At
  <1>5. SiteView'[p] = SiteView[p]
    BY <1>1, <1>4, SeenSame
  <1>6. \A q \in Paths : SiteView'[q] = SiteView[q]
    BY <1>2, <1>5
  <1> QED
    BY <1>3, <1>6, Stutters DEF Faithful

LEMMA FaithfulSeize ==
    ASSUME Types, QuietIsQuiet, NEW x \in Procs, Seize(x)
    PROVE  Faithful
  <1>1. PICK f \in Reported, p \in Paths :
          /\ f = proc[x].finding /\ p = PathOf(x) /\ rows[f].path = p /\ f \in Findings
          /\ proc[x].at = "loaded" /\ proc[x] \in Moving
    BY CallTypes DEF Seize, Types, At, PathOf
  <1>2. /\ rows' = rows /\ disk[p] # Absent
        /\ proc' = [proc EXCEPT ![x].at = "seized"]
        /\ vault' = [vault EXCEPT ![f] = disk[p]]
        /\ disk' = [disk EXCEPT ![p] = Absent]
        /\ quiet' = IF OnPath(p) = {} THEN quiet ELSE quiet \ {p}
        /\ deployed' = deployed
    BY <1>1 DEF Seize, Goto
  <1>3. /\ proc'[x].at = "seized" /\ proc'[x].finding = f
        /\ \A y \in Procs \ {x} : proc'[y] = proc[y]
        /\ disk'[p] = Absent /\ vault'[f] = disk[p]
        /\ \A q \in Paths \ {p} : disk'[q] = disk[q] /\ (q \in quiet' <=> q \in quiet)
        /\ \A g \in Findings \ {f} : vault'[g] = vault[g]
        /\ quiet' \subseteq quiet /\ quiet \subseteq Paths
    BY <1>1, <1>2 DEF Types, TypeOK, Moving
  <1>4. SamePaths
    BY <1>2 DEF SamePaths
  <1>5. /\ \A q \in Paths \ {p} : SiteView'[q] = SiteView[q]
        /\ \A q \in quiet' \ {p} : Alone(q)'
        /\ \A y \in Procs \ {x} : /\ y \in OnPath(p)' <=> y \in OnPath(p)
                                  /\ Hides(y, p)' <=> Hides(y, p)
        /\ ~Hides(x, p) /\ Hides(x, p)' /\ x \in OnPath(p)'
    BY <1>1, <1>3, <1>4, Elsewhere
  <1>6. p \in quiet' => Alone(p)'
    <2>1. ASSUME p \in quiet'
          PROVE  \A y \in OnPath(p)' : y = x
      BY <1>2, <1>5, <2>1, OnPathIsNext
    <2> QED
      BY <1>3, <2>1 DEF Alone
  <1>7. SiteView[p] = disk[p]
    <2>1. CASE p \in quiet
      <3>1. \A y \in Procs : ~Hides(y, p)
        BY <1>2, <2>1, OnPathIs DEF QuietIsQuiet, Alone, Hides
      <3> QED
        BY <1>1, <3>1, Seen
    <2>2. CASE p \notin quiet
      BY <1>1, <2>2, Seen
    <2> QED
      BY <2>1, <2>2
  <1>8. SiteView'[p] = IF p \in quiet' THEN Stub ELSE Absent
    <2>1. CASE p \in quiet'
      BY <1>1, <1>3, <1>5, <1>6, <2>1, SeenNext DEF At
    <2>2. CASE p \notin quiet'
      BY <1>1, <1>3, <2>2, SeenNext
    <2> QED
      BY <2>1, <2>2
  <1>9. SiteView' = [SiteView EXCEPT ![p] = IF p \in quiet' THEN Stub ELSE Absent]
    BY <1>1, <1>5, <1>8, ViewChanges
  <1>10. Promise!Seize(f, p)
    <2>1. Home[f] = p
      BY <1>1 DEF Home, Reported
    <2>2. Home' = Home
      BY <1>4, HomeSame
    <2> QED
      BY <1>2, <1>7, <1>9, <2>1, <2>2 DEF Promise!Seize, Promise!MayDisturb, Home
  <1>11. QuietIsQuiet'
    BY <1>5, <1>6 DEF QuietIsQuiet
  <1> QED
    BY <1>1, <1>10, <1>11 DEF Faithful, Refines, Promise!Next

LEMMA FaithfulWriteStub ==
    ASSUME Types, QuietIsQuiet, NEW x \in Procs, WriteStub(x)
    PROVE  Faithful
  <1>1. PICK f \in Reported, p \in Paths :
          /\ f = proc[x].finding /\ p = PathOf(x) /\ rows[f].path = p /\ f \in Findings
          /\ proc[x].at = "seized" /\ proc[x] \in Moving
    BY CallTypes DEF WriteStub, Types, At, PathOf
  <1>2. /\ rows' = rows /\ vault' = vault /\ quiet' = quiet /\ deployed' = deployed
        /\ proc'[x].at = "stubbed" /\ proc'[x].finding = f
        /\ \A y \in Procs \ {x} : proc'[y] = proc[y]
        /\ disk'[p] = Stub /\ quiet \subseteq Paths
        /\ \A q \in Paths \ {p} : disk'[q] = disk[q]
    BY <1>1 DEF WriteStub, Goto, Types, TypeOK, Moving
  <1>3. SamePaths
    BY <1>2 DEF SamePaths
  <1>4. /\ \A q \in Paths \ {p} : SiteView'[q] = SiteView[q]
        /\ \A q \in quiet' \ {p} : Alone(q)'
        /\ \A y \in Procs \ {x} : /\ y \in OnPath(p)' <=> y \in OnPath(p)
                                  /\ Hides(y, p)' <=> Hides(y, p)
        /\ Hides(x, p) /\ ~Hides(x, p)' /\ x \in OnPath(p)
    BY <1>1, <1>2, <1>3, Elsewhere
  <1>5. p \in quiet => \A y \in OnPath(p)' : y = x
    BY <1>4, OnPathIsNext DEF QuietIsQuiet, Alone
  <1>6. p \in quiet => Alone(p)'
    BY <1>2, <1>5 DEF Alone
  <1>7. QuietIsQuiet'
    BY <1>2, <1>4, <1>6 DEF QuietIsQuiet
  <1>8. CASE p \in quiet
    <2>1. SiteView[p] = Stub
      BY <1>1, <1>4, <1>8, Seen DEF QuietIsQuiet, At
    <2>2. \A y \in Procs : ~Hides(y, p)'
      BY <1>4, <1>5, <1>8, OnPathIsNext DEF Hides
    <2>3. SiteView'[p] = Stub
      BY <1>2, <2>2, SeenNext
    <2>4. \A q \in Paths : SiteView'[q] = SiteView[q]
      BY <1>4, <2>1, <2>3
    <2> QED
      BY <1>2, <1>3, <1>7, <2>4, Stutters DEF Faithful
  <1>9. CASE p \notin quiet
    <2>1. SiteView'[p] = Stub
      BY <1>2, <1>9, SeenNext
    <2>2. SiteView' = [SiteView EXCEPT ![p] = Stub]
      BY <1>4, <2>1, ViewChanges
    <2>3. Promise!Spoil(p)
      BY <1>2, <1>3, <1>9, <2>2, HomeSame DEF Promise!Spoil, Home
    <2> QED
      BY <1>7, <2>3 DEF Faithful, Refines, Promise!Next
  <1> QED
    BY <1>8, <1>9

LEMMA FaithfulStartRestore ==
    ASSUME Types, QuietIsQuiet, NEW x \in Procs, NEW f \in Findings, StartRestore(x, f)
    PROVE  Faithful
  <1>1. PICK p \in Paths : rows[f].path = p /\ f \in Reported
    BY DEF StartRestore, Types, TypeOK, Reported, Finding
  <1>2. /\ rows' = rows /\ vault' = vault /\ disk' = disk /\ deployed' = deployed
        /\ proc[x].at = "idle" /\ vault[f] # Absent
        /\ proc'[x].at = "unlink" /\ proc'[x].finding = f
        /\ \A y \in Procs \ {x} : proc'[y] = proc[y]
        /\ quiet' = IF OnPath(p) = {} THEN quiet ELSE quiet \ {p}
        /\ \A q \in Paths \ {p} : q \in quiet' <=> q \in quiet
        /\ quiet' \subseteq quiet /\ quiet \subseteq Paths
    BY <1>1 DEF StartRestore, Meet, At, Types, TypeOK
  <1>3. SamePaths
    BY <1>2 DEF SamePaths
  <1>4. /\ \A q \in Paths \ {p} : SiteView'[q] = SiteView[q]
        /\ \A q \in quiet' \ {p} : Alone(q)'
        /\ \A y \in Procs \ {x} : /\ y \in OnPath(p)' <=> y \in OnPath(p)
                                  /\ Hides(y, p)' <=> Hides(y, p)
        /\ ~Hides(x, p) /\ ~Hides(x, p)'
    BY <1>1, <1>2, <1>3, Elsewhere
  <1>5. p \in quiet' => \A y \in OnPath(p)' : y = x
    BY <1>2, <1>4, OnPathIsNext
  <1>6. p \in quiet' => Alone(p)'
    BY <1>2, <1>5 DEF Alone
  <1>7. QuietIsQuiet'
    BY <1>4, <1>6 DEF QuietIsQuiet
  <1>8. CASE p \in quiet' \/ p \notin quiet
    <2>1. p \in quiet' => \A y \in Procs : ~Hides(y, p) /\ ~Hides(y, p)'
      BY <1>2, <1>4, <1>5, OnPathIs, OnPathIsNext DEF Hides
    <2>2. SiteView'[p] = SiteView[p]
      BY <1>2, <1>8, <2>1, Seen, SeenNext
    <2>3. \A q \in Paths : SiteView'[q] = SiteView[q]
      BY <1>4, <2>2
    <2> QED
      BY <1>2, <1>3, <1>7, <1>8, <2>3, Stutters DEF Faithful
  <1>9. CASE p \in quiet /\ p \notin quiet'
    <2>1. SiteView'[p] = disk[p]
      BY <1>2, <1>9, SeenNext
    <2>2. disk[p] \in {SiteView[p], Absent}
      <3>1. CASE \A y \in Procs : ~Hides(y, p)
        BY <3>1, Seen
      <3>2. CASE \E y \in Procs : Hides(y, p)
        BY <1>9, <3>2, OnPathIs DEF QuietIsQuiet, Alone, Hides
      <3> QED
        BY <3>1, <3>2
    <2>3. SiteView' = [SiteView EXCEPT ![p] = disk[p]]
      BY <1>4, <2>1, ViewChanges
    <2>4. Promise!Disturb(p)
      BY <1>2, <1>3, <1>9, <2>2, <2>3, HomeSame DEF Promise!Disturb, Home
    <2> QED
      BY <1>7, <2>4 DEF Faithful, Refines, Promise!Next
  <1> QED
    BY <1>8, <1>9

LEMMA FaithfulUnlink ==
    ASSUME Types, QuietIsQuiet, NEW x \in Procs, Unlink(x)
    PROVE  Faithful
  <1>1. PICK f \in Reported, p \in Paths :
          /\ f = proc[x].finding /\ p = PathOf(x) /\ rows[f].path = p /\ f \in Findings
          /\ proc[x].at = "unlink" /\ proc[x] \in Restoring
    BY CallTypes DEF Unlink, Types, At, PathOf
  <1>2. /\ rows' = rows /\ vault' = vault /\ quiet' = quiet /\ deployed' = deployed
        /\ proc'[x].at = "back" /\ proc'[x].finding = f /\ proc'[x].was = disk[p]
        /\ \A y \in Procs \ {x} : proc'[y] = proc[y]
        /\ disk'[p] = Absent /\ quiet \subseteq Paths
        /\ \A q \in Paths \ {p} : disk'[q] = disk[q]
    BY <1>1 DEF Unlink, Types, TypeOK, Restoring
  <1>3. SamePaths
    BY <1>2 DEF SamePaths
  <1>4. /\ \A q \in Paths \ {p} : SiteView'[q] = SiteView[q]
        /\ \A q \in quiet' \ {p} : Alone(q)'
        /\ \A y \in Procs \ {x} : /\ y \in OnPath(p)' <=> y \in OnPath(p)
                                  /\ Hides(y, p)' <=> Hides(y, p)
        /\ ~Hides(x, p) /\ Hides(x, p)' /\ x \in OnPath(p)
    BY <1>1, <1>2, <1>3, Elsewhere
  <1>5. p \in quiet => \A y \in OnPath(p)' : y = x
    BY <1>4, OnPathIsNext DEF QuietIsQuiet, Alone
  <1>6. p \in quiet => Alone(p)'
    BY <1>1, <1>2, <1>4, <1>5 DEF QuietIsQuiet, Alone
  <1>7. QuietIsQuiet'
    BY <1>2, <1>4, <1>6 DEF QuietIsQuiet
  <1>8. CASE p \in quiet
    <2>1. \A y \in Procs : ~Hides(y, p)
      BY <1>4, <1>8, OnPathIs DEF QuietIsQuiet, Alone, Hides
    <2>2. SiteView[p] = disk[p]
      BY <2>1, Seen
    <2>3. SiteView'[p] = disk[p]
      BY <1>2, <1>4, <1>6, <1>8, SeenNext DEF At
    <2>4. \A q \in Paths : SiteView'[q] = SiteView[q]
      BY <1>4, <2>2, <2>3
    <2> QED
      BY <1>2, <1>3, <1>7, <2>4, Stutters DEF Faithful
  <1>9. CASE p \notin quiet
    <2>1. SiteView'[p] = Absent
      BY <1>2, <1>9, SeenNext
    <2>2. SiteView' = [SiteView EXCEPT ![p] = Absent]
      BY <1>4, <2>1, ViewChanges
    <2>3. Promise!Spoil(p)
      BY <1>2, <1>3, <1>9, <2>2, HomeSame DEF Promise!Spoil, Home
    <2> QED
      BY <1>7, <2>3 DEF Faithful, Refines, Promise!Next
  <1> QED
    BY <1>8, <1>9

LEMMA FaithfulReturn ==
    ASSUME Types, QuietIsQuiet, NEW x \in Procs, Return(x)
    PROVE  Faithful
  <1>1. PICK f \in Reported, p \in Paths :
          /\ f = proc[x].finding /\ p = PathOf(x) /\ rows[f].path = p /\ f \in Findings
          /\ proc[x].at = "back" /\ proc[x] \in Restoring
    BY CallTypes DEF Return, Types, At, PathOf
  <1>2. /\ rows' = rows /\ quiet' = quiet /\ deployed' = deployed /\ vault[f] # Absent
        /\ vault' = [vault EXCEPT ![f] = Absent]
        /\ \A g \in Findings \ {f} : vault'[g] = vault[g]
        /\ proc'[x].at = "returned" /\ proc'[x].finding = f
        /\ \A y \in Procs \ {x} : proc'[y] = proc[y]
        /\ disk'[p] = vault[f] /\ quiet \subseteq Paths
        /\ \A q \in Paths \ {p} : disk'[q] = disk[q]
    BY <1>1 DEF Return, Goto, Types, TypeOK, Restoring
  <1>3. SamePaths
    BY <1>2 DEF SamePaths
  <1>4. /\ \A q \in Paths \ {p} : SiteView'[q] = SiteView[q]
        /\ \A q \in quiet' \ {p} : Alone(q)'
        /\ \A y \in Procs \ {x} : /\ y \in OnPath(p)' <=> y \in OnPath(p)
                                  /\ Hides(y, p)' <=> Hides(y, p)
        /\ ~Hides(x, p)' /\ x \in OnPath(p)
    BY <1>1, <1>2, <1>3, Elsewhere
  <1>5. p \in quiet => \A y \in OnPath(p)' : y = x
    BY <1>4, OnPathIsNext DEF QuietIsQuiet, Alone
  <1>6. p \in quiet => Alone(p)'
    BY <1>2, <1>5 DEF Alone
  <1>7. QuietIsQuiet'
    BY <1>2, <1>4, <1>6 DEF QuietIsQuiet
  <1>8. p \in quiet => \A y \in Procs : ~Hides(y, p)'
    BY <1>4, <1>5, OnPathIsNext DEF Hides
  <1>9. SiteView'[p] = vault[f]
    BY <1>2, <1>8, SeenNext
  <1>10. SiteView' = [SiteView EXCEPT ![p] = vault[f]]
    BY <1>4, <1>9, ViewChanges
  <1>11. Promise!Release(f, p)
    <2>1. Home[f] = p /\ Home' = Home
      BY <1>1, <1>3, HomeSame DEF Home, Reported
    <2> QED
      BY <1>2, <1>10, <2>1 DEF Promise!Release, Home
  <1> QED
    BY <1>1, <1>7, <1>11 DEF Faithful, Refines, Promise!Next

\* On a quiet path the file to put back is there, so only a path that is not
\* quiet is left without one.
LEMMA FaithfulVanished ==
    ASSUME Types, QuietIsQuiet, NEW x \in Procs, Vanished(x)
    PROVE  Faithful
  <1>1. PICK f \in Reported, p \in Paths :
          /\ f = proc[x].finding /\ p = PathOf(x) /\ rows[f].path = p
          /\ proc[x].at = "back"
    BY CallTypes DEF Vanished, Types, At, PathOf
  <1>2. /\ rows' = rows /\ vault' = vault /\ disk' = disk /\ quiet' = quiet
        /\ deployed' = deployed
        /\ proc'[x].at = "idle" /\ vault[f] = Absent /\ quiet \subseteq Paths
        /\ \A y \in Procs \ {x} : proc'[y] = proc[y]
    BY <1>1 DEF Vanished, Leave, Idle, Types, TypeOK
  <1>3. SamePaths
    BY <1>2 DEF SamePaths
  <1>4. p \notin quiet
    BY <1>1, <1>2, OnPathIs DEF QuietIsQuiet, Alone
  <1>5. /\ \A q \in Paths \ {p} : SiteView'[q] = SiteView[q]
        /\ \A q \in quiet' \ {p} : Alone(q)'
    BY <1>1, <1>2, <1>3, Elsewhere
  <1>6. QuietIsQuiet'
    BY <1>2, <1>4, <1>5 DEF QuietIsQuiet
  <1>7. SiteView'[p] = SiteView[p]
    BY <1>2, <1>4, Seen, SeenNext
  <1>8. \A q \in Paths : SiteView'[q] = SiteView[q]
    BY <1>5, <1>7
  <1> QED
    BY <1>2, <1>3, <1>6, <1>8, Stutters DEF Faithful

LEMMA FaithfulKill ==
    ASSUME Types, QuietIsQuiet, NEW x \in Procs, Kill(x)
    PROVE  Faithful
  <1>1. PICK f \in Reported, p \in Paths :
          /\ f = proc[x].finding /\ p = PathOf(x) /\ rows[f].path = p
          /\ proc[x].at # "idle"
    BY CallTypes DEF Kill, Types, At, PathOf
  <1>2. /\ rows' = rows /\ vault' = vault /\ disk' = disk /\ deployed' = deployed
        /\ proc'[x].at = "idle"
        /\ \A y \in Procs \ {x} : proc'[y] = proc[y]
        /\ quiet' = IF proc[x].at \in {"seized", "back"} THEN quiet \ {p} ELSE quiet
        /\ quiet \subseteq Paths
    BY <1>1 DEF Kill, Leave, Idle, Types, TypeOK
  <1>3. SamePaths
    BY <1>2 DEF SamePaths
  <1>4. CASE proc[x].at \in {"seized", "back"}
    <2>1. /\ \A q \in Paths \ {p} : q \in quiet' <=> q \in quiet
          /\ quiet' = quiet \ {p}
      BY <1>2, <1>4
    <2>2. /\ \A q \in Paths \ {p} : SiteView'[q] = SiteView[q]
          /\ \A q \in quiet' \ {p} : Alone(q)'
          /\ Hides(x, p) /\ x \in OnPath(p)
      BY <1>1, <1>2, <1>3, <1>4, <2>1, Elsewhere
    <2>3. QuietIsQuiet'
      BY <2>1, <2>2 DEF QuietIsQuiet
    <2>4. SiteView'[p] = disk[p]
      BY <1>2, <2>1, SeenNext
    <2>5. disk[p] \in {SiteView[p], Absent}
      <3>1. CASE p \in quiet
        BY <1>4, <2>2, <3>1 DEF QuietIsQuiet, Alone
      <3>2. CASE p \notin quiet
        BY <3>2, Seen
      <3> QED
        BY <3>1, <3>2
    <2>6. SiteView' = [SiteView EXCEPT ![p] = disk[p]]
      BY <2>2, <2>4, ViewChanges
    <2>7. Promise!Disturb(p)
      BY <1>2, <1>3, <2>1, <2>5, <2>6, HomeSame DEF Promise!Disturb, Home
    <2> QED
      BY <2>3, <2>7 DEF Faithful, Refines, Promise!Next
  <1>5. CASE proc[x].at \notin {"seized", "back"}
    BY <1>1, <1>2, <1>3, <1>5, FaithfulQuiet
  <1> QED
    BY <1>4, <1>5

\* Loading a finding, refusing to move it, and saving it.
LEMMA FaithfulRow ==
    ASSUME Types, QuietIsQuiet, NEW x \in Procs,
           \/ \E f \in Findings : Load(x, f)
           \/ Refuse(x) \/ SaveMove(x) \/ SaveRestore(x)
    PROVE  Faithful
  <1>1. ASSUME NEW f \in Findings, Load(x, f)
        PROVE  Faithful
    <2>1. /\ f \in Reported /\ proc[x].at = "idle"
          /\ proc'[x].at = "loaded" /\ proc'[x].finding = f
          /\ \A y \in Procs \ {x} : proc'[y] = proc[y]
          /\ UNCHANGED <<disk, vault, deployed, quiet>>
      BY <1>1 DEF Load, At, Types, TypeOK
    <2>2. SamePaths
      BY <1>1 DEF Load, SamePaths
    <2> QED
      BY <2>1, <2>2, FaithfulQuiet
  <1>2. ASSUME Refuse(x) \/ SaveMove(x) \/ SaveRestore(x)
        PROVE  Faithful
    <2>1. PICK f \in Reported : f = proc[x].finding /\ f \in Findings /\ rows[f] \in Finding
      BY <1>2, CallTypes DEF Refuse, SaveMove, SaveRestore, Types, At
    <2>2. /\ proc[x].at \notin {"seized", "back"} /\ proc'[x].at = "idle"
          /\ \A y \in Procs \ {x} : proc'[y] = proc[y]
          /\ UNCHANGED <<disk, vault, deployed, quiet>>
      BY <1>2 DEF Refuse, SaveMove, SaveRestore, Leave, At, Idle, Types, TypeOK
    <2>3. \/ rows' = rows
          \/ \E v : rows' = [rows EXCEPT ![f].held = v]
      BY <1>2, <2>1 DEF Refuse, SaveMove, SaveRestore
    <2>4. SamePaths
      <3>1. CASE rows' = rows
        BY <3>1 DEF SamePaths
      <3>2. ASSUME NEW v, rows' = [rows EXCEPT ![f].held = v]
            PROVE  SamePaths
        <4>1. rows'[f] # None
          BY <1>2, <2>1, <3>2, TypesSaved, NullsAssumption DEF Refuse, Reported
        <4>2. rows'[f].path = rows[f].path /\ \A g \in Findings \ {f} : rows'[g] = rows[g]
          BY <2>1, <3>2 DEF Types, TypeOK, Finding
        <4> QED
          BY <2>1, <4>1, <4>2 DEF SamePaths, Reported
      <3> QED
        BY <2>3, <3>1, <3>2
    <2> QED
      BY <2>1, <2>2, <2>4, FaithfulQuiet
  <1> QED
    BY <1>1, <1>2

LEMMA FaithfulAside ==
    ASSUME QuietIsQuiet, UNCHANGED <<disk, vault, rows, proc, deployed, quiet>>
    PROVE  Faithful
  <1>1. \A q : OnPath(q)' = OnPath(q)
    BY DEF OnPath, UnderWay, PathOf
  <1>2. QuietIsQuiet'
    BY <1>1 DEF QuietIsQuiet, Alone
  <1>3. SiteView' = SiteView
    BY DEF SiteView, PutAway, PutAside, PathOf, At
  <1>4. Home' = Home
    BY DEF Home
  <1> QED
    BY <1>2, <1>3, <1>4 DEF Faithful, Refines, Promise!vars, Home

LEMMA FaithfulStore ==
    ASSUME Types, QuietIsQuiet, NEW r \in Runs, NEW f \in Findings, StoreFinding(r, f)
    PROVE  Faithful
  <1>10. PICK d \in Detections, new \in Finding : Stores(r, f, d, new)
    BY NewFinding
  <1>1. new.path = d[1] /\ rows' = [rows EXCEPT ![f] = new]
    BY <1>10 DEF Stores
  <1>2. d[1] \in Paths
    BY DEF Detections
  <1>3. /\ UNCHANGED <<disk, vault, proc, deployed, quiet>>
        /\ rows[f] = None /\ rows'[f] = new
        /\ \A g \in Findings \ {f} : rows'[g] = rows[g]
    BY <1>1 DEF StoreFinding, Reported, Types, TypeOK
  <1>4. \A y \in Procs : proc[y].at # "idle" => PathOf(y)' = PathOf(y)
    BY <1>3, CallTypes DEF PathOf, Reported, Types, At
  <1>5. ASSUME NEW q
        PROVE  /\ OnPath(q)' = OnPath(q)
               /\ \A y \in Procs : \/ ~Hides(y, q) /\ ~Hides(y, q)'
                                   \/ proc'[y] = proc[y] /\ PathOf(y)' = PathOf(y)
    BY <1>3, <1>4 DEF OnPath, UnderWay, Hides
  <1>6. QuietIsQuiet'
    BY <1>3, <1>5 DEF QuietIsQuiet, Alone
  <1>7. SiteView' = SiteView
    <2>1. ASSUME NEW q \in Paths
          PROVE  SiteView'[q] = SiteView[q]
      <3>1. disk'[q] = disk[q] /\ (q \in quiet' <=> q \in quiet)
        BY <1>3
      <3> QED
        BY <1>5, <3>1, SeenSame
    <2> QED
      BY <2>1, ViewSame
  <1>8. Home' = [Home EXCEPT ![f] = d[1]]
    <2>1. rows'[f] # None /\ rows'[f].path = d[1]
      BY <1>1, <1>3, NullsAssumption
    <2> QED
      BY <1>3, <2>1 DEF Home
  <1>9. Promise!Report(f, d[1])
    <2>1. Home[f] = None
      BY <1>3 DEF Home
    <2> QED
      BY <1>3, <1>7, <1>8, <2>1 DEF Promise!Report, Home
  <1> QED
    BY <1>2, <1>6, <1>9 DEF Faithful, Refines, Promise!Next

LEMMA FaithfulStep ==
    ASSUME Types, QuietIsQuiet, [Next]_vars
    PROVE  Faithful
  <1>1. CASE VaultNext
    <2>1. ASSUME NEW x \in Procs, Move(x) \/ Restore(x) \/ Kill(x)
          PROVE  Faithful
      BY <2>1, FaithfulRow, FaithfulSeize, FaithfulWriteStub, FaithfulStartRestore,
         FaithfulUnlink, FaithfulReturn, FaithfulVanished, FaithfulKill DEF Move, Restore
    <2> QED
      BY <1>1, <2>1, FaithfulDeploy DEF VaultNext
  <1>2. CASE ScanNext
    BY <1>2, FaithfulStore, FaithfulAside
    DEF ScanNext, Start, ListFiles, ScanFile, ScanRun, Detect, Complete, Fail, Die, Cancel, quarantineVars
  <1>3. CASE UNCHANGED vars
    BY <1>3, FaithfulAside DEF vars
  <1> QED
    BY <1>1, <1>2, <1>3 DEF Next

LEMMA FaithfulInit ==
    ASSUME ScannerInit
    PROVE  QuietIsQuiet /\ Promise!Init
  <1>1. \A q : OnPath(q) = {} /\ PutAside(q) = {} /\ ~PutAway(q)
    BY DEF ScannerInit, Init, Idle, OnPath, UnderWay, PutAside, PutAway, At
  <1>2. QuietIsQuiet
    BY <1>1 DEF QuietIsQuiet, Alone
  <1>3. SiteView = [p \in Paths |-> Absent]
    BY <1>1 DEF SiteView, ScannerInit, Init
  <1> QED
    BY <1>2, <1>3 DEF Promise!Init, ScannerInit, Init

\* The scanner and its quarantine, whoever calls them and wherever they are
\* killed, keep the promise of Custody: a file that is seized is kept until it
\* goes back to the path it came from.
THEOREM KeepsCustodyAlways == Spec => KeepsCustody
  <1>1. ScannerInit => QuietIsQuiet /\ Promise!Init
    BY FaithfulInit
  <1>2. Types /\ QuietIsQuiet /\ [Next]_vars => QuietIsQuiet' /\ [Promise!Next]_(Promise!vars)
    BY FaithfulStep DEF Faithful, Refines
  <1> QED
    BY <1>1, <1>2, TypesAlways, PTL DEF Spec, KeepsCustody, Promise!Spec

-----------------------------------------------------------------------------
(* What findings and the vault have to do with each other.                 *)

\* Rows and vault agree on finding f: nothing is under way on it, or one
\* operation that is as far as they say.
Sound(f) ==
    /\ \A x, y \in OnFinding(f) : x = y
    /\ OnFinding(f) = {} => (rows[f].held <=> vault[f] # Absent)
    /\ \A x \in OnFinding(f) :
        /\ proc[x].at \in {"seized", "stubbed"} =>
              vault[f] # Absent /\ (proc[x].held => rows[f].held)
        /\ proc[x].at \in {"unlink", "back"} => vault[f] # Absent /\ rows[f].held
        /\ proc[x].at = "returned" => vault[f] = Absent

FindingsSound ==
    /\ \A f \in Reported \ marred : Sound(f)
    /\ \A f \in Findings \ Reported : vault[f] = Absent

LEMMA OnFindingIs ==
    ASSUME NEW f, NEW x
    PROVE  x \in OnFinding(f) <=>
             x \in Procs /\ proc[x].at \notin {"idle", "loaded"} /\ proc[x].finding = f
  BY DEF OnFinding, UnderWay

LEMMA OnFindingIsNext ==
    ASSUME NEW f, NEW x
    PROVE  x \in OnFinding(f)' <=>
             x \in Procs /\ proc'[x].at \notin {"idle", "loaded"} /\ proc'[x].finding = f
  BY DEF OnFinding, UnderWay

\* A step of one process on finding f leaves the other findings alone.
LEMMA OtherFindings ==
    ASSUME FindingsSound, NEW x \in Procs, NEW f \in Reported, f \in Findings,
           \A y \in Procs \ {x} : proc'[y] = proc[y],
           proc[x].at # "idle" => proc[x].finding = f,
           proc'[x].at # "idle" => proc'[x].finding = f,
           \A g \in Findings \ {f} : rows'[g] = rows[g] /\ vault'[g] = vault[g],
           rows'[f] # None, marred \subseteq marred',
           f \notin marred' => Sound(f)'
    PROVE  FindingsSound'
  <1>1. \A g \in Findings : g \in Reported' <=> g \in Reported
    BY DEF Reported
  <1>2. ASSUME NEW g \in Reported' \ marred', g # f
        PROVE  Sound(g)'
    <2>1. g \in Findings \ {f} /\ g \in Reported \ marred /\ Sound(g)
      BY <1>1, <1>2 DEF FindingsSound, Reported
    <2>2. \A y \in OnFinding(g) \cup OnFinding(g)' : y # x /\ proc'[y] = proc[y]
      BY <1>2, <2>1, OnFindingIs, OnFindingIsNext
    <2>3. \A y : y \in OnFinding(g)' <=> y \in OnFinding(g)
      BY <2>2, OnFindingIs, OnFindingIsNext
    <2>4. OnFinding(g)' = OnFinding(g)
      BY <2>3
    <2> QED
      BY <2>1, <2>2, <2>4 DEF Sound
  <1>3. \A g \in Findings \ Reported' : vault'[g] = Absent
    BY <1>1 DEF FindingsSound
  <1> QED
    BY <1>2, <1>3 DEF FindingsSound

LEMMA SoundSeize ==
    ASSUME Types, FindingsSound, NEW x \in Procs, Seize(x)
    PROVE  FindingsSound'
  <1>1. PICK f \in Reported :
          /\ f = proc[x].finding /\ f \in Findings /\ PathOf(x) \in Paths
          /\ proc[x].at = "loaded" /\ proc[x] \in Moving
    BY CallTypes DEF Seize, Types, At
  <1>2. /\ rows' = rows /\ vault' = [vault EXCEPT ![f] = disk[PathOf(x)]]
        /\ disk[PathOf(x)] # Absent
        /\ marred' = IF OnFinding(f) = {} /\ (proc[x].held => rows[f].held)
                     THEN marred ELSE marred \cup {f}
        /\ proc' = [proc EXCEPT ![x].at = "seized"]
    BY <1>1 DEF Seize, Goto
  <1>3. /\ vault'[f] # Absent /\ \A g \in Findings \ {f} : vault'[g] = vault[g]
        /\ proc'[x].at = "seized" /\ proc'[x].finding = f /\ proc'[x].held = proc[x].held
        /\ \A y \in Procs \ {x} : proc'[y] = proc[y]
        /\ marred \subseteq marred'
    BY <1>1, <1>2 DEF Types, TypeOK, Moving
  <1>4. ASSUME f \notin marred'
        PROVE  Sound(f)'
    <2>1. OnFinding(f) = {} /\ (proc[x].held => rows[f].held)
      BY <1>2, <1>4
    <2>2. \A y \in OnFinding(f)' : y = x
      BY <1>3, <2>1, OnFindingIs, OnFindingIsNext
    <2>3. x \in OnFinding(f)'
      BY <1>3, OnFindingIsNext
    <2> QED
      BY <1>2, <1>3, <2>1, <2>2, <2>3 DEF Sound
  <1> QED
    BY <1>1, <1>2, <1>3, <1>4, OtherFindings DEF Reported

LEMMA SoundStart ==
    ASSUME Types, FindingsSound, NEW x \in Procs, NEW f \in Findings, StartRestore(x, f)
    PROVE  FindingsSound'
  <1>1. /\ f \in Reported /\ rows' = rows /\ vault' = vault /\ rows[f].held /\ vault[f] # Absent
        /\ proc[x].at = "idle" /\ proc'[x].at = "unlink" /\ proc'[x].finding = f
        /\ \A y \in Procs \ {x} : proc'[y] = proc[y]
        /\ marred' = IF OnFinding(f) = {} THEN marred ELSE marred \cup {f}
    BY DEF StartRestore, Meet, At, Types, TypeOK
  <1>2. ASSUME f \notin marred'
        PROVE  Sound(f)'
    <2>1. \A y \in OnFinding(f)' : y = x
      BY <1>1, <1>2, OnFindingIs, OnFindingIsNext
    <2>2. x \in OnFinding(f)'
      BY <1>1, OnFindingIsNext
    <2> QED
      BY <1>1, <2>1, <2>2 DEF Sound
  <1> QED
    BY <1>1, <1>2, OtherFindings DEF Reported

\* A call that goes on or ends, alone on its finding.
LEMMA SoundGoOn ==
    ASSUME Types, FindingsSound, NEW x \in Procs,
           \/ WriteStub(x) \/ SaveMove(x)
           \/ Unlink(x) \/ Return(x) \/ Vanished(x) \/ SaveRestore(x)
    PROVE  FindingsSound'
  <1>1. PICK f \in Reported :
          /\ f = proc[x].finding /\ f \in Findings /\ rows[f] \in Finding
          /\ proc[x].at \notin {"idle", "loaded"}
          /\ proc[x].at \in {"seized", "stubbed"} => proc[x] \in Moving
          /\ proc[x].at \notin {"seized", "stubbed"} => proc[x] \in Restoring
    BY CallTypes DEF WriteStub, SaveMove, Unlink, Return, Vanished, SaveRestore, Types, At,
                     Restoring, TypeOK, Moving, Idle
  <1>2. /\ \A y \in Procs \ {x} : proc'[y] = proc[y]
        /\ proc'[x].at # "idle" => proc'[x].finding = f
        /\ marred' = marred
    BY <1>1 DEF WriteStub, SaveMove, Unlink, Return, Vanished, SaveRestore, Leave, Goto,
                Types, TypeOK, Moving, Restoring, Idle
  <1>3. /\ \A g \in Findings \ {f} : rows'[g] = rows[g] /\ vault'[g] = vault[g]
        /\ rows'[f] # None
    <2>1. CASE SaveMove(x) \/ SaveRestore(x)
      BY <1>1, <2>1, TypesSaved, NullsAssumption DEF SaveMove, SaveRestore, Types, TypeOK
    <2>2. CASE WriteStub(x) \/ Unlink(x) \/ Return(x) \/ Vanished(x)
      BY <1>1, <2>2 DEF WriteStub, Unlink, Return, Vanished, Types, TypeOK, Reported
    <2> QED
      BY <2>1, <2>2
  <1>4. ASSUME f \notin marred'
        PROVE  Sound(f)'
    <2>1. x \in OnFinding(f) /\ Sound(f)
      BY <1>1, <1>2, <1>4, OnFindingIs DEF FindingsSound
    <2>2. \A y \in OnFinding(f)' : y = x
      BY <1>2, <2>1, OnFindingIs, OnFindingIsNext DEF Sound
    <2>3. x \in OnFinding(f)' <=> proc'[x].at \notin {"idle", "loaded"}
      BY <1>2, OnFindingIsNext
    <2>4. CASE WriteStub(x)
      <3>1. /\ proc'[x].at = "stubbed" /\ proc'[x].held = proc[x].held
            /\ rows' = rows /\ vault' = vault /\ proc[x].at = "seized"
        BY <1>1, <2>4 DEF WriteStub, Goto, At, Types, TypeOK, Moving
      <3> QED
        BY <2>1, <2>2, <2>3, <3>1 DEF Sound
    <2>5. CASE SaveMove(x)
      <3>1. /\ rows'[f].held = (rows[f].held \/ ~proc[x].held)
            /\ vault' = vault /\ proc[x].at = "stubbed" /\ proc'[x].at = "idle"
        BY <1>1, <2>5 DEF SaveMove, Leave, Idle, At, Types, TypeOK, Finding
      <3>2. OnFinding(f)' = {}
        BY <2>2, <2>3, <3>1
      <3> QED
        BY <2>1, <3>1, <3>2 DEF Sound
    <2>6. CASE Unlink(x)
      <3>1. /\ proc'[x].at = "back" /\ proc[x].at = "unlink"
            /\ rows' = rows /\ vault' = vault
        BY <1>1, <2>6 DEF Unlink, At, Types, TypeOK, Restoring
      <3> QED
        BY <2>1, <2>2, <2>3, <3>1 DEF Sound
    <2>7. CASE Return(x)
      <3>1. /\ proc'[x].at = "returned" /\ proc[x].at = "back"
            /\ rows' = rows /\ vault'[f] = Absent
        BY <1>1, <2>7 DEF Return, Goto, At, Types, TypeOK, Restoring
      <3> QED
        BY <2>1, <2>2, <2>3, <3>1 DEF Sound
    <2>8. ~Vanished(x)
      BY <1>1, <2>1 DEF Vanished, At, Sound
    <2>9. CASE SaveRestore(x)
      <3>1. /\ rows'[f].held = FALSE
            /\ vault' = vault /\ proc[x].at = "returned" /\ proc'[x].at = "idle"
        BY <1>1, <2>9 DEF SaveRestore, Leave, Idle, At, Types, TypeOK, Finding
      <3>2. OnFinding(f)' = {}
        BY <2>2, <2>3, <3>1
      <3> QED
        BY <2>1, <3>1, <3>2 DEF Sound
    <2> QED
      BY <2>4, <2>5, <2>6, <2>7, <2>8, <2>9
  <1> QED
    BY <1>1, <1>2, <1>3, <1>4, OtherFindings

LEMMA SoundKill ==
    ASSUME Types, FindingsSound, NEW x \in Procs, Kill(x)
    PROVE  FindingsSound'
  <1>1. PICK f \in Reported :
          f = proc[x].finding /\ f \in Findings /\ proc[x].at # "idle"
          /\ proc[x] \in Moving \cup Restoring
    BY CallTypes DEF Kill, Types, TypeOK, At, Idle
  <1>2. /\ rows' = rows /\ vault' = vault /\ rows[f] # None
        /\ proc'[x].at = "idle"
        /\ \A y \in Procs \ {x} : proc'[y] = proc[y]
        /\ marred' = IF proc[x].at \in {"seized", "stubbed", "returned"}
                     THEN marred \cup {f} ELSE marred
    BY <1>1 DEF Kill, Leave, Idle, Types, TypeOK, Reported
  <1>3. ASSUME f \notin marred'
        PROVE  Sound(f)'
    <2>1. Sound(f) /\ proc[x].at \in {"loaded", "unlink", "back"}
      BY <1>1, <1>2, <1>3 DEF FindingsSound, Moving, Restoring
    <2>2. \A y : y \in OnFinding(f)' => y # x /\ y \in OnFinding(f) /\ proc'[y] = proc[y]
      BY <1>2, OnFindingIs, OnFindingIsNext
    <2>3. CASE proc[x].at = "loaded"
      <3>1. \A y : y \in OnFinding(f)' <=> y \in OnFinding(f)
        BY <1>2, <2>2, <2>3, OnFindingIs, OnFindingIsNext
      <3>2. OnFinding(f)' = OnFinding(f)
        BY <3>1
      <3> QED
        BY <1>2, <2>1, <2>2, <3>2 DEF Sound
    <2>4. CASE proc[x].at # "loaded"
      <3>1. x \in OnFinding(f)
        BY <1>1, <2>4, OnFindingIs
      <3>2. OnFinding(f)' = {}
        BY <2>1, <2>2, <3>1 DEF Sound
      <3> QED
        BY <1>2, <2>1, <2>4, <3>1, <3>2 DEF Sound
    <2> QED
      BY <2>3, <2>4
  <1> QED
    BY <1>1, <1>2, <1>3, OtherFindings

LEMMA SoundAside ==
    ASSUME FindingsSound, UNCHANGED <<vault, rows, marred>>,
           \A f : OnFinding(f)' = OnFinding(f) /\ \A x \in OnFinding(f) : proc'[x] = proc[x]
    PROVE  FindingsSound'
  <1>1. Reported' = Reported
    BY DEF Reported
  <1> QED
    BY <1>1 DEF FindingsSound, Sound

LEMMA SoundStore ==
    ASSUME Types, FindingsSound, NEW r \in Runs, NEW f \in Findings, StoreFinding(r, f)
    PROVE  FindingsSound'
  <1>9. PICK d \in Detections, new \in Finding : Stores(r, f, d, new)
    BY NewFinding
  <1>1. rows' = [rows EXCEPT ![f] = new] /\ new.held = FALSE
    BY <1>9 DEF Stores
  <1>2. /\ UNCHANGED <<vault, proc, marred>> /\ f \notin Reported
        /\ rows'[f] = new /\ \A g \in Findings \ {f} : rows'[g] = rows[g]
    BY <1>1 DEF StoreFinding, Types, TypeOK
  <1>3. \A g : OnFinding(g)' = OnFinding(g)
    BY <1>2 DEF OnFinding, UnderWay
  <1>4. OnFinding(f) = {}
    BY <1>2, CallTypes, OnFindingIs DEF Types, At
  <1>5. Sound(f)'
    BY <1>1, <1>2, <1>3, <1>4 DEF Sound, FindingsSound
  <1>6. \A g \in Findings \ {f} : g \in Reported' <=> g \in Reported
    BY <1>2 DEF Reported
  <1>7. \A g \in Reported' \ marred' : Sound(g)'
    BY <1>2, <1>3, <1>5, <1>6 DEF Sound, FindingsSound, Reported
  <1>8. \A g \in Findings \ Reported' : vault'[g] = Absent
    BY <1>1, <1>2, <1>6, NullsAssumption DEF FindingsSound, Reported
  <1> QED
    BY <1>7, <1>8 DEF FindingsSound

LEMMA SoundStep ==
    ASSUME Types, FindingsSound, [Next]_vars
    PROVE  FindingsSound'
  <1>1. CASE VaultNext
    <2>1. ASSUME NEW p \in Paths, NEW b \in Bodies, Deploy(p, b)
          PROVE  FindingsSound'
      BY <2>1, SoundAside DEF Deploy, OnFinding, UnderWay
    <2>2. ASSUME NEW x \in Procs, (\E f \in Findings : Load(x, f)) \/ Refuse(x)
          PROVE  FindingsSound'
      <3>1. /\ \A y \in Procs \ {x} : proc'[y] = proc[y]
            /\ proc[x].at \in {"idle", "loaded"} /\ proc'[x].at \in {"idle", "loaded"}
            /\ UNCHANGED <<vault, rows, marred>>
        BY <2>2 DEF Load, Refuse, Leave, Idle, At, Types, TypeOK
      <3>2. \A f : OnFinding(f)' = OnFinding(f) /\ \A y \in OnFinding(f) : proc'[y] = proc[y]
        BY <3>1 DEF OnFinding, UnderWay
      <3> QED
        BY <3>1, <3>2, SoundAside
    <2> QED
      BY <1>1, <2>1, <2>2, SoundSeize, SoundStart, SoundGoOn, SoundKill
      DEF VaultNext, Move, Restore
  <1>2. CASE ScanNext
    BY <1>2, SoundStore, SoundAside
    DEF ScanNext, Start, ListFiles, ScanFile, ScanRun, Detect, Complete, Fail, Die, Cancel,
        quarantineVars, OnFinding, UnderWay
  <1>3. CASE UNCHANGED vars
    BY <1>3, SoundAside DEF vars, OnFinding, UnderWay
  <1> QED
    BY <1>1, <1>2, <1>3 DEF Next

\* A finding on which nothing is under way and nothing ever went wrong is marked
\* as held exactly if the vault has its file.
THEOREM RowsMatchVaultAlways == Spec => []RowsMatchVault
  <1>1. ScannerInit => FindingsSound
    BY DEF ScannerInit, Init, FindingsSound, Reported
  <1>2. Types /\ FindingsSound /\ [Next]_vars => FindingsSound'
    BY SoundStep
  <1>3. FindingsSound => RowsMatchVault
    BY DEF FindingsSound, Sound, RowsMatchVault
  <1> QED
    BY <1>1, <1>2, <1>3, TypesAlways, PTL DEF Spec

-----------------------------------------------------------------------------
(* Completed runs.                                                         *)

Stored(r, d) ==
    \E f \in Reported : rows[f].run = r /\ <<rows[f].path, rows[f].signature>> = d

Found(r, d) == scan[r] # None /\ d \in scan[r].found

\* What a run has detected is in the hands of its process or in the table,
\* as long as the process is there, and after it completed the run.
NothingSlips ==
    \A r \in Runs :
        /\ runs[r] = None => seen[r] = {}
        /\ scan[r] # None \/ (runs[r] # None /\ runs[r].status = "completed") =>
              \A d \in seen[r] : Found(r, d) \/ Stored(r, d)

\* The findings that exist say of run, path and signature what they said.
SameReports ==
    \A f \in Reported :
        /\ f \in Reported'
        /\ rows'[f].run = rows[f].run
        /\ rows'[f].path = rows[f].path
        /\ rows'[f].signature = rows[f].signature

LEMMA VaultKeepsReports ==
    ASSUME Types, VaultNext
    PROVE  SameReports /\ Reported' = Reported
  <1>1. CASE rows' = rows
    BY <1>1 DEF SameReports, Reported
  <1>2. ASSUME NEW f \in Reported, f \in Findings, rows[f] \in Finding,
               \E b \in BOOLEAN : rows' = [rows EXCEPT ![f].held = b]
        PROVE  SameReports /\ Reported' = Reported
    <2>1. PICK b \in BOOLEAN : rows' = [rows EXCEPT ![f].held = b]
      BY <1>2
    <2>2. /\ [rows[f] EXCEPT !.held = b] \in Finding
          /\ rows'[f] = [rows[f] EXCEPT !.held = b]
          /\ \A g \in Findings \ {f} : rows'[g] = rows[g]
      BY <1>2, <2>1 DEF Types, TypeOK, Finding
    <2>3. Reported' = Reported
      BY <1>2, <2>2, NullsAssumption DEF Reported
    <2> QED
      BY <1>2, <2>2, <2>3 DEF SameReports, Finding, Reported
  <1>3. ASSUME NEW x \in Procs, SaveMove(x)
        PROVE  SameReports /\ Reported' = Reported
    <2>1. /\ proc[x].finding \in Reported /\ proc[x].finding \in Findings
          /\ rows[proc[x].finding] \in Finding /\ proc[x] \in Moving
      BY <1>3, CallTypes DEF SaveMove, At, Types
    <2>2. (rows[proc[x].finding].held \/ ~proc[x].held) \in BOOLEAN
      BY <2>1 DEF Finding, Moving
    <2> QED
      BY <1>2, <1>3, <2>1, <2>2 DEF SaveMove
  <1>4. ASSUME NEW x \in Procs, SaveRestore(x)
        PROVE  SameReports /\ Reported' = Reported
    <2>1. /\ proc[x].finding \in Reported /\ proc[x].finding \in Findings
          /\ rows[proc[x].finding] \in Finding
      BY <1>4, CallTypes DEF SaveRestore, At, Types
    <2> QED
      BY <1>2, <1>4, <2>1 DEF SaveRestore
  <1> QED
    BY <1>1, <1>3, <1>4
    DEF VaultNext, Move, Restore, Deploy, Load, Seize, Refuse, WriteStub, StartRestore, Unlink,
        Return, Vanished, Kill

LEMMA NewReport ==
    ASSUME Types, NEW r \in Runs, NEW f \in Findings, StoreFinding(r, f)
    PROVE  \E d \in scan[r].found :
             /\ d \in Detections
             /\ Reported' = Reported \cup {f} /\ f \notin Reported
             /\ rows'[f].run = r /\ <<rows'[f].path, rows'[f].signature>> = d
             /\ \A g \in Reported : rows'[g] = rows[g]
             /\ scan'[r] # None /\ scan'[r].found = scan[r].found \ {d}
             /\ scan'[r].todo = scan[r].todo
             /\ \A s \in Runs \ {r} : scan'[s] = scan[s]
  <1>1. scan[r] \in Scan /\ f \notin Reported
    BY DEF StoreFinding, Types, TypeOK
  <1>9. PICK d \in Detections, new \in Finding : Stores(r, f, d, new)
    BY NewFinding
  <1>2. /\ new.run = r /\ new.path = d[1] /\ new.signature = d[2]
        /\ d \in scan[r].found
        /\ rows' = [rows EXCEPT ![f] = new] /\ scan' = [scan EXCEPT ![r].found = @ \ {d}]
    BY <1>9 DEF Stores
  <1>3. rows'[f] = new /\ \A g \in Reported : g # f /\ g \in Findings /\ rows'[g] = rows[g]
    BY <1>1, <1>2 DEF Types, TypeOK, Reported
  <1>4. Reported' = Reported \cup {f}
    BY <1>2, <1>3, NullsAssumption DEF Reported, Types, TypeOK
  <1>5. d = <<d[1], d[2]>>
    BY <1>2 DEF Detections
  <1>6. [scan[r] EXCEPT !.found = @ \ {d}] \in Scan
    BY <1>1 DEF Scan
  <1>7. /\ scan'[r] = [scan[r] EXCEPT !.found = @ \ {d}]
        /\ \A s \in Runs \ {r} : scan'[s] = scan[s]
    BY <1>2 DEF Types, TypeOK
  <1>8. /\ scan'[r] # None /\ scan'[r].found = scan[r].found \ {d}
        /\ scan'[r].todo = scan[r].todo
    BY <1>1, <1>6, <1>7, NullsAssumption DEF Scan
  <1> QED
    BY <1>1, <1>2, <1>3, <1>4, <1>5, <1>7, <1>8

LEMMA StoredStays ==
    ASSUME SameReports, NEW r, NEW d, Stored(r, d)
    PROVE  Stored(r, d)'
  <1>1. PICK f \in Reported : rows[f].run = r /\ <<rows[f].path, rows[f].signature>> = d
    BY DEF Stored
  <1>2. /\ f \in Reported' /\ rows'[f].run = rows[f].run /\ rows'[f].path = rows[f].path
        /\ rows'[f].signature = rows[f].signature
    BY <1>1 DEF SameReports
  <1>3. rows'[f].run = r /\ <<rows'[f].path, rows'[f].signature>> = d
    BY <1>1, <1>2
  <1> QED
    BY <1>2, <1>3 DEF Stored

\* Only run r moves, and with it no finding is lost.
LEMMA OneRunSlips ==
    ASSUME NothingSlips, SameReports, NEW r \in Runs,
           \A s \in Runs \ {r} : runs'[s] = runs[s] /\ scan'[s] = scan[s] /\ seen'[s] = seen[s],
           runs'[r] # None,
           scan'[r] # None \/ runs'[r].status = "completed" =>
               \A d \in seen'[r] : Found(r, d)' \/ Stored(r, d)'
    PROVE  NothingSlips'
  <1>1. ASSUME NEW s \in Runs, s # r
        PROVE  /\ runs'[s] = None => seen'[s] = {}
               /\ scan'[s] # None \/ (runs'[s] # None /\ runs'[s].status = "completed") =>
                     \A d \in seen'[s] : Found(s, d)' \/ Stored(s, d)'
    <2>1. runs'[s] = runs[s] /\ scan'[s] = scan[s] /\ seen'[s] = seen[s]
      BY <1>1
    <2>2. \A d : Found(s, d) => Found(s, d)'
      BY <2>1 DEF Found
    <2> QED
      BY <2>1, <2>2, StoredStays DEF NothingSlips
  <1> QED
    BY <1>1 DEF NothingSlips

LEMMA SlipsScan ==
    ASSUME Types, NothingSlips, ScanNext
    PROVE  NothingSlips'
  <1>1. ASSUME rows' = rows
        PROVE  SameReports
    BY <1>1 DEF SameReports, Reported
  <1>2. ASSUME NEW r \in Runs, NEW targets \in TargetLists, NEW turns \in SUBSET Turns,
               Start(r, targets, turns)
        PROVE  NothingSlips'
    <2>1. /\ SameReports /\ seen' = seen /\ seen[r] = {}
          /\ \A s \in Runs \ {r} : runs'[s] = runs[s] /\ scan'[s] = scan[s]
          /\ runs'[r] = [status |-> "running", targets |-> targets]
      BY <1>1, <1>2 DEF Start, quarantineVars, Types, TypeOK, NothingSlips
    <2>2. runs'[r] # None
      BY <2>1, NullsAssumption DEF Run, Statuses
    <2> QED
      BY <2>1, <2>2, OneRunSlips
  <1>8. ASSUME NEW r \in Runs, ListFiles(r)
        PROVE  NothingSlips'
    <2> DEFINE next == [scan[r] EXCEPT !.todo = (@ \ {PerFile}) \cup FilesOf(runs[r].targets)]
    <2>1. scan[r] \in Scan /\ scan[r] # None /\ runs[r] # None
      BY <1>8 DEF ListFiles, Types, TypeOK, ScansHaveRuns
    <2>2. /\ SameReports /\ runs' = runs /\ seen' = seen
          /\ scan'[r] = next /\ \A s \in Runs \ {r} : scan'[s] = scan[s]
      BY <1>1, <1>8 DEF ListFiles, quarantineVars, Types, TypeOK
    <2>3. scan'[r] # None => scan'[r].found = scan[r].found
      BY <2>1, <2>2 DEF Scan
    <2>4. \A d \in seen[r] : Found(r, d) \/ Stored(r, d)
      BY <2>1 DEF NothingSlips
    <2>5. scan'[r] # None => \A d \in seen[r] : Found(r, d)' \/ Stored(r, d)'
      BY <2>2, <2>3, <2>4, StoredStays DEF Found
    <2>6. runs[r].status # "completed"
      BY <2>1 DEF Types, ScansHaveRuns
    <2> QED
      BY <2>1, <2>2, <2>5, <2>6, OneRunSlips
  <1>3. ASSUME NEW r \in Runs, NEW item, NEW hits \in SUBSET Detections, Detect(r, item, hits)
        PROVE  NothingSlips'
    <2> DEFINE next == [scan[r] EXCEPT !.todo = @ \ {item}, !.found = @ \cup hits]
    <2>1. scan[r] \in Scan /\ scan[r] # None /\ runs[r] # None
      BY <1>3 DEF Detect, Types, TypeOK, ScansHaveRuns
    <2>2. /\ SameReports /\ runs' = runs
          /\ scan' = [scan EXCEPT ![r] = next] /\ seen' = [seen EXCEPT ![r] = @ \cup hits]
      BY <1>1, <1>3 DEF Detect, quarantineVars
    <2>4. next \in Scan /\ next.found = scan[r].found \cup hits
      BY <2>1 DEF Scan
    <2> HIDE DEF next
    <2>5. /\ scan'[r] = next /\ seen'[r] = seen[r] \cup hits
          /\ \A s \in Runs \ {r} : scan'[s] = scan[s] /\ seen'[s] = seen[s]
      BY <2>2 DEF Types, TypeOK
    <2>6. \A d \in seen[r] : Found(r, d) \/ Stored(r, d)
      BY <2>1 DEF NothingSlips
    <2>7. \A d : Found(r, d) \/ d \in hits => Found(r, d)'
      BY <2>4, <2>5, NullsAssumption DEF Found
    <2> QED
      BY <2>1, <2>2, <2>5, <2>6, <2>7, StoredStays, OneRunSlips
  <1>4. ASSUME NEW r \in Runs, NEW f \in Findings, StoreFinding(r, f)
        PROVE  NothingSlips'
    <2>1. PICK d \in scan[r].found :
            /\ Reported' = Reported \cup {f}
            /\ rows'[f].run = r /\ <<rows'[f].path, rows'[f].signature>> = d
            /\ \A g \in Reported : rows'[g] = rows[g]
            /\ scan'[r] # None /\ scan'[r].found = scan[r].found \ {d}
            /\ \A s \in Runs \ {r} : scan'[s] = scan[s]
      BY <1>4, NewReport
    <2>2. SameReports
      BY <2>1 DEF SameReports
    <2>3. scan[r] # None /\ runs[r] # None /\ runs' = runs /\ seen' = seen
      BY <1>4 DEF StoreFinding, Types, ScansHaveRuns
    <2>4. Stored(r, d)'
      BY <2>1 DEF Stored
    <2>5. \A e : Found(r, e) => e = d \/ Found(r, e)'
      BY <2>1 DEF Found
    <2>6. \A e \in seen[r] : Found(r, e) \/ Stored(r, e)
      BY <2>3 DEF NothingSlips
    <2> QED
      BY <2>1, <2>2, <2>3, <2>4, <2>5, <2>6, StoredStays, OneRunSlips
  <1>5. ASSUME NEW r \in Runs, NEW status \in Statuses, runs[r] # None, SetStatus(r, status),
               scan' = scan \/ EndScan(r), rows' = rows, seen' = seen,
               status = "completed" =>
                   scan[r] # None /\ scan[r].found = {}
        PROVE  NothingSlips'
    <2>1. /\ runs'[r] = [runs[r] EXCEPT !.status = status]
          /\ \A s \in Runs \ {r} : runs'[s] = runs[s] /\ scan'[s] = scan[s]
          /\ scan'[r] = scan[r] \/ scan'[r] = None
      BY <1>5 DEF SetStatus, EndScan, Types, TypeOK
    <2>2. runs'[r] # None /\ runs'[r].status = status
      BY <1>5, <2>1, NullsAssumption DEF Types, TypeOK, Run
    <2>3. scan'[r] # None => \A d \in seen[r] : Found(r, d)' \/ Stored(r, d)
      BY <2>1 DEF NothingSlips, Found
    <2>4. status = "completed" => \A d \in seen[r] : Stored(r, d)
      BY <1>5 DEF NothingSlips, Found
    <2>5. SameReports
      BY <1>1, <1>5
    <2> QED
      BY <1>5, <2>1, <2>2, <2>3, <2>4, <2>5, StoredStays, OneRunSlips
  <1>6. ASSUME NEW r \in Runs, Complete(r) \/ Fail(r) \/ Cancel(r)
        PROVE  NothingSlips'
    BY <1>5, <1>6
    DEF Complete, Fail, Cancel, quarantineVars, Statuses, Types, ScansHaveRuns
  <1>7. ASSUME NEW r \in Runs, Die(r)
        PROVE  NothingSlips'
    <2>1. /\ SameReports /\ runs' = runs /\ seen' = seen /\ runs[r] # None
          /\ runs[r].status # "completed"
          /\ scan'[r] = None /\ \A s \in Runs \ {r} : scan'[s] = scan[s]
      BY <1>1, <1>7 DEF Die, EndScan, Types, TypeOK, ScansHaveRuns
    <2> QED
      BY <2>1, OneRunSlips
  <1> QED
    BY <1>2, <1>3, <1>4, <1>6, <1>7, <1>8, Detects DEF ScanNext

LEMMA SlipsAside ==
    ASSUME NothingSlips, SameReports, UNCHANGED scannerVars
    PROVE  NothingSlips'
  <1>1. \A r, d : Found(r, d) => Found(r, d)'
    BY DEF Found, scannerVars
  <1> QED
    BY <1>1, StoredStays DEF NothingSlips, scannerVars

\* A completed run has stored a finding for everything it detected.
THEOREM CompletedIsWholeAlways == Spec => []CompletedIsWhole
  <1>1. ScannerInit => NothingSlips
    BY DEF ScannerInit, NothingSlips
  <1>2. Types /\ NothingSlips /\ [Next]_vars => NothingSlips'
    <2>1. UNCHANGED vars => SameReports /\ UNCHANGED scannerVars
      BY DEF vars, scannerVars, SameReports, Reported
    <2> QED
      BY <2>1, SlipsScan, SlipsAside, VaultKeepsReports DEF Next
  <1>3. Types /\ NothingSlips => CompletedIsWhole
    BY DEF Types, ScansHaveRuns, NothingSlips, CompletedIsWhole, Found, Stored
  <1> QED
    BY <1>1, <1>2, <1>3, TypesAlways, PTL DEF Spec

=============================================================================
