--------------------------- MODULE IntegrityProofs ---------------------------
(***************************************************************************)
(* Proofs about the integrity engine of Manifest and Integrity, for any    *)
(* paths, files, processes and bounds.                                     *)
(*                                                                         *)
(* That an artifact is never without a signature (NeverUnsigned) is        *)
(* inductive once it is said that a writer about to rename the artifact    *)
(* has a signature in place (Signed).  That a run without drift vouches    *)
(* for the disk (SilenceMeansUnchanged) rests on what a comparison without *)
(* a difference says of two manifests (NoDiffVouches), and on a run's row, *)
(* manifest and snapshot staying together while other processes append     *)
(* rows of their own (Coherent, OwnRows, LocalStep).                       *)
(*                                                                         *)
(* The others need to know who can meet whom: a scan holds the lock until  *)
(* it expires (ScanHolds), a first run finds no baseline and keeps finding *)
(* none (FoundersFirst), and while nothing has gone wrong a process at     *)
(* work is the only one, so that what it has read or written is there      *)
(* still (Orderly).  Ordered puts them together; the lemmas named Effect   *)
(* say what each action does to its process, the rows and the artifacts.   *)
(***************************************************************************)
EXTENDS Integrity, SequenceTheorems, TLAPS

-----------------------------------------------------------------------------
(* The inductive invariant.                                                *)

\* A scan with a known-good manifest to compare with has built its own.
Past(r) == r.task = "scan" /\ r.artifact = "last-run" /\ r.known # None /\ r.at # "release"

Reporting == {"complete", "stage", "stageSig", "flipSig", "flip", "tell"}

\* What only a bless does, or a scan that has no known-good manifest.
Founding(r) ==
    \/ r.artifact = "baseline" /\ r.at \in {"stage", "stageSig", "flipSig", "flip", "tell"}
    \/ r.at \in {"forget", "register", "establish"}

\* Its manifest is that of the disk it saw, with hashes from the known-good one.
Walked(r) == r.seen \in Partial(Paths, Files) /\ r.current = Build(r.seen, r.known)

\* What process r holds belongs together and agrees with its row of rows.
Coherent(r, rows) ==
    r # Idle =>
        /\ r.run <= Len(rows)
        /\ r.at \in {"begin", "complete"} => r.task = "scan" /\ r.artifact = "last-run"
        /\ /\ r.task = "scan" /\ r.artifact = "last-run"
           /\ r.at \in {"read", "check", "begin", "complete"}
           => r.known # None
        /\ r.task = "scan" /\ Founding(r) => r.known = None
        /\ Past(r) => Walked(r)
        /\ Past(r) /\ r.at \in Reporting => r.run # 0
        /\ Past(r) /\ r.at \in Reporting \ {"complete"} =>
              rows[r.run].drift = Diff(r.known, r.current)

\* No two processes write one row.
OwnRows ==
    \A x, y \in Procs :
        /\ x # y /\ proc[x] # Idle /\ proc[y] # Idle
        /\ proc[x].run # 0
        => proc[x].run # proc[y].run

IInv == TypeOK /\ OwnRows /\ \A x \in Procs : Coherent(proc[x], runs)

\* A writer about to rename an artifact has put a signature in place.
Signed ==
    "damaged" \notin mishaps =>
        /\ \A a \in Artifacts : store[a].body # None => store[a].sig # None
        /\ \A x \in Procs : Label(x) = "flip" => store[proc[x].artifact].sig # None

-----------------------------------------------------------------------------
(* Manifests.                                                              *)

\* A file recorded like the entry it is compared with is the file of that entry, as far
\* as a scan can tell.
LEMMA RecordVouches ==
    ASSUME NEW p, NEW known \in Partial(Paths, Entry), p \in DOMAIN known,
           NEW f \in File, ~Changed(known[p], RecordOf(p, f, known))
    PROVE  Unchanged(known[p], f)
  <1> DEFINE e == known[p]
  <1>1. e \in Entry
    BY DEF Partial
  <1>2. CASE f.link
    <2>1. RecordOf(p, f, known) = Symlink(f)
      BY <1>2 DEF RecordOf
    <2>2. Symlink(f).kind = "symlink" /\ Symlink(f).target = f.body
      BY DEF Symlink, Bare
    <2> QED
      BY <1>1, <1>2, <2>1, <2>2 DEF Changed, Unchanged
  <1>3. CASE ~f.link /\ Carried(p, f, known)
    BY <1>3 DEF Carried, Unchanged
  <1>4. CASE ~f.link /\ ~Carried(p, f, known)
    <2>1. CASE f.size > MaxSize /\ p \notin Scripts
      <3>1. RecordOf(p, f, known) = Bare("size_only", f)
        BY <1>4, <2>1 DEF RecordOf
      <3> QED
        BY <1>1, <1>4, <3>1 DEF Bare, Changed, Unchanged
    <2>2. CASE ~(f.size > MaxSize /\ p \notin Scripts) /\ ~f.readable
      <3>1. RecordOf(p, f, known) = Bare("unreadable", f)
        BY <1>4, <2>2 DEF RecordOf
      <3> QED
        BY <1>1, <1>4, <3>1 DEF Bare, Changed, Unchanged
    <2>3. CASE ~(f.size > MaxSize /\ p \notin Scripts) /\ f.readable
      <3>1. RecordOf(p, f, known) = Hashed(f.body, f)
        BY <1>4, <2>3 DEF RecordOf
      <3>2. Hashed(f.body, f).kind = "hashed" /\ Hashed(f.body, f).hash = f.body
        BY DEF Hashed, Bare
      <3> QED
        BY <1>1, <1>4, <3>1, <3>2 DEF Changed, Unchanged
    <2> QED
      BY <2>1, <2>2, <2>3
  <1> QED
    BY <1>2, <1>3, <1>4 DEF File

\* If a disk's manifest, built with the known-good one to carry hashes from, does not
\* differ from it, the known-good one vouches for every file of the disk.
THEOREM NoDiffVouches ==
    ASSUME NEW known \in Partial(Paths, Entry), NEW files \in Partial(Paths, File),
           Diff(known, Build(files, known)) = NoDiff
    PROVE  Vouched(known, files)
  <1> DEFINE current == Build(files, known)
  <1>1. DOMAIN current = DOMAIN files
    BY DEF Build
  <1>2. /\ DOMAIN current \ DOMAIN known = {}
        /\ DOMAIN known \ DOMAIN current = {}
        /\ {p \in DOMAIN known \cap DOMAIN current : Changed(known[p], current[p])} = {}
    BY DEF Diff, NoDiff
  <1>3. DOMAIN files = DOMAIN known
    BY <1>1, <1>2
  <1>4. ASSUME NEW p \in DOMAIN files
        PROVE  Unchanged(known[p], files[p])
    <2>1. files[p] \in File
      BY DEF Partial
    <2>2. current[p] = RecordOf(p, files[p], known)
      BY DEF Build
    <2>3. ~Changed(known[p], RecordOf(p, files[p], known))
      BY <1>1, <1>2, <1>3, <2>2
    <2> QED
      BY <1>3, <2>1, <2>3, RecordVouches
  <1> QED
    BY <1>3, <1>4 DEF Vouched

\* What is recorded of a file is an entry.
LEMMA RecordType ==
    ASSUME NEW p, NEW previous, NEW f \in File,
           previous \in Manifests \/ DOMAIN previous = {}
    PROVE  RecordOf(p, f, previous) \in Entry
  <1>1. \A kind \in Kinds : Bare(kind, f) \in Entry
    BY DEF Bare, File, Entry
  <1>2. \A hash \in Bodies \cup {NoHash} : Hashed(hash, f) \in Entry
    BY <1>1 DEF Hashed, Bare, File, Entry, Kinds
  <1>3. CASE f.link
    <2>1. RecordOf(p, f, previous) = Symlink(f)
      BY <1>3 DEF RecordOf
    <2>2. Symlink(f) \in Entry
      BY <1>1 DEF Symlink, Bare, File, Entry, Kinds
    <2> QED
      BY <2>1, <2>2
  <1>4. CASE ~f.link /\ Carried(p, f, previous)
    <2>1. RecordOf(p, f, previous) = Hashed(previous[p].hash, f)
      BY <1>4 DEF RecordOf
    <2>2. previous[p] \in Entry
      BY <1>4 DEF Carried, Manifests, Partial
    <2>3. previous[p].hash \in Bodies \cup {NoHash}
      BY <2>2 DEF Entry
    <2> QED
      BY <1>2, <2>1, <2>3
  <1>5. CASE ~f.link /\ ~Carried(p, f, previous)
    <2>1. \/ RecordOf(p, f, previous) = Bare("size_only", f)
          \/ RecordOf(p, f, previous) = Bare("unreadable", f)
          \/ RecordOf(p, f, previous) = Hashed(f.body, f)
      BY <1>5 DEF RecordOf
    <2>2. f.body \in Bodies
      BY DEF File
    <2> QED
      BY <1>1, <1>2, <2>1, <2>2 DEF Kinds
  <1> QED
    BY <1>3, <1>4, <1>5 DEF File

\* What is built from a disk is a manifest.
LEMMA BuildType ==
    ASSUME NEW files \in Partial(Paths, Files), NEW previous,
           previous \in Manifests \/ DOMAIN previous = {}
    PROVE  Build(files, previous) \in Manifests
  <1>1. PICK D \in SUBSET Paths : files \in [D -> Files]
    BY DEF Partial
  <1>2. \A p \in D : RecordOf(p, files[p], previous) \in Entry
    BY <1>1, RecordType, IntegrityAssumption
  <1>3. Build(files, previous) \in [D -> Entry]
    BY <1>1, <1>2 DEF Build
  <1> QED
    BY <1>3 DEF Manifests, Partial

\* A difference of manifests is one of paths.
LEMMA DiffType ==
    ASSUME NEW base \in Manifests, NEW current \in Manifests
    PROVE  Diff(base, current) \in Found
  <1>1. DOMAIN base \subseteq Paths /\ DOMAIN current \subseteq Paths
    BY DEF Manifests, Partial
  <1> QED
    BY <1>1 DEF Diff, Found

-----------------------------------------------------------------------------
(* The type invariant.                                                     *)

\* A process that has begun is one, and stays one as its fields change.
LEMMA BegunType ==
    ASSUME NEW task \in {"scan", "bless"}, NEW artifact \in Artifacts
    PROVE  Begun(task, artifact) \in Process
  BY DEF Begun, Process, Labels

LEMMA AtType ==
    ASSUME TypeOK, NEW x \in Procs, Label(x) # "idle"
    PROVE  proc[x] \in Process /\ proc[x] # Idle
  BY DEF TypeOK, Label

\* A row changed within its type.
LEMMA ChangedRow ==
    ASSUME NEW S, NEW s \in Seq(S), NEW i, NEW e, i \in DOMAIN s => e \in S
    PROVE  [s EXCEPT ![i] = e] \in Seq(S)
  <1>1. Len(s) \in Nat /\ DOMAIN s = 1..Len(s) /\ s \in [1..Len(s) -> S]
    OBVIOUS
  <1>2. [s EXCEPT ![i] = e] \in [1..Len(s) -> S]
    BY <1>1
  <1> QED
    BY <1>1, <1>2, SeqDef

\* The bookkeeping of persistRun.
LEMMA PersistType ==
    ASSUME TypeOK, NEW x \in Procs, proc[x] \in Process,
           NEW status \in Statuses, NEW current \in Manifests \cup {None},
           NEW label \in Labels, PersistRun(x, status, current, label)
    PROVE  runs' \in Seq(Run) /\ proc' \in [Procs -> {Idle} \cup Process]
  <1>1. Row(status, current) \in Run
    BY DEF Row, Run, NoDiff, Found
  <1>2. runs' \in Seq(Run)
    BY <1>1 DEF PersistRun, TypeOK
  <1>3. Len(runs) + 1 \in Nat
    BY DEF TypeOK
  <1>4. [proc[x] EXCEPT !.run = Len(runs) + 1, !.at = label] \in Process
    BY <1>3 DEF Process
  <1> QED
    BY <1>2, <1>4 DEF PersistRun, TypeOK

\* A verdict is good for manifests only.
LEMMA GoodIsManifest ==
    ASSUME TypeOK, NEW x \in Procs, proc[x] \in Process
    PROVE  /\ Verdict(x) = "good" => proc[x].body \in Manifests
           /\ Verdict(x) = "absent" => proc[x].body = None
  <1>1. store[proc[x].artifact].sig \in Manifests \cup {None}
    BY DEF TypeOK, Process, Slot
  <1>2. CASE proc[x].body = None
    <2>1. Verdict(x) = "absent"
      BY <1>2, NullsAssumption DEF Verdict
    <2> QED
      BY <1>2, <2>1
  <1>3. CASE proc[x].body # None /\ proc[x].body = Broken
    <2>1. Verdict(x) = "corrupt"
      BY <1>3 DEF Verdict
    <2> QED
      BY <2>1
  <1>4. CASE proc[x].body \notin {None, Broken} /\ store[proc[x].artifact].sig = None
    <2>1. Verdict(x) = "corrupt"
      BY <1>4 DEF Verdict
    <2> QED
      BY <2>1
  <1>5. CASE proc[x].body \notin {None, Broken} /\ store[proc[x].artifact].sig # None
    <2>1. Verdict(x) = IF store[proc[x].artifact].sig = proc[x].body THEN "good" ELSE "tampered"
      BY <1>5 DEF Verdict
    <2> QED
      BY <1>1, <1>5, <2>1
  <1> QED
    BY <1>2, <1>3, <1>4, <1>5

LEMMA MishapType ==
    ASSUME TypeOK, NEW kind \in MishapKinds, Mishap(kind)
    PROVE  mishaps' \subseteq MishapKinds
  BY DEF TypeOK, Mishap

LEMMA JoinType ==
    ASSUME TypeOK, NEW task, Join(task)
    PROVE  mishaps' \subseteq MishapKinds
  BY DEF TypeOK, Join, MishapKinds

\* One step of a process on its way through a scan.
LEMMA ScanType ==
    ASSUME TypeOK, NEW x \in Procs, Coherent(proc[x], runs),
           \/ Acquire(x) \/ Skip(x) \/ LoadKnown(x) \/ Walk(x) \/ LoadLast(x) \/ Begin(x)
           \/ Complete(x) \/ Establish(x) \/ Tell(x) \/ Release(x)
    PROVE  TypeOK'
  <1>1. CASE Acquire(x)
    <2>1. Begun("scan", "baseline") \in Process
      BY BegunType DEF Artifacts
    <2> QED
      BY <1>1, <2>1, JoinType DEF Acquire, TypeOK
  <1>2. CASE Skip(x)
    <2>1. Row("skipped", None) \in Run
      BY DEF Row, Run, NoDiff, Found, Statuses
    <2> QED
      BY <1>2, <2>1 DEF Skip, TypeOK
  <1>3. CASE LoadKnown(x)
    <2>1. proc[x] \in Process
      BY <1>3 DEF LoadKnown, At, TypeOK
    <2>2. CASE /\ Verdict(x) \in {"absent", "good"}
               /\ proc' = [proc EXCEPT ![x].known = proc[x].body, ![x].body = None,
                                       ![x].at = "build"]
               /\ UNCHANGED runs
      <3>1. proc[x].body \in Manifests \cup {None}
        BY <2>1, <2>2, GoodIsManifest
      <3>2. [proc[x] EXCEPT !.known = proc[x].body, !.body = None, !.at = "build"] \in Process
        BY <2>1, <3>1 DEF Process, Labels
      <3> QED
        BY <1>3, <2>2, <3>2 DEF LoadKnown, TypeOK
    <2>3. CASE PersistRun(x, "tamper_suspected", None, "release")
      <3>1. runs' \in Seq(Run) /\ proc' \in [Procs -> {Idle} \cup Process]
        BY <2>1, <2>3, PersistType DEF Statuses, Labels
      <3> QED
        BY <1>3, <3>1 DEF LoadKnown, TypeOK
    <2>4. CASE PersistRun(x, "failed", None, "release")
      <3>1. runs' \in Seq(Run) /\ proc' \in [Procs -> {Idle} \cup Process]
        BY <2>1, <2>4, PersistType DEF Statuses, Labels
      <3> QED
        BY <1>3, <3>1 DEF LoadKnown, TypeOK
    <2> QED
      BY <1>3, <2>2, <2>3, <2>4 DEF LoadKnown
  <1>4. CASE Walk(x)
    <2>1. proc[x] \in Process
      BY <1>4 DEF Walk, At, TypeOK
    <2>2. CASE PersistRun(x, "aborted_limit", None, "release")
      <3>1. runs' \in Seq(Run) /\ proc' \in [Procs -> {Idle} \cup Process]
        BY <2>1, <2>2, PersistType DEF Statuses, Labels
      <3> QED
        BY <1>4, <3>1 DEF Walk, TypeOK
    <2>3. CASE ~PersistRun(x, "aborted_limit", None, "release")
      <3>1. Known(x) \in Manifests \/ DOMAIN Known(x) = {}
        BY <2>1 DEF Known, Process
      <3>2. Build(disk, Known(x)) \in Manifests
        BY <3>1, BuildType DEF TypeOK
      <3> DEFINE artifact == IF proc[x].known = None THEN "baseline" ELSE "last-run"
                 at == IF proc[x].known = None THEN "stage" ELSE "read"
      <3>3. artifact \in Artifacts /\ at \in Labels
        BY DEF Artifacts, Labels
      <3> HIDE DEF artifact, at
      <3>4. [proc[x] EXCEPT !.current = Build(disk, Known(x)), !.seen = disk,
                            !.artifact = artifact, !.at = at] \in Process
        BY <2>1, <3>2, <3>3 DEF Process, TypeOK
      <3>5. /\ proc' = [proc EXCEPT ![x].current = Build(disk, Known(x)), ![x].seen = disk,
                                    ![x].artifact = artifact, ![x].at = at]
            /\ UNCHANGED runs
        BY <1>4, <2>3 DEF Walk, artifact, at
      <3>6. proc' \in [Procs -> {Idle} \cup Process]
        BY <3>4, <3>5 DEF TypeOK
      <3> QED
        BY <1>4, <3>5, <3>6 DEF Walk, TypeOK
    <2> QED
      BY <2>2, <2>3
  <1>5. CASE LoadLast(x)
    <2>1. proc[x] \in Process
      BY <1>5 DEF LoadLast, At, TypeOK
    <2>2. (IF Verdict(x) = "good" THEN proc[x].body ELSE None) \in Manifests \cup {None}
      BY <2>1, GoodIsManifest
    <2>3. [proc[x] EXCEPT !.last = IF Verdict(x) = "good" THEN proc[x].body ELSE None,
                          !.body = None, !.at = "begin"] \in Process
      BY <2>1, <2>2 DEF Process, Labels
    <2> QED
      BY <1>5, <2>3 DEF LoadLast, TypeOK
  <1>6. CASE Begin(x)
    <2>1. proc[x] \in Process
      BY <1>6 DEF Begin, At, TypeOK
    <2>2. proc[x].current \in Manifests \cup {None}
      BY <2>1 DEF Process
    <2>3. runs' \in Seq(Run) /\ proc' \in [Procs -> {Idle} \cup Process]
      BY <1>6, <2>1, <2>2, PersistType DEF Begin, Statuses, Labels
    <2> QED
      BY <1>6, <2>3 DEF Begin, TypeOK
  <1>8. CASE Establish(x)
    <2>1. proc[x] \in Process
      BY <1>8 DEF Establish, At, TypeOK
    <2>2. proc[x].current \in Manifests \cup {None}
      BY <2>1 DEF Process
    <2>3. runs' \in Seq(Run) /\ proc' \in [Procs -> {Idle} \cup Process]
      BY <1>8, <2>1, <2>2, PersistType DEF Establish, Statuses, Labels
    <2> QED
      BY <1>8, <2>3 DEF Establish, TypeOK
  <1>7. CASE Complete(x)
    <2> DEFINE r == proc[x]
    <2>1. r \in Process /\ r # Idle /\ r.at = "complete" /\ r.task = "scan"
      BY <1>7 DEF Complete, At, TypeOK
    <2>2. Past(r) /\ Walked(r)
      BY <2>1 DEF Coherent, Past
    <2>3. r.known \in Manifests /\ r.current \in Manifests
      BY <2>1, <2>2, BuildType DEF Past, Walked, Process
    <2>4. Reference(x) \in Manifests
      BY <2>1, <2>3 DEF Reference, Process
    <2>5. Diff(Reference(x), r.current) \in Found /\ Diff(r.known, r.current) \in Found
      BY <2>3, <2>4, DiffType
    <2> HIDE DEF r
    <2>6. \A row \in Run : [row EXCEPT !.status = "completed",
                                      !.delta = Diff(Reference(x), r.current),
                                      !.drift = Diff(r.known, r.current)] \in Run
      BY <2>5 DEF Run, Statuses
    <2>7. \A i \in DOMAIN runs : runs[i] \in Run
      BY DEF TypeOK
    <2>8. runs' \in Seq(Run)
      BY <1>7, <2>6, <2>7, ChangedRow DEF Complete, r, TypeOK
    <2>9. [r EXCEPT !.last = None, !.at = "stage"] \in Process
      BY <2>1 DEF Process, Labels
    <2> QED
      BY <1>7, <2>8, <2>9 DEF Complete, TypeOK, r
  <1>9. CASE Tell(x)
    <2>1. proc[x] \in Process
      BY <1>9 DEF Tell, At, TypeOK
    <2>2. runs' \in Seq(Run)
      <3>1. \A row \in Run : [row EXCEPT !.told = TRUE] \in Run
        BY DEF Run
      <3>2. \A i \in DOMAIN runs : runs[i] \in Run
        BY DEF TypeOK
      <3> QED
        BY <1>9, <3>1, <3>2, ChangedRow DEF Tell, TypeOK
    <2>3. [proc[x] EXCEPT !.at = "release"] \in Process
      BY <2>1 DEF Process, Labels
    <2> QED
      BY <1>9, <2>2, <2>3 DEF Tell, TypeOK
  <1>10. CASE Release(x)
    BY <1>10 DEF Release, TypeOK
  <1> QED
    BY <1>1, <1>2, <1>3, <1>4, <1>5, <1>6, <1>7, <1>8, <1>9, <1>10

\* One step of a process through a bless or a write, or to its end.
LEMMA WriteType ==
    ASSUME TypeOK, NEW x \in Procs,
           \/ BlessStart(x) \/ LoadForBless(x) \/ ReadBody(x) \/ Stage(x) \/ StageSig(x)
           \/ FlipSig(x) \/ Flip(x) \/ Forget(x) \/ Register(x) \/ Throw(x) \/ Kill(x)
    PROVE  TypeOK'
  <1>0. \A a \in Artifacts : store[a] \in Slot
    BY DEF TypeOK
  <1>1. CASE BlessStart(x)
    <2>1. Begun("bless", "last-run") \in Process
      BY BegunType DEF Artifacts
    <2>2. mishaps' \subseteq MishapKinds
      BY <1>1, JoinType DEF BlessStart
    <2>3. blesses' \in 0..MaxBlesses
      BY <1>1, IntegrityAssumption DEF BlessStart, TypeOK
    <2> QED
      BY <1>1, <2>1, <2>2, <2>3 DEF BlessStart, TypeOK
  <1>2. CASE LoadForBless(x)
    <2>1. proc[x] \in Process
      BY <1>2 DEF LoadForBless, At, TypeOK
    <2>2. CASE Verdict(x) = "good"
      <3>1. proc[x].body \in Manifests
        BY <2>1, <2>2, GoodIsManifest
      <3>2. [proc[x] EXCEPT !.current = proc[x].body, !.body = None,
                            !.artifact = "baseline", !.at = "stage"] \in Process
        BY <2>1, <3>1 DEF Process, Labels, Artifacts
      <3> QED
        BY <1>2, <2>2, <3>2 DEF LoadForBless, TypeOK
    <2>3. CASE Verdict(x) # "good"
      BY <1>2, <2>3 DEF LoadForBless, TypeOK
    <2> QED
      BY <2>2, <2>3
  <1>3. CASE ReadBody(x)
    <2>1. proc[x] \in Process
      BY <1>3, AtType DEF ReadBody
    <2>2. store[proc[x].artifact].body \in Manifests \cup {None, Forged, Broken}
      BY <1>0, <2>1 DEF Process, Slot
    <2>3. [proc[x] EXCEPT !.body = store[proc[x].artifact].body, !.at = "check"] \in Process
      BY <2>1, <2>2 DEF Process, Labels
    <2> QED
      BY <1>3, <2>3 DEF ReadBody, TypeOK
  <1>4. CASE Stage(x)
    <2>1. proc[x] \in Process
      BY <1>4, AtType DEF Stage
    <2>2. [proc[x] EXCEPT !.at = "stageSig"] \in Process
      BY <2>1 DEF Process, Labels
    <2>3. proc[x].artifact \in Artifacts /\ proc[x].current \in Manifests \cup {None}
      BY <2>1 DEF Process
    <2>4. [store[proc[x].artifact] EXCEPT !.tmp = proc[x].current] \in Slot
      BY <1>0, <2>3 DEF Slot
    <2> QED
      BY <1>4, <2>2, <2>4 DEF Stage, TypeOK
  <1>5. CASE StageSig(x)
    <2>1. proc[x] \in Process
      BY <1>5, AtType DEF StageSig
    <2>2. [proc[x] EXCEPT !.at = "flipSig"] \in Process
      BY <2>1 DEF Process, Labels
    <2>3. proc[x].artifact \in Artifacts /\ proc[x].current \in Manifests \cup {None}
      BY <2>1 DEF Process
    <2>4. [store[proc[x].artifact] EXCEPT !.sigTmp = proc[x].current] \in Slot
      BY <1>0, <2>3 DEF Slot
    <2> QED
      BY <1>5, <2>2, <2>4 DEF StageSig, TypeOK
  <1>6. CASE FlipSig(x)
    <2> DEFINE a == proc[x].artifact
    <2>1. proc[x] \in Process
      BY <1>6, AtType DEF FlipSig
    <2>2. [proc[x] EXCEPT !.at = "flip"] \in Process
      BY <2>1 DEF Process, Labels
    <2>3. a \in Artifacts
      BY <2>1 DEF Process
    <2>4. [store[a] EXCEPT !.sig = store[a].sigTmp, !.sigTmp = None] \in Slot
      BY <1>0, <2>3 DEF Slot
    <2> HIDE DEF a
    <2>5. store' = [store EXCEPT ![a].sig = store[a].sigTmp, ![a].sigTmp = None]
      BY <1>6 DEF FlipSig, a
    <2>6. store' \in [Artifacts -> Slot]
      BY <2>4, <2>5 DEF TypeOK
    <2> QED
      BY <1>6, <2>2, <2>6 DEF FlipSig, TypeOK
  <1>7. CASE Flip(x)
    <2> DEFINE a == proc[x].artifact
    <2>1. proc[x] \in Process
      BY <1>7, AtType DEF Flip
    <2>2. Written(x) \in Process
      <3>1. \/ Written(x) = [proc[x] EXCEPT !.artifact = "last-run", !.at = "stage"]
            \/ Written(x) = [proc[x] EXCEPT !.at = "tell"]
            \/ Written(x) = [proc[x] EXCEPT !.at = "forget"]
        BY DEF Written
      <3> QED
        BY <2>1, <3>1 DEF Process, Labels, Artifacts
    <2>3. a \in Artifacts
      BY <2>1 DEF Process
    <2>4. [store[a] EXCEPT !.body = store[a].tmp, !.tmp = None] \in Slot
      BY <1>0, <2>3 DEF Slot
    <2> HIDE DEF a
    <2>5. store' = [store EXCEPT ![a].body = store[a].tmp, ![a].tmp = None]
      BY <1>7 DEF Flip, a
    <2>6. store' \in [Artifacts -> Slot]
      BY <2>4, <2>5 DEF TypeOK
    <2> QED
      BY <1>7, <2>2, <2>6 DEF Flip, TypeOK
  <1>8. CASE Forget(x)
    <2>1. proc[x] \in Process
      BY <1>8, AtType DEF Forget
    <2>2. [proc[x] EXCEPT !.at = "register"] \in Process
      BY <2>1 DEF Process, Labels
    <2> QED
      BY <1>8, <2>2 DEF Forget, TypeOK
  <1>9. CASE Register(x)
    <2>1. proc[x] \in Process
      BY <1>9, AtType DEF Register
    <2>2. [proc[x] EXCEPT !.at = "establish"] \in Process
      BY <2>1 DEF Process, Labels
    <2> QED
      BY <1>9, <2>2 DEF Register, TypeOK
  <1>10. CASE Throw(x)
    <2>1. proc[x] \in Process
      BY <1>10, AtType DEF Throw, MayThrow
    <2>2. [proc[x] EXCEPT !.at = "release"] \in Process
      BY <2>1 DEF Process, Labels
    <2>3. runs' \in Seq(Run)
      <3>1. \A row \in Run : [row EXCEPT !.status = "failed"] \in Run
        BY DEF Run, Statuses
      <3>2. \A i \in DOMAIN runs : runs[i] \in Run
        BY DEF TypeOK
      <3> QED
        BY <1>10, <3>1, <3>2, ChangedRow DEF Throw, TypeOK
    <2>4. mishaps' \subseteq MishapKinds
      BY <1>10, MishapType DEF Throw, TypeOK, MishapKinds
    <2> QED
      BY <1>10, <2>2, <2>3, <2>4 DEF Throw, TypeOK
  <1>11. CASE Kill(x)
    <2>1. mishaps' \subseteq MishapKinds
      BY <1>11, MishapType DEF Kill, MishapKinds
    <2> QED
      BY <1>11, <2>1 DEF Kill, TypeOK
  <1> QED
    BY <1>1, <1>2, <1>3, <1>4, <1>5, <1>6, <1>7, <1>8, <1>9, <1>10, <1>11

\* What happens to the lock, the artifacts and the disk.
LEMMA SurroundingsType ==
    ASSUME TypeOK,
           \/ Expire \/ (\E a \in Artifacts : Damage(a)) \/ (\E p \in Paths : Edit(p))
    PROVE  TypeOK'
  <1>1. CASE Expire
    <2>1. mishaps' \subseteq MishapKinds
      BY <1>1, MishapType DEF Expire, TypeOK, MishapKinds
    <2> QED
      BY <1>1, <2>1 DEF Expire, TypeOK
  <1>2. ASSUME NEW a \in Artifacts, Damage(a)
        PROVE  TypeOK'
    <2>1. mishaps' \subseteq MishapKinds
      BY <1>2, MishapType DEF Damage, MishapKinds
    <2>2. store[a] \in Slot
      BY DEF TypeOK
    <2>3. /\ [store[a] EXCEPT !.body = Forged] \in Slot
          /\ [store[a] EXCEPT !.body = Broken] \in Slot
          /\ [store[a] EXCEPT !.sig = None] \in Slot
      BY <2>2 DEF Slot
    <2>4. store' \in [Artifacts -> Slot]
      BY <1>2, <2>3 DEF Damage, TypeOK
    <2> QED
      BY <1>2, <2>1, <2>4 DEF Damage, TypeOK
  <1>3. ASSUME NEW p \in Paths, Edit(p)
        PROVE  TypeOK'
    <2>1. PICK D \in SUBSET Paths : disk \in [D -> Files]
      BY DEF TypeOK, Partial
    <2>2. \/ disk' \in [D \cup {p} -> Files]
          \/ disk' \in [D \ {p} -> Files]
      BY <1>3, <2>1 DEF Edit
    <2>3. disk' \in Partial(Paths, Files)
      BY <2>2 DEF Partial
    <2>4. edits' \in 0..MaxEdits
      BY <1>3, IntegrityAssumption DEF Edit, TypeOK
    <2> QED
      BY <1>3, <2>3, <2>4 DEF Edit, TypeOK
  <1> QED
    BY <1>1, <1>2, <1>3

-----------------------------------------------------------------------------
(* Processes and their rows.                                               *)

\* A step of process x leaves the other processes and their rows alone, and x without a
\* row, with the one it had or with a new one.
Local(x) ==
    /\ \A y \in Procs \ {x} : proc'[y] = proc[y]
    /\ Len(runs') >= Len(runs)
    /\ \A i \in DOMAIN runs :
          runs'[i].drift # runs[i].drift => proc[x] # Idle /\ proc[x].run = i
    /\ proc'[x] # Idle =>
          \/ proc'[x].run \in {0, Len(runs) + 1}
          \/ proc[x] # Idle /\ proc'[x].run = proc[x].run

\* A new row.
LEMMA AppendedRows ==
    ASSUME TypeOK, NEW row \in Run, runs' = Append(runs, row)
    PROVE  /\ Len(runs') = Len(runs) + 1
           /\ \A i \in DOMAIN runs : runs'[i] = runs[i]
           /\ runs'[Len(runs) + 1] = row
  BY DEF TypeOK

LEMMA PersistLocal ==
    ASSUME TypeOK, NEW x \in Procs, proc[x] \in Process, NEW status \in Statuses,
           NEW current \in Manifests \cup {None}, NEW label \in Labels,
           PersistRun(x, status, current, label)
    PROVE  /\ Local(x)
           /\ Len(runs') = Len(runs) + 1
           /\ proc'[x] = [proc[x] EXCEPT !.run = Len(runs) + 1, !.at = label]
  <1>1. Row(status, current) \in Run
    BY DEF Row, Run, NoDiff, Found
  <1>2. /\ Len(runs') = Len(runs) + 1
        /\ \A i \in DOMAIN runs : runs'[i] = runs[i]
    BY <1>1, AppendedRows DEF PersistRun
  <1>3. /\ \A y \in Procs \ {x} : proc'[y] = proc[y]
        /\ proc'[x] = [proc[x] EXCEPT !.run = Len(runs) + 1, !.at = label]
    BY DEF PersistRun, TypeOK
  <1>4. proc'[x].run = Len(runs) + 1
    BY <1>3 DEF Process
  <1>5. Len(runs) \in Nat
    BY DEF TypeOK
  <1> QED
    BY <1>2, <1>3, <1>4, <1>5 DEF Local

\* Such a step keeps the invariant if it keeps it of x.
LEMMA LocalStep ==
    ASSUME IInv, NEW x \in Procs, Local(x), TypeOK', Coherent(proc'[x], runs')
    PROVE  IInv'
  <1>0. Len(runs) \in Nat /\ Len(runs') \in Nat /\ DOMAIN runs = 1..Len(runs)
    BY DEF IInv, TypeOK
  <1>1. ASSUME NEW y \in Procs, y # x
        PROVE  Coherent(proc'[y], runs')
    <2> DEFINE r == proc[y]
    <2>1. proc'[y] = r
      BY <1>1 DEF Local
    <2>2. CASE r = Idle
      BY <2>1, <2>2 DEF Coherent
    <2>3. CASE r # Idle
      <3>1. Coherent(r, runs) /\ r \in Process
        BY <2>3 DEF IInv, TypeOK
      <3>2. r.run \in Nat /\ r.run <= Len(runs)
        BY <2>3, <3>1 DEF Coherent, Process
      <3>3. r.run # 0 => runs'[r.run].drift = runs[r.run].drift
        <4>1. ASSUME r.run # 0, runs'[r.run].drift # runs[r.run].drift
              PROVE  FALSE
          <5>1. r.run \in DOMAIN runs
            BY <1>0, <3>2, <4>1
          <5>2. proc[x] # Idle /\ proc[x].run = r.run
            BY <4>1, <5>1 DEF Local
          <5>3. r.run # proc[x].run
            BY <1>1, <2>3, <4>1, <5>2 DEF IInv, OwnRows
          <5> QED
            BY <5>2, <5>3
        <4> QED
          BY <4>1
      <3>4. r.run <= Len(runs')
        BY <1>0, <3>2 DEF Local
      <3> HIDE DEF r
      <3> QED
        BY <2>1, <2>3, <3>1, <3>3, <3>4 DEF Coherent, Past, Walked, Reporting, Founding
    <2> QED
      BY <2>2, <2>3
  <1>2. OwnRows'
    <2> SUFFICES ASSUME NEW y \in Procs, NEW z \in Procs, y # z,
                        proc'[y] # Idle, proc'[z] # Idle, proc'[y].run # 0
                 PROVE  proc'[y].run # proc'[z].run
      BY DEF OwnRows
    <2>1. \A w \in Procs : proc[w] # Idle => proc[w].run \in Nat /\ proc[w].run <= Len(runs)
      BY DEF IInv, TypeOK, Coherent, Process
    <2>2. \A w \in Procs \ {x} : proc'[w] = proc[w]
      BY DEF Local
    <2>3. CASE y # x /\ z # x
      BY <2>2, <2>3 DEF IInv, OwnRows
    <2>4. CASE y = x
      BY <1>0, <2>1, <2>2, <2>4 DEF IInv, OwnRows, Local
    <2>5. CASE z = x
      BY <1>0, <2>1, <2>2, <2>5 DEF IInv, OwnRows, Local
    <2> QED
      BY <2>3, <2>4, <2>5
  <1> QED
    BY <1>1, <1>2 DEF IInv

\* A step of x that leaves the rows and x's row number alone.
LEMMA QuietLocal ==
    ASSUME TypeOK, NEW x \in Procs, NEW r, proc' = [proc EXCEPT ![x] = r], runs' = runs,
           r # Idle => r.run = 0 \/ (proc[x] # Idle /\ r.run = proc[x].run)
    PROVE  Local(x) /\ proc'[x] = r
  BY DEF Local, TypeOK

\* A scan that is over has nothing left to agree with but the number of its row.
LEMMA ReleasedCoherent ==
    ASSUME NEW q, NEW rows, q.at = "release", q.run <= Len(rows)
    PROVE  Coherent(q, rows)
  BY DEF Coherent, Past, Founding

\* Nor has a process without a known-good manifest to compare with.
LEMMA NothingKnownCoherent ==
    ASSUME NEW q, NEW rows, q.run <= Len(rows), q.known = None,
           q.at \notin {"begin", "complete"},
           ~(q.task = "scan" /\ q.artifact = "last-run" /\ q.at \in {"read", "check"})
    PROVE  Coherent(q, rows)
  BY DEF Coherent, Past

\* Nor has a bless.
LEMMA BlessCoherent ==
    ASSUME NEW q, NEW rows, q.run <= Len(rows), q.task = "bless",
           q.at \notin {"begin", "complete"}
    PROVE  Coherent(q, rows)
  BY DEF Coherent, Past

\* Each step of a scan.
LEMMA ScanCoherent ==
    ASSUME IInv, NEW x \in Procs,
           \/ Acquire(x) \/ Skip(x) \/ LoadKnown(x) \/ Walk(x) \/ LoadLast(x) \/ Begin(x)
           \/ Complete(x) \/ Establish(x) \/ Tell(x) \/ Release(x)
    PROVE  Local(x) /\ Coherent(proc'[x], runs')
  <1> DEFINE r == proc[x]
  <1>0. TypeOK /\ Coherent(r, runs) /\ Len(runs) \in Nat /\ DOMAIN runs = 1..Len(runs)
    BY DEF IInv, TypeOK
  <1>1. CASE Acquire(x)
    <2>1. Local(x) /\ proc'[x] = Begun("scan", "baseline")
      BY <1>0, <1>1, QuietLocal DEF Acquire, Begun
    <2>2. runs' = runs
      BY <1>1 DEF Acquire
    <2> DEFINE q == Begun("scan", "baseline")
    <2>3. q.run = 0 /\ q.known = None /\ q.at = "read" /\ q.artifact = "baseline"
      BY DEF Begun
    <2> HIDE DEF q
    <2>4. Coherent(q, runs')
      BY <1>0, <2>2, <2>3, NothingKnownCoherent
    <2> QED
      BY <2>1, <2>4 DEF q
  <1>2. CASE Skip(x)
    <2>1. Row("skipped", None) \in Run
      BY DEF Row, Run, NoDiff, Found, Statuses
    <2>2. /\ Len(runs') = Len(runs) + 1
          /\ \A i \in DOMAIN runs : runs'[i] = runs[i]
      BY <1>0, <1>2, <2>1, AppendedRows DEF Skip
    <2>3. proc' = proc /\ proc[x] = Idle
      BY <1>2 DEF Skip
    <2> QED
      BY <1>0, <2>2, <2>3 DEF Local, Coherent
  <1>3. CASE LoadKnown(x)
    <2>1. r \in Process /\ r # Idle /\ r.at = "check" /\ r.artifact = "baseline"
      BY <1>0, <1>3 DEF LoadKnown, At, TypeOK
    <2>2. CASE /\ proc' = [proc EXCEPT ![x].known = proc[x].body, ![x].body = None,
                                       ![x].at = "build"]
               /\ UNCHANGED runs
      <3> DEFINE q == [r EXCEPT !.known = r.body, !.body = None, !.at = "build"]
      <3>1. q.run = r.run /\ q.artifact = "baseline" /\ q.at = "build"
        BY <2>1 DEF Process
      <3> HIDE DEF q
      <3>2. proc' = [proc EXCEPT ![x] = q]
        BY <2>2 DEF q
      <3>3. Local(x) /\ proc'[x] = q
        BY <1>0, <2>1, <2>2, <3>1, <3>2, QuietLocal
      <3>4. q.run <= Len(runs')
        BY <1>0, <2>1, <2>2, <3>1 DEF Coherent
      <3>5. Coherent(q, runs')
        BY <3>1, <3>4 DEF Coherent, Past, Founding
      <3> QED
        BY <3>3, <3>5
    <2>3. ASSUME NEW status \in Statuses, PersistRun(x, status, None, "release")
          PROVE  Local(x) /\ Coherent(proc'[x], runs')
      <3>1. /\ Local(x) /\ Len(runs') = Len(runs) + 1
            /\ proc'[x] = [r EXCEPT !.run = Len(runs) + 1, !.at = "release"]
        BY <1>0, <2>1, <2>3, PersistLocal DEF Labels
      <3>2. proc'[x].at = "release" /\ proc'[x].run <= Len(runs')
        BY <1>0, <2>1, <3>1 DEF Process
      <3> QED
        BY <3>1, <3>2, ReleasedCoherent
    <2> QED
      BY <1>3, <2>2, <2>3 DEF LoadKnown, Statuses
  <1>4. CASE Walk(x)
    <2>1. r \in Process /\ r # Idle /\ r.at = "build" /\ r.task = "scan"
      BY <1>0, <1>4 DEF Walk, At, TypeOK
    <2>2. CASE PersistRun(x, "aborted_limit", None, "release")
      <3>1. /\ Local(x) /\ Len(runs') = Len(runs) + 1
            /\ proc'[x] = [r EXCEPT !.run = Len(runs) + 1, !.at = "release"]
        BY <1>0, <2>1, <2>2, PersistLocal DEF Labels, Statuses
      <3>2. proc'[x].at = "release" /\ proc'[x].run <= Len(runs')
        BY <1>0, <2>1, <3>1 DEF Process
      <3> QED
        BY <3>1, <3>2, ReleasedCoherent
    <2>3. CASE ~PersistRun(x, "aborted_limit", None, "release")
      <3> DEFINE artifact == IF r.known = None THEN "baseline" ELSE "last-run"
                 at == IF r.known = None THEN "stage" ELSE "read"
                 q == [r EXCEPT !.current = Build(disk, Known(x)), !.seen = disk,
                                !.artifact = artifact, !.at = at]
      <3>1. /\ q.run = r.run /\ q.artifact = artifact /\ q.at = at /\ q.known = r.known
            /\ q.current = Build(disk, Known(x)) /\ q.seen = disk /\ q.task = "scan"
        BY <2>1 DEF Process
      <3>2. /\ proc' = [proc EXCEPT ![x].current = Build(disk, Known(x)), ![x].seen = disk,
                                    ![x].artifact = artifact, ![x].at = at]
            /\ runs' = runs
        BY <1>4, <2>3 DEF Walk
      <3> HIDE DEF q
      <3>3. proc' = [proc EXCEPT ![x] = q]
        BY <3>2 DEF q
      <3>4. Local(x) /\ proc'[x] = q
        BY <1>0, <2>1, <3>1, <3>2, <3>3, QuietLocal
      <3>5. r.known # None => Walked(q) /\ q.at = "read"
        BY <1>0, <3>1 DEF Walked, Known, TypeOK
      <3>6. r.known = None => q.at = "stage" /\ q.known = None
        BY <3>1
      <3> HIDE DEF artifact, at
      <3> QED
        <4>1. q.run <= Len(runs')
          BY <1>0, <2>1, <3>1, <3>2 DEF Coherent
        <4>2. CASE r.known = None
          BY <3>1, <3>4, <3>6, <4>1, <4>2, NothingKnownCoherent
        <4>3. CASE r.known # None
          <5>1. Walked(q) /\ q.at = "read" /\ q.known # None
            BY <3>1, <3>5, <4>3
          <5>2. Coherent(q, runs')
            BY <4>1, <5>1 DEF Coherent, Founding, Reporting
          <5> QED
            BY <3>4, <5>2
        <4> QED
          BY <4>2, <4>3
    <2> QED
      BY <2>2, <2>3
  <1>5. CASE LoadLast(x)
    <2>1. /\ r \in Process /\ r # Idle /\ r.at = "check" /\ r.task = "scan"
          /\ r.artifact = "last-run"
      BY <1>0, <1>5 DEF LoadLast, At, TypeOK
    <2> DEFINE last == IF Verdict(x) = "good" THEN r.body ELSE None
               q == [r EXCEPT !.last = last, !.body = None, !.at = "begin"]
    <2>2. proc' = [proc EXCEPT ![x] = q] /\ runs' = runs
      BY <1>5 DEF LoadLast
    <2> HIDE DEF last
    <2>3. /\ q.run = r.run /\ q.artifact = r.artifact /\ q.at = "begin" /\ q.known = r.known
          /\ q.current = r.current /\ q.seen = r.seen /\ q.task = r.task
      BY <2>1 DEF Process
    <2> HIDE DEF q
    <2>4. Local(x) /\ proc'[x] = q
      BY <1>0, <2>1, <2>2, <2>3, QuietLocal
    <2> QED
      BY <1>0, <2>1, <2>2, <2>3, <2>4 DEF Coherent, Past, Walked, Reporting, Founding
  <1>6. CASE Begin(x)
    <2>1. r \in Process /\ r # Idle /\ r.at = "begin"
      BY <1>0, <1>6 DEF Begin, At, TypeOK
    <2>2. /\ Local(x) /\ Len(runs') = Len(runs) + 1
          /\ proc'[x] = [r EXCEPT !.run = Len(runs) + 1, !.at = "complete"]
      <3>1. r.current \in Manifests \cup {None}
        BY <2>1 DEF Process
      <3> QED
        BY <1>0, <1>6, <2>1, <3>1, PersistLocal DEF Begin, Labels, Statuses
    <2> DEFINE q == proc'[x]
    <2>3. /\ q.run = Len(runs) + 1 /\ q.artifact = r.artifact /\ q.at = "complete"
          /\ q.known = r.known /\ q.current = r.current /\ q.seen = r.seen /\ q.task = r.task
      BY <2>1, <2>2 DEF Process
    <2> HIDE DEF q
    <2>4. q.run # 0 /\ q.run <= Len(runs')
      BY <1>0, <2>2, <2>3
    <2>5. Coherent(q, runs')
      BY <1>0, <2>1, <2>3, <2>4 DEF Coherent, Past, Walked, Reporting, Founding
    <2> QED
      BY <2>2, <2>5 DEF q
  <1>7. CASE Complete(x)
    <2>1. r \in Process /\ r # Idle /\ r.at = "complete" /\ r.task = "scan"
      BY <1>0, <1>7 DEF Complete, At, TypeOK
    <2>2. Past(r) /\ Walked(r) /\ r.run # 0 /\ r.run \in Nat /\ r.run <= Len(runs)
      BY <1>0, <2>1 DEF Coherent, Past, Reporting, Process
    <2>3. r.run \in DOMAIN runs
      BY <1>0, <2>2
    <2> DEFINE q == [r EXCEPT !.last = None, !.at = "stage"]
    <2>4. /\ q.run = r.run /\ q.artifact = r.artifact /\ q.at = "stage" /\ q.known = r.known
          /\ q.current = r.current /\ q.seen = r.seen /\ q.task = r.task
      BY <2>1 DEF Process
    <2>5. /\ Len(runs') = Len(runs)
          /\ runs'[r.run].drift = Diff(r.known, r.current)
          /\ \A i \in DOMAIN runs : i # r.run => runs'[i] = runs[i]
      <3>1. runs[r.run] \in Run
        BY <2>3 DEF IInv, TypeOK
      <3> QED
        BY <1>0, <1>7, <2>3, <3>1 DEF Complete, TypeOK, Run
    <2>6. proc'[x] = q /\ \A y \in Procs \ {x} : proc'[y] = proc[y]
      BY <1>0, <1>7 DEF Complete, TypeOK
    <2> HIDE DEF q
    <2>7. Local(x)
      BY <1>0, <2>1, <2>4, <2>5, <2>6 DEF Local
    <2>8. Coherent(q, runs')
      BY <2>2, <2>4, <2>5 DEF Coherent, Past, Walked, Reporting, Founding
    <2> QED
      BY <2>6, <2>7, <2>8
  <1>8. CASE Establish(x)
    <2>1. r \in Process /\ r # Idle /\ r.at = "establish" /\ r.task = "scan"
      BY <1>0, <1>8 DEF Establish, At, TypeOK
    <2>2. r.known = None /\ r.current \in Manifests \cup {None}
      BY <1>0, <2>1 DEF Coherent, Founding, Process
    <2>3. /\ Local(x) /\ Len(runs') = Len(runs) + 1
          /\ proc'[x] = [r EXCEPT !.run = Len(runs) + 1, !.at = "tell"]
      BY <1>0, <1>8, <2>1, <2>2, PersistLocal DEF Establish, Labels, Statuses
    <2>4. /\ proc'[x].at = "tell" /\ proc'[x].known = None
          /\ proc'[x].run <= Len(runs')
      BY <1>0, <2>1, <2>2, <2>3 DEF Process
    <2> QED
      BY <2>3, <2>4, NothingKnownCoherent
  <1>9. CASE Tell(x)
    <2>1. r \in Process /\ r # Idle /\ r.at = "tell" /\ r.task = "scan"
      BY <1>0, <1>9 DEF Tell, At, TypeOK
    <2>2. r.run <= Len(runs)
      BY <1>0, <2>1 DEF Coherent
    <2>3. /\ Len(runs') = Len(runs)
          /\ \A i \in DOMAIN runs : i # r.run => runs'[i] = runs[i]
      BY <1>0, <1>9 DEF Tell, TypeOK
    <2>4. /\ proc'[x] = [r EXCEPT !.at = "release"]
          /\ \A y \in Procs \ {x} : proc'[y] = proc[y]
      BY <1>0, <1>9 DEF Tell, TypeOK
    <2>5. proc'[x].at = "release" /\ proc'[x].run = r.run
      BY <2>1, <2>4 DEF Process
    <2>6. Local(x)
      BY <1>0, <2>1, <2>3, <2>4, <2>5 DEF Local
    <2>7. Coherent(proc'[x], runs')
      BY <2>2, <2>3, <2>5, ReleasedCoherent
    <2> QED
      BY <2>6, <2>7
  <1>10. CASE Release(x)
    BY <1>0, <1>10, QuietLocal DEF Release, Coherent
  <1> QED
    BY <1>1, <1>2, <1>3, <1>4, <1>5, <1>6, <1>7, <1>8, <1>9, <1>10

\* The labels that follow each other without a look at the artifact or the task.
Onward ==
    {<<"read", "check">>, <<"stage", "stageSig">>, <<"stageSig", "flipSig">>,
     <<"flipSig", "flip">>, <<"forget", "register">>, <<"register", "establish">>}

\* A process that goes on to the next of them.
LEMMA OnwardCoherent ==
    ASSUME IInv, NEW x \in Procs, proc[x] \in Process, proc[x] # Idle, NEW q,
           q.run = proc[x].run, q.task = proc[x].task, q.artifact = proc[x].artifact,
           q.known = proc[x].known, q.current = proc[x].current, q.seen = proc[x].seen,
           <<proc[x].at, q.at>> \in Onward,
           proc' = [proc EXCEPT ![x] = q], runs' = runs
    PROVE  Local(x) /\ Coherent(proc'[x], runs')
  <1>1. Local(x) /\ proc'[x] = q
    BY QuietLocal DEF IInv
  <1>2. Coherent(proc[x], runs)
    BY DEF IInv
  <1>3. Coherent(q, runs)
    BY <1>2 DEF Coherent, Past, Walked, Reporting, Founding, Onward
  <1> QED
    BY <1>1, <1>3

\* Each step of a bless, and those of a writer.
LEMMA WriteCoherent ==
    ASSUME IInv, NEW x \in Procs,
           \/ BlessStart(x) \/ LoadForBless(x) \/ ReadBody(x) \/ Stage(x) \/ StageSig(x)
           \/ FlipSig(x) \/ Flip(x) \/ Forget(x) \/ Register(x) \/ Throw(x) \/ Kill(x)
    PROVE  Local(x) /\ Coherent(proc'[x], runs')
  <1> DEFINE r == proc[x]
  <1>0. TypeOK /\ Coherent(r, runs) /\ Len(runs) \in Nat /\ DOMAIN runs = 1..Len(runs)
    BY DEF IInv, TypeOK
  <1>1. CASE BlessStart(x)
    <2> DEFINE q == Begun("bless", "last-run")
    <2>1. Local(x) /\ proc'[x] = q
      BY <1>0, <1>1, QuietLocal DEF BlessStart, Begun
    <2>2. q.run = 0 /\ q.task = "bless" /\ q.at = "read" /\ runs' = runs
      BY <1>1 DEF Begun, BlessStart
    <2> HIDE DEF q
    <2>3. Coherent(q, runs')
      BY <1>0, <2>2, BlessCoherent
    <2> QED
      BY <2>1, <2>3
  <1>2. CASE LoadForBless(x)
    <2>1. r \in Process /\ r # Idle /\ r.task = "bless"
      BY <1>0, <1>2 DEF LoadForBless, At, TypeOK
    <2> DEFINE q == [r EXCEPT !.current = r.body, !.body = None,
                              !.artifact = "baseline", !.at = "stage"]
    <2>2. q.run = r.run /\ q.task = "bless" /\ q.at = "stage"
      BY <2>1 DEF Process
    <2>3. r.run <= Len(runs)
      BY <1>0, <2>1 DEF Coherent
    <2>4. /\ proc' = [proc EXCEPT ![x] = q] \/ proc' = [proc EXCEPT ![x] = Idle]
          /\ runs' = runs
      BY <1>2 DEF LoadForBless
    <2> HIDE DEF q
    <2>5. CASE proc' = [proc EXCEPT ![x] = q]
      <3>1. Local(x) /\ proc'[x] = q
        BY <1>0, <2>1, <2>2, <2>4, <2>5, QuietLocal
      <3> QED
        BY <2>2, <2>3, <2>4, <3>1, BlessCoherent
    <2>6. CASE proc' = [proc EXCEPT ![x] = Idle]
      BY <1>0, <2>4, <2>6, QuietLocal DEF Coherent
    <2> QED
      BY <2>4, <2>5, <2>6
  <1>3. CASE ReadBody(x)
    <2>1. r \in Process /\ r # Idle /\ r.at = "read"
      BY <1>0, <1>3, AtType DEF ReadBody, Label
    <2> DEFINE q == [r EXCEPT !.body = store[r.artifact].body, !.at = "check"]
    <2>2. /\ q.run = r.run /\ q.task = r.task /\ q.artifact = r.artifact /\ q.known = r.known
          /\ q.current = r.current /\ q.seen = r.seen /\ q.at = "check"
      BY <2>1 DEF Process
    <2>3. proc' = [proc EXCEPT ![x] = q] /\ runs' = runs
      BY <1>3 DEF ReadBody
    <2> HIDE DEF q
    <2>4. <<r.at, q.at>> \in Onward
      BY <2>1, <2>2 DEF Onward
    <2> QED
      BY <2>1, <2>2, <2>3, <2>4, OnwardCoherent
  <1>4. ASSUME NEW label, <<r.at, label>> \in Onward, r \in Process, r # Idle,
               proc' = [proc EXCEPT ![x].at = label], runs' = runs
        PROVE  Local(x) /\ Coherent(proc'[x], runs')
    <2> DEFINE q == [r EXCEPT !.at = label]
    <2>1. /\ q.run = r.run /\ q.task = r.task /\ q.artifact = r.artifact /\ q.known = r.known
          /\ q.current = r.current /\ q.seen = r.seen /\ q.at = label
      BY <1>4 DEF Process
    <2>2. proc' = [proc EXCEPT ![x] = q]
      BY <1>4
    <2> HIDE DEF q
    <2> QED
      BY <1>4, <2>1, <2>2, OnwardCoherent
  <1>5. CASE Stage(x) \/ StageSig(x) \/ FlipSig(x) \/ Forget(x)
    <2>1. r \in Process /\ r # Idle
      BY <1>0, <1>5, AtType DEF Stage, StageSig, FlipSig, Forget
    <2>2. CASE Stage(x)
      <3>1. <<r.at, "stageSig">> \in Onward
        BY <2>1, <2>2 DEF Stage, Label, Onward
      <3> QED
        BY <1>4, <2>1, <2>2, <3>1 DEF Stage
    <2>3. CASE StageSig(x)
      <3>1. <<r.at, "flipSig">> \in Onward
        BY <2>1, <2>3 DEF StageSig, Label, Onward
      <3> QED
        BY <1>4, <2>1, <2>3, <3>1 DEF StageSig
    <2>4. CASE FlipSig(x)
      <3>1. <<r.at, "flip">> \in Onward
        BY <2>1, <2>4 DEF FlipSig, Label, Onward
      <3> QED
        BY <1>4, <2>1, <2>4, <3>1 DEF FlipSig
    <2>5. CASE Forget(x)
      <3>1. <<r.at, "register">> \in Onward
        BY <2>1, <2>5 DEF Forget, Label, Onward
      <3> QED
        BY <1>4, <2>1, <2>5, <3>1 DEF Forget
    <2> QED
      BY <1>5, <2>2, <2>3, <2>4, <2>5
  <1>6. CASE Flip(x)
    <2>1. r \in Process /\ r # Idle /\ r.at = "flip"
      BY <1>0, <1>6, AtType DEF Flip, Label
    <2>2. proc' = [proc EXCEPT ![x] = Written(x)] /\ runs' = runs
      BY <1>6 DEF Flip
    <2>3. r.run <= Len(runs) /\ r.run \in Nat
      BY <1>0, <2>1 DEF Coherent, Process
    <2> DEFINE q == Written(x)
    <2>4. CASE r.artifact = "baseline" /\ r.task = "scan"
      <3>1. r.known = None
        BY <1>0, <2>1, <2>4 DEF Coherent, Founding
      <3>2. q = [r EXCEPT !.artifact = "last-run", !.at = "stage"]
        BY <2>4 DEF Written
      <3>3. q.run = r.run /\ q.known = None /\ q.at = "stage"
        BY <2>1, <3>1, <3>2 DEF Process
      <3> HIDE DEF q
      <3>4. Local(x) /\ proc'[x] = q
        BY <1>0, <2>1, <2>2, <3>3, QuietLocal DEF q
      <3> QED
        BY <2>2, <2>3, <3>3, <3>4, NothingKnownCoherent
    <2>5. CASE r.artifact = "last-run" /\ r.known # None
      <3>1. q = [r EXCEPT !.at = "tell"]
        BY <2>5 DEF Written
      <3>2. /\ q.run = r.run /\ q.task = r.task /\ q.artifact = r.artifact /\ q.known = r.known
            /\ q.current = r.current /\ q.seen = r.seen /\ q.at = "tell"
        BY <2>1, <3>1 DEF Process
      <3> HIDE DEF q
      <3>3. Local(x) /\ proc'[x] = q
        BY <1>0, <2>1, <2>2, <3>2, QuietLocal DEF q
      <3>4. Coherent(q, runs)
        BY <1>0, <2>1, <2>3, <2>5, <3>2 DEF Coherent, Past, Walked, Reporting, Founding
      <3> QED
        BY <2>2, <3>3, <3>4
    <2>6. CASE /\ ~(r.artifact = "baseline" /\ r.task = "scan")
               /\ ~(r.artifact = "last-run" /\ r.known # None)
      <3>1. q = [r EXCEPT !.at = "forget"]
        BY <2>6 DEF Written
      <3>2. q.run = r.run /\ q.task = r.task /\ q.known = r.known /\ q.at = "forget"
        BY <2>1, <3>1 DEF Process
      <3>3. r.task = "bless" \/ r.known = None
        BY <2>1, <2>6 DEF Process, Artifacts
      <3> HIDE DEF q
      <3>4. Local(x) /\ proc'[x] = q
        BY <1>0, <2>1, <2>2, <3>2, QuietLocal DEF q
      <3> QED
        BY <2>2, <2>3, <3>2, <3>3, <3>4, BlessCoherent, NothingKnownCoherent
    <2> QED
      BY <2>4, <2>5, <2>6
  <1>7. CASE Register(x)
    <2>1. r \in Process /\ r # Idle /\ r.at = "register"
      BY <1>0, <1>7, AtType DEF Register, Label
    <2>2. CASE r.task = "bless"
      BY <1>0, <1>7, <2>2, QuietLocal DEF Register, Coherent
    <2>3. CASE r.task # "bless"
      <3>1. proc' = [proc EXCEPT ![x].at = "establish"] /\ runs' = runs
        BY <1>7, <2>3 DEF Register
      <3>2. <<r.at, "establish">> \in Onward
        BY <2>1 DEF Onward
      <3> QED
        BY <1>4, <2>1, <3>1, <3>2
    <2> QED
      BY <2>2, <2>3
  <1>8. CASE Throw(x)
    <2>1. r \in Process /\ r # Idle
      BY <1>0, <1>8, AtType DEF Throw, MayThrow
    <2>2. r.run <= Len(runs) /\ r.run \in Nat
      BY <1>0, <2>1 DEF Coherent, Process
    <2> DEFINE q == IF r.task = "scan" THEN [r EXCEPT !.at = "release"] ELSE Idle
    <2>3. q # Idle => q.run = r.run /\ q.at = "release"
      BY <2>1 DEF Process
    <2>4. proc' = [proc EXCEPT ![x] = q]
      BY <1>8 DEF Throw
    <2> HIDE DEF q
    <2>5. /\ Len(runs') = Len(runs)
          /\ \A i \in DOMAIN runs : i # r.run => runs'[i] = runs[i]
      BY <1>0, <1>8 DEF Throw, TypeOK
    <2>6. proc'[x] = q /\ \A y \in Procs \ {x} : proc'[y] = proc[y]
      BY <1>0, <2>4 DEF TypeOK
    <2>7. Local(x)
      BY <1>0, <2>1, <2>3, <2>5, <2>6 DEF Local
    <2>8. CASE q = Idle
      BY <2>6, <2>7, <2>8 DEF Coherent
    <2>9. CASE q # Idle
      BY <2>2, <2>3, <2>5, <2>6, <2>7, <2>9, ReleasedCoherent
    <2> QED
      BY <2>8, <2>9
  <1>9. CASE Kill(x)
    BY <1>0, <1>9, QuietLocal DEF Kill, Coherent
  <1> QED
    BY <1>1, <1>2, <1>3, <1>5, <1>6, <1>7, <1>8, <1>9

-----------------------------------------------------------------------------
(* The theorems.                                                           *)

LEMMA InitIInv == Init => IInv
  <1> SUFFICES ASSUME Init
               PROVE  IInv
    OBVIOUS
  <1>1. runs \in Seq(Run)
    BY DEF Init
  <1>2. 0 \in 0..MaxEdits /\ 0 \in 0..MaxBlesses
    BY IntegrityAssumption
  <1>3. [body |-> None, sig |-> None, tmp |-> None, sigTmp |-> None] \in Slot
    BY DEF Slot
  <1>4. TypeOK
    BY <1>1, <1>2, <1>3 DEF Init, TypeOK
  <1>5. OwnRows /\ \A x \in Procs : Coherent(proc[x], runs)
    BY DEF Init, OwnRows, Coherent
  <1> QED
    BY <1>4, <1>5 DEF IInv

LEMMA StepIInv == IInv /\ [Next]_vars => IInv'
  <1> SUFFICES ASSUME IInv, [Next]_vars
               PROVE  IInv'
    OBVIOUS
  <1>0. TypeOK /\ \A x \in Procs : Coherent(proc[x], runs)
    BY DEF IInv
  <1>1. ASSUME NEW x \in Procs,
               \/ Acquire(x) \/ Skip(x) \/ LoadKnown(x) \/ Walk(x) \/ LoadLast(x) \/ Begin(x)
               \/ Complete(x) \/ Establish(x) \/ Tell(x) \/ Release(x)
        PROVE  IInv'
    <2>1. TypeOK'
      BY <1>0, <1>1, ScanType
    <2>2. Local(x) /\ Coherent(proc'[x], runs')
      BY <1>1, ScanCoherent
    <2> QED
      BY <2>1, <2>2, LocalStep
  <1>2. ASSUME NEW x \in Procs,
               \/ BlessStart(x) \/ LoadForBless(x) \/ ReadBody(x) \/ Stage(x) \/ StageSig(x)
               \/ FlipSig(x) \/ Flip(x) \/ Forget(x) \/ Register(x) \/ Throw(x) \/ Kill(x)
        PROVE  IInv'
    <2>1. TypeOK'
      BY <1>0, <1>2, WriteType
    <2>2. Local(x) /\ Coherent(proc'[x], runs')
      BY <1>2, WriteCoherent
    <2> QED
      BY <2>1, <2>2, LocalStep
  <1>3. CASE Expire \/ (\E a \in Artifacts : Damage(a)) \/ (\E p \in Paths : Edit(p))
    <2>1. TypeOK'
      BY <1>0, <1>3, SurroundingsType
    <2>2. proc' = proc /\ runs' = runs
      BY <1>3 DEF Expire, Damage, Edit
    <2> QED
      BY <2>1, <2>2 DEF IInv, OwnRows
  <1>4. CASE UNCHANGED vars
    BY <1>4 DEF vars, IInv, TypeOK, OwnRows
  <1> QED
    BY <1>1, <1>2, <1>3, <1>4 DEF Next

\* Rows and processes stay together, whatever interleaves, fails or is damaged.
THEOREM IInvAlways == Spec => []IInv
  BY InitIInv, StepIInv, PTL DEF Spec

\* TypeOK holds for all paths, files, processes and bounds.
THEOREM TypeCorrect == Spec => []TypeOK
  <1>1. IInv => TypeOK
    BY DEF IInv
  <1> QED
    BY <1>1, IInvAlways, PTL

\* A run that finds no drift vouches for the disk it saw, however many scans and
\* blesses interleave and whatever happens to the artifacts, the lock and the disk.
THEOREM SilenceMeansUnchangedAlways == Spec => []SilenceMeansUnchanged
  <1>1. IInv => SilenceMeansUnchanged
    <2> SUFFICES ASSUME IInv, NEW x \in Procs, At(x, "scan", "tell"), proc[x].known # None,
                        runs[proc[x].run].drift = NoDiff
                 PROVE  Vouched(proc[x].known, proc[x].seen)
      BY DEF SilenceMeansUnchanged
    <2> DEFINE r == proc[x]
    <2>1. r \in Process /\ r # Idle /\ r.task = "scan" /\ r.at = "tell"
      BY DEF IInv, TypeOK, At
    <2>2. Coherent(r, runs)
      BY DEF IInv
    <2>3. Past(r) /\ r.at \in Reporting \ {"complete"}
      BY <2>1, <2>2 DEF Coherent, Past, Founding, Reporting, Process, Artifacts
    <2>4. Walked(r) /\ runs[r.run].drift = Diff(r.known, r.current)
      BY <2>1, <2>2, <2>3 DEF Coherent
    <2>5. r.known \in Partial(Paths, Entry)
      BY <2>1 DEF Process, Manifests
    <2>6. r.seen \in Partial(Paths, File)
      BY <2>4, IntegrityAssumption DEF Walked, Partial
    <2> QED
      BY <2>4, <2>5, <2>6, NoDiffVouches DEF Walked
  <1> QED
    BY <1>1, IInvAlways, PTL

\* A step of x that moves neither an artifact nor a signature nor x to a rename.
LEMMA QuietSigned ==
    ASSUME TypeOK, Signed, NEW x \in Procs, mishaps \subseteq mishaps',
           \A a \in Artifacts :
              store'[a].body = store[a].body /\ store'[a].sig = store[a].sig,
           \A y \in Procs \ {x} : proc'[y] = proc[y],
           proc'[x] # Idle => proc'[x].at # "flip"
    PROVE  Signed'
  <1>1. \A y \in Procs : Label(y)' = "flip" => Label(y) = "flip" /\ proc'[y] = proc[y]
    BY DEF Label
  <1>2. \A y \in Procs : Label(y) = "flip" => proc[y].artifact \in Artifacts
    BY AtType DEF Process
  <1> QED
    BY <1>1, <1>2 DEF Signed

LEMMA ScanSigned ==
    ASSUME TypeOK, Signed, NEW x \in Procs,
           \/ Acquire(x) \/ Skip(x) \/ LoadKnown(x) \/ Walk(x) \/ LoadLast(x) \/ Begin(x)
           \/ Complete(x) \/ Establish(x) \/ Tell(x) \/ Release(x)
    PROVE  Signed'
  <1>1. mishaps \subseteq mishaps' /\ store' = store
    BY DEF Acquire, Skip, LoadKnown, Walk, LoadLast, Begin, Complete, Establish, Tell, Release,
           Join
  <1>2. \A y \in Procs \ {x} : proc'[y] = proc[y]
    BY DEF Acquire, Skip, LoadKnown, Walk, LoadLast, Begin, Complete, Establish, Tell, Release,
           PersistRun, TypeOK
  <1>3. proc'[x] # Idle => proc'[x].at # "flip"
    <2>1. CASE Acquire(x)
      BY <2>1 DEF Acquire, Begun, TypeOK
    <2>2. CASE Skip(x)
      BY <2>2 DEF Skip
    <2>3. CASE Release(x)
      BY <2>3 DEF Release, TypeOK
    <2>4. CASE \/ LoadKnown(x) \/ Walk(x) \/ LoadLast(x) \/ Begin(x)
               \/ Complete(x) \/ Establish(x) \/ Tell(x)
      <3>1. proc[x] \in Process
        BY <2>4 DEF LoadKnown, Walk, LoadLast, Begin, Complete, Establish, Tell, At, TypeOK
      <3>2. proc'[x].at \in {"build", "release", "stage", "read", "begin", "complete", "tell"}
        BY <2>4, <3>1 DEF LoadKnown, Walk, LoadLast, Begin, Complete, Establish, Tell,
                          PersistRun, TypeOK, Process
      <3> QED
        BY <3>2
    <2> QED
      BY <2>1, <2>2, <2>3, <2>4
  <1> QED
    BY <1>1, <1>2, <1>3, QuietSigned

LEMMA WriteSigned ==
    ASSUME TypeOK, Signed, NEW x \in Procs,
           \/ BlessStart(x) \/ LoadForBless(x) \/ ReadBody(x) \/ Stage(x) \/ StageSig(x)
           \/ FlipSig(x) \/ Flip(x) \/ Forget(x) \/ Register(x) \/ Throw(x) \/ Kill(x)
    PROVE  Signed'
  <1>1. mishaps \subseteq mishaps'
    BY DEF BlessStart, LoadForBless, ReadBody, Stage, StageSig, FlipSig, Flip, Forget, Register,
           Throw, Kill, Join, Mishap
  <1>2. \A y \in Procs \ {x} : proc'[y] = proc[y]
    BY DEF BlessStart, LoadForBless, ReadBody, Stage, StageSig, FlipSig, Flip, Forget, Register,
           Throw, Kill, TypeOK
  <1>3. CASE \/ BlessStart(x) \/ LoadForBless(x) \/ ReadBody(x) \/ Stage(x) \/ StageSig(x)
             \/ Forget(x) \/ Register(x) \/ Throw(x) \/ Kill(x)
    <2>1. \A a \in Artifacts :
             store'[a].body = store[a].body /\ store'[a].sig = store[a].sig
      <3>1. CASE Stage(x)
        BY <3>1 DEF Stage, TypeOK, Slot
      <3>2. CASE StageSig(x)
        BY <3>2 DEF StageSig, TypeOK, Slot
      <3> QED
        BY <1>3, <3>1, <3>2 DEF BlessStart, LoadForBless, ReadBody, Forget, Register, Throw, Kill
    <2>2. proc'[x] # Idle => proc'[x].at # "flip"
      <3>1. CASE BlessStart(x)
        BY <3>1 DEF BlessStart, Begun, TypeOK
      <3>2. CASE Kill(x)
        BY <3>2 DEF Kill, TypeOK
      <3>3. CASE \/ LoadForBless(x) \/ ReadBody(x) \/ Stage(x) \/ StageSig(x)
                 \/ Forget(x) \/ Register(x) \/ Throw(x)
        <4>1. proc[x] \in Process
          BY <3>3, AtType DEF LoadForBless, ReadBody, Stage, StageSig, Forget, Register, Throw,
                              MayThrow, At, TypeOK
        <4>2. \/ proc'[x] = Idle
              \/ proc'[x].at \in {"stage", "check", "stageSig", "flipSig", "register",
                                  "establish", "release"}
          <5>1. CASE LoadForBless(x)
            <6>1. proc'[x] \in {Idle, [proc[x] EXCEPT !.current = proc[x].body, !.body = None,
                                                     !.artifact = "baseline", !.at = "stage"]}
              BY <5>1 DEF LoadForBless, TypeOK
            <6> QED
              BY <4>1, <6>1 DEF Process
          <5>4. CASE Register(x)
            <6>1. proc'[x] \in {Idle, [proc[x] EXCEPT !.at = "establish"]}
              BY <5>4 DEF Register, TypeOK
            <6> QED
              BY <4>1, <6>1 DEF Process
          <5>2. CASE Throw(x)
            <6>1. proc'[x] \in {Idle, [proc[x] EXCEPT !.at = "release"]}
              BY <5>2 DEF Throw, TypeOK
            <6> QED
              BY <4>1, <6>1 DEF Process
          <5>3. CASE ReadBody(x) \/ Stage(x) \/ StageSig(x) \/ Forget(x)
            BY <4>1, <5>3 DEF ReadBody, Stage, StageSig, Forget, TypeOK, Process
          <5> QED
            BY <3>3, <5>1, <5>2, <5>3, <5>4
        <4> QED
          BY <4>2
      <3> QED
        BY <1>3, <3>1, <3>2, <3>3
    <2> QED
      BY <1>1, <1>2, <2>1, <2>2, QuietSigned
  <1>4. CASE FlipSig(x)
    <2> DEFINE a == proc[x].artifact
    <2>1. proc[x] \in Process /\ a \in Artifacts
      BY <1>4, AtType DEF FlipSig, Process
    <2>2. /\ \A b \in Artifacts : store'[b].body = store[b].body
          /\ \A b \in Artifacts : store[b].sig # None => store'[b].sig # None
          /\ store'[a].sig # None
      BY <1>4, <2>1 DEF FlipSig, TypeOK, Slot
    <2>3. proc'[x].artifact = a
      BY <1>4, <2>1 DEF FlipSig, TypeOK, Process
    <2>4. \A y \in Procs : Label(y) = "flip" => proc[y].artifact \in Artifacts
      BY AtType DEF Process
    <2>5. \A y \in Procs : Label(y)' = "flip" => y = x \/ Label(y) = "flip"
      BY <1>2 DEF Label
    <2> HIDE DEF a
    <2> QED
      BY <1>1, <1>2, <2>1, <2>2, <2>3, <2>4, <2>5 DEF Signed
  <1>5. CASE Flip(x)
    <2> DEFINE a == proc[x].artifact
    <2>1. proc[x] \in Process /\ a \in Artifacts
      BY <1>5, AtType DEF Flip, Process
    <2>2. /\ \A b \in Artifacts : b # a => store'[b].body = store[b].body
          /\ \A b \in Artifacts : store'[b].sig = store[b].sig
      BY <1>5, <2>1 DEF Flip, TypeOK, Slot
    <2>3. Label(x)' # "flip"
      <3>1. proc'[x] = Written(x)
        BY <1>5 DEF Flip, TypeOK
      <3>2. Written(x).at \in {"stage", "tell", "forget"}
        BY <2>1 DEF Written, Process
      <3> QED
        BY <3>1, <3>2 DEF Label
    <2>4. \A y \in Procs : Label(y) = "flip" => proc[y].artifact \in Artifacts
      BY AtType DEF Process
    <2>5. \A y \in Procs : Label(y)' = "flip" => Label(y) = "flip" /\ proc'[y] = proc[y]
      BY <1>2, <2>3 DEF Label
    <2>6. Label(x) = "flip"
      BY <1>5 DEF Flip
    <2> QED
      BY <1>1, <2>1, <2>2, <2>4, <2>5, <2>6 DEF Signed
  <1> QED
    BY <1>3, <1>4, <1>5

\* Nothing but damage leaves an artifact without a signature: the signature is in place
\* before the artifact is, and none is ever removed.
THEOREM NeverUnsignedAlways == Spec => []NeverUnsigned
  <1>1. Init => Signed
    BY DEF Init, Signed, Label
  <1>2. TypeOK /\ Signed /\ [Next]_vars => Signed'
    <2> SUFFICES ASSUME TypeOK, Signed, [Next]_vars
                 PROVE  Signed'
      OBVIOUS
    <2>1. CASE Expire \/ (\E p \in Paths : Edit(p))
      BY <2>1 DEF Expire, Edit, Mishap, Signed, Label
    <2>2. CASE \E a \in Artifacts : Damage(a)
      BY <2>2 DEF Damage, Mishap, Signed
    <2>3. CASE UNCHANGED vars
      BY <2>3 DEF vars, Signed, Label
    <2> QED
      BY <2>1, <2>2, <2>3, ScanSigned, WriteSigned DEF Next
  <1>3. Signed => NeverUnsigned
    BY DEF Signed, NeverUnsigned
  <1> QED
    BY <1>1, <1>2, <1>3, TypeCorrect, PTL DEF Spec

-----------------------------------------------------------------------------
(* What the artifacts, the rows and the processes have to do with each     *)
(* other.                                                                  *)

Writing == {"stage", "stageSig", "flipSig", "flip"}

\* Where a process is in its task says which artifact it is at, and when it has a row and
\* a manifest.
Shape(r) ==
    r # Idle =>
        /\ r.task = "bless" =>
              /\ \/ r.at \in {"read", "check"} /\ r.artifact = "last-run"
                 \/ r.at \in Writing \cup {"forget", "register"} /\ r.artifact = "baseline"
              /\ r.run = 0
        /\ r.task = "scan" =>
              /\ r.at = "build" => r.artifact = "baseline"
              /\ r.at \in {"begin", "complete", "forget", "register", "establish", "tell"} =>
                    r.artifact = "last-run"
              /\ r.artifact = "baseline" /\ r.at # "release" => r.run = 0
              /\ r.artifact = "last-run" => r.current # None
        /\ r.at \in Writing \cup {"forget", "register", "establish", "tell"} => r.current # None

Founded == store["baseline"].body # None

\* Only where there is a known-good baseline is there anything to read, to compare with,
\* to bless or to remember.
Presupposes(r) ==
    /\ r # Idle
    /\ \/ r.body # None
       \/ r.known # None
       \/ r.task = "scan" /\ r.artifact = "last-run"
       \/ r.task = "bless" /\ r.artifact = "baseline"

Rooted ==
    /\ store["last-run"].body # None => Founded
    /\ \A x \in Procs : Presupposes(proc[x]) => Founded

\* A scan holds the lock until it expires, and so is the only one.
ScanHolds ==
    "expired" \notin mishaps =>
        \A x \in Procs : proc[x] # Idle /\ proc[x].task = "scan" => lock = x

\* A scan that has found no baseline and is to write the first.
Founder(r) ==
    /\ r # Idle /\ r.task = "scan" /\ r.artifact = "baseline"
    /\ \/ r.at = "check" /\ r.body = None
       \/ r.at = "build" /\ r.known = None
       \/ r.at \in Writing

FoundersFirst ==
    "expired" \notin mishaps => \A x \in Procs : Founder(proc[x]) => ~Founded

\* What is in the temporary files of the artifact, or renamed already, is r's.
Prepared(r, slot) ==
    /\ r.at \in {"stageSig", "flipSig", "flip"} => slot.tmp = r.current
    /\ r.at = "flipSig" => slot.sigTmp = r.current

\* Blesses do not write the last-run artifact.
LastRunPrepared ==
    "expired" \notin mishaps =>
        \A x \in Procs :
            proc[x] # Idle /\ proc[x].task = "scan" /\ proc[x].artifact = "last-run" =>
                Prepared(proc[x], store["last-run"])

\* The row of a scan that has compared, or is to tell, is that of its manifest.
Recorded(r, rows) ==
    /\ r # Idle /\ r.task = "scan"
    => /\ r.at = "complete" => r.run \in DOMAIN rows /\ rows[r.run].current = r.current
       /\ r.at = "tell" \/ (r.at \in Writing /\ r.artifact = "last-run" /\ r.known # None) =>
             /\ r.run \in DOMAIN rows
             /\ rows[r.run].status \in {"completed", "baseline_established"}
             /\ rows[r.run].current = r.current

\* Manifest m is that of a run on record ...
OnRecord(m) == \E i \in DOMAIN runs : Concluded(i) /\ runs[i].current = m

\* ... whose event is out or about to be.
Reported(m) ==
    \E i \in DOMAIN runs :
        /\ Concluded(i) /\ runs[i].current = m
        /\ runs[i].told \/ \E x \in Procs : At(x, "scan", "tell") /\ proc[x].run = i

\* Manifest m is of a first run that has yet to write its row.
Establishing(m) ==
    \E x \in Procs :
        /\ \E l \in {"forget", "register", "establish"} : At(x, "scan", l)
        /\ proc[x].current = m

Remembered ==
    mishaps \cap {"killed", "failed", "expired"} = {} /\ store["last-run"].body \in Manifests =>
        Reported(store["last-run"].body) \/ Establishing(store["last-run"].body)

\* A bless that has met nobody is alone.
Uncontended ==
    "contended" \notin mishaps =>
        \A x, y \in Procs :
            x # y /\ proc[x] # Idle /\ proc[x].task = "bless" => proc[y] = Idle

\* Between the baseline and its registry row.
Midway(r) ==
    /\ r # Idle
    /\ \/ r.at \in {"forget", "register"}
       \/ r.task = "scan" /\ r.known = None /\ r.artifact = "last-run" /\ r.at \in Writing

\* What process r holds is what the artifacts are, or will be, made of.
Undisturbed(r) ==
    r # Idle =>
        /\ r.at = "check" => r.body = store[r.artifact].body
        /\ Prepared(r, store[r.artifact])
        /\ r.at = "flip" => store[r.artifact].sig = r.current
        /\ Midway(r) => store["baseline"].body = r.current
        /\ r.task = "bless" /\ r.at \notin {"read", "check"} => OnRecord(r.current)
        /\ r.at = "register" => registry = << >>

Paired ==
    \A a \in Artifacts :
        \/ store[a].body = store[a].sig
        \/ \E x \in Procs : Label(x) = "flip" /\ proc[x].artifact = a

NoAlarm == \A i \in DOMAIN runs : runs[i].status \notin {"tamper_suspected", "failed"}

Registered ==
    /\ registry # << >>
    /\ \A x \in Procs : ~Midway(proc[x])
    => /\ registry[Len(registry)].root = RootHash(store["baseline"].body)
       /\ registry[Len(registry)].signed => OnRecord(store["baseline"].body)

\* While nothing has gone wrong.
Orderly ==
    mishaps = {} =>
        /\ \A x \in Procs : Undisturbed(proc[x])
        /\ Paired
        /\ NoAlarm
        /\ Registered

\* All of it together, which is inductive.
Ordered ==
    /\ IInv
    /\ \A x \in Procs : Shape(proc[x]) /\ Recorded(proc[x], runs)
    /\ Rooted
    /\ ScanHolds
    /\ FoundersFirst
    /\ LastRunPrepared
    /\ Remembered
    /\ Uncontended
    /\ Orderly

-----------------------------------------------------------------------------
(* What each step does to its process, the rows and the artifacts.         *)

\* Process x, at work before and after, is now there and has these.
Moves(x, at, artifact, body, known, current, run) ==
    /\ proc[x] # Idle /\ proc'[x] # Idle
    /\ proc'[x].task = proc[x].task
    /\ proc'[x].at = at /\ proc'[x].artifact = artifact
    /\ proc'[x].body = body /\ proc'[x].known = known
    /\ proc'[x].current = current /\ proc'[x].run = run

\* It only moves on.
GoesTo(x, at) ==
    Moves(x, at, proc[x].artifact, proc[x].body, proc[x].known, proc[x].current, proc[x].run)

\* There is one row more.
Added(row) ==
    /\ Len(runs') = Len(runs) + 1
    /\ \A i \in DOMAIN runs : i \in DOMAIN runs' /\ runs'[i] = runs[i]
    /\ Len(runs) + 1 \in DOMAIN runs' /\ Len(runs) + 1 \notin DOMAIN runs
    /\ \A i \in DOMAIN runs' : i \in DOMAIN runs \/ i = Len(runs) + 1
    /\ runs'[Len(runs) + 1] = row

\* No row but i changes.
Only(i) ==
    /\ DOMAIN runs' = DOMAIN runs
    /\ \A j \in DOMAIN runs : j # i => runs'[j] = runs[j]

LEMMA AppendAdds ==
    ASSUME TypeOK, NEW row \in Run, runs' = Append(runs, row)
    PROVE  Added(row)
  <1>1. Len(runs) \in Nat /\ DOMAIN runs = 1..Len(runs)
    BY DEF TypeOK
  <1>2. runs' \in Seq(Run) /\ Len(runs') = Len(runs) + 1
    BY DEF TypeOK
  <1>3. DOMAIN runs' = 1..(Len(runs) + 1)
    BY <1>2
  <1> QED
    BY <1>1, <1>2, <1>3, AppendedRows DEF Added

LEMMA PersistEffect ==
    ASSUME TypeOK, NEW x \in Procs, proc[x] \in Process, proc[x] # Idle, NEW status \in Statuses,
           NEW current \in Manifests \cup {None}, NEW label \in Labels,
           PersistRun(x, status, current, label)
    PROVE  /\ Added(Row(status, current))
           /\ Moves(x, label, proc[x].artifact, proc[x].body, proc[x].known, proc[x].current,
                    Len(runs) + 1)
  <1>1. Row(status, current) \in Run
    BY DEF Row, Run, NoDiff, Found
  <1>2. Added(Row(status, current))
    BY <1>1, AppendAdds DEF PersistRun
  <1>3. proc'[x] = [proc[x] EXCEPT !.run = Len(runs) + 1, !.at = label]
    BY DEF PersistRun, TypeOK
  <1>4. Len(runs) + 1 \in Nat
    BY DEF TypeOK
  <1>5. proc'[x] # Idle
    BY <1>3 DEF Idle, Process
  <1> QED
    BY <1>2, <1>3, <1>4, <1>5 DEF Moves, Process

\* A process that changes fields of its own.
LEMMA Fields ==
    ASSUME TypeOK, NEW x \in Procs, proc[x] \in Process, proc[x] # Idle,
           NEW at, NEW artifact, NEW body, NEW known, NEW current,
           proc'[x] = [proc[x] EXCEPT !.at = at, !.artifact = artifact, !.body = body,
                                      !.known = known, !.current = current]
    PROVE  Moves(x, at, artifact, body, known, current, proc[x].run)
  <1>1. proc'[x] # Idle
    BY DEF Idle, Process
  <1> QED
    BY <1>1 DEF Moves, Process

LEMMA AcquireEffect ==
    ASSUME TypeOK, NEW x \in Procs, Acquire(x)
    PROVE  /\ proc[x] = Idle /\ lock = None /\ lock' = x
           /\ proc'[x] = Begun("scan", "baseline")
           /\ store' = store /\ runs' = runs /\ registry' = registry
           /\ Join("scan")
  BY DEF Acquire, TypeOK

LEMMA SkipEffect ==
    ASSUME TypeOK, NEW x \in Procs, Skip(x)
    PROVE  /\ Added(Row("skipped", None)) /\ proc' = proc
           /\ store' = store /\ registry' = registry
  <1>1. Row("skipped", None) \in Run
    BY DEF Row, Run, NoDiff, Found, Statuses
  <1> QED
    BY <1>1, AppendAdds DEF Skip

LEMMA LoadKnownEffect ==
    ASSUME TypeOK, NEW x \in Procs, LoadKnown(x)
    PROVE  /\ At(x, "scan", "check") /\ proc[x].artifact = "baseline"
           /\ store' = store /\ registry' = registry
           /\ \/ /\ Verdict(x) \in {"absent", "good"} /\ runs' = runs
                 /\ Moves(x, "build", "baseline", None, proc[x].body, proc[x].current, proc[x].run)
              \/ /\ Verdict(x) \in {"tampered", "corrupt"}
                 /\ \E status \in Statuses : Added(Row(status, None))
                 /\ Moves(x, "release", "baseline", proc[x].body, proc[x].known,
                          proc[x].current, Len(runs) + 1)
  <1>1. proc[x] \in Process /\ proc[x] # Idle
    BY DEF LoadKnown, At, TypeOK
  <1>2. CASE /\ Verdict(x) \in {"absent", "good"}
             /\ proc' = [proc EXCEPT ![x].known = proc[x].body, ![x].body = None,
                                     ![x].at = "build"]
             /\ UNCHANGED runs
    <2>1. proc'[x] = [proc[x] EXCEPT !.known = proc[x].body, !.body = None, !.at = "build"]
      BY <1>2 DEF TypeOK
    <2>2. proc'[x] # Idle
      BY <1>1, <2>1 DEF Idle, Process
    <2>3. Moves(x, "build", proc[x].artifact, None, proc[x].body, proc[x].current, proc[x].run)
      BY <1>1, <2>1, <2>2 DEF Moves, Process
    <2> QED
      BY <1>2, <2>3 DEF LoadKnown
  <1>3. ASSUME NEW status \in {"tamper_suspected", "failed"},
               Verdict(x) \in {"tampered", "corrupt"}, PersistRun(x, status, None, "release")
        PROVE  /\ \E s \in Statuses : Added(Row(s, None))
               /\ Moves(x, "release", proc[x].artifact, proc[x].body, proc[x].known,
                        proc[x].current, Len(runs) + 1)
    <2>1. status \in Statuses /\ "release" \in Labels
      BY DEF Statuses, Labels
    <2> QED
      BY <1>1, <1>3, <2>1, PersistEffect
  <1>4. \/ Verdict(x) = "tampered" /\ PersistRun(x, "tamper_suspected", None, "release")
        \/ Verdict(x) = "corrupt" /\ PersistRun(x, "failed", None, "release")
        \/ /\ Verdict(x) \in {"absent", "good"}
           /\ proc' = [proc EXCEPT ![x].known = proc[x].body, ![x].body = None,
                                   ![x].at = "build"]
           /\ UNCHANGED runs
    BY DEF LoadKnown
  <1>5. /\ At(x, "scan", "check") /\ proc[x].artifact = "baseline"
        /\ store' = store /\ registry' = registry
    BY DEF LoadKnown
  <1> QED
    BY <1>2, <1>3, <1>4, <1>5

LEMMA WalkEffect ==
    ASSUME TypeOK, NEW x \in Procs, Walk(x)
    PROVE  /\ At(x, "scan", "build")
           /\ store' = store /\ registry' = registry
           /\ \/ /\ Added(Row("aborted_limit", None))
                 /\ Moves(x, "release", proc[x].artifact, proc[x].body, proc[x].known,
                          proc[x].current, Len(runs) + 1)
              \/ /\ runs' = runs
                 /\ \E m \in Manifests :
                       \/ /\ proc[x].known = None
                          /\ Moves(x, "stage", "baseline", proc[x].body, None, m, proc[x].run)
                       \/ /\ proc[x].known # None
                          /\ Moves(x, "read", "last-run", proc[x].body, proc[x].known, m,
                                   proc[x].run)
  <1>1. proc[x] \in Process /\ proc[x] # Idle
    BY DEF Walk, At, TypeOK
  <1>2. CASE PersistRun(x, "aborted_limit", None, "release")
    BY <1>1, <1>2, PersistEffect DEF Walk, Statuses, Labels
  <1>3. CASE ~PersistRun(x, "aborted_limit", None, "release")
    <2>1. Known(x) \in Manifests \/ DOMAIN Known(x) = {}
      BY <1>1 DEF Known, Process
    <2>2. Build(disk, Known(x)) \in Manifests
      BY <2>1, BuildType DEF TypeOK
    <2> DEFINE m == Build(disk, Known(x))
               artifact == IF proc[x].known = None THEN "baseline" ELSE "last-run"
               at == IF proc[x].known = None THEN "stage" ELSE "read"
    <2>3. proc'[x] = [proc[x] EXCEPT !.current = m, !.seen = disk, !.artifact = artifact,
                                     !.at = at]
      BY <1>3 DEF Walk, TypeOK
    <2>4. m \in Manifests
      BY <2>2
    <2> HIDE DEF m
    <2>5. proc'[x] # Idle
      BY <1>1, <2>3 DEF Idle, Process
    <2>6. Moves(x, at, artifact, proc[x].body, proc[x].known, m, proc[x].run)
      BY <1>1, <2>3, <2>5 DEF Moves, Process
    <2> QED
      BY <1>3, <2>4, <2>6 DEF Walk
  <1> QED
    BY <1>2, <1>3

LEMMA LoadLastEffect ==
    ASSUME TypeOK, NEW x \in Procs, LoadLast(x)
    PROVE  /\ At(x, "scan", "check") /\ proc[x].artifact = "last-run"
           /\ store' = store /\ registry' = registry /\ runs' = runs
           /\ Moves(x, "begin", "last-run", None, proc[x].known, proc[x].current, proc[x].run)
  <1>1. proc[x] \in Process /\ proc[x] # Idle
    BY DEF LoadLast, At, TypeOK
  <1> DEFINE last == IF Verdict(x) = "good" THEN proc[x].body ELSE None
  <1>2. proc'[x] = [proc[x] EXCEPT !.last = last, !.body = None, !.at = "begin"]
    BY DEF LoadLast, TypeOK
  <1> HIDE DEF last
  <1>3. proc'[x] # Idle
    BY <1>1, <1>2 DEF Idle, Process
  <1>4. Moves(x, "begin", proc[x].artifact, None, proc[x].known, proc[x].current, proc[x].run)
    BY <1>1, <1>2, <1>3 DEF Moves, Process
  <1> QED
    BY <1>4 DEF LoadLast

LEMMA BeginEffect ==
    ASSUME TypeOK, NEW x \in Procs, Begin(x)
    PROVE  /\ At(x, "scan", "begin")
           /\ store' = store /\ registry' = registry
           /\ Added(Row("running", proc[x].current))
           /\ Moves(x, "complete", proc[x].artifact, proc[x].body, proc[x].known,
                    proc[x].current, Len(runs) + 1)
  <1>1. proc[x] \in Process /\ proc[x] # Idle
    BY DEF Begin, At, TypeOK
  <1>2. proc[x].current \in Manifests \cup {None}
    BY <1>1 DEF Process
  <1> QED
    BY <1>1, <1>2, PersistEffect DEF Begin, Statuses, Labels

LEMMA CompleteEffect ==
    ASSUME TypeOK, NEW x \in Procs, Complete(x)
    PROVE  /\ At(x, "scan", "complete")
           /\ store' = store /\ registry' = registry
           /\ Only(proc[x].run)
           /\ proc[x].run \in DOMAIN runs =>
                 /\ runs'[proc[x].run].status = "completed"
                 /\ runs'[proc[x].run].current = runs[proc[x].run].current
                 /\ runs'[proc[x].run].told = runs[proc[x].run].told
           /\ GoesTo(x, "stage")
  <1>1. proc[x] \in Process /\ proc[x] # Idle
    BY DEF Complete, At, TypeOK
  <1>2. proc'[x] = [proc[x] EXCEPT !.last = None, !.at = "stage"]
    BY DEF Complete, TypeOK
  <1>3. proc'[x] # Idle
    BY <1>1, <1>2 DEF Idle, Process
  <1>4. \A i \in DOMAIN runs : runs[i] \in Run
    BY DEF TypeOK
  <1> DEFINE i == proc[x].run
             delta == Diff(Reference(x), proc[x].current)
             drift == Diff(proc[x].known, proc[x].current)
  <1>5. runs' = [runs EXCEPT ![i].status = "completed", ![i].delta = delta, ![i].drift = drift]
    BY DEF Complete
  <1> HIDE DEF i, delta, drift
  <1>6. /\ DOMAIN runs' = DOMAIN runs
        /\ \A j \in DOMAIN runs : j # i => runs'[j] = runs[j]
        /\ i \in DOMAIN runs => runs'[i] = [runs[i] EXCEPT !.status = "completed",
                                                           !.delta = delta, !.drift = drift]
    BY <1>5
  <1>7. i \in DOMAIN runs =>
           /\ runs'[i].status = "completed" /\ runs'[i].current = runs[i].current
           /\ runs'[i].told = runs[i].told
    BY <1>4, <1>6 DEF Run
  <1>8. GoesTo(x, "stage")
    BY <1>1, <1>2, <1>3 DEF GoesTo, Moves, Process
  <1> QED
    BY <1>6, <1>7, <1>8 DEF Complete, Only, i

LEMMA EstablishEffect ==
    ASSUME TypeOK, NEW x \in Procs, Establish(x)
    PROVE  /\ At(x, "scan", "establish")
           /\ store' = store /\ registry' = registry
           /\ Added(Row("baseline_established", proc[x].current))
           /\ Moves(x, "tell", proc[x].artifact, proc[x].body, proc[x].known,
                    proc[x].current, Len(runs) + 1)
  <1>1. proc[x] \in Process /\ proc[x] # Idle
    BY DEF Establish, At, TypeOK
  <1>2. proc[x].current \in Manifests \cup {None}
    BY <1>1 DEF Process
  <1> QED
    BY <1>1, <1>2, PersistEffect DEF Establish, Statuses, Labels

LEMMA TellEffect ==
    ASSUME TypeOK, NEW x \in Procs, Tell(x)
    PROVE  /\ At(x, "scan", "tell")
           /\ store' = store /\ registry' = registry
           /\ Only(proc[x].run)
           /\ proc[x].run \in DOMAIN runs =>
                 /\ runs'[proc[x].run].status = runs[proc[x].run].status
                 /\ runs'[proc[x].run].current = runs[proc[x].run].current
                 /\ runs'[proc[x].run].told = TRUE
           /\ GoesTo(x, "release")
  <1>1. proc[x] \in Process /\ proc[x] # Idle
    BY DEF Tell, At, TypeOK
  <1>2. proc'[x] = [proc[x] EXCEPT !.at = "release"]
    BY DEF Tell, TypeOK
  <1>3. proc'[x] # Idle
    BY <1>1, <1>2 DEF Idle, Process
  <1>4. \A i \in DOMAIN runs : runs[i] \in Run
    BY DEF TypeOK
  <1> DEFINE i == proc[x].run
  <1>5. PICK e \in BOOLEAN : e = TRUE
    OBVIOUS
  <1>6. runs' = [runs EXCEPT ![i].told = e]
    BY <1>5 DEF Tell
  <1> HIDE DEF i
  <1>7. /\ DOMAIN runs' = DOMAIN runs
        /\ \A j \in DOMAIN runs : j # i => runs'[j] = runs[j]
        /\ i \in DOMAIN runs => runs'[i] = [runs[i] EXCEPT !.told = e]
    BY <1>6
  <1>8. i \in DOMAIN runs =>
           /\ runs'[i].status = runs[i].status /\ runs'[i].current = runs[i].current
           /\ runs'[i].told = e
    BY <1>4, <1>7 DEF Run
  <1>9. GoesTo(x, "release")
    BY <1>1, <1>2, <1>3 DEF GoesTo, Moves, Process
  <1> QED
    BY <1>5, <1>7, <1>8, <1>9 DEF Tell, Only, i

LEMMA ReleaseEffect ==
    ASSUME TypeOK, NEW x \in Procs, Release(x)
    PROVE  /\ At(x, "scan", "release") /\ proc'[x] = Idle
           /\ store' = store /\ registry' = registry /\ runs' = runs
  BY DEF Release, TypeOK

\* Artifact a, and no other, has these files now.
Slots(a, body, sig, tmp, sigTmp) ==
    /\ \A b \in Artifacts : b # a => store'[b] = store[b]
    /\ store'[a].body = body /\ store'[a].sig = sig
    /\ store'[a].tmp = tmp /\ store'[a].sigTmp = sigTmp

LEMMA BlessStartEffect ==
    ASSUME TypeOK, NEW x \in Procs, BlessStart(x)
    PROVE  /\ proc[x] = Idle /\ proc'[x] = Begun("bless", "last-run")
           /\ store' = store /\ runs' = runs /\ registry' = registry
           /\ Join("bless")
  BY DEF BlessStart, TypeOK

LEMMA LoadForBlessEffect ==
    ASSUME TypeOK, NEW x \in Procs, LoadForBless(x)
    PROVE  /\ At(x, "bless", "check")
           /\ store' = store /\ runs' = runs /\ registry' = registry
           /\ \/ proc'[x] = Idle
              \/ /\ proc[x].body \in Manifests /\ Verdict(x) = "good"
                 /\ Moves(x, "stage", "baseline", None, proc[x].known, proc[x].body, proc[x].run)
  <1>1. proc[x] \in Process /\ proc[x] # Idle
    BY DEF LoadForBless, At, TypeOK
  <1>2. CASE Verdict(x) = "good"
    <2>1. proc'[x] = [proc[x] EXCEPT !.current = proc[x].body, !.body = None,
                                     !.artifact = "baseline", !.at = "stage"]
      BY <1>2 DEF LoadForBless, TypeOK
    <2>2. proc'[x] # Idle
      BY <1>1, <2>1 DEF Idle, Process
    <2>3. Moves(x, "stage", "baseline", None, proc[x].known, proc[x].body, proc[x].run)
      BY <1>1, <2>1, <2>2 DEF Moves, Process
    <2>4. proc[x].body \in Manifests
      BY <1>1, <1>2, GoodIsManifest
    <2> QED
      BY <1>2, <2>3, <2>4 DEF LoadForBless
  <1>3. CASE Verdict(x) # "good"
    BY <1>3 DEF LoadForBless, TypeOK
  <1> QED
    BY <1>2, <1>3

LEMMA ReadBodyEffect ==
    ASSUME TypeOK, NEW x \in Procs, ReadBody(x)
    PROVE  /\ proc[x].at = "read" /\ proc[x].artifact \in Artifacts
           /\ store' = store /\ runs' = runs /\ registry' = registry
           /\ Moves(x, "check", proc[x].artifact, store[proc[x].artifact].body, proc[x].known,
                    proc[x].current, proc[x].run)
  <1>1. proc[x] \in Process /\ proc[x] # Idle
    BY AtType DEF ReadBody
  <1> DEFINE body == store[proc[x].artifact].body
  <1>2. proc'[x] = [proc[x] EXCEPT !.body = body, !.at = "check"]
    BY DEF ReadBody, TypeOK
  <1>3. proc[x].at = "read" /\ store' = store /\ runs' = runs /\ registry' = registry
    BY <1>1 DEF ReadBody, Label
  <1> HIDE DEF body
  <1>4. proc'[x] # Idle
    BY <1>1, <1>2 DEF Idle, Process
  <1>5. Moves(x, "check", proc[x].artifact, body, proc[x].known, proc[x].current, proc[x].run)
    BY <1>1, <1>2, <1>4 DEF Moves, Process
  <1> QED
    BY <1>1, <1>3, <1>5 DEF Process, body

\* The files of an artifact, one by one.
LEMMA SlotFields ==
    ASSUME TypeOK, NEW a \in Artifacts
    PROVE  /\ \A m : store' = [store EXCEPT ![a].tmp = m] =>
                 Slots(a, store[a].body, store[a].sig, m, store[a].sigTmp)
           /\ \A m : store' = [store EXCEPT ![a].sigTmp = m] =>
                 Slots(a, store[a].body, store[a].sig, store[a].tmp, m)
           /\ store' = [store EXCEPT ![a].sig = store[a].sigTmp, ![a].sigTmp = None] =>
                 Slots(a, store[a].body, store[a].sigTmp, store[a].tmp, None)
           /\ store' = [store EXCEPT ![a].body = store[a].tmp, ![a].tmp = None] =>
                 Slots(a, store[a].tmp, store[a].sig, None, store[a].sigTmp)
           /\ \A m : store' = [store EXCEPT ![a].body = m] =>
                 Slots(a, m, store[a].sig, store[a].tmp, store[a].sigTmp)
           /\ store' = [store EXCEPT ![a].sig = None] =>
                 Slots(a, store[a].body, None, store[a].tmp, store[a].sigTmp)
  <1>1. store[a] \in Slot /\ store \in [Artifacts -> Slot]
    BY DEF TypeOK
  <1>2. ASSUME NEW m, store' = [store EXCEPT ![a].tmp = m]
        PROVE  Slots(a, store[a].body, store[a].sig, m, store[a].sigTmp)
    BY <1>1, <1>2 DEF Slots, Slot
  <1>3. ASSUME NEW m, store' = [store EXCEPT ![a].sigTmp = m]
        PROVE  Slots(a, store[a].body, store[a].sig, store[a].tmp, m)
    BY <1>1, <1>3 DEF Slots, Slot
  <1>4. ASSUME store' = [store EXCEPT ![a].sig = store[a].sigTmp, ![a].sigTmp = None]
        PROVE  Slots(a, store[a].body, store[a].sigTmp, store[a].tmp, None)
    BY <1>1, <1>4 DEF Slots, Slot
  <1>5. ASSUME store' = [store EXCEPT ![a].body = store[a].tmp, ![a].tmp = None]
        PROVE  Slots(a, store[a].tmp, store[a].sig, None, store[a].sigTmp)
    BY <1>1, <1>5 DEF Slots, Slot
  <1>6. ASSUME NEW m, store' = [store EXCEPT ![a].body = m]
        PROVE  Slots(a, m, store[a].sig, store[a].tmp, store[a].sigTmp)
    BY <1>1, <1>6 DEF Slots, Slot
  <1>7. ASSUME store' = [store EXCEPT ![a].sig = None]
        PROVE  Slots(a, store[a].body, None, store[a].tmp, store[a].sigTmp)
    BY <1>1, <1>7 DEF Slots, Slot
  <1> QED
    BY <1>2, <1>3, <1>4, <1>5, <1>6, <1>7

\* A process that writes moves on.
LEMMA MovesOn ==
    ASSUME TypeOK, NEW x \in Procs, Label(x) # "idle", NEW at,
           proc' = [proc EXCEPT ![x].at = at]
    PROVE  GoesTo(x, at) /\ proc[x].at = Label(x) /\ proc[x].artifact \in Artifacts
  <1>1. proc[x] \in Process /\ proc[x] # Idle
    BY AtType
  <1>2. proc'[x] = [proc[x] EXCEPT !.at = at]
    BY DEF TypeOK
  <1>3. proc'[x] # Idle
    BY <1>1, <1>2 DEF Idle, Process
  <1>4. proc[x].at = Label(x) /\ proc[x].artifact \in Artifacts
    BY <1>1 DEF Label, Process
  <1>5. GoesTo(x, at)
    BY <1>1, <1>2, <1>3 DEF GoesTo, Moves, Process
  <1> QED
    BY <1>4, <1>5

LEMMA StageEffect ==
    ASSUME TypeOK, NEW x \in Procs, Stage(x), NEW a, a = proc[x].artifact
    PROVE  /\ proc[x].at = "stage" /\ a \in Artifacts
           /\ runs' = runs /\ registry' = registry
           /\ Slots(a, store[a].body, store[a].sig, proc[x].current, store[a].sigTmp)
           /\ GoesTo(x, "stageSig")
  BY MovesOn, SlotFields DEF Stage

LEMMA StageSigEffect ==
    ASSUME TypeOK, NEW x \in Procs, StageSig(x), NEW a, a = proc[x].artifact
    PROVE  /\ proc[x].at = "stageSig" /\ a \in Artifacts
           /\ runs' = runs /\ registry' = registry
           /\ Slots(a, store[a].body, store[a].sig, store[a].tmp, proc[x].current)
           /\ GoesTo(x, "flipSig")
  BY MovesOn, SlotFields DEF StageSig

LEMMA FlipSigEffect ==
    ASSUME TypeOK, NEW x \in Procs, FlipSig(x), NEW a, a = proc[x].artifact
    PROVE  /\ proc[x].at = "flipSig" /\ a \in Artifacts
           /\ runs' = runs /\ registry' = registry
           /\ Slots(a, store[a].body, store[a].sigTmp, store[a].tmp, None)
           /\ GoesTo(x, "flip")
  BY MovesOn, SlotFields DEF FlipSig

LEMMA FlipEffect ==
    ASSUME TypeOK, NEW x \in Procs, Flip(x), NEW a, a = proc[x].artifact
    PROVE  /\ proc[x] # Idle /\ proc[x].at = "flip" /\ a \in Artifacts
           /\ runs' = runs /\ registry' = registry
           /\ store[a].tmp # None
           /\ Slots(a, store[a].tmp, store[a].sig, None, store[a].sigTmp)
           /\ \/ /\ a = "baseline" /\ proc[x].task = "scan"
                 /\ Moves(x, "stage", "last-run", proc[x].body, proc[x].known, proc[x].current,
                          proc[x].run)
              \/ /\ a = "last-run" /\ proc[x].known # None
                 /\ GoesTo(x, "tell")
              \/ /\ ~(a = "baseline" /\ proc[x].task = "scan")
                 /\ ~(a = "last-run" /\ proc[x].known # None)
                 /\ GoesTo(x, "forget")
  <1>1. proc[x] \in Process /\ proc[x] # Idle
    BY AtType DEF Flip
  <1>2. proc'[x] = Written(x)
    BY DEF Flip, TypeOK
  <1>6. /\ proc[x].at = "flip" /\ a \in Artifacts
        /\ runs' = runs /\ registry' = registry
        /\ store[a].tmp # None
        /\ store' = [store EXCEPT ![a].body = store[a].tmp, ![a].tmp = None]
    BY <1>1 DEF Flip, Label, Process
  <1>7. Slots(a, store[a].tmp, store[a].sig, None, store[a].sigTmp)
    BY <1>6, SlotFields
  <1>8. \/ /\ a = "baseline" /\ proc[x].task = "scan"
           /\ Moves(x, "stage", "last-run", proc[x].body, proc[x].known, proc[x].current,
                    proc[x].run)
        \/ /\ a = "last-run" /\ proc[x].known # None
           /\ GoesTo(x, "tell")
        \/ /\ ~(a = "baseline" /\ proc[x].task = "scan")
           /\ ~(a = "last-run" /\ proc[x].known # None)
           /\ GoesTo(x, "forget")
    <2>1. CASE a = "baseline" /\ proc[x].task = "scan"
      <3>1. proc'[x] = [proc[x] EXCEPT !.artifact = "last-run", !.at = "stage"]
        BY <1>2, <2>1 DEF Written
      <3>2. proc'[x] # Idle
        BY <1>1, <3>1 DEF Idle, Process
      <3>3. Moves(x, "stage", "last-run", proc[x].body, proc[x].known, proc[x].current,
                  proc[x].run)
        BY <1>1, <3>1, <3>2 DEF Moves, Process
      <3> QED
        BY <2>1, <3>3
    <2>2. CASE a = "last-run" /\ proc[x].known # None
      <3>1. proc'[x] = [proc[x] EXCEPT !.at = "tell"]
        BY <1>2, <2>2 DEF Written
      <3>2. proc'[x] # Idle
        BY <1>1, <3>1 DEF Idle, Process
      <3>3. GoesTo(x, "tell")
        BY <1>1, <3>1, <3>2 DEF GoesTo, Moves, Process
      <3> QED
        BY <2>2, <3>3
    <2>3. CASE /\ ~(a = "baseline" /\ proc[x].task = "scan")
               /\ ~(a = "last-run" /\ proc[x].known # None)
      <3>1. proc'[x] = [proc[x] EXCEPT !.at = "forget"]
        BY <1>2, <2>3 DEF Written
      <3>2. proc'[x] # Idle
        BY <1>1, <3>1 DEF Idle, Process
      <3>3. GoesTo(x, "forget")
        BY <1>1, <3>1, <3>2 DEF GoesTo, Moves, Process
      <3> QED
        BY <2>3, <3>3
    <2> QED
      BY <2>1, <2>2, <2>3
  <1> QED
    BY <1>1, <1>6, <1>7, <1>8

LEMMA ForgetEffect ==
    ASSUME TypeOK, NEW x \in Procs, Forget(x)
    PROVE  /\ proc[x].at = "forget"
           /\ store' = store /\ runs' = runs /\ registry' = << >>
           /\ GoesTo(x, "register")
  BY MovesOn DEF Forget

LEMMA RegisterEffect ==
    ASSUME TypeOK, NEW x \in Procs, Register(x)
    PROVE  /\ proc[x].at = "register"
           /\ store' = store /\ runs' = runs
           /\ registry' = Append(registry, [root   |-> RootHash(proc[x].current),
                                            signed |-> proc[x].task = "bless"])
           /\ \/ proc[x].task = "bless" /\ proc'[x] = Idle
              \/ proc[x].task = "scan" /\ GoesTo(x, "establish")
  <1>1. proc[x] \in Process /\ proc[x] # Idle
    BY AtType DEF Register
  <1>2. proc[x].at = "register"
    BY <1>1 DEF Register, Label
  <1>3. CASE proc[x].task = "bless"
    BY <1>2, <1>3 DEF Register, TypeOK
  <1>4. CASE proc[x].task # "bless"
    <2>1. proc'[x] = [proc[x] EXCEPT !.at = "establish"]
      BY <1>4 DEF Register, TypeOK
    <2>2. proc'[x] # Idle
      BY <1>1, <2>1 DEF Idle, Process
    <2>3. GoesTo(x, "establish") /\ proc[x].task = "scan"
      BY <1>1, <1>4, <2>1, <2>2 DEF GoesTo, Moves, Process
    <2> QED
      BY <1>2, <2>3 DEF Register
  <1> QED
    BY <1>3, <1>4

\* What is thrown without a mishap is a rename that has lost its file.
LEMMA ThrowEffect ==
    ASSUME TypeOK, NEW x \in Procs, Throw(x)
    PROVE  /\ proc[x] # Idle /\ proc[x].at \in MayThrow
           /\ store' = store /\ registry' = registry
           /\ RenameFails(x) \/ "failed" \in mishaps'
           /\ proc[x].run = 0 => runs' = runs
           /\ Only(proc[x].run)
           /\ \A i \in DOMAIN runs : runs'[i].current = runs[i].current
           /\ \/ proc[x].task = "bless" /\ proc'[x] = Idle
              \/ proc[x].task = "scan" /\ GoesTo(x, "release")
  <1>1. proc[x] \in Process /\ proc[x] # Idle
    BY AtType DEF Throw, MayThrow
  <1>2. proc[x].at \in MayThrow
    BY <1>1 DEF Throw, Label
  <1>3. \/ proc[x].task = "bless" /\ proc'[x] = Idle
        \/ proc[x].task = "scan" /\ GoesTo(x, "release")
    <2>1. CASE proc[x].task # "scan"
      BY <1>1, <2>1 DEF Throw, TypeOK, Process
    <2>2. CASE proc[x].task = "scan"
      <3>1. proc'[x] = [proc[x] EXCEPT !.at = "release"]
        BY <2>2 DEF Throw, TypeOK
      <3>2. proc'[x] # Idle
        BY <1>1, <3>1 DEF Idle, Process
      <3>3. GoesTo(x, "release")
        BY <1>1, <3>1, <3>2 DEF GoesTo, Moves, Process
      <3> QED
        BY <2>2, <3>3
    <2> QED
      BY <2>1, <2>2
  <1>4. /\ proc[x].run = 0 => runs' = runs
        /\ Only(proc[x].run)
        /\ \A i \in DOMAIN runs : runs'[i].current = runs[i].current
    <2>1. CASE proc[x].run = 0
      BY <2>1 DEF Throw, Only
    <2>2. CASE proc[x].run # 0
      <3> DEFINE i == proc[x].run
      <3>1. runs' = [runs EXCEPT ![i].status = "failed"]
        BY <2>2 DEF Throw
      <3>2. \A j \in DOMAIN runs : runs[j] \in Run
        BY DEF TypeOK
      <3> HIDE DEF i
      <3>3. /\ DOMAIN runs' = DOMAIN runs
            /\ \A j \in DOMAIN runs : j # i => runs'[j] = runs[j]
            /\ i \in DOMAIN runs => runs'[i] = [runs[i] EXCEPT !.status = "failed"]
        BY <3>1
      <3>4. \A j \in DOMAIN runs : runs'[j].current = runs[j].current
        BY <3>2, <3>3 DEF Run
      <3> QED
        BY <2>2, <3>3, <3>4 DEF Only, i
    <2> QED
      BY <2>1, <2>2
  <1>5. RenameFails(x) \/ "failed" \in mishaps'
    BY DEF Throw, Mishap
  <1> QED
    BY <1>1, <1>2, <1>3, <1>4, <1>5 DEF Throw

LEMMA KillEffect ==
    ASSUME TypeOK, NEW x \in Procs, Kill(x)
    PROVE  /\ proc'[x] = Idle /\ "killed" \in mishaps'
           /\ store' = store /\ runs' = runs /\ registry' = registry
  BY DEF Kill, Mishap, TypeOK

Acts(x) ==
    \/ Acquire(x) \/ Skip(x) \/ LoadKnown(x) \/ Walk(x) \/ LoadLast(x) \/ Begin(x)
    \/ Complete(x) \/ Establish(x) \/ Tell(x) \/ Release(x)
    \/ BlessStart(x) \/ LoadForBless(x)
    \/ ReadBody(x) \/ Stage(x) \/ StageSig(x) \/ FlipSig(x) \/ Flip(x)
    \/ Forget(x) \/ Register(x)
    \/ Throw(x) \/ Kill(x)

LEMMA OthersStay ==
    ASSUME IInv, NEW x \in Procs, Acts(x)
    PROVE  /\ \A y \in Procs \ {x} : proc'[y] = proc[y]
           /\ mishaps \subseteq mishaps'
  <1>1. \A y \in Procs \ {x} : proc'[y] = proc[y]
    BY ScanCoherent, WriteCoherent DEF Acts, Local
  <1>2. mishaps \subseteq mishaps'
    BY DEF Acts, Acquire, Skip, LoadKnown, Walk, LoadLast, Begin, Complete, Establish, Tell,
           Release, BlessStart, LoadForBless, ReadBody, Stage, StageSig, FlipSig, Flip, Forget,
           Register, Throw, Kill, Join, Mishap
  <1> QED
    BY <1>1, <1>2

-----------------------------------------------------------------------------
(* Shape.                                                                  *)

LEMMA ShapeOfReader ==
    ASSUME TypeOK, NEW x \in Procs, Shape(proc[x]),
           \/ Acquire(x) \/ Skip(x) \/ LoadKnown(x) \/ Walk(x) \/ LoadLast(x) \/ Begin(x)
           \/ Complete(x) \/ Establish(x) \/ Tell(x) \/ Release(x)
    PROVE  Shape(proc'[x])
  <1>0. None \notin Manifests
    BY NullsAssumption
  <1>1. CASE Acquire(x)
    BY <1>1, AcquireEffect DEF Shape, Begun, Writing
  <1>2. CASE Skip(x)
    BY <1>2, SkipEffect
  <1>3. CASE LoadKnown(x)
    BY <1>3, LoadKnownEffect DEF Shape, Moves, At, Writing
  <1>4. CASE Walk(x)
    BY <1>0, <1>4, WalkEffect DEF Shape, Moves, At, Writing
  <1>5. CASE LoadLast(x)
    BY <1>5, LoadLastEffect DEF Shape, Moves, At, Writing
  <1>6. CASE Begin(x)
    BY <1>6, BeginEffect DEF Shape, Moves, At, Writing
  <1>7. CASE Complete(x)
    BY <1>7, CompleteEffect DEF Shape, GoesTo, Moves, At, Writing
  <1>8. CASE Establish(x)
    BY <1>8, EstablishEffect DEF Shape, Moves, At, Writing
  <1>9. CASE Tell(x)
    BY <1>9, TellEffect DEF Shape, GoesTo, Moves, At, Writing
  <1>10. CASE Release(x)
    BY <1>10, ReleaseEffect DEF Shape
  <1> QED
    BY <1>1, <1>2, <1>3, <1>4, <1>5, <1>6, <1>7, <1>8, <1>9, <1>10

LEMMA ShapeOfWriter ==
    ASSUME TypeOK, NEW x \in Procs, Shape(proc[x]),
           \/ BlessStart(x) \/ LoadForBless(x) \/ ReadBody(x) \/ Stage(x) \/ StageSig(x)
           \/ FlipSig(x) \/ Flip(x) \/ Forget(x) \/ Register(x) \/ Throw(x) \/ Kill(x)
    PROVE  Shape(proc'[x])
  <1>0. None \notin Manifests /\ (proc[x] # Idle => proc[x].task \in {"scan", "bless"})
    BY NullsAssumption DEF TypeOK, Process
  <1>1. CASE BlessStart(x)
    BY <1>1, BlessStartEffect DEF Shape, Begun, Writing
  <1>2. CASE LoadForBless(x)
    BY <1>0, <1>2, LoadForBlessEffect DEF Shape, Moves, At, Writing
  <1>3. CASE ReadBody(x)
    BY <1>0, <1>3, ReadBodyEffect DEF Shape, Moves, Writing
  <1>4. CASE Stage(x)
    BY <1>0, <1>4, StageEffect DEF Shape, GoesTo, Moves, Writing
  <1>5. CASE StageSig(x)
    BY <1>0, <1>5, StageSigEffect DEF Shape, GoesTo, Moves, Writing
  <1>6. CASE FlipSig(x)
    BY <1>0, <1>6, FlipSigEffect DEF Shape, GoesTo, Moves, Writing
  <1>7. CASE Flip(x)
    BY <1>0, <1>7, FlipEffect DEF Shape, GoesTo, Moves, Writing, Artifacts
  <1>8. CASE Forget(x)
    BY <1>0, <1>8, ForgetEffect DEF Shape, GoesTo, Moves, Writing
  <1>9. CASE Register(x)
    BY <1>0, <1>9, RegisterEffect DEF Shape, GoesTo, Moves, Writing
  <1>10. CASE Throw(x)
    BY <1>0, <1>10, ThrowEffect DEF Shape, GoesTo, Moves, Writing, MayThrow
  <1>11. CASE Kill(x)
    BY <1>11, KillEffect DEF Shape
  <1> QED
    BY <1>1, <1>2, <1>3, <1>4, <1>5, <1>6, <1>7, <1>8, <1>9, <1>10, <1>11

-----------------------------------------------------------------------------
(* Founded, and what presupposes it.                                       *)

\* The contents of an artifact are changed by a rename only.
LEMMA BodiesStay ==
    ASSUME TypeOK, NEW x \in Procs, Acts(x), ~Flip(x)
    PROVE  \A a \in Artifacts : store'[a].body = store[a].body
  <1>1. CASE Stage(x)
    BY <1>1, StageEffect DEF Slots
  <1>2. CASE StageSig(x)
    BY <1>2, StageSigEffect DEF Slots
  <1>3. CASE FlipSig(x)
    BY <1>3, FlipSigEffect DEF Slots
  <1>4. CASE ~Stage(x) /\ ~StageSig(x) /\ ~FlipSig(x)
    <2>1. store' = store
      BY <1>4 DEF Acts, Acquire, Skip, LoadKnown, Walk, LoadLast, Begin, Complete, Establish, Tell,
           Release, BlessStart, LoadForBless, ReadBody, Forget, Register, Throw, Kill
    <2> QED
      BY <2>1
  <1> QED
    BY <1>1, <1>2, <1>3, <1>4

LEMMA FoundedStays ==
    ASSUME TypeOK, NEW x \in Procs, Acts(x), Founded
    PROVE  Founded'
  <1>1. CASE ~Flip(x)
    BY <1>1, BodiesStay DEF Founded, Artifacts
  <1>2. CASE Flip(x)
    <2>1. PICK a \in Artifacts : a = proc[x].artifact
      BY <1>2, FlipEffect
    <2>2. CASE a = "baseline"
      BY <1>2, <2>1, <2>2, FlipEffect DEF Founded, Slots
    <2>3. CASE a # "baseline"
      BY <1>2, <2>1, <2>3, FlipEffect DEF Founded, Slots, Artifacts
    <2> QED
      BY <2>2, <2>3
  <1> QED
    BY <1>1, <1>2

LEMMA RootedStep ==
    ASSUME TypeOK, Rooted, NEW x \in Procs, Shape(proc[x]), Acts(x),
           \A y \in Procs \ {x} : proc'[y] = proc[y]
    PROVE  Rooted'
  <1>0. None \notin Manifests /\ (proc[x] # Idle => proc[x].task \in {"scan", "bless"})
    BY NullsAssumption DEF TypeOK, Process
  <1>1. CASE Flip(x)
    <2>1. PICK a \in Artifacts : a = proc[x].artifact
      BY <1>1, FlipEffect
    <2>2. Founded'
      <3>1. CASE a = "baseline"
        <4>1. store[a].tmp # None /\ store'[a].body = store[a].tmp
          BY <1>1, <2>1, FlipEffect DEF Slots
        <4> QED
          BY <3>1, <4>1 DEF Founded
      <3>2. CASE a = "last-run"
        <4>1. Presupposes(proc[x])
          BY <1>0, <1>1, <2>1, <3>2, FlipEffect DEF Presupposes, Shape, Writing
        <4> QED
          BY <4>1, FoundedStays DEF Rooted
      <3> QED
        BY <3>1, <3>2 DEF Artifacts
    <2> QED
      BY <2>2 DEF Rooted
  <1>2. CASE ~Flip(x)
    <2>1. store'["last-run"].body # None => Founded'
      BY <1>2, BodiesStay, FoundedStays DEF Rooted, Artifacts
    <2>2. Presupposes(proc'[x]) => Founded
      <3>1. CASE Acquire(x) \/ BlessStart(x)
        BY <3>1, AcquireEffect, BlessStartEffect DEF Presupposes, Begun
      <3>2. CASE Skip(x) \/ Release(x) \/ Kill(x)
        BY <3>2, SkipEffect, ReleaseEffect, KillEffect DEF Presupposes, Rooted
      <3>3. CASE LoadKnown(x)
        BY <3>3, LoadKnownEffect DEF Presupposes, Rooted, Moves, At
      <3>4. CASE Walk(x)
        BY <3>4, WalkEffect DEF Presupposes, Rooted, Moves, At
      <3>5. CASE LoadLast(x)
        BY <3>5, LoadLastEffect DEF Presupposes, Rooted, Moves, At
      <3>6. CASE Begin(x) \/ Establish(x)
        BY <3>6, BeginEffect, EstablishEffect DEF Presupposes, Rooted, Moves, At
      <3>7. CASE Complete(x) \/ Tell(x)
        <4>1. GoesTo(x, "stage") \/ GoesTo(x, "release")
          BY <3>7, CompleteEffect, TellEffect
        <4> QED
          BY <4>1 DEF Presupposes, Rooted, GoesTo, Moves
      <3>8. CASE LoadForBless(x)
        BY <1>0, <3>8, LoadForBlessEffect DEF Presupposes, Rooted, Moves, At
      <3>9. CASE ReadBody(x)
        BY <1>0, <3>9, ReadBodyEffect DEF Presupposes, Rooted, Founded, Moves, Artifacts
      <3>10. CASE Stage(x) \/ StageSig(x) \/ FlipSig(x)
        BY <3>10, StageEffect, StageSigEffect, FlipSigEffect DEF Presupposes, Rooted, GoesTo, Moves
      <3>11. CASE Forget(x) \/ Register(x) \/ Throw(x)
        <4>1. \/ proc'[x] = Idle
              \/ \E at \in {"register", "establish", "release"} : GoesTo(x, at)
          BY <3>11, ForgetEffect, RegisterEffect, ThrowEffect
        <4> QED
          BY <4>1 DEF Presupposes, Rooted, GoesTo, Moves
      <3> QED
        BY <1>2, <3>1, <3>2, <3>3, <3>4, <3>5, <3>6, <3>7, <3>8, <3>9, <3>10, <3>11 DEF Acts
    <2>3. \A y \in Procs : Presupposes(proc'[y]) => Founded
      BY <2>2 DEF Rooted
    <2> QED
      BY <2>1, <2>3, FoundedStays DEF Rooted, Presupposes
  <1> QED
    BY <1>1, <1>2

-----------------------------------------------------------------------------
(* The lock, and who meets whom.                                           *)

LEMMA TaskStays ==
    ASSUME TypeOK, NEW x \in Procs, Acts(x), ~Acquire(x), ~BlessStart(x), proc'[x] # Idle
    PROVE  proc[x] # Idle /\ proc'[x].task = proc[x].task
  <1>1. CASE Skip(x)
    BY <1>1, SkipEffect
  <1>2. CASE LoadKnown(x)
    BY <1>2, LoadKnownEffect DEF Moves
  <1>3. CASE Walk(x)
    BY <1>3, WalkEffect DEF Moves
  <1>4. CASE LoadLast(x)
    BY <1>4, LoadLastEffect DEF Moves
  <1>5. CASE Begin(x)
    BY <1>5, BeginEffect DEF Moves
  <1>6. CASE Complete(x)
    BY <1>6, CompleteEffect DEF GoesTo, Moves
  <1>7. CASE Establish(x)
    BY <1>7, EstablishEffect DEF Moves
  <1>8. CASE Tell(x)
    BY <1>8, TellEffect DEF GoesTo, Moves
  <1>9. CASE LoadForBless(x)
    BY <1>9, LoadForBlessEffect DEF Moves
  <1>10. CASE ReadBody(x)
    BY <1>10, ReadBodyEffect DEF Moves
  <1>11. CASE Stage(x)
    BY <1>11, StageEffect DEF GoesTo, Moves
  <1>12. CASE StageSig(x)
    BY <1>12, StageSigEffect DEF GoesTo, Moves
  <1>13. CASE FlipSig(x)
    BY <1>13, FlipSigEffect DEF GoesTo, Moves
  <1>14. CASE Flip(x)
    BY <1>14, FlipEffect DEF GoesTo, Moves
  <1>15. CASE Forget(x)
    BY <1>15, ForgetEffect DEF GoesTo, Moves
  <1>16. CASE Register(x)
    BY <1>16, RegisterEffect DEF GoesTo, Moves
  <1>17. CASE Throw(x)
    BY <1>17, ThrowEffect DEF GoesTo, Moves
  <1>18. CASE Release(x) \/ Kill(x)
    BY <1>18, ReleaseEffect, KillEffect
  <1> QED
    BY <1>1, <1>2, <1>3, <1>4, <1>5, <1>6, <1>7, <1>8, <1>9, <1>10, <1>11, <1>12, <1>13, <1>14,
       <1>15, <1>16, <1>17, <1>18 DEF Acts

LEMMA ScanHoldsStep ==
    ASSUME IInv, ScanHolds, NEW x \in Procs, Acts(x)
    PROVE  ScanHolds'
  <1>1. TypeOK /\ mishaps \subseteq mishaps' /\ \A y \in Procs \ {x} : proc'[y] = proc[y]
    BY OthersStay DEF IInv
  <1>2. CASE Acquire(x)
    <2>1. lock = None /\ lock' = x
      BY <1>1, <1>2, AcquireEffect
    <2>2. ASSUME NEW y \in Procs \ {x}, "expired" \notin mishaps', proc[y] # Idle,
                 proc[y].task = "scan"
          PROVE  FALSE
      <3>1. lock = y
        BY <1>1, <2>2 DEF ScanHolds
      <3> QED
        BY <2>1, <3>1, NullsAssumption
    <2> QED
      BY <1>1, <2>1, <2>2 DEF ScanHolds
  <1>3. CASE Release(x)
    BY <1>1, <1>3, ReleaseEffect DEF ScanHolds, Release, At
  <1>4. CASE BlessStart(x)
    <2>1. lock' = lock
      BY <1>4 DEF BlessStart
    <2> QED
      BY <1>1, <1>4, <2>1, BlessStartEffect DEF ScanHolds, Begun
  <1>5. CASE ~Acquire(x) /\ ~Release(x) /\ ~BlessStart(x)
    <2>1. lock' = lock
      BY <1>5 DEF Acts, Skip, LoadKnown, Walk, LoadLast, Begin, Complete, Establish, Tell,
           LoadForBless, ReadBody, Stage, StageSig, FlipSig, Flip, Forget, Register, Throw, Kill
    <2>2. proc'[x] # Idle => proc[x] # Idle /\ proc'[x].task = proc[x].task
      BY <1>1, <1>5, TaskStays
    <2> QED
      BY <1>1, <2>1, <2>2 DEF ScanHolds
  <1> QED
    BY <1>2, <1>3, <1>4, <1>5

LEMMA UncontendedStep ==
    ASSUME IInv, Uncontended, NEW x \in Procs, Acts(x)
    PROVE  Uncontended'
  <1>1. TypeOK /\ mishaps \subseteq mishaps' /\ \A y \in Procs \ {x} : proc'[y] = proc[y]
    BY OthersStay DEF IInv
  <1>2. CASE Acquire(x)
    <2>0. mishaps' = IF Meets("scan") THEN mishaps \cup {"contended"} ELSE mishaps
      BY <1>1, <1>2, AcquireEffect DEF Join
    <2>1. "contended" \notin mishaps' =>
             \A y \in Procs : proc[y] # Idle => proc[y].task # "bless"
      BY <2>0 DEF Meets
    <2>2. proc[x] = Idle /\ proc'[x].task # "bless"
      BY <1>1, <1>2, AcquireEffect DEF Begun
    <2> QED
      BY <1>1, <2>1, <2>2 DEF Uncontended
  <1>3. CASE BlessStart(x)
    <2>1. "contended" \notin mishaps' => \A y \in Procs : proc[y] = Idle
      BY <1>3, BlessStartEffect, <1>1 DEF Join, Meets
    <2> QED
      BY <1>1, <2>1 DEF Uncontended
  <1>4. CASE ~Acquire(x) /\ ~BlessStart(x)
    <2>1. proc'[x] # Idle => proc[x] # Idle /\ proc'[x].task = proc[x].task
      BY <1>1, <1>4, TaskStays
    <2> QED
      BY <1>1, <2>1 DEF Uncontended
  <1> QED
    BY <1>2, <1>3, <1>4

\* While nothing goes wrong, a process at work is the only one.
LEMMA Alone ==
    ASSUME TypeOK, ScanHolds, Uncontended, mishaps = {},
           NEW x \in Procs, NEW y \in Procs, x # y, proc[x] # Idle
    PROVE  proc[y] = Idle
  BY DEF TypeOK, Process, ScanHolds, Uncontended

-----------------------------------------------------------------------------
(* First runs, and the temporary files of the last-run artifact.           *)

LEMMA FounderBefore ==
    ASSUME TypeOK, NEW x \in Procs, Shape(proc[x]), Acts(x), Founder(proc'[x])
    PROVE  ~Flip(x) /\ (Founder(proc[x]) \/ ~Founded)
  <1>1. CASE Acquire(x)
    <2>1. proc'[x] = Begun("scan", "baseline")
      BY <1>1, AcquireEffect
    <2> QED
      BY <2>1 DEF Founder, Begun, Writing
  <1>2. CASE Skip(x)
    BY <1>2, SkipEffect DEF Founder, Flip, Skip, Label
  <1>3. CASE LoadKnown(x)
    <2>1. ~Flip(x)
      BY <1>3 DEF LoadKnown, At, Flip, Label
    <2> QED
      BY <1>3, <2>1, LoadKnownEffect DEF Founder, Moves, At, Writing
  <1>4. CASE Walk(x)
    <2>1. ~Flip(x)
      BY <1>4 DEF Walk, At, Flip, Label
    <2> QED
      BY <1>4, <2>1, WalkEffect DEF Founder, Moves, At, Writing, Shape
  <1>5. CASE LoadLast(x)
    BY <1>5, LoadLastEffect DEF Founder, Moves, At, Writing
  <1>6. CASE Begin(x)
    BY <1>6, BeginEffect DEF Founder, Moves, At, Writing
  <1>7. CASE Complete(x)
    BY <1>7, CompleteEffect DEF Founder, GoesTo, Moves, At, Writing, Shape
  <1>8. CASE Establish(x)
    BY <1>8, EstablishEffect DEF Founder, Moves, At, Writing
  <1>9. CASE Tell(x)
    BY <1>9, TellEffect DEF Founder, GoesTo, Moves, At, Writing
  <1>10. CASE BlessStart(x)
    <2>1. proc'[x] = Begun("bless", "last-run")
      BY <1>10, BlessStartEffect
    <2> QED
      BY <2>1 DEF Founder, Begun
  <1>11. CASE LoadForBless(x)
    BY <1>11, LoadForBlessEffect DEF Founder, Moves, At
  <1>12. CASE ReadBody(x)
    <2>1. ~Flip(x)
      BY <1>12, AtType DEF ReadBody, Flip, Label
    <2> QED
      BY <1>12, <2>1, ReadBodyEffect DEF Founder, Founded, Moves, Writing
  <1>13. CASE Stage(x)
    <2>1. ~Flip(x)
      BY <1>13 DEF Stage, Flip
    <2> QED
      BY <1>13, <2>1, StageEffect DEF Founder, GoesTo, Moves, Writing
  <1>14. CASE StageSig(x)
    <2>1. ~Flip(x)
      BY <1>14 DEF StageSig, Flip
    <2> QED
      BY <1>14, <2>1, StageSigEffect DEF Founder, GoesTo, Moves, Writing
  <1>15. CASE FlipSig(x)
    <2>1. ~Flip(x)
      BY <1>15 DEF FlipSig, Flip
    <2> QED
      BY <1>15, <2>1, FlipSigEffect DEF Founder, GoesTo, Moves, Writing
  <1>16. CASE Flip(x)
    BY <1>16, FlipEffect DEF Founder, GoesTo, Moves, Writing
  <1>17. CASE Forget(x)
    BY <1>17, ForgetEffect DEF Founder, GoesTo, Moves, Writing
  <1>18. CASE Register(x)
    BY <1>18, RegisterEffect DEF Founder, GoesTo, Moves, Writing
  <1>19. CASE Throw(x)
    BY <1>19, ThrowEffect DEF Founder, GoesTo, Moves, Writing
  <1>20. CASE Release(x) \/ Kill(x)
    BY <1>20, ReleaseEffect, KillEffect DEF Founder
  <1> QED
    BY <1>1, <1>2, <1>3, <1>4, <1>5, <1>6, <1>7, <1>8, <1>9, <1>10, <1>11, <1>12, <1>13, <1>14,
       <1>15, <1>16, <1>17, <1>18, <1>19, <1>20 DEF Acts

\* The process that renames the baseline, if there was none, is the only first run.
LEMMA FoundersFirstStep ==
    ASSUME IInv, Rooted, ScanHolds, FoundersFirst, NEW x \in Procs, Shape(proc[x]), Acts(x)
    PROVE  FoundersFirst'
  <1>1. TypeOK /\ mishaps \subseteq mishaps' /\ \A y \in Procs \ {x} : proc'[y] = proc[y]
    BY OthersStay DEF IInv
  <1> SUFFICES ASSUME "expired" \notin mishaps', NEW y \in Procs, Founder(proc'[y]), Founded'
               PROVE  FALSE
    BY DEF FoundersFirst, Founder
  <1>2. "expired" \notin mishaps
    BY <1>1
  <1>3. CASE y = x
    <2>1. ~Flip(x) /\ ~Founded
      BY <1>1, <1>2, <1>3, FounderBefore DEF FoundersFirst
    <2> QED
      BY <1>1, <2>1, BodiesStay DEF Founded, Artifacts
  <1>4. CASE y # x
    <2>1. Founder(proc[y]) /\ ~Founded
      BY <1>1, <1>2, <1>4 DEF FoundersFirst
    <2>2. Flip(x)
      BY <1>1, <2>1, BodiesStay DEF Founded, Artifacts
    <2>3. PICK a \in Artifacts : a = proc[x].artifact
      BY <1>1, <2>2, FlipEffect
    <2>4. a = "baseline" /\ proc[x] # Idle
      BY <1>1, <2>1, <2>2, <2>3, FlipEffect DEF Founded, Slots, Artifacts
    <2>5. CASE proc[x].task = "scan"
      BY <1>2, <1>4, <2>1, <2>4, <2>5 DEF ScanHolds, Founder
    <2>6. CASE proc[x].task = "bless"
      BY <2>1, <2>3, <2>4, <2>6 DEF Rooted, Presupposes
    <2> QED
      BY <1>1, <2>4, <2>5, <2>6 DEF TypeOK, Process
  <1> QED
    BY <1>3, <1>4

\* Only a process that has written a temporary file has one to rename, only one that has
\* read has something to check, and only one that has cleared the registry fills it.
LEMMA WhoGoes ==
    ASSUME TypeOK, NEW x \in Procs, Acts(x), proc'[x] # Idle
    PROVE  /\ proc'[x].at \in {"stageSig", "flipSig", "flip"} =>
                 Stage(x) \/ StageSig(x) \/ FlipSig(x)
           /\ proc'[x].at = "check" => ReadBody(x)
           /\ proc'[x].at = "register" => Forget(x)
  <1>1. CASE Acquire(x) \/ BlessStart(x)
    BY <1>1, AcquireEffect, BlessStartEffect DEF Begun
  <1>2. CASE Skip(x)
    BY <1>2 DEF Skip
  <1>3. CASE LoadKnown(x) \/ Walk(x)
    BY <1>3, LoadKnownEffect, WalkEffect DEF Moves
  <1>4. CASE LoadLast(x) \/ LoadForBless(x)
    BY <1>4, LoadLastEffect, LoadForBlessEffect DEF Moves
  <1>5. CASE Begin(x) \/ Establish(x)
    BY <1>5, BeginEffect, EstablishEffect DEF Moves
  <1>6. CASE Complete(x) \/ Tell(x)
    <2>1. GoesTo(x, "stage") \/ GoesTo(x, "release")
      BY <1>6, CompleteEffect, TellEffect
    <2> QED
      BY <2>1 DEF GoesTo, Moves
  <1>7. CASE ReadBody(x)
    BY <1>7, ReadBodyEffect DEF Moves
  <1>8. CASE Flip(x)
    BY <1>8, FlipEffect DEF GoesTo, Moves
  <1>9. CASE Forget(x)
    BY <1>9, ForgetEffect DEF GoesTo, Moves
  <1>10. CASE Register(x) \/ Throw(x)
    <2>1. proc'[x] = Idle \/ GoesTo(x, "establish") \/ GoesTo(x, "release")
      BY <1>10, RegisterEffect, ThrowEffect
    <2> QED
      BY <2>1 DEF GoesTo, Moves
  <1>11. CASE Release(x) \/ Kill(x)
    BY <1>11, ReleaseEffect, KillEffect
  <1>12. CASE Stage(x) \/ StageSig(x) \/ FlipSig(x)
    <2>1. GoesTo(x, "stageSig") \/ GoesTo(x, "flipSig") \/ GoesTo(x, "flip")
      BY <1>12, StageEffect, StageSigEffect, FlipSigEffect
    <2> QED
      BY <1>12, <2>1 DEF GoesTo, Moves
  <1> QED
    BY <1>1, <1>2, <1>3, <1>4, <1>5, <1>6, <1>7, <1>8, <1>9, <1>10, <1>11, <1>12 DEF Acts

\* Only a process that writes it touches the files of an artifact, and it prepares them
\* for its own manifest.
LEMMA PreparedStep ==
    ASSUME TypeOK, NEW x \in Procs, Acts(x), proc'[x] # Idle,
           proc[x] # Idle => Prepared(proc[x], store[proc[x].artifact])
    PROVE  Prepared(proc'[x], store'[proc'[x].artifact])
  <1>1. CASE Stage(x)
    <2>1. PICK a \in Artifacts : a = proc[x].artifact
      BY <1>1, StageEffect
    <2> QED
      BY <1>1, <2>1, StageEffect DEF Prepared, Slots, GoesTo, Moves
  <1>2. CASE StageSig(x)
    <2>1. PICK a \in Artifacts : a = proc[x].artifact
      BY <1>2, StageSigEffect
    <2> QED
      BY <1>2, <2>1, StageSigEffect DEF Prepared, Slots, GoesTo, Moves
  <1>3. CASE FlipSig(x)
    <2>1. PICK a \in Artifacts : a = proc[x].artifact
      BY <1>3, FlipSigEffect
    <2> QED
      BY <1>3, <2>1, FlipSigEffect DEF Prepared, Slots, GoesTo, Moves
  <1>4. CASE ~Stage(x) /\ ~StageSig(x) /\ ~FlipSig(x)
    BY <1>4, WhoGoes DEF Prepared
  <1> QED
    BY <1>1, <1>2, <1>3, <1>4

LEMMA FilesStay ==
    ASSUME TypeOK, NEW x \in Procs, Acts(x), NEW a \in Artifacts, store'[a] # store[a]
    PROVE  proc[x] # Idle /\ proc[x].artifact = a /\ proc[x].at \in Writing
  <1>1. CASE Stage(x)
    BY <1>1, StageEffect DEF Slots, GoesTo, Moves, Writing
  <1>2. CASE StageSig(x)
    BY <1>2, StageSigEffect DEF Slots, GoesTo, Moves, Writing
  <1>3. CASE FlipSig(x)
    BY <1>3, FlipSigEffect DEF Slots, GoesTo, Moves, Writing
  <1>4. CASE Flip(x)
    BY <1>4, FlipEffect DEF Slots, Writing
  <1>5. CASE ~Stage(x) /\ ~StageSig(x) /\ ~FlipSig(x) /\ ~Flip(x)
    <2>1. store' = store
      BY <1>5 DEF Acts, Acquire, Skip, LoadKnown, Walk, LoadLast, Begin, Complete, Establish, Tell,
           Release, BlessStart, LoadForBless, ReadBody, Forget, Register, Throw, Kill
    <2> QED
      BY <2>1
  <1> QED
    BY <1>1, <1>2, <1>3, <1>4, <1>5

LEMMA LastRunPreparedStep ==
    ASSUME IInv, ScanHolds, LastRunPrepared, NEW x \in Procs, Shape(proc[x]), Acts(x)
    PROVE  LastRunPrepared'
  <1>1. TypeOK /\ mishaps \subseteq mishaps' /\ \A y \in Procs \ {x} : proc'[y] = proc[y]
    BY OthersStay DEF IInv
  <1> SUFFICES ASSUME "expired" \notin mishaps', NEW y \in Procs, proc'[y] # Idle,
                      proc'[y].task = "scan", proc'[y].artifact = "last-run"
               PROVE  Prepared(proc'[y], store'["last-run"])
    BY DEF LastRunPrepared, Prepared
  <1>2. "expired" \notin mishaps
    BY <1>1
  <1>3. CASE y = x /\ proc'[x].at \in {"stageSig", "flipSig", "flip"}
    <2>1. proc[x] # Idle /\ proc[x].task = "scan" /\ proc[x].artifact = "last-run"
      <3>1. Stage(x) \/ StageSig(x) \/ FlipSig(x)
        BY <1>1, <1>3, WhoGoes
      <3>2. \E at \in Labels : GoesTo(x, at)
        BY <1>1, <3>1, StageEffect, StageSigEffect, FlipSigEffect DEF Labels
      <3> QED
        BY <1>3, <3>2 DEF GoesTo, Moves
    <2> QED
      BY <1>1, <1>2, <1>3, <2>1, PreparedStep DEF LastRunPrepared
  <1>4. CASE y = x /\ proc'[x].at \notin {"stageSig", "flipSig", "flip"}
    BY <1>4 DEF Prepared
  <1>5. CASE y # x
    <2>1. /\ proc'[y] = proc[y]
          /\ Prepared(proc[y], store["last-run"])
      BY <1>1, <1>2, <1>5 DEF LastRunPrepared
    <2>2. store'["last-run"] = store["last-run"]
      <3> SUFFICES ASSUME store'["last-run"] # store["last-run"]
                   PROVE  FALSE
        OBVIOUS
      <3>1. proc[x] # Idle /\ proc[x].artifact = "last-run" /\ proc[x].at \in Writing
        BY <1>1, FilesStay DEF Artifacts
      <3>2. proc[x].task = "scan"
        BY <1>1, <3>1 DEF Shape, Writing, TypeOK, Process
      <3> QED
        BY <1>2, <1>5, <2>1, <3>1, <3>2 DEF ScanHolds
    <2> QED
      BY <2>1, <2>2
  <1> QED
    BY <1>3, <1>4, <1>5

-----------------------------------------------------------------------------
(* The rows of the runs.                                                   *)

\* A step adds a row, or changes that of its own run, or neither.
LEMMA RowsStep ==
    ASSUME TypeOK, NEW x \in Procs, Acts(x)
    PROVE  \/ runs' = runs
           \/ \E row : Added(row)
           \/ proc[x] # Idle /\ Only(proc[x].run)
  <1>1. CASE Skip(x)
    BY <1>1, SkipEffect
  <1>2. CASE LoadKnown(x)
    BY <1>2, LoadKnownEffect
  <1>3. CASE Walk(x)
    BY <1>3, WalkEffect
  <1>4. CASE Begin(x) \/ Establish(x)
    BY <1>4, BeginEffect, EstablishEffect
  <1>5. CASE Complete(x) \/ Tell(x) \/ Throw(x)
    BY <1>5, CompleteEffect, TellEffect, ThrowEffect DEF At
  <1>6. CASE \/ Acquire(x) \/ LoadLast(x) \/ Release(x) \/ BlessStart(x) \/ LoadForBless(x)
             \/ ReadBody(x) \/ Stage(x) \/ StageSig(x) \/ FlipSig(x) \/ Flip(x) \/ Forget(x)
             \/ Register(x) \/ Kill(x)
    BY <1>6 DEF Acquire, LoadLast, Release, BlessStart, LoadForBless, ReadBody, Stage, StageSig,
                FlipSig, Flip, Forget, Register, Kill
  <1> QED
    BY <1>1, <1>2, <1>3, <1>4, <1>5, <1>6 DEF Acts

\* What is on record stays, unless its run fails.
LEMMA RowsKept ==
    ASSUME TypeOK, NEW x \in Procs, Acts(x), Throw(x) => proc[x].run = 0, NEW i \in DOMAIN runs
    PROVE  /\ i \in DOMAIN runs'
           /\ runs'[i].current = runs[i].current
           /\ Concluded(i) => runs'[i].status \in {"completed", "baseline_established"}
           /\ runs[i].told => runs'[i].told
  <1>1. CASE \E row : Added(row)
    BY <1>1 DEF Added, Concluded
  <1>2. CASE Complete(x)
    <2>1. i # proc[x].run => runs'[i] = runs[i]
      BY <1>2, CompleteEffect DEF Only
    <2>2. i = proc[x].run => /\ runs'[i].status = "completed"
                             /\ runs'[i].current = runs[i].current
                             /\ runs'[i].told = runs[i].told
      BY <1>2, CompleteEffect
    <2>3. i \in DOMAIN runs'
      BY <1>2, CompleteEffect DEF Only
    <2> QED
      BY <2>1, <2>2, <2>3 DEF Concluded
  <1>3. CASE Tell(x)
    <2>1. i # proc[x].run => runs'[i] = runs[i]
      BY <1>3, TellEffect DEF Only
    <2>2. i = proc[x].run => /\ runs'[i].status = runs[i].status
                             /\ runs'[i].current = runs[i].current
      BY <1>3, TellEffect
    <2>3. i = proc[x].run => runs'[i].told
      BY <1>3, TellEffect
    <2>4. i \in DOMAIN runs'
      BY <1>3, TellEffect DEF Only
    <2> QED
      BY <2>1, <2>2, <2>3, <2>4 DEF Concluded
  <1>4. CASE Throw(x)
    BY <1>4, ThrowEffect DEF Concluded
  <1>5. CASE runs' = runs
    BY <1>5 DEF Concluded
  <1>6. CASE Skip(x) \/ LoadKnown(x) \/ Walk(x) \/ Begin(x) \/ Establish(x)
    <2>1. runs' = runs \/ \E row : Added(row)
      BY <1>6, SkipEffect, LoadKnownEffect, WalkEffect, BeginEffect, EstablishEffect
    <2> QED
      BY <1>1, <1>5, <2>1
  <1>7. CASE \/ Acquire(x) \/ LoadLast(x) \/ Release(x) \/ BlessStart(x) \/ LoadForBless(x)
             \/ ReadBody(x) \/ Stage(x) \/ StageSig(x) \/ FlipSig(x) \/ Flip(x) \/ Forget(x)
             \/ Register(x) \/ Kill(x)
    <2>1. runs' = runs
      BY <1>7 DEF Acquire, LoadLast, Release, BlessStart, LoadForBless, ReadBody, Stage, StageSig,
                  FlipSig, Flip, Forget, Register, Kill
    <2> QED
      BY <1>5, <2>1
  <1> QED
    BY <1>2, <1>3, <1>4, <1>6, <1>7 DEF Acts

\* A process that is to forget, register, establish or tell does, unless it fails.
LEMMA WhoFinishes ==
    ASSUME NEW x \in Procs, Acts(x), proc[x] # Idle
    PROVE  /\ proc[x].at = "forget" => Forget(x) \/ Throw(x) \/ Kill(x)
           /\ proc[x].at = "register" => Register(x) \/ Throw(x) \/ Kill(x)
           /\ proc[x].at = "establish" => Establish(x) \/ Throw(x) \/ Kill(x)
           /\ proc[x].at = "tell" => Tell(x) \/ Kill(x)
  <1>1. Label(x) = proc[x].at
    BY DEF Label
  <1> QED
    BY <1>1 DEF Acts, Acquire, Skip, LoadKnown, Walk, LoadLast, Begin, Complete, Establish, Tell,
           Release, BlessStart, LoadForBless, ReadBody, Stage, StageSig, FlipSig, Flip, Forget,
           Register, Throw, MayThrow, At

LEMMA RowFields ==
    ASSUME NEW status, NEW current
    PROVE  Row(status, current).status = status /\ Row(status, current).current = current
  BY DEF Row

LEMMA OthersRecorded ==
    ASSUME IInv, NEW x \in Procs, Acts(x), NEW y \in Procs, y # x, Recorded(proc[y], runs)
    PROVE  Recorded(proc[y], runs')
  <1>1. TypeOK /\ DOMAIN runs = 1..Len(runs)
    BY DEF IInv, TypeOK
  <1>2. proc[y] # Idle /\ proc[y].run \in DOMAIN runs =>
           proc[y].run \in DOMAIN runs' /\ runs'[proc[y].run] = runs[proc[y].run]
    <2>1. CASE runs' = runs \/ \E row : Added(row)
      BY <2>1 DEF Added
    <2>2. CASE proc[x] # Idle /\ Only(proc[x].run)
      <3>1. proc[y] # Idle /\ proc[y].run \in DOMAIN runs => proc[y].run # proc[x].run
        BY <1>1, <2>2 DEF IInv, OwnRows
      <3> QED
        BY <2>2, <3>1 DEF Only
    <2> QED
      BY <1>1, <2>1, <2>2, RowsStep
  <1> QED
    BY <1>2 DEF Recorded

LEMMA RecordedStep ==
    ASSUME IInv, NEW x \in Procs, Shape(proc[x]), Recorded(proc[x], runs), Acts(x)
    PROVE  Recorded(proc'[x], runs')
  <1>0. TypeOK /\ Coherent(proc[x], runs)
    BY DEF IInv
  <1>1. CASE Acquire(x) \/ BlessStart(x)
    BY <1>0, <1>1, AcquireEffect, BlessStartEffect DEF Recorded, Begun, Writing
  <1>2. CASE Skip(x)
    BY <1>0, <1>2, SkipEffect DEF Recorded, Skip
  <1>3. CASE LoadKnown(x)
    BY <1>0, <1>3, LoadKnownEffect DEF Recorded, Moves, Writing
  <1>4. CASE Walk(x)
    BY <1>0, <1>4, WalkEffect DEF Recorded, Moves, Writing
  <1>5. CASE LoadLast(x)
    BY <1>0, <1>5, LoadLastEffect DEF Recorded, Moves, Writing
  <1>6. CASE Begin(x)
    <2>1. /\ Added(Row("running", proc[x].current))
          /\ Moves(x, "complete", proc[x].artifact, proc[x].body, proc[x].known, proc[x].current,
                   Len(runs) + 1)
      BY <1>0, <1>6, BeginEffect
    <2>2. /\ Len(runs) + 1 \in DOMAIN runs'
          /\ runs'[Len(runs) + 1].status = "running"
          /\ runs'[Len(runs) + 1].current = proc[x].current
      BY <2>1, RowFields DEF Added
    <2> QED
      BY <2>1, <2>2 DEF Recorded, Moves, Writing
  <1>7. CASE Complete(x)
    <2>1. proc[x].run \in DOMAIN runs /\ runs[proc[x].run].current = proc[x].current
      BY <1>0, <1>7, CompleteEffect DEF Recorded, At
    <2>2. /\ DOMAIN runs' = DOMAIN runs
          /\ runs'[proc[x].run].status = "completed"
          /\ runs'[proc[x].run].current = proc[x].current
      BY <1>0, <1>7, <2>1, CompleteEffect DEF Only
    <2>3. GoesTo(x, "stage")
      BY <1>0, <1>7, CompleteEffect
    <2> QED
      BY <2>1, <2>2, <2>3 DEF Recorded, GoesTo, Moves
  <1>8. CASE Establish(x)
    <2>1. /\ Added(Row("baseline_established", proc[x].current))
          /\ Moves(x, "tell", proc[x].artifact, proc[x].body, proc[x].known, proc[x].current,
                   Len(runs) + 1)
      BY <1>0, <1>8, EstablishEffect
    <2>2. /\ Len(runs) + 1 \in DOMAIN runs'
          /\ runs'[Len(runs) + 1].status = "baseline_established"
          /\ runs'[Len(runs) + 1].current = proc[x].current
      BY <2>1, RowFields DEF Added
    <2> QED
      BY <2>1, <2>2 DEF Recorded, Moves, Writing
  <1>9. CASE Tell(x)
    <2>1. GoesTo(x, "release")
      BY <1>0, <1>9, TellEffect
    <2> QED
      BY <2>1 DEF Recorded, GoesTo, Moves, Writing
  <1>10. CASE LoadForBless(x)
    BY <1>0, <1>10, LoadForBlessEffect DEF Recorded, Moves, At
  <1>11. CASE ReadBody(x)
    BY <1>0, <1>11, ReadBodyEffect DEF Recorded, Moves, Writing
  <1>12. CASE Stage(x)
    BY <1>0, <1>12, StageEffect DEF Recorded, GoesTo, Moves, Writing
  <1>13. CASE StageSig(x)
    BY <1>0, <1>13, StageSigEffect DEF Recorded, GoesTo, Moves, Writing
  <1>14. CASE FlipSig(x)
    BY <1>0, <1>14, FlipSigEffect DEF Recorded, GoesTo, Moves, Writing
  <1>15. CASE Flip(x)
    <2>1. proc[x] # Idle /\ proc[x].at = "flip" /\ runs' = runs
      BY <1>0, <1>15, FlipEffect
    <2>2. proc[x].task = "scan" /\ proc[x].artifact = "baseline" => proc[x].known = None
      BY <1>0, <2>1 DEF Coherent, Founding
    <2> QED
      BY <1>0, <1>15, <2>1, <2>2, FlipEffect DEF Recorded, GoesTo, Moves, Writing
  <1>16. CASE Forget(x) \/ Register(x) \/ Throw(x)
    <2>1. \/ proc'[x] = Idle
          \/ \E at \in {"register", "establish", "release"} : GoesTo(x, at)
      BY <1>0, <1>16, ForgetEffect, RegisterEffect, ThrowEffect
    <2> QED
      BY <2>1 DEF Recorded, GoesTo, Moves, Writing
  <1>17. CASE Release(x) \/ Kill(x)
    BY <1>0, <1>17, ReleaseEffect, KillEffect DEF Recorded
  <1> QED
    BY <1>1, <1>2, <1>3, <1>4, <1>5, <1>6, <1>7, <1>8, <1>9, <1>10, <1>11, <1>12, <1>13, <1>14,
       <1>15, <1>16, <1>17 DEF Acts

-----------------------------------------------------------------------------
(* What the last-run artifact remembers.                                   *)

\* A run that has its row does not lose a temporary file to another writer.
LEMMA RenamesWork ==
    ASSUME TypeOK, LastRunPrepared, "expired" \notin mishaps, NEW x \in Procs, Shape(proc[x]),
           Throw(x), "failed" \notin mishaps'
    PROVE  proc[x].run = 0
  <1> SUFFICES ASSUME proc[x].run # 0
               PROVE  FALSE
    OBVIOUS
  <1>1. proc[x] # Idle /\ proc[x].at \in MayThrow /\ RenameFails(x)
    BY ThrowEffect
  <1>2. proc[x].task \in {"scan", "bless"} /\ proc[x].artifact \in Artifacts
    BY <1>1 DEF TypeOK, Process
  <1>3. proc[x].task = "scan" /\ proc[x].artifact = "last-run"
    BY <1>1, <1>2 DEF Shape, MayThrow, Artifacts
  <1>4. Prepared(proc[x], store["last-run"]) /\ proc[x].current # None
    BY <1>1, <1>3 DEF LastRunPrepared, Shape
  <1> QED
    BY <1>1, <1>3, <1>4 DEF RenameFails, Label, Prepared

LEMMA RememberedStep ==
    ASSUME IInv, ScanHolds, LastRunPrepared, Remembered,
           NEW x \in Procs, Shape(proc[x]), Recorded(proc[x], runs), Acts(x)
    PROVE  Remembered'
  <1>1. TypeOK /\ mishaps \subseteq mishaps' /\ \A y \in Procs \ {x} : proc'[y] = proc[y]
    BY OthersStay DEF IInv
  <1> SUFFICES ASSUME mishaps' \cap {"killed", "failed", "expired"} = {},
                      NEW m \in Manifests, m = store'["last-run"].body
               PROVE  Reported(m)' \/ Establishing(m)'
    BY DEF Remembered
  <1>2. /\ {"killed", "failed", "expired"} \cap mishaps = {}
        /\ "expired" \notin mishaps /\ "failed" \notin mishaps' /\ ~Kill(x)
    BY <1>1, KillEffect
  <1>3. Throw(x) => proc[x].run = 0
    BY <1>1, <1>2, RenamesWork
  <1>4. CASE m = store["last-run"].body
    <2>1. Reported(m) \/ Establishing(m)
      BY <1>2, <1>4 DEF Remembered
    <2>2. ASSUME NEW i \in DOMAIN runs, Concluded(i), runs[i].current = m,
                 runs[i].told \/ \E y \in Procs : At(y, "scan", "tell") /\ proc[y].run = i
          PROVE  Reported(m)'
      <3>1. /\ i \in DOMAIN runs' /\ runs'[i].current = m
            /\ runs'[i].status \in {"completed", "baseline_established"}
            /\ runs[i].told => runs'[i].told
        BY <1>1, <1>3, <2>2, RowsKept
      <3>2. CASE runs[i].told
        BY <3>1, <3>2 DEF Reported, Concluded
      <3>3. ASSUME NEW y \in Procs, At(y, "scan", "tell"), proc[y].run = i
            PROVE  Reported(m)'
        <4>1. CASE y = x
          <5>1. Tell(x)
            BY <1>2, <3>3, <4>1, WhoFinishes DEF At
          <5>2. runs'[i].told
            BY <1>1, <2>2, <3>3, <4>1, <5>1, TellEffect
          <5> QED
            BY <3>1, <5>2 DEF Reported, Concluded
        <4>2. CASE y # x
          <5>1. At(y, "scan", "tell")' /\ proc'[y].run = i
            BY <1>1, <3>3, <4>2 DEF At
          <5> QED
            BY <3>1, <5>1 DEF Reported, Concluded
        <4> QED
          BY <4>1, <4>2
      <3> QED
        BY <2>2, <3>2, <3>3
    <2>3. ASSUME NEW y \in Procs, NEW l \in {"forget", "register", "establish"},
                 At(y, "scan", l), proc[y].current = m
          PROVE  Reported(m)' \/ Establishing(m)'
      <3>1. CASE y # x
        <4>1. At(y, "scan", l)' /\ proc'[y].current = m
          BY <1>1, <2>3, <3>1 DEF At
        <4> QED
          BY <4>1 DEF Establishing
      <3>2. CASE y = x
        <4>1. /\ proc[x] # Idle /\ proc[x].task = "scan" /\ proc[x].at = l
              /\ proc[x].current = m
          BY <2>3, <3>2 DEF At
        <4>2. ~Throw(x)
          <5>1. ~RenameFails(x)
            BY <4>1 DEF RenameFails, Label
          <5> QED
            BY <1>1, <1>2, <5>1, ThrowEffect
        <4>3. CASE Forget(x) \/ Register(x)
          <5>1. GoesTo(x, "register") \/ GoesTo(x, "establish")
            BY <1>1, <4>1, <4>3, ForgetEffect, RegisterEffect
          <5>2. \E k \in {"forget", "register", "establish"} : At(x, "scan", k)'
            BY <4>1, <5>1 DEF At, GoesTo, Moves
          <5>3. proc'[x].current = m
            BY <4>1, <5>1 DEF GoesTo, Moves
          <5> QED
            BY <5>2, <5>3 DEF Establishing
        <4>4. CASE Establish(x)
          <5>1. /\ Added(Row("baseline_established", m))
                /\ Moves(x, "tell", proc[x].artifact, proc[x].body, proc[x].known,
                         proc[x].current, Len(runs) + 1)
            BY <1>1, <4>1, <4>4, EstablishEffect
          <5>2. PICK i \in DOMAIN runs' :
                   /\ i = Len(runs) + 1
                   /\ runs'[i].status = "baseline_established" /\ runs'[i].current = m
            BY <5>1, RowFields DEF Added
          <5>3. At(x, "scan", "tell")' /\ proc'[x].run = i
            BY <4>1, <5>1, <5>2 DEF At, Moves
          <5> QED
            BY <5>2, <5>3 DEF Reported, Concluded
        <4> QED
          BY <1>2, <2>3, <4>1, <4>2, <4>3, <4>4, WhoFinishes
      <3> QED
        BY <3>1, <3>2
    <2> QED
      BY <2>1, <2>2, <2>3 DEF Reported, Establishing
  <1>5. CASE m # store["last-run"].body
    <2>1. Flip(x)
      BY <1>1, <1>5, BodiesStay DEF Artifacts
    <2>2. PICK a \in Artifacts : a = proc[x].artifact
      BY <1>1, <2>1, FlipEffect
    <2>3. a = "last-run" /\ proc[x] # Idle /\ proc[x].at = "flip" /\ m = store[a].tmp
      BY <1>1, <1>5, <2>1, <2>2, FlipEffect DEF Slots, Artifacts
    <2>4. proc[x].task = "scan"
      BY <1>1, <2>2, <2>3 DEF Shape, Writing, TypeOK, Process
    <2>5. m = proc[x].current
      BY <1>2, <2>2, <2>3, <2>4 DEF LastRunPrepared, Prepared
    <2>6. CASE proc[x].known # None /\ GoesTo(x, "tell")
      <3>1. PICK i \in DOMAIN runs :
               /\ i = proc[x].run
               /\ runs[i].status \in {"completed", "baseline_established"} /\ runs[i].current = m
        BY <2>2, <2>3, <2>4, <2>5, <2>6 DEF Recorded, Writing
      <3>2. runs' = runs
        BY <1>1, <2>1, <2>2, FlipEffect
      <3>3. At(x, "scan", "tell")' /\ proc'[x].run = i
        BY <2>4, <2>6, <3>1 DEF At, GoesTo, Moves
      <3> QED
        BY <3>1, <3>2, <3>3 DEF Reported, Concluded
    <2>7. CASE GoesTo(x, "forget")
      <3>1. At(x, "scan", "forget")' /\ proc'[x].current = m
        BY <2>4, <2>5, <2>7 DEF At, GoesTo, Moves
      <3> QED
        BY <3>1 DEF Establishing
    <2> QED
      BY <1>1, <2>1, <2>2, <2>3, <2>6, <2>7, FlipEffect
  <1> QED
    BY <1>4, <1>5

-----------------------------------------------------------------------------
(* While nothing has gone wrong.                                           *)

LEMMA AloneNext ==
    ASSUME TypeOK', ScanHolds', Uncontended', mishaps' = {},
           NEW x \in Procs, NEW y \in Procs, x # y, proc'[x] # Idle
    PROVE  proc'[y] = Idle
  BY DEF TypeOK, Process, ScanHolds, Uncontended

\* A step with which nothing has gone wrong fails nowhere, and one of a process at work
\* meets nobody.
LEMMA Calm ==
    ASSUME Ordered, NEW x \in Procs, Acts(x), mishaps' = {}
    PROVE  /\ mishaps = {}
           /\ TypeOK /\ Shape(proc[x]) /\ Undisturbed(proc[x])
           /\ ~Throw(x) /\ ~Kill(x)
           /\ \A y \in Procs \ {x} : proc'[y] = proc[y]
           /\ ~Skip(x) => \A y \in Procs \ {x} : proc[y] = Idle
           /\ proc[x] # Idle /\ proc[x].at = "flip" => Flip(x)
  <1>1. /\ IInv /\ TypeOK /\ mishaps = {} /\ \A y \in Procs \ {x} : proc'[y] = proc[y]
        /\ Shape(proc[x]) /\ ScanHolds /\ Uncontended
    BY OthersStay DEF Ordered, IInv
  <1>2. Undisturbed(proc[x])
    BY <1>1 DEF Ordered, Orderly
  <1>3. ~Kill(x)
    BY <1>1, KillEffect
  <1>4. ~Throw(x)
    <2> SUFFICES ASSUME Throw(x)
                 PROVE  FALSE
      OBVIOUS
    <2>1. proc[x] # Idle /\ RenameFails(x)
      BY <1>1, ThrowEffect
    <2>2. Prepared(proc[x], store[proc[x].artifact])
      BY <1>2, <2>1 DEF Undisturbed
    <2>3. proc[x].at \in {"flipSig", "flip"} /\ proc[x].current # None
      BY <1>1, <2>1 DEF RenameFails, Label, Shape, Writing
    <2> QED
      BY <2>1, <2>2, <2>3 DEF RenameFails, Label, Prepared
  <1>5. ASSUME ~Skip(x), NEW y \in Procs \ {x}
        PROVE  proc[y] = Idle
    <2>1. CASE proc[x] # Idle
      BY <1>1, <2>1, Alone
    <2>2. CASE proc[x] = Idle
      <3>1. Acquire(x) \/ BlessStart(x)
        BY <1>5, <2>2 DEF Acts, LoadKnown, Walk, LoadLast, Begin, Complete, Establish, Tell,
           Release, LoadForBless, ReadBody, Stage, StageSig, FlipSig, Flip, Forget, Register,
           Throw, MayThrow, Kill, At, Label
      <3>2. proc'[x] # Idle
        <4>1. proc'[x].task \in {"scan", "bless"}
          BY <1>1, <3>1, AcquireEffect, BlessStartEffect DEF Begun
        <4> QED
          BY <4>1 DEF Idle
      <3>3. ScanHolds' /\ Uncontended' /\ TypeOK'
        BY <1>1, ScanHoldsStep, UncontendedStep, StepIInv DEF Acts, Next, IInv
      <3> QED
        BY <1>1, <1>5, <3>2, <3>3, AloneNext
    <2> QED
      BY <2>1, <2>2
  <1>6. proc[x] # Idle /\ proc[x].at = "flip" => Flip(x)
    <2> SUFFICES ASSUME proc[x] # Idle, proc[x].at = "flip", ~Flip(x)
                 PROVE  FALSE
      OBVIOUS
    <2>1. Label(x) = "flip"
      BY DEF Label
    <2> QED
      BY <1>3, <1>4, <2>1 DEF Acts, Acquire, Skip, LoadKnown, Walk, LoadLast, Begin, Complete,
         Establish, Tell, Release, BlessStart, LoadForBless, ReadBody, Stage, StageSig, FlipSig,
         Forget, Register, At
  <1> QED
    BY <1>1, <1>2, <1>3, <1>4, <1>5, <1>6

LEMMA OnRecordStays ==
    ASSUME TypeOK, NEW x \in Procs, Acts(x), ~Throw(x), NEW m, OnRecord(m)
    PROVE  OnRecord(m)'
  <1>1. PICK i \in DOMAIN runs : Concluded(i) /\ runs[i].current = m
    BY DEF OnRecord
  <1>2. /\ i \in DOMAIN runs' /\ runs'[i].current = m
        /\ runs'[i].status \in {"completed", "baseline_established"}
    BY <1>1, RowsKept
  <1> QED
    BY <1>2 DEF OnRecord, Concluded

\* Artifact and signature agree except for the process that is about to rename.
LEMMA PairedStep ==
    ASSUME Ordered, NEW x \in Procs, Acts(x), mishaps' = {}
    PROVE  Paired'
  <1>1. /\ TypeOK /\ mishaps = {} /\ Undisturbed(proc[x])
        /\ \A y \in Procs \ {x} : proc'[y] = proc[y]
        /\ proc[x] # Idle /\ proc[x].at = "flip" => Flip(x)
    BY Calm
  <1>2. Paired
    BY <1>1 DEF Ordered, Orderly
  <1>3. CASE Skip(x)
    BY <1>2, <1>3 DEF Skip, Paired, Label
  <1>4. CASE ~Skip(x)
    <2>1. \A y \in Procs \ {x} : proc[y] = Idle
      BY <1>4, Calm
    <2>2. \A y \in Procs : Label(y) = "flip" => y = x /\ Flip(x)
      BY <1>1, <2>1, AtType DEF Label
    <2>3. CASE Flip(x)
      <3>1. PICK a \in Artifacts : a = proc[x].artifact
        BY <1>1, <2>3, FlipEffect
      <3>2. /\ proc[x] # Idle /\ proc[x].at = "flip"
            /\ Slots(a, store[a].tmp, store[a].sig, None, store[a].sigTmp)
        BY <1>1, <2>3, <3>1, FlipEffect
      <3>3. store'[a].body = store'[a].sig
        BY <1>1, <3>1, <3>2 DEF Undisturbed, Prepared, Slots
      <3>4. ASSUME NEW b \in Artifacts, b # a
            PROVE  store'[b].body = store'[b].sig
        BY <1>2, <2>2, <3>1, <3>2, <3>4 DEF Paired, Slots
      <3> QED
        BY <3>3, <3>4 DEF Paired
    <2>4. CASE FlipSig(x)
      <3>1. PICK a \in Artifacts : a = proc[x].artifact
        BY <1>1, <2>4, FlipSigEffect
      <3>2. ~Flip(x) /\ GoesTo(x, "flip")
            /\ Slots(a, store[a].body, store[a].sigTmp, store[a].tmp, None)
        BY <1>1, <2>4, <3>1, FlipSigEffect DEF Flip, FlipSig
      <3>3. Label(x)' = "flip" /\ proc'[x].artifact = a
        BY <3>1, <3>2 DEF GoesTo, Moves, Label
      <3>4. ASSUME NEW b \in Artifacts, b # a
            PROVE  store'[b].body = store'[b].sig
        BY <1>2, <2>2, <3>2, <3>4 DEF Paired, Slots
      <3> QED
        BY <3>3, <3>4 DEF Paired
    <2>5. CASE ~Flip(x) /\ ~FlipSig(x)
      <3>1. \A a \in Artifacts : store[a].body = store[a].sig
        BY <1>2, <2>2, <2>5 DEF Paired
      <3>2. \A a \in Artifacts : store'[a].body = store[a].body /\ store'[a].sig = store[a].sig
        <4>1. CASE Stage(x)
          BY <1>1, <4>1, StageEffect DEF Slots
        <4>2. CASE StageSig(x)
          BY <1>1, <4>2, StageSigEffect DEF Slots
        <4>3. CASE ~Stage(x) /\ ~StageSig(x)
          <5>1. store' = store
            BY <2>5, <4>3 DEF Acts, Acquire, Skip, LoadKnown, Walk, LoadLast, Begin, Complete,
               Establish, Tell, Release, BlessStart, LoadForBless, ReadBody, Forget, Register,
               Throw, Kill
          <5> QED
            BY <5>1
        <4> QED
          BY <4>1, <4>2, <4>3
      <3> QED
        BY <3>1, <3>2 DEF Paired
    <2> QED
      BY <2>3, <2>4, <2>5
  <1> QED
    BY <1>3, <1>4

\* So what a scan reads of the baseline is absent or good.
LEMMA GoodNews ==
    ASSUME Ordered, NEW x \in Procs, LoadKnown(x), mishaps' = {}
    PROVE  Verdict(x) \in {"absent", "good"}
  <1>1. Acts(x) /\ ~Skip(x) /\ At(x, "scan", "check") /\ proc[x].artifact = "baseline"
    BY DEF Acts, LoadKnown, Skip, At
  <1>2. /\ TypeOK /\ mishaps = {} /\ Undisturbed(proc[x])
        /\ \A y \in Procs \ {x} : proc[y] = Idle
    BY <1>1, Calm
  <1>3. store["baseline"].body = store["baseline"].sig
    BY <1>1, <1>2 DEF Ordered, Orderly, Paired, Artifacts, Label, At
  <1>4. proc[x].body = store["baseline"].body
    BY <1>1, <1>2 DEF Undisturbed, At
  <1>5. store["baseline"].sig \in Manifests \cup {None}
    BY <1>2 DEF TypeOK, Slot, Artifacts
  <1>6. CASE proc[x].body = None
    BY <1>6, NullsAssumption DEF Verdict
  <1>7. CASE proc[x].body # None
    <2>1. proc[x].body \notin {None, Broken} /\ store["baseline"].sig # None
      BY <1>3, <1>4, <1>5, <1>7, NullsAssumption
    <2> QED
      BY <1>1, <1>3, <1>4, <2>1 DEF Verdict
  <1> QED
    BY <1>6, <1>7

LEMMA NoAlarmStep ==
    ASSUME Ordered, NEW x \in Procs, Acts(x), mishaps' = {}
    PROVE  NoAlarm'
  <1>1. TypeOK /\ mishaps = {} /\ ~Throw(x) /\ ~Kill(x)
    BY Calm
  <1>2. NoAlarm
    BY <1>1 DEF Ordered, Orderly
  <1>3. CASE \E current : \E status \in Statuses \ {"tamper_suspected", "failed"} :
                Added(Row(status, current))
    BY <1>2, <1>3, RowFields DEF NoAlarm, Added
  <1>4. CASE Complete(x)
    BY <1>1, <1>2, <1>4, CompleteEffect DEF NoAlarm, Only
  <1>5. CASE Tell(x)
    <2>1. /\ Only(proc[x].run)
          /\ proc[x].run \in DOMAIN runs =>
                runs'[proc[x].run].status = runs[proc[x].run].status
      BY <1>1, <1>5, TellEffect
    <2> QED
      BY <1>2, <2>1 DEF NoAlarm, Only
  <1>6. CASE runs' = runs
    BY <1>2, <1>6 DEF NoAlarm
  <1>7. CASE LoadKnown(x)
    <2>1. runs' = runs
      BY <1>1, <1>7, GoodNews, LoadKnownEffect
    <2> QED
      BY <1>6, <2>1
  <1>8. CASE Walk(x)
    <2>1. runs' = runs \/ Added(Row("aborted_limit", None))
      BY <1>1, <1>8, WalkEffect
    <2> QED
      BY <1>3, <1>6, <2>1 DEF Statuses
  <1>9. CASE Skip(x) \/ Begin(x) \/ Establish(x)
    <2>1. \E current : \E status \in {"skipped", "running", "baseline_established"} :
             Added(Row(status, current))
      BY <1>1, <1>9, SkipEffect, BeginEffect, EstablishEffect
    <2> QED
      BY <1>3, <2>1 DEF Statuses
  <1>10. CASE \/ Acquire(x) \/ LoadLast(x) \/ Release(x) \/ BlessStart(x) \/ LoadForBless(x)
              \/ ReadBody(x) \/ Stage(x) \/ StageSig(x) \/ FlipSig(x) \/ Flip(x) \/ Forget(x)
              \/ Register(x)
    <2>1. runs' = runs
      BY <1>10 DEF Acquire, LoadLast, Release, BlessStart, LoadForBless, ReadBody, Stage, StageSig,
                   FlipSig, Flip, Forget, Register
    <2> QED
      BY <1>6, <2>1
  <1> QED
    BY <1>1, <1>4, <1>5, <1>7, <1>8, <1>9, <1>10 DEF Acts

\* A process that is midway has been, or has just renamed the baseline.
LEMMA WhoIsMidway ==
    ASSUME IInv, NEW x \in Procs, Shape(proc[x]), Acts(x), ~Skip(x), Midway(proc'[x])
    PROVE  /\ proc[x] # Idle /\ proc'[x].current = proc[x].current
           /\ \/ Midway(proc[x]) /\ (Flip(x) => proc[x].artifact = "last-run")
              \/ Flip(x) /\ proc[x].artifact = "baseline"
  <1>0. TypeOK /\ Coherent(proc[x], runs) /\ (proc[x] # Idle => proc[x].task \in {"scan", "bless"})
    BY DEF IInv, TypeOK, Process
  <1>1. CASE Acquire(x) \/ BlessStart(x)
    BY <1>0, <1>1, AcquireEffect, BlessStartEffect DEF Midway, Begun, Writing
  <1>2. CASE LoadKnown(x) \/ LoadLast(x) \/ Begin(x)
    BY <1>0, <1>2, LoadKnownEffect, LoadLastEffect, BeginEffect DEF Midway, Moves, Writing
  <1>3. CASE Walk(x)
    BY <1>0, <1>3, WalkEffect DEF Midway, Moves, Writing
  <1>4. CASE Establish(x)
    BY <1>0, <1>4, EstablishEffect DEF Midway, Moves, Writing
  <1>5. CASE LoadForBless(x)
    BY <1>0, <1>5, LoadForBlessEffect DEF Midway, Moves, Writing, At
  <1>6. CASE Complete(x)
    <2>1. proc[x].known # None /\ GoesTo(x, "stage")
      BY <1>0, <1>6, CompleteEffect DEF Coherent, At
    <2> QED
      BY <2>1 DEF Midway, GoesTo, Moves, Writing
  <1>7. CASE Tell(x)
    <2>1. GoesTo(x, "release")
      BY <1>0, <1>7, TellEffect
    <2> QED
      BY <2>1 DEF Midway, GoesTo, Moves, Writing
  <1>8. CASE ReadBody(x)
    BY <1>0, <1>8, ReadBodyEffect DEF Midway, Moves, Writing
  <1>9. CASE Stage(x) \/ StageSig(x) \/ FlipSig(x)
    <2>1. /\ GoesTo(x, "stageSig") \/ GoesTo(x, "flipSig") \/ GoesTo(x, "flip")
          /\ proc[x].at \in Writing
      BY <1>0, <1>9, StageEffect, StageSigEffect, FlipSigEffect DEF Writing
    <2>2. ~Flip(x)
      BY <1>9 DEF Stage, StageSig, FlipSig, Flip
    <2> QED
      BY <2>1, <2>2 DEF Midway, GoesTo, Moves, Writing
  <1>10. CASE Flip(x)
    <2>1. PICK a \in Artifacts : a = proc[x].artifact
      BY <1>0, <1>10, FlipEffect
    <2>2. proc[x] # Idle /\ proc[x].at = "flip" /\ proc'[x].current = proc[x].current
      BY <1>0, <1>10, <2>1, FlipEffect DEF GoesTo, Moves
    <2>3. CASE a = "baseline"
      BY <1>10, <2>1, <2>2, <2>3
    <2>4. CASE a = "last-run"
      <3>1. proc[x].task = "scan"
        BY <1>0, <2>1, <2>2, <2>4 DEF Shape, Writing
      <3>2. proc[x].known = None
        BY <1>0, <1>10, <2>1, <2>4, FlipEffect DEF GoesTo, Moves, Midway, Writing
      <3> QED
        BY <2>1, <2>2, <2>4, <3>1, <3>2 DEF Midway, Writing
    <2> QED
      BY <2>1, <2>3, <2>4 DEF Artifacts
  <1>11. CASE Forget(x)
    <2>1. proc[x].at = "forget" /\ GoesTo(x, "register")
      BY <1>0, <1>11, ForgetEffect
    <2>2. ~Flip(x)
      BY <1>11 DEF Forget, Flip
    <2> QED
      BY <2>1, <2>2 DEF Midway, GoesTo, Moves
  <1>12. CASE Register(x) \/ Throw(x)
    <2>1. \/ proc'[x] = Idle
          \/ GoesTo(x, "establish") \/ GoesTo(x, "release")
      BY <1>0, <1>12, RegisterEffect, ThrowEffect
    <2> QED
      BY <2>1 DEF Midway, GoesTo, Moves, Writing
  <1>13. CASE Release(x) \/ Kill(x)
    BY <1>0, <1>13, ReleaseEffect, KillEffect DEF Midway
  <1> QED
    BY <1>1, <1>2, <1>3, <1>4, <1>5, <1>6, <1>7, <1>8, <1>9, <1>10, <1>11, <1>12, <1>13 DEF Acts

\* What a bless is to write is on record.
LEMMA WhatIsBlessed ==
    ASSUME Ordered, NEW x \in Procs, Acts(x), mishaps' = {}, ~Skip(x),
           proc'[x] # Idle, proc'[x].task = "bless", proc'[x].at \notin {"read", "check"}
    PROVE  OnRecord(proc'[x].current)
  <1>1. /\ TypeOK /\ mishaps = {} /\ Shape(proc[x]) /\ Undisturbed(proc[x])
        /\ \A y \in Procs \ {x} : proc[y] = Idle
    BY Calm
  <1>2. CASE LoadForBless(x)
    <2>1. /\ At(x, "bless", "check") /\ proc[x].body \in Manifests
          /\ proc'[x].current = proc[x].body
      BY <1>1, <1>2, LoadForBlessEffect DEF Moves
    <2>2. proc[x].body = store["last-run"].body
      BY <1>1, <2>1 DEF Undisturbed, Shape, At, Writing
    <2>3. Reported(proc[x].body) \/ Establishing(proc[x].body)
      BY <1>1, <2>1, <2>2 DEF Ordered, Remembered
    <2>4. ~Establishing(proc[x].body)
      BY <1>1, <2>1 DEF Establishing, At
    <2> QED
      BY <2>1, <2>3, <2>4 DEF Reported, OnRecord
  <1>3. CASE ~LoadForBless(x)
    <2>1. proc[x] # Idle /\ proc[x].task = "bless"
      <3>1. ~Acquire(x) /\ ~BlessStart(x)
        BY <1>1, AcquireEffect, BlessStartEffect DEF Begun
      <3> QED
        BY <1>1, <3>1, TaskStays
    <2>2. proc[x].at \notin {"read", "check"} /\ proc'[x].current = proc[x].current
      <3>1. CASE ReadBody(x)
        BY <1>1, <3>1, ReadBodyEffect DEF Moves
      <3>2. CASE Stage(x) \/ StageSig(x) \/ FlipSig(x)
        <4>1. /\ GoesTo(x, "stageSig") \/ GoesTo(x, "flipSig") \/ GoesTo(x, "flip")
              /\ proc[x].at \in Writing
          BY <1>1, <3>2, StageEffect, StageSigEffect, FlipSigEffect DEF Writing
        <4> QED
          BY <4>1 DEF GoesTo, Moves, Writing
      <3>3. CASE Flip(x)
        BY <1>1, <3>3, FlipEffect DEF GoesTo, Moves
      <3>4. CASE Forget(x)
        BY <1>1, <3>4, ForgetEffect DEF GoesTo, Moves
      <3>5. CASE Register(x)
        BY <1>1, <2>1, <3>5, RegisterEffect
      <3>6. CASE Throw(x) \/ Kill(x)
        BY <3>6, Calm
      <3>7. CASE \/ Acquire(x) \/ LoadKnown(x) \/ Walk(x) \/ LoadLast(x) \/ Begin(x)
                 \/ Complete(x) \/ Establish(x) \/ Tell(x) \/ Release(x) \/ BlessStart(x)
        BY <2>1, <3>7 DEF Acquire, LoadKnown, Walk, LoadLast, Begin, Complete, Establish, Tell,
                          Release, BlessStart, At
      <3> QED
        BY <1>3, <3>1, <3>2, <3>3, <3>4, <3>5, <3>6, <3>7 DEF Acts
    <2> QED
      BY <1>1, <2>1, <2>2 DEF Undisturbed
  <1> QED
    BY <1>2, <1>3

LEMMA UndisturbedStep ==
    ASSUME Ordered, NEW x \in Procs, Acts(x), mishaps' = {}, ~Skip(x), NEW y \in Procs
    PROVE  Undisturbed(proc[y])'
  <1>1. /\ TypeOK /\ IInv /\ mishaps = {} /\ Shape(proc[x]) /\ Undisturbed(proc[x])
        /\ \A z \in Procs \ {x} : proc'[z] = proc[z]
        /\ ~Throw(x) /\ ~Kill(x)
        /\ \A z \in Procs \ {x} : proc[z] = Idle
    BY Calm DEF Ordered
  <1>2. CASE y # x \/ proc'[y] = Idle
    <2>1. proc'[y] = Idle
      BY <1>1, <1>2
    <2> QED
      BY <2>1 DEF Undisturbed
  <1>3. CASE y = x /\ proc'[x] # Idle
    <2>1. proc'[x].at = "check" => proc'[x].body = store'[proc'[x].artifact].body
      <3> SUFFICES ASSUME proc'[x].at = "check"
                   PROVE  proc'[x].body = store'[proc'[x].artifact].body
        OBVIOUS
      <3>1. ReadBody(x)
        BY <1>1, <1>3, WhoGoes
      <3> QED
        BY <1>1, <3>1, ReadBodyEffect DEF Moves
    <2>2. Prepared(proc'[x], store'[proc'[x].artifact])
      BY <1>1, <1>3, PreparedStep DEF Undisturbed
    <2>3. proc'[x].at = "flip" => store'[proc'[x].artifact].sig = proc'[x].current
      <3> SUFFICES ASSUME proc'[x].at = "flip"
                   PROVE  store'[proc'[x].artifact].sig = proc'[x].current
        OBVIOUS
      <3>1. CASE FlipSig(x)
        <4>1. PICK a \in Artifacts : a = proc[x].artifact
          BY <1>1, <3>1, FlipSigEffect
        <4> QED
          BY <1>1, <3>1, <4>1, FlipSigEffect DEF Undisturbed, Prepared, Slots, GoesTo, Moves
      <3>2. CASE Stage(x) \/ StageSig(x)
        <4>1. GoesTo(x, "stageSig") \/ GoesTo(x, "flipSig")
          BY <1>1, <3>2, StageEffect, StageSigEffect
        <4> QED
          BY <4>1 DEF GoesTo, Moves
      <3> QED
        BY <1>1, <1>3, <3>1, <3>2, WhoGoes
    <2>4. Midway(proc'[x]) => store'["baseline"].body = proc'[x].current
      <3> SUFFICES ASSUME Midway(proc'[x])
                   PROVE  store'["baseline"].body = proc'[x].current
        OBVIOUS
      <3>1. proc[x] # Idle /\ proc'[x].current = proc[x].current
        BY <1>1, WhoIsMidway
      <3>2. CASE Flip(x) /\ proc[x].artifact = "baseline"
        <4>1. PICK a \in Artifacts : a = proc[x].artifact
          BY <1>1, <3>2, FlipEffect
        <4>2. proc[x].at = "flip" /\ store'[a].body = store[a].tmp
          BY <1>1, <3>2, <4>1, FlipEffect DEF Slots
        <4> QED
          BY <1>1, <3>1, <3>2, <4>1, <4>2 DEF Undisturbed, Prepared
      <3>3. CASE Flip(x) /\ proc[x].artifact = "last-run" /\ Midway(proc[x])
        <4>1. store'["baseline"] = store["baseline"]
          BY <1>1, <3>3, FilesStay DEF Artifacts
        <4> QED
          BY <1>1, <3>1, <3>3, <4>1 DEF Undisturbed
      <3>4. CASE ~Flip(x) /\ Midway(proc[x])
        <4>1. store'["baseline"].body = store["baseline"].body
          BY <1>1, <3>4, BodiesStay DEF Artifacts
        <4> QED
          BY <1>1, <3>1, <3>4, <4>1 DEF Undisturbed
      <3> QED
        BY <1>1, <3>2, <3>3, <3>4, WhoIsMidway
    <2>5. ASSUME proc'[x].task = "bless", proc'[x].at \notin {"read", "check"},
                 NEW m, m = proc'[x].current
          PROVE  OnRecord(m)'
      <3>1. OnRecord(m)
        BY <1>3, <2>5, WhatIsBlessed
      <3> QED
        BY <1>1, <3>1, OnRecordStays
    <2>6. proc'[x].at = "register" => registry' = << >>
      BY <1>1, <1>3, WhoGoes, ForgetEffect
    <2>7. proc'[x].task = "bless" /\ proc'[x].at \notin {"read", "check"} =>
             \E i \in DOMAIN runs' : /\ runs'[i].status \in {"completed", "baseline_established"}
                                     /\ runs'[i].current = proc'[x].current
      BY <2>5 DEF OnRecord, Concluded
    <2> QED
      BY <1>3, <2>1, <2>2, <2>3, <2>4, <2>6, <2>7 DEF Undisturbed, OnRecord, Concluded
  <1> QED
    BY <1>2, <1>3

\* Only a process that registers stops being midway.
LEMMA MidwayStays ==
    ASSUME Ordered, NEW x \in Procs, Acts(x), mishaps' = {}, Midway(proc[x]), ~Register(x)
    PROVE  Midway(proc'[x])
  <1>1. /\ TypeOK /\ Shape(proc[x]) /\ ~Throw(x) /\ ~Kill(x)
        /\ proc[x].at = "flip" => Flip(x)
    BY Calm DEF Midway
  <1>2. /\ proc[x] # Idle /\ Label(x) = proc[x].at
        /\ proc[x].task \in {"scan", "bless"}
        /\ proc[x].at \in {"forget", "register"} \cup Writing
    BY <1>1 DEF Midway, Label, TypeOK, Process
  <1>3. Stage(x) \/ StageSig(x) \/ FlipSig(x) \/ Flip(x) \/ Forget(x)
    BY <1>1, <1>2 DEF Acts, Acquire, Skip, LoadKnown, Walk, LoadLast, Begin, Complete, Establish,
       Tell, Release, BlessStart, LoadForBless, ReadBody, At, Writing
  <1>4. CASE Stage(x) \/ StageSig(x) \/ FlipSig(x)
    <2>1. /\ GoesTo(x, "stageSig") \/ GoesTo(x, "flipSig") \/ GoesTo(x, "flip")
          /\ proc[x].at \in Writing
      BY <1>1, <1>4, StageEffect, StageSigEffect, FlipSigEffect DEF Writing
    <2> QED
      BY <2>1 DEF Midway, GoesTo, Moves, Writing
  <1>5. CASE Flip(x)
    <2>1. proc[x].at = "flip"
      BY <1>1, <1>5, FlipEffect
    <2> QED
      BY <1>1, <1>5, <2>1, FlipEffect DEF Midway, GoesTo, Moves, Writing
  <1>6. CASE Forget(x)
    BY <1>1, <1>6, ForgetEffect DEF Midway, GoesTo, Moves
  <1> QED
    BY <1>3, <1>4, <1>5, <1>6

LEMMA RegisteredStep ==
    ASSUME Ordered, NEW x \in Procs, Acts(x), mishaps' = {}, ~Skip(x)
    PROVE  Registered'
  <1>1. /\ TypeOK /\ IInv /\ mishaps = {} /\ Shape(proc[x]) /\ Undisturbed(proc[x])
        /\ \A z \in Procs \ {x} : proc'[z] = proc[z]
        /\ ~Throw(x) /\ ~Kill(x)
        /\ \A z \in Procs \ {x} : proc[z] = Idle
    BY Calm DEF Ordered
  <1>2. Registered
    BY <1>1 DEF Ordered, Orderly
  <1> SUFFICES ASSUME registry' # << >>, \A y \in Procs : ~Midway(proc'[y]),
                      NEW m, m = store'["baseline"].body
               PROVE  /\ registry'[Len(registry')].root = RootHash(m)
                      /\ registry'[Len(registry')].signed => OnRecord(m)'
    BY DEF Registered, OnRecord, Concluded
  <1>3. CASE Register(x)
    <2>1. /\ proc[x] # Idle /\ proc[x].at = "register" /\ store' = store
          /\ registry' = Append(registry, [root   |-> RootHash(proc[x].current),
                                           signed |-> proc[x].task = "bless"])
      BY <1>1, <1>3, RegisterEffect, AtType DEF Register
    <2>2. registry = << >> /\ m = proc[x].current
      BY <1>1, <2>1 DEF Undisturbed, Midway
    <2> DEFINE row == [root |-> RootHash(proc[x].current), signed |-> proc[x].task = "bless"]
    <2>3. row.root = RootHash(m) /\ (row.signed <=> proc[x].task = "bless")
      BY <2>2
    <2> HIDE DEF row
    <2>4. registry' = << row >> /\ registry'[Len(registry')] = row
      <3>1. registry' = Append(<< >>, row)
        BY <2>1, <2>2 DEF row
      <3> QED
        BY <3>1
    <2>5. proc[x].task = "bless" => OnRecord(m)
      BY <1>1, <2>1, <2>2 DEF Undisturbed
    <2> QED
      BY <1>1, <2>3, <2>4, <2>5, OnRecordStays
  <1>4. CASE Forget(x)
    BY <1>1, <1>4, ForgetEffect
  <1>5. CASE ~Register(x) /\ ~Forget(x)
    <2>1. registry' = registry
      BY <1>1, <1>5 DEF Acts, Acquire, Skip, LoadKnown, Walk, LoadLast, Begin, Complete, Establish,
         Tell, Release, BlessStart, LoadForBless, ReadBody, Stage, StageSig, FlipSig, Flip
    <2>2. \A y \in Procs : ~Midway(proc[y])
      <3>1. ~Midway(proc[x])
        BY <1>5, MidwayStays
      <3> QED
        BY <1>1, <3>1 DEF Midway
    <2>3. m = store["baseline"].body
      <3>1. CASE ~Flip(x)
        BY <1>1, <3>1, BodiesStay DEF Artifacts
      <3>2. CASE Flip(x)
        <4>1. PICK a \in Artifacts : a = proc[x].artifact
          BY <1>1, <3>2, FlipEffect
        <4>2. a # "baseline"
          <5> SUFFICES ASSUME a = "baseline"
                       PROVE  FALSE
            OBVIOUS
          <5>1. proc[x] # Idle /\ proc[x].at = "flip"
            BY <1>1, <3>2, <4>1, FlipEffect
          <5>2. proc[x].task = "scan" => proc[x].known = None
            BY <1>1, <4>1, <5>1 DEF IInv, Coherent, Founding
          <5>3. Midway(proc'[x])
            BY <1>1, <3>2, <4>1, <5>2, FlipEffect DEF Midway, GoesTo, Moves, Writing
          <5> QED
            BY <5>3
        <4>3. store'["baseline"] = store["baseline"]
          BY <1>1, <3>2, <4>1, <4>2, FilesStay DEF Artifacts
        <4> QED
          BY <4>3
      <3> QED
        BY <3>1, <3>2
    <2>4. /\ registry[Len(registry)].root = RootHash(m)
          /\ registry[Len(registry)].signed => OnRecord(m)
      BY <1>2, <2>1, <2>2, <2>3 DEF Registered
    <2> QED
      BY <1>1, <2>1, <2>4, OnRecordStays
  <1> QED
    BY <1>3, <1>4, <1>5

-----------------------------------------------------------------------------
(* Ordered is an invariant.                                                *)

LEMMA OrderlyStep ==
    ASSUME Ordered, NEW x \in Procs, Acts(x)
    PROVE  Orderly'
  <1> SUFFICES ASSUME mishaps' = {}
               PROVE  /\ \A y \in Procs : Undisturbed(proc[y])'
                      /\ Paired' /\ NoAlarm' /\ Registered'
    BY DEF Orderly
  <1>1. Paired' /\ NoAlarm'
    BY PairedStep, NoAlarmStep
  <1>2. CASE Skip(x)
    <2>1. /\ proc' = proc /\ store' = store /\ registry' = registry
          /\ TypeOK /\ mishaps = {} /\ ~Throw(x)
      BY <1>2, Calm DEF Skip
    <2>2. \A m : OnRecord(m) => OnRecord(m)'
      BY <2>1, OnRecordStays
    <2>3. ASSUME NEW y \in Procs
          PROVE  Undisturbed(proc[y])'
      <3>1. Undisturbed(proc[y])
        BY <2>1 DEF Ordered, Orderly
      <3> QED
        BY <2>1, <2>2, <3>1 DEF Undisturbed
    <2>4. Registered'
      <3>1. Registered
        BY <2>1 DEF Ordered, Orderly
      <3> QED
        BY <2>1, <2>2, <3>1 DEF Registered
    <2> QED
      BY <1>1, <2>3, <2>4
  <1>3. CASE ~Skip(x)
    BY <1>1, <1>3, UndisturbedStep, RegisteredStep
  <1> QED
    BY <1>2, <1>3

LEMMA ActsOrdered ==
    ASSUME Ordered, NEW x \in Procs, Acts(x), IInv'
    PROVE  Ordered'
  <1>1. /\ IInv /\ TypeOK /\ Rooted /\ ScanHolds /\ FoundersFirst /\ LastRunPrepared
        /\ Remembered /\ Uncontended
        /\ \A y \in Procs : Shape(proc[y]) /\ Recorded(proc[y], runs)
        /\ \A y \in Procs \ {x} : proc'[y] = proc[y]
    BY OthersStay DEF Ordered, IInv
  <1>2. \A y \in Procs : Shape(proc'[y])
    BY <1>1, ShapeOfReader, ShapeOfWriter DEF Acts
  <1>3. \A y \in Procs : Recorded(proc'[y], runs')
    BY <1>1, RecordedStep, OthersRecorded
  <1>4. Rooted' /\ ScanHolds' /\ FoundersFirst' /\ LastRunPrepared' /\ Remembered' /\ Uncontended'
    BY <1>1, RootedStep, ScanHoldsStep, FoundersFirstStep, LastRunPreparedStep, RememberedStep,
       UncontendedStep
  <1>5. Orderly'
    BY OrderlyStep
  <1> QED
    BY <1>2, <1>3, <1>4, <1>5 DEF Ordered

\* A step of no process, which leaves the artifacts alone or damages one.
LEMMA QuietOrdered ==
    ASSUME Ordered, IInv', ScanHolds', proc' = proc, runs' = runs, registry' = registry,
           mishaps \subseteq mishaps',
           store' = store \/ mishaps' # {},
           \A a \in Artifacts :
              /\ store'[a].tmp = store[a].tmp /\ store'[a].sigTmp = store[a].sigTmp
              /\ \/ store'[a].body = store[a].body
                 \/ store[a].body # None /\ store'[a].body \in {Forged, Broken}
    PROVE  Ordered'
  <1>1. None \notin {Forged, Broken} /\ {None, Forged, Broken} \cap Manifests = {}
    BY NullsAssumption
  <1>2. \A a \in Artifacts : store'[a].body = None <=> store[a].body = None
    BY <1>1
  <1>3. (Founded' <=> Founded) /\ "baseline" \in Artifacts /\ "last-run" \in Artifacts
    BY <1>2 DEF Founded, Artifacts
  <1>4. Rooted'
    BY <1>2, <1>3 DEF Ordered, Rooted
  <1>5. FoundersFirst'
    BY <1>3 DEF Ordered, FoundersFirst
  <1>6. LastRunPrepared'
    BY <1>3 DEF Ordered, LastRunPrepared, Prepared
  <1>7. Remembered'
    <2>1. store'["last-run"].body \in Manifests => store'["last-run"].body = store["last-run"].body
      BY <1>1, <1>3
    <2> QED
      BY <2>1 DEF Ordered, Remembered, Reported, Establishing, Concluded, At
  <1>8. Uncontended'
    BY DEF Ordered, Uncontended
  <1>9. Orderly'
    <2>1. CASE mishaps' # {}
      BY <2>1 DEF Orderly
    <2>2. CASE mishaps' = {}
      <3>1. mishaps = {} /\ store' = store
        BY <2>2
      <3> QED
        BY <3>1 DEF Ordered, Orderly, Undisturbed, Paired, NoAlarm, Registered, OnRecord, Concluded,
                    Label
    <2> QED
      BY <2>1, <2>2
  <1>10. \A x \in Procs : Shape(proc'[x]) /\ Recorded(proc'[x], runs')
    BY DEF Ordered
  <1> QED
    BY <1>4, <1>5, <1>6, <1>7, <1>8, <1>9, <1>10 DEF Ordered

LEMMA InitOrdered == Init => Ordered
  <1> SUFFICES ASSUME Init
               PROVE  Ordered
    OBVIOUS
  <1>1. IInv
    BY InitIInv
  <1>2. \A x \in Procs : proc[x] = Idle
    BY DEF Init
  <1>3. \A a \in Artifacts : store[a].body = None /\ store[a].sig = None
    BY DEF Init
  <1>4. "baseline" \in Artifacts /\ "last-run" \in Artifacts
    BY DEF Artifacts
  <1>5. \A x \in Procs : Shape(proc[x]) /\ Recorded(proc[x], runs)
    BY <1>2 DEF Shape, Recorded
  <1>6. Rooted /\ ScanHolds /\ FoundersFirst /\ LastRunPrepared /\ Uncontended
    BY <1>2, <1>3, <1>4 DEF Rooted, Presupposes, ScanHolds, FoundersFirst, Founder, LastRunPrepared,
                            Uncontended
  <1>7. Remembered
    BY <1>3, <1>4, NullsAssumption DEF Remembered
  <1>8. Orderly
    <2>1. NoAlarm /\ Registered
      BY DEF Init, NoAlarm, Registered
    <2> QED
      BY <1>2, <1>3, <2>1 DEF Orderly, Undisturbed, Paired
  <1> QED
    BY <1>1, <1>5, <1>6, <1>7, <1>8 DEF Ordered

LEMMA StepOrdered == Ordered /\ [Next]_vars => Ordered'
  <1> SUFFICES ASSUME Ordered, [Next]_vars
               PROVE  Ordered'
    OBVIOUS
  <1>1. IInv'
    BY StepIInv DEF Ordered
  <1>2. ASSUME NEW x \in Procs, Acts(x)
        PROVE  Ordered'
    BY <1>1, <1>2, ActsOrdered
  <1>3. CASE Expire
    <2>1. /\ mishaps \subseteq mishaps' /\ proc' = proc /\ runs' = runs /\ registry' = registry
          /\ store' = store
      BY <1>3 DEF Expire, Mishap
    <2>2. ScanHolds'
      <3>1. \A x \in Procs : "expired" \notin mishaps' => ~(proc[x] # Idle /\ proc[x].task = "scan")
        <4> SUFFICES ASSUME NEW x \in Procs, "expired" \notin mishaps', proc[x] # Idle,
                            proc[x].task = "scan"
                     PROVE  FALSE
          OBVIOUS
        <4>1. lock = x
          BY <2>1 DEF Ordered, ScanHolds
        <4> QED
          BY <1>3, <4>1 DEF Expire, Mishap
      <3> QED
        BY <2>1, <3>1 DEF ScanHolds
    <2> QED
      BY <1>1, <2>1, <2>2, QuietOrdered
  <1>4. ASSUME NEW a \in Artifacts, Damage(a)
        PROVE  Ordered'
    <2>1. /\ mishaps \subseteq mishaps' /\ mishaps' # {} /\ store[a].body # None
          /\ proc' = proc /\ runs' = runs /\ registry' = registry /\ lock' = lock
      BY <1>4 DEF Damage, Mishap
    <2>2. TypeOK
      BY DEF Ordered, IInv
    <2>3. \/ Slots(a, Forged, store[a].sig, store[a].tmp, store[a].sigTmp)
          \/ Slots(a, Broken, store[a].sig, store[a].tmp, store[a].sigTmp)
          \/ Slots(a, store[a].body, None, store[a].tmp, store[a].sigTmp)
      BY <1>4, <2>2, SlotFields DEF Damage
    <2>4. \A b \in Artifacts :
             /\ store'[b].tmp = store[b].tmp /\ store'[b].sigTmp = store[b].sigTmp
             /\ \/ store'[b].body = store[b].body
                \/ store[b].body # None /\ store'[b].body \in {Forged, Broken}
      BY <2>1, <2>3 DEF Slots
    <2>5. ScanHolds'
      BY <2>1 DEF Ordered, ScanHolds
    <2> QED
      BY <1>1, <2>1, <2>4, <2>5, QuietOrdered
  <1>5. CASE (\E p \in Paths : Edit(p)) \/ UNCHANGED vars
    <2>1. /\ mishaps' = mishaps /\ proc' = proc /\ runs' = runs /\ registry' = registry
          /\ store' = store /\ lock' = lock
      BY <1>5 DEF Edit, vars
    <2>2. ScanHolds'
      BY <2>1 DEF Ordered, ScanHolds
    <2> QED
      BY <1>1, <2>1, <2>2, QuietOrdered
  <1> QED
    BY <1>2, <1>3, <1>4, <1>5 DEF Next, Acts

\* Locks, artifacts, rows and the registry stay in order, as far as what has gone wrong
\* allows it.
THEOREM OrderedAlways == Spec => []Ordered
  BY InitOrdered, StepOrdered, PTL DEF Spec

\* Tamper and corruption are told of the baseline only if something went wrong: with
\* none of the mishaps artifact and signature agree whenever a scan reads them, and no
\* rename loses its file.
THEOREM AlarmsAreRealAlways == Spec => []AlarmsAreReal
  <1>1. Ordered => AlarmsAreReal
    BY DEF Ordered, Orderly, NoAlarm, AlarmsAreReal
  <1> QED
    BY <1>1, OrderedAlways, PTL

\* When nothing is under way and nothing went wrong, the registry's row is about the
\* baseline on disk, and an approved baseline is the manifest of a run on record.
THEOREM RegistryMatchesAlways == Spec => []RegistryMatches
  <1>1. Ordered => RegistryMatches
    <2> SUFFICES ASSUME Ordered, \A x \in Procs : proc[x] = Idle, mishaps = {}, registry # << >>
                 PROVE  /\ registry[Len(registry)].root = RootHash(store["baseline"].body)
                        /\ registry[Len(registry)].signed => OnRecord(store["baseline"].body)
      BY DEF RegistryMatches, OnRecord
    <2>1. \A x \in Procs : ~Midway(proc[x])
      BY DEF Midway
    <2> QED
      BY <2>1 DEF Ordered, Orderly, Registered
  <1> QED
    BY <1>1, OrderedAlways, PTL

\* The manifest that the next scan takes for seen is that of a run on record whose event
\* is out or about to be, unless a scan was killed, failed or outlived its lock.
THEOREM RememberedWasReportedAlways == Spec => []RememberedWasReported
  <1>1. Ordered => RememberedWasReported
    <2> SUFFICES ASSUME Ordered, store["last-run"].body \notin {None, Forged, Broken},
                        mishaps \cap {"killed", "failed", "expired"} = {},
                        ~\E x \in Procs, l \in {"flip", "forget", "register", "establish"} :
                            At(x, "scan", l)
                 PROVE  Reported(store["last-run"].body)
      BY DEF RememberedWasReported, Reported
    <2>1. store["last-run"].body \in Manifests
      BY DEF Ordered, IInv, TypeOK, Slot, Artifacts
    <2>2. ~Establishing(store["last-run"].body)
      BY DEF Establishing
    <2> QED
      BY <2>1, <2>2 DEF Ordered, Remembered
  <1> QED
    BY <1>1, OrderedAlways, PTL

\* Once there is a known-good baseline only a bless renames another in its place, as long
\* as no scan outlives its lock: a scan writes one only if it found none, and until it
\* has done so there is none to replace.
THEOREM OnlyBlessReplacesAlways == Spec => OnlyBlessReplaces
  <1>1. Ordered /\ [Next]_vars =>
           [ /\ "expired" \notin mishaps
             /\ store["baseline"].body # None
             /\ store'["baseline"].body # store["baseline"].body
             => \/ store'["baseline"].body \in {Forged, Broken}
                \/ \E x \in Procs : At(x, "bless", "flip") /\ proc'[x] # proc[x] ]_vars
    <2> SUFFICES ASSUME Ordered, Next, "expired" \notin mishaps, store["baseline"].body # None,
                        store'["baseline"].body # store["baseline"].body,
                        store'["baseline"].body \notin {Forged, Broken}
                 PROVE  \E x \in Procs : At(x, "bless", "flip") /\ proc'[x] # proc[x]
      BY DEF vars
    <2>1. TypeOK
      BY DEF Ordered, IInv
    <2>2. ~\E a \in Artifacts : Damage(a)
      <3> SUFFICES ASSUME NEW a \in Artifacts, Damage(a)
                   PROVE  FALSE
        OBVIOUS
      <3>1. \/ Slots(a, Forged, store[a].sig, store[a].tmp, store[a].sigTmp)
            \/ Slots(a, Broken, store[a].sig, store[a].tmp, store[a].sigTmp)
            \/ Slots(a, store[a].body, None, store[a].tmp, store[a].sigTmp)
        BY <2>1, SlotFields DEF Damage
      <3> QED
        BY <3>1 DEF Slots, Artifacts
    <2>3. PICK x \in Procs : Acts(x)
      BY <2>2 DEF Next, Acts, Expire, Edit
    <2>4. Flip(x)
      BY <2>1, <2>3, BodiesStay DEF Artifacts
    <2>5. PICK a \in Artifacts : a = proc[x].artifact
      BY <2>1, <2>4, FlipEffect
    <2>6. /\ proc[x] # Idle /\ proc[x].at = "flip" /\ a = "baseline"
          /\ proc[x].task \in {"scan", "bless"}
      BY <2>1, <2>4, <2>5, FlipEffect DEF Slots, TypeOK, Process, Artifacts
    <2>7. proc[x].task # "scan"
      BY <2>5, <2>6 DEF Ordered, FoundersFirst, Founder, Founded, Writing
    <2>8. proc'[x].at # "flip"
      BY <2>1, <2>4, <2>5, FlipEffect DEF GoesTo, Moves
    <2> QED
      BY <2>6, <2>7, <2>8 DEF At
  <1> QED
    BY <1>1, OrderedAlways, PTL DEF Spec, OnlyBlessReplaces
=============================================================================
