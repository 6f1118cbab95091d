------------------------------ MODULE Integrity ------------------------------
(***************************************************************************)
(* File-integrity monitoring of one disk: IntegrityScanner's run() and     *)
(* bless(), and the signed artifacts that Baseline writes and reads.       *)
(*                                                                         *)
(* A scan holds a cache lock that expires by itself; a bless takes none.   *)
(* An artifact is two files, the manifest and its signature, each written  *)
(* to a temporary file that every writer of the artifact shares and then   *)
(* renamed, and it is read in two steps.  Scans, blesses and changes of    *)
(* the disk interleave between any two steps; a process may be killed, a   *)
(* write may throw, and something else may damage an artifact.             *)
(*                                                                         *)
(* A signature is the manifest it was made from, and what is read of a     *)
(* scope is one snapshot.  Left out: the severity and the class of a       *)
(* change, the cap on change rows, the scope fingerprint, retention, and   *)
(* what the listener makes of the event.                                   *)
(***************************************************************************)
EXTENDS Manifest, Sequences

CONSTANTS
    Paths,       \* the paths in scope
    Files,       \* the files a path may be, of the type File
    Procs,       \* processes that scan or bless
    None,        \* no file, and null
    Forged,      \* an artifact whose signature is another's
    Broken,      \* an artifact that does not decompress
    MaxRuns,     \* bound on the run rows
    MaxBlesses,  \* bound on the blesses
    MaxEdits,    \* bound on the changes of the disk
    MaxMishaps   \* bound on kills, failed writes, expired locks and damages

ASSUME IntegrityAssumption ==
    /\ Files \subseteq File
    /\ Scripts \subseteq Paths
    /\ {MaxRuns, MaxBlesses, MaxEdits, MaxMishaps} \subseteq Nat

VARIABLES
    disk,      \* the files
    store,     \* store[a]: the files of artifact a
    lock,      \* the process that took the lock of the disk, or None
    proc,      \* proc[x]: what process x is doing and how far it has got
    runs,      \* ls_integrity_runs, row i at position i
    registry,  \* the rows ls_integrity_baselines has had, and which are left
    edits,     \* changes of the disk so far
    blesses,   \* blesses so far
    mishaps    \* what has gone wrong so far

vars == <<disk, store, lock, proc, runs, registry, edits, blesses, mishaps>>

Artifacts == {"baseline", "last-run"}
Statuses == {"running", "completed", "baseline_established", "failed", "skipped",
             "tamper_suspected", "aborted_limit"}

Manifests == Partial(Paths, Entry)

ASSUME NullsAssumption ==
    /\ None \notin {Forged, Broken} /\ Forged # Broken
    /\ {None, Forged, Broken} \cap Manifests = {}
    /\ None \notin Procs

Found == [new : SUBSET Paths, modified : SUBSET Paths, deleted : SUBSET Paths]

\* A row; told is whether its event has been dispatched.
Run == [status : Statuses, current : Manifests \cup {None}, delta : Found, drift : Found,
        told : BOOLEAN]

Labels == {"read", "check", "build", "begin", "complete", "stage", "stageSig", "flipSig",
           "flip", "forget", "register", "establish", "tell", "release"}

Idle == [task |-> "idle"]

\* artifact: the one being read or written; body: what was read of it; known, last: the
\* manifests read; current: the one to write; seen: the disk it was built from; run: its row.
Process ==
    [task : {"scan", "bless"}, at : Labels, artifact : Artifacts,
     body : Manifests \cup {None, Forged, Broken}, known : Manifests \cup {None},
     last : Manifests \cup {None}, current : Manifests \cup {None},
     seen : Partial(Paths, Files) \cup {None}, run : Nat]

MishapKinds == {"killed", "failed", "expired", "damaged", "contended"}

Slot == [body : Manifests \cup {None, Forged, Broken}, sig : Manifests \cup {None},
         tmp : Manifests \cup {None}, sigTmp : Manifests \cup {None}]

TypeOK ==
    /\ disk \in Partial(Paths, Files)
    /\ store \in [Artifacts -> Slot]
    /\ lock \in Procs \cup {None}
    /\ proc \in [Procs -> {Idle} \cup Process]
    /\ runs \in Seq(Run)
    /\ edits \in 0..MaxEdits
    /\ blesses \in 0..MaxBlesses
    /\ mishaps \subseteq MishapKinds

Init ==
    /\ disk \in Partial(Paths, Files)
    /\ store = [a \in Artifacts |-> [body |-> None, sig |-> None, tmp |-> None, sigTmp |-> None]]
    /\ lock = None
    /\ proc = [x \in Procs |-> Idle]
    /\ runs = << >>
    /\ registry = << >>
    /\ edits = 0
    /\ blesses = 0
    /\ mishaps = {}

-----------------------------------------------------------------------------
(* Helpers.                                                                *)

At(x, task, label) == proc[x] # Idle /\ proc[x].task = task /\ proc[x].at = label

Label(x) == IF proc[x] = Idle THEN "idle" ELSE proc[x].at

Begun(task, artifact) ==
    [task |-> task, at |-> "read", artifact |-> artifact, body |-> None, known |-> None,
     last |-> None, current |-> None, seen |-> None, run |-> 0]

Row(status, current) ==
    [status |-> status, current |-> current, delta |-> NoDiff, drift |-> NoDiff, told |-> FALSE]

\* A scan under way has yet to write its row.
Unrecorded == {x \in Procs : proc[x] # Idle /\ proc[x].task = "scan" /\ proc[x].run = 0}

Room == Len(runs) + Cardinality(Unrecorded) < MaxRuns

\* persistRun for process x, which goes on at label.
PersistRun(x, status, current, label) ==
    /\ runs' = Append(runs, Row(status, current))
    /\ proc' = [proc EXCEPT ![x].run = Len(runs) + 1, ![x].at = label]

\* Each kind of mishap happens once.
Mishap(kind) ==
    /\ kind \notin mishaps
    /\ Cardinality((mishaps \cup {kind}) \ {"contended"}) <= MaxMishaps
    /\ mishaps' = mishaps \cup {kind}

\* Another process is at work on the artifacts, and one of the two holds no lock.
Meets(task) == \E x \in Procs : proc[x] # Idle /\ "bless" \in {task, proc[x].task}

Join(task) == mishaps' = IF Meets(task) THEN mishaps \cup {"contended"} ELSE mishaps

-----------------------------------------------------------------------------
(* Reading an artifact, which a scan does twice and a bless once.          *)

\* Baseline::read up to the contents of the artifact ...
ReadBody(x) ==
    /\ Label(x) = "read"
    /\ proc' = [proc EXCEPT ![x].body = store[proc[x].artifact].body, ![x].at = "check"]
    /\ UNCHANGED <<disk, store, lock, runs, registry, edits, blesses, mishaps>>

\* ... and what it makes of them with the signature that is there then.
Verdict(x) ==
    LET body == proc[x].body
        sig  == store[proc[x].artifact].sig
    IN  CASE body = None                               -> "absent"
          [] body = Broken                             -> "corrupt"
          [] body \notin {None, Broken} /\ sig = None  -> "corrupt"
          [] body \notin {None, Broken} /\ sig # None  ->
                IF sig = body THEN "good" ELSE "tampered"

-----------------------------------------------------------------------------
(* A scan.                                                                 *)

\* Mutant: nobody looks at the lock.
AcquireAnyway(x) ==
    /\ proc[x] = Idle /\ Room
    /\ lock' = x
    /\ proc' = [proc EXCEPT ![x] = Begun("scan", "baseline")]
    /\ Join("scan")
    /\ UNCHANGED <<disk, store, runs, registry, edits, blesses>>

\* run(), when it gets the lock.
Acquire(x) ==
    /\ proc[x] = Idle /\ Room
    /\ lock = None
    /\ lock' = x
    /\ proc' = [proc EXCEPT ![x] = Begun("scan", "baseline")]
    /\ Join("scan")
    /\ UNCHANGED <<disk, store, runs, registry, edits, blesses>>

\* run(), when it does not.
Skip(x) ==
    /\ proc[x] = Idle /\ Room
    /\ lock # None
    /\ runs' = Append(runs, Row("skipped", None))
    /\ UNCHANGED <<disk, store, lock, proc, registry, edits, blesses, mishaps>>

\* Mutant: a baseline that does not verify is rebuilt.
LoadKnownLoosely(x) ==
    /\ At(x, "scan", "check") /\ proc[x].artifact = "baseline"
    /\ proc' = [proc EXCEPT ![x].known = IF Verdict(x) = "good" THEN proc[x].body ELSE None,
                            ![x].body = None, ![x].at = "build"]
    /\ UNCHANGED <<disk, store, lock, runs, registry, edits, blesses, mishaps>>

\* The known-good manifest, or null; a tampered or corrupt one ends the scan.
LoadKnown(x) ==
    /\ At(x, "scan", "check") /\ proc[x].artifact = "baseline"
    /\ \/ /\ Verdict(x) \in {"absent", "good"}
          /\ proc' = [proc EXCEPT ![x].known = proc[x].body, ![x].body = None,
                                  ![x].at = "build"]
          /\ UNCHANGED runs
       \/ Verdict(x) = "tampered" /\ PersistRun(x, "tamper_suspected", None, "release")
       \/ Verdict(x) = "corrupt" /\ PersistRun(x, "failed", None, "release")
    /\ UNCHANGED <<disk, store, lock, registry, edits, blesses, mishaps>>

Known(x) == IF proc[x].known = None THEN << >> ELSE proc[x].known

\* The manifest is built, unless max_files or max_iterations is exceeded, which depends on
\* the directory entries out of scope too.  Without a known-good manifest it becomes that
\* one; else the last-run artifact is read.
Walk(x) ==
    /\ At(x, "scan", "build")
    /\ \/ PersistRun(x, "aborted_limit", None, "release")
       \/ /\ proc' = [proc EXCEPT
                ![x].current = Build(disk, Known(x)), ![x].seen = disk,
                ![x].artifact = IF proc[x].known = None THEN "baseline" ELSE "last-run",
                ![x].at = IF proc[x].known = None THEN "stage" ELSE "read"]
          /\ UNCHANGED runs
    /\ UNCHANGED <<disk, store, lock, registry, edits, blesses, mishaps>>

\* Mutant: what does not verify is used.
LoadLastLoosely(x) ==
    /\ At(x, "scan", "check") /\ proc[x].artifact = "last-run"
    /\ proc' = [proc EXCEPT ![x].last = proc[x].body, ![x].body = None, ![x].at = "begin"]
    /\ UNCHANGED <<disk, store, lock, runs, registry, edits, blesses, mishaps>>

\* The last-run manifest; whatever is wrong with it, it then counts as absent.
LoadLast(x) ==
    /\ At(x, "scan", "check") /\ proc[x].artifact = "last-run"
    /\ proc' = [proc EXCEPT ![x].last = IF Verdict(x) = "good" THEN proc[x].body ELSE None,
                            ![x].body = None, ![x].at = "begin"]
    /\ UNCHANGED <<disk, store, lock, runs, registry, edits, blesses, mishaps>>

Begin(x) ==
    /\ At(x, "scan", "begin")
    /\ PersistRun(x, "running", proc[x].current, "complete")
    /\ UNCHANGED <<disk, store, lock, registry, edits, blesses, mishaps>>

Reference(x) == IF proc[x].last = None THEN proc[x].known ELSE proc[x].last

\* The change rows and the counts.
Complete(x) ==
    /\ At(x, "scan", "complete")
    /\ runs' = [runs EXCEPT ![proc[x].run].status = "completed",
                            ![proc[x].run].delta = Diff(Reference(x), proc[x].current),
                            ![proc[x].run].drift = Diff(proc[x].known, proc[x].current)]
    /\ proc' = [proc EXCEPT ![x].last = None, ![x].at = "stage"]
    /\ UNCHANGED <<disk, store, lock, registry, edits, blesses, mishaps>>

\* The row of a first run, once both artifacts and the registry row are written.
Establish(x) ==
    /\ At(x, "scan", "establish")
    /\ PersistRun(x, "baseline_established", proc[x].current, "tell")
    /\ UNCHANGED <<disk, store, lock, registry, edits, blesses, mishaps>>

\* IntegrityScanCompletedEvent, whose listener swallows what goes wrong.
Tell(x) ==
    /\ At(x, "scan", "tell")
    /\ runs' = [runs EXCEPT ![proc[x].run].told = TRUE]
    /\ proc' = [proc EXCEPT ![x].at = "release"]
    /\ UNCHANGED <<disk, store, lock, registry, edits, blesses, mishaps>>

\* The lock is given back by its owner only.
Release(x) ==
    /\ At(x, "scan", "release")
    /\ lock' = IF lock = x THEN None ELSE lock
    /\ proc' = [proc EXCEPT ![x] = Idle]
    /\ UNCHANGED <<disk, store, runs, registry, edits, blesses, mishaps>>

-----------------------------------------------------------------------------
(* A bless.                                                                *)

BlessStart(x) ==
    /\ proc[x] = Idle
    /\ blesses < MaxBlesses
    /\ blesses' = blesses + 1
    /\ proc' = [proc EXCEPT ![x] = Begun("bless", "last-run")]
    /\ Join("bless")
    /\ UNCHANGED <<disk, store, lock, runs, registry, edits>>

\* The last-run manifest is what will be written; without one, or if it does not
\* verify, there is an exception.
LoadForBless(x) ==
    /\ At(x, "bless", "check")
    /\ proc' = [proc EXCEPT ![x] =
                   IF Verdict(x) = "good"
                   THEN [@ EXCEPT !.current = proc[x].body, !.body = None,
                                  !.artifact = "baseline", !.at = "stage"]
                   ELSE Idle]
    /\ UNCHANGED <<disk, store, lock, runs, registry, edits, blesses, mishaps>>

-----------------------------------------------------------------------------
(* Writing an artifact and the registry, which both do.                    *)

\* Baseline::write, the temporary files ...
Stage(x) ==
    /\ Label(x) = "stage"
    /\ store' = [store EXCEPT ![proc[x].artifact].tmp = proc[x].current]
    /\ proc' = [proc EXCEPT ![x].at = "stageSig"]
    /\ UNCHANGED <<disk, lock, runs, registry, edits, blesses, mishaps>>

StageSig(x) ==
    /\ Label(x) = "stageSig"
    /\ store' = [store EXCEPT ![proc[x].artifact].sigTmp = proc[x].current]
    /\ proc' = [proc EXCEPT ![x].at = "flipSig"]
    /\ UNCHANGED <<disk, lock, runs, registry, edits, blesses, mishaps>>

\* Mutant: the artifact is renamed first ...
FlipBodyFirst(x) ==
    /\ Label(x) = "flipSig"
    /\ LET a == proc[x].artifact
       IN  /\ store[a].tmp # None
           /\ store' = [store EXCEPT ![a].body = store[a].tmp, ![a].tmp = None]
    /\ proc' = [proc EXCEPT ![x].at = "flip"]
    /\ UNCHANGED <<disk, lock, runs, registry, edits, blesses, mishaps>>

\* ... the signature is renamed ...
FlipSig(x) ==
    /\ Label(x) = "flipSig"
    /\ LET a == proc[x].artifact
       IN  /\ store[a].sigTmp # None
           /\ store' = [store EXCEPT ![a].sig = store[a].sigTmp, ![a].sigTmp = None]
    /\ proc' = [proc EXCEPT ![x].at = "flip"]
    /\ UNCHANGED <<disk, lock, runs, registry, edits, blesses, mishaps>>

\* Mutant: only a first run dispatches its event.
WrittenQuietly(x) ==
    CASE proc[x].artifact = "baseline" /\ proc[x].task = "scan" ->
            [proc[x] EXCEPT !.artifact = "last-run", !.at = "stage"]
      [] proc[x].artifact = "last-run" /\ proc[x].known # None ->
            [proc[x] EXCEPT !.at = "release"]
      [] OTHER -> [proc[x] EXCEPT !.at = "forget"]

\* Mutant: only a first run writes the registry.
WrittenUnregistered(x) ==
    CASE proc[x].artifact = "baseline" /\ proc[x].task = "scan" ->
            [proc[x] EXCEPT !.artifact = "last-run", !.at = "stage"]
      [] proc[x].artifact = "last-run" /\ proc[x].known # None ->
            [proc[x] EXCEPT !.at = "tell"]
      [] proc[x].task = "bless" -> Idle
      [] OTHER -> [proc[x] EXCEPT !.at = "forget"]

\* What comes after an artifact: a first run writes the last-run artifact after the
\* baseline, and it and a bless then write the registry.
Written(x) ==
    CASE proc[x].artifact = "baseline" /\ proc[x].task = "scan" ->
            [proc[x] EXCEPT !.artifact = "last-run", !.at = "stage"]
      [] proc[x].artifact = "last-run" /\ proc[x].known # None ->
            [proc[x] EXCEPT !.at = "tell"]
      [] OTHER -> [proc[x] EXCEPT !.at = "forget"]

\* ... and then the artifact.
Flip(x) ==
    /\ Label(x) = "flip"
    /\ LET a == proc[x].artifact
       IN  /\ store[a].tmp # None
           /\ store' = [store EXCEPT ![a].body = store[a].tmp, ![a].tmp = None]
    /\ proc' = [proc EXCEPT ![x] = Written(x)]
    /\ UNCHANGED <<disk, lock, runs, registry, edits, blesses, mishaps>>

\* upsertBaselineRow: the rows of the disk are deleted ...
Forget(x) ==
    /\ Label(x) = "forget"
    /\ registry' = << >>
    /\ proc' = [proc EXCEPT ![x].at = "register"]
    /\ UNCHANGED <<disk, store, lock, runs, edits, blesses, mishaps>>

\* ... and one is created, signed if it is a bless.
Register(x) ==
    /\ Label(x) = "register"
    /\ registry' = Append(registry, [root   |-> RootHash(proc[x].current),
                                     signed |-> proc[x].task = "bless"])
    /\ proc' = [proc EXCEPT ![x] = IF @.task = "bless" THEN Idle
                                   ELSE [@ EXCEPT !.at = "establish"]]
    /\ UNCHANGED <<disk, store, lock, runs, edits, blesses, mishaps>>

-----------------------------------------------------------------------------
(* What goes wrong.                                                        *)

\* A temporary file is gone: another writer of the artifact has renamed it.
RenameFails(x) ==
    \/ Label(x) = "flipSig" /\ store[proc[x].artifact].sigTmp = None
    \/ Label(x) = "flip" /\ store[proc[x].artifact].tmp = None

MayThrow == {"begin", "complete", "stage", "stageSig", "flipSig", "flip", "forget", "register",
             "establish"}

\* A write throws.  A run that has its row is marked failed (that this update works
\* too is assumed), a scan gives the lock back, and the exception goes on.
Throw(x) ==
    /\ Label(x) \in MayThrow
    /\ IF RenameFails(x) THEN UNCHANGED mishaps ELSE Mishap("failed")
    /\ runs' = IF proc[x].run = 0 THEN runs
               ELSE [runs EXCEPT ![proc[x].run].status = "failed"]
    /\ proc' = [proc EXCEPT ![x] = IF @.task = "scan" THEN [@ EXCEPT !.at = "release"] ELSE Idle]
    /\ UNCHANGED <<disk, store, lock, registry, edits, blesses>>

\* The process is killed, and the lock stays taken.
Kill(x) ==
    /\ proc[x] # Idle
    /\ Mishap("killed")
    /\ proc' = [proc EXCEPT ![x] = Idle]
    /\ UNCHANGED <<disk, store, lock, runs, registry, edits, blesses>>

\* The lock has been held for max_runtime, by a process that is gone or still at work.
Expire ==
    /\ lock # None
    /\ lock' = None
    /\ IF proc[lock] = Idle \/ proc[lock].task = "bless"
       THEN UNCHANGED mishaps ELSE Mishap("expired")
    /\ UNCHANGED <<disk, store, proc, runs, registry, edits, blesses>>

\* Something else writes an artifact or removes a signature.
Damage(a) ==
    /\ store[a].body # None
    /\ Mishap("damaged")
    /\ store' \in {[store EXCEPT ![a].body = Forged], [store EXCEPT ![a].body = Broken],
                   [store EXCEPT ![a].sig = None]}
    /\ UNCHANGED <<disk, lock, proc, runs, registry, edits, blesses>>

\* The disk changes: path p becomes file f, or goes.
Edit(p) ==
    /\ edits < MaxEdits
    /\ edits' = edits + 1
    /\ \/ \E f \in Files :
             disk' = [q \in DOMAIN disk \cup {p} |-> IF q = p THEN f ELSE disk[q]]
       \/ disk' = [q \in DOMAIN disk \ {p} |-> disk[q]]
    /\ disk' # disk
    /\ UNCHANGED <<store, lock, proc, runs, registry, blesses, mishaps>>

Next ==
    \/ \E x \in Procs :
          \/ Acquire(x) \/ Skip(x) \/ LoadKnown(x) \/ Walk(x) \/ LoadLast(x) \/ Begin(x)
          \/ Complete(x) \/ Establish(x) \/ Tell(x) \/ Release(x)
          \/ BlessStart(x) \/ LoadForBless(x)
          \/ ReadBody(x) \/ Stage(x) \/ StageSig(x) \/ FlipSig(x) \/ Flip(x)
          \/ Forget(x) \/ Register(x)
          \/ Throw(x) \/ Kill(x)
    \/ Expire
    \/ \E a \in Artifacts : Damage(a)
    \/ \E p \in Paths : Edit(p)

Spec == Init /\ [][Next]_vars

-----------------------------------------------------------------------------
(* Properties.                                                             *)

\* A run that finds no drift vouches for the disk: every file was known-good as it was
\* when the run looked, up to what a size and a modification time can tell, and no
\* known-good file was missing, whatever happened to the artifacts meanwhile.
SilenceMeansUnchanged ==
    \A x \in Procs :
        At(x, "scan", "tell") /\ proc[x].known # None /\ runs[proc[x].run].drift = NoDiff =>
            Vouched(proc[x].known, proc[x].seen)

\* "The .sig flips first": there is never an artifact without a signature, whoever
\* writes at the same time and wherever a writer is killed, so nothing but damage makes
\* an artifact corrupt.
NeverUnsigned ==
    "damaged" \notin mishaps =>
        \A a \in Artifacts : store[a].body # None => store[a].sig # None

\* Tamper and corruption are told of a baseline only if it was damaged, if a writer was
\* killed or failed halfway, or if an unlocked writer met another process.
AlarmsAreReal ==
    mishaps = {} => \A i \in DOMAIN runs : runs[i].status \notin {"tamper_suspected", "failed"}

\* The same without the excuses: "atomically written" artifacts give no false alarm.
OnlyDamageIsTamper ==
    "damaged" \notin mishaps => \A i \in DOMAIN runs : runs[i].status # "tamper_suspected"

\* A known-good baseline, damaged or not, is replaced by a bless only, unless a scan
\* outlived its lock or something else wrote it.
OnlyBlessReplaces ==
    [][ /\ "expired" \notin mishaps
        /\ store["baseline"].body # None
        /\ store'["baseline"].body # store["baseline"].body
        => \/ store'["baseline"].body \in {Forged, Broken}
           \/ \E x \in Procs : At(x, "bless", "flip") /\ proc'[x] # proc[x] ]_vars

Concluded(i) == runs[i].status \in {"completed", "baseline_established"}

\* What the next scan takes for seen has been reported: the manifest of a last-run
\* artifact that verifies is that of a run on record whose event is out or about to be,
\* unless the scan was killed, failed or outlived its lock.
RememberedWasReported ==
    LET m == store["last-run"].body
    IN  /\ m \notin {None, Forged, Broken} /\ mishaps \cap {"killed", "failed", "expired"} = {}
        /\ ~\E x \in Procs, l \in {"flip", "forget", "register", "establish"} : At(x, "scan", l)
        => \E i \in DOMAIN runs :
              /\ Concluded(i) /\ runs[i].current = m
              /\ runs[i].told \/ \E x \in Procs : At(x, "scan", "tell") /\ proc[x].run = i

\* When nothing is under way the registry's latest row is about the baseline on disk,
\* and an approved one is the manifest of some run on record, if nothing went wrong.
RegistryMatches ==
    (\A x \in Procs : proc[x] = Idle) /\ mishaps = {} /\ registry # << >> =>
        /\ registry[Len(registry)].root = RootHash(store["baseline"].body)
        /\ registry[Len(registry)].signed =>
              \E i \in DOMAIN runs : Concluded(i) /\ runs[i].current = store["baseline"].body
=============================================================================
