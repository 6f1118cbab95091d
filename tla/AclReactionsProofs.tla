------------------------ MODULE AclReactionsProofs ------------------------
(***************************************************************************)
(* Proofs about the reaction layer, for any rows, workers, number of       *)
(* tries, batch and bounds.                                                *)
(*                                                                         *)
(* A row has one ban job per reaction, on the queue or in hand (OneBan):   *)
(* the queue hands a job to one worker, and no action dispatches a second  *)
(* one. UnbanAfterEnd carries the end of a block from the reconcile run to *)
(* the call that removes the rule. A delete goes by the rule's id, so that *)
(* it is the rule of the job's own row has to be shown: the ids Cloudflare *)
(* hands out are new (RulesKnown), and an id is on another row than its    *)
(* rule's only when an import put it there (Owned). Counted and Tracked    *)
(* say, of a row that nothing suspicious happened to, what its marks and   *)
(* the remote services show while its jobs are at any point between load,  *)
(* call and save. Each is inductive relative to the types (Types) and,     *)
(* where a lemma names them, to the others.                                *)
(***************************************************************************)
EXTENDS AclReactions, TLAPS

Reactions == {"cloudflare", "abuseipdb_report"}

Busy(w) == worker[w] # Free
IsBan(j, i, r) == j.acl = i /\ j.reaction = r /\ j.op = "ban"

\* What is on the queue has a try left.
Triable == \A j \in queue : j.tries < Tries

Types == TypeOK /\ Triable

\* A row has one ban job per reaction, on the queue or in hand.
OneBan ==
    \A i \in AclIds, r \in Reactions :
        /\ ~acl[i].exists =>
              /\ \A j \in queue : ~IsBan(j, i, r)
              /\ \A w \in Workers : Busy(w) => ~IsBan(worker[w].job, i, r)
        /\ \A j, k \in queue : IsBan(j, i, r) /\ IsBan(k, i, r) => j = k
        /\ \A w \in Workers : Busy(w) /\ IsBan(worker[w].job, i, r) =>
              /\ \A j \in queue : ~IsBan(j, i, r)
              /\ \A v \in Workers : Busy(v) /\ IsBan(worker[v].job, i, r) => v = w

\* A block that is being undone has ended.
Over(i) == acl[i].expired \/ acl[i].trashed \/ i \in imported

UnbanAfterEnd ==
    \A i \in AclIds : ~Over(i) =>
        /\ \A j \in queue : j.acl = i => j.op = "ban"
        /\ \A w \in Workers : Busy(w) /\ worker[w].job.acl = i => worker[w].job.op = "ban"

Reporting(w, i) == Busy(w) /\ IsBan(worker[w].job, i, "abuseipdb_report")

Counted(i) ==
    /\ \A w \in Workers : Reporting(w, i) =>
          IF worker[w].at = "called" THEN reports[i] = 1
                                     ELSE reports[i] = 0
    /\ (\A w \in Workers : ~Reporting(w, i) \/ worker[w].at # "called") =>
          \/ reports[i] = 0
          \/ reports[i] = 1 /\ acl[i].meta.reported

\* The rules at the edge, the marker and the jobs of the row that are at work.
OnEdge(w, i) == Busy(w) /\ worker[w].job.acl = i /\ worker[w].job.reaction = "cloudflare"
Called(w, i) == OnEdge(w, i) /\ worker[w].at = "called"

Tracked(i) ==
    /\ \A w \in Workers : OnEdge(w, i) /\ worker[w].job.op = "ban" =>
          worker[w].meta.rule_id = NoRule /\ acl[i].meta.rule_id = NoRule
    /\ \A w \in Workers : OnEdge(w, i) /\ worker[w].job.op = "unban" =>
          worker[w].meta.rule_id # NoRule /\ worker[w].rule = NoRule
    /\ \A w, v \in Workers : Called(w, i) /\ Called(v, i) => v = w
    /\ \A w \in Workers : Called(w, i) =>
          IF worker[w].job.op = "ban"
            THEN /\ RulesOf(i) = {worker[w].rule} /\ worker[w].rule # NoRule
                 /\ \A v \in Workers : Busy(v) /\ worker[v].job.acl = i =>
                       worker[v].meta.rule_id # worker[w].rule
            ELSE RulesOf(i) = {} /\ acl[i].meta.rule_id = worker[w].meta.rule_id
    /\ (\A w \in Workers : ~Called(w, i)) => RulesOf(i) = {acl[i].meta.rule_id} \ {NoRule}

\* Cloudflare's ids are new.
RulesKnown ==
    /\ \A e \in edge : e.rule < nextRule
    /\ \A i \in AclIds : acl[i].meta.rule_id < nextRule
    /\ \A w \in Workers : Busy(w) => worker[w].meta.rule_id < nextRule /\ worker[w].rule < nextRule
    /\ \A w \in Workers : worker[w].at = "loaded" => worker[w].rule = NoRule

\* The id of a rule is on the row it was made for, or an import touched both rows.
Kin(i, k) == i = k \/ (i \in imported /\ k \in imported)

Owned ==
    /\ imported \subseteq suspect
    /\ \A e \in edge : acl[e.acl].exists
    /\ \A e, f \in edge : e.rule = f.rule => e = f
    /\ \A e \in edge, i \in AclIds : acl[i].meta.rule_id = e.rule => Kin(i, e.acl)
    /\ \A e \in edge, w \in Workers : Busy(w) =>
          /\ worker[w].meta.rule_id = e.rule => Kin(worker[w].job.acl, e.acl)
          /\ worker[w].rule = e.rule => worker[w].job.acl = e.acl

AllCounted == \A i \in AclIds \ suspect : Counted(i)
AllTracked == \A i \in AclIds \ suspect : Tracked(i)

-----------------------------------------------------------------------------
LEMMA Shape ==
    ASSUME Types
    PROVE  /\ \A w \in Workers :
                /\ Busy(w) => worker[w] \in InHand /\ worker[w].job \in Job
                                /\ worker[w].job.acl \in AclIds
                                /\ worker[w].meta \in Marks
                                /\ worker[w].rule \in Rules \cup {NoRule}
                                /\ worker[w].at \in {"loaded", "called"}
                /\ worker[w].at \in {"loaded", "called"} => Busy(w)
           /\ \A i \in AclIds : acl[i] \in AclRow /\ acl[i].meta \in Marks
           /\ \A j \in queue : j \in Job /\ j.acl \in AclIds
           /\ \A r \in Rules : r \in Nat /\ r # NoRule
           /\ nextRule \in Nat
           /\ \A m \in Marks : m.rule_id \in Rules \cup {NoRule} /\ m.reported \in BOOLEAN
           /\ Tries \in Nat
  <1>1. Free.at = "free"
    BY DEF Free
  <1>2. \A h \in InHand : /\ h.job \in Job /\ h.meta \in Marks /\ h.rule \in Rules \cup {NoRule}
                          /\ h.at \in {"loaded", "called"}
    BY DEF InHand
  <1>3. \A j \in Job : j.acl \in AclIds
    BY DEF Job
  <1>4. \A row \in AclRow : row.meta \in Marks
    BY DEF AclRow
  <1>5. \A r \in Rules : r \in Nat /\ r # NoRule
    BY ParametersAssumption DEF Rules, NoRule
  <1>6. nextRule \in Nat
    BY ParametersAssumption DEF Types, TypeOK
  <1> QED
    BY <1>1, <1>2, <1>3, <1>4, <1>5, <1>6, ParametersAssumption DEF Types, TypeOK, Busy, Marks

\* A worker lets go of its job, which may be tried again.
LEMMA Releases ==
    ASSUME Types, NEW w \in Workers, Busy(w),
           queue' \in {queue, Requeued(worker[w].job)},
           worker' = [worker EXCEPT ![w] = Free]
    PROVE  /\ queue' \subseteq Job /\ Triable'
           /\ worker' \in [Workers -> {Free} \cup InHand]
           /\ \A j \in queue' : j \in queue \/ j = worker[w].job
           /\ ~Busy(w)' /\ worker'[w].at # "called" /\ worker'[w].at # "loaded"
           /\ \A v \in Workers \ {w} : worker'[v] = worker[v]
  BY Shape DEF Types, TypeOK, Requeued, Triable, Busy, Free

\* A worker goes on with its job.
LEMMA Advances ==
    ASSUME Types, NEW w \in Workers, worker[w].at = "loaded", NEW r \in Rules \cup {NoRule},
           \/ worker' = [worker EXCEPT ![w].at = "called", ![w].rule = r]
           \/ worker' = [worker EXCEPT ![w].at = "called"] /\ r = worker[w].rule
    PROVE  /\ worker' \in [Workers -> {Free} \cup InHand]
           /\ Busy(w) /\ Busy(w)'
           /\ worker'[w].at = "called" /\ worker'[w].job = worker[w].job
           /\ worker'[w].meta = worker[w].meta /\ worker'[w].rule = r
           /\ \A v \in Workers \ {w} : worker'[v] = worker[v]
  <1>1. worker[w] \in InHand /\ Busy(w)
    BY Shape
  <1>2. PICK h : /\ h \in InHand /\ h.at = "called" /\ h.rule = r
                 /\ h.job = worker[w].job /\ h.meta = worker[w].meta
                 /\ worker' = [worker EXCEPT ![w] = h]
    <2>1. CASE worker' = [worker EXCEPT ![w].at = "called", ![w].rule = r]
      BY <1>1, <2>1 DEF InHand, Types, TypeOK
    <2>2. CASE worker' = [worker EXCEPT ![w].at = "called"] /\ r = worker[w].rule
      BY <1>1, <2>2 DEF InHand, Types, TypeOK
    <2> QED
      BY <2>1, <2>2
  <1>3. worker'[w] = h /\ h # Free
    BY <1>2 DEF Types, TypeOK, Free
  <1> QED
    BY <1>1, <1>2, <1>3 DEF Types, TypeOK, Busy

LEMMA TakesJob ==
    ASSUME Types, NEW w \in Workers, NEW job \in queue, Take(w, job), HasWork(job)
    PROVE  /\ worker' \in [Workers -> {Free} \cup InHand]
           /\ ~Busy(w) /\ Busy(w)'
           /\ worker'[w].at = "loaded" /\ worker'[w].rule = NoRule
           /\ worker'[w].job.acl = job.acl /\ worker'[w].job.reaction = job.reaction
           /\ worker'[w].job.op = job.op
           /\ worker'[w].meta = acl[job.acl].meta
           /\ \A v \in Workers \ {w} : worker'[v] = worker[v]
  <1>1. job \in Job /\ job.tries < Tries /\ job.tries \in 0..Tries /\ acl[job.acl].meta \in Marks
    BY Shape DEF Types, Triable, Job
  <1>2. [job EXCEPT !.tries = @ + 1] \in Job
    BY <1>1, ParametersAssumption DEF Job
  <1> DEFINE h == [at |-> "loaded", job |-> [job EXCEPT !.tries = @ + 1],
                   meta |-> acl[job.acl].meta, rule |-> NoRule]
  <1>3. h \in InHand
    BY <1>1, <1>2 DEF InHand
  <1>4. worker' = [worker EXCEPT ![w] = h] /\ ~Busy(w)
    BY DEF Take, Busy
  <1>5. h # Free
    BY DEF Free
  <1>6. worker'[w] = h
    BY <1>4 DEF Types, TypeOK
  <1>7. worker'[w].job = [job EXCEPT !.tries = @ + 1]
    BY <1>6
  <1>8. /\ worker'[w].job.acl = job.acl /\ worker'[w].job.reaction = job.reaction
        /\ worker'[w].job.op = job.op
    BY <1>1, <1>7 DEF Job
  <1>9. /\ worker'[w].at = "loaded" /\ worker'[w].rule = NoRule
        /\ worker'[w].meta = acl[job.acl].meta
    BY <1>6
  <1>10. \A v \in Workers \ {w} : worker'[v] = worker[v]
    BY <1>4 DEF Types, TypeOK
  <1> HIDE DEF h
  <1>11. worker' \in [Workers -> {Free} \cup InHand]
    BY <1>3, <1>4 DEF Types, TypeOK
  <1> QED
    BY <1>4, <1>5, <1>6, <1>8, <1>9, <1>10, <1>11 DEF Busy

-----------------------------------------------------------------------------
(* Types.                                                                  *)

LEMMA TypesInit == Init => Types
  <1> SUFFICES ASSUME Init PROVE Types
    OBVIOUS
  <1>1. NoMarks \in Marks
    BY DEF NoMarks, Marks, NoRule
  <1>2. acl \in [AclIds -> AclRow]
    BY <1>1 DEF Init, AclRow
  <1>3. worker \in [Workers -> {Free} \cup InHand]
    BY DEF Init
  <1>4. /\ queue \subseteq Job /\ Triable
        /\ edge \subseteq [rule : Rules, acl : AclIds] /\ suspect \subseteq AclIds
        /\ imported \subseteq AclIds
    BY DEF Init, Triable
  <1>5. nextRule \in 1..(MaxRules + 1) /\ faults \in 0..MaxFaults /\ reports \in [AclIds -> Nat]
    BY ParametersAssumption DEF Init
  <1> QED
    BY <1>2, <1>3, <1>4, <1>5 DEF Types, TypeOK

\* Changing a row's columns leaves a row.
LEMMA RowTypes ==
    ASSUME Types, NEW i \in AclIds, NEW row \in AclRow, acl' = [acl EXCEPT ![i] = row]
    PROVE  /\ acl' \in [AclIds -> AclRow]
           /\ acl'[i] = row
           /\ \A k \in AclIds \ {i} : acl'[k] = acl[k]
  BY DEF Types, TypeOK

\* The ban jobs of a new row.
BanJobs(i) ==
    {[reaction |-> r, acl |-> i, op |-> "ban", n |-> 0, tries |-> 0] : r \in Enabled}

\* What each action on a row does to it.
LEMMA CreatedRow ==
    ASSUME Types, NEW i \in AclIds, NEW row \in AclRow, Created(i, row)
    PROVE  /\ ~acl[i].exists
           /\ acl' \in [AclIds -> AclRow]
           /\ acl'[i] = row
           /\ \A k \in AclIds \ {i} : acl'[k] = acl[k]
           /\ \A j \in queue' : j \in queue \/ j \in BanJobs(i)
           /\ queue' \subseteq Job /\ Triable'
  <1>1. \A j \in BanJobs(i) : j \in Job /\ j.tries < Tries
    BY ParametersAssumption DEF Job, BanJobs
  <1>2. \A j \in queue' : j \in queue \/ j \in BanJobs(i)
    BY DEF Created, BanJobs
  <1>3. ~acl[i].exists /\ acl' = [acl EXCEPT ![i] = row]
    BY DEF Created
  <1> QED
    BY <1>1, <1>2, <1>3, RowTypes DEF Types, TypeOK, Triable

LEMMA BlockRow ==
    ASSUME Types, NEW i \in AclIds, NEW ip \in Addresses, NEW eligible \in BOOLEAN,
           Block(i, ip, eligible)
    PROVE  /\ acl' \in [AclIds -> AclRow]
           /\ acl'[i].exists /\ ~acl[i].exists /\ acl'[i].meta = acl[i].meta
           /\ acl'[i].expired = acl[i].expired /\ acl'[i].trashed = acl[i].trashed
           /\ \A k \in AclIds \ {i} : acl'[k] = acl[k]
           /\ \A j \in queue' : j \in queue \/ j \in BanJobs(i)
           /\ queue' \subseteq Job /\ Triable'
           /\ UNCHANGED <<worker, edge, nextRule, reports, faults, suspect, imported>>
  <1> DEFINE row == [acl[i] EXCEPT !.exists = TRUE, !.value = ip, !.eligible = eligible]
  <1>1. acl[i] \in AclRow
    BY Shape
  <1>2. row \in AclRow /\ row.exists /\ row.meta = acl[i].meta
        /\ row.expired = acl[i].expired /\ row.trashed = acl[i].trashed
    BY <1>1 DEF AclRow
  <1>3. Created(i, row)
    BY DEF Block
  <1> HIDE DEF row
  <1>4. UNCHANGED <<worker, edge, nextRule, reports, faults, suspect, imported>>
    BY DEF Block
  <1> QED
    BY <1>2, <1>3, <1>4, CreatedRow

LEMMA EndRow ==
    ASSUME Types, NEW i \in AclIds, Expire(i) \/ Trash(i) \/ SetAction(i)
    PROVE  /\ acl' \in [AclIds -> AclRow]
           /\ acl'[i].exists = acl[i].exists /\ acl'[i].meta = acl[i].meta
           /\ acl[i].expired => acl'[i].expired
           /\ acl[i].trashed => acl'[i].trashed
           /\ \A k \in AclIds \ {i} : acl'[k] = acl[k]
  <1>1. acl[i] \in AclRow
    BY Shape
  <1>2. CASE Expire(i)
    BY <1>1, <1>2 DEF Expire, AclRow, Types, TypeOK
  <1>3. CASE Trash(i)
    BY <1>1, <1>3 DEF Trash, AclRow, Types, TypeOK
  <1>4. CASE SetAction(i)
    BY <1>1, <1>4 DEF SetAction, AclRow, Types, TypeOK
  <1> QED
    BY <1>2, <1>3, <1>4

LEMMA ImportRow ==
    ASSUME Types, NEW i \in AclIds, NEW ip \in Addresses, NEW entry \in Entries,
           Import(i, ip, entry)
    PROVE  /\ acl' \in [AclIds -> AclRow]
           /\ acl'[i].exists /\ acl'[i].meta = entry.meta
           /\ entry.meta \in Marks /\ Exported(ip, entry.meta)
           /\ \A k \in AclIds \ {i} : acl'[k] = acl[k]
           /\ \/ acl[i].exists /\ queue' = queue
              \/ ~acl[i].exists /\ \A j \in queue' : j \in queue \/ j \in BanJobs(i)
           /\ queue' \subseteq Job /\ Triable'
           /\ i \in imported' /\ RowsOf(ip) \subseteq imported' /\ imported \subseteq imported'
           /\ imported' \subseteq AclIds
           /\ imported \subseteq suspect => imported' \subseteq suspect'
           /\ Fault(RowsOf(ip) \cup {i}) /\ RowsOf(ip) \cup {i} \subseteq AclIds
           /\ UNCHANGED <<worker, edge, nextRule, reports>>
  <1> DEFINE row == [exists |-> TRUE, value |-> ip, eligible |-> entry.eligible,
                     action |-> entry.action, expired |-> entry.expired,
                     trashed |-> FALSE, meta |-> entry.meta]
  <1>1. row \in AclRow /\ row.exists /\ row.meta = entry.meta /\ entry.meta \in Marks
    BY EntriesAssumption DEF AclRow
  <1>2. \/ acl[i].exists /\ acl' = [acl EXCEPT ![i] = row] /\ queue' = queue
        \/ Created(i, row)
    BY DEF Import, RowsOf
  <1> HIDE DEF row
  <1>3. /\ acl' \in [AclIds -> AclRow] /\ acl'[i] = row
        /\ \A k \in AclIds \ {i} : acl'[k] = acl[k]
        /\ queue' \subseteq Job /\ Triable'
    <2>1. CASE acl' = [acl EXCEPT ![i] = row] /\ queue' = queue
      BY <1>1, <2>1, RowTypes DEF Types, TypeOK, Triable
    <2>2. CASE Created(i, row)
      BY <1>1, <2>2, CreatedRow
    <2> QED
      BY <1>2, <2>1, <2>2
  <1>4. \/ acl[i].exists /\ queue' = queue
        \/ ~acl[i].exists /\ \A j \in queue' : j \in queue \/ j \in BanJobs(i)
    BY <1>1, <1>2, CreatedRow
  <1>5. /\ Fault(RowsOf(ip) \cup {i}) /\ RowsOf(ip) \cup {i} \subseteq AclIds
        /\ imported' = imported \cup RowsOf(ip) \cup {i}
        /\ suspect' = suspect \cup RowsOf(ip) \cup {i}
        /\ Exported(ip, entry.meta)
        /\ UNCHANGED <<worker, edge, nextRule, reports>>
    BY DEF Import, RowsOf, Fault
  <1> QED
    BY <1>1, <1>3, <1>4, <1>5 DEF Types, TypeOK

LEMMA SaveRow ==
    ASSUME Types, NEW w \in Workers, Save(w)
    PROVE  LET i == worker[w].job.acl
           IN  /\ i \in AclIds /\ Saved(w) \in Marks
               /\ acl' \in [AclIds -> AclRow]
               /\ acl'[i].exists = acl[i].exists /\ acl'[i].meta = Saved(w)
               /\ acl'[i].expired = acl[i].expired /\ acl'[i].trashed = acl[i].trashed
               /\ \A k \in AclIds \ {i} : acl'[k] = acl[k]
  <1>1. /\ worker[w].job.acl \in AclIds /\ worker[w].meta \in Marks
        /\ worker[w].rule \in Rules \cup {NoRule}
    BY Shape DEF Save
  <1>2. Saved(w) \in Marks
    BY <1>1 DEF Saved, Marks
  <1>3. acl[worker[w].job.acl] \in AclRow
    BY <1>1, Shape
  <1>4. PICK i \in AclIds : i = worker[w].job.acl
    BY <1>1
  <1>5. PICK m \in Marks : m = Saved(w)
    BY <1>2
  <1>6. acl' = [acl EXCEPT ![i].meta = m]
    BY <1>4, <1>5 DEF Save
  <1> QED
    BY <1>2, <1>3, <1>4, <1>5, <1>6 DEF AclRow, Types, TypeOK

LEMMA FaultTypes ==
    ASSUME Types, NEW rows \in SUBSET AclIds, Fault(rows)
    PROVE  faults' \in 0..MaxFaults /\ suspect' \subseteq AclIds
  BY ParametersAssumption DEF Fault, Types, TypeOK

\* The jobs a run of reconcile adds.
LEMMA UnbanJobTypes ==
    ASSUME Types, NEW i \in AclIds, FreeNumbers(i) # {}
    PROVE  UnbanJob(i) \in Job /\ UnbanJob(i).tries < Tries
           /\ UnbanJob(i).op = "unban" /\ UnbanJob(i).acl = i
  <1>1. (CHOOSE n \in FreeNumbers(i) : TRUE) \in FreeNumbers(i)
    BY DEF FreeNumbers
  <1>2. FreeNumbers(i) \subseteq 0..MaxUnbans
    BY ParametersAssumption DEF FreeNumbers
  <1>3. PICK n \in 0..MaxUnbans : n = CHOOSE m \in FreeNumbers(i) : TRUE
    BY <1>1, <1>2
  <1>4. UnbanJob(i) = [reaction |-> "cloudflare", acl |-> i, op |-> "unban",
                       n |-> n, tries |-> 0]
    BY <1>3 DEF UnbanJob
  <1> QED
    BY <1>3, <1>4, ParametersAssumption DEF Job

\* The rule a ban makes.
LEMMA EdgeTypes ==
    ASSUME Types, NEW i \in AclIds, nextRule <= MaxRules,
           edge' = edge \cup {[rule |-> nextRule, acl |-> i]}, nextRule' = nextRule + 1
    PROVE  /\ nextRule \in Rules
           /\ edge' \subseteq [rule : Rules, acl : AclIds]
           /\ nextRule' \in 1..(MaxRules + 1)
  <1>1. nextRule \in Rules
    BY ParametersAssumption DEF Types, TypeOK, Rules
  <1> QED
    BY <1>1, ParametersAssumption DEF Types, TypeOK

LEMMA ReportTypes ==
    ASSUME Types, NEW i \in AclIds, reports' = [reports EXCEPT ![i] = @ + 1]
    PROVE  /\ reports' \in [AclIds -> Nat]
           /\ reports'[i] = reports[i] + 1
           /\ \A k \in AclIds \ {i} : reports'[k] = reports[k]
  BY DEF Types, TypeOK

\* A job a crash or a failed call lets go of.
LEMMA GivesUp ==
    ASSUME Types, NEW w \in Workers, Busy(w), GiveUp(w)
    PROVE  /\ queue' \in {queue, Requeued(worker[w].job)}
           /\ worker' = [worker EXCEPT ![w] = Free]
  BY DEF GiveUp

LEMMA TypesStep == Types /\ [Next]_vars => Types'
  <1> SUFFICES ASSUME Types, [Next]_vars PROVE Types'
    OBVIOUS
  <1> USE DEF Types, TypeOK
  <1>1. ASSUME NEW i \in AclIds, NEW ip \in Addresses, NEW eligible \in BOOLEAN,
               Block(i, ip, eligible)
        PROVE  Types'
    BY <1>1, BlockRow
  <1>2. ASSUME NEW i \in AclIds, Expire(i) \/ Trash(i) \/ SetAction(i)
        PROVE  Types'
    <2>1. acl' \in [AclIds -> AclRow]
      BY <1>2, EndRow
    <2>2. UNCHANGED <<queue, worker, edge, nextRule, reports, faults, suspect, imported>>
      BY <1>2 DEF Expire, Trash, SetAction
    <2> QED
      BY <2>1, <2>2 DEF Triable
  <1>3. ASSUME NEW i \in AclIds, NEW ip \in Addresses, NEW entry \in Entries,
               Import(i, ip, entry)
        PROVE  Types'
    <2>1. faults' \in 0..MaxFaults /\ suspect' \subseteq AclIds
      BY <1>3, ImportRow, FaultTypes
    <2> QED
      BY <1>3, <2>1, ImportRow
  <1>4. ASSUME NEW rows \in SUBSET AclIds, Reconcile(rows)
        PROVE  Types'
    <2>1. \A i \in rows : UnbanJob(i) \in Job /\ UnbanJob(i).tries < Tries
      BY <1>4, UnbanJobTypes DEF Reconcile
    <2>2. queue' = queue \cup {UnbanJob(i) : i \in rows}
          /\ UNCHANGED <<acl, worker, edge, nextRule, reports, faults, suspect, imported>>
      BY <1>4 DEF Reconcile
    <2> QED
      BY <2>1, <2>2 DEF Triable
  <1>5. ASSUME NEW w \in Workers, NEW job \in queue, Take(w, job)
        PROVE  Types'
    <2>1. worker' \in [Workers -> {Free} \cup InHand]
      BY <1>5, TakesJob DEF Take
    <2>2. queue' \subseteq queue /\ UNCHANGED <<acl, edge, nextRule, reports, faults, suspect, imported>>
      BY <1>5 DEF Take
    <2> QED
      BY <2>1, <2>2 DEF Triable
  <1>6. ASSUME NEW w \in Workers, CreateRule(w)
        PROVE  Types'
    <2>1. worker[w].at = "loaded" /\ worker[w].job.acl \in AclIds
      BY <1>6, Shape DEF CreateRule, Is
    <2>2. /\ nextRule \in Rules
          /\ edge' \subseteq [rule : Rules, acl : AclIds]
          /\ nextRule' \in 1..(MaxRules + 1)
      BY <1>6, <2>1, EdgeTypes DEF CreateRule
    <2>3. worker' \in [Workers -> {Free} \cup InHand]
      BY <1>6, <2>1, <2>2, Advances DEF CreateRule
    <2>4. UNCHANGED <<acl, queue, reports, faults, suspect, imported>>
      BY <1>6 DEF CreateRule
    <2> QED
      BY <2>2, <2>3, <2>4 DEF Triable
  <1>7. ASSUME NEW w \in Workers, DeleteRule(w)
        PROVE  Types'
    <2>1. worker' \in [Workers -> {Free} \cup InHand]
      BY <1>7, Shape, Advances DEF DeleteRule, Is
    <2>2. edge' \subseteq edge /\ UNCHANGED <<acl, queue, nextRule, reports, faults, suspect, imported>>
      BY <1>7 DEF DeleteRule
    <2> QED
      BY <2>1, <2>2 DEF Triable
  <1>8. ASSUME NEW w \in Workers, Report(w)
        PROVE  Types'
    <2>1. worker[w].at = "loaded" /\ worker[w].job.acl \in AclIds
      BY <1>8, Shape DEF Report, Is
    <2>2. worker' \in [Workers -> {Free} \cup InHand]
      BY <1>8, <2>1, Shape, Advances DEF Report
    <2>3. reports' \in [AclIds -> Nat]
      BY <1>8, <2>1, ReportTypes DEF Report
    <2>4. UNCHANGED <<acl, queue, edge, nextRule, faults, suspect, imported>>
      BY <1>8 DEF Report
    <2> QED
      BY <2>2, <2>3, <2>4 DEF Triable
  <1>9. ASSUME NEW w \in Workers, CreateRuleLost(w) \/ DeleteRuleLost(w) \/ ReportLost(w) \/ Crash(w)
        PROVE  Types'
    <2>1. Busy(w) /\ worker[w].job.acl \in AclIds
      BY <1>9, Shape DEF CreateRuleLost, DeleteRuleLost, ReportLost, Crash, Is, Busy
    <2>2. GiveUp(w) /\ Fault({worker[w].job.acl}) /\ imported' = imported
      BY <1>9 DEF CreateRuleLost, DeleteRuleLost, ReportLost, Crash
    <2>3. queue' \subseteq Job /\ Triable' /\ worker' \in [Workers -> {Free} \cup InHand]
      BY <2>1, <2>2, GivesUp, Releases
    <2>4. faults' \in 0..MaxFaults /\ suspect' \subseteq AclIds
      BY <2>1, <2>2, FaultTypes
    <2>5. edge' \subseteq [rule : Rules, acl : AclIds] /\ nextRule' \in 1..(MaxRules + 1)
      BY <1>9, <2>1, EdgeTypes DEF CreateRuleLost, DeleteRuleLost, ReportLost, Crash
    <2>6. reports' \in [AclIds -> Nat]
      BY <1>9, <2>1, ReportTypes DEF CreateRuleLost, DeleteRuleLost, ReportLost, Crash
    <2>7. acl' = acl
      BY <1>9 DEF CreateRuleLost, DeleteRuleLost, ReportLost, Crash
    <2> QED
      BY <2>2, <2>3, <2>4, <2>5, <2>6, <2>7
  <1>10. ASSUME NEW w \in Workers, CallFails(w)
         PROVE  Types'
    <2>1. Busy(w) /\ GiveUp(w)
      BY <1>10, Shape DEF CallFails
    <2>2. queue' \subseteq Job /\ Triable' /\ worker' \in [Workers -> {Free} \cup InHand]
      BY <2>1, GivesUp, Releases
    <2> QED
      BY <1>10, <2>2 DEF CallFails
  <1>11. ASSUME NEW w \in Workers, Save(w)
         PROVE  Types'
    <2>1. Busy(w) /\ queue' \in {queue, Requeued(worker[w].job)}
          /\ worker' = [worker EXCEPT ![w] = Free]
      BY <1>11, Shape DEF Save
    <2>2. queue' \subseteq Job /\ Triable' /\ worker' \in [Workers -> {Free} \cup InHand]
      BY <2>1, Releases
    <2>3. acl' \in [AclIds -> AclRow] /\ worker[w].job.acl \in AclIds
      BY <1>11, SaveRow
    <2>4. suspect' \subseteq AclIds
      BY <1>11, <2>3 DEF Save
    <2> QED
      BY <1>11, <2>2, <2>3, <2>4 DEF Save
  <1>12. CASE UNCHANGED vars
    BY <1>12 DEF vars, Triable
  <1> QED
    BY <1>1, <1>2, <1>3, <1>4, <1>5, <1>6, <1>7, <1>8, <1>9, <1>10, <1>11, <1>12
    DEF Next, CallSucceeds

LEMMA TypesAlways == Spec => []Types
  <1> QED
    BY TypesInit, TypesStep, PTL DEF Spec

\* Every variable keeps its type.
THEOREM TypeCorrect == Spec => []TypeOK
  <1>1. Types => TypeOK
    BY DEF Types
  <1> QED
    BY <1>1, TypesAlways, PTL

-----------------------------------------------------------------------------
(* What a step does to the jobs.                                           *)

\* The actions that let a worker go: its job goes back or is over.
LetsGo(w) ==
    CreateRuleLost(w) \/ DeleteRuleLost(w) \/ ReportLost(w) \/ CallFails(w) \/ Crash(w)

LEMMA Lets ==
    ASSUME Types, NEW w \in Workers, LetsGo(w) \/ Save(w)
    PROVE  /\ Busy(w)
           /\ \A j \in queue' : j \in queue \/ j = worker[w].job
           /\ queue \subseteq queue'
           /\ ~Busy(w)' /\ worker'[w].at # "called" /\ worker'[w].at # "loaded"
           /\ \A v \in Workers \ {w} : worker'[v] = worker[v]
  <1>1. Busy(w)
    BY Shape DEF LetsGo, CreateRuleLost, DeleteRuleLost, ReportLost, CallFails, Crash, Save,
                 Is, Busy
  <1>2. queue' \in {queue, Requeued(worker[w].job)} /\ worker' = [worker EXCEPT ![w] = Free]
    <2>1. CASE Save(w)
      BY <2>1 DEF Save
    <2>2. CASE LetsGo(w)
      BY <1>1, <2>2, GivesUp DEF LetsGo, CreateRuleLost, DeleteRuleLost, ReportLost,
                                 CallFails, Crash
    <2> QED
      BY <2>1, <2>2
  <1>3. queue \subseteq queue'
    BY <1>2 DEF Requeued
  <1> QED
    BY <1>1, <1>2, <1>3, Releases

LEMMA Calls ==
    ASSUME Types, NEW w \in Workers, CallSucceeds(w)
    PROVE  /\ UNCHANGED <<acl, queue, faults, suspect, imported>>
           /\ worker[w].at = "loaded"
           /\ Busy(w) /\ Busy(w)'
           /\ worker'[w].at = "called" /\ worker'[w].job = worker[w].job
           /\ worker'[w].meta = worker[w].meta
           /\ CreateRule(w) => worker'[w].rule = nextRule /\ nextRule \in Rules
           /\ ~CreateRule(w) => worker'[w].rule = worker[w].rule
           /\ \A v \in Workers \ {w} : worker'[v] = worker[v]
  <1>1. UNCHANGED <<acl, queue, faults, suspect, imported>> /\ worker[w].at = "loaded"
    BY DEF CallSucceeds, CreateRule, DeleteRule, Report, Is
  <1>2. CASE CreateRule(w)
    <2>1. nextRule \in Rules
      BY <1>2, ParametersAssumption DEF CreateRule, Types, TypeOK, Rules
    <2>2. worker' = [worker EXCEPT ![w].at = "called", ![w].rule = nextRule]
      BY <1>2 DEF CreateRule
    <2> QED
      BY <1>1, <1>2, <2>1, <2>2, Advances
  <1>3. CASE ~CreateRule(w)
    <2>1. worker' = [worker EXCEPT ![w].at = "called"]
      BY <1>3 DEF CallSucceeds, DeleteRule, Report
    <2>2. worker[w].rule \in Rules \cup {NoRule}
      BY <1>1, Shape
    <2> QED
      BY <1>1, <1>3, <2>1, <2>2, Advances
  <1> QED
    BY <1>2, <1>3

LEMMA LetsGoRows ==
    ASSUME Types, NEW w \in Workers, LetsGo(w)
    PROVE  acl' = acl
  BY DEF LetsGo, CreateRuleLost, DeleteRuleLost, ReportLost, CallFails, Crash

\* The steps of the system, the worker's ones in three kinds.
LEMMA Steps ==
    ASSUME [Next]_vars
    PROVE  \/ \E i \in AclIds, ip \in Addresses, eligible \in BOOLEAN : Block(i, ip, eligible)
           \/ \E i \in AclIds : Expire(i) \/ Trash(i) \/ SetAction(i)
           \/ \E i \in AclIds, ip \in Addresses, entry \in Entries : Import(i, ip, entry)
           \/ \E rows \in SUBSET AclIds : Reconcile(rows)
           \/ \E w \in Workers, job \in queue : Take(w, job)
           \/ \E w \in Workers : CallSucceeds(w)
           \/ \E w \in Workers : LetsGo(w)
           \/ \E w \in Workers : Save(w)
           \/ UNCHANGED vars
  BY DEF Next, LetsGo

\* The actions on rows and the reconcile command leave the workers alone.
LEMMA WorkerSteps ==
    ASSUME [Next]_vars
    PROVE  \/ UNCHANGED <<worker, edge, nextRule, reports>>
           \/ \E w \in Workers, job \in queue : Take(w, job)
           \/ \E w \in Workers : CallSucceeds(w)
           \/ \E w \in Workers : LetsGo(w)
           \/ \E w \in Workers : Save(w)
  <1>1. ASSUME NEW i \in AclIds, NEW ip \in Addresses, NEW eligible \in BOOLEAN,
               Block(i, ip, eligible)
        PROVE  UNCHANGED <<worker, edge, nextRule, reports>>
    BY <1>1 DEF Block
  <1>2. ASSUME NEW i \in AclIds, Expire(i) \/ Trash(i) \/ SetAction(i)
        PROVE  UNCHANGED <<worker, edge, nextRule, reports>>
    BY <1>2 DEF Expire, Trash, SetAction
  <1>3. ASSUME NEW i \in AclIds, NEW ip \in Addresses, NEW entry \in Entries,
               Import(i, ip, entry)
        PROVE  UNCHANGED <<worker, edge, nextRule, reports>>
    BY <1>3 DEF Import
  <1>4. ASSUME NEW rows \in SUBSET AclIds, Reconcile(rows)
        PROVE  UNCHANGED <<worker, edge, nextRule, reports>>
    BY <1>4 DEF Reconcile
  <1>5. CASE UNCHANGED vars
    BY <1>5 DEF vars
  <1> QED
    BY <1>1, <1>2, <1>3, <1>4, <1>5, Steps

\* No step takes a suspicion back.
LEMMA Suspicion == Types /\ [Next]_vars => suspect \subseteq suspect'
  <1> SUFFICES ASSUME Types, [Next]_vars PROVE suspect \subseteq suspect'
    OBVIOUS
  <1>1. ASSUME NEW w \in Workers, LetsGo(w)
        PROVE  suspect \subseteq suspect'
    BY <1>1 DEF LetsGo, CreateRuleLost, DeleteRuleLost, ReportLost, CallFails, Crash, Fault
  <1>2. ASSUME NEW w \in Workers, Save(w)
        PROVE  suspect \subseteq suspect'
    BY <1>2 DEF Save
  <1> QED
    BY <1>1, <1>2, Steps, Calls DEF Block, Expire, Trash, SetAction, Import, Fault, Reconcile,
                                    Take, vars

\* No step takes an import back, and only an import adds one.
LEMMA Imports ==
    ASSUME Types, [Next]_vars
    PROVE  /\ imported \subseteq imported'
           /\ \/ imported' = imported
              \/ \E i \in AclIds, ip \in Addresses, entry \in Entries : Import(i, ip, entry)
  <1>1. ASSUME NEW w \in Workers, LetsGo(w)
        PROVE  imported' = imported
    BY <1>1 DEF LetsGo, CreateRuleLost, DeleteRuleLost, ReportLost, CallFails, Crash
  <1>2. ASSUME NEW i \in AclIds, NEW ip \in Addresses, NEW entry \in Entries,
               Import(i, ip, entry)
        PROVE  imported \subseteq imported'
    BY <1>2, ImportRow
  <1> QED
    BY <1>1, <1>2, Steps, Calls
    DEF Block, Expire, Trash, SetAction, Reconcile, Take, Save, vars

-----------------------------------------------------------------------------
(* One ban job per reaction.                                               *)

LEMMA OneBanInit == Init => OneBan
  BY DEF Init, OneBan, Busy

\* OneBan for one row and reaction.
OneBanOf(i, r) ==
    /\ ~acl[i].exists =>
          /\ \A j \in queue : ~IsBan(j, i, r)
          /\ \A w \in Workers : Busy(w) => ~IsBan(worker[w].job, i, r)
    /\ \A j, k \in queue : IsBan(j, i, r) /\ IsBan(k, i, r) => j = k
    /\ \A w \in Workers : Busy(w) /\ IsBan(worker[w].job, i, r) =>
          /\ \A j \in queue : ~IsBan(j, i, r)
          /\ \A v \in Workers : Busy(v) /\ IsBan(worker[v].job, i, r) => v = w

LEMMA OneBanStep == Types /\ OneBan /\ [Next]_vars => OneBan'
  <1> SUFFICES ASSUME Types, OneBan, [Next]_vars, NEW i \in AclIds, NEW r \in Reactions
               PROVE  OneBanOf(i, r)'
    BY DEF OneBan, OneBanOf
  <1>0. OneBanOf(i, r)
    BY DEF OneBan, OneBanOf
  <1>1. ASSUME NEW b \in AclIds, worker' = worker, ~acl[b].exists, acl'[b].exists,
               \A k \in AclIds \ {b} : acl'[k] = acl[k],
               \A j \in queue' : j \in queue \/ j \in BanJobs(b)
        PROVE  OneBanOf(i, r)'
    <2>1. \A j \in BanJobs(b) : j.acl = b /\ j.op = "ban"
                                /\ (IsBan(j, i, r) =>
                                      j = [reaction |-> r, acl |-> b, op |-> "ban",
                                           n |-> 0, tries |-> 0])
      BY DEF BanJobs, IsBan
    <2>2. CASE i = b
      BY <1>0, <1>1, <2>1, <2>2 DEF OneBanOf, IsBan, Busy
    <2>3. CASE i # b
      <3>1. \A j \in queue' : IsBan(j, i, r) => j \in queue
        BY <1>1, <2>1, <2>3 DEF IsBan
      <3> QED
        BY <1>0, <1>1, <2>3, <3>1 DEF OneBanOf, Busy
    <2> QED
      BY <2>2, <2>3
  <1>2. ASSUME UNCHANGED <<queue, worker>>, acl'[i].exists = acl[i].exists
        PROVE  OneBanOf(i, r)'
    BY <1>0, <1>2 DEF OneBanOf, Busy
  <1>3. ASSUME NEW k \in AclIds, Expire(k) \/ Trash(k) \/ SetAction(k)
        PROVE  OneBanOf(i, r)'
    <2>1. acl'[i].exists = acl[i].exists
      BY <1>3, EndRow
    <2> QED
      BY <1>2, <1>3, <2>1 DEF Expire, Trash, SetAction
  <1>4. ASSUME NEW k \in AclIds, NEW ip \in Addresses, NEW entry \in Entries,
               Import(k, ip, entry)
        PROVE  OneBanOf(i, r)'
    <2>1. CASE ~acl[k].exists
      BY <1>1, <1>4, <2>1, ImportRow
    <2>2. CASE acl[k].exists
      <3>1. acl'[i].exists = acl[i].exists /\ UNCHANGED <<queue, worker>>
        <4>1. acl[k] \in AclRow /\ acl'[k].exists = TRUE /\ acl[k].exists = TRUE
          BY <1>4, <2>2, ImportRow, Shape DEF AclRow
        <4> QED
          BY <1>4, <2>2, <4>1, ImportRow
      <3> QED
        BY <1>2, <3>1
    <2> QED
      BY <2>1, <2>2
  <1>10. ASSUME NEW k \in AclIds, NEW ip \in Addresses, NEW eligible \in BOOLEAN,
                Block(k, ip, eligible)
         PROVE  OneBanOf(i, r)'
    BY <1>1, <1>10, BlockRow
  <1>5. ASSUME NEW rows \in SUBSET AclIds, Reconcile(rows)
        PROVE  OneBanOf(i, r)'
    <2>1. \A j \in queue' : IsBan(j, i, r) => j \in queue
      BY <1>5, UnbanJobTypes DEF Reconcile, IsBan
    <2> QED
      BY <1>0, <1>5, <2>1 DEF OneBanOf, Busy, Reconcile
  <1>6. ASSUME NEW w \in Workers, NEW job \in queue, Take(w, job)
        PROVE  OneBanOf(i, r)'
    <2>1. acl' = acl /\ queue' = queue \ {job}
      BY <1>6 DEF Take
    <2>2. CASE ~HasWork(job)
      BY <1>0, <1>6, <2>1, <2>2 DEF OneBanOf, Busy, Take
    <2>3. CASE HasWork(job)
      <3>1. /\ ~Busy(w) /\ Busy(w)'
            /\ IsBan(worker'[w].job, i, r) <=> IsBan(job, i, r)
            /\ \A v \in Workers \ {w} : worker'[v] = worker[v]
        BY <1>6, <2>3, TakesJob DEF IsBan
      <3>2. \A v \in Workers \ {w} : Busy(v)' <=> Busy(v)
        BY <3>1 DEF Busy
      <3> QED
        BY <1>0, <2>1, <3>1, <3>2 DEF OneBanOf
    <2> QED
      BY <2>2, <2>3
  <1>7. ASSUME NEW w \in Workers, CallSucceeds(w)
        PROVE  OneBanOf(i, r)'
    <2>1. /\ acl' = acl /\ queue' = queue
          /\ \A v \in Workers : (Busy(v)' <=> Busy(v)) /\ (Busy(v) => worker'[v].job = worker[v].job)
      BY <1>7, Calls DEF Busy
    <2> QED
      BY <1>0, <2>1 DEF OneBanOf
  <1>8. ASSUME NEW w \in Workers, LetsGo(w) \/ Save(w)
        PROVE  OneBanOf(i, r)'
    <2>1. acl'[i].exists = acl[i].exists
      BY <1>8, LetsGoRows, SaveRow
    <2>2. /\ Busy(w)
          /\ \A j \in queue' : j \in queue \/ j = worker[w].job
          /\ \A v \in Workers : Busy(v)' => v # w /\ Busy(v) /\ worker'[v] = worker[v]
      BY <1>8, Lets DEF Busy
    <2> QED
      BY <1>0, <2>1, <2>2 DEF OneBanOf
  <1>9. CASE UNCHANGED vars
    BY <1>2, <1>9 DEF vars
  <1> QED
    BY <1>3, <1>4, <1>5, <1>6, <1>7, <1>8, <1>9, <1>10, Steps

-----------------------------------------------------------------------------
(* New rule ids.                                                           *)

LEMMA RulesKnownInit == Init => RulesKnown
  <1> SUFFICES ASSUME Init PROVE RulesKnown
    OBVIOUS
  <1>1. \A i \in AclIds : acl[i].meta.rule_id = 0
    BY DEF Init, NoMarks, NoRule
  <1>2. \A w \in Workers : ~Busy(w) /\ worker[w].at # "loaded"
    BY DEF Init, Busy, Free
  <1> QED
    BY <1>1, <1>2 DEF Init, RulesKnown

LEMMA RulesKnownStep == Types /\ RulesKnown /\ [Next]_vars => RulesKnown'
  <1> SUFFICES ASSUME Types, RulesKnown, [Next]_vars PROVE RulesKnown'
    OBVIOUS
  <1>0. /\ nextRule \in Nat
        /\ \A r \in Rules \cup {NoRule} : r \in Nat
        /\ nextRule > 0
    BY Shape, ParametersAssumption DEF Types, TypeOK, NoRule
  <1>1. nextRule' \in Nat /\ nextRule <= nextRule'
        /\ \A e \in edge' : e \in edge \/ e.rule < nextRule'
    <2>1. ASSUME NEW w \in Workers, CreateRule(w) \/ CreateRuleLost(w)
          PROVE  /\ nextRule' = nextRule + 1
                 /\ \A e \in edge' : e \in edge \/ e.rule = nextRule
      BY <2>1 DEF CreateRule, CreateRuleLost
    <2>2. ASSUME NEW w \in Workers, LetsGo(w), ~CreateRuleLost(w)
          PROVE  nextRule' = nextRule /\ edge' \subseteq edge
      BY <2>2 DEF LetsGo, DeleteRuleLost, ReportLost, CallFails, Crash
    <2>3. ASSUME NEW w \in Workers, CallSucceeds(w), ~CreateRule(w)
          PROVE  nextRule' = nextRule /\ edge' \subseteq edge
      BY <2>3 DEF CallSucceeds, DeleteRule, Report
    <2>4. ASSUME NEW w \in Workers, Save(w)
          PROVE  nextRule' = nextRule /\ edge' \subseteq edge
      BY <2>4 DEF Save
    <2>5. ASSUME NEW w \in Workers, NEW job \in queue, Take(w, job)
          PROVE  nextRule' = nextRule /\ edge' \subseteq edge
      BY <2>5 DEF Take
    <2>6. \/ nextRule' = nextRule /\ edge' \subseteq edge
          \/ /\ nextRule' = nextRule + 1
             /\ \A e \in edge' : e \in edge \/ e.rule = nextRule
      BY <2>1, <2>2, <2>3, <2>4, <2>5, WorkerSteps
    <2> QED
      BY <1>0, <2>6
  <1>2. \A e \in edge' : e.rule < nextRule'
    <2>1. \A e \in edge : e.rule \in Nat /\ e.rule < nextRule
      BY <1>0 DEF RulesKnown, Types, TypeOK
    <2> QED
      BY <1>0, <1>1, <2>1
  <1>3. ASSUME NEW i \in AclIds
        PROVE  acl'[i].meta.rule_id < nextRule'
    <2>1. acl[i].meta.rule_id < nextRule /\ acl[i].meta.rule_id \in Nat
      BY <1>0, Shape DEF RulesKnown
    <2>2. ASSUME NEW w \in Workers, Save(w)
          PROVE  acl'[i].meta.rule_id \in Nat /\ acl'[i].meta.rule_id < nextRule
      <3>1. /\ worker[w].meta \in Marks /\ worker[w].meta.rule_id \in Nat
            /\ worker[w].rule \in Nat
            /\ worker[w].meta.rule_id < nextRule /\ worker[w].rule < nextRule
        BY <1>0, <2>2, Lets, Shape DEF RulesKnown
      <3>2. Saved(w).rule_id \in {worker[w].meta.rule_id, worker[w].rule}
        BY <3>1 DEF Saved, Marks
      <3>3. acl'[i].meta = acl[i].meta \/ acl'[i].meta = Saved(w)
        BY <2>2, SaveRow
      <3> QED
        BY <2>1, <3>1, <3>2, <3>3
    <2>3. ASSUME NEW k \in AclIds, NEW ip \in Addresses, NEW eligible \in BOOLEAN,
                 Block(k, ip, eligible)
          PROVE  acl'[i].meta = acl[i].meta
      BY <2>3, BlockRow
    <2>4. ASSUME NEW k \in AclIds, Expire(k) \/ Trash(k) \/ SetAction(k)
          PROVE  acl'[i].meta = acl[i].meta
      BY <2>4, EndRow
    <2>5. ASSUME NEW k \in AclIds, NEW ip \in Addresses, NEW entry \in Entries,
                 Import(k, ip, entry)
          PROVE  acl'[i].meta.rule_id \in Nat /\ acl'[i].meta.rule_id < nextRule
      <3>1. entry.meta.rule_id \in Nat /\ entry.meta.rule_id < nextRule
        BY <1>0, <2>5, ImportRow, Shape DEF Exported
      <3> QED
        BY <2>1, <2>5, <3>1, ImportRow
    <2>6. acl'[i].meta.rule_id \in Nat /\ acl'[i].meta.rule_id < nextRule
      BY <1>0, <2>1, <2>2, <2>3, <2>4, <2>5, Steps, Calls, LetsGoRows
      DEF Reconcile, Take, vars
    <2> QED
      BY <1>0, <1>1, <2>6
  <1>4. ASSUME NEW w \in Workers, Busy(w)'
        PROVE  worker'[w].meta.rule_id < nextRule' /\ worker'[w].rule < nextRule'
    <2>1. ASSUME Busy(w), worker'[w].meta = worker[w].meta, worker'[w].rule = worker[w].rule
          PROVE  worker'[w].meta.rule_id < nextRule' /\ worker'[w].rule < nextRule'
      <3>1. /\ worker[w].meta.rule_id \in Nat /\ worker[w].rule \in Nat
            /\ worker[w].meta.rule_id < nextRule /\ worker[w].rule < nextRule
        BY <1>0, <2>1, Shape DEF RulesKnown
      <3> QED
        BY <1>0, <1>1, <2>1, <3>1
    <2>2. ASSUME worker'[w] = worker[w]
          PROVE  worker'[w].meta.rule_id < nextRule' /\ worker'[w].rule < nextRule'
      BY <1>4, <2>1, <2>2 DEF Busy
    <2>3. ASSUME NEW v \in Workers, NEW job \in queue, Take(v, job)
          PROVE  worker'[w].meta.rule_id < nextRule' /\ worker'[w].rule < nextRule'
      <3>1. CASE ~HasWork(job) \/ v # w
        BY <2>2, <2>3, <3>1, TakesJob DEF Take
      <3>2. CASE HasWork(job) /\ v = w
        <4>1. worker'[w].meta = acl[job.acl].meta /\ worker'[w].rule = 0
          BY <2>3, <3>2, TakesJob DEF NoRule
        <4>2. acl[job.acl].meta.rule_id < nextRule /\ acl[job.acl].meta.rule_id \in Nat
          BY <1>0, Shape DEF RulesKnown
        <4> QED
          BY <1>0, <1>1, <4>1, <4>2
      <3> QED
        BY <3>1, <3>2
    <2>4. ASSUME NEW v \in Workers, CallSucceeds(v)
          PROVE  worker'[w].meta.rule_id < nextRule' /\ worker'[w].rule < nextRule'
      <3>1. CASE v # w
        BY <2>2, <2>4, <3>1, Calls
      <3>2. CASE v = w /\ ~CreateRule(v)
        BY <2>1, <2>4, <3>2, Calls
      <3>3. CASE v = w /\ CreateRule(v)
        <4>1. /\ worker'[w].meta = worker[w].meta /\ Busy(w)
              /\ worker'[w].rule = nextRule /\ nextRule' = nextRule + 1
          BY <2>4, <3>3, Calls DEF CreateRule
        <4>2. worker[w].meta.rule_id \in Nat /\ worker[w].meta.rule_id < nextRule
          BY <1>0, <4>1, Shape DEF RulesKnown
        <4> QED
          BY <1>0, <4>1, <4>2
      <3> QED
        BY <3>1, <3>2, <3>3
    <2>5. ASSUME NEW v \in Workers, LetsGo(v) \/ Save(v)
          PROVE  worker'[w] = worker[w]
      BY <1>4, <2>5, Lets
    <2> QED
      BY <2>2, <2>3, <2>4, <2>5, WorkerSteps
  <1>5. ASSUME NEW w \in Workers, worker'[w].at = "loaded"
        PROVE  worker'[w].rule = NoRule
    <2>1. ASSUME worker'[w] = worker[w]
          PROVE  worker'[w].rule = NoRule
      BY <1>5, <2>1 DEF RulesKnown
    <2>2. ASSUME NEW v \in Workers, NEW job \in queue, Take(v, job)
          PROVE  worker'[w].rule = NoRule
      BY <2>1, <2>2, TakesJob DEF Take
    <2> QED
      BY <1>5, <2>1, <2>2, WorkerSteps, Calls, Lets
  <1> QED
    BY <1>2, <1>3, <1>4, <1>5 DEF RulesKnown

-----------------------------------------------------------------------------
(* Whose rule an id names.                                                 *)

LEMMA OwnedInit == Init => Owned
  BY DEF Init, Owned

\* What a step adds to the edge: the rule of a ban job's row, under a new id.
LEMMA NewOnEdge ==
    ASSUME Types, [Next]_vars, NEW e \in edge', e \notin edge
    PROVE  \E w \in Workers : /\ CreateRule(w) \/ CreateRuleLost(w)
                              /\ Busy(w) /\ worker[w].job.acl \in AclIds
                              /\ IsBan(worker[w].job, worker[w].job.acl, "cloudflare")
                              /\ e = [rule |-> nextRule, acl |-> worker[w].job.acl]
  <1>1. PICK w \in Workers : CreateRule(w) \/ CreateRuleLost(w)
    <2>1. \A w \in Workers : CallSucceeds(w) /\ ~CreateRule(w) => edge' \subseteq edge
      BY DEF CallSucceeds, DeleteRule, Report
    <2>2. \A w \in Workers : LetsGo(w) /\ ~CreateRuleLost(w) => edge' \subseteq edge
      BY DEF LetsGo, DeleteRuleLost, ReportLost, CallFails, Crash
    <2> QED
      BY <2>1, <2>2, WorkerSteps DEF Take, Save
  <1>2. Busy(w) /\ worker[w].job.acl \in AclIds
    BY <1>1, Shape DEF CreateRule, CreateRuleLost, Is
  <1> QED
    BY <1>1, <1>2 DEF CreateRule, CreateRuleLost, Is, IsBan

LEMMA OwnedStep == Types /\ OneBan /\ RulesKnown /\ Owned /\ [Next]_vars => Owned'
  <1> SUFFICES ASSUME Types, OneBan, RulesKnown, Owned, [Next]_vars PROVE Owned'
    OBVIOUS
  <1>1. imported \subseteq imported' /\ imported' \subseteq suspect'
    <2>1. ASSUME NEW i \in AclIds, NEW ip \in Addresses, NEW entry \in Entries,
                 Import(i, ip, entry)
          PROVE  imported' \subseteq suspect'
      BY <2>1, ImportRow DEF Owned
    <2> QED
      BY <2>1, Imports, Suspicion DEF Owned
  <1>2. \A e \in edge' : e \in edge \/ e.rule = nextRule
    BY NewOnEdge
  <1>3. \A i \in AclIds : acl[i].exists => acl'[i].exists
    <2>1. ASSUME NEW w \in Workers, Save(w)
          PROVE  \A i \in AclIds : acl[i].exists => acl'[i].exists
      BY <2>1, SaveRow
    <2>2. ASSUME NEW k \in AclIds, Expire(k) \/ Trash(k) \/ SetAction(k)
          PROVE  \A i \in AclIds : acl[i].exists => acl'[i].exists
      BY <2>2, EndRow
    <2> QED
      BY <2>1, <2>2, Steps, BlockRow, ImportRow, Calls, LetsGoRows DEF Reconcile, Take, vars
  <1>4. \A e \in edge' : acl'[e.acl].exists
    <2>1. \A e \in edge : e.acl \in AclIds
      BY DEF Types, TypeOK
    <2>2. ASSUME NEW e \in edge', e \notin edge
          PROVE  e.acl \in AclIds /\ acl[e.acl].exists
      BY <2>2, NewOnEdge DEF OneBan, Reactions
    <2> QED
      BY <1>3, <2>1, <2>2 DEF Owned
  <1>5. \A e, f \in edge' : e.rule = f.rule => e = f
    <2>1. \A e \in edge : e.rule # nextRule
      BY Shape DEF RulesKnown
    <2>2. ASSUME NEW e \in edge', NEW f \in edge', e \notin edge, f \notin edge
          PROVE  e = f
      <3>1. PICK w \in Workers :
              /\ CreateRule(w) \/ CreateRuleLost(w)
              /\ edge' = edge \cup {[rule |-> nextRule, acl |-> worker[w].job.acl]}
        BY <2>2, NewOnEdge DEF CreateRule, CreateRuleLost
      <3> QED
        BY <2>2, <3>1
    <2> QED
      BY <1>2, <2>1, <2>2 DEF Owned
  <1>6. \A i \in AclIds : acl[i].meta.rule_id # nextRule
    BY Shape DEF RulesKnown
  <1>7. \A w \in Workers : Busy(w) => worker[w].meta.rule_id # nextRule
                                      /\ worker[w].rule # nextRule
    BY Shape DEF RulesKnown
  <1>8. nextRule # NoRule /\ \A e \in edge' : e.rule # NoRule
    <2>1. nextRule # NoRule
      BY ParametersAssumption DEF Types, TypeOK, NoRule
    <2>2. \A e \in edge : e.rule # NoRule
      BY Shape DEF Types, TypeOK
    <2> QED
      BY <1>2, <2>1, <2>2
  <1>9. ASSUME NEW e \in edge', NEW i \in AclIds, acl'[i].meta.rule_id = e.rule
        PROVE  Kin(i, e.acl)'
    <2>1. ASSUME acl'[i].meta.rule_id = acl[i].meta.rule_id
          PROVE  Kin(i, e.acl)'
      BY <1>1, <1>2, <1>6, <1>9, <2>1 DEF Owned, Kin
    <2>2. ASSUME NEW w \in Workers, Save(w)
          PROVE  Kin(i, e.acl)'
      <3>1. e \in edge /\ imported' = imported /\ Busy(w)
        BY <1>9, <2>2, Lets DEF Save
      <3>2. CASE worker[w].job.acl # i
        BY <2>1, <2>2, <3>2, SaveRow
      <3>3. CASE worker[w].job.acl = i
        <4>1. worker[w].meta \in Marks /\ acl'[i].meta = Saved(w)
          BY <2>2, <3>1, <3>3, Shape, SaveRow
        <4>2. Saved(w).rule_id \in {worker[w].meta.rule_id, worker[w].rule}
          BY <4>1 DEF Saved, Marks
        <4> QED
          BY <1>9, <3>1, <3>3, <4>1, <4>2 DEF Owned, Kin
      <3> QED
        BY <3>2, <3>3
    <2>3. ASSUME NEW k \in AclIds, NEW ip \in Addresses, NEW entry \in Entries,
                 Import(k, ip, entry)
          PROVE  Kin(i, e.acl)'
      <3>1. CASE i # k
        BY <2>1, <2>3, <3>1, ImportRow
      <3>2. CASE i = k
        <4>1. /\ edge' = edge /\ acl'[k].meta = entry.meta
              /\ Exported(ip, entry.meta)
          BY <2>3, ImportRow
        <4>2. e \in edge /\ e.acl \in AclIds /\ entry.meta.rule_id = e.rule
          BY <1>9, <3>2, <4>1 DEF Types, TypeOK
        <4>3. acl[e.acl].value = ip /\ acl[e.acl].exists
          BY <4>1, <4>2 DEF Exported, Owned
        <4>4. e.acl \in imported' /\ i \in imported'
          BY <2>3, <3>2, <4>2, <4>3, ImportRow DEF RowsOf
        <4> QED
          BY <4>4 DEF Kin
      <3> QED
        BY <3>1, <3>2
    <2>4. ASSUME NEW k \in AclIds, NEW ip \in Addresses, NEW eligible \in BOOLEAN,
                 Block(k, ip, eligible)
          PROVE  Kin(i, e.acl)'
      BY <2>1, <2>4, BlockRow
    <2>5. ASSUME NEW k \in AclIds, Expire(k) \/ Trash(k) \/ SetAction(k)
          PROVE  Kin(i, e.acl)'
      BY <2>1, <2>5, EndRow
    <2>6. ASSUME acl' = acl
          PROVE  Kin(i, e.acl)'
      BY <2>1, <2>6
    <2> QED
      BY <2>2, <2>3, <2>4, <2>5, <2>6, Steps, Calls, LetsGoRows DEF Reconcile, Take, vars
  <1>10. ASSUME NEW e \in edge', NEW w \in Workers, Busy(w)'
         PROVE  /\ worker'[w].meta.rule_id = e.rule => Kin(worker[w].job.acl, e.acl)'
                /\ worker'[w].rule = e.rule => worker'[w].job.acl = e.acl
    <2> DEFINE Holds == /\ worker'[w].meta.rule_id = e.rule => Kin(worker[w].job.acl, e.acl)'
                        /\ worker'[w].rule = e.rule => worker'[w].job.acl = e.acl
    <2>1. ASSUME Busy(w), worker'[w].meta = worker[w].meta, worker'[w].rule = worker[w].rule,
                 worker'[w].job = worker[w].job
          PROVE  Holds
      BY <1>1, <1>2, <1>7, <2>1 DEF Owned, Kin
    <2>2. ASSUME worker'[w] = worker[w]
          PROVE  Holds
      BY <1>10, <2>1, <2>2 DEF Busy
    <2>3. ASSUME NEW v \in Workers, NEW job \in queue, Take(v, job)
          PROVE  Holds
      <3>1. CASE ~HasWork(job) \/ v # w
        BY <2>2, <2>3, <3>1, TakesJob DEF Take
      <3>2. CASE HasWork(job) /\ v = w
        <4>1. /\ worker'[w].meta = acl[job.acl].meta /\ worker'[w].rule = NoRule
              /\ worker'[w].job.acl = job.acl /\ job.acl \in AclIds
              /\ edge' = edge /\ imported' = imported
          BY <2>3, <3>2, TakesJob, Shape DEF Take
        <4> QED
          BY <1>8, <4>1 DEF Owned, Kin
      <3> QED
        BY <3>1, <3>2
    <2>4. ASSUME NEW v \in Workers, CallSucceeds(v)
          PROVE  Holds
      <3>1. CASE v # w
        BY <2>2, <2>4, <3>1, Calls
      <3>2. CASE v = w /\ ~CreateRule(v)
        BY <2>1, <2>4, <3>2, Calls
      <3>3. CASE v = w /\ CreateRule(v)
        <4>1. /\ worker'[w].meta = worker[w].meta /\ Busy(w)
              /\ worker'[w].job = worker[w].job
              /\ worker'[w].rule = nextRule /\ imported' = imported
              /\ edge' = edge \cup {[rule |-> nextRule, acl |-> worker[w].job.acl]}
          BY <2>4, <3>3, Calls DEF CreateRule
        <4>2. e \in edge => e.rule # nextRule
          BY Shape DEF RulesKnown
        <4> QED
          BY <1>7, <4>1, <4>2 DEF Owned, Kin
      <3> QED
        BY <3>1, <3>2, <3>3
    <2>5. ASSUME NEW v \in Workers, LetsGo(v) \/ Save(v)
          PROVE  worker'[w] = worker[w]
      BY <1>10, <2>5, Lets
    <2> QED
      BY <2>2, <2>3, <2>4, <2>5, WorkerSteps
  <1> QED
    BY <1>1, <1>4, <1>5, <1>9, <1>10 DEF Owned

LEMMA OwnedAlways == Spec => [](Types /\ OneBan /\ RulesKnown /\ Owned)
  <1>1. Init => Types /\ OneBan /\ RulesKnown /\ Owned
    BY TypesInit, OneBanInit, RulesKnownInit, OwnedInit
  <1>2. Types /\ OneBan /\ RulesKnown /\ Owned /\ [Next]_vars
           => (Types /\ OneBan /\ RulesKnown /\ Owned)'
    BY TypesStep, OneBanStep, RulesKnownStep, OwnedStep
  <1> QED
    BY <1>1, <1>2, PTL DEF Spec

-----------------------------------------------------------------------------
(* A rule outlives its block.                                              *)

LEMMA UnbanAfterEndInit == Init => UnbanAfterEnd
  BY DEF Init, UnbanAfterEnd, Busy

\* What has ended stays so, or is imported again.
LEMMA OverStays ==
    ASSUME Types, [Next]_vars, NEW i \in AclIds, Over(i)
    PROVE  Over(i)'
  <1> SUFFICES ASSUME i \notin imported' PROVE acl'[i].expired \/ acl'[i].trashed
    BY DEF Over
  <1>0. acl[i].expired \/ acl[i].trashed
    BY Imports DEF Over
  <1>1. ASSUME NEW k \in AclIds, NEW ip \in Addresses, NEW eligible \in BOOLEAN,
               Block(k, ip, eligible)
        PROVE  acl'[i].expired \/ acl'[i].trashed
    BY <1>0, <1>1, BlockRow
  <1>2. ASSUME NEW k \in AclIds, Expire(k) \/ Trash(k) \/ SetAction(k)
        PROVE  acl'[i].expired \/ acl'[i].trashed
    BY <1>0, <1>2, EndRow
  <1>3. ASSUME NEW k \in AclIds, NEW ip \in Addresses, NEW entry \in Entries,
               Import(k, ip, entry)
        PROVE  acl'[i].expired \/ acl'[i].trashed
    BY <1>0, <1>3, ImportRow DEF Import, Fault
  <1>4. ASSUME NEW w \in Workers, Save(w)
        PROVE  acl'[i].expired \/ acl'[i].trashed
    BY <1>0, <1>4, SaveRow
  <1>5. ASSUME acl' = acl
        PROVE  acl'[i].expired \/ acl'[i].trashed
    BY <1>0, <1>5
  <1> QED
    BY <1>1, <1>2, <1>3, <1>4, <1>5, Steps, Calls, LetsGoRows DEF Reconcile, Take, vars

LEMMA UnbanAfterEndStep == Types /\ UnbanAfterEnd /\ [Next]_vars => UnbanAfterEnd'
  <1> SUFFICES ASSUME Types, UnbanAfterEnd, [Next]_vars, NEW i \in AclIds, ~Over(i)'
               PROVE  /\ \A j \in queue' : j.acl = i => j.op = "ban"
                      /\ \A w \in Workers :
                            Busy(w)' /\ worker'[w].job.acl = i => worker'[w].job.op = "ban"
    BY DEF UnbanAfterEnd
  <1>1. ~Over(i)
    BY OverStays
  <1>2. /\ \A j \in queue : j.acl = i => j.op = "ban"
        /\ \A w \in Workers : Busy(w) /\ worker[w].job.acl = i => worker[w].job.op = "ban"
    BY <1>1 DEF UnbanAfterEnd
  <1>3. \A j \in queue' : j.acl = i => j.op = "ban"
    <2>1. ASSUME NEW k \in AclIds, \A j \in queue' : j \in queue \/ j \in BanJobs(k)
          PROVE  \A j \in queue' : j.op = "ban" \/ j \in queue
      BY <2>1 DEF BanJobs
    <2>5. ASSUME NEW k \in AclIds, NEW ip \in Addresses, NEW eligible \in BOOLEAN,
                 Block(k, ip, eligible)
          PROVE  \A j \in queue' : j.op = "ban" \/ j \in queue
      BY <2>1, <2>5, BlockRow
    <2>6. ASSUME NEW k \in AclIds, NEW ip \in Addresses, NEW entry \in Entries,
                 Import(k, ip, entry)
          PROVE  \A j \in queue' : j.op = "ban" \/ j \in queue
      BY <2>1, <2>6, ImportRow
    <2>2. ASSUME NEW rows \in SUBSET AclIds, Reconcile(rows)
          PROVE  \A j \in queue' : j \in queue \/ j.acl # i
      <3>1. i \notin rows
        BY <1>1, <2>2 DEF Reconcile, Over, Ended
      <3> QED
        BY <2>2, <3>1, UnbanJobTypes DEF Reconcile
    <2>3. ASSUME NEW w \in Workers, LetsGo(w) \/ Save(w)
          PROVE  \A j \in queue' : j \in queue \/ (j = worker[w].job /\ Busy(w))
      BY <2>3, Lets
    <2>4. ASSUME queue' \subseteq queue
          PROVE  \A j \in queue' : j.acl = i => j.op = "ban"
      BY <1>2, <2>4
    <2> QED
      BY <1>2, <2>2, <2>3, <2>4, <2>5, <2>6, Steps, Calls
      DEF Expire, Trash, SetAction, Take, vars
  <1>4. ASSUME NEW w \in Workers, Busy(w)', worker'[w].job.acl = i
        PROVE  worker'[w].job.op = "ban"
    <2>1. ASSUME NEW v \in Workers, NEW job \in queue, Take(v, job)
          PROVE  worker'[w].job.op = "ban"
      <3>1. CASE HasWork(job)
        BY <1>2, <1>4, <2>1, <3>1, TakesJob DEF Busy
      <3>2. CASE ~HasWork(job)
        BY <1>2, <1>4, <2>1, <3>2 DEF Busy, Take
      <3> QED
        BY <3>1, <3>2
    <2>2. ASSUME NEW v \in Workers, CallSucceeds(v)
          PROVE  Busy(w) /\ worker'[w].job = worker[w].job
      BY <1>4, <2>2, Calls DEF Busy
    <2>3. ASSUME NEW v \in Workers, LetsGo(v) \/ Save(v)
          PROVE  Busy(w) /\ worker'[w].job = worker[w].job
      BY <1>4, <2>3, Lets DEF Busy
    <2>4. ASSUME worker' = worker
          PROVE  Busy(w) /\ worker'[w].job = worker[w].job
      BY <1>4, <2>4 DEF Busy
    <2> QED
      BY <1>2, <1>4, <2>1, <2>2, <2>3, <2>4, WorkerSteps
  <1> QED
    BY <1>3, <1>4

\* A rule leaves the edge only after the block it was made for has ended, however jobs
\* overlap, are retried, delivered again after a crash or save stale copies, and however
\* many rows the address has; the one exception is an address an import has touched. A
\* delete names the rule by its id, the id is that of the job's own row (Owned), and the
\* job is an unban job of a row that had ended (UnbanAfterEnd).
THEOREM RuleOutlivesBlockAlways == Spec => RuleOutlivesBlock
  <1>1. Types /\ Owned /\ UnbanAfterEnd /\ [Next]_vars =>
           [\A e \in edge \ edge' :
               acl[e.acl].expired \/ acl[e.acl].trashed \/ e.acl \in imported]_vars
    <2> SUFFICES ASSUME Types, Owned, UnbanAfterEnd, [Next]_vars, NEW e \in edge, e \notin edge'
                 PROVE  Over(e.acl)
      BY DEF Over
    <2>1. PICK w \in Workers : DeleteRule(w) \/ DeleteRuleLost(w)
      <3>1. \A w \in Workers : ~(CreateRule(w) \/ Report(w))
        BY DEF CreateRule, Report
      <3>2. \A w \in Workers : LetsGo(w) => DeleteRuleLost(w)
        BY DEF LetsGo, CreateRuleLost, ReportLost, CallFails, Crash
      <3> QED
        BY <3>1, <3>2, WorkerSteps DEF CallSucceeds, Take, Save
    <2>2. e \in Recorded(w) /\ worker[w].at = "loaded" /\ worker[w].job.op = "unban"
      BY <2>1 DEF DeleteRule, DeleteRuleLost, Is
    <2>3. Busy(w) /\ e.acl \in AclIds /\ Kin(worker[w].job.acl, e.acl)
      BY <2>2, Shape DEF Recorded, Owned, Types, TypeOK
    <2> QED
      BY <2>2, <2>3 DEF UnbanAfterEnd, Kin, Over
  <1>2. Spec => []UnbanAfterEnd
    BY TypesAlways, UnbanAfterEndInit, UnbanAfterEndStep, PTL DEF Spec
  <1> QED
    BY <1>1, <1>2, OwnedAlways, PTL DEF Spec, RuleOutlivesBlock

-----------------------------------------------------------------------------
(* One report per block.                                                   *)

\* What happens to the marks of a row that no fault touches: they stay, or a job that
\* loaded them as they are saves its own.
LEMMA Marked ==
    ASSUME Types, [Next]_vars, NEW i \in AclIds, i \notin suspect'
    PROVE  \/ acl'[i].meta = acl[i].meta /\ ~\E w \in Workers : Save(w) /\ worker[w].job.acl = i
           \/ \E w \in Workers : /\ Save(w) /\ worker[w].job.acl = i
                                 /\ acl[i].meta = worker[w].meta
                                 /\ acl'[i].meta = Saved(w)
  <1>1. ASSUME NEW w \in Workers, Save(w)
        PROVE  \/ worker[w].job.acl # i /\ acl'[i].meta = acl[i].meta
               \/ /\ worker[w].job.acl = i
                  /\ acl[i].meta = worker[w].meta
                  /\ acl'[i].meta = Saved(w)
    BY <1>1, SaveRow DEF Save
  <1>2. ASSUME NEW w \in Workers, NEW v \in Workers, Save(w), Save(v)
        PROVE  v = w
    BY <1>2, Lets DEF Busy
  <1>3. ASSUME \A w \in Workers : ~Save(w)
        PROVE  acl'[i].meta = acl[i].meta
    <2>1. ASSUME NEW k \in AclIds, NEW ip \in Addresses, NEW eligible \in BOOLEAN,
                 Block(k, ip, eligible)
          PROVE  acl'[i].meta = acl[i].meta
      BY <2>1, BlockRow
    <2>2. ASSUME NEW k \in AclIds, Expire(k) \/ Trash(k) \/ SetAction(k)
          PROVE  acl'[i].meta = acl[i].meta
      BY <2>2, EndRow
    <2>3. ASSUME NEW k \in AclIds, NEW ip \in Addresses, NEW entry \in Entries,
                 Import(k, ip, entry)
          PROVE  acl'[i].meta = acl[i].meta
      BY <2>3, ImportRow DEF Import, Fault
    <2> QED
      BY <1>3, <2>1, <2>2, <2>3, Steps, Calls, LetsGoRows DEF Reconcile, Take, vars
  <1> QED
    BY <1>1, <1>2, <1>3

\* A worker that lets go of a job without a fault has called nothing.
LEMMA LetsGoQuietly ==
    ASSUME Types, NEW w \in Workers, LetsGo(w), worker[w].job.acl \notin suspect'
    PROVE  worker[w].at = "loaded" /\ UNCHANGED <<acl, edge, nextRule, reports, suspect, imported>>
  BY DEF LetsGo, CreateRuleLost, DeleteRuleLost, ReportLost, CallFails, Crash, Fault

LEMMA CountedInit == Init => AllCounted
  BY DEF Init, AllCounted, Counted, Reporting, Busy

LEMMA CountedStep == Types /\ OneBan /\ AllCounted /\ [Next]_vars => AllCounted'
  <1> SUFFICES ASSUME Types, OneBan, AllCounted, [Next]_vars,
                      NEW i \in AclIds, i \notin suspect'
               PROVE  Counted(i)'
    BY DEF AllCounted
  <1>0. Counted(i)
    BY Suspicion DEF AllCounted
  <1>1. OneBanOf(i, "abuseipdb_report")
    BY DEF OneBan, OneBanOf, Reactions
  <1>2. ASSUME UNCHANGED <<worker, reports>>, acl'[i].meta = acl[i].meta
        PROVE  Counted(i)'
    BY <1>0, <1>2 DEF Counted, Reporting, Busy
  <1>3. ASSUME NEW w \in Workers, NEW job \in queue, Take(w, job)
        PROVE  Counted(i)'
    <2>1. acl' = acl /\ reports' = reports
      BY <1>3 DEF Take
    <2>2. CASE ~HasWork(job)
      BY <1>2, <1>3, <2>1, <2>2 DEF Take
    <2>3. CASE HasWork(job)
      <3>1. /\ ~Busy(w) /\ worker'[w].at = "loaded"
            /\ Reporting(w, i)' => IsBan(job, i, "abuseipdb_report")
            /\ \A v \in Workers \ {w} : worker'[v] = worker[v]
        BY <1>3, <2>3, TakesJob DEF Reporting, IsBan
      <3>2. \A v \in Workers \ {w} : Reporting(v, i)' <=> Reporting(v, i)
        BY <3>1 DEF Reporting, Busy
      <3>3. ASSUME IsBan(job, i, "abuseipdb_report")
            PROVE  reports[i] = 0
        <4>1. ~acl[i].meta.reported
          BY <2>3, <3>3 DEF HasWork, AppliesTo, IsBan
        <4>2. \A v \in Workers : ~Reporting(v, i)
          BY <1>1, <3>3 DEF OneBanOf, Reporting
        <4> QED
          BY <1>0, <4>1, <4>2 DEF Counted
      <3>4. ~Reporting(w, i)
        BY <3>1 DEF Reporting
      <3> QED
        BY <1>0, <2>1, <3>1, <3>2, <3>3, <3>4 DEF Counted
    <2> QED
      BY <2>2, <2>3
  <1>4. ASSUME NEW w \in Workers, CallSucceeds(w)
        PROVE  Counted(i)'
    <2>1. /\ acl' = acl /\ worker[w].at = "loaded"
          /\ Busy(w) /\ Busy(w)' /\ worker'[w].at = "called" /\ worker'[w].job = worker[w].job
          /\ \A v \in Workers \ {w} : worker'[v] = worker[v]
      BY <1>4, Calls
    <2>2. \A v \in Workers : Reporting(v, i)' <=> Reporting(v, i)
      BY <2>1 DEF Reporting, Busy, IsBan
    <2>3. CASE Reporting(w, i)
      <3>1. reports[i] = 0
        BY <1>0, <2>1, <2>3 DEF Counted
      <3>2. reports'[i] = reports[i] + 1
        BY <1>4, <2>1, <2>3, ReportTypes
        DEF CallSucceeds, CreateRule, DeleteRule, Report, Is, Reporting, IsBan
      <3>3. \A v \in Workers : Reporting(v, i) => v = w
        BY <1>1, <2>3 DEF OneBanOf, Reporting
      <3> QED
        BY <2>1, <2>2, <2>3, <3>1, <3>2, <3>3 DEF Counted
    <2>4. CASE ~Reporting(w, i)
      <3>1. reports'[i] = reports[i]
        <4>1. CASE Report(w)
          <5>1. worker[w].job.acl \in AclIds /\ worker[w].job.acl # i
            BY <2>1, <2>4, <4>1, Shape DEF Report, Is, Reporting, IsBan
          <5> QED
            BY <4>1, <5>1 DEF Report, Types, TypeOK
        <4>2. CASE ~Report(w)
          BY <1>4, <4>2 DEF CallSucceeds, CreateRule, DeleteRule
        <4> QED
          BY <4>1, <4>2
      <3> QED
        BY <1>0, <2>1, <2>2, <2>4, <3>1 DEF Counted
    <2> QED
      BY <2>3, <2>4
  <1>5. ASSUME NEW w \in Workers, LetsGo(w)
        PROVE  Counted(i)'
    <2>1. /\ Busy(w) /\ ~Busy(w)' /\ acl' = acl
          /\ \A v \in Workers \ {w} : worker'[v] = worker[v]
      BY <1>5, Lets, LetsGoRows
    <2>2. reports'[i] = reports[i] /\ (Reporting(w, i) => worker[w].at # "called")
      <3>1. CASE worker[w].job.acl = i
        BY <1>5, <3>1, LetsGoQuietly
      <3>2. CASE worker[w].job.acl # i
        <4>1. ~Reporting(w, i)
          BY <3>2 DEF Reporting, IsBan
        <4>2. worker[w].job.acl \in AclIds
          BY <2>1, Shape
        <4>3. reports' = reports \/ reports' = [reports EXCEPT ![worker[w].job.acl] = @ + 1]
          BY <1>5 DEF LetsGo, CreateRuleLost, DeleteRuleLost, ReportLost, CallFails, Crash
        <4> QED
          BY <3>2, <4>1, <4>2, <4>3 DEF Types, TypeOK
      <3> QED
        BY <3>1, <3>2
    <2>3. \A v \in Workers : Reporting(v, i)' => v # w /\ Reporting(v, i)
      BY <2>1 DEF Reporting, Busy
    <2>4. \A v \in Workers : v # w /\ Reporting(v, i) => Reporting(v, i)'
      BY <2>1 DEF Reporting, Busy
    <2> QED
      BY <1>0, <2>1, <2>2, <2>3, <2>4 DEF Counted
  <1>6. ASSUME NEW w \in Workers, Save(w)
        PROVE  Counted(i)'
    <2>1. /\ Busy(w) /\ ~Busy(w)' /\ reports' = reports /\ worker[w].at = "called"
          /\ \A v \in Workers \ {w} : worker'[v] = worker[v]
      BY <1>6, Lets DEF Save
    <2>2. \A v \in Workers : Reporting(v, i)' <=> v # w /\ Reporting(v, i)
      BY <2>1 DEF Reporting, Busy
    <2>3. CASE Reporting(w, i)
      <3>1. reports[i] = 1
        BY <1>0, <2>1, <2>3 DEF Counted
      <3>2. \A v \in Workers : ~Reporting(v, i)'
        BY <1>1, <2>2, <2>3 DEF OneBanOf, Reporting
      <3>3. acl'[i].meta.reported
        <4>1. worker[w].job.reaction = "abuseipdb_report" /\ worker[w].job.acl = i
              /\ worker[w].meta \in Marks
          BY <2>1, <2>3, Shape DEF Reporting, IsBan
        <4>2. acl'[i].meta = Saved(w)
          BY <1>6, <4>1, SaveRow
        <4> QED
          BY <4>1, <4>2 DEF Saved, Marks
      <3> QED
        BY <2>1, <3>1, <3>2, <3>3 DEF Counted
    <2>4. CASE ~Reporting(w, i)
      <3>1. acl[i].meta.reported => acl'[i].meta.reported
        <4>1. CASE worker[w].job.acl = i
          <5>1. acl[i].meta = worker[w].meta /\ acl'[i].meta = Saved(w)
                /\ worker[w].meta \in Marks
            BY <1>6, <2>1, <4>1, SaveRow, Shape DEF Save
          <5> QED
            BY <5>1 DEF Saved, Marks
        <4>2. CASE worker[w].job.acl # i
          BY <1>6, <4>2, SaveRow
        <4> QED
          BY <4>1, <4>2
      <3> QED
        BY <1>0, <2>1, <2>2, <2>4, <3>1 DEF Counted
    <2> QED
      BY <2>3, <2>4
  <1> QED
    BY <1>2, <1>3, <1>4, <1>5, <1>6, WorkerSteps, Marked

\* A block that no fault, import or overwritten mark has touched is reported at most once:
\* a second job of its row finds reported_at, and there is no second job before it is
\* written. Of an address with several blocks the theorem says this of each block.
THEOREM OneReportPerBlockAlways == Spec => []OneReportPerBlock
  <1>1. Spec => [](Types /\ OneBan)
    <2>1. Init => Types /\ OneBan
      BY TypesInit, OneBanInit
    <2>2. Types /\ OneBan /\ [Next]_vars => (Types /\ OneBan)'
      BY TypesStep, OneBanStep
    <2> QED
      BY <2>1, <2>2, PTL DEF Spec
  <1>2. Spec => []AllCounted
    BY <1>1, CountedInit, CountedStep, PTL DEF Spec
  <1>3. Types /\ AllCounted => OneReportPerBlock
    <2> SUFFICES ASSUME Types, AllCounted, NEW i \in AclIds, i \notin suspect
                 PROVE  reports[i] <= 1
      BY DEF OneReportPerBlock
    <2>1. Counted(i)
      BY DEF AllCounted
    <2>2. CASE \E w \in Workers : Reporting(w, i) /\ worker[w].at = "called"
      BY <2>1, <2>2 DEF Counted
    <2>3. CASE \A w \in Workers : ~Reporting(w, i) \/ worker[w].at # "called"
      BY <2>1, <2>3 DEF Counted
    <2> QED
      BY <2>2, <2>3
  <1> QED
    BY <1>1, <1>2, <1>3, PTL

-----------------------------------------------------------------------------
(* The marker tracks the edge.                                             *)

OnRow(w, i) == Busy(w) /\ worker[w].job.acl = i

\* A step that leaves a row's rule id, its rules and the jobs at its edge alone; a
\* worker that reports the row may move, with the marks it loaded.
LEMMA TrackedFrame ==
    ASSUME NEW i \in AclIds, Tracked(i),
           acl'[i].meta.rule_id = acl[i].meta.rule_id, RulesOf(i)' = RulesOf(i),
           \A w \in Workers : OnEdge(w, i)' => OnEdge(w, i) /\ worker'[w] = worker[w],
           \A w \in Workers : OnEdge(w, i) => OnEdge(w, i)',
           \A w \in Workers : OnRow(w, i)' => OnRow(w, i) /\ worker'[w].meta = worker[w].meta
    PROVE  Tracked(i)'
  <1>1. \A w \in Workers : Called(w, i)' <=> Called(w, i)
    BY DEF Called
  <1>2. \A w \in Workers : Called(w, i) => worker'[w] = worker[w]
    BY DEF Called
  <1>3. (\A w \in Workers : OnEdge(w, i) /\ worker[w].job.op = "ban" =>
            worker[w].meta.rule_id = NoRule /\ acl[i].meta.rule_id = NoRule)'
    BY DEF Tracked
  <1>4. (\A w \in Workers : OnEdge(w, i) /\ worker[w].job.op = "unban" =>
            worker[w].meta.rule_id # NoRule /\ worker[w].rule = NoRule)'
    BY DEF Tracked
  <1>5. ASSUME NEW w \in Workers, Called(w, i)'
        PROVE  (IF worker[w].job.op = "ban"
                 THEN /\ RulesOf(i) = {worker[w].rule} /\ worker[w].rule # NoRule
                      /\ \A v \in Workers : OnRow(v, i) =>
                            worker[v].meta.rule_id # worker[w].rule
                 ELSE RulesOf(i) = {} /\ acl[i].meta.rule_id = worker[w].meta.rule_id)'
    BY <1>1, <1>2, <1>5 DEF Tracked, OnRow
  <1>6. (\A w, v \in Workers : Called(w, i) /\ Called(v, i) => v = w)'
    BY <1>1 DEF Tracked
  <1>7. ((\A w \in Workers : ~Called(w, i)) => RulesOf(i) = {acl[i].meta.rule_id} \ {NoRule})'
    BY <1>1 DEF Tracked
  <1> QED
    BY <1>3, <1>4, <1>5, <1>6, <1>7 DEF Tracked, OnRow

\* Rows a step's worker is not on.
LEMMA ElsewhereFrame ==
    ASSUME Types, NEW i \in AclIds, NEW w \in Workers,
           ~OnRow(w, i), ~OnRow(w, i)',
           \A v \in Workers \ {w} : worker'[v] = worker[v]
    PROVE  /\ \A v \in Workers : OnEdge(v, i)' => OnEdge(v, i) /\ worker'[v] = worker[v]
           /\ \A v \in Workers : OnEdge(v, i) => OnEdge(v, i)'
           /\ \A v \in Workers : OnRow(v, i)' => OnRow(v, i) /\ worker'[v].meta = worker[v].meta
  <1>1. \A v \in Workers \ {w} : (OnEdge(v, i)' <=> OnEdge(v, i)) /\ (OnRow(v, i)' <=> OnRow(v, i))
    BY DEF OnEdge, OnRow, Busy
  <1>2. ~OnEdge(w, i) /\ ~OnEdge(w, i)'
    BY DEF OnEdge, OnRow
  <1> QED
    BY <1>1, <1>2

\* A job of one row makes or removes no rule of another that no import touched.
LEMMA OtherRules ==
    ASSUME Types, Owned, NEW i \in AclIds, NEW w \in Workers, i \notin imported,
           CallSucceeds(w) \/ LetsGo(w), worker[w].job.acl # i
    PROVE  RulesOf(i)' = RulesOf(i)
  <1>1. \A e : e.acl = i => (e \in edge' <=> e \in edge)
    <2>1. CASE CreateRule(w) \/ CreateRuleLost(w)
      <3>1. edge' = edge \cup {[rule |-> nextRule, acl |-> worker[w].job.acl]}
        BY <2>1 DEF CreateRule, CreateRuleLost
      <3> QED
        BY <3>1
    <2>2. CASE DeleteRule(w) \/ DeleteRuleLost(w)
      <3>1. edge' = edge \ Recorded(w) /\ Busy(w)
        BY <2>2, Shape DEF DeleteRule, DeleteRuleLost, Is
      <3>2. \A e \in Recorded(w) : e.acl # i
        BY <3>1 DEF Recorded, Owned, Kin
      <3> QED
        BY <3>1, <3>2
    <2>3. CASE ~(CreateRule(w) \/ CreateRuleLost(w) \/ DeleteRule(w) \/ DeleteRuleLost(w))
      BY <2>3 DEF CallSucceeds, LetsGo, Report, ReportLost, CallFails, Crash
    <2> QED
      BY <2>1, <2>2, <2>3
  <1>2. {f \in edge : f.acl = i}' = {f \in edge : f.acl = i}
    BY <1>1
  <1> QED
    BY <1>2 DEF RulesOf

LEMMA TrackedInit == Init => AllTracked
  <1> SUFFICES ASSUME Init, NEW i \in AclIds PROVE Tracked(i)
    BY DEF AllTracked
  <1>1. \A w \in Workers : ~Busy(w)
    BY DEF Init, Busy
  <1>2. RulesOf(i) = {}
    BY DEF Init, RulesOf
  <1>3. acl[i].meta.rule_id = NoRule
    BY DEF Init, NoMarks
  <1> QED
    BY <1>1, <1>2, <1>3 DEF Tracked, OnEdge, Called

\* CloudflareReaction::ban has looked at the rule id before it creates a rule, and no
\* other job of the row is between its call and its save then.
LEMMA TracksCreate ==
    ASSUME Types, OneBan, RulesKnown, NEW w \in Workers, NEW i \in AclIds,
           CreateRule(w), worker[w].job.acl = i, Tracked(i)
    PROVE  Tracked(i)'
  <1>1. /\ acl' = acl /\ worker[w].at = "loaded"
        /\ Busy(w) /\ Busy(w)' /\ worker'[w].at = "called" /\ worker'[w].job = worker[w].job
        /\ worker'[w].meta = worker[w].meta /\ worker'[w].rule = nextRule /\ nextRule \in Rules
        /\ \A v \in Workers \ {w} : worker'[v] = worker[v]
    BY Calls DEF CallSucceeds
  <1>2. worker[w].job.reaction = "cloudflare" /\ worker[w].job.op = "ban"
    BY DEF CreateRule, Is
  <1>3. OnEdge(w, i) /\ OnEdge(w, i)'
    BY <1>1, <1>2 DEF OnEdge
  <1>4. worker[w].meta.rule_id = NoRule /\ acl[i].meta.rule_id = NoRule
    BY <1>2, <1>3 DEF Tracked
  <1>5. \A v \in Workers : ~Called(v, i)
    <2> SUFFICES ASSUME NEW v \in Workers, Called(v, i) PROVE FALSE
      OBVIOUS
    <2>1. worker[v].job.op \in {"ban", "unban"} /\ Busy(v)
      BY Shape DEF Called, OnEdge, Job
    <2>2. CASE worker[v].job.op = "ban"
      BY <1>1, <1>2, <2>1, <2>2 DEF OneBan, Reactions, IsBan, Called, OnEdge
    <2>3. CASE worker[v].job.op = "unban"
      <3>1. worker[v].meta.rule_id # NoRule /\ acl[i].meta.rule_id = worker[v].meta.rule_id
        BY <2>3 DEF Tracked, Called
      <3> QED
        BY <1>4, <3>1
    <2> QED
      BY <2>1, <2>2, <2>3
  <1>6. RulesOf(i) = {}
    BY <1>4, <1>5 DEF Tracked
  <1>7. RulesOf(i)' = {nextRule}
    <2>1. edge' = edge \cup {[rule |-> nextRule, acl |-> i]}
      BY DEF CreateRule
    <2>2. \A e \in edge : e.acl # i
      BY <1>6 DEF RulesOf
    <2>3. {f \in edge : f.acl = i}' = {[rule |-> nextRule, acl |-> i]}
      BY <2>1, <2>2
    <2>4. \A S, r : S = {[rule |-> r, acl |-> i]} => {e.rule : e \in S} = {r}
      <3> SUFFICES ASSUME NEW r
                   PROVE  {e.rule : e \in {[rule |-> r, acl |-> i]}} = {r}
        OBVIOUS
      <3>1. \A y : y \in {e.rule : e \in {[rule |-> r, acl |-> i]}} <=> y = r
        OBVIOUS
      <3> QED
        BY <3>1
    <2>5. RulesOf(i)' = {e.rule : e \in {f \in edge : f.acl = i}'}
      BY DEF RulesOf
    <2> QED
      BY <2>3, <2>4, <2>5
  <1>8. nextRule # NoRule
    BY <1>1, Shape
  <1>9. \A v \in Workers : OnRow(v, i)' => OnRow(v, i) /\ worker'[v].meta = worker[v].meta
    BY <1>1 DEF OnRow, Busy
  <1>10. \A v \in Workers : OnRow(v, i)' => worker'[v].meta.rule_id # nextRule
    <2>1. \A v \in Workers : Busy(v) =>
             worker[v].meta.rule_id \in Nat /\ worker[v].meta.rule_id < nextRule
      BY Shape DEF RulesKnown, NoRule
    <2> QED
      BY <1>9, <2>1, Shape DEF OnRow
  <1>11. \A v \in Workers \ {w} : (OnEdge(v, i)' <=> OnEdge(v, i)) /\ ~Called(v, i)'
    BY <1>1, <1>5 DEF Called, OnEdge, Busy
  <1>12. Called(w, i)'
    BY <1>1, <1>3 DEF Called
  <1>13. (\A v \in Workers : OnEdge(v, i) /\ worker[v].job.op = "ban" =>
            worker[v].meta.rule_id = NoRule /\ acl[i].meta.rule_id = NoRule)'
    BY <1>1, <1>4, <1>11 DEF Tracked
  <1>14. (\A v \in Workers : OnEdge(v, i) /\ worker[v].job.op = "unban" =>
            worker[v].meta.rule_id # NoRule /\ worker[v].rule = NoRule)'
    BY <1>1, <1>2, <1>11 DEF Tracked
  <1>15. /\ RulesOf(i)' = {worker'[w].rule} /\ worker'[w].rule # NoRule
         /\ worker'[w].job.op = "ban"
         /\ \A v \in Workers : OnRow(v, i)' => worker'[v].meta.rule_id # worker'[w].rule
    BY <1>1, <1>2, <1>7, <1>8, <1>10
  <1> QED
    BY <1>11, <1>12, <1>13, <1>14, <1>15 DEF Tracked, OnRow

\* A rule that a job can remove is the one the row records, so no other job of the row
\* is between its call and its save.
LEMMA TracksDelete ==
    ASSUME Types, Owned, NEW w \in Workers, NEW i \in AclIds, i \notin imported,
           DeleteRule(w), worker[w].job.acl = i, Tracked(i)
    PROVE  Tracked(i)'
  <1>1. /\ acl' = acl /\ worker[w].at = "loaded"
        /\ Busy(w) /\ Busy(w)' /\ worker'[w].at = "called" /\ worker'[w].job = worker[w].job
        /\ worker'[w].meta = worker[w].meta /\ worker'[w].rule = worker[w].rule
        /\ \A v \in Workers \ {w} : worker'[v] = worker[v]
    BY Calls DEF CallSucceeds, DeleteRule, CreateRule, Is
  <1>2. worker[w].job.reaction = "cloudflare" /\ worker[w].job.op = "unban"
    BY DEF DeleteRule, Is
  <1>3. OnEdge(w, i) /\ OnEdge(w, i)' /\ OnRow(w, i)
    BY <1>1, <1>2 DEF OnEdge, OnRow
  <1>4. worker[w].meta.rule_id \in RulesOf(i)
    BY <1>1 DEF DeleteRule, Recorded, RulesOf, Owned, Kin
  <1>5. \A v \in Workers : ~Called(v, i)
    BY <1>3, <1>4 DEF Tracked, OnRow
  <1>6. RulesOf(i) = {acl[i].meta.rule_id} /\ worker[w].meta.rule_id = acl[i].meta.rule_id
    BY <1>4, <1>5 DEF Tracked
  <1>7. RulesOf(i)' = {}
    <2>1. edge' = edge \ Recorded(w)
      BY DEF DeleteRule
    <2>2. \A e \in edge : e.acl = i => e \in Recorded(w)
      BY <1>6 DEF RulesOf, Recorded
    <2> QED
      BY <2>1, <2>2 DEF RulesOf
  <1>8. \A v \in Workers : OnEdge(v, i)' => OnEdge(v, i) /\ worker'[v].job = worker[v].job
                                /\ worker'[v].meta = worker[v].meta
                                /\ worker'[v].rule = worker[v].rule
    BY <1>1, <1>3 DEF OnEdge, Busy
  <1>9. \A v \in Workers : Called(v, i)' => v = w
    BY <1>1, <1>5 DEF Called, OnEdge, Busy
  <1>10. Called(w, i)'
    BY <1>1, <1>3 DEF Called
  <1>11. (\A v \in Workers : OnEdge(v, i) /\ worker[v].job.op = "ban" =>
            worker[v].meta.rule_id = NoRule /\ acl[i].meta.rule_id = NoRule)'
    BY <1>1, <1>8 DEF Tracked
  <1>12. (\A v \in Workers : OnEdge(v, i) /\ worker[v].job.op = "unban" =>
            worker[v].meta.rule_id # NoRule /\ worker[v].rule = NoRule)'
    BY <1>8 DEF Tracked
  <1>13. /\ worker'[w].job.op # "ban"
         /\ acl'[i].meta.rule_id = worker'[w].meta.rule_id
    BY <1>1, <1>2, <1>6
  <1> QED
    BY <1>7, <1>9, <1>10, <1>11, <1>12, <1>13 DEF Tracked

\* Saving ends the job; the row had the marks the job loaded.
LEMMA TracksSave ==
    ASSUME Types, OneBan, NEW w \in Workers, NEW i \in AclIds, Save(w),
           worker[w].job.acl = i, acl[i].meta = worker[w].meta, Tracked(i)
    PROVE  Tracked(i)'
  <1>1. /\ Busy(w) /\ ~Busy(w)' /\ worker[w].at = "called" /\ edge' = edge
        /\ \A v \in Workers \ {w} : worker'[v] = worker[v]
    BY Lets DEF Save
  <1>2. /\ acl'[i].meta = Saved(w) /\ worker[w].meta \in Marks
        /\ worker[w].job \in Job
    BY <1>1, SaveRow, Shape
  <1>3. RulesOf(i)' = RulesOf(i)
    BY <1>1 DEF RulesOf
  <1>4. \A v \in Workers : OnEdge(v, i)' <=> v # w /\ OnEdge(v, i)
    BY <1>1 DEF OnEdge, Busy
  <1>5. \A v \in Workers : OnRow(v, i)' => v # w /\ OnRow(v, i)
    BY <1>1 DEF OnRow, Busy
  <1>6. CASE worker[w].job.reaction = "abuseipdb_report"
    <2>1. acl'[i].meta.rule_id = acl[i].meta.rule_id
      BY <1>2, <1>6 DEF Saved, Marks
    <2>2. ~OnEdge(w, i)
      BY <1>6 DEF OnEdge
    <2> QED
      BY <1>1, <1>3, <1>4, <1>5, <2>1, <2>2, TrackedFrame
  <1>7. CASE worker[w].job.reaction = "cloudflare"
    <2>1. acl'[i].meta.rule_id = worker[w].rule
      BY <1>2, <1>7 DEF Saved, Marks
    <2>2. OnEdge(w, i) /\ Called(w, i)
      BY <1>1, <1>7 DEF OnEdge, Called
    <2>3. \A v \in Workers : Called(v, i) => v = w
      BY <2>2 DEF Tracked
    <2>4. \A v \in Workers : ~Called(v, i)'
      BY <1>1, <1>4, <2>3 DEF Called
    <2>5. \A v \in Workers : OnEdge(v, i)' => worker'[v] = worker[v]
      BY <1>1, <1>4
    <2>6. CASE worker[w].job.op = "ban"
      <3>1. RulesOf(i) = {worker[w].rule} /\ worker[w].rule # NoRule
        BY <2>2, <2>6 DEF Tracked
      <3>2. \A v \in Workers : OnEdge(v, i) /\ worker[v].job.op = "ban" => v = w
        BY <1>1, <1>7, <2>6 DEF OneBan, Reactions, IsBan, OnEdge
      <3>3. \A v \in Workers : OnEdge(v, i)' => worker'[v].job.op # "ban"
        BY <1>4, <2>5, <3>2
      <3>4. (\A v \in Workers : OnEdge(v, i) /\ worker[v].job.op = "unban" =>
                worker[v].meta.rule_id # NoRule /\ worker[v].rule = NoRule)'
        BY <1>4, <2>5 DEF Tracked
      <3> QED
        BY <1>3, <2>1, <2>4, <3>1, <3>3, <3>4 DEF Tracked
    <2>7. CASE worker[w].job.op = "unban"
      <3>1. /\ RulesOf(i) = {} /\ worker[w].meta.rule_id # NoRule
            /\ worker[w].rule = NoRule
        BY <2>2, <2>7 DEF Tracked
      <3>2. \A v \in Workers : OnEdge(v, i)' => worker'[v].job.op # "ban"
        BY <1>4, <2>5, <3>1 DEF Tracked
      <3>3. (\A v \in Workers : OnEdge(v, i) /\ worker[v].job.op = "unban" =>
                worker[v].meta.rule_id # NoRule /\ worker[v].rule = NoRule)'
        BY <1>4, <2>5 DEF Tracked
      <3> QED
        BY <1>3, <2>1, <2>4, <3>1, <3>2, <3>3 DEF Tracked
    <2> QED
      BY <1>2, <2>6, <2>7 DEF Job
  <1> QED
    BY <1>2, <1>6, <1>7 DEF Job

\* A job is taken with the marks the row has now.
LEMMA TracksTake ==
    ASSUME Types, NEW w \in Workers, NEW job \in queue, NEW i \in AclIds, Take(w, job),
           HasWork(job), job.acl = i, Tracked(i)
    PROVE  Tracked(i)'
  <1>1. /\ ~Busy(w) /\ Busy(w)' /\ worker'[w].at = "loaded" /\ worker'[w].rule = NoRule
        /\ worker'[w].job.acl = i /\ worker'[w].job.reaction = job.reaction
        /\ worker'[w].job.op = job.op /\ worker'[w].meta = acl[i].meta
        /\ \A v \in Workers \ {w} : worker'[v] = worker[v]
    BY TakesJob
  <1>2. acl' = acl /\ edge' = edge /\ RulesOf(i)' = RulesOf(i) /\ job.op \in {"ban", "unban"}
    BY Shape DEF Take, RulesOf, Job
  <1>3. \A v \in Workers : v # w => (OnEdge(v, i)' <=> OnEdge(v, i))
    BY <1>1 DEF OnEdge, Busy
  <1>4. \A v \in Workers : /\ Called(v, i)' <=> Called(v, i)
                           /\ Called(v, i) => v # w
    BY <1>1, <1>3 DEF Called, OnEdge
  <1>5. OnEdge(w, i)' /\ job.op = "ban" => acl[i].meta.rule_id = NoRule
    BY <1>1 DEF OnEdge, HasWork
  <1>6. job.op = "unban" => acl[i].meta.rule_id # NoRule
    BY DEF HasWork
  <1>7. (\A v \in Workers : OnEdge(v, i) /\ worker[v].job.op = "ban" =>
            worker[v].meta.rule_id = NoRule /\ acl[i].meta.rule_id = NoRule)'
    BY <1>1, <1>2, <1>3, <1>5 DEF Tracked
  <1>8. (\A v \in Workers : OnEdge(v, i) /\ worker[v].job.op = "unban" =>
            worker[v].meta.rule_id # NoRule /\ worker[v].rule = NoRule)'
    BY <1>1, <1>2, <1>3, <1>6 DEF Tracked
  <1>9. (\A v, u \in Workers : Called(v, i) /\ Called(u, i) => u = v)'
    BY <1>4 DEF Tracked
  <1>10. ((\A v \in Workers : ~Called(v, i)) => RulesOf(i) = {acl[i].meta.rule_id} \ {NoRule})'
    BY <1>2, <1>4 DEF Tracked
  <1>11. ASSUME NEW v \in Workers, Called(v, i)'
         PROVE  (IF worker[v].job.op = "ban"
                  THEN /\ RulesOf(i) = {worker[v].rule} /\ worker[v].rule # NoRule
                       /\ \A u \in Workers : OnRow(u, i) =>
                             worker[u].meta.rule_id # worker[v].rule
                  ELSE RulesOf(i) = {} /\ acl[i].meta.rule_id = worker[v].meta.rule_id)'
    <2>1. Called(v, i) /\ v # w /\ worker'[v] = worker[v]
      BY <1>1, <1>4, <1>11
    <2>2. CASE worker[v].job.op # "ban"
      BY <1>2, <2>1, <2>2 DEF Tracked
    <2>3. CASE worker[v].job.op = "ban"
      <3>1. /\ RulesOf(i) = {worker[v].rule} /\ worker[v].rule # NoRule
            /\ \A u \in Workers : OnRow(u, i) => worker[u].meta.rule_id # worker[v].rule
            /\ acl[i].meta.rule_id = NoRule
        BY <2>1, <2>3 DEF Tracked, Called, OnRow
      <3>2. \A u \in Workers : OnRow(u, i)' =>
               worker'[u].meta.rule_id = NoRule \/ (OnRow(u, i) /\ worker'[u] = worker[u])
        BY <1>1, <3>1 DEF OnRow, Busy
      <3> QED
        BY <1>2, <2>1, <2>3, <3>1, <3>2
    <2> QED
      BY <2>2, <2>3
  <1> QED
    BY <1>7, <1>8, <1>9, <1>10, <1>11 DEF Tracked, OnRow

\* A job that is let go before its call.
LEMMA TracksLetGo ==
    ASSUME Types, NEW w \in Workers, NEW i \in AclIds, LetsGo(w),
           worker[w].job.acl = i, i \notin suspect', Tracked(i)
    PROVE  Tracked(i)'
  <1>1. /\ Busy(w) /\ ~Busy(w)' /\ worker[w].at = "loaded" /\ acl' = acl /\ edge' = edge
        /\ \A v \in Workers \ {w} : worker'[v] = worker[v]
    BY Lets, LetsGoQuietly
  <1>2. RulesOf(i)' = RulesOf(i)
    BY <1>1 DEF RulesOf
  <1>3. \A v \in Workers : OnEdge(v, i)' => v # w /\ OnEdge(v, i) /\ worker'[v] = worker[v]
    BY <1>1 DEF OnEdge, Busy
  <1>4. \A v \in Workers : /\ Called(v, i)' <=> Called(v, i)
                           /\ Called(v, i) => worker'[v] = worker[v]
    BY <1>1 DEF Called, OnEdge, Busy
  <1>5. \A v \in Workers : OnRow(v, i)' => OnRow(v, i) /\ worker'[v] = worker[v]
    BY <1>1 DEF OnRow, Busy
  <1>6. (\A v \in Workers : OnEdge(v, i) /\ worker[v].job.op = "ban" =>
            worker[v].meta.rule_id = NoRule /\ acl[i].meta.rule_id = NoRule)'
    BY <1>1, <1>3 DEF Tracked
  <1>7. (\A v \in Workers : OnEdge(v, i) /\ worker[v].job.op = "unban" =>
            worker[v].meta.rule_id # NoRule /\ worker[v].rule = NoRule)'
    BY <1>3 DEF Tracked
  <1>8. (\A v, u \in Workers : Called(v, i) /\ Called(u, i) => u = v)'
    BY <1>4 DEF Tracked
  <1>9. ((\A v \in Workers : ~Called(v, i)) => RulesOf(i) = {acl[i].meta.rule_id} \ {NoRule})'
    BY <1>1, <1>2, <1>4 DEF Tracked
  <1>10. ASSUME NEW v \in Workers, Called(v, i)'
         PROVE  (IF worker[v].job.op = "ban"
                  THEN /\ RulesOf(i) = {worker[v].rule} /\ worker[v].rule # NoRule
                       /\ \A u \in Workers : OnRow(u, i) =>
                             worker[u].meta.rule_id # worker[v].rule
                  ELSE RulesOf(i) = {} /\ acl[i].meta.rule_id = worker[v].meta.rule_id)'
    BY <1>1, <1>2, <1>4, <1>5, <1>10 DEF Tracked, OnRow
  <1> QED
    BY <1>6, <1>7, <1>8, <1>9, <1>10 DEF Tracked, OnRow

LEMMA TrackedStep ==
    Types /\ OneBan /\ RulesKnown /\ Owned /\ AllTracked /\ [Next]_vars => AllTracked'
  <1> SUFFICES ASSUME Types, OneBan, RulesKnown, Owned, AllTracked, [Next]_vars,
                      NEW i \in AclIds, i \notin suspect'
               PROVE  Tracked(i)'
    BY DEF AllTracked
  <1>0. Tracked(i) /\ i \notin imported
    BY Suspicion DEF AllTracked, Owned
  <1>1. ASSUME UNCHANGED <<worker, edge>>, acl'[i].meta = acl[i].meta
        PROVE  Tracked(i)'
    <2>1. RulesOf(i)' = RulesOf(i)
      BY <1>1 DEF RulesOf
    <2>2. \A w \in Workers : (OnEdge(w, i)' <=> OnEdge(w, i)) /\ (OnRow(w, i)' <=> OnRow(w, i))
      BY <1>1 DEF OnEdge, OnRow, Busy
    <2> QED
      BY <1>0, <1>1, <2>1, <2>2, TrackedFrame
  <1>2. ASSUME NEW w \in Workers, NEW job \in queue, Take(w, job)
        PROVE  Tracked(i)'
    <2>1. CASE ~HasWork(job)
      BY <1>1, <1>2, <2>1 DEF Take
    <2>2. CASE HasWork(job) /\ job.acl = i
      BY <1>0, <1>2, <2>2, TracksTake
    <2>3. CASE HasWork(job) /\ job.acl # i
      <3>1. acl' = acl /\ RulesOf(i)' = RulesOf(i)
        BY <1>2 DEF Take, RulesOf
      <3>2. /\ ~OnRow(w, i) /\ ~OnRow(w, i)'
            /\ \A v \in Workers \ {w} : worker'[v] = worker[v]
        BY <1>2, <2>3, TakesJob DEF OnRow
      <3> QED
        BY <1>0, <3>1, <3>2, ElsewhereFrame, TrackedFrame
    <2> QED
      BY <2>1, <2>2, <2>3
  <1>3. ASSUME NEW w \in Workers, CallSucceeds(w)
        PROVE  Tracked(i)'
    <2>1. /\ acl' = acl /\ Busy(w) /\ worker'[w].job = worker[w].job
          /\ worker'[w].meta = worker[w].meta
          /\ \A v \in Workers \ {w} : worker'[v] = worker[v]
      BY <1>3, Calls
    <2>2. CASE worker[w].job.acl # i
      <3>1. ~OnRow(w, i) /\ ~OnRow(w, i)'
        BY <2>1, <2>2 DEF OnRow
      <3>2. RulesOf(i)' = RulesOf(i)
        BY <1>0, <1>3, <2>2, OtherRules
      <3> QED
        BY <1>0, <2>1, <3>1, <3>2, ElsewhereFrame, TrackedFrame
    <2>3. CASE worker[w].job.acl = i /\ CreateRule(w)
      BY <1>0, <2>3, TracksCreate
    <2>4. CASE worker[w].job.acl = i /\ DeleteRule(w)
      BY <1>0, <2>4, TracksDelete
    <2>5. CASE worker[w].job.acl = i /\ Report(w)
      <3>1. RulesOf(i)' = RulesOf(i)
        BY <2>5 DEF Report, RulesOf
      <3>2. ~OnEdge(w, i) /\ ~OnEdge(w, i)'
        BY <2>1, <2>5 DEF OnEdge, Report, Is
      <3>3. \A v \in Workers \ {w} :
               (OnEdge(v, i)' <=> OnEdge(v, i)) /\ (OnRow(v, i)' <=> OnRow(v, i))
        BY <2>1 DEF OnEdge, OnRow, Busy
      <3>4. OnRow(w, i)
        BY <2>1, <2>5 DEF OnRow
      <3>5. /\ \A v \in Workers : OnEdge(v, i)' => OnEdge(v, i) /\ worker'[v] = worker[v]
            /\ \A v \in Workers : OnEdge(v, i) => OnEdge(v, i)'
            /\ \A v \in Workers : OnRow(v, i)' => OnRow(v, i) /\ worker'[v].meta = worker[v].meta
        BY <2>1, <3>2, <3>3, <3>4
      <3> QED
        BY <1>0, <2>1, <3>1, <3>5, TrackedFrame
    <2> QED
      BY <1>3, <2>2, <2>3, <2>4, <2>5 DEF CallSucceeds
  <1>4. ASSUME NEW w \in Workers, LetsGo(w)
        PROVE  Tracked(i)'
    <2>1. CASE worker[w].job.acl = i
      BY <1>0, <1>4, <2>1, TracksLetGo
    <2>2. CASE worker[w].job.acl # i
      <3>1. /\ acl' = acl /\ ~Busy(w)'
            /\ \A v \in Workers \ {w} : worker'[v] = worker[v]
        BY <1>4, Lets, LetsGoRows
      <3>2. ~OnRow(w, i) /\ ~OnRow(w, i)'
        BY <2>2, <3>1 DEF OnRow
      <3>3. RulesOf(i)' = RulesOf(i)
        BY <1>0, <1>4, <2>2, OtherRules
      <3> QED
        BY <1>0, <3>1, <3>2, <3>3, ElsewhereFrame, TrackedFrame
    <2> QED
      BY <2>1, <2>2
  <1>5. ASSUME NEW w \in Workers, Save(w)
        PROVE  Tracked(i)'
    <2>1. CASE worker[w].job.acl = i
      <3>1. acl[i].meta = worker[w].meta
        BY <1>5, <2>1 DEF Save
      <3> QED
        BY <1>0, <1>5, <2>1, <3>1, TracksSave
    <2>2. CASE worker[w].job.acl # i
      <3>1. /\ acl'[i].meta = acl[i].meta /\ ~Busy(w)' /\ edge' = edge
            /\ \A v \in Workers \ {w} : worker'[v] = worker[v]
        BY <1>5, <2>2, SaveRow, Lets DEF Save
      <3>2. ~OnRow(w, i) /\ ~OnRow(w, i)' /\ RulesOf(i)' = RulesOf(i)
        BY <2>2, <3>1 DEF OnRow, RulesOf
      <3> QED
        BY <1>0, <3>1, <3>2, ElsewhereFrame, TrackedFrame
    <2> QED
      BY <2>1, <2>2
  <1> QED
    BY <1>1, <1>2, <1>3, <1>4, <1>5, WorkerSteps, Marked

\* The rule id a row carries and the rules in force for it agree whenever no job of the
\* row is between its call and its save, unless a fault, an import or an overwritten
\* mark has touched the row.
THEOREM MarkerTracksEdgeAlways == Spec => []MarkerTracksEdge
  <1>1. Spec => []AllTracked
    BY OwnedAlways, TrackedInit, TrackedStep, PTL DEF Spec
  <1>2. Types /\ AllTracked => MarkerTracksEdge
    <2> SUFFICES ASSUME Types, AllTracked, NEW i \in AclIds, i \notin suspect,
                        ~BetweenCallAndSave(i)
                 PROVE  RulesOf(i) = {acl[i].meta.rule_id} \ {NoRule}
      BY DEF MarkerTracksEdge
    <2>1. \A w \in Workers : ~Called(w, i)
      BY DEF BetweenCallAndSave, Called, OnEdge
    <2> QED
      BY <2>1 DEF AllTracked, Tracked
  <1> QED
    BY <1>1, <1>2, TypesAlways, PTL
=============================================================================
