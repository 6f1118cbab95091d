---------------------------- MODULE AclReactions ----------------------------
(***************************************************************************)
(* The reaction layer: a self-detected block in ls_acl is pushed to the    *)
(* Cloudflare edge and reported to AbuseIPDB by queued jobs, and           *)
(* shield:reactions-reconcile takes the edge rule down again when the      *)
(* block ends.                                                             *)
(*                                                                         *)
(* What the reactions have done to a row is kept in its meta column:       *)
(* reactions.cloudflare.rule_id and reactions.abuseipdb.reported_at.  A    *)
(* job loads the row, calls the remote API and writes the whole column     *)
(* back from the copy it loaded, so two jobs of one row can undo each      *)
(* other's marks.  Jobs run on any worker, in any order, are retried after *)
(* an exception and are delivered again after a worker dies.               *)
(*                                                                         *)
(* An address may have several rows at once: ls_acl has no unique index,   *)
(* shield:acl --ban always creates a row, and an address is blocked again  *)
(* when its block has expired.  The marks are those of the row.            *)
(*                                                                         *)
(* The configuration does not change while the system runs, and a row is   *)
(* reported within max_age_days of its creation.                           *)
(***************************************************************************)
EXTENDS Integers, FiniteSets

CONSTANTS
    AclIds,      \* rows of ls_acl
    Addresses,   \* what the rows are about: their kind and value
    Entries,     \* what a file of shield:export may say of an address
    Workers,     \* queue workers
    Enabled,     \* the reactions that are configured
    Tries,       \* RunAclReactionJob::$tries
    Batch,       \* shield.reactions.reconcile_batch
    MaxRules,    \* bound on the rules Cloudflare ever creates
    MaxUnbans,   \* bound on the unban jobs of one row waiting at once
    MaxFaults    \* bound on crashes, lost responses and imports

ASSUME ParametersAssumption ==
    /\ Enabled \subseteq {"cloudflare", "abuseipdb_report"}
    /\ Tries \in Nat \ {0}
    /\ Batch \in Nat \ {0}
    /\ MaxRules \in Nat
    /\ MaxUnbans \in Nat \ {0}
    /\ MaxFaults \in Nat

VARIABLES
    acl,         \* acl[i]: the row, its reaction marks included
    queue,       \* jobs waiting for a worker
    worker,      \* worker[w]: the job in hand and the copy of the marks it loaded
    edge,        \* rules in force at Cloudflare
    nextRule,    \* the next id Cloudflare will hand out
    reports,     \* reports[i]: reports of row i that AbuseIPDB took or refused for good
    faults,      \* crashes, lost responses and imports so far
    suspect,     \* rows hit by a fault or an import, or whose marks a stale copy overwrote
    imported     \* rows whose address was in a file that shield:import read

vars == <<acl, queue, worker, edge, nextRule, reports, faults, suspect, imported>>

Rules == 1..MaxRules
NoRule == 0

Marks == [rule_id : Rules \cup {NoRule}, reported : BOOLEAN]
NoMarks == [rule_id |-> NoRule, reported |-> FALSE]

NoAddress == "none"

\* eligible: an IP row with a public address and a self-detected source.
AclRow == [exists : BOOLEAN, value : Addresses \cup {NoAddress}, eligible : BOOLEAN,
           action : {"block", "other"}, expired : BOOLEAN, trashed : BOOLEAN, meta : Marks]

ASSUME EntriesAssumption ==
    Entries \subseteq [action : {"block", "other"}, expired : BOOLEAN,
                      eligible : BOOLEAN, meta : Marks]

\* n tells the unban jobs of one row apart; a row has one ban job per reaction.
Job == [reaction : {"cloudflare", "abuseipdb_report"}, acl : AclIds, op : {"ban", "unban"},
        n : 0..MaxUnbans, tries : 0..Tries]

Free == [at |-> "free"]
InHand == [at : {"loaded", "called"}, job : Job, meta : Marks, rule : Rules \cup {NoRule}]

TypeOK ==
    /\ acl \in [AclIds -> AclRow]
    /\ queue \subseteq Job
    /\ worker \in [Workers -> {Free} \cup InHand]
    /\ edge \subseteq [rule : Rules, acl : AclIds]    \* acl: the row it was made for
    /\ nextRule \in 1..(MaxRules + 1)
    /\ reports \in [AclIds -> Nat]
    /\ faults \in 0..MaxFaults
    /\ suspect \subseteq AclIds
    /\ imported \subseteq AclIds

Init ==
    /\ acl = [i \in AclIds |-> [exists |-> FALSE, value |-> NoAddress, eligible |-> FALSE,
                                action |-> "block", expired |-> FALSE, trashed |-> FALSE,
                                meta |-> NoMarks]]
    /\ queue = {}
    /\ worker = [w \in Workers |-> Free]
    /\ edge = {}
    /\ nextRule = 1
    /\ reports = [i \in AclIds |-> 0]
    /\ faults = 0
    /\ suspect = {}
    /\ imported = {}

-----------------------------------------------------------------------------
(* The life of a row.                                                      *)

\* Mutant: reported_at is not looked at.
AppliesAgain(reaction, row) == row.eligible /\ row.action = "block"

\* sourceAllowed and appliesTo, on a row as loaded.
AppliesTo(reaction, row) ==
    /\ row.eligible
    /\ row.action = "block"
    /\ reaction = "abuseipdb_report" => ~row.meta.reported

\* A row is inserted, then AclObserver::created -> ReactionManager::onBlock.
Created(i, row) ==
    /\ ~acl[i].exists
    /\ acl' = [acl EXCEPT ![i] = row]
    /\ queue' = queue \cup
         {[reaction |-> r, acl |-> i, op |-> "ban", n |-> 0, tries |-> 0] :
             r \in {e \in Enabled : AppliesTo(e, row)}}

\* Acl::create of a block, whatever rows the address has already.
Block(i, ip, eligible) ==
    /\ Created(i, [acl[i] EXCEPT !.exists = TRUE, !.value = ip, !.eligible = eligible])
    /\ UNCHANGED <<worker, edge, nextRule, reports, faults, suspect, imported>>

\* expires_at passes.
Expire(i) ==
    /\ acl[i].exists /\ ~acl[i].expired
    /\ acl' = [acl EXCEPT ![i].expired = TRUE]
    /\ UNCHANGED <<queue, worker, edge, nextRule, reports, faults, suspect, imported>>

\* Soft delete: AclController::postAction delete, shield:acl --unban.
Trash(i) ==
    /\ acl[i].exists /\ ~acl[i].trashed
    /\ acl' = [acl EXCEPT ![i].trashed = TRUE]
    /\ UNCHANGED <<queue, worker, edge, nextRule, reports, faults, suspect, imported>>

\* AclController::postAction allow and blacklist: no reaction looks at the change.
SetAction(i) ==
    /\ acl[i].exists /\ ~acl[i].trashed /\ acl[i].action = "block"
    /\ acl' = [acl EXCEPT ![i].action = "other"]
    /\ UNCHANGED <<queue, worker, edge, nextRule, reports, faults, suspect, imported>>

\* What the properties make an exception for, at most MaxFaults times.
Fault(rows) ==
    /\ faults < MaxFaults
    /\ faults' = faults + 1
    /\ suspect' = suspect \cup rows

RowsOf(ip) == {i \in AclIds : acl[i].exists /\ acl[i].value = ip}

\* The marks an export can hold for an address: those one of its rows has now or had
\* earlier, so a rule id of it may be forgotten, taken down or of another row.
Exported(ip, meta) ==
    /\ meta.rule_id < nextRule
    /\ \A e \in edge : e.rule = meta.rule_id => acl[e.acl].value = ip

\* shield:import writes one address: updateOrCreate sees rows that are not deleted.
Import(i, ip, entry) ==
    /\ Fault(RowsOf(ip) \cup {i})
    /\ Exported(ip, entry.meta)
    /\ LET row == [exists |-> TRUE, value |-> ip, eligible |-> entry.eligible,
                   action |-> entry.action, expired |-> entry.expired,
                   trashed |-> FALSE, meta |-> entry.meta]
       IN  \/ \* Some row of the address is updated: no reaction looks at the change.
              /\ i \in RowsOf(ip) /\ ~acl[i].trashed
              /\ acl' = [acl EXCEPT ![i] = row]
              /\ UNCHANGED queue
           \/ \* There is none: a row is created.
              /\ \A j \in RowsOf(ip) : acl[j].trashed
              /\ Created(i, row)
    /\ imported' = imported \cup RowsOf(ip) \cup {i}
    /\ UNCHANGED <<worker, edge, nextRule, reports>>

-----------------------------------------------------------------------------
(* shield:reactions-reconcile.                                             *)

\* Mutants: every row with a rule id; deleted rows only.
EndedOrNot == {i \in AclIds : acl[i].meta.rule_id # NoRule}
EndedByDelete == {i \in AclIds : acl[i].meta.rule_id # NoRule /\ acl[i].trashed}

\* Rows that carry a rule id and have expired or been deleted (withTrashed).
Ended == {i \in AclIds : acl[i].meta.rule_id # NoRule /\ (acl[i].trashed \/ acl[i].expired)}

UnbanJobs(i) == {j \in queue : j.acl = i /\ j.op = "unban"}
FreeNumbers(i) == (1..MaxUnbans) \ {j.n : j \in UnbanJobs(i)}

\* ReactionManager::onUnblock for one row: Cloudflare is the reversible reaction.
UnbanJob(i) ==
    [reaction |-> "cloudflare", acl |-> i, op |-> "unban",
     n |-> CHOOSE n \in FreeNumbers(i) : TRUE, tries |-> 0]

\* One run: any Batch of the ended rows (the query has no order).
Reconcile(rows) ==
    /\ rows \subseteq Ended /\ rows # {}
    /\ Cardinality(rows) <= Batch
    /\ rows = Ended \/ Cardinality(rows) = Batch
    /\ "cloudflare" \in Enabled
    /\ \A i \in rows : FreeNumbers(i) # {}
    /\ queue' = queue \cup {UnbanJob(i) : i \in rows}
    /\ UNCHANGED <<acl, worker, edge, nextRule, reports, faults, suspect, imported>>

-----------------------------------------------------------------------------
(* RunAclReactionJob::handle.                                              *)

\* Mutant: ban() does not look for a rule already pushed.
HasWorkPushed(job) ==
    LET row == acl[job.acl]
    IN  /\ ~row.trashed
        /\ IF job.op = "ban" THEN AppliesTo(job.reaction, row)
                              ELSE row.meta.rule_id # NoRule

\* Acl::find finds no deleted row; then the early returns of handle(), of
\* CloudflareReaction::ban (already pushed) and ::unban (nothing to remove).
HasWork(job) ==
    LET row == acl[job.acl]
    IN  /\ ~row.trashed
        /\ IF job.op = "ban"
             THEN /\ AppliesTo(job.reaction, row)
                  /\ job.reaction = "cloudflare" => row.meta.rule_id = NoRule
             ELSE row.meta.rule_id # NoRule

Take(w, job) ==
    /\ worker[w] = Free
    /\ job \in queue
    /\ queue' = queue \ {job}
    /\ worker' = IF HasWork(job)
                   THEN [worker EXCEPT ![w] =
                           [at |-> "loaded", job |-> [job EXCEPT !.tries = @ + 1],
                            meta |-> acl[job.acl].meta, rule |-> NoRule]]
                   ELSE worker
    /\ UNCHANGED <<acl, edge, nextRule, reports, faults, suspect, imported>>

\* Mutant: one try too many.
RequeuedOnceMore(job) == IF job.tries <= Tries THEN queue \cup {job} ELSE queue

\* An exception leaves the job for another try until its tries are used up.
Requeued(job) == IF job.tries < Tries THEN queue \cup {job} ELSE queue

GiveUp(w) ==
    /\ queue' = Requeued(worker[w].job)
    /\ worker' = [worker EXCEPT ![w] = Free]

Is(w, reaction, op) ==
    /\ worker[w].at = "loaded"
    /\ worker[w].job.reaction = reaction /\ worker[w].job.op = op

\* CloudflareClient::createBlockRule returns the id of a new rule.
CreateRule(w) ==
    /\ Is(w, "cloudflare", "ban")
    /\ nextRule <= MaxRules
    /\ edge' = edge \cup {[rule |-> nextRule, acl |-> worker[w].job.acl]}
    /\ nextRule' = nextRule + 1
    /\ worker' = [worker EXCEPT ![w].at = "called", ![w].rule = nextRule]
    /\ UNCHANGED <<acl, queue, reports, faults, suspect, imported>>

\* The rule is made but the response is lost: the client returns null, ban() throws.
CreateRuleLost(w) ==
    /\ Is(w, "cloudflare", "ban")
    /\ nextRule <= MaxRules
    /\ edge' = edge \cup {[rule |-> nextRule, acl |-> worker[w].job.acl]}
    /\ nextRule' = nextRule + 1
    /\ Fault({worker[w].job.acl})
    /\ GiveUp(w)
    /\ UNCHANGED <<acl, reports, imported>>

\* The rule with the id on the loaded copy, whatever row it was made for.
Recorded(w) == {e \in edge : e.rule = worker[w].meta.rule_id}

\* CloudflareClient::deleteRule succeeds only on a rule that is there.
DeleteRule(w) ==
    /\ Is(w, "cloudflare", "unban")
    /\ Recorded(w) # {}
    /\ edge' = edge \ Recorded(w)
    /\ worker' = [worker EXCEPT ![w].at = "called"]
    /\ UNCHANGED <<acl, queue, nextRule, reports, faults, suspect, imported>>

DeleteRuleLost(w) ==
    /\ Is(w, "cloudflare", "unban")
    /\ Recorded(w) # {}
    /\ edge' = edge \ Recorded(w)
    /\ Fault({worker[w].job.acl})
    /\ GiveUp(w)
    /\ UNCHANGED <<acl, nextRule, reports, imported>>

\* AbuseIpDbReportReaction::ban, any answer but 429 (a refusal is marked too).
Report(w) ==
    /\ Is(w, "abuseipdb_report", "ban")
    /\ reports' = [reports EXCEPT ![worker[w].job.acl] = @ + 1]
    /\ worker' = [worker EXCEPT ![w].at = "called"]
    /\ UNCHANGED <<acl, queue, edge, nextRule, faults, suspect, imported>>

ReportLost(w) ==
    /\ Is(w, "abuseipdb_report", "ban")
    /\ reports' = [reports EXCEPT ![worker[w].job.acl] = @ + 1]
    /\ Fault({worker[w].job.acl})
    /\ GiveUp(w)
    /\ UNCHANGED <<acl, edge, nextRule, imported>>

\* The call has no effect and is reported as failed: create returned null (as when
\* Cloudflare has a rule for the address already), delete returned false (a missing
\* rule included), 429, or no connection.
CallFails(w) ==
    /\ worker[w].at = "loaded"
    /\ GiveUp(w)
    /\ UNCHANGED <<acl, edge, nextRule, reports, faults, suspect, imported>>

\* setMeta, clearMeta and mark: the copy loaded earlier with this job's own mark.
Saved(w) ==
    IF worker[w].job.reaction = "abuseipdb_report"
      THEN [worker[w].meta EXCEPT !.reported = TRUE]
      ELSE [worker[w].meta EXCEPT !.rule_id = worker[w].rule]

\* The row is updated (deleted or not); then the audit entry is written, and if
\* that throws the job is tried again.
Save(w) ==
    /\ worker[w].at = "called"
    /\ LET i == worker[w].job.acl
       IN  /\ acl' = [acl EXCEPT ![i].meta = Saved(w)]
           /\ suspect' = IF acl[i].meta = worker[w].meta THEN suspect ELSE suspect \cup {i}
    /\ queue' \in {queue, Requeued(worker[w].job)}
    /\ worker' = [worker EXCEPT ![w] = Free]
    /\ UNCHANGED <<edge, nextRule, reports, faults, imported>>

\* The worker is killed or hits $timeout with a job in hand; the queue delivers
\* the job again.
Crash(w) ==
    /\ worker[w] # Free
    /\ Fault({worker[w].job.acl})
    /\ GiveUp(w)
    /\ UNCHANGED <<acl, edge, nextRule, reports, imported>>

-----------------------------------------------------------------------------
CallSucceeds(w) == CreateRule(w) \/ DeleteRule(w) \/ Report(w)

Next ==
    \/ \E i \in AclIds :
          \/ \E ip \in Addresses :
                \/ \E eligible \in BOOLEAN : Block(i, ip, eligible)
                \/ \E entry \in Entries : Import(i, ip, entry)
          \/ Expire(i) \/ Trash(i) \/ SetAction(i)
    \/ \E rows \in SUBSET AclIds : Reconcile(rows)
    \/ \E w \in Workers :
          \/ \E job \in queue : Take(w, job)
          \/ CallSucceeds(w)
          \/ CreateRuleLost(w) \/ DeleteRuleLost(w) \/ ReportLost(w)
          \/ CallFails(w)
          \/ Save(w)
          \/ Crash(w)

\* The scheduler runs reconcile every minute, a busy worker goes on working, no row's
\* unban jobs wait for ever while others are taken, and a delete tried again and again
\* gets through.
Fairness ==
    /\ WF_vars(\E rows \in SUBSET AclIds : Reconcile(rows))
    /\ \A i \in AclIds :
          SF_vars(\E w \in Workers : \E job \in UnbanJobs(i) : Take(w, job))
    /\ SF_vars(\E w \in Workers : DeleteRule(w))
    /\ WF_vars(\E w \in Workers : CallSucceeds(w) \/ CallFails(w) \/ Save(w))

Spec == Init /\ [][Next]_vars
FairSpec == Spec /\ Fairness

-----------------------------------------------------------------------------
(* Properties.                                                             *)

RulesOf(i) == {e.rule : e \in {f \in edge : f.acl = i}}

BetweenCallAndSave(i) ==
    \E w \in Workers : worker[w].at = "called" /\ worker[w].job.acl = i

\* The rule id on a row and the rules at the edge agree whenever no job of the row
\* is between its call and its save, except for rows that met a crash, a lost
\* response, or a second job that saved over the first one's mark.
MarkerTracksEdge ==
    \A i \in AclIds \ suspect :
        ~BetweenCallAndSave(i) => RulesOf(i) = {acl[i].meta.rule_id} \ {NoRule}

\* A rule leaves the edge only after the block it was made for has ended, unless the
\* address was in an imported file, which may renew a block while a job is about to
\* remove its rule or bring the rule's id back on another row.  Reconcile runs that
\* overlap, retries, a worker that dies and its job delivered again, lost responses and
\* stale copies need no exception.  Another block of the address is not looked at: one
\* for which Cloudflare refused a second rule is left without any.
RuleOutlivesBlock ==
    [][\A e \in edge \ edge' :
          acl[e.acl].expired \/ acl[e.acl].trashed \/ e.acl \in imported]_vars

\* One block is reported once through retries and jobs of both reactions; a second
\* report of it needs a crash, a lost response, an import or a mark that a stale copy
\* overwrote.  The dedupe is the row's: an address with two blocks is reported twice.
OneReportPerBlock == \A i \in AclIds \ suspect : reports[i] <= 1

Removable(i, r) ==
    acl[i].meta.rule_id = r /\ acl[i].expired /\ ~acl[i].trashed

\* "The failure-tolerant path for edge cleanup": the rule of an expired block goes,
\* however often the delete fails, unless the row is deleted first or a stale copy
\* makes it forget the rule.
ExpiredRuleGoes ==
    \A i \in AclIds, r \in Rules :
        Removable(i, r) ~> (r \notin RulesOf(i) \/ acl[i].trashed \/ i \in suspect)

\* shield:acl "Unbans soft-delete the row; shield:reactions-reconcile then removes
\* any edge rule".
UnbanRemovesRule ==
    \A i \in AclIds, r \in Rules :
        (acl[i].trashed /\ acl[i].meta.rule_id = r) ~> r \notin RulesOf(i)
=============================================================================
