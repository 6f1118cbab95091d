--------------------------- MODULE CentralDelivery ---------------------------
(***************************************************************************)
(* The delivery of audit entries to Central: ForwardAuditToCentralJob on   *)
(* the queue, CentralClient::postSigned with one ls_webhook_deliveries row *)
(* per attempt, the failed() hook that marks an event as given up, and the *)
(* dashboard's retry button.  Heartbeats share the client and the table.   *)
(*                                                                         *)
(* A worker takes a job and opens a pending row, posts, and writes the     *)
(* outcome on the row as the job ends or throws; a job out of tries is     *)
(* deleted, and failed() reads the newest row of the event and then        *)
(* updates it.  These are separate steps: workers interleave and die       *)
(* between any two, and a job whose worker died is delivered again with    *)
(* the tries it has used.                                                  *)
(*                                                                         *)
(* The payload is the event, and what makes Central refuse it is left to   *)
(* Central.  Backoff is left out: a job that waits may be taken any time.  *)
(* Of a row's reason only its length matters: the column takes 64          *)
(* characters, a strict MySQL and PostgreSQL refuse an update with more,   *)
(* and the code swallows the exception.                                    *)
(* Whether a URL, a key and a secret are configured is looked at by each   *)
(* attempt and may differ from one to the next.                            *)
(***************************************************************************)
EXTENDS Integers, Sequences, FiniteSets

CONSTANTS
    Events,      \* audit entries
    NoEvent,     \* audit_log_id null: the row of a heartbeat
    Workers,     \* queue workers
    Tries,       \* ForwardAuditToCentralJob::$tries
    MaxRetries,  \* bound on the dashboard retries of one event
    MaxBeats,    \* bound on the heartbeat rows
    MaxFaults    \* bound on dead workers, lost responses and rows not written

ASSUME ParametersAssumption ==
    /\ NoEvent \notin Events
    /\ Tries \in Nat \ {0}
    /\ {MaxRetries, MaxBeats, MaxFaults} \subseteq Nat

VARIABLES
    jobs,        \* jobs waiting in the queue
    worker,      \* worker[w]: the job in hand and how far it has got
    rows,        \* ls_webhook_deliveries, row i at position i
    dispatched,  \* dispatched[e]: jobs ever dispatched for event e
    taken,       \* events Central has taken
    faults,      \* faults so far
    suspect,     \* events hit by a fault
    untracked,   \* events of which an attempt was skipped, a row could not be written,
                 \* or failed() was killed
    doubled,     \* events that have had two jobs at once
    strict       \* the database refuses a value that is too long for its column

vars == <<jobs, worker, rows, dispatched, taken, faults, suspect, untracked, doubled,
          strict>>

Outcomes == {"success", "refused", "error"}
Statuses == {"pending", "success", "failure", "exhausted"}
NoRow == 0

\* An event's jobs are numbered: the first is AuditLogger's, the others are retries.
Numbers == 1..(1 + MaxRetries)
Job == [event : Events, n : Numbers, attempts : 0..Tries]

\* A row's own job and Central's answer to it are not columns: the properties need them.
Delivery == [event : Events, n : Numbers, status : Statuses, answer : Outcomes \cup {"none"}]
            \cup [event : {NoEvent}, status : Statuses]

Free == [at |-> "free"]
Busy == [at : {"open"}, job : Job, row : Nat]
        \cup [at : {"answered"}, job : Job, row : Nat, outcome : Outcomes]
        \cup [at : {"failed"}, job : Job]
        \cup [at : {"marking"}, job : Job, row : Nat]

TypeOK ==
    /\ jobs \subseteq Job
    /\ worker \in [Workers -> {Free} \cup Busy]
    /\ rows \in Seq(Delivery)
    /\ dispatched \in [Events -> 0..(1 + MaxRetries)]
    /\ faults \in 0..MaxFaults
    /\ taken \cup suspect \cup untracked \cup doubled \subseteq Events
    /\ strict \in BOOLEAN
    /\ \A w \in Workers :
          worker[w].at \in {"open", "answered", "marking"} =>
              worker[w].row \in {NoRow} \cup {i \in DOMAIN rows : rows[i].event # NoEvent}

Init ==
    /\ jobs = {}
    /\ worker = [w \in Workers |-> Free]
    /\ rows = << >>
    /\ dispatched = [e \in Events |-> 0]
    /\ taken = {}
    /\ faults = 0
    /\ suspect = {}
    /\ untracked = {}
    /\ doubled = {}
    /\ strict \in BOOLEAN

-----------------------------------------------------------------------------
(* Where jobs come from.                                                   *)

\* Job n of event e waits, is in a worker's hand or is about to be marked.
Alive(e, n) ==
    \/ \E j \in jobs : j.event = e /\ j.n = n
    \/ \E w \in Workers : worker[w] # Free /\ worker[w].job.event = e /\ worker[w].job.n = n

AliveAny(e) == \E n \in Numbers : Alive(e, n)

Dispatch(e) ==
    /\ dispatched[e] <= MaxRetries
    /\ jobs' = jobs \cup {[event |-> e, n |-> dispatched[e] + 1, attempts |-> 0]}
    /\ dispatched' = [dispatched EXCEPT ![e] = @ + 1]
    /\ doubled' = IF AliveAny(e) THEN doubled \cup {e} ELSE doubled
    /\ UNCHANGED <<worker, rows, taken, faults, suspect, untracked>>

\* AuditLogger::maybeForwardToCentral, when it dispatches.
Forward(e) == dispatched[e] = 0 /\ Dispatch(e)

\* WebhookDeliveriesController::retry, while the audit entry is there.
Retry(i) ==
    /\ rows[i].status # "pending"
    /\ rows[i].event # NoEvent
    /\ Dispatch(rows[i].event)

\* shield:heartbeat, shield:central-test, LicenseController::test: a process of its own
\* and a row nobody else writes; it stays pending if the process dies.
Heartbeat ==
    /\ Cardinality({i \in DOMAIN rows : rows[i].event = NoEvent}) < MaxBeats
    /\ \E status \in {"pending", "success", "failure"} :
          rows' = Append(rows, [event |-> NoEvent, status |-> status])
    /\ UNCHANGED <<jobs, worker, dispatched, taken, faults, suspect, untracked, doubled>>

-----------------------------------------------------------------------------
(* One attempt.                                                            *)

NoFault == UNCHANGED <<faults, suspect>>

Fault(e) ==
    /\ faults < MaxFaults
    /\ faults' = faults + 1
    /\ suspect' = suspect \cup {e}

Pop(w, job) ==
    /\ worker[w] = Free
    /\ job \in jobs
    /\ job.attempts < Tries

\* The queue counts the attempt as it hands the job out.
Counted(job) == [job EXCEPT !.attempts = @ + 1]

\* handle, pushEvent, openDelivery; the request goes out even if the row cannot be
\* created, which is swallowed.
Open(w, job) ==
    /\ Pop(w, job)
    /\ jobs' = jobs \ {job}
    /\ \/ /\ rows' = Append(rows, [event |-> job.event, n |-> job.n, status |-> "pending",
                                   answer |-> "none"])
          /\ worker' = [worker EXCEPT ![w] =
                          [at |-> "open", job |-> Counted(job), row |-> Len(rows) + 1]]
          /\ NoFault /\ UNCHANGED untracked
       \/ /\ worker' = [worker EXCEPT ![w] =
                          [at |-> "open", job |-> Counted(job), row |-> NoRow]]
          /\ Fault(job.event) /\ untracked' = untracked \cup {job.event}
          /\ UNCHANGED rows
    /\ UNCHANGED <<dispatched, taken, doubled>>

\* pushEvent is skipped for want of a URL, a key or a secret: no row, no other try.
Skip(w, job) ==
    /\ Pop(w, job)
    /\ jobs' = jobs \ {job}
    /\ untracked' = untracked \cup {job.event}
    /\ NoFault
    /\ UNCHANGED <<worker, rows, dispatched, taken, doubled>>

\* The worker dies before there is a row.
DieEarly(w, job) ==
    /\ Pop(w, job)
    /\ jobs' = (jobs \ {job}) \cup {Counted(job)}
    /\ Fault(job.event)
    /\ UNCHANGED <<worker, rows, dispatched, taken, untracked, doubled>>

\* Mutant: no failed() hook for such a job.
DropQuietly(w, job) ==
    /\ worker[w] = Free
    /\ job \in jobs
    /\ job.attempts >= Tries
    /\ jobs' = jobs \ {job}
    /\ NoFault
    /\ UNCHANGED <<worker, rows, dispatched, taken, untracked, doubled>>

\* A job that comes back after its last try, its worker having died, fails unrun.
TooManyAttempts(w, job) ==
    /\ worker[w] = Free
    /\ job \in jobs
    /\ job.attempts >= Tries
    /\ jobs' = jobs \ {job}
    /\ worker' = [worker EXCEPT ![w] = [at |-> "failed", job |-> job]]
    /\ NoFault
    /\ UNCHANGED <<rows, dispatched, taken, untracked, doubled>>

\* The rows with a column of the worker's own row, if it has one, changed.
Answering(w, answer) ==
    [i \in DOMAIN rows |->
        IF i = worker[w].row THEN [rows[i] EXCEPT !.answer = answer] ELSE rows[i]]

Marking(w, status) ==
    [i \in DOMAIN rows |->
        IF i = worker[w].row THEN [rows[i] EXCEPT !.status = status] ELSE rows[i]]

\* Central takes the request (2xx), refuses it for good (anything else below 500), or
\* fails to (5xx, no connection).  If it takes it and the response is lost, that is no
\* connection to the site.
Post(w, answer, outcome) ==
    /\ worker[w].at = "open"
    /\ \/ answer = outcome /\ NoFault
       \/ answer = "success" /\ outcome = "error" /\ Fault(worker[w].job.event)
    /\ taken' = IF answer = "success" THEN taken \cup {worker[w].job.event} ELSE taken
    /\ rows' = Answering(w, answer)
    /\ worker' = [worker EXCEPT ![w] = [at |-> "answered", job |-> worker[w].job,
                                        row |-> worker[w].row, outcome |-> outcome]]
    /\ UNCHANGED <<jobs, dispatched, untracked, doubled>>

\* markCompleted
Completed(w) == Marking(w, IF worker[w].outcome = "success" THEN "success" ELSE "failure")

\* Mutant: a refusal is thrown too.
ThrowsAny(w) == worker[w].outcome # "success"

\* ForwardAuditToCentralJob::handle, after pushEvent.
Throws(w) == worker[w].outcome = "error"

LastTry(job) == job.attempts >= Tries

\* Mutant: failed() is called whenever the job throws.
GivesUpEarly(w) == Throws(w)

GivesUp(w) == Throws(w) /\ LastTry(worker[w].job)

\* The reason is the message of a connection failure, which may be too long; of any other
\* answer it is a short word.
TooLong(w) == strict /\ worker[w].outcome = "error"

\* finalize, whose exceptions are swallowed.  Then the job ends, or is thrown back to the
\* queue, or was on its last try: the queue deletes it and calls failed().
Finalize(w) ==
    /\ worker[w].at = "answered"
    /\ \/ /\ rows' = Completed(w)
          /\ NoFault /\ UNCHANGED untracked
       \/ /\ TooLong(w)
          /\ NoFault /\ UNCHANGED <<rows, untracked>>
       \/ /\ worker[w].row # NoRow
          /\ Fault(worker[w].job.event) /\ untracked' = untracked \cup {worker[w].job.event}
          /\ UNCHANGED rows
    /\ LET job == worker[w].job
       IN  /\ jobs' = IF Throws(w) /\ ~LastTry(job) THEN jobs \cup {job} ELSE jobs
           /\ worker' = [worker EXCEPT ![w] =
                           IF GivesUp(w) THEN [at |-> "failed", job |-> job]
                           ELSE Free]
    /\ UNCHANGED <<dispatched, taken, doubled>>

-----------------------------------------------------------------------------
(* Giving up.                                                              *)

\* Mutant: the newest row of any event.
RowsOfAny(e) == DOMAIN rows

RowsOf(e) == {i \in DOMAIN rows : rows[i].event = e}

\* Mutant: no latest().
Oldest(ids) == CHOOSE i \in ids : \A j \in ids : i <= j

Latest(ids) == CHOOSE i \in ids : \A j \in ids : j <= i

\* failed(): the newest delivery row of the event ...
ReadLatest(w) ==
    /\ worker[w].at = "failed"
    /\ LET ids == RowsOf(worker[w].job.event)
       IN  worker' = [worker EXCEPT ![w] =
                        IF ids = {} THEN Free
                        ELSE [at |-> "marking", job |-> worker[w].job,
                              row |-> Latest(ids)]]
    /\ NoFault
    /\ UNCHANGED <<jobs, rows, dispatched, taken, untracked, doubled>>

\* ... is updated, whatever it says by now.  The new reason is "all_retries_failed: " and
\* the message of the exception, which together are always too long for the column.
MarkExhausted(w) ==
    /\ worker[w].at = "marking"
    /\ rows' = IF strict THEN rows ELSE Marking(w, "exhausted")
    /\ worker' = [worker EXCEPT ![w] = Free]
    /\ NoFault
    /\ UNCHANGED <<jobs, dispatched, taken, untracked, doubled>>

\* The worker is killed, before or after its row has an outcome.  The job is delivered
\* again, unless it had been deleted for failed() already.
Crash(w) ==
    /\ worker[w] # Free
    /\ Fault(worker[w].job.event)
    /\ \/ /\ worker[w].at \in {"open", "answered"}
          /\ jobs' = jobs \cup {worker[w].job}
          /\ \/ UNCHANGED rows
             \/ worker[w].at = "answered" /\ rows' = Completed(w)
          /\ UNCHANGED untracked
       \/ /\ worker[w].at \in {"failed", "marking"}
          /\ untracked' = untracked \cup {worker[w].job.event}
          /\ UNCHANGED <<jobs, rows>>
    /\ worker' = [worker EXCEPT ![w] = Free]
    /\ UNCHANGED <<dispatched, taken, doubled>>

Step ==
    \/ \E e \in Events : Forward(e)
    \/ \E i \in DOMAIN rows : Retry(i)
    \/ Heartbeat
    \/ \E w \in Workers :
          \/ \E job \in jobs :
                Open(w, job) \/ Skip(w, job) \/ DieEarly(w, job) \/ TooManyAttempts(w, job)
          \/ \E answer, outcome \in Outcomes : Post(w, answer, outcome)
          \/ Finalize(w) \/ ReadLatest(w) \/ MarkExhausted(w) \/ Crash(w)

Next == Step /\ UNCHANGED strict

Spec == Init /\ [][Next]_vars

-----------------------------------------------------------------------------
(* Properties.                                                             *)

UnderWay(i) == \E w \in Workers : worker[w].at \in {"open", "answered"} /\ worker[w].row = i

\* "The row trail tells the full story": the row of an attempt that is over says success
\* exactly if Central took that attempt's request, and is not pending, unless a worker
\* died, a response was lost, a row could not be written, or a second job of the event
\* was under way.  On a strict database the row of a connection failure may be pending
\* for good.
RowsTellTheTruth ==
    \A e \in Events \ (suspect \cup doubled) : \A i \in RowsOf(e) :
        ~UnderWay(i) =>
            /\ rows[i].status = "success" <=> rows[i].answer = "success"
            /\ rows[i].status = "pending" => strict /\ rows[i].answer = "error"

\* The row of an attempt under way is pending, which is what keeps the dashboard from
\* queueing the event again: only a second job of the event can mark it over.
UnderWayIsPending ==
    \A e \in Events \ doubled : \A i \in RowsOf(e) :
        UnderWay(i) => rows[i].status = "pending"

\* No event vanishes: when its jobs are over Central has taken it, or the dashboard shows
\* a failed or exhausted row with its retry button, however workers died and two jobs
\* interfered, unless it never got as far as a row, an attempt was skipped for want of
\* a configuration, a row could not be written or failed() was killed.  On a strict
\* database, which never takes the exhausted mark, a pending row without the button may
\* be all that is left; no row says success even then.
NothingVanishes ==
    \A e \in Events \ untracked :
        RowsOf(e) # {} /\ ~AliveAny(e) =>
            \/ e \in taken
            \/ \E i \in RowsOf(e) : rows[i].status \in {"failure", "exhausted"}
            \/ strict /\ \A i \in RowsOf(e) : rows[i].status = "pending"

RowsOfJob(e, n) == {i \in RowsOf(e) : rows[i].n = n}

\* A job opens at most $tries rows, dead workers included, and none after Central has
\* taken or refused its request, unless a response was lost or a worker died.
AttemptsAreBudgeted ==
    \A e \in Events, n \in Numbers :
        /\ Cardinality(RowsOfJob(e, n)) <= Tries
        /\ \A i, j \in RowsOfJob(e, n) :
              i < j /\ e \notin suspect => rows[i].answer = "error"
=============================================================================
