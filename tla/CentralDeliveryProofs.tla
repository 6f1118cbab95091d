----------------------- MODULE CentralDeliveryProofs -----------------------
(***************************************************************************)
(* Proofs about the delivery to Central, for any events, any workers,      *)
(* tries and bounds.                                                       *)
(*                                                                         *)
(* Types adds to TypeOK that a worker's row is one of its own job and that *)
(* every event with rows has a newest one, which is what latest() needs.   *)
(* OneJob says whose job is whose: a job, numbered within its event, is in *)
(* one place, and an event that never had two jobs at once has one job in  *)
(* all. Everything else stands on it, because it decides which other       *)
(* worker can reach a row.                                                 *)
(*                                                                         *)
(* Budget counts the rows of a job against its attempts: a job opens one   *)
(* row with each attempt at most, and a job that is taken again has a try  *)
(* left. Answers says what Central answered to the rows of a job of an     *)
(* event that no fault has hit. Pending, Truth and Kept are the invariants *)
(* of the three properties about the status of a row: while its attempt is *)
(* under way, when it is over, and when the jobs of its event are.         *)
(***************************************************************************)
EXTENDS CentralDelivery, FiniteSetTheorems, SequenceTheorems, TLAPS

InHand(w) == worker[w] # Free
HasRow(w) == worker[w].at \in {"open", "answered", "marking"} /\ worker[w].row # NoRow
AtWork(w) == worker[w].at \in {"open", "answered"}

Newest(i, e) == i \in RowsOf(e) /\ \A j \in RowsOf(e) : j <= i

Types ==
    /\ TypeOK
    /\ \A w \in Workers : HasRow(w) =>
          /\ worker[w].row \in RowsOf(worker[w].job.event)
          /\ AtWork(w) => rows[worker[w].row].n = worker[w].job.n
    /\ \A w \in Workers : worker[w].at = "marking" => HasRow(w)
    /\ \A e \in Events : RowsOf(e) # {} => \E i \in RowsOf(e) : Newest(i, e)

\* Two jobs of which one only may be alive: an event that is not doubled has one job.
Rivals(j, k) == j.event = k.event /\ (j.n = k.n \/ j.event \notin doubled)

OneJob ==
    /\ \A j, k \in jobs : Rivals(j, k) => j = k
    /\ \A w \in Workers : InHand(w) => \A j \in jobs : ~Rivals(worker[w].job, j)
    /\ \A w, v \in Workers :
          InHand(w) /\ InHand(v) /\ Rivals(worker[w].job, worker[v].job) => w = v
    /\ \A j \in jobs : j.n <= dispatched[j.event]
    /\ \A w \in Workers : InHand(w) => worker[w].job.n <= dispatched[worker[w].job.event]
    /\ \A e \in Events : \A i \in RowsOf(e) : rows[i].n <= dispatched[e]

RowCount(e, n) == Cardinality(RowsOfJob(e, n))

Budget ==
    /\ \A j \in jobs : RowCount(j.event, j.n) <= j.attempts
    /\ \A w \in Workers : InHand(w) =>
          RowCount(worker[w].job.event, worker[w].job.n) <= worker[w].job.attempts
    /\ \A e \in Events, n \in Numbers : RowCount(e, n) <= Tries

AllErrors(e, n) == \A i \in RowsOfJob(e, n) : rows[i].answer = "error"

JobAnswers(e, n) ==
    /\ \A i, j \in RowsOfJob(e, n) : i < j => rows[i].answer = "error"
    /\ \A j \in jobs : j.event = e /\ j.n = n => j.attempts < Tries /\ AllErrors(e, n)
    /\ \A w \in Workers : InHand(w) /\ worker[w].job.event = e /\ worker[w].job.n = n =>
          IF AtWork(w)
            THEN /\ worker[w].row # NoRow
                 /\ \A i \in RowsOfJob(e, n) : i <= worker[w].row
                 /\ rows[worker[w].row].answer =
                       IF worker[w].at = "open" THEN "none" ELSE worker[w].outcome
            ELSE AllErrors(e, n)

Answers == \A e \in Events \ suspect, n \in Numbers : JobAnswers(e, n)

Pending ==
    \A w \in Workers :
        AtWork(w) /\ HasRow(w) /\ worker[w].job.event \notin doubled =>
            rows[worker[w].row].status = "pending"

Told(i) ==
    /\ rows[i].status = "success" <=> rows[i].answer = "success"
    /\ rows[i].status = "pending" => strict /\ rows[i].answer = "error"

EventTruth(e) ==
    /\ \A i \in RowsOf(e) : ~UnderWay(i) => Told(i)
    /\ \A w \in Workers : InHand(w) /\ worker[w].job.event = e =>
          \E i \in RowsOf(e) :
             /\ Newest(i, e)
             /\ AtWork(w) => i = worker[w].row
             /\ ~AtWork(w) => rows[i].answer = "error"
             /\ worker[w].at = "marking" => i = worker[w].row

Truth == \A e \in Events \ (suspect \cup doubled) : EventTruth(e)

Living(e) ==
    \/ \E j \in jobs : j.event = e
    \/ \E w \in Workers : InHand(w) /\ worker[w].job.event = e

Failing(e) == \E i \in RowsOf(e) : rows[i].status \in {"failure", "exhausted"}

WorkerKept(w) ==
    InHand(w) =>
        /\ AtWork(w) /\ worker[w].row = NoRow =>
              worker[w].job.event \in untracked /\ worker[w].job.event \in suspect
        /\ worker[w].at = "answered" /\ worker[w].outcome = "success" =>
              worker[w].job.event \in taken

\* A strict database may have kept any failure from the rows, but never makes a success.
EventKept(e) == RowsOf(e) # {} => e \in taken \/ Failing(e) \/ Living(e) \/ strict

SuccessTaken(i) ==
    rows[i].event \in Events /\ rows[i].status = "success" => rows[i].event \in taken

Kept ==
    /\ \A w \in Workers : WorkerKept(w)
    /\ \A i \in DOMAIN rows : SuccessTaken(i)
    /\ \A e \in Events \ untracked : EventKept(e)

-----------------------------------------------------------------------------
(* Types.                                                                  *)

LEMMA Shape ==
    ASSUME Types
    PROVE  /\ \A w \in Workers : InHand(w) =>
                /\ worker[w] \in Busy /\ worker[w].job \in Job
                /\ worker[w].at \in {"open", "answered", "failed", "marking"}
           /\ \A w \in Workers : worker[w].at \in {"open", "answered", "failed", "marking"} =>
                InHand(w)
           /\ \A w \in Workers : AtWork(w) \/ worker[w].at = "marking" =>
                worker[w].row \in Nat
           /\ \A w \in Workers : worker[w].at = "answered" => worker[w].outcome \in Outcomes
           /\ \A j \in jobs : j \in Job
           /\ \A j \in Job : /\ j.event \in Events /\ j.n \in Numbers /\ j.n \in Nat
                             /\ j.attempts \in 0..Tries /\ j.attempts \in Nat
           /\ Tries \in Nat /\ MaxRetries \in Nat /\ MaxFaults \in Nat
           /\ rows \in Seq(Delivery) /\ Len(rows) \in Nat /\ DOMAIN rows = 1..Len(rows)
           /\ \A i \in DOMAIN rows : rows[i] \in Delivery
           /\ \A e \in Events : dispatched[e] \in Nat /\ RowsOf(e) \subseteq 1..Len(rows)
  <1>1. Free.at = "free"
    BY DEF Free
  <1>2. \A b \in Busy : /\ b.at \in {"open", "answered", "failed", "marking"} /\ b.job \in Job
                        /\ b.at \in {"open", "answered", "marking"} => b.row \in Nat
                        /\ b.at = "answered" => b.outcome \in Outcomes
    BY DEF Busy
  <1>3. \A w \in Workers : worker[w] = Free \/ worker[w] \in Busy
    BY DEF Types, TypeOK
  <1>4. \A j \in Job : /\ j.event \in Events /\ j.n \in Numbers /\ j.n \in Nat
                       /\ j.attempts \in 0..Tries /\ j.attempts \in Nat
    BY ParametersAssumption DEF Job, Numbers
  <1>5. rows \in Seq(Delivery) /\ Len(rows) \in Nat /\ DOMAIN rows = 1..Len(rows)
        /\ \A i \in DOMAIN rows : rows[i] \in Delivery
    BY DEF Types, TypeOK
  <1>6. \A e \in Events : dispatched[e] \in Nat
    BY ParametersAssumption DEF Types, TypeOK
  <1> QED
    BY <1>1, <1>2, <1>3, <1>4, <1>5, <1>6, ParametersAssumption
    DEF Types, TypeOK, InHand, AtWork, RowsOf

\* A sequence changed in place is a sequence.
LEMMA Rewritten ==
    ASSUME NEW S, NEW T, NEW s \in Seq(S), NEW t, DOMAIN t = DOMAIN s,
           t = [i \in DOMAIN t |-> t[i]], \A i \in DOMAIN s : t[i] \in T
    PROVE  t \in Seq(T) /\ Len(t) = Len(s)
  <1>1. DOMAIN s = 1..Len(s) /\ Len(s) \in Nat
    OBVIOUS
  <1>2. t \in [1..Len(s) -> T]
    BY <1>1
  <1> QED
    BY <1>1, <1>2, SeqDef

\* Adding a row.
LEMMA Appended ==
    ASSUME Types, NEW d \in Delivery, rows' = Append(rows, d)
    PROVE  /\ rows' \in Seq(Delivery) /\ DOMAIN rows' = 1..(Len(rows) + 1)
           /\ Len(rows') = Len(rows) + 1
           /\ rows'[Len(rows) + 1] = d
           /\ \A i \in DOMAIN rows : i \in DOMAIN rows' /\ rows'[i] = rows[i]
           /\ \A e : d.event = e => RowsOf(e)' = RowsOf(e) \cup {Len(rows) + 1}
           /\ \A e : d.event # e => RowsOf(e)' = RowsOf(e)
  <1>1. rows \in Seq(Delivery) /\ Len(rows) \in Nat /\ DOMAIN rows = 1..Len(rows)
    BY Shape
  <1>2. /\ rows' \in Seq(Delivery) /\ DOMAIN rows' = 1..(Len(rows) + 1)
        /\ Len(rows') = Len(rows) + 1
        /\ rows'[Len(rows) + 1] = d
        /\ \A i \in DOMAIN rows : i \in DOMAIN rows' /\ rows'[i] = rows[i]
    BY <1>1
  <1>3. ASSUME NEW e, d.event = e
        PROVE  RowsOf(e)' = RowsOf(e) \cup {Len(rows) + 1}
    BY <1>1, <1>2, <1>3 DEF RowsOf
  <1>4. ASSUME NEW e, d.event # e
        PROVE  RowsOf(e)' = RowsOf(e)
    BY <1>1, <1>2, <1>4 DEF RowsOf
  <1> QED
    BY <1>2, <1>3, <1>4

\* Writing a column of a worker's own row.
LEMMA Written ==
    ASSUME Types, NEW w \in Workers, NEW v,
           \/ rows' = Answering(w, v) /\ v \in Outcomes
           \/ rows' = Marking(w, v) /\ v \in Statuses,
           AtWork(w) \/ worker[w].at = "marking"
    PROVE  /\ rows' \in Seq(Delivery) /\ DOMAIN rows' = DOMAIN rows /\ Len(rows') = Len(rows)
           /\ \A i \in DOMAIN rows :
                 /\ rows'[i].event = rows[i].event
                 /\ i # worker[w].row => rows'[i] = rows[i]
                 /\ rows[i].event # NoEvent => rows'[i].n = rows[i].n
           /\ \A e : RowsOf(e)' = RowsOf(e)
           /\ HasRow(w) => worker[w].row \in DOMAIN rows
           /\ rows' = Answering(w, v) => \A i \in DOMAIN rows : rows'[i].status = rows[i].status
           /\ rows' = Answering(w, v) /\ HasRow(w) => rows'[worker[w].row].answer = v
           /\ rows' = Marking(w, v) =>
                 \A i \in DOMAIN rows : rows[i].event # NoEvent => rows'[i].answer = rows[i].answer
           /\ rows' = Marking(w, v) /\ HasRow(w) => rows'[worker[w].row].status = v
  <1> USE Shape
  <1>1. PICK r \in Nat : r = worker[w].row
    OBVIOUS
  <1>2. r \in DOMAIN rows => rows[r].event \in Events /\ rows[r].event # NoEvent
    BY <1>1, ParametersAssumption DEF Types, HasRow, RowsOf, NoRow, AtWork
  <1>3. \A i \in DOMAIN rows : rows[i].event # NoEvent =>
           rows[i] \in [event : Events, n : Numbers, status : Statuses,
                       answer : Outcomes \cup {"none"}]
    BY DEF Delivery
  <1>4. HasRow(w) => r \in DOMAIN rows
    BY <1>1 DEF Types, RowsOf
  <1>5. CASE rows' = Answering(w, v) /\ v \in Outcomes
    <2>1. /\ DOMAIN rows' = DOMAIN rows /\ rows' = [i \in DOMAIN rows' |-> rows'[i]]
          /\ \A i \in DOMAIN rows :
                rows'[i] = IF i = r THEN [rows[i] EXCEPT !.answer = v] ELSE rows[i]
      BY <1>1, <1>5 DEF Answering
    <2>2. r \in DOMAIN rows =>
             /\ rows'[r] \in Delivery /\ rows'[r].event = rows[r].event
             /\ rows'[r].n = rows[r].n /\ rows'[r].status = rows[r].status
             /\ rows'[r].answer = v
      BY <1>2, <1>3, <1>5, <2>1 DEF Delivery
    <2>3. \A i \in DOMAIN rows : rows'[i] \in Delivery /\ rows'[i].event = rows[i].event
      BY <2>1, <2>2
    <2>4. rows' \in Seq(Delivery) /\ Len(rows') = Len(rows)
      BY <2>1, <2>3, Rewritten
    <2>5. \A e : RowsOf(e)' = RowsOf(e)
      BY <2>1, <2>3 DEF RowsOf
    <2>6. rows' # Marking(w, v) \/
             \A i \in DOMAIN rows : rows[i].event # NoEvent => rows'[i].answer = rows[i].answer
      <3> SUFFICES ASSUME rows' = Marking(w, v), NEW i \in DOMAIN rows, rows[i].event # NoEvent
                   PROVE  rows'[i].answer = rows[i].answer
        OBVIOUS
      <3> QED
        BY <1>3 DEF Marking
    <2>7. rows' = Marking(w, v) /\ HasRow(w) => rows'[r].status = v
      BY <1>1, <1>2, <1>3, <1>4 DEF Marking
    <2> QED
      BY <1>1, <1>4, <2>1, <2>2, <2>3, <2>4, <2>5, <2>6, <2>7
  <1>6. CASE rows' = Marking(w, v) /\ v \in Statuses
    <2>1. /\ DOMAIN rows' = DOMAIN rows /\ rows' = [i \in DOMAIN rows' |-> rows'[i]]
          /\ \A i \in DOMAIN rows :
                rows'[i] = IF i = r THEN [rows[i] EXCEPT !.status = v] ELSE rows[i]
      BY <1>1, <1>6 DEF Marking
    <2>2. r \in DOMAIN rows =>
             /\ rows'[r] \in Delivery /\ rows'[r].event = rows[r].event
             /\ rows'[r].n = rows[r].n /\ rows'[r].answer = rows[r].answer
             /\ rows'[r].status = v
      BY <1>2, <1>3, <1>6, <2>1 DEF Delivery
    <2>3. \A i \in DOMAIN rows : rows'[i] \in Delivery /\ rows'[i].event = rows[i].event
      BY <2>1, <2>2
    <2>4. rows' \in Seq(Delivery) /\ Len(rows') = Len(rows)
      BY <2>1, <2>3, Rewritten
    <2>5. \A e : RowsOf(e)' = RowsOf(e)
      BY <2>1, <2>3 DEF RowsOf
    <2>6. rows' = Answering(w, v) => \A i \in DOMAIN rows : rows'[i].status = rows[i].status
      <3> SUFFICES ASSUME rows' = Answering(w, v), NEW i \in DOMAIN rows
                   PROVE  rows'[i].status = rows[i].status
        OBVIOUS
      <3> QED
        BY <1>1, <1>2, <1>3 DEF Answering
    <2>7. rows' = Answering(w, v) /\ HasRow(w) => rows'[r].answer = v
      BY <1>1, <1>2, <1>3, <1>4 DEF Answering
    <2> QED
      BY <1>1, <1>4, <2>1, <2>2, <2>3, <2>4, <2>5, <2>6, <2>7
  <1> QED
    BY <1>5, <1>6

LEMMA TypesInit == Init => Types
  <1> SUFFICES ASSUME Init PROVE Types
    OBVIOUS
  <1>1. \A e : RowsOf(e) = {}
    BY DEF Init, RowsOf
  <1>2. \A w \in Workers : worker[w] = Free /\ worker[w].at = "free"
    BY DEF Init, Free
  <1>3. rows \in Seq(Delivery) /\ jobs \subseteq Job
    BY DEF Init
  <1>4. worker \in [Workers -> {Free} \cup Busy]
    BY DEF Init
  <1>5. dispatched \in [Events -> 0..(1 + MaxRetries)] /\ faults \in 0..MaxFaults
    BY ParametersAssumption DEF Init
  <1>6. taken \cup suspect \cup untracked \cup doubled \subseteq Events /\ strict \in BOOLEAN
    BY DEF Init
  <1> QED
    BY <1>1, <1>2, <1>3, <1>4, <1>5, <1>6 DEF Types, TypeOK, HasRow

\* The queue counts an attempt.
LEMMA Counts ==
    ASSUME Types, NEW job \in jobs, job.attempts < Tries
    PROVE  /\ Counted(job) \in Job
           /\ Counted(job).event = job.event /\ Counted(job).n = job.n
           /\ Counted(job).attempts = job.attempts + 1
  BY Shape DEF Counted, Job

\* A worker's new state, of which the others know nothing.
Becomes(w, b) == worker' = [worker EXCEPT ![w] = b]

LEMMA Becoming ==
    ASSUME Types, NEW w \in Workers, NEW b, Becomes(w, b)
    PROVE  /\ worker'[w] = b
           /\ \A v \in Workers \ {w} : worker'[v] = worker[v]
           /\ b \in {Free} \cup Busy => worker' \in [Workers -> {Free} \cup Busy]
  BY DEF Becomes, Types, TypeOK

\* The rows a step leaves keep their event and their job.
RowsKept ==
    /\ DOMAIN rows \subseteq DOMAIN rows'
    /\ \A i \in DOMAIN rows :
          /\ rows'[i].event = rows[i].event
          /\ rows[i].event # NoEvent => rows'[i].n = rows[i].n

RowOk(w) ==
    /\ HasRow(w) =>
          /\ worker[w].row \in RowsOf(worker[w].job.event)
          /\ AtWork(w) => rows[worker[w].row].n = worker[w].job.n
    /\ worker[w].at = "marking" => HasRow(w)

LEMMA RowStaysOk ==
    ASSUME Types, RowsKept, NEW w \in Workers, worker'[w] = worker[w]
    PROVE  RowOk(w)'
  <1>1. RowOk(w)
    BY DEF Types, RowOk
  <1>2. (HasRow(w)' <=> HasRow(w)) /\ (AtWork(w)' <=> AtWork(w))
    BY DEF HasRow, AtWork
  <1>3. ASSUME HasRow(w)
        PROVE  /\ worker[w].row \in RowsOf(worker[w].job.event)'
               /\ AtWork(w) => rows'[worker[w].row].n = worker[w].job.n
    <2>1. worker[w].job.event \in Events /\ worker[w].job.event # NoEvent
      BY <1>3, Shape, ParametersAssumption DEF HasRow
    <2>2. worker[w].row \in DOMAIN rows /\ rows[worker[w].row].event = worker[w].job.event
      BY <1>1, <1>3 DEF RowOk, RowsOf
    <2> QED
      BY <1>1, <1>3, <2>1, <2>2 DEF RowOk, RowsOf, RowsKept
  <1> QED
    BY <1>1, <1>2, <1>3 DEF RowOk

LEMMA TypesFrom ==
    ASSUME jobs' \subseteq Job, worker' \in [Workers -> {Free} \cup Busy],
           rows' \in Seq(Delivery), dispatched' \in [Events -> 0..(1 + MaxRetries)],
           faults' \in 0..MaxFaults,
           taken' \cup suspect' \cup untracked' \cup doubled' \subseteq Events,
           strict' \in BOOLEAN,
           \A w \in Workers : RowOk(w)',
           \A e \in Events : RowsOf(e)' # {} => \E i \in RowsOf(e)' : Newest(i, e)'
    PROVE  Types'
  <1>1. \A w \in Workers :
           worker'[w].at \in {"open", "answered", "marking"} =>
             worker'[w].row \in {NoRow} \cup {i \in DOMAIN rows' : rows'[i].event # NoEvent}
    <2> SUFFICES ASSUME NEW w \in Workers,
                        worker'[w].at \in {"open", "answered", "marking"},
                        worker'[w].row # NoRow
                 PROVE  worker'[w].row \in {i \in DOMAIN rows' : rows'[i].event # NoEvent}
      OBVIOUS
    <2>1. worker'[w] \in Busy
      BY DEF Free
    <2>2. worker'[w].job.event \in Events
      BY <2>1 DEF Busy, Job
    <2>3. worker'[w].row \in RowsOf(worker[w].job.event)'
      BY DEF RowOk, HasRow
    <2> QED
      BY <2>2, <2>3, ParametersAssumption DEF RowsOf
  <1> QED
    BY <1>1 DEF Types, TypeOK, RowOk

\* Which row is the newest.
LEMMA NewestStays ==
    ASSUME Types, \A e \in Events : RowsOf(e)' = RowsOf(e)
    PROVE  \A e \in Events : /\ RowsOf(e)' # {} => \E i \in RowsOf(e)' : Newest(i, e)'
                             /\ \A i : Newest(i, e)' <=> Newest(i, e)
  BY DEF Types, Newest

LEMMA NewestAppended ==
    ASSUME Types, NEW d \in Delivery, rows' = Append(rows, d)
    PROVE  /\ \A e \in Events : RowsOf(e)' # {} => \E i \in RowsOf(e)' : Newest(i, e)'
           /\ \A n : n = Len(rows) + 1 /\ d.event \in Events => Newest(n, d.event)'
           /\ \A e \in Events \ {d.event} : \A i : Newest(i, e)' <=> Newest(i, e)
           /\ RowsKept
  <1>1. /\ \A e \in Events : RowsOf(e) \subseteq 1..Len(rows)
        /\ Len(rows) \in Nat
    BY Shape
  <1>2. ASSUME NEW e \in Events, d.event = e, NEW n, n = Len(rows) + 1
        PROVE  n \in RowsOf(e)' /\ Newest(n, e)'
    <2>1. RowsOf(e)' = RowsOf(e) \cup {Len(rows) + 1}
      BY <1>2, Appended
    <2> QED
      BY <1>1, <1>2, <2>1 DEF Newest
  <1>3. ASSUME NEW e \in Events, d.event # e
        PROVE  RowsOf(e)' = RowsOf(e) /\ \A i : Newest(i, e)' <=> Newest(i, e)
    <2>1. RowsOf(e)' = RowsOf(e)
      BY <1>3, Appended
    <2> QED
      BY <2>1 DEF Newest
  <1>4. \A e \in Events : RowsOf(e)' # {} => \E i \in RowsOf(e)' : Newest(i, e)'
    BY <1>2, <1>3 DEF Types, Newest
  <1>5. RowsKept
    BY Appended DEF RowsKept
  <1> QED
    BY <1>2, <1>3, <1>4, <1>5

\* CHOOSE finds the newest row.
LEMMA LatestIsNewest ==
    ASSUME Types, NEW e \in Events, RowsOf(e) # {}
    PROVE  Newest(Latest(RowsOf(e)), e)
  <1>1. \E i \in RowsOf(e) : \A j \in RowsOf(e) : j <= i
    BY DEF Types, Newest
  <1> QED
    BY <1>1 DEF Latest, Newest

LEMMA NewestIsOne ==
    ASSUME Types, NEW e \in Events, NEW i, NEW j, Newest(i, e), Newest(j, e)
    PROVE  i = j
  <1>1. i \in Nat /\ j \in Nat
    BY Shape DEF Newest
  <1> QED
    BY <1>1 DEF Newest

LEMMA FaultTypes ==
    ASSUME Types, NEW e \in Events, Fault(e) \/ NoFault
    PROVE  /\ faults' \in 0..MaxFaults /\ suspect' \subseteq Events /\ suspect \subseteq suspect'
           /\ Fault(e) => e \in suspect'
           /\ NoFault => suspect' = suspect
  BY ParametersAssumption DEF Fault, NoFault, Types, TypeOK

\* The database is what it is.
LEMMA Database == [Next]_vars => strict' = strict
  BY DEF Next, vars

\* The steps of the system.
LEMMA Steps ==
    ASSUME [Next]_vars
    PROVE  \/ \E e \in Events : Forward(e)
           \/ \E i \in DOMAIN rows : Retry(i)
           \/ Heartbeat
           \/ \E w \in Workers, job \in jobs :
                 Open(w, job) \/ Skip(w, job) \/ DieEarly(w, job) \/ TooManyAttempts(w, job)
           \/ \E w \in Workers, answer, outcome \in Outcomes : Post(w, answer, outcome)
           \/ \E w \in Workers : Finalize(w)
           \/ \E w \in Workers : ReadLatest(w) \/ MarkExhausted(w)
           \/ \E w \in Workers : Crash(w)
           \/ UNCHANGED vars
  BY DEF Next, Step

\* Both dispatches are about an event.
LEMMA Dispatches ==
    ASSUME Types, (\E e \in Events : Forward(e)) \/ (\E i \in DOMAIN rows : Retry(i))
    PROVE  \E e \in Events : Dispatch(e)
  <1>1. ASSUME NEW i \in DOMAIN rows, Retry(i)
        PROVE  rows[i].event \in Events
    BY <1>1, Shape DEF Retry, Delivery
  <1> QED
    BY <1>1 DEF Forward, Retry

\* What an attempt and its end do to the rows.
LEMMA WorkRows ==
    ASSUME Types, NEW w \in Workers,
           \/ \E answer, outcome \in Outcomes : Post(w, answer, outcome)
           \/ Finalize(w) \/ ReadLatest(w) \/ MarkExhausted(w) \/ Crash(w)
    PROVE  /\ InHand(w)
           /\ rows' \in Seq(Delivery) /\ DOMAIN rows' = DOMAIN rows
           /\ RowsKept
           /\ \A e \in Events : RowsOf(e)' = RowsOf(e)
           /\ \A i \in DOMAIN rows : i # worker[w].row => rows'[i] = rows[i]
  <1>0. InHand(w)
    BY Shape DEF Post, Finalize, ReadLatest, MarkExhausted, Crash, InHand
  <1>1. ASSUME rows' = rows
        PROVE  /\ rows' \in Seq(Delivery) /\ DOMAIN rows' = DOMAIN rows
               /\ RowsKept
               /\ \A e \in Events : RowsOf(e)' = RowsOf(e)
               /\ \A i \in DOMAIN rows : i # worker[w].row => rows'[i] = rows[i]
    BY <1>1, Shape DEF RowsKept, RowsOf
  <1>2. ASSUME AtWork(w) \/ worker[w].at = "marking", NEW v,
               \/ rows' = Answering(w, v) /\ v \in Outcomes
               \/ rows' = Marking(w, v) /\ v \in Statuses
        PROVE  /\ rows' \in Seq(Delivery) /\ DOMAIN rows' = DOMAIN rows
               /\ RowsKept
               /\ \A e \in Events : RowsOf(e)' = RowsOf(e)
               /\ \A i \in DOMAIN rows : i # worker[w].row => rows'[i] = rows[i]
    BY <1>2, Written DEF RowsKept
  <1>3. ASSUME NEW answer \in Outcomes, NEW outcome \in Outcomes, Post(w, answer, outcome)
        PROVE  rows' = Answering(w, answer) /\ AtWork(w)
    BY <1>3 DEF Post, AtWork
  <1>4. "success" \in Statuses /\ "failure" \in Statuses /\ "exhausted" \in Statuses
    BY DEF Statuses
  <1>5. CASE Finalize(w) \/ Crash(w)
    <2>1. \/ rows' = rows
          \/ AtWork(w) /\ (rows' = Marking(w, "success") \/ rows' = Marking(w, "failure"))
      BY <1>5 DEF Finalize, Crash, Completed, AtWork
    <2> QED
      BY <1>0, <1>1, <1>2, <1>4, <2>1
  <1>6. CASE ReadLatest(w) \/ MarkExhausted(w)
    <2>1. \/ rows' = rows
          \/ worker[w].at = "marking" /\ rows' = Marking(w, "exhausted")
      BY <1>6 DEF ReadLatest, MarkExhausted
    <2> QED
      BY <1>0, <1>1, <1>2, <1>4, <2>1
  <1> QED
    BY <1>0, <1>2, <1>3, <1>5, <1>6

\* A worker that lets go, or goes on with its job.
LEMMA WorkWorker ==
    ASSUME Types, NEW w \in Workers,
           \/ \E answer, outcome \in Outcomes : Post(w, answer, outcome)
           \/ Finalize(w) \/ ReadLatest(w) \/ MarkExhausted(w) \/ Crash(w)
    PROVE  /\ worker' \in [Workers -> {Free} \cup Busy]
           /\ RowOk(w)'
           /\ \A v \in Workers \ {w} : worker'[v] = worker[v]
           /\ InHand(w)' => worker'[w].job = worker[w].job /\ jobs' = jobs
           /\ \A j \in jobs' : j \in jobs \/ j = worker[w].job
           /\ jobs \subseteq jobs' /\ dispatched' = dispatched /\ doubled' = doubled
  <1>0. /\ InHand(w) /\ worker[w].job \in Job /\ worker[w].job.event \in Events
        /\ \A e \in Events : RowsOf(e)' = RowsOf(e)
        /\ RowsKept
    BY Shape, WorkRows
  <1>1. dispatched' = dispatched /\ doubled' = doubled /\ jobs \subseteq jobs'
        /\ \A j \in jobs' : j \in jobs \/ j = worker[w].job
    BY DEF Post, Finalize, ReadLatest, MarkExhausted, Crash
  <1>2. ASSUME Becomes(w, Free)
        PROVE  /\ worker' \in [Workers -> {Free} \cup Busy]
               /\ RowOk(w)' /\ ~InHand(w)'
    BY <1>2, Becoming DEF RowOk, HasRow, InHand, Free
  <1>3. ASSUME Becomes(w, [at |-> "failed", job |-> worker[w].job])
        PROVE  /\ worker' \in [Workers -> {Free} \cup Busy]
               /\ RowOk(w)' /\ worker'[w].job = worker[w].job
    <2>1. [at |-> "failed", job |-> worker[w].job] \in Busy
      BY <1>0 DEF Busy
    <2>2. worker' \in [Workers -> {Free} \cup Busy]
      BY <1>3, <2>1, Becoming
    <2>3. worker'[w] = [at |-> "failed", job |-> worker[w].job]
      BY <1>3, Becoming
    <2> QED
      BY <2>2, <2>3 DEF RowOk, HasRow
  <1>4. ASSUME NEW answer \in Outcomes, NEW outcome \in Outcomes, Post(w, answer, outcome)
        PROVE  /\ worker' \in [Workers -> {Free} \cup Busy]
               /\ RowOk(w)' /\ worker'[w].job = worker[w].job /\ jobs' = jobs
    <2>1. PICK b : /\ b = [at |-> "answered", job |-> worker[w].job,
                           row |-> worker[w].row, outcome |-> outcome]
      OBVIOUS
    <2>2. worker[w].row \in Nat
      BY <1>4, Shape DEF Post, AtWork
    <2>3. b \in Busy
      BY <1>0, <2>1, <2>2 DEF Busy
    <2>4. /\ worker'[w] = b /\ jobs' = jobs /\ worker[w].at = "open"
          /\ worker' \in [Workers -> {Free} \cup Busy]
      BY <1>4, <2>1, <2>3, Becoming DEF Post, Becomes
    <2>5. /\ worker'[w].at = "answered" /\ worker'[w].row = worker[w].row
          /\ worker'[w].job = worker[w].job
      BY <2>1, <2>4
    <2>6. RowOk(w)
      BY DEF Types, RowOk
    <2>7. HasRow(w)' => HasRow(w) /\ AtWork(w)
      BY <2>4, <2>5 DEF HasRow, AtWork
    <2>8. HasRow(w) => worker[w].row \in DOMAIN rows /\ rows[worker[w].row].event # NoEvent
      BY <1>0, <2>6, ParametersAssumption DEF RowOk, RowsOf
    <2> QED
      BY <1>0, <2>4, <2>5, <2>6, <2>7, <2>8 DEF RowOk, RowsKept, RowsOf
  <1>5. CASE Finalize(w)
    <2>1. Becomes(w, Free) \/ (Becomes(w, [at |-> "failed", job |-> worker[w].job]) /\ GivesUp(w))
      BY <1>5 DEF Finalize, Becomes
    <2>2. GivesUp(w) => jobs' = jobs
      BY <1>5 DEF Finalize, GivesUp
    <2> QED
      BY <1>1, <1>2, <1>3, <2>1, <2>2, Becoming
  <1>6. CASE ReadLatest(w)
    <2>1. PICK ids : ids = RowsOf(worker[w].job.event)
      OBVIOUS
    <2>2. CASE ids = {}
      BY <1>1, <1>2, <1>6, <2>1, <2>2, Becoming DEF ReadLatest, Becomes
    <2>3. CASE ids # {}
      <3>1. PICK b : b = [at |-> "marking", job |-> worker[w].job, row |-> Latest(ids)]
        OBVIOUS
      <3>2. Latest(ids) \in ids /\ Latest(ids) \in Nat /\ Latest(ids) # NoRow
        <4>1. Newest(Latest(ids), worker[w].job.event)
          BY <1>0, <2>1, <2>3, LatestIsNewest
        <4>2. ids \subseteq 1..Len(rows) /\ Len(rows) \in Nat
          BY <1>0, <2>1, Shape
        <4> QED
          BY <2>1, <4>1, <4>2 DEF Newest, NoRow
      <3>3. b \in Busy
        BY <1>0, <3>1, <3>2 DEF Busy
      <3>4. Becomes(w, b) /\ jobs' = jobs
        BY <1>6, <2>1, <2>3, <3>1 DEF ReadLatest, Becomes
      <3>5. worker'[w] = b /\ worker' \in [Workers -> {Free} \cup Busy]
        BY <3>3, <3>4, Becoming
      <3>6. worker'[w].job = worker[w].job /\ worker'[w].at = "marking"
            /\ worker'[w].row = Latest(ids)
        BY <3>1, <3>5
      <3>7. RowsOf(worker[w].job.event)' = ids
        BY <1>0, <2>1, <3>6
      <3> QED
        BY <1>1, <3>2, <3>4, <3>5, <3>6, <3>7, Becoming DEF RowOk, HasRow, AtWork
    <2> QED
      BY <2>2, <2>3
  <1>7. CASE MarkExhausted(w) \/ Crash(w)
    BY <1>1, <1>2, <1>7, Becoming DEF MarkExhausted, Crash, Becomes
  <1>8. CASE \E answer, outcome \in Outcomes : Post(w, answer, outcome)
    <2>1. \A v \in Workers \ {w} : worker'[v] = worker[v]
      BY <1>8, Becoming DEF Post, Becomes
    <2> QED
      BY <1>1, <1>4, <1>8, <2>1
  <1> QED
    BY <1>5, <1>6, <1>7, <1>8

\* Taking a job from the queue.
LEMMA PopWorker ==
    ASSUME Types, NEW w \in Workers, NEW job \in jobs,
           Open(w, job) \/ Skip(w, job) \/ DieEarly(w, job) \/ TooManyAttempts(w, job)
    PROVE  /\ worker' \in [Workers -> {Free} \cup Busy] /\ jobs' \subseteq Job
           /\ \A v \in Workers \ {w} : worker'[v] = worker[v]
           /\ ~InHand(w)
           /\ InHand(w)' => /\ worker'[w].job.event = job.event /\ worker'[w].job.n = job.n
                            /\ worker'[w].job.attempts >= job.attempts
                            /\ jobs' = jobs \ {job}
           /\ \A j \in jobs' : \/ j \in jobs \ {job}
                               \/ /\ ~InHand(w)'
                                  /\ j = Counted(job)
                                  /\ j.event = job.event /\ j.n = job.n
                                  /\ j.attempts = job.attempts + 1
           /\ jobs \ {job} \subseteq jobs'
           /\ dispatched' = dispatched /\ doubled' = doubled /\ taken' = taken
           /\ ~Open(w, job) => rows' = rows
  <1>1. /\ job \in Job /\ worker[w] = Free /\ job.attempts \in Nat
        /\ (job.attempts < Tries => Counted(job) \in Job)
        /\ ~TooManyAttempts(w, job) => job.attempts < Tries
    BY Shape, Counts DEF Open, Skip, DieEarly, TooManyAttempts, Pop
  <1>2. /\ job.attempts < Tries => Counted(job).event = job.event /\ Counted(job).n = job.n
                                     /\ Counted(job).attempts = job.attempts + 1
        /\ Len(rows) + 1 \in Nat /\ NoRow \in Nat
    BY Counts, Shape DEF NoRow
  <1>3. /\ dispatched' = dispatched /\ doubled' = doubled /\ taken' = taken
        /\ ~Open(w, job) => rows' = rows
    BY DEF Open, Skip, DieEarly, TooManyAttempts
  <1>4. CASE Open(w, job)
    <2>1. PICK r \in {Len(rows) + 1, NoRow} :
             Becomes(w, [at |-> "open", job |-> Counted(job), row |-> r])
      BY <1>4 DEF Open, Becomes
    <2>2. [at |-> "open", job |-> Counted(job), row |-> r] \in Busy
      BY <1>1, <1>2, <1>4 DEF Open, Pop, Busy
    <2>3. /\ worker'[w] = [at |-> "open", job |-> Counted(job), row |-> r]
          /\ worker' \in [Workers -> {Free} \cup Busy]
          /\ \A v \in Workers \ {w} : worker'[v] = worker[v]
      BY <2>1, <2>2, Becoming
    <2>4. worker'[w].job = Counted(job) /\ jobs' = jobs \ {job} /\ job.attempts < Tries
      BY <1>4, <2>3 DEF Open, Pop
    <2>5. jobs' \subseteq Job
      BY <2>4 DEF Types, TypeOK
    <2> QED
      BY <1>1, <1>2, <1>3, <2>3, <2>4, <2>5 DEF InHand
  <1>5. CASE Skip(w, job)
    BY <1>1, <1>3, <1>5 DEF Skip, InHand, Types, TypeOK
  <1>6. CASE DieEarly(w, job)
    BY <1>1, <1>2, <1>3, <1>6 DEF DieEarly, Pop, InHand, Types, TypeOK
  <1>7. CASE TooManyAttempts(w, job)
    <2>1. Becomes(w, [at |-> "failed", job |-> job]) /\ jobs' = jobs \ {job}
      BY <1>7 DEF TooManyAttempts, Becomes
    <2>2. [at |-> "failed", job |-> job] \in Busy
      BY <1>1 DEF Busy
    <2>3. /\ worker'[w] = [at |-> "failed", job |-> job]
          /\ worker' \in [Workers -> {Free} \cup Busy]
          /\ \A v \in Workers \ {w} : worker'[v] = worker[v]
      BY <2>1, <2>2, Becoming
    <2>4. jobs' \subseteq Job
      BY <2>1 DEF Types, TypeOK
    <2> QED
      BY <1>1, <1>3, <2>1, <2>3, <2>4 DEF InHand
  <1> QED
    BY <1>4, <1>5, <1>6, <1>7

\* Opening a row.
LEMMA Opens ==
    ASSUME Types, NEW w \in Workers, NEW job \in jobs, Open(w, job)
    PROVE  /\ worker'[w].at = "open"
           /\ worker'[w].job.event = job.event /\ worker'[w].job.n = job.n
           /\ worker'[w].job.attempts = job.attempts + 1
           /\ \/ /\ worker'[w].row = Len(rows) + 1
                 /\ [event |-> job.event, n |-> job.n, status |-> "pending",
                     answer |-> "none"] \in Delivery
                 /\ rows' = Append(rows, [event |-> job.event, n |-> job.n,
                                          status |-> "pending", answer |-> "none"])
                 /\ NoFault /\ untracked' = untracked
              \/ /\ worker'[w].row = NoRow /\ rows' = rows
                 /\ Fault(job.event) /\ untracked' = untracked \cup {job.event}
  <1>1. job \in Job
    BY Shape
  <1>2. /\ Counted(job).event = job.event /\ Counted(job).n = job.n
        /\ Counted(job).attempts = job.attempts + 1
    BY Counts DEF Open, Pop
  <1>3. [event |-> job.event, n |-> job.n, status |-> "pending", answer |-> "none"] \in Delivery
    BY <1>1 DEF Delivery, Job, Statuses
  <1>4. CASE /\ rows' = Append(rows, [event |-> job.event, n |-> job.n,
                                      status |-> "pending", answer |-> "none"])
             /\ Becomes(w, [at |-> "open", job |-> Counted(job), row |-> Len(rows) + 1])
             /\ NoFault /\ UNCHANGED untracked
    <2>1. worker'[w] = [at |-> "open", job |-> Counted(job), row |-> Len(rows) + 1]
      BY <1>4, Becoming
    <2> QED
      BY <1>2, <1>3, <1>4, <2>1
  <1>5. CASE /\ Becomes(w, [at |-> "open", job |-> Counted(job), row |-> NoRow])
             /\ Fault(job.event) /\ untracked' = untracked \cup {job.event}
             /\ UNCHANGED rows
    <2>1. worker'[w] = [at |-> "open", job |-> Counted(job), row |-> NoRow]
      BY <1>5, Becoming
    <2> QED
      BY <1>2, <1>5, <2>1
  <1> QED
    BY <1>4, <1>5 DEF Open, Becomes

LEMMA TypesStep == Types /\ [Next]_vars => Types'
  <1> SUFFICES ASSUME Types, [Next]_vars PROVE Types'
    OBVIOUS
  <1>0. /\ worker \in [Workers -> {Free} \cup Busy] /\ jobs \subseteq Job
        /\ rows \in Seq(Delivery) /\ dispatched \in [Events -> 0..(1 + MaxRetries)]
        /\ faults \in 0..MaxFaults /\ MaxRetries \in Nat
        /\ taken \subseteq Events /\ suspect \subseteq Events
        /\ untracked \subseteq Events /\ doubled \subseteq Events /\ strict' \in BOOLEAN
    BY ParametersAssumption, Database DEF Types, TypeOK
  <1>1. ASSUME rows' = rows
        PROVE  /\ RowsKept
               /\ \A e \in Events : RowsOf(e)' # {} => \E i \in RowsOf(e)' : Newest(i, e)'
    BY <1>1, NewestStays DEF RowsKept, RowsOf
  <1>2. ASSUME NEW e \in Events, Dispatch(e)
        PROVE  Types'
    <2>1. dispatched[e] \in 0..(1 + MaxRetries) /\ dispatched[e] <= MaxRetries
      BY <1>0, <1>2 DEF Dispatch
    <2>2. [event |-> e, n |-> dispatched[e] + 1, attempts |-> 0] \in Job
      BY <1>0, <2>1, ParametersAssumption DEF Job, Numbers
    <2>3. jobs' \subseteq Job
      BY <1>0, <1>2, <2>2 DEF Dispatch
    <2>4. dispatched' \in [Events -> 0..(1 + MaxRetries)]
      BY <1>0, <1>2, <2>1 DEF Dispatch
    <2>5. doubled' \subseteq Events
      BY <1>0, <1>2 DEF Dispatch
    <2>6. UNCHANGED <<worker, rows, taken, faults, suspect, untracked>>
      BY <1>2 DEF Dispatch
    <2>7. \A w \in Workers : RowOk(w)'
      BY <1>1, <2>6, RowStaysOk
    <2> QED
      BY <1>0, <1>1, <2>3, <2>4, <2>5, <2>6, <2>7, TypesFrom
  <1>3. CASE Heartbeat
    <2>1. PICK d \in Delivery : rows' = Append(rows, d)
      <3>1. \A s \in {"pending", "success", "failure"} :
               [event |-> NoEvent, status |-> s] \in Delivery
        BY DEF Delivery, Statuses
      <3> QED
        BY <1>3, <3>1 DEF Heartbeat
    <2>2. rows' \in Seq(Delivery)
      BY <2>1, Appended
    <2>3. UNCHANGED <<jobs, worker, dispatched, taken, faults, suspect, untracked, doubled>>
      BY <1>3 DEF Heartbeat
    <2>4. \A w \in Workers : RowOk(w)'
      BY <2>1, <2>3, NewestAppended, RowStaysOk
    <2> QED
      BY <1>0, <2>1, <2>2, <2>3, <2>4, NewestAppended, TypesFrom
  <1>4. ASSUME NEW w \in Workers, NEW job \in jobs,
               Open(w, job) \/ Skip(w, job) \/ DieEarly(w, job) \/ TooManyAttempts(w, job)
        PROVE  Types'
    <2>0. job.event \in Events /\ job.event # NoEvent
      BY Shape, ParametersAssumption
    <2>1. /\ worker' \in [Workers -> {Free} \cup Busy] /\ jobs' \subseteq Job
          /\ \A v \in Workers \ {w} : worker'[v] = worker[v]
          /\ dispatched' = dispatched /\ doubled' = doubled /\ taken' = taken
          /\ ~Open(w, job) => rows' = rows
      BY <1>4, PopWorker
    <2>2. /\ faults' \in 0..MaxFaults /\ suspect' \subseteq Events
      <3>1. Fault(job.event) \/ NoFault
        BY <1>4 DEF Open, Skip, DieEarly, TooManyAttempts
      <3> QED
        BY <2>0, <3>1, FaultTypes
    <2>3. untracked' \subseteq Events
      BY <1>0, <1>4, <2>0 DEF Open, Skip, DieEarly, TooManyAttempts
    <2>4. CASE ~Open(w, job)
      <3>1. worker'[w] = worker[w] \/ worker'[w].at = "failed"
        <4>1. TooManyAttempts(w, job) => Becomes(w, [at |-> "failed", job |-> job])
          BY DEF TooManyAttempts, Becomes
        <4> QED
          BY <1>4, <2>4, <4>1, Becoming DEF Skip, DieEarly, TooManyAttempts
      <3>2. worker'[w].at = "failed" => RowOk(w)'
        BY DEF RowOk, HasRow
      <3>3. \A v \in Workers : RowOk(v)'
        BY <1>1, <2>1, <2>4, <3>1, <3>2, RowStaysOk
      <3> QED
        BY <1>0, <1>1, <2>1, <2>2, <2>3, <2>4, <3>3, TypesFrom
    <2>5. CASE Open(w, job)
      <3>1. worker'[w].at = "open" /\ worker'[w].job.event = job.event /\ worker'[w].job.n = job.n
        BY <2>5, Opens
      <3>2. CASE worker'[w].row = NoRow /\ rows' = rows
        <4>1. RowOk(w)'
          BY <3>1, <3>2 DEF RowOk, HasRow
        <4>2. \A v \in Workers : RowOk(v)'
          BY <1>1, <2>1, <3>2, <4>1, RowStaysOk
        <4> QED
          BY <1>0, <1>1, <2>1, <2>2, <2>3, <3>2, <4>2, TypesFrom
      <3>3. ASSUME NEW d \in Delivery, rows' = Append(rows, d), worker'[w].row = Len(rows) + 1,
                   d.event = job.event, d.n = job.n
            PROVE  Types'
        <4>1. /\ rows' \in Seq(Delivery)
              /\ worker'[w].row \in DOMAIN rows' /\ rows'[worker'[w].row] = d
          BY <3>3, Appended, Shape
        <4>2. RowOk(w)'
          BY <3>1, <3>3, <4>1 DEF RowOk, HasRow, RowsOf
        <4>3. /\ \A v \in Workers : RowOk(v)'
              /\ \A e \in Events : RowsOf(e)' # {} => \E i \in RowsOf(e)' : Newest(i, e)'
          BY <2>1, <3>3, <4>2, NewestAppended, RowStaysOk
        <4> QED
          BY <1>0, <2>1, <2>2, <2>3, <4>1, <4>3, TypesFrom
      <3> QED
        BY <2>5, <3>2, <3>3, Opens
    <2> QED
      BY <2>4, <2>5
  <1>5. ASSUME NEW w \in Workers,
               \/ \E answer, outcome \in Outcomes : Post(w, answer, outcome)
               \/ Finalize(w) \/ ReadLatest(w) \/ MarkExhausted(w) \/ Crash(w)
        PROVE  Types'
    <2>1. /\ rows' \in Seq(Delivery) /\ RowsKept
          /\ \A e \in Events : RowsOf(e)' = RowsOf(e)
          /\ worker[w].job \in Job /\ worker[w].job.event \in Events
      BY <1>5, WorkRows, Shape
    <2>2. /\ worker' \in [Workers -> {Free} \cup Busy] /\ RowOk(w)'
          /\ \A v \in Workers \ {w} : worker'[v] = worker[v]
          /\ \A j \in jobs' : j \in jobs \/ j = worker[w].job
          /\ dispatched' = dispatched /\ doubled' = doubled
      BY <1>5, WorkWorker
    <2>3. faults' \in 0..MaxFaults /\ suspect' \subseteq Events
      <3>1. Fault(worker[w].job.event) \/ NoFault
        BY <1>5 DEF Post, Finalize, ReadLatest, MarkExhausted, Crash
      <3> QED
        BY <2>1, <3>1, FaultTypes
    <2>4. taken' \subseteq Events /\ untracked' \subseteq Events
      BY <1>0, <1>5, <2>1 DEF Post, Finalize, ReadLatest, MarkExhausted, Crash
    <2>5. \A v \in Workers : RowOk(v)'
      BY <2>1, <2>2, RowStaysOk
    <2>6. \A e \in Events : RowsOf(e)' # {} => \E i \in RowsOf(e)' : Newest(i, e)'
      BY <2>1, NewestStays
    <2> QED
      BY <1>0, <2>1, <2>2, <2>3, <2>4, <2>5, <2>6, TypesFrom
  <1>6. CASE UNCHANGED vars
    BY <1>0, <1>1, <1>6, RowStaysOk, TypesFrom DEF vars
  <1> QED
    BY <1>2, <1>3, <1>4, <1>5, <1>6, Steps, Dispatches

LEMMA TypesAlways == Spec => []Types
  <1> QED
    BY TypesInit, TypesStep, PTL DEF Spec

\* Every variable keeps its type, and a worker's row is one of an event.
THEOREM TypeCorrect == Spec => []TypeOK
  <1>1. Types => TypeOK
    BY DEF Types
  <1> QED
    BY <1>1, TypesAlways, PTL

-----------------------------------------------------------------------------
(* One job.                                                                *)

LEMMA OneJobInit == Init => OneJob
  BY DEF Init, OneJob, InHand, RowsOf

\* Rows stay behind the dispatches of their event.
RowsBehind == \A e \in Events : \A i \in RowsOf(e) : rows[i].n <= dispatched[e]

LEMMA RowsBehindStep ==
    ASSUME Types, OneJob, [Next]_vars
    PROVE  RowsBehind'
  <1>0. RowsBehind
    BY DEF OneJob, RowsBehind
  <1>1. ASSUME RowsKept, \A e \in Events : RowsOf(e)' = RowsOf(e), dispatched' = dispatched
        PROVE  RowsBehind'
    <2>1. \A e \in Events : \A i \in RowsOf(e) : rows'[i].n = rows[i].n
      BY <1>1, ParametersAssumption DEF RowsOf, RowsKept
    <2> QED
      BY <1>0, <1>1, <2>1 DEF RowsBehind
  <1>2. ASSUME rows' = rows
        PROVE  RowsKept /\ \A e \in Events : RowsOf(e)' = RowsOf(e)
    BY <1>2 DEF RowsKept, RowsOf
  <1>3. ASSUME NEW e \in Events, Dispatch(e)
        PROVE  RowsBehind'
    <2>1. rows' = rows /\ \A f \in Events : RowsOf(f)' = RowsOf(f)
      BY <1>2, <1>3 DEF Dispatch
    <2>2. \A f \in Events : dispatched[f] \in Nat /\ dispatched'[f] \in Nat
                              /\ dispatched[f] <= dispatched'[f]
      BY <1>3, Shape DEF Dispatch, Types, TypeOK
    <2>3. \A f \in Events : \A i \in RowsOf(f) : rows[i].n \in Nat
      BY Shape, ParametersAssumption DEF RowsOf, Delivery, Numbers
    <2> QED
      BY <1>0, <2>1, <2>2, <2>3 DEF RowsBehind
  <1>4. ASSUME NEW d \in Delivery, rows' = Append(rows, d), dispatched' = dispatched,
               d.event \in Events => d.n <= dispatched[d.event]
        PROVE  RowsBehind'
    <2> SUFFICES ASSUME NEW e \in Events, NEW i \in RowsOf(e)'
                 PROVE  rows'[i].n <= dispatched[e]
      BY <1>4 DEF RowsBehind
    <2>1. /\ i = Len(rows) + 1 => rows'[i] = d /\ d.event = e
          /\ i # Len(rows) + 1 => i \in RowsOf(e) /\ rows'[i] = rows[i]
      BY <1>4, Appended, Shape DEF RowsOf
    <2> QED
      BY <1>0, <1>4, <2>1 DEF RowsBehind
  <1>5. CASE Heartbeat
    <2>1. \E d \in Delivery : rows' = Append(rows, d) /\ d.event = NoEvent
      <3>1. \A s \in {"pending", "success", "failure"} :
               [event |-> NoEvent, status |-> s] \in Delivery
        BY DEF Delivery, Statuses
      <3> QED
        BY <1>5, <3>1 DEF Heartbeat
    <2> QED
      BY <1>4, <1>5, <2>1, ParametersAssumption DEF Heartbeat
  <1>6. ASSUME NEW w \in Workers, NEW job \in jobs,
               Open(w, job) \/ Skip(w, job) \/ DieEarly(w, job) \/ TooManyAttempts(w, job)
        PROVE  RowsBehind'
    <2>1. dispatched' = dispatched /\ job.n <= dispatched[job.event] /\ job.event \in Events
      BY <1>6, PopWorker, Shape DEF OneJob
    <2>2. CASE rows' = rows
      BY <1>1, <1>2, <2>1, <2>2
    <2>3. CASE rows' # rows
      <3>0. Open(w, job)
        BY <1>6, <2>3, PopWorker
      <3>1. PICK d \in Delivery :
               /\ d = [event |-> job.event, n |-> job.n, status |-> "pending", answer |-> "none"]
               /\ rows' = Append(rows, d)
        BY <2>3, <3>0, Opens
      <3>2. d.event = job.event /\ d.n = job.n
        BY <3>1
      <3> QED
        BY <1>4, <2>1, <3>1, <3>2
    <2> QED
      BY <2>2, <2>3
  <1>7. ASSUME NEW w \in Workers,
               \/ \E answer, outcome \in Outcomes : Post(w, answer, outcome)
               \/ Finalize(w) \/ ReadLatest(w) \/ MarkExhausted(w) \/ Crash(w)
        PROVE  RowsBehind'
    BY <1>1, <1>7, WorkRows, WorkWorker
  <1>8. CASE UNCHANGED vars
    BY <1>1, <1>2, <1>8 DEF vars
  <1> QED
    BY <1>3, <1>5, <1>6, <1>7, <1>8, Steps, Dispatches

LEMMA OneJobStep == Types /\ OneJob /\ [Next]_vars => OneJob'
  <1> SUFFICES ASSUME Types, OneJob, [Next]_vars PROVE OneJob'
    OBVIOUS
  <1>0. /\ RowsBehind'
        /\ \A j \in jobs : j \in Job /\ j.event \in Events /\ j.n \in Nat
                              /\ j.n <= dispatched[j.event]
        /\ \A w \in Workers : InHand(w) =>
              /\ worker[w].job \in Job /\ worker[w].job.event \in Events
              /\ worker[w].job.n \in Nat /\ worker[w].job.n <= dispatched[worker[w].job.event]
        /\ \A e \in Events : dispatched[e] \in Nat
    BY RowsBehindStep, Shape DEF OneJob
  <1>1. ASSUME UNCHANGED <<jobs, worker, dispatched, doubled>>
        PROVE  OneJob'
    BY <1>0, <1>1 DEF OneJob, Rivals, InHand, RowsBehind
  <1>2. ASSUME NEW e \in Events, Dispatch(e)
        PROVE  OneJob'
    <2>1. PICK new : new = [event |-> e, n |-> dispatched[e] + 1, attempts |-> 0]
      OBVIOUS
    <2>2. /\ jobs' = jobs \cup {new} /\ worker' = worker
          /\ new.event = e /\ new.n = dispatched[e] + 1
          /\ doubled \subseteq doubled' /\ (AliveAny(e) => e \in doubled')
          /\ dispatched' = [dispatched EXCEPT ![e] = @ + 1]
      BY <1>2, <2>1 DEF Dispatch
    <2>3. /\ \A f \in Events : dispatched[f] <= dispatched'[f]
          /\ dispatched'[e] = dispatched[e] + 1
          /\ \A f \in Events : dispatched'[f] \in Nat
      BY <1>0, <2>2 DEF Types, TypeOK
    <2>4. ASSUME NEW j \in Job, j.event = e,
                 \/ j \in jobs
                 \/ \E w \in Workers : InHand(w) /\ worker[w].job = j
          PROVE  e \in doubled' /\ j.n < new.n
      <3>1. Alive(e, j.n) /\ j.n \in Numbers
        BY <2>4, Shape DEF Alive, InHand
      <3>2. j.n <= dispatched[e] /\ j.n \in Nat
        BY <1>0, <2>4
      <3> QED
        BY <1>0, <2>2, <3>1, <3>2 DEF AliveAny
    <2>5. \A j \in jobs : ~Rivals(j, new)' /\ ~Rivals(new, j)'
      <3>1. \A j \in jobs : j.event = e => e \in doubled' /\ j.n # new.n
        BY <1>0, <2>4, <2>2
      <3> QED
        BY <2>2, <3>1 DEF Rivals
    <2>6. \A w \in Workers : InHand(w) =>
             /\ worker[w].job.event = e => e \in doubled' /\ worker[w].job.n # new.n
      BY <1>0, <2>2, <2>4
    <2>7. \A j, k \in jobs' : Rivals(j, k)' => j = k
      BY <2>2, <2>5 DEF OneJob, Rivals
    <2>8. \A w \in Workers : InHand(w)' => \A j \in jobs' : ~Rivals(worker[w].job, j)'
      BY <2>2, <2>6 DEF OneJob, Rivals, InHand
    <2>9. \A w, v \in Workers :
             InHand(w)' /\ InHand(v)' /\ Rivals(worker[w].job, worker[v].job)' => w = v
      BY <2>2 DEF OneJob, Rivals, InHand
    <2>10. \A j \in jobs' : j.n <= dispatched'[j.event]
      BY <1>0, <2>2, <2>3
    <2>11. \A w \in Workers : InHand(w)' => worker'[w].job.n <= dispatched'[worker'[w].job.event]
      BY <1>0, <2>2, <2>3 DEF InHand
    <2> QED
      BY <1>0, <2>7, <2>8, <2>9, <2>10, <2>11 DEF OneJob, RowsBehind
  <1>3. ASSUME NEW w \in Workers, NEW job \in jobs,
               Open(w, job) \/ Skip(w, job) \/ DieEarly(w, job) \/ TooManyAttempts(w, job)
        PROVE  OneJob'
    <2>1. /\ \A v \in Workers \ {w} : worker'[v] = worker[v]
          /\ ~InHand(w)
          /\ InHand(w)' => /\ worker'[w].job.event = job.event /\ worker'[w].job.n = job.n
                           /\ jobs' = jobs \ {job}
          /\ \A j \in jobs' : \/ j \in jobs \ {job}
                              \/ /\ ~InHand(w)' /\ j = Counted(job)
                                 /\ j.event = job.event /\ j.n = job.n
          /\ dispatched' = dispatched /\ doubled' = doubled
      BY <1>3, PopWorker
    <2>2. \A v \in Workers \ {w} : InHand(v)' <=> InHand(v)
      BY <2>1 DEF InHand
    <2>3. \A j, k \in jobs' : Rivals(j, k)' => j = k
      BY <2>1 DEF OneJob, Rivals
    <2>4. \A v \in Workers : InHand(v)' => \A j \in jobs' : ~Rivals(worker[v].job, j)'
      BY <2>1, <2>2 DEF OneJob, Rivals
    <2>5. \A u, v \in Workers :
             InHand(u)' /\ InHand(v)' /\ Rivals(worker[u].job, worker[v].job)' => u = v
      BY <2>1, <2>2 DEF OneJob, Rivals
    <2>6. \A j \in jobs' : j.n <= dispatched'[j.event]
      BY <1>0, <2>1
    <2>7. \A v \in Workers : InHand(v)' => worker'[v].job.n <= dispatched'[worker'[v].job.event]
      BY <1>0, <2>1, <2>2
    <2> QED
      BY <1>0, <2>3, <2>4, <2>5, <2>6, <2>7 DEF OneJob, RowsBehind
  <1>4. ASSUME NEW w \in Workers,
               \/ \E answer, outcome \in Outcomes : Post(w, answer, outcome)
               \/ Finalize(w) \/ ReadLatest(w) \/ MarkExhausted(w) \/ Crash(w)
        PROVE  OneJob'
    <2>1. /\ \A v \in Workers \ {w} : worker'[v] = worker[v]
          /\ InHand(w)
          /\ InHand(w)' => worker'[w].job = worker[w].job /\ jobs' = jobs
          /\ \A j \in jobs' : j \in jobs \/ j = worker[w].job
          /\ dispatched' = dispatched /\ doubled' = doubled
      BY <1>4, WorkRows, WorkWorker
    <2>2. \A v \in Workers \ {w} : InHand(v)' <=> InHand(v)
      BY <2>1 DEF InHand
    <2>3. \A j, k \in jobs' : Rivals(j, k)' => j = k
      BY <2>1 DEF OneJob, Rivals
    <2>4. \A v \in Workers : InHand(v)' => \A j \in jobs' : ~Rivals(worker[v].job, j)'
      BY <2>1, <2>2 DEF OneJob, Rivals
    <2>5. \A u, v \in Workers :
             InHand(u)' /\ InHand(v)' /\ Rivals(worker[u].job, worker[v].job)' => u = v
      BY <2>1, <2>2 DEF OneJob, Rivals
    <2>6. \A j \in jobs' : j.n <= dispatched'[j.event]
      BY <1>0, <2>1
    <2>7. \A v \in Workers : InHand(v)' => worker'[v].job.n <= dispatched'[worker'[v].job.event]
      BY <1>0, <2>1, <2>2
    <2> QED
      BY <1>0, <2>3, <2>4, <2>5, <2>6, <2>7 DEF OneJob, RowsBehind
  <1> QED
    BY <1>1, <1>2, <1>3, <1>4, Steps, Dispatches DEF Heartbeat, vars

LEMMA OneJobAlways == Spec => [](Types /\ OneJob)
  <1>1. Init => Types /\ OneJob
    BY TypesInit, OneJobInit
  <1>2. Types /\ OneJob /\ [Next]_vars => (Types /\ OneJob)'
    BY TypesStep, OneJobStep
  <1> QED
    BY <1>1, <1>2, PTL DEF Spec

-----------------------------------------------------------------------------
(* The row under way is pending.                                           *)

\* Central's answer reaches the worker, or not.
LEMMA Posts ==
    ASSUME Types, NEW w \in Workers, NEW answer \in Outcomes, NEW outcome \in Outcomes,
           Post(w, answer, outcome)
    PROVE  /\ worker[w].at = "open" /\ AtWork(w) /\ worker'[w].at = "answered"
           /\ worker'[w].job = worker[w].job /\ worker'[w].row = worker[w].row
           /\ worker'[w].outcome = outcome
           /\ rows' = Answering(w, answer)
           /\ \/ answer = outcome /\ NoFault
              \/ answer = "success" /\ outcome = "error" /\ Fault(worker[w].job.event)
           /\ jobs' = jobs /\ untracked' = untracked
  <1>1. Becomes(w, [at |-> "answered", job |-> worker[w].job,
                    row |-> worker[w].row, outcome |-> outcome])
    BY DEF Post, Becomes
  <1>2. worker'[w] = [at |-> "answered", job |-> worker[w].job,
                      row |-> worker[w].row, outcome |-> outcome]
    BY <1>1, Becoming
  <1> QED
    BY <1>2 DEF Post, AtWork

\* After its attempt a worker goes on to failed(), to the row it is to mark, or to the
\* next job.
LEMMA Ends ==
    ASSUME Types, NEW w \in Workers,
           Finalize(w) \/ ReadLatest(w) \/ MarkExhausted(w) \/ Crash(w)
    PROVE  /\ ~AtWork(w)'
           /\ InHand(w)' => worker'[w].at \in {"failed", "marking"}
           /\ worker'[w].at = "failed" => Finalize(w) /\ GivesUp(w)
           /\ worker'[w].at = "marking" =>
                 ReadLatest(w) /\ worker'[w].row = Latest(RowsOf(worker[w].job.event))
  <1>1. Becomes(w, Free) => ~InHand(w)' /\ worker'[w].at = "free"
    BY Becoming DEF InHand, Free
  <1>2. Becomes(w, [at |-> "failed", job |-> worker[w].job]) => worker'[w].at = "failed"
    BY Becoming
  <1>3. Finalize(w) => \/ Becomes(w, Free)
                       \/ GivesUp(w) /\ Becomes(w, [at |-> "failed", job |-> worker[w].job])
    BY DEF Finalize, Becomes
  <1>4. MarkExhausted(w) \/ Crash(w) => Becomes(w, Free)
    BY DEF MarkExhausted, Crash, Becomes
  <1>5. CASE ReadLatest(w)
    <2>1. PICK r : r = Latest(RowsOf(worker[w].job.event))
      OBVIOUS
    <2>2. \/ Becomes(w, Free)
          \/ Becomes(w, [at |-> "marking", job |-> worker[w].job, row |-> r])
      BY <1>5, <2>1 DEF ReadLatest, Becomes
    <2>3. Becomes(w, [at |-> "marking", job |-> worker[w].job, row |-> r]) =>
             worker'[w].at = "marking" /\ worker'[w].row = r
      <3>1. Becomes(w, [at |-> "marking", job |-> worker[w].job, row |-> r]) =>
               worker'[w] = [at |-> "marking", job |-> worker[w].job, row |-> r]
        BY Becoming
      <3> QED
        BY <3>1
    <2> QED
      BY <1>1, <1>5, <2>1, <2>2, <2>3 DEF AtWork
  <1> QED
    BY <1>1, <1>2, <1>3, <1>4, <1>5 DEF AtWork

LEMMA PendingInit == Init => Pending
  BY DEF Init, Pending, AtWork, Free

LEMMA PendingStep == Types /\ OneJob /\ Pending /\ [Next]_vars => Pending'
  <1> SUFFICES ASSUME Types, OneJob, Pending, [Next]_vars,
                      NEW w \in Workers, (AtWork(w) /\ HasRow(w))',
                      worker'[w].job.event \notin doubled'
               PROVE  rows'[worker'[w].row].status = "pending"
    BY DEF Pending
  <1>0. doubled \subseteq doubled'
    <2>1. \A e \in Events : Dispatch(e) => doubled \subseteq doubled'
      BY DEF Dispatch
    <2> QED
      BY <2>1, Steps, Dispatches, PopWorker, WorkWorker DEF Heartbeat, vars
  <1>1. ASSUME worker'[w] = worker[w]
        PROVE  /\ AtWork(w) /\ HasRow(w) /\ InHand(w) /\ worker[w].job.event \notin doubled
               /\ worker[w].job.event \in Events
               /\ worker[w].row \in DOMAIN rows /\ rows[worker[w].row].status = "pending"
    <2>1. AtWork(w) /\ HasRow(w) /\ worker[w].job.event \notin doubled
      BY <1>0, <1>1 DEF AtWork, HasRow
    <2> QED
      BY <2>1, Shape DEF Pending, Types, AtWork, RowsOf
  <1>2. ASSUME worker'[w] = worker[w], rows' = rows
        PROVE  rows'[worker'[w].row].status = "pending"
    BY <1>1, <1>2
  <1>3. CASE Heartbeat
    <2>1. worker'[w] = worker[w]
      BY <1>3 DEF Heartbeat
    <2>2. \E d \in Delivery : rows' = Append(rows, d)
      <3>1. \A s \in {"pending", "success", "failure"} :
               [event |-> NoEvent, status |-> s] \in Delivery
        BY DEF Delivery, Statuses
      <3> QED
        BY <1>3, <3>1 DEF Heartbeat
    <2> QED
      BY <1>1, <2>1, <2>2, Appended
  <1>4. ASSUME NEW v \in Workers, NEW job \in jobs,
               Open(v, job) \/ Skip(v, job) \/ DieEarly(v, job) \/ TooManyAttempts(v, job)
        PROVE  rows'[worker'[w].row].status = "pending"
    <2>1. CASE ~Open(v, job)
      <3>1. rows' = rows /\ (v # w => worker'[w] = worker[w])
        BY <1>4, <2>1, PopWorker
      <3>2. v = w => worker'[w] = worker[w]
        <4>1. TooManyAttempts(w, job) => worker'[w].at = "failed"
          <5>1. TooManyAttempts(w, job) => Becomes(w, [at |-> "failed", job |-> job])
            BY DEF TooManyAttempts, Becomes
          <5> QED
            BY <5>1, Becoming
        <4> QED
          BY <1>4, <2>1, <4>1 DEF Skip, DieEarly, AtWork
      <3> QED
        BY <1>2, <3>1, <3>2
    <2>2. CASE Open(v, job) /\ v = w
      <3>1. worker'[w].row # NoRow
        BY DEF HasRow
      <3>2. PICK d \in Delivery :
               /\ d = [event |-> job.event, n |-> job.n, status |-> "pending", answer |-> "none"]
               /\ rows' = Append(rows, d) /\ worker'[w].row = Len(rows) + 1
        BY <2>2, <3>1, Opens
      <3>3. d.status = "pending"
        BY <3>2
      <3> QED
        BY <3>2, <3>3, Appended
    <2>3. CASE Open(v, job) /\ v # w
      <3>1. worker'[w] = worker[w]
        BY <2>3, PopWorker
      <3>2. rows' = rows \/ \E d \in Delivery : rows' = Append(rows, d)
        BY <2>3, Opens
      <3> QED
        BY <1>1, <3>1, <3>2, Appended
    <2> QED
      BY <1>4, <2>1, <2>2, <2>3
  <1>5. ASSUME NEW v \in Workers,
               \/ \E answer, outcome \in Outcomes : Post(v, answer, outcome)
               \/ Finalize(v) \/ ReadLatest(v) \/ MarkExhausted(v) \/ Crash(v)
        PROVE  rows'[worker'[w].row].status = "pending"
    <2>1. CASE v # w
      <3>1. worker'[w] = worker[w] /\ InHand(v)
        BY <1>5, <2>1, WorkWorker, WorkRows
      <3>2. ~Rivals(worker[v].job, worker[w].job)
        BY <1>1, <2>1, <3>1 DEF OneJob
      <3>3. worker[v].job.event # worker[w].job.event
        BY <1>1, <3>1, <3>2 DEF Rivals
      <3>4. CASE worker[v].row = worker[w].row /\ (AtWork(v) \/ worker[v].at = "marking")
        <4>1. HasRow(v)
          BY <1>1, <3>1, <3>4 DEF HasRow, AtWork
        <4> QED
          BY <1>1, <3>1, <3>3, <3>4, <4>1 DEF Types, RowsOf
      <3>5. CASE worker[v].row # worker[w].row
        BY <1>1, <1>5, <3>1, <3>5, WorkRows
      <3>6. CASE ~(AtWork(v) \/ worker[v].at = "marking")
        <4>1. rows' = rows
          BY <1>5, <3>6 DEF Post, Finalize, ReadLatest, MarkExhausted, Crash, AtWork
        <4> QED
          BY <1>2, <3>1, <4>1
      <3> QED
        BY <3>4, <3>5, <3>6
    <2>2. CASE v = w
      <3>1. PICK answer \in Outcomes, outcome \in Outcomes : Post(w, answer, outcome)
        BY <1>5, <2>2, Ends
      <3>3. rows' = Answering(w, answer) /\ AtWork(w)
        BY <3>1, Posts
      <3>5. worker'[w].job = worker[w].job /\ worker'[w].row = worker[w].row
        BY <3>1, Posts
      <3>6. HasRow(w) /\ worker[w].job.event \notin doubled
        BY <1>0, <3>3, <3>5 DEF HasRow, AtWork
      <3>7. worker[w].row \in DOMAIN rows /\ rows[worker[w].row].status = "pending"
        BY <3>3, <3>6 DEF Pending, Types, RowsOf
      <3> QED
        BY <3>3, <3>5, <3>7, Written
    <2> QED
      BY <2>1, <2>2
  <1> QED
    BY <1>2, <1>3, <1>4, <1>5, Steps, Dispatches DEF Dispatch, vars

\* As long as no second job of the event was about, the row of an attempt under way is
\* pending: nobody else's finalize and no failed() of another job can reach it.
THEOREM UnderWayIsPendingAlways == Spec => []UnderWayIsPending
  <1>1. Spec => []Pending
    BY OneJobAlways, PendingInit, PendingStep, PTL DEF Spec
  <1>2. Types /\ Pending => UnderWayIsPending
    <2> SUFFICES ASSUME Types, Pending, NEW e \in Events \ doubled, NEW i \in RowsOf(e),
                        NEW w \in Workers, worker[w].at \in {"open", "answered"},
                        worker[w].row = i
                 PROVE  rows[i].status = "pending"
      BY DEF UnderWayIsPending, UnderWay
    <2>1. i # NoRow
      BY Shape DEF NoRow
    <2>2. HasRow(w) /\ AtWork(w)
      BY <2>1 DEF HasRow, AtWork
    <2>3. worker[w].job.event = e
      BY <2>2 DEF Types, RowsOf
    <2> QED
      BY <2>2, <2>3 DEF Pending
  <1> QED
    BY <1>1, <1>2, OneJobAlways, PTL

-----------------------------------------------------------------------------
(* Nothing vanishes.                                                       *)

LEMMA LivingIsAlive ==
    ASSUME Types, NEW e \in Events
    PROVE  Living(e) <=> AliveAny(e)
  BY Shape DEF Living, AliveAny, Alive, InHand

\* What has happened to an event stays so.
LEMMA Grows ==
    ASSUME Types, [Next]_vars
    PROVE  taken \subseteq taken' /\ untracked \subseteq untracked' /\ suspect \subseteq suspect'
  <1>1. ASSUME NEW e \in Events, Dispatch(e)
        PROVE  UNCHANGED <<taken, untracked, suspect>>
    BY <1>1 DEF Dispatch
  <1>2. ASSUME NEW w \in Workers, NEW job \in jobs,
               Open(w, job) \/ Skip(w, job) \/ DieEarly(w, job) \/ TooManyAttempts(w, job)
        PROVE  /\ taken \subseteq taken' /\ untracked \subseteq untracked'
               /\ suspect \subseteq suspect'
    BY <1>2 DEF Open, Skip, DieEarly, TooManyAttempts, Fault, NoFault
  <1>3. ASSUME NEW w \in Workers,
               \/ \E answer, outcome \in Outcomes : Post(w, answer, outcome)
               \/ Finalize(w) \/ ReadLatest(w) \/ MarkExhausted(w) \/ Crash(w)
        PROVE  /\ taken \subseteq taken' /\ untracked \subseteq untracked'
               /\ suspect \subseteq suspect'
    BY <1>3 DEF Post, Finalize, ReadLatest, MarkExhausted, Crash, Fault, NoFault
  <1> QED
    BY <1>1, <1>2, <1>3, Steps, Dispatches DEF Heartbeat, vars

\* A step on a job of another event leaves the rows and the jobs of this one alone.
LEMMA Elsewhere ==
    ASSUME Types, NEW e \in Events, NEW w \in Workers, worker[w].job.event # e,
           \/ \E answer, outcome \in Outcomes : Post(w, answer, outcome)
           \/ Finalize(w) \/ ReadLatest(w) \/ MarkExhausted(w) \/ Crash(w)
    PROVE  /\ \A i \in RowsOf(e) : rows'[i] = rows[i]
           /\ Living(e)' <=> Living(e)
  <1>1. /\ InHand(w)
        /\ \A i \in DOMAIN rows : i # worker[w].row => rows'[i] = rows[i]
    BY WorkRows
  <1>2. \A i \in RowsOf(e) : rows'[i] = rows[i]
    <2>1. ASSUME AtWork(w) \/ worker[w].at = "marking", worker[w].row \in RowsOf(e)
          PROVE  FALSE
      <3>1. HasRow(w)
        BY <2>1, Shape DEF HasRow, AtWork, NoRow
      <3> QED
        BY <2>1, <3>1 DEF Types, RowsOf
    <2>2. CASE AtWork(w) \/ worker[w].at = "marking"
      BY <1>1, <2>1, <2>2 DEF RowsOf
    <2>3. CASE ~(AtWork(w) \/ worker[w].at = "marking")
      BY <2>3 DEF Post, Finalize, ReadLatest, MarkExhausted, Crash, AtWork
    <2> QED
      BY <2>2, <2>3
  <1>3. /\ \A v \in Workers \ {w} : worker'[v] = worker[v]
        /\ InHand(w)' => worker'[w].job = worker[w].job
        /\ \A j \in jobs' : j \in jobs \/ j = worker[w].job
        /\ jobs \subseteq jobs'
    BY WorkWorker
  <1>4. Living(e)' <=> Living(e)
    BY <1>1, <1>3 DEF Living, InHand
  <1> QED
    BY <1>2, <1>4

LEMMA ElsewherePop ==
    ASSUME Types, NEW e \in Events, NEW w \in Workers, NEW job \in jobs, job.event # e,
           Open(w, job) \/ Skip(w, job) \/ DieEarly(w, job) \/ TooManyAttempts(w, job)
    PROVE  /\ RowsOf(e)' = RowsOf(e)
           /\ \A i \in RowsOf(e) : rows'[i] = rows[i]
           /\ Living(e)' <=> Living(e)
  <1>1. /\ \A v \in Workers \ {w} : worker'[v] = worker[v]
        /\ ~InHand(w)
        /\ InHand(w)' => worker'[w].job.event = job.event
        /\ \A j \in jobs' : j \in jobs \/ j.event = job.event
        /\ jobs \ {job} \subseteq jobs'
    BY PopWorker
  <1>2. Living(e)' <=> Living(e)
    BY <1>1 DEF Living, InHand
  <1>3. CASE rows' = rows
    BY <1>2, <1>3 DEF RowsOf
  <1>4. ASSUME NEW d \in Delivery, d.event = job.event, rows' = Append(rows, d)
        PROVE  RowsOf(e)' = RowsOf(e) /\ \A i \in RowsOf(e) : rows'[i] = rows[i]
    BY <1>4, Appended DEF RowsOf
  <1>5. \/ rows' = rows
        \/ \E d \in Delivery : d.event = job.event /\ rows' = Append(rows, d)
    <2>1. CASE ~Open(w, job)
      BY <2>1, PopWorker
    <2>2. CASE Open(w, job)
      <3>1. \A d : d = [event |-> job.event, n |-> job.n, status |-> "pending",
                        answer |-> "none"] => d.event = job.event
        OBVIOUS
      <3> QED
        BY <2>2, <3>1, Opens
    <2> QED
      BY <2>1, <2>2
  <1> QED
    BY <1>2, <1>3, <1>4, <1>5

LEMMA KeptInit == Init => Kept
  BY DEF Init, Kept, WorkerKept, EventKept, InHand, RowsOf

LEMMA WorkerKeptStep ==
    ASSUME Types, [Next]_vars, NEW w \in Workers, WorkerKept(w)
    PROVE  WorkerKept(w)'
  <1>1. ASSUME worker'[w] = worker[w]
        PROVE  WorkerKept(w)'
    BY <1>1, Grows DEF WorkerKept, InHand, AtWork
  <1>2. ASSUME NEW v \in Workers, NEW job \in jobs,
               Open(v, job) \/ Skip(v, job) \/ DieEarly(v, job) \/ TooManyAttempts(v, job)
        PROVE  WorkerKept(w)'
    <2>1. CASE v # w
      BY <1>1, <1>2, <2>1, PopWorker
    <2>2. CASE v = w /\ Open(w, job)
      <3>1. worker'[w].row = NoRow =>
              worker'[w].job.event \in untracked' /\ worker'[w].job.event \in suspect'
        <4>1. Len(rows) + 1 # NoRow
          BY Shape DEF NoRow
        <4>2. worker'[w].job.event = job.event
          BY <2>2, Opens
        <4> QED
          BY <2>2, <4>1, <4>2, Opens DEF Fault
      <3> QED
        BY <2>2, <3>1, Opens DEF WorkerKept
    <2>3. CASE v = w /\ ~Open(w, job)
      <3>1. TooManyAttempts(w, job) => worker'[w].at = "failed"
        <4>1. TooManyAttempts(w, job) => Becomes(w, [at |-> "failed", job |-> job])
          BY DEF TooManyAttempts, Becomes
        <4> QED
          BY <4>1, Becoming
      <3> QED
        BY <1>1, <1>2, <2>3, <3>1 DEF Skip, DieEarly, WorkerKept, AtWork
    <2> QED
      BY <2>1, <2>2, <2>3
  <1>3. ASSUME NEW v \in Workers, NEW answer \in Outcomes, NEW outcome \in Outcomes,
               Post(v, answer, outcome)
        PROVE  WorkerKept(w)'
    <2>1. CASE v # w
      BY <1>1, <1>3, <2>1, WorkWorker
    <2>2. CASE v = w
      <3>1. worker'[w].outcome = "success" => worker'[w].job.event \in taken'
        <4>1. Post(w, answer, outcome)
          BY <1>3, <2>2
        <4>2. /\ worker'[w].outcome = outcome /\ worker'[w].job = worker[w].job
              /\ answer = outcome \/ outcome = "error"
          BY <4>1, Posts
        <4>3. answer = "success" => worker[w].job.event \in taken'
          BY <4>1 DEF Post
        <4> QED
          BY <4>2, <4>3
      <3>2. InHand(w)
        BY <1>3, <2>2, WorkRows
      <3> QED
        BY <1>3, <2>2, <3>1, <3>2, Posts, Grows DEF WorkerKept
    <2> QED
      BY <2>1, <2>2
  <1>4. ASSUME NEW v \in Workers,
               Finalize(v) \/ ReadLatest(v) \/ MarkExhausted(v) \/ Crash(v)
        PROVE  WorkerKept(w)'
    <2>1. CASE v # w
      BY <1>1, <1>4, <2>1, WorkWorker
    <2>2. CASE v = w
      BY <1>4, <2>2, Ends DEF WorkerKept, AtWork
    <2> QED
      BY <2>1, <2>2
  <1>5. ASSUME NEW e \in Events, Dispatch(e)
        PROVE  WorkerKept(w)'
    BY <1>1, <1>5 DEF Dispatch
  <1> QED
    BY <1>1, <1>2, <1>3, <1>4, <1>5, Steps, Dispatches DEF Heartbeat, vars

\* A row comes to say success only when its own worker was told so.
LEMMA SuccessTakenStep ==
    ASSUME Types, [Next]_vars, \A w \in Workers : WorkerKept(w),
           \A i \in DOMAIN rows : SuccessTaken(i)
    PROVE  \A i \in DOMAIN rows' : SuccessTaken(i)'
  <1>0. taken \subseteq taken' /\ DOMAIN rows = 1..Len(rows) /\ Len(rows) \in Nat
    BY Grows, Shape
  <1>1. ASSUME DOMAIN rows' = DOMAIN rows,
               \A i \in DOMAIN rows :
                  /\ rows'[i].event = rows[i].event
                  /\ rows'[i].status = "success" => rows[i].status = "success"
        PROVE  \A i \in DOMAIN rows' : SuccessTaken(i)'
    BY <1>0, <1>1 DEF SuccessTaken
  <1>2. ASSUME NEW d \in Delivery, rows' = Append(rows, d),
               d.event = NoEvent \/ d.status = "pending"
        PROVE  \A i \in DOMAIN rows' : SuccessTaken(i)'
    <2> SUFFICES ASSUME NEW i \in DOMAIN rows'
                 PROVE  SuccessTaken(i)'
      OBVIOUS
    <2>1. i \in DOMAIN rows => rows'[i] = rows[i]
      BY <1>2, Appended
    <2>2. i \in DOMAIN rows \/ rows'[i] = d
      BY <1>0, <1>2, Appended
    <2> QED
      BY <1>0, <1>2, <2>1, <2>2, ParametersAssumption DEF SuccessTaken
  <1>3. CASE Heartbeat
    <2>1. \E d \in Delivery : rows' = Append(rows, d) /\ d.event = NoEvent
      <3>1. \A s \in {"pending", "success", "failure"} :
               [event |-> NoEvent, status |-> s] \in Delivery
        BY DEF Delivery, Statuses
      <3> QED
        BY <1>3, <3>1 DEF Heartbeat
    <2> QED
      BY <1>2, <2>1
  <1>4. ASSUME NEW w \in Workers, NEW job \in jobs, Open(w, job)
        PROVE  \A i \in DOMAIN rows' : SuccessTaken(i)'
    <2>1. \/ rows' = rows
          \/ \E d \in Delivery : rows' = Append(rows, d) /\ d.status = "pending"
      <3>1. \A d : d = [event |-> job.event, n |-> job.n, status |-> "pending",
                        answer |-> "none"] => d.status = "pending"
        OBVIOUS
      <3> QED
        BY <1>4, <3>1, Opens
    <2> QED
      BY <1>1, <1>2, <2>1
  <1>5. ASSUME NEW w \in Workers, NEW job \in jobs,
               Skip(w, job) \/ DieEarly(w, job) \/ TooManyAttempts(w, job)
        PROVE  rows' = rows
    BY <1>5 DEF Skip, DieEarly, TooManyAttempts
  <1>6. ASSUME NEW w \in Workers, NEW answer \in Outcomes, NEW outcome \in Outcomes,
               Post(w, answer, outcome)
        PROVE  \A i \in DOMAIN rows' : SuccessTaken(i)'
    BY <1>1, <1>6, Posts, Written
  <1>7. ASSUME NEW w \in Workers, AtWork(w) \/ worker[w].at = "marking",
               NEW s \in Statuses, rows' = Marking(w, s),
               s = "success" /\ HasRow(w) => worker[w].job.event \in taken
        PROVE  \A i \in DOMAIN rows' : SuccessTaken(i)'
    <2> SUFFICES ASSUME NEW i \in DOMAIN rows'
                 PROVE  SuccessTaken(i)'
      OBVIOUS
    <2>1. /\ DOMAIN rows' = DOMAIN rows /\ rows'[i].event = rows[i].event
          /\ i # worker[w].row => rows'[i] = rows[i]
          /\ HasRow(w) => rows'[worker[w].row].status = s
      BY <1>7, Written
    <2>2. CASE i # worker[w].row
      BY <1>0, <2>1, <2>2 DEF SuccessTaken
    <2>3. CASE i = worker[w].row
      <3>1. HasRow(w)
        BY <1>0, <1>7, <2>1, <2>3 DEF HasRow, AtWork, NoRow
      <3>2. rows[i].event = worker[w].job.event
        BY <2>3, <3>1 DEF Types, RowsOf
      <3> QED
        BY <1>0, <1>7, <2>1, <2>3, <3>1, <3>2 DEF SuccessTaken
    <2> QED
      BY <2>2, <2>3
  <1>8. ASSUME NEW w \in Workers,
               Finalize(w) \/ ReadLatest(w) \/ MarkExhausted(w) \/ Crash(w)
        PROVE  \A i \in DOMAIN rows' : SuccessTaken(i)'
    <2>1. \/ rows' = rows
          \/ worker[w].at = "answered" /\ rows' = Completed(w)
          \/ worker[w].at = "marking" /\ rows' = Marking(w, "exhausted")
      BY <1>8 DEF Finalize, ReadLatest, MarkExhausted, Crash
    <2>2. CASE worker[w].at = "answered" /\ rows' = Completed(w)
      <3>1. InHand(w) /\ AtWork(w)
        BY <2>2, Shape DEF AtWork
      <3>2. PICK s \in Statuses :
               rows' = Marking(w, s) /\ (s = "success" => worker[w].outcome = "success")
        BY <2>2 DEF Completed, Statuses
      <3>3. s = "success" => worker[w].job.event \in taken
        BY <2>2, <3>1, <3>2 DEF WorkerKept
      <3> QED
        BY <1>7, <3>1, <3>2, <3>3
    <2>3. "exhausted" \in Statuses
      BY DEF Statuses
    <2> QED
      BY <1>1, <1>7, <2>1, <2>2, <2>3
  <1>9. \A e \in Events : Dispatch(e) => rows' = rows
    BY DEF Dispatch
  <1> QED
    BY <1>1, <1>3, <1>4, <1>5, <1>6, <1>8, <1>9, Steps, Dispatches DEF vars

LEMMA KeptStep == Types /\ Kept /\ [Next]_vars => Kept'
  <1> SUFFICES ASSUME Types, Kept, [Next]_vars PROVE Kept'
    OBVIOUS
  <1>0. /\ \A w \in Workers : WorkerKept(w)
        /\ \A i \in DOMAIN rows : SuccessTaken(i)
        /\ \A e \in Events \ untracked : EventKept(e)
    BY DEF Kept
  <1> SUFFICES ASSUME NEW e \in Events, e \notin untracked', ~strict
               PROVE  EventKept(e)'
    BY <1>0, WorkerKeptStep, SuccessTakenStep, Database DEF Kept, EventKept
  <1>1. EventKept(e) /\ (e \in taken => e \in taken')
    BY <1>0, Grows
  <1>2. ASSUME RowsOf(e)' = RowsOf(e), \A i \in RowsOf(e) : rows'[i].status = rows[i].status,
               Living(e) => Living(e)'
        PROVE  EventKept(e)'
    BY <1>1, <1>2 DEF EventKept, Failing
  <1>3. ASSUME NEW f \in Events, Dispatch(f)
        PROVE  EventKept(e)'
    <2>1. rows' = rows /\ jobs \subseteq jobs' /\ worker' = worker
      BY <1>3 DEF Dispatch
    <2> QED
      BY <1>2, <2>1 DEF Living, InHand, RowsOf
  <1>4. CASE Heartbeat
    <2>1. \E d \in Delivery : rows' = Append(rows, d) /\ d.event = NoEvent
      <3>1. \A s \in {"pending", "success", "failure"} :
               [event |-> NoEvent, status |-> s] \in Delivery
        BY DEF Delivery, Statuses
      <3> QED
        BY <1>4, <3>1 DEF Heartbeat
    <2>2. RowsOf(e)' = RowsOf(e) /\ \A i \in RowsOf(e) : rows'[i] = rows[i]
      BY <2>1, Appended, ParametersAssumption DEF RowsOf
    <2>3. Living(e) => Living(e)'
      BY <1>4 DEF Heartbeat, Living, InHand
    <2> QED
      BY <1>2, <2>2, <2>3
  <1>5. ASSUME NEW w \in Workers, NEW job \in jobs,
               Open(w, job) \/ Skip(w, job) \/ DieEarly(w, job) \/ TooManyAttempts(w, job)
        PROVE  EventKept(e)'
    <2>1. CASE job.event # e
      BY <1>2, <1>5, <2>1, ElsewherePop
    <2>2. CASE job.event = e
      <3>1. CASE Open(w, job)
        <4>1. worker'[w].at = "open" /\ worker'[w].job.event = e
          BY <2>2, <3>1, Opens
        <4>2. InHand(w)'
          BY <4>1 DEF InHand, Free
        <4> QED
          BY <4>1, <4>2 DEF EventKept, Living
      <3>2. CASE Skip(w, job)
        BY <2>2, <3>2 DEF Skip
      <3>3. CASE DieEarly(w, job)
        <4>1. Counted(job) \in jobs' /\ Counted(job).event = e
          BY <2>2, <3>3, Counts DEF DieEarly, Pop
        <4> QED
          BY <4>1 DEF EventKept, Living
      <3>4. CASE TooManyAttempts(w, job)
        <4>1. worker'[w] = [at |-> "failed", job |-> job]
          <5>1. Becomes(w, [at |-> "failed", job |-> job])
            BY <3>4 DEF TooManyAttempts, Becomes
          <5> QED
            BY <5>1, Becoming
        <4>2. InHand(w)' /\ worker'[w].job.event = e
          BY <2>2, <4>1 DEF InHand, Free
        <4> QED
          BY <4>2 DEF EventKept, Living
      <3> QED
        BY <1>5, <3>1, <3>2, <3>3, <3>4
    <2> QED
      BY <2>1, <2>2
  <1>6. ASSUME NEW w \in Workers,
               \/ \E answer, outcome \in Outcomes : Post(w, answer, outcome)
               \/ Finalize(w) \/ ReadLatest(w) \/ MarkExhausted(w) \/ Crash(w)
        PROVE  EventKept(e)'
    <2>0. /\ InHand(w) /\ RowsOf(e)' = RowsOf(e)
          /\ InHand(w)' => worker'[w].job = worker[w].job
      BY <1>6, WorkRows, WorkWorker
    <2>1. CASE worker[w].job.event # e
      BY <1>2, <1>6, <2>0, <2>1, Elsewhere
    <2>2. ASSUME worker[w].job.event = e, InHand(w)' \/ worker[w].job \in jobs'
          PROVE  EventKept(e)'
      BY <2>0, <2>2 DEF EventKept, Living
    <2>3. ASSUME worker[w].job.event = e, HasRow(w), NEW s \in {"failure", "exhausted"},
                 rows' = Marking(w, s)
          PROVE  EventKept(e)'
      <3>1. s \in Statuses /\ (AtWork(w) \/ worker[w].at = "marking")
        BY <2>3 DEF Statuses, HasRow, AtWork
      <3>2. rows'[worker[w].row].status = s
        BY <2>3, <3>1, Written
      <3>3. worker[w].row \in RowsOf(e)'
        BY <2>0, <2>3 DEF Types
      <3> QED
        BY <3>2, <3>3 DEF EventKept, Failing
    <2>4. CASE worker[w].job.event = e /\ \E answer, outcome \in Outcomes : Post(w, answer, outcome)
      <3>1. worker'[w].at = "answered"
        BY <2>4, Posts
      <3>2. InHand(w)'
        BY <3>1 DEF InHand, Free
      <3> QED
        BY <2>2, <2>4, <3>2
    <2>5. CASE worker[w].job.event = e /\ Finalize(w)
      <3>1. worker[w].at = "answered" /\ AtWork(w) /\ worker[w].outcome \in Outcomes
        BY <2>5, Shape DEF Finalize, AtWork
      <3>2. rows' = Completed(w) /\ untracked' = untracked
        BY <2>2, <2>5 DEF Finalize, TooLong
      <3>3. HasRow(w)
        BY <1>0, <2>0, <2>5, <3>1, <3>2 DEF WorkerKept, HasRow, AtWork
      <3>4. CASE worker[w].outcome = "success"
        BY <1>0, <1>1, <2>0, <2>5, <3>1, <3>4 DEF WorkerKept, EventKept
      <3>5. CASE worker[w].outcome = "refused"
        BY <2>3, <2>5, <3>2, <3>3, <3>5 DEF Completed
      <3>6. CASE worker[w].outcome = "error"
        <4>1. CASE LastTry(worker[w].job)
          <5>1. Becomes(w, [at |-> "failed", job |-> worker[w].job])
            BY <2>5, <3>6, <4>1 DEF Finalize, GivesUp, Throws, Becomes
          <5>2. InHand(w)'
            BY <5>1, Becoming DEF InHand, Free
          <5> QED
            BY <2>2, <2>5, <5>2
        <4>2. CASE ~LastTry(worker[w].job)
          BY <2>2, <2>5, <3>6, <4>2 DEF Finalize, Throws
        <4> QED
          BY <4>1, <4>2
      <3> QED
        BY <3>1, <3>4, <3>5, <3>6 DEF Outcomes
    <2>6. CASE worker[w].job.event = e /\ ReadLatest(w)
      <3>1. CASE RowsOf(e) = {}
        BY <2>0, <3>1 DEF EventKept
      <3>2. CASE RowsOf(e) # {}
        <4>1. PICK r : Becomes(w, [at |-> "marking", job |-> worker[w].job, row |-> r])
          BY <2>6, <3>2 DEF ReadLatest, Becomes
        <4>2. InHand(w)'
          BY <4>1, Becoming DEF InHand, Free
        <4> QED
          BY <2>2, <2>6, <4>2
      <3> QED
        BY <3>1, <3>2
    <2>7. CASE worker[w].job.event = e /\ MarkExhausted(w)
      BY <2>3, <2>7 DEF MarkExhausted, Types
    <2>8. CASE worker[w].job.event = e /\ Crash(w)
      BY <2>2, <2>8 DEF Crash
    <2> QED
      BY <1>6, <2>1, <2>4, <2>5, <2>6, <2>7, <2>8
  <1>7. CASE UNCHANGED vars
    BY <1>2, <1>7 DEF vars, Living, InHand, RowsOf
  <1> QED
    BY <1>3, <1>4, <1>5, <1>6, <1>7, Steps, Dispatches

\* When the jobs of an event that was delivered at all are over, Central has taken it or
\* a row says that it failed, unless its rows could not be kept; on a strict database all
\* of its rows may be pending instead, but none says success.
THEOREM NothingVanishesAlways == Spec => []NothingVanishes
  <1>1. Spec => []Kept
    BY TypesAlways, KeptInit, KeptStep, PTL DEF Spec
  <1>2. Types /\ Kept => NothingVanishes
    <2> SUFFICES ASSUME Types, Kept, NEW e \in Events \ untracked, RowsOf(e) # {}, ~AliveAny(e),
                        e \notin taken, ~Failing(e)
                 PROVE  strict /\ \A i \in RowsOf(e) : rows[i].status = "pending"
      BY DEF NothingVanishes, Failing
    <2>1. strict
      BY LivingIsAlive DEF Kept, EventKept
    <2>2. ASSUME NEW i \in RowsOf(e)
          PROVE  rows[i].status = "pending"
      <3>1. i \in DOMAIN rows /\ rows[i].event = e /\ rows[i] \in Delivery
        BY <2>2, Shape DEF RowsOf
      <3>2. rows[i].status \in Statuses
        BY <3>1 DEF Delivery, Statuses
      <3>3. rows[i].status # "success"
        BY <3>1 DEF Kept, SuccessTaken
      <3> QED
        BY <2>2, <3>2, <3>3 DEF Failing, Statuses
    <2> QED
      BY <2>1, <2>2
  <1> QED
    BY <1>1, <1>2, TypesAlways, PTL

-----------------------------------------------------------------------------
(* The rows of one job.                                                    *)

LEMMA JobRowsFinite ==
    ASSUME Types, NEW e \in Events, NEW n
    PROVE  /\ IsFiniteSet(RowsOfJob(e, n)) /\ RowCount(e, n) \in Nat
           /\ RowsOfJob(e, n) \subseteq 1..Len(rows)
  <1>1. Len(rows) \in Nat /\ RowsOfJob(e, n) \subseteq 1..Len(rows)
    BY Shape DEF RowsOfJob
  <1>2. IsFiniteSet(1..Len(rows))
    BY <1>1, FS_Interval
  <1>3. IsFiniteSet(RowsOfJob(e, n))
    BY <1>1, <1>2, FS_Subset
  <1> QED
    BY <1>1, <1>3, FS_CardinalityType DEF RowCount

LEMMA JobRowsStay ==
    ASSUME Types, RowsKept, NEW e \in Events, NEW n, RowsOf(e)' = RowsOf(e)
    PROVE  RowsOfJob(e, n)' = RowsOfJob(e, n) /\ RowCount(e, n)' = RowCount(e, n)
  <1>1. \A i \in RowsOf(e) : rows'[i].n = rows[i].n
    BY ParametersAssumption DEF RowsOf, RowsKept
  <1>2. RowsOfJob(e, n)' = RowsOfJob(e, n)
    BY <1>1 DEF RowsOfJob
  <1> QED
    BY <1>2 DEF RowCount

LEMMA JobRowsAppended ==
    ASSUME Types, NEW d \in Delivery, rows' = Append(rows, d), NEW e \in Events, NEW n
    PROVE  /\ d.event = e /\ d.n = n =>
                /\ RowsOfJob(e, n)' = RowsOfJob(e, n) \cup {Len(rows) + 1}
                /\ RowCount(e, n)' = RowCount(e, n) + 1
           /\ ~(d.event = e /\ d.n = n) =>
                /\ RowsOfJob(e, n)' = RowsOfJob(e, n)
                /\ RowCount(e, n)' = RowCount(e, n)
  <1>1. /\ \A i \in RowsOf(e) : i \in DOMAIN rows /\ rows'[i] = rows[i]
        /\ rows'[Len(rows) + 1] = d
        /\ d.event = e => RowsOf(e)' = RowsOf(e) \cup {Len(rows) + 1}
        /\ d.event # e => RowsOf(e)' = RowsOf(e)
    BY Appended DEF RowsOf
  <1>2. Len(rows) + 1 \notin RowsOfJob(e, n)
    <2>1. Len(rows) \in Nat
      BY Shape
    <2> QED
      BY <2>1, JobRowsFinite
  <1>3. CASE d.event = e /\ d.n = n
    <2>1. RowsOfJob(e, n)' = RowsOfJob(e, n) \cup {Len(rows) + 1}
      BY <1>1, <1>3 DEF RowsOfJob
    <2>2. Cardinality(RowsOfJob(e, n) \cup {Len(rows) + 1}) = Cardinality(RowsOfJob(e, n)) + 1
      BY <1>2, JobRowsFinite, FS_AddElement
    <2> QED
      BY <1>3, <2>1, <2>2 DEF RowCount
  <1>4. CASE ~(d.event = e /\ d.n = n)
    <2>1. RowsOfJob(e, n)' = RowsOfJob(e, n)
      BY <1>1, <1>4 DEF RowsOfJob
    <2> QED
      BY <1>4, <2>1 DEF RowCount
  <1> QED
    BY <1>3, <1>4

\* A job just dispatched has no row.
LEMMA NoRowsYet ==
    ASSUME Types, OneJob, NEW e \in Events, NEW n, n = dispatched[e] + 1
    PROVE  RowsOfJob(e, n) = {} /\ RowCount(e, n) = 0
  <1>1. \A i \in RowsOf(e) : rows[i].n <= dispatched[e] /\ rows[i].n \in Nat
    BY Shape, ParametersAssumption DEF OneJob, RowsOf, Delivery, Numbers
  <1>2. RowsOfJob(e, n) = {}
    BY <1>1, Shape DEF RowsOfJob
  <1> QED
    BY <1>2, FS_EmptySet DEF RowCount

\* The rows of a step that opens none.
LEMMA SameRows ==
    ASSUME Types, rows' = rows
    PROVE  /\ RowsKept /\ \A e \in Events : RowsOf(e)' = RowsOf(e)
           /\ \A e \in Events, n \in Nat :
                 RowsOfJob(e, n)' = RowsOfJob(e, n) /\ RowCount(e, n)' = RowCount(e, n)
  <1>1. RowsKept /\ \A e \in Events : RowsOf(e)' = RowsOf(e)
    BY DEF RowsKept, RowsOf
  <1> QED
    BY <1>1, JobRowsStay

LEMMA BudgetInit == Init => Budget
  <1> SUFFICES ASSUME Init PROVE Budget
    OBVIOUS
  <1>1. \A e \in Events, n \in Numbers : RowsOfJob(e, n) = {}
    BY DEF Init, RowsOf, RowsOfJob
  <1> QED
    <2>1. \A e \in Events, n \in Numbers : RowCount(e, n) = 0
      BY <1>1, FS_EmptySet DEF RowCount
    <2>2. jobs = {} /\ \A w \in Workers : ~InHand(w)
      BY DEF Init, InHand
    <2> QED
      BY <2>1, <2>2, ParametersAssumption DEF Budget

LEMMA BudgetStep == Types /\ OneJob /\ Budget /\ [Next]_vars => Budget'
  <1> SUFFICES ASSUME Types, OneJob, Budget, [Next]_vars PROVE Budget'
    OBVIOUS
  <1>0. /\ \A j \in jobs : j \in Job /\ RowCount(j.event, j.n) <= j.attempts
        /\ \A w \in Workers : InHand(w) =>
              /\ worker[w].job \in Job
              /\ RowCount(worker[w].job.event, worker[w].job.n) <= worker[w].job.attempts
        /\ \A e \in Events, n \in Numbers : RowCount(e, n) <= Tries
        /\ \A j \in Job : /\ j.event \in Events /\ j.n \in Numbers /\ j.n \in Nat
                          /\ j.attempts \in Nat
        /\ \A n \in Numbers : n \in Nat
    BY Shape, ParametersAssumption DEF Budget, Numbers
  \* It is enough to look at constant jobs.
  <1>1. ASSUME \A j \in jobs' : j \in Job /\ RowCount(j.event, j.n)' <= j.attempts,
               \A w \in Workers : InHand(w)' => worker'[w].job \in Job
                  /\ \A j \in Job : j = worker'[w].job =>
                        RowCount(j.event, j.n)' <= j.attempts,
               \A e \in Events, n \in Numbers : RowCount(e, n)' <= Tries
        PROVE  Budget'
    BY <1>1 DEF Budget
  <1>2. ASSUME \A e \in Events, n \in Nat : RowCount(e, n)' = RowCount(e, n),
               UNCHANGED <<jobs, worker>>
        PROVE  Budget'
    <2>1. \A j \in Job : RowCount(j.event, j.n)' = RowCount(j.event, j.n)
      BY <1>0, <1>2
    <2> QED
      BY <1>0, <1>1, <1>2, <2>1 DEF InHand
  <1>3. ASSUME NEW e \in Events, Dispatch(e)
        PROVE  Budget'
    <2>1. PICK new : new = [event |-> e, n |-> dispatched[e] + 1, attempts |-> 0]
      OBVIOUS
    <2>2. /\ jobs' = jobs \cup {new} /\ worker' = worker /\ rows' = rows
          /\ new.event = e /\ new.n = dispatched[e] + 1 /\ new.attempts = 0
      BY <1>3, <2>1 DEF Dispatch
    <2>3. RowCount(new.event, new.n) = 0 /\ new.n \in Nat
      BY <2>2, NoRowsYet, Shape
    <2>4. \A j \in jobs' : j \in Job
      <3>1. Types'
        BY TypesStep
      <3> QED
        BY <3>1 DEF Types, TypeOK
    <2>5. \A f \in Events, n \in Nat : RowCount(f, n)' = RowCount(f, n)
      BY <2>2, SameRows
    <2>6. \A j \in jobs' : RowCount(j.event, j.n)' <= j.attempts
      BY <1>0, <2>2, <2>3, <2>4, <2>5
    <2>7. \A w \in Workers : InHand(w)' => worker'[w].job \in Job
             /\ \A j \in Job : j = worker'[w].job => RowCount(j.event, j.n)' <= j.attempts
      BY <1>0, <2>2, <2>5 DEF InHand
    <2> QED
      BY <1>0, <1>1, <2>4, <2>5, <2>6, <2>7
  <1>4. CASE Heartbeat
    <2>1. \E d \in Delivery : rows' = Append(rows, d) /\ d.event = NoEvent
      <3>1. \A s \in {"pending", "success", "failure"} :
               [event |-> NoEvent, status |-> s] \in Delivery
        BY DEF Delivery, Statuses
      <3> QED
        BY <1>4, <3>1 DEF Heartbeat
    <2>2. \A e \in Events, n \in Nat : RowCount(e, n)' = RowCount(e, n)
      BY <2>1, JobRowsAppended, ParametersAssumption
    <2> QED
      BY <1>2, <1>4, <2>2 DEF Heartbeat
  <1>5. ASSUME NEW w \in Workers, NEW job \in jobs,
               Open(w, job) \/ Skip(w, job) \/ DieEarly(w, job) \/ TooManyAttempts(w, job)
        PROVE  Budget'
    <2>1. /\ worker' \in [Workers -> {Free} \cup Busy] /\ jobs' \subseteq Job
          /\ \A v \in Workers \ {w} : worker'[v] = worker[v]
          /\ ~InHand(w)
          /\ InHand(w)' => /\ worker'[w].job.event = job.event /\ worker'[w].job.n = job.n
                           /\ worker'[w].job.attempts >= job.attempts
          /\ \A j \in jobs' : \/ j \in jobs \ {job}
                              \/ /\ j.event = job.event /\ j.n = job.n
                                 /\ j.attempts = job.attempts + 1
          /\ ~Open(w, job) => rows' = rows
      BY <1>5, PopWorker
    <2>2. \A v \in Workers : InHand(v)' => worker'[v].job \in Job
      BY <2>1 DEF Busy, InHand
    <2>3. \A v \in Workers \ {w} : InHand(v)' => InHand(v)
      BY <2>1 DEF InHand
    <2>4. CASE rows' = rows
      <3>1. \A e \in Events, n \in Nat : RowCount(e, n)' = RowCount(e, n) /\ RowCount(e, n) \in Nat
        BY <2>4, SameRows, JobRowsFinite
      <3>2. \A j \in jobs' : j \in Job /\ RowCount(j.event, j.n)' <= j.attempts
        BY <1>0, <2>1, <3>1
      <3>3. RowCount(job.event, job.n) <= job.attempts
        BY <1>0
      <3>4. \A v \in Workers : InHand(v)' =>
               \A j \in Job : j = worker'[v].job => RowCount(j.event, j.n)' <= j.attempts
        BY <1>0, <2>1, <2>3, <3>1, <3>3
      <3> QED
        BY <1>0, <1>1, <2>2, <3>1, <3>2, <3>4
    <2>5. CASE rows' # rows
      <3>0. Open(w, job)
        BY <2>1, <2>5
      <3>1. PICK d \in Delivery :
               /\ d = [event |-> job.event, n |-> job.n, status |-> "pending", answer |-> "none"]
               /\ rows' = Append(rows, d)
        BY <2>5, <3>0, Opens
      <3>2. d.event = job.event /\ d.n = job.n
        BY <3>1
      <3>3. /\ jobs' = jobs \ {job} /\ worker'[w].job.attempts = job.attempts + 1
            /\ job.attempts < Tries
        BY <3>0, Opens DEF Open, Pop
      <3>4. \A e \in Events, n \in Nat :
               /\ RowCount(e, n) \in Nat
               /\ job.event = e /\ job.n = n => RowCount(e, n)' = RowCount(e, n) + 1
               /\ ~(job.event = e /\ job.n = n) => RowCount(e, n)' = RowCount(e, n)
        BY <3>1, <3>2, JobRowsAppended, JobRowsFinite
      <3>5. \A j \in jobs' : ~(j.event = job.event /\ j.n = job.n)
        BY <3>3 DEF OneJob, Rivals
      <3>6. \A v \in Workers \ {w} :
               InHand(v) => ~(worker[v].job.event = job.event /\ worker[v].job.n = job.n)
        BY DEF OneJob, Rivals
      <3>7. \A j \in jobs' : j \in Job /\ RowCount(j.event, j.n)' <= j.attempts
        BY <1>0, <2>1, <3>3, <3>4, <3>5
      <3>8. RowCount(job.event, job.n) <= job.attempts /\ job.attempts \in Nat /\ Tries \in Nat
            /\ job.event \in Events /\ job.n \in Numbers
        BY <1>0, Shape
      <3>9. \A v \in Workers : InHand(v)' =>
               \A j \in Job : j = worker'[v].job => RowCount(j.event, j.n)' <= j.attempts
        <4> SUFFICES ASSUME NEW v \in Workers, InHand(v)', NEW j \in Job, j = worker'[v].job
                     PROVE  RowCount(j.event, j.n)' <= j.attempts
          OBVIOUS
        <4>1. CASE v = w
          BY <1>0, <2>1, <3>3, <3>4, <3>8, <4>1
        <4>2. CASE v # w
          BY <1>0, <2>1, <2>3, <3>4, <3>6, <4>2
        <4> QED
          BY <4>1, <4>2
      <3>10. \A e \in Events, n \in Numbers : RowCount(e, n)' <= Tries
        BY <1>0, <3>3, <3>4, <3>8
      <3> QED
        BY <1>1, <2>2, <3>7, <3>9, <3>10
    <2> QED
      BY <2>4, <2>5
  <1>6. ASSUME NEW w \in Workers,
               \/ \E answer, outcome \in Outcomes : Post(w, answer, outcome)
               \/ Finalize(w) \/ ReadLatest(w) \/ MarkExhausted(w) \/ Crash(w)
        PROVE  Budget'
    <2>1. /\ InHand(w) /\ RowsKept /\ \A e \in Events : RowsOf(e)' = RowsOf(e)
          /\ \A v \in Workers \ {w} : worker'[v] = worker[v]
          /\ InHand(w)' => worker'[w].job = worker[w].job
          /\ \A j \in jobs' : j \in jobs \/ j = worker[w].job
      BY <1>6, WorkRows, WorkWorker
    <2>2. \A e \in Events, n \in Nat : RowCount(e, n)' = RowCount(e, n)
      BY <2>1, JobRowsStay
    <2>3. \A j \in jobs' : j \in Job /\ RowCount(j.event, j.n)' <= j.attempts
      BY <1>0, <2>1, <2>2
    <2>4. \A v \in Workers : InHand(v)' => InHand(v) /\ worker'[v].job = worker[v].job
      BY <2>1 DEF InHand
    <2> QED
      BY <1>0, <1>1, <2>2, <2>3, <2>4
  <1>7. CASE UNCHANGED vars
    BY <1>2, <1>7, SameRows DEF vars
  <1> QED
    BY <1>3, <1>4, <1>5, <1>6, <1>7, Steps, Dispatches

-----------------------------------------------------------------------------
(* The answers on the rows of one job.                                     *)

LEMMA AnswersInit == Init => Answers
  BY DEF Init, Answers, JobAnswers, RowsOfJob, RowsOf, InHand

\* A step that is about another job.
LEMMA AnswersFrame ==
    ASSUME Types, NEW e \in Events, NEW n \in Numbers, JobAnswers(e, n),
           RowsOfJob(e, n)' = RowsOfJob(e, n),
           \A i \in RowsOfJob(e, n) : rows'[i].answer = rows[i].answer,
           \A j \in jobs' : j.event = e /\ j.n = n => j \in jobs,
           \A w \in Workers : InHand(w)' /\ worker'[w].job.event = e /\ worker'[w].job.n = n =>
              worker'[w] = worker[w]
    PROVE  JobAnswers(e, n)'
  <1>1. \A w \in Workers : AtWork(w) /\ worker[w].row # NoRow /\ worker[w].job.event = e
                              /\ worker[w].job.n = n => worker[w].row \in RowsOfJob(e, n)
    BY DEF Types, HasRow, AtWork, RowsOfJob
  <1>2. AllErrors(e, n) => AllErrors(e, n)'
    BY DEF AllErrors
  <1>3. ASSUME NEW w \in Workers, InHand(w)', worker'[w].job.event = e, worker'[w].job.n = n
        PROVE  IF AtWork(w)'
                 THEN /\ worker'[w].row # NoRow
                      /\ \A i \in RowsOfJob(e, n)' : i <= worker'[w].row
                      /\ rows'[worker'[w].row].answer =
                            IF worker'[w].at = "open" THEN "none" ELSE worker'[w].outcome
                 ELSE AllErrors(e, n)'
    <2>1. worker'[w] = worker[w] /\ InHand(w) /\ (AtWork(w)' <=> AtWork(w))
      BY <1>3 DEF InHand, AtWork
    <2> QED
      BY <1>1, <1>2, <1>3, <2>1 DEF JobAnswers
  <1> QED
    BY <1>2, <1>3 DEF JobAnswers

\* A step of a worker changes the answers of its own job's rows only.
LEMMA OtherAnswers ==
    ASSUME Types, NEW w \in Workers, NEW e \in Events, NEW n \in Numbers,
           \/ \E answer, outcome \in Outcomes : Post(w, answer, outcome)
           \/ Finalize(w) \/ ReadLatest(w) \/ MarkExhausted(w) \/ Crash(w)
    PROVE  /\ RowsOfJob(e, n)' = RowsOfJob(e, n)
           /\ \A i \in RowsOfJob(e, n) :
                 (~\E answer, outcome \in Outcomes : Post(w, answer, outcome))
                    \/ worker[w].job.event # e \/ worker[w].job.n # n \/ i # worker[w].row =>
                 rows'[i].answer = rows[i].answer
  <1>1. /\ RowsKept /\ \A f \in Events : RowsOf(f)' = RowsOf(f)
        /\ \A i \in DOMAIN rows : i # worker[w].row => rows'[i] = rows[i]
        /\ InHand(w)
    BY WorkRows
  <1>2. RowsOfJob(e, n)' = RowsOfJob(e, n)
    BY <1>1, JobRowsStay
  <1>3. ASSUME NEW i \in RowsOfJob(e, n), i = worker[w].row, rows'[i].answer # rows[i].answer
        PROVE  /\ \E answer, outcome \in Outcomes : Post(w, answer, outcome)
               /\ worker[w].job.event = e /\ worker[w].job.n = n
    <2>1. i \in DOMAIN rows /\ rows[i].event = e /\ rows[i].n = n /\ rows[i].event # NoEvent
          /\ i # NoRow
      BY <1>3, Shape, ParametersAssumption DEF RowsOfJob, RowsOf, NoRow
    <2>2. \A s \in Statuses : rows' = Marking(w, s) /\ (AtWork(w) \/ worker[w].at = "marking") =>
             rows'[i].answer = rows[i].answer
      BY <2>1, Written
    <2>3. "success" \in Statuses /\ "failure" \in Statuses /\ "exhausted" \in Statuses
      BY DEF Statuses
    <2>4. ~Finalize(w)
      BY <1>3, <2>2, <2>3 DEF Finalize, Completed, AtWork
    <2>5. ~MarkExhausted(w)
      BY <1>3, <2>2, <2>3 DEF MarkExhausted
    <2>6. ~Crash(w) /\ ~ReadLatest(w)
      BY <1>3, <2>2, <2>3 DEF Crash, ReadLatest, Completed, AtWork
    <2>7. \E answer, outcome \in Outcomes : Post(w, answer, outcome)
      BY <2>4, <2>5, <2>6
    <2>8. HasRow(w) /\ AtWork(w)
      BY <1>3, <2>1, <2>7 DEF Post, HasRow, AtWork
    <2> QED
      BY <1>3, <2>1, <2>7, <2>8 DEF Types, RowsOf
  <1> QED
    BY <1>1, <1>2, <1>3 DEF RowsOfJob, RowsOf

LEMMA AnswersStep == Types /\ OneJob /\ Answers /\ [Next]_vars => Answers'
  <1> SUFFICES ASSUME Types, OneJob, Answers, [Next]_vars,
                      NEW e \in Events, e \notin suspect', NEW n \in Numbers
               PROVE  JobAnswers(e, n)'
    BY DEF Answers
  <1>0. JobAnswers(e, n) /\ e \notin suspect /\ n \in Nat /\ e # NoEvent
    BY Grows, ParametersAssumption DEF Answers, Numbers
  <1>1. ASSUME rows' = rows, worker' = worker,
               \A j \in jobs' : j.event = e /\ j.n = n => j \in jobs
        PROVE  JobAnswers(e, n)'
    BY <1>0, <1>1, SameRows, AnswersFrame DEF RowsOfJob, RowsOf
  <1>2. ASSUME NEW f \in Events, Dispatch(f)
        PROVE  JobAnswers(e, n)'
    <2>1. PICK new : new = [event |-> f, n |-> dispatched[f] + 1, attempts |-> 0]
      OBVIOUS
    <2>2. /\ jobs' = jobs \cup {new} /\ worker' = worker /\ rows' = rows
          /\ new.event = f /\ new.n = dispatched[f] + 1 /\ new.attempts = 0
      BY <1>2, <2>1 DEF Dispatch
    <2>3. CASE ~(f = e /\ dispatched[f] + 1 = n)
      BY <1>1, <2>2, <2>3
    <2>4. CASE f = e /\ dispatched[f] + 1 = n
      <3>1. RowsOfJob(e, n) = {} /\ RowsOfJob(e, n)' = {}
        BY <1>0, <2>2, <2>4, NoRowsYet, SameRows
      <3>2. \A w \in Workers :
               ~(InHand(w)' /\ worker'[w].job.event = e /\ worker'[w].job.n = n)
        <4>1. \A w \in Workers : InHand(w) /\ worker[w].job.event = e =>
                 worker[w].job.n <= dispatched[e] /\ worker[w].job.n \in Nat
          BY Shape DEF OneJob
        <4>2. dispatched[e] \in Nat
          BY Shape
        <4> QED
          BY <2>2, <2>4, <4>1, <4>2 DEF InHand
      <3>3. \A j \in jobs' : j.event = e /\ j.n = n => j.attempts < Tries
        <4>1. 0 < Tries
          BY ParametersAssumption
        <4> QED
          BY <1>0, <2>2, <4>1 DEF JobAnswers
      <3> QED
        BY <3>1, <3>2, <3>3 DEF JobAnswers, AllErrors
    <2> QED
      BY <2>3, <2>4
  <1>3. CASE Heartbeat
    <2>1. PICK d \in Delivery : rows' = Append(rows, d) /\ d.event = NoEvent
      <3>1. \A s \in {"pending", "success", "failure"} :
               [event |-> NoEvent, status |-> s] \in Delivery
        BY DEF Delivery, Statuses
      <3> QED
        BY <1>3, <3>1 DEF Heartbeat
    <2>2. RowsOfJob(e, n)' = RowsOfJob(e, n)
      BY <1>0, <2>1, JobRowsAppended
    <2>3. \A i \in RowsOfJob(e, n) : rows'[i].answer = rows[i].answer
      BY <2>1, Appended DEF RowsOfJob, RowsOf
    <2> QED
      BY <1>0, <1>3, <2>2, <2>3, AnswersFrame DEF Heartbeat
  <1>4. ASSUME NEW w \in Workers, NEW job \in jobs,
               Open(w, job) \/ Skip(w, job) \/ DieEarly(w, job) \/ TooManyAttempts(w, job)
        PROVE  JobAnswers(e, n)'
    <2>1. /\ \A v \in Workers \ {w} : worker'[v] = worker[v]
          /\ ~InHand(w)
          /\ InHand(w)' => /\ worker'[w].job.event = job.event /\ worker'[w].job.n = job.n
                           /\ jobs' = jobs \ {job}
          /\ \A j \in jobs' : \/ j \in jobs \ {job}
                              \/ j.event = job.event /\ j.n = job.n
          /\ ~Open(w, job) => rows' = rows
      BY <1>4, PopWorker
    <2>2. CASE ~(job.event = e /\ job.n = n)
      <3>1. RowsOfJob(e, n)' = RowsOfJob(e, n)
            /\ \A i \in RowsOfJob(e, n) : rows'[i].answer = rows[i].answer
        <4>1. CASE rows' = rows
          BY <1>0, <4>1, SameRows
        <4>2. CASE rows' # rows
          <5>0. Open(w, job)
            BY <2>1, <4>2
          <5>1. PICK d \in Delivery :
                   /\ d = [event |-> job.event, n |-> job.n, status |-> "pending",
                           answer |-> "none"]
                   /\ rows' = Append(rows, d)
            BY <4>2, <5>0, Opens
          <5>2. ~(d.event = e /\ d.n = n)
            BY <2>2, <5>1
          <5> QED
            BY <5>1, <5>2, JobRowsAppended, Appended DEF RowsOfJob, RowsOf
        <4> QED
          BY <4>1, <4>2
      <3>2. \A v \in Workers :
               InHand(v)' /\ worker'[v].job.event = e /\ worker'[v].job.n = n =>
                  worker'[v] = worker[v]
        BY <2>1, <2>2
      <3> QED
        BY <1>0, <2>1, <2>2, <3>1, <3>2, AnswersFrame
    <2>3. CASE job.event = e /\ job.n = n
      <3>1. job.attempts < Tries /\ AllErrors(e, n)
        BY <1>0, <2>3 DEF JobAnswers
      <3>2. \A v \in Workers : InHand(v) => ~(worker[v].job.event = e /\ worker[v].job.n = n)
        BY <2>3 DEF OneJob, Rivals
      <3>3. \A v \in Workers :
               InHand(v)' /\ worker'[v].job.event = e /\ worker'[v].job.n = n => v = w
        BY <2>1, <3>2 DEF InHand
      <3>4. ~DieEarly(w, job) /\ ~TooManyAttempts(w, job)
        <4>1. job.attempts \in Nat /\ Tries \in Nat
          BY Shape
        <4> QED
          BY <2>3, <3>1, <4>1 DEF DieEarly, TooManyAttempts, Fault
      <3>5. CASE Skip(w, job)
        <4>1. rows' = rows /\ worker' = worker /\ jobs' \subseteq jobs
          BY <3>5 DEF Skip
        <4> QED
          BY <1>1, <4>1
      <3>6. CASE Open(w, job)
        <4>1. PICK d \in Delivery :
                 /\ d = [event |-> job.event, n |-> job.n, status |-> "pending",
                         answer |-> "none"]
                 /\ rows' = Append(rows, d) /\ worker'[w].row = Len(rows) + 1
          BY <2>3, <3>6, Opens DEF Fault
        <4>2. d.event = e /\ d.n = n /\ d.answer = "none"
          BY <2>3, <4>1
        <4>3. /\ RowsOfJob(e, n)' = RowsOfJob(e, n) \cup {Len(rows) + 1}
              /\ rows'[Len(rows) + 1] = d
              /\ \A i \in RowsOfJob(e, n) : rows'[i] = rows[i] /\ i \in Nat /\ i <= Len(rows)
              /\ Len(rows) \in Nat
          BY <4>1, <4>2, JobRowsAppended, Appended, JobRowsFinite, Shape DEF RowsOfJob, RowsOf
        <4>4. \A i, j \in RowsOfJob(e, n)' : i < j => rows'[i].answer = "error"
          BY <3>1, <4>3 DEF AllErrors
        <4>5. worker'[w].at = "open" /\ AtWork(w)' /\ jobs' = jobs \ {job}
          BY <3>6, Opens DEF Open, AtWork
        <4>6. \A j \in jobs' : ~(j.event = e /\ j.n = n)
          BY <2>3, <4>5 DEF OneJob, Rivals
        <4>7. worker'[w].row # NoRow /\ \A i \in RowsOfJob(e, n)' : i <= worker'[w].row
          BY <4>1, <4>3 DEF NoRow
        <4>8. rows'[worker'[w].row].answer = "none"
          BY <4>1, <4>2, <4>3
        <4> QED
          BY <3>3, <4>4, <4>5, <4>6, <4>7, <4>8 DEF JobAnswers
      <3> QED
        BY <1>4, <3>4, <3>5, <3>6
    <2> QED
      BY <2>2, <2>3
  <1>5. ASSUME NEW w \in Workers,
               \/ \E answer, outcome \in Outcomes : Post(w, answer, outcome)
               \/ Finalize(w) \/ ReadLatest(w) \/ MarkExhausted(w) \/ Crash(w)
        PROVE  JobAnswers(e, n)'
    <2>1. /\ InHand(w)
          /\ \A v \in Workers \ {w} : worker'[v] = worker[v]
          /\ InHand(w)' => worker'[w].job = worker[w].job /\ jobs' = jobs
          /\ \A j \in jobs' : j \in jobs \/ j = worker[w].job
      BY <1>5, WorkRows, WorkWorker
    <2>2. RowsOfJob(e, n)' = RowsOfJob(e, n)
      BY <1>5, OtherAnswers
    <2>3. CASE ~(worker[w].job.event = e /\ worker[w].job.n = n)
      <3>1. \A i \in RowsOfJob(e, n) : rows'[i].answer = rows[i].answer
        BY <1>5, <2>3, OtherAnswers
      <3>2. \A v \in Workers :
               InHand(v)' /\ worker'[v].job.event = e /\ worker'[v].job.n = n =>
                  worker'[v] = worker[v]
        BY <2>1, <2>3
      <3> QED
        BY <1>0, <2>1, <2>2, <2>3, <3>1, <3>2, AnswersFrame
    <2>4. CASE worker[w].job.event = e /\ worker[w].job.n = n
      <3>1. \A v \in Workers :
               InHand(v)' /\ worker'[v].job.event = e /\ worker'[v].job.n = n => v = w
        <4>1. \A v \in Workers \ {w} :
                 InHand(v) => ~(worker[v].job.event = e /\ worker[v].job.n = n)
          BY <2>1, <2>4 DEF OneJob, Rivals
        <4> QED
          BY <2>1, <4>1 DEF InHand
      <3>2. \A j \in jobs : ~(j.event = e /\ j.n = n)
        BY <2>1, <2>4 DEF OneJob, Rivals
      <3>3. AtWork(w) =>
               /\ worker[w].row # NoRow
               /\ \A i \in RowsOfJob(e, n) : i <= worker[w].row
               /\ rows[worker[w].row].answer =
                     IF worker[w].at = "open" THEN "none" ELSE worker[w].outcome
               /\ worker[w].row \in RowsOfJob(e, n)
        <4>1. AtWork(w) => worker[w].row # NoRow
          BY <1>0, <2>1, <2>4 DEF JobAnswers
        <4>2. AtWork(w) => worker[w].row \in RowsOfJob(e, n)
          BY <2>4, <4>1 DEF Types, HasRow, AtWork, RowsOfJob
        <4> QED
          BY <1>0, <2>1, <2>4, <4>1, <4>2 DEF JobAnswers
      <3>4. \A i, j \in RowsOfJob(e, n) : i < j => rows[i].answer = "error"
        BY <1>0 DEF JobAnswers
      <3>5. \A i \in RowsOfJob(e, n) : i \in Nat
        BY JobRowsFinite, Shape
      <3>6. ASSUME NEW answer \in Outcomes, NEW outcome \in Outcomes, Post(w, answer, outcome)
            PROVE  JobAnswers(e, n)'
        <4>1. /\ AtWork(w) /\ worker'[w].at = "answered"
              /\ worker'[w].job = worker[w].job /\ worker'[w].row = worker[w].row
              /\ worker'[w].outcome = outcome /\ rows' = Answering(w, answer) /\ jobs' = jobs
          BY <3>6, Posts
        <4>2. answer = outcome
          BY <2>4, <3>6, Posts DEF Fault
        <4>3. rows'[worker[w].row].answer = outcome
          BY <3>3, <4>1, <4>2, Written DEF HasRow, AtWork
        <4>4. \A i, j \in RowsOfJob(e, n) : i < j => rows'[i].answer = "error"
          <5>1. \A i, j \in RowsOfJob(e, n) : i < j => i # worker[w].row
            BY <3>3, <3>5, <4>1
          <5> QED
            BY <1>5, <3>4, <5>1, OtherAnswers
        <4>5. AtWork(w)' /\ worker'[w].at # "open"
          BY <4>1 DEF AtWork
        <4> QED
          BY <2>2, <3>1, <3>2, <3>3, <4>1, <4>3, <4>4, <4>5 DEF JobAnswers
      <3>7. CASE Finalize(w) \/ ReadLatest(w) \/ MarkExhausted(w) \/ Crash(w)
        <4>0. ~\E answer, outcome \in Outcomes : Post(w, answer, outcome)
          <5>1. ASSUME NEW answer \in Outcomes, NEW outcome \in Outcomes, Post(w, answer, outcome)
                PROVE  FALSE
            BY <3>7, <5>1, Posts, Ends DEF AtWork
          <5> QED
            BY <5>1
        <4>1. \A i \in RowsOfJob(e, n) : rows'[i].answer = rows[i].answer
          BY <1>5, <4>0, OtherAnswers
        <4>2. ~Crash(w)
          BY <2>4 DEF Crash, Fault
        <4>3. CASE ReadLatest(w) \/ MarkExhausted(w)
          <5>1. AllErrors(e, n) /\ jobs' = jobs
            BY <1>0, <2>1, <2>4, <4>3 DEF JobAnswers, ReadLatest, MarkExhausted, AtWork
          <5>2. ~AtWork(w)'
            BY <4>3, Ends
          <5> QED
            BY <2>2, <3>1, <3>2, <3>4, <4>1, <5>1, <5>2 DEF JobAnswers, AllErrors
        <4>4. CASE Finalize(w)
          <5>1. worker[w].at = "answered" /\ AtWork(w) /\ ~AtWork(w)'
            BY <4>4, Ends DEF Finalize, AtWork
          <5>2. Throws(w) => AllErrors(e, n)
            BY <3>3, <3>4, <3>5, <5>1 DEF Throws, AllErrors
          <5>3. \A j \in jobs' : j.event = e /\ j.n = n => Throws(w) /\ j.attempts < Tries
            <6>1. jobs' # jobs =>
                     Throws(w) /\ ~LastTry(worker[w].job) /\ jobs' = jobs \cup {worker[w].job}
              BY <4>4 DEF Finalize
            <6>2. worker[w].job.attempts \in Nat /\ Tries \in Nat
              BY <2>1, Shape
            <6> QED
              BY <3>2, <6>1, <6>2 DEF LastTry
          <5>4. InHand(w)' => Throws(w)
            <6>1. Becomes(w, Free) => ~InHand(w)'
              BY Becoming DEF InHand
            <6>2. ~GivesUp(w) => Becomes(w, Free)
              BY <4>4 DEF Finalize, Becomes
            <6> QED
              BY <6>1, <6>2 DEF GivesUp
          <5>5. Throws(w) => AllErrors(e, n)'
            BY <2>2, <4>1, <5>2 DEF AllErrors
          <5> QED
            BY <2>2, <3>1, <3>4, <4>1, <5>1, <5>3, <5>4, <5>5 DEF JobAnswers
        <4> QED
          BY <3>7, <4>2, <4>3, <4>4
      <3> QED
        BY <1>5, <3>6, <3>7
    <2> QED
      BY <2>3, <2>4
  <1>6. CASE UNCHANGED vars
    BY <1>1, <1>6 DEF vars
  <1> QED
    BY <1>2, <1>3, <1>4, <1>5, <1>6, Steps, Dispatches

\* A job opens no more rows than it has tries, and goes on only after an error.
THEOREM AttemptsAreBudgetedAlways == Spec => []AttemptsAreBudgeted
  <1>1. Spec => [](Budget /\ Answers)
    BY OneJobAlways, BudgetInit, BudgetStep, AnswersInit, AnswersStep, PTL DEF Spec
  <1>2. Budget /\ Answers => AttemptsAreBudgeted
    BY DEF Budget, Answers, JobAnswers, RowCount, AttemptsAreBudgeted
  <1> QED
    BY <1>1, <1>2, PTL

-----------------------------------------------------------------------------
(* The rows tell the truth.                                                *)

LEMMA TruthInit == Init => Truth
  BY DEF Init, Truth, EventTruth, InHand, RowsOf

LEMMA DoubledGrows ==
    ASSUME Types, [Next]_vars
    PROVE  doubled \subseteq doubled'
  <1>1. \A e \in Events : Dispatch(e) => doubled \subseteq doubled'
    BY DEF Dispatch
  <1> QED
    BY <1>1, Steps, Dispatches, PopWorker, WorkWorker DEF Heartbeat, vars

\* The worker under way with a row of an event has a job of that event in hand.
LEMMA UnderWayInHand ==
    ASSUME Types, NEW e \in Events, NEW i \in RowsOf(e), NEW w \in Workers,
           AtWork(w), worker[w].row = i
    PROVE  InHand(w) /\ worker[w].job.event = e
  <1>1. i # NoRow
    BY Shape DEF NoRow
  <1>2. HasRow(w) /\ InHand(w)
    BY <1>1, Shape DEF HasRow, AtWork
  <1> QED
    BY <1>2 DEF Types, RowsOf

\* A step that leaves an event's rows and workers alone.
LEMMA TruthFrame ==
    ASSUME Types, NEW e \in Events, EventTruth(e), strict' = strict,
           RowsOf(e)' = RowsOf(e), \A i \in RowsOf(e) : rows'[i] = rows[i],
           \A w \in Workers :
              /\ InHand(w) /\ worker[w].job.event = e => worker'[w] = worker[w]
              /\ InHand(w)' /\ worker'[w].job.event = e => worker'[w] = worker[w]
    PROVE  EventTruth(e)'
  <1>1. ASSUME NEW i \in RowsOf(e), ~UnderWay(i)'
        PROVE  Told(i)'
    <2>1. ~UnderWay(i)
      BY <1>1, UnderWayInHand DEF UnderWay, AtWork
    <2> QED
      BY <2>1 DEF EventTruth, Told
  <1>2. \A i : Newest(i, e)' <=> Newest(i, e)
    BY DEF Newest
  <1>3. ASSUME NEW w \in Workers, InHand(w)', worker'[w].job.event = e
        PROVE  \E i \in RowsOf(e)' :
                  /\ Newest(i, e)'
                  /\ AtWork(w)' => i = worker'[w].row
                  /\ ~AtWork(w)' => rows'[i].answer = "error"
                  /\ worker'[w].at = "marking" => i = worker'[w].row
    <2>1. worker'[w] = worker[w] /\ InHand(w) /\ (AtWork(w)' <=> AtWork(w))
      BY <1>3 DEF InHand, AtWork
    <2> QED
      BY <1>2, <1>3, <2>1 DEF EventTruth
  <1> QED
    BY <1>1, <1>3 DEF EventTruth

\* Taking a job of the event: all there is to do, without a fault, is to open a row.
LEMMA TruthOpens ==
    ASSUME Types, OneJob, NEW e \in Events, e \notin doubled, e \notin suspect', EventTruth(e),
           strict' = strict, NEW w \in Workers, NEW job \in jobs, job.event = e, Open(w, job)
    PROVE  EventTruth(e)'
  <1>1. PICK d \in Delivery :
           /\ d = [event |-> job.event, n |-> job.n, status |-> "pending", answer |-> "none"]
           /\ rows' = Append(rows, d) /\ worker'[w].row = Len(rows) + 1
    BY Opens DEF Fault
  <1>2. d.event = e /\ worker'[w].at = "open"
    BY <1>1, Opens
  <1>3. /\ RowsOf(e)' = RowsOf(e) \cup {Len(rows) + 1}
        /\ \A i \in RowsOf(e) : rows'[i] = rows[i]
        /\ \A n : n = Len(rows) + 1 => Newest(n, e)'
    BY <1>1, <1>2, Appended, NewestAppended DEF RowsOf
  <1>4. \A v \in Workers : ~(InHand(v) /\ worker[v].job.event = e)
    BY DEF OneJob, Rivals
  <1>5. \A v \in Workers \ {w} : worker'[v] = worker[v]
    BY PopWorker
  <1>6. AtWork(w)'
    BY <1>2 DEF AtWork
  <1>7. ASSUME NEW i \in RowsOf(e)', ~UnderWay(i)'
        PROVE  Told(i)'
    <2>1. i # Len(rows) + 1
      BY <1>1, <1>2, <1>7 DEF UnderWay
    <2>2. i \in RowsOf(e)
      BY <1>3, <2>1
    <2>3. ~UnderWay(i)
      BY <1>4, <2>2, UnderWayInHand DEF UnderWay, AtWork
    <2> QED
      BY <1>3, <2>2, <2>3 DEF EventTruth, Told
  <1>8. ASSUME NEW v \in Workers, InHand(v)', worker'[v].job.event = e
        PROVE  v = w
    BY <1>4, <1>5, <1>8 DEF InHand
  <1>9. ASSUME NEW n, n = Len(rows) + 1
        PROVE  \A v \in Workers : InHand(v)' /\ worker'[v].job.event = e =>
                  \E i \in RowsOf(e)' :
                     /\ Newest(i, e)'
                     /\ AtWork(v)' => i = worker'[v].row
                     /\ ~AtWork(v)' => rows'[i].answer = "error"
                     /\ worker'[v].at = "marking" => i = worker'[v].row
    <2>1. n \in RowsOf(e)' /\ Newest(n, e)'
      BY <1>3, <1>9
    <2> QED
      BY <1>1, <1>2, <1>6, <1>8, <1>9, <2>1
  <1> QED
    BY <1>7, <1>9 DEF EventTruth

\* A row that the worker of the event has written tells the truth.
LEMMA TruthWritten ==
    ASSUME Types, NEW e \in Events, NEW w \in Workers, HasRow(w), worker[w].job.event = e,
           EventTruth(e), NEW s \in Statuses \ {"pending"}, rows' = Marking(w, s),
           s = "success" <=> rows[worker[w].row].answer = "success", strict' = strict,
           \A v \in Workers \ {w} : worker'[v] = worker[v]
    PROVE  /\ \A i \in RowsOf(e)' : ~UnderWay(i)' => Told(i)'
           /\ rows'[worker[w].row].answer = rows[worker[w].row].answer
  <1>0. AtWork(w) \/ worker[w].at = "marking"
    BY DEF HasRow, AtWork
  <1>1. /\ RowsOf(e)' = RowsOf(e)
        /\ rows'[worker[w].row].status = s
        /\ \A i \in DOMAIN rows : i # worker[w].row => rows'[i] = rows[i]
        /\ \A i \in DOMAIN rows : rows[i].event # NoEvent => rows'[i].answer = rows[i].answer
    BY <1>0, Written
  <1>2. worker[w].row \in RowsOf(e) /\ e # NoEvent
    BY ParametersAssumption DEF Types
  <1>3. rows'[worker[w].row].answer = rows[worker[w].row].answer
    BY <1>1, <1>2 DEF RowsOf
  <1>4. ASSUME NEW i \in RowsOf(e), i # worker[w].row, ~UnderWay(i)'
        PROVE  Told(i)'
    <2>1. ~UnderWay(i)
      BY <1>4 DEF UnderWay
    <2>2. rows'[i] = rows[i]
      BY <1>1, <1>4 DEF RowsOf
    <2> QED
      BY <2>1, <2>2 DEF EventTruth, Told
  <1>5. \A i : i = worker[w].row => Told(i)'
    BY <1>1, <1>3 DEF Told
  <1> QED
    BY <1>1, <1>3, <1>4, <1>5

LEMMA TruthWorks ==
    ASSUME Types, OneJob, Pending, NEW e \in Events, e \notin doubled, e \notin suspect',
           EventTruth(e), strict' = strict, \A n \in Numbers : JobAnswers(e, n),
           NEW w \in Workers, worker[w].job.event = e,
           \/ \E answer, outcome \in Outcomes : Post(w, answer, outcome)
           \/ Finalize(w) \/ ReadLatest(w) \/ MarkExhausted(w) \/ Crash(w)
    PROVE  EventTruth(e)'
  <1>1. /\ InHand(w) /\ RowsOf(e)' = RowsOf(e)
        /\ \A v \in Workers \ {w} : worker'[v] = worker[v]
        /\ \A i \in DOMAIN rows : i # worker[w].row => rows'[i] = rows[i]
        /\ InHand(w)' => worker'[w].job = worker[w].job
    BY WorkRows, WorkWorker
  <1>2. \A i : Newest(i, e)' <=> Newest(i, e)
    BY <1>1 DEF Newest
  <1>3. \A v \in Workers : InHand(v)' /\ worker'[v].job.event = e => v = w
    BY <1>1 DEF OneJob, Rivals, InHand
  <1>4. PICK top \in RowsOf(e) :
           /\ Newest(top, e)
           /\ AtWork(w) => top = worker[w].row
           /\ ~AtWork(w) => rows[top].answer = "error"
           /\ worker[w].at = "marking" => top = worker[w].row
    BY <1>1 DEF EventTruth
  <1>5. ASSUME \A i \in RowsOf(e) : ~UnderWay(i)' => Told(i)',
               InHand(w)' =>
                 /\ AtWork(w)' => top = worker'[w].row
                 /\ ~AtWork(w)' => rows'[top].answer = "error"
                 /\ worker'[w].at = "marking" => top = worker'[w].row
        PROVE  EventTruth(e)'
    BY <1>1, <1>2, <1>3, <1>4, <1>5 DEF EventTruth
  <1>6. AtWork(w) \/ worker[w].at = "marking" => HasRow(w)
    <2>1. AtWork(w) => worker[w].row # NoRow
      BY <1>1, Shape DEF JobAnswers
    <2> QED
      BY <2>1 DEF Types, HasRow, AtWork
  <1>7. ASSUME NEW i \in RowsOf(e), ~AtWork(w) \/ i # worker[w].row, ~UnderWay(i)'
        PROVE  ~UnderWay(i)
    BY <1>1, <1>7 DEF UnderWay, AtWork
  <1>8. ASSUME NEW answer \in Outcomes, NEW outcome \in Outcomes, Post(w, answer, outcome)
        PROVE  EventTruth(e)'
    <2>1. /\ AtWork(w) /\ worker'[w].at = "answered" /\ worker'[w].row = worker[w].row
      BY <1>8, Posts
    <2>2. AtWork(w)' /\ worker'[w].at # "marking"
      BY <2>1 DEF AtWork
    <2>3. ASSUME NEW i \in RowsOf(e), ~UnderWay(i)'
          PROVE  Told(i)'
      <3>1. i # worker[w].row
        BY <2>1, <2>3 DEF UnderWay
      <3>2. rows'[i] = rows[i] /\ ~UnderWay(i)
        BY <1>1, <1>7, <2>3, <3>1 DEF RowsOf
      <3> QED
        BY <3>2 DEF EventTruth, Told
    <2> QED
      BY <1>4, <1>5, <2>1, <2>2, <2>3
  <1>9. CASE Finalize(w)
    <2>1. worker[w].at = "answered" /\ AtWork(w) /\ HasRow(w)
      BY <1>6, <1>9 DEF Finalize, AtWork
    <2>2. rows[worker[w].row].answer = worker[w].outcome
      BY <1>1, <2>1, Shape DEF JobAnswers
    <2>3. ASSUME rows' = Completed(w)
          PROVE  /\ \A i \in RowsOf(e)' : ~UnderWay(i)' => Told(i)'
                 /\ rows'[worker[w].row].answer = worker[w].outcome
      <3>1. PICK s \in Statuses \ {"pending"} :
               rows' = Marking(w, s) /\ (s = "success" <=> worker[w].outcome = "success")
        BY <2>3 DEF Completed, Statuses
      <3> QED
        BY <1>1, <2>1, <2>2, <3>1, TruthWritten
    <2>4. ASSUME TooLong(w), rows' = rows
          PROVE  /\ \A i \in RowsOf(e)' : ~UnderWay(i)' => Told(i)'
                 /\ rows'[worker[w].row].answer = worker[w].outcome
      <3>1. rows[worker[w].row].status = "pending" /\ strict /\ worker[w].outcome = "error"
        BY <2>1, <2>4 DEF Pending, TooLong
      <3>2. ASSUME NEW i \in RowsOf(e), ~UnderWay(i)', i # worker[w].row
            PROVE  Told(i)'
        BY <1>7, <2>4, <3>2 DEF EventTruth, Told
      <3>3. \A i : i = worker[w].row => Told(i)'
        BY <2>2, <2>4, <3>1 DEF Told
      <3> QED
        BY <1>1, <2>2, <2>4, <3>2, <3>3
    <2>5. /\ \A i \in RowsOf(e)' : ~UnderWay(i)' => Told(i)'
          /\ rows'[worker[w].row].answer = worker[w].outcome
      BY <1>9, <2>3, <2>4 DEF Finalize, Fault
    <2>6. ~AtWork(w)' /\ (InHand(w)' => worker'[w].at = "failed" /\ GivesUp(w))
      BY <1>9, Ends DEF Finalize, ReadLatest
    <2> QED
      BY <1>1, <1>4, <1>5, <2>1, <2>5, <2>6 DEF GivesUp, Throws
  <1>10. CASE ReadLatest(w)
    <2>1. worker[w].at = "failed" /\ rows' = rows /\ ~AtWork(w)
      BY <1>10 DEF ReadLatest, AtWork
    <2>2. \A i \in RowsOf(e) : ~UnderWay(i)' => Told(i)'
      BY <1>7, <2>1 DEF EventTruth, Told
    <2>3. worker'[w].at = "marking" => worker'[w].row = top
      BY <1>4, <1>10, Ends, LatestIsNewest, NewestIsOne
    <2>4. ~AtWork(w)'
      BY <1>10, Ends
    <2> QED
      BY <1>4, <1>5, <2>1, <2>2, <2>3, <2>4
  <1>11. CASE MarkExhausted(w)
    <2>1. /\ worker[w].at = "marking" /\ HasRow(w) /\ ~AtWork(w)
          /\ rows' = rows \/ rows' = Marking(w, "exhausted")
          /\ Becomes(w, Free)
      BY <1>6, <1>11 DEF MarkExhausted, Becomes, AtWork
    <2>2. rows[worker[w].row].answer = "error"
      BY <1>4, <2>1
    <2>3. "exhausted" \in Statuses \ {"pending"}
      BY DEF Statuses
    <2>4. \A i \in RowsOf(e)' : ~UnderWay(i)' => Told(i)'
      <3>1. CASE rows' = rows
        BY <1>1, <1>7, <2>1, <3>1 DEF EventTruth, Told
      <3>2. CASE rows' = Marking(w, "exhausted")
        BY <1>1, <2>1, <2>2, <2>3, <3>2, TruthWritten
      <3> QED
        BY <2>1, <3>1, <3>2
    <2>5. ~InHand(w)'
      BY <2>1, Becoming DEF InHand
    <2> QED
      BY <1>1, <1>5, <2>4, <2>5
  <1>12. ~Crash(w)
    BY DEF Crash, Fault
  <1> QED
    BY <1>8, <1>9, <1>10, <1>11, <1>12

LEMMA TruthStep ==
    Types /\ OneJob /\ Pending /\ Answers /\ Truth /\ [Next]_vars => Truth'
  <1> SUFFICES ASSUME Types, OneJob, Pending, Answers, Truth, [Next]_vars,
                      NEW e \in Events, e \notin suspect', e \notin doubled'
               PROVE  EventTruth(e)'
    BY DEF Truth
  <1>0. /\ e \notin suspect /\ e \notin doubled /\ EventTruth(e) /\ e # NoEvent
        /\ \A n \in Numbers : JobAnswers(e, n)
        /\ strict' = strict
    BY Grows, DoubledGrows, Database, ParametersAssumption DEF Truth, Answers
  <1>1. ASSUME rows' = rows, worker' = worker
        PROVE  EventTruth(e)'
    BY <1>0, <1>1, TruthFrame DEF RowsOf
  <1>2. CASE Heartbeat
    <2>1. PICK d \in Delivery : rows' = Append(rows, d) /\ d.event = NoEvent
      <3>1. \A s \in {"pending", "success", "failure"} :
               [event |-> NoEvent, status |-> s] \in Delivery
        BY DEF Delivery, Statuses
      <3> QED
        BY <1>2, <3>1 DEF Heartbeat
    <2>2. RowsOf(e)' = RowsOf(e) /\ \A i \in RowsOf(e) : rows'[i] = rows[i]
      BY <1>0, <2>1, Appended DEF RowsOf
    <2> QED
      BY <1>0, <1>2, <2>2, TruthFrame DEF Heartbeat
  <1>3. ASSUME NEW w \in Workers, NEW job \in jobs,
               Open(w, job) \/ Skip(w, job) \/ DieEarly(w, job) \/ TooManyAttempts(w, job)
        PROVE  EventTruth(e)'
    <2>1. CASE job.event # e
      <3>1. RowsOf(e)' = RowsOf(e) /\ \A i \in RowsOf(e) : rows'[i] = rows[i]
        BY <1>3, <2>1, ElsewherePop
      <3>2. \A v \in Workers :
               /\ InHand(v) /\ worker[v].job.event = e => worker'[v] = worker[v]
               /\ InHand(v)' /\ worker'[v].job.event = e => worker'[v] = worker[v]
        BY <1>3, <2>1, PopWorker
      <3> QED
        BY <1>0, <3>1, <3>2, TruthFrame
    <2>2. CASE job.event = e
      <3>1. job.n \in Numbers /\ job.attempts \in Nat /\ Tries \in Nat
        BY Shape
      <3>2. ~DieEarly(w, job) /\ ~TooManyAttempts(w, job)
        BY <1>0, <2>2, <3>1 DEF JobAnswers, DieEarly, TooManyAttempts, Fault
      <3>3. Skip(w, job) => rows' = rows /\ worker' = worker
        BY DEF Skip
      <3> QED
        BY <1>0, <1>1, <1>3, <2>2, <3>2, <3>3, TruthOpens
    <2> QED
      BY <2>1, <2>2
  <1>4. ASSUME NEW w \in Workers,
               \/ \E answer, outcome \in Outcomes : Post(w, answer, outcome)
               \/ Finalize(w) \/ ReadLatest(w) \/ MarkExhausted(w) \/ Crash(w)
        PROVE  EventTruth(e)'
    <2>1. CASE worker[w].job.event # e
      <3>1. RowsOf(e)' = RowsOf(e) /\ \A i \in RowsOf(e) : rows'[i] = rows[i]
        BY <1>4, <2>1, Elsewhere, WorkRows
      <3>2. \A v \in Workers :
               /\ InHand(v) /\ worker[v].job.event = e => worker'[v] = worker[v]
               /\ InHand(v)' /\ worker'[v].job.event = e => worker'[v] = worker[v]
        BY <1>4, <2>1, WorkWorker
      <3> QED
        BY <1>0, <3>1, <3>2, TruthFrame
    <2>2. CASE worker[w].job.event = e
      BY <1>0, <1>4, <2>2, TruthWorks
    <2> QED
      BY <2>1, <2>2
  <1>5. \A f \in Events : Dispatch(f) => rows' = rows /\ worker' = worker
    BY DEF Dispatch
  <1> QED
    BY <1>1, <1>2, <1>3, <1>4, <1>5, Steps, Dispatches DEF vars

\* The row of an attempt that is over says success exactly if Central took the request,
\* and is not pending, as long as no fault hit the event and it had one job at a time;
\* on a strict database the row of a connection failure may be pending.
THEOREM RowsTellTheTruthAlways == Spec => []RowsTellTheTruth
  <1>1. Spec => [](Types /\ OneJob /\ Pending /\ Answers)
    BY OneJobAlways, PendingInit, PendingStep, AnswersInit, AnswersStep, PTL DEF Spec
  <1>2. Spec => []Truth
    BY <1>1, TruthInit, TruthStep, PTL DEF Spec
  <1>3. Truth => RowsTellTheTruth
    BY DEF Truth, EventTruth, Told, RowsTellTheTruth
  <1> QED
    BY <1>2, <1>3, PTL
=============================================================================
