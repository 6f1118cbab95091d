----------------------------- MODULE AuditChain -----------------------------
(***************************************************************************)
(* The tamper-evident audit log: AuditLogger::log and AuditLogger::verify  *)
(* over the ls_audit_log table, chained by HmacChain::compute.             *)
(*                                                                         *)
(* log() reads the newest row, computes the HMAC of the new record chained *)
(* to that row's HMAC and inserts the record: two database statements with *)
(* no lock or transaction around them, so any number of PHP processes may  *)
(* be between the two.  A third step offers the record to the Central      *)
(* forwarder.  The table may also change behind the logger's back: a row   *)
(* is edited or removed by whoever can write to the database (AuditLog     *)
(* soft-deletes, so a deleted row leaves both log() and verify()).         *)
(*                                                                         *)
(* An HMAC is an ideal one: the records chained into it, so two HMACs are  *)
(* equal exactly when they were computed from the same previous HMAC and   *)
(* the same record.  The fields of a record other than its chain columns   *)
(* are one value, its content, as HmacChain::canonicalize renders it: two  *)
(* orders of the same JSON keys are two contents.  changes and meta are    *)
(* JSON columns, and MySQL's give the keys of nested objects back in an    *)
(* order of their own, which canonicalize does not sort: ReadBack.         *)
(***************************************************************************)
EXTENDS Integers, Sequences, SequencesExt

CONSTANTS
    Writers,      \* PHP processes that call AuditLogger::log
    Contents,     \* what a record may say, as PHP builds it or as the table gives it back
    Records,      \* those the callers of log() pass
    ReadBack,     \* ReadBack[c]: what a record that says c says when read from the table
    MaxInserts,   \* bound on the records the processes insert
    MaxEdits      \* bound on the out-of-band edits

ASSUME BoundsAssumption == MaxInserts \in Nat /\ MaxEdits \in Nat
ASSUME RecordsAssumption == Records \subseteq Contents
ASSUME ReadBackAssumption == ReadBack \in [Contents -> Contents]

VARIABLES
    log,          \* the visible rows of ls_audit_log, in id order
    inserted,     \* every row AuditLogger::log has ever created, as created
    pend,         \* pend[w]: where process w is in its call of log()
    outbox,       \* the records handed to ForwardAuditToCentralJob
    inserts,      \* number of records inserted so far
    edits,        \* number of out-of-band edits so far
    overlapped    \* two calls of log() have been between read and insert at once

vars == <<log, inserted, pend, outbox, inserts, edits, overlapped>>

NoHash == << >>   \* prev_hash of a first row: null

\* Mutant: the HMAC leaves the previous one out.
computeUnchained(prevHash, content) == <<content>>

\* HmacChain::compute, ideal: injective in the previous HMAC and the record.
compute(prevHash, content) == Append(prevHash, content)

\* The HMACs that exist: without the secret nobody can make another one.
KnownHashes == {NoHash} \cup {r.hmac : r \in inserted}

Row == [content : Contents, prev_hash : KnownHashes, hmac : KnownHashes]

Idle == [at |-> "idle"]

Pending == {Idle} \cup [at : {"read"}, prev : KnownHashes, content : Contents]
                  \cup [at : {"created"}, row : inserted]

TypeOK ==
    /\ log \in Seq(Row)
    /\ inserted \subseteq Row
    /\ pend \in [Writers -> Pending]
    /\ outbox \subseteq inserted
    /\ inserts \in 0..MaxInserts
    /\ edits \in 0..MaxEdits
    /\ overlapped \in BOOLEAN

Init ==
    /\ log = << >>
    /\ inserted = {}
    /\ pend = [w \in Writers |-> Idle]
    /\ outbox = {}
    /\ inserts = 0
    /\ edits = 0
    /\ overlapped = FALSE

-----------------------------------------------------------------------------
(* AuditLogger::log, one action per database statement or dispatch.        *)

\* Mutant: orderBy('id') for orderByDesc('id').
OldestHash == IF log = << >> THEN NoHash ELSE log[1].hmac

TailHash == IF log = << >> THEN NoHash ELSE log[Len(log)].hmac

Reading(w) == pend[w].at = "read"

\* Mutant: the record goes to the forwarder before it is in the table.
LogReadForwards(w, content) ==
    /\ pend[w] = Idle
    /\ pend' = [pend EXCEPT ![w] =
                  [at |-> "read", prev |-> TailHash, content |-> content]]
    /\ overlapped' = (overlapped \/ \E v \in Writers : Reading(v))
    /\ outbox' = outbox \cup {[content |-> content, prev_hash |-> TailHash,
                               hmac |-> compute(TailHash, content)]}
    /\ UNCHANGED <<log, inserted, inserts, edits>>

\* orderByDesc('id')->first(): the chain head this call will extend.
LogRead(w, content) ==
    /\ pend[w] = Idle
    /\ pend' = [pend EXCEPT ![w] =
                  [at |-> "read", prev |-> TailHash, content |-> content]]
    /\ overlapped' = (overlapped \/ \E v \in Writers : Reading(v))
    /\ UNCHANGED <<log, inserted, outbox, inserts, edits>>

\* Mutant: prev_hash is read again when the row is built, the HMAC is not.
NewRowRereads(w) ==
    [content   |-> pend[w].content,
     prev_hash |-> TailHash,
     hmac      |-> compute(pend[w].prev, pend[w].content)]

NewRow(w) ==
    [content   |-> pend[w].content,
     prev_hash |-> pend[w].prev,
     hmac      |-> compute(pend[w].prev, pend[w].content)]

\* The row as the table gives it back.
StoredRow(w) == [NewRow(w) EXCEPT !.content = ReadBack[pend[w].content]]

\* AuditLog::create with the HMAC over the head read earlier.
LogCreate(w) ==
    /\ Reading(w)
    /\ inserts < MaxInserts
    /\ log' = Append(log, StoredRow(w))
    /\ inserted' = inserted \cup {NewRow(w)}
    /\ pend' = [pend EXCEPT ![w] = [at |-> "created", row |-> NewRow(w)]]
    /\ inserts' = inserts + 1
    /\ UNCHANGED <<outbox, edits, overlapped>>

\* maybeForwardToCentral: dispatched when an ingest URL is set and the cached
\* license is premium, skipped otherwise, and a failing dispatch is swallowed.
LogForward(w) ==
    /\ pend[w].at = "created"
    /\ outbox' \in {outbox, outbox \cup {pend[w].row}}
    /\ pend' = [pend EXCEPT ![w] = Idle]
    /\ UNCHANGED <<log, inserted, inserts, edits, overlapped>>

\* The process dies inside log(): what it has not written is lost.
Crash(w) ==
    /\ pend[w] # Idle
    /\ pend' = [pend EXCEPT ![w] = Idle]
    /\ UNCHANGED <<log, inserted, outbox, inserts, edits, overlapped>>

-----------------------------------------------------------------------------
(* The table changes without AuditLogger: any row gets any column values   *)
(* that exist, stored as any row is, or leaves the table.                  *)

EditRow(i, row) ==
    /\ edits < MaxEdits
    /\ log' = [log EXCEPT ![i] = [row EXCEPT !.content = ReadBack[row.content]]]
    /\ edits' = edits + 1
    /\ UNCHANGED <<inserted, pend, outbox, inserts, overlapped>>

RemoveRow(i) ==
    /\ edits < MaxEdits
    /\ log' = RemoveAt(log, i)
    /\ edits' = edits + 1
    /\ UNCHANGED <<inserted, pend, outbox, inserts, overlapped>>

Next ==
    \/ \E w \in Writers :
          \/ \E content \in Records : LogRead(w, content)
          \/ LogCreate(w)
          \/ LogForward(w)
          \/ Crash(w)
    \/ \E i \in DOMAIN log :
          \/ \E row \in Row : EditRow(i, row)
          \/ RemoveRow(i)

Spec == Init /\ [][Next]_vars

-----------------------------------------------------------------------------
(* AuditLogger::verify: one ordered query over the visible rows.           *)

\* Mutant: the walk trusts the prev_hash column.
storedPrev(i) == log[i].prev_hash

\* $expectedPrev when the walk reaches row i: the stored HMAC of the row
\* before it, whatever row i's own prev_hash column says.
expectedPrev(i) == IF i = 1 THEN NoHash ELSE log[i - 1].hmac

\* The positions verify() reports as 'hmac mismatch'.
verify == {i \in DOMAIN log : compute(expectedPrev(i), log[i].content) # log[i].hmac}

-----------------------------------------------------------------------------
(* Properties.                                                             *)

\* What a clean verify() is worth: whatever was done to the table, if verify()
\* reports nothing then every visible row is one that AuditLogger inserted, with
\* that content, and the row before it is the one its writer chained it to.
CleanLogIsGenuine ==
    verify = {} =>
        \A i \in DOMAIN log :
            [content |-> log[i].content, prev_hash |-> expectedPrev(i),
             hmac |-> log[i].hmac] \in inserted

\* Row i says what its HMAC was computed over.
ReadsBack(i) == \E r \in inserted : r.hmac = log[i].hmac /\ r.content = log[i].content

\* Without out-of-band edits verify() reports exactly the rows whose writer read
\* the head of the chain before the row above them was inserted, and the rows that
\* do not read back as they were written: every fork is reported.
VerifyReportsForks ==
    edits = 0 =>
        verify = {i \in DOMAIN log : log[i].prev_hash # expectedPrev(i) \/ ~ReadsBack(i)}

\* As long as no two calls of log() overlapped, verify() raises no false alarm but
\* over rows that do not read back as they were written.
NoFalseAlarm == edits = 0 /\ ~overlapped => \A i \in verify : ~ReadsBack(i)

SameRecord(r, s) == r.content = s.content /\ r.hmac = s.hmac

\* How far a clean verify() before and a clean one after a change reach: only the newest
\* row can have been edited or removed in between, and every older one is where it was
\* and says what it said. Nothing is chained to the newest row, so that one can go
\* unnoticed, and then the row that has become the newest, and so on.
OnlyTheNewestCanGo ==
    [][ verify = {} /\ verify' = {} =>
          \A i \in DOMAIN log :
              \/ i = Len(log)
              \/ i \in DOMAIN log' /\ SameRecord(log[i], log'[i]) ]_vars

\* docs/audit-log.md: it is "modifying or deleting a record" that breaks the chain.
UntouchedLogIsClean == edits = 0 /\ ~overlapped => verify = {}
=============================================================================
