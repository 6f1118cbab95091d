------------------------------ MODULE AclCache ------------------------------
(***************************************************************************)
(* The access-control list as requests see it: the ls_acl table, the live  *)
(* set AclEvaluator keeps in the shared cache for ever                     *)
(* ('shield.acl.live'), and the decision it keeps per client for           *)
(* decision_cache_ttl.                                                     *)
(*                                                                         *)
(* Every PHP process shares the database and the cache and nothing else.   *)
(* A request that misses both caches reads the table, then writes the live *)
(* set, then the decision; a writer changes a row, then AclObserver        *)
(* forgets the live set.  These are separate steps, and steps of several   *)
(* processes interleave.                                                   *)
(*                                                                         *)
(* A row covers the clients its matcher accepts.  Row ids are positions in *)
(* the table.  hit_count, which nothing reads back, is left out.           *)
(***************************************************************************)
EXTENDS Integers, Sequences

CONSTANTS
    Procs,      \* PHP processes: requests, artisan commands, queue workers
    Clients,    \* what decisionCacheKey tells apart: an IP with a user agent
    Durations,  \* lifetimes a temporary row may be given, in clock ticks
    Ttl,        \* shield.acl.decision_cache_ttl, in clock ticks
    MaxRows,    \* bound on the rows ever created
    MaxWrites,  \* bound on the changes made to rows
    MaxTime     \* bound on the clock

ASSUME ParametersAssumption ==
    /\ Durations \subseteq Nat \ {0}
    /\ Ttl \in Nat \ {0}
    /\ MaxRows \in Nat
    /\ MaxWrites \in Nat
    /\ MaxTime \in Nat

VARIABLES
    now,        \* the clock
    rows,       \* ls_acl, row i at position i, soft-deleted rows included
    live,       \* the cached live set, or NoEntry
    decision,   \* decision[c]: the cached decision for client c, or NoEntry
    proc,       \* proc[p]: where process p is
    settled,    \* settled[i]: when row i, as it is, was announced with no
                \* request under way; NoTime if that has not happened
    writes      \* number of changes made to rows so far

vars == <<now, rows, live, decision, proc, settled, writes>>

Actions == {"allow", "blacklist", "block"}
Verdicts == Actions \cup {"pass"}

NoTime == -1
Never == MaxTime + 1        \* expires_at null
NoEntry == [kind |-> "none"]
NoRow == 0                  \* Decision::pass matches no entry

RowIds == 1..MaxRows

Row == [action : Actions, covers : SUBSET Clients, expires : 0..Never, trashed : BOOLEAN]

\* A fetched collection: models by id, as they were when fetched.
RowSets == UNION {[ids -> Row] : ids \in SUBSET RowIds}

LiveSet == [kind : {"live"}, set : RowSets, asOf : 0..MaxTime, tainted : BOOLEAN]
CachedDecision == [kind : {"decision"}, verdict : Verdicts, entry : RowIds \cup {NoRow},
                   until : Nat]

Idle == [at |-> "idle"]

Looking == [at : {"missed", "query"}, client : Clients]
Filling == [at : {"fill"}, client : Clients, set : RowSets, asOf : 0..MaxTime, raced : BOOLEAN]
Deciding == [at : {"decided"}, client : Clients, verdict : Verdicts, entry : RowIds \cup {NoRow}]
Forgetting == [at : {"written"}, row : RowIds]

ProcState == {Idle} \cup Looking \cup Filling \cup Deciding \cup Forgetting

TypeOK ==
    /\ now \in 0..MaxTime
    /\ rows \in Seq(Row) /\ Len(rows) <= MaxRows
    /\ live \in {NoEntry} \cup LiveSet
    /\ decision \in [Clients -> {NoEntry} \cup CachedDecision]
    /\ proc \in [Procs -> ProcState]
    /\ settled \in [RowIds -> {NoTime} \cup 0..MaxTime]
    /\ writes \in 0..MaxWrites

Init ==
    /\ now = 0
    /\ rows = << >>
    /\ live = NoEntry
    /\ decision = [c \in Clients |-> NoEntry]
    /\ proc = [p \in Procs |-> Idle]
    /\ settled = [i \in RowIds |-> NoTime]
    /\ writes = 0

-----------------------------------------------------------------------------
(* Reading the list.                                                       *)

\* Mutant: the model has lost SoftDeletes.
ActiveWithTrashed(row, t) == row.expires > t

\* Acl::scopeActive at time t, without the rows the soft-delete scope hides.
Active(row, t) == ~row.trashed /\ row.expires > t
ActiveRows(t) == [i \in {j \in DOMAIN rows : Active(rows[j], t)} |-> rows[i]]

\* AclEvaluator::evaluateUncached over a fetched set: the first entry by id of
\* the first tier that has a match.
Matching(set, client, action) ==
    {i \in DOMAIN set : set[i].action = action /\ client \in set[i].covers}

FirstOf(ids) == CHOOSE i \in ids : \A j \in ids : i <= j

\* Mutant: the tiers are tried in the wrong order.
TierBlockFirst(set, client) ==
    IF Matching(set, client, "block") # {} THEN "block"
    ELSE IF Matching(set, client, "allow") # {} THEN "allow"
    ELSE IF Matching(set, client, "blacklist") # {} THEN "blacklist"
    ELSE "pass"

Tier(set, client) ==
    IF Matching(set, client, "allow") # {} THEN "allow"
    ELSE IF Matching(set, client, "blacklist") # {} THEN "blacklist"
    ELSE IF Matching(set, client, "block") # {} THEN "block"
    ELSE "pass"

\* Mutant: no Decision::pass() at the end.
DecidedNull(client, set) ==
    LET tier == Tier(set, client)
    IN  [at |-> "decided", client |-> client,
         verdict |-> IF tier = "pass" THEN "null" ELSE tier,
         entry |-> IF tier = "pass" THEN NoRow ELSE FirstOf(Matching(set, client, tier))]

Decided(client, set) ==
    LET tier == Tier(set, client)
    IN  [at |-> "decided", client |-> client, verdict |-> tier,
         entry |-> IF tier = "pass" THEN NoRow ELSE FirstOf(Matching(set, client, tier))]

Fresh(entry) == entry # NoEntry /\ entry.until > now

\* Cache::remember on the decision key: a hit answers the request at once.
Request(p, client) ==
    /\ proc[p] = Idle
    /\ ~Fresh(decision[client])
    /\ proc' = [proc EXCEPT ![p] = [at |-> "missed", client |-> client]]
    /\ UNCHANGED <<now, rows, live, decision, settled, writes>>

\* rememberForever on 'shield.acl.live': a hit is evaluated as it is ...
ReadLive(p) ==
    /\ proc[p].at = "missed"
    /\ proc' = [proc EXCEPT ![p] =
                  IF live # NoEntry THEN Decided(proc[p].client, live.set)
                  ELSE [at |-> "query", client |-> proc[p].client]]
    /\ UNCHANGED <<now, rows, live, decision, settled, writes>>

\* ... a miss reads the active rows ...
QueryRows(p) ==
    /\ proc[p].at = "query"
    /\ proc' = [proc EXCEPT ![p] =
                  [at |-> "fill", client |-> proc[p].client, set |-> ActiveRows(now),
                   asOf |-> now, raced |-> FALSE]]
    /\ UNCHANGED <<now, rows, live, decision, settled, writes>>

\* ... and stores them without an expiry, over whatever is there by then.
StoreLive(p) ==
    /\ proc[p].at = "fill"
    /\ live' = [kind |-> "live", set |-> proc[p].set, asOf |-> proc[p].asOf,
                tainted |-> proc[p].raced]
    /\ proc' = [proc EXCEPT ![p] = Decided(proc[p].client, proc[p].set)]
    /\ UNCHANGED <<now, rows, decision, settled, writes>>

StoreDecision(p) ==
    /\ proc[p].at = "decided"
    /\ decision' = [decision EXCEPT ![proc[p].client] =
                      [kind |-> "decision", verdict |-> proc[p].verdict,
                       entry |-> proc[p].entry, until |-> now + Ttl]]
    /\ proc' = [proc EXCEPT ![p] = Idle]
    /\ UNCHANGED <<now, rows, live, settled, writes>>

-----------------------------------------------------------------------------
(* Writing the list.  Each write changes one row and leaves the process    *)
(* about to forget the live set (AclObserver saved / deleted).             *)

\* Marks live sets and fills under way as made stale without a forget.
Taint(entry) == IF entry = NoEntry THEN entry ELSE [entry EXCEPT !.tainted = TRUE]
Raced(ps) == [p \in Procs |->
                IF ps[p].at = "fill" THEN [ps[p] EXCEPT !.raced = TRUE] ELSE ps[p]]

Commit(p, id, newRows) ==
    /\ proc[p] = Idle
    /\ rows' = newRows
    /\ proc' = [proc EXCEPT ![p] = [at |-> "written", row |-> id]]
    /\ settled' = [settled EXCEPT ![id] = NoTime]
    /\ writes < MaxWrites /\ writes' = writes + 1
    /\ UNCHANGED <<now, live, decision>>

Stored == {i \in DOMAIN rows : ~rows[i].trashed}

\* Acl::create by a command, a trap, the scorer, a listener or a feed.
Create(p, action, covers, expires) ==
    /\ Len(rows) < MaxRows
    /\ Commit(p, Len(rows) + 1,
              Append(rows, [action |-> action, covers |-> covers, expires |-> expires,
                            trashed |-> FALSE]))

\* AclController::postAction, allow and blacklist.
SetAction(p, i, action) ==
    /\ i \in Stored
    /\ action \in {"allow", "blacklist"}
    /\ Commit(p, i, [rows EXCEPT ![i].action = action])

\* Mutant: AclObserver has no deleted().
TrashQuietly(p, i) ==
    /\ proc[p] = Idle
    /\ i \in Stored
    /\ rows' = [rows EXCEPT ![i].trashed = TRUE]
    /\ settled' = [settled EXCEPT ![i] = NoTime]
    /\ writes < MaxWrites /\ writes' = writes + 1
    /\ UNCHANGED <<now, live, decision, proc>>

\* AclController::postAction delete, shield:acl --unban, shield:bypass-remove.
Trash(p, i) ==
    /\ i \in Stored
    /\ Commit(p, i, [rows EXCEPT ![i].trashed = TRUE])

\* An upsert of an existing row: ImportCommand, ShieldRealtimeProvider::upsertAcl.
Upsert(p, i, action, expires) ==
    /\ i \in Stored
    /\ Commit(p, i, [rows EXCEPT ![i].action = action, ![i].expires = expires])

\* AclObserver -> AclEvaluator::clearCache.  A fill under way is overtaken.
ForgetLive(p) ==
    /\ proc[p].at = "written"
    /\ live' = NoEntry
    /\ proc' = [Raced(proc) EXCEPT ![p] = Idle]
    /\ settled' = [settled EXCEPT ![proc[p].row] =
                     IF \A q \in Procs \ {p} : proc[q] = Idle THEN now ELSE NoTime]
    /\ UNCHANGED <<now, rows, decision, writes>>

\* ShieldRealtimeProvider::revoke: a mass update, which fires no model event.
Revoke(p, i) ==
    /\ proc[p] = Idle
    /\ i \in Stored
    /\ rows[i].expires = Never
    /\ rows' = [rows EXCEPT ![i].expires = now]
    /\ live' = Taint(live)
    /\ proc' = Raced(proc)
    /\ settled' = [settled EXCEPT ![i] = NoTime]
    /\ writes < MaxWrites /\ writes' = writes + 1
    /\ UNCHANGED <<now, decision>>

\* The process is killed.  Between the row and the forget, the forget is lost.
Crash(p) ==
    /\ proc[p] # Idle
    /\ IF proc[p].at = "written"
         THEN live' = Taint(live) /\ proc' = [Raced(proc) EXCEPT ![p] = Idle]
         ELSE live' = live /\ proc' = [proc EXCEPT ![p] = Idle]
    /\ UNCHANGED <<now, rows, decision, settled, writes>>

Tick ==
    /\ now < MaxTime
    /\ now' = now + 1
    /\ UNCHANGED <<rows, live, decision, proc, settled, writes>>

Expiries == {Never} \cup {t \in 0..MaxTime : t - now \in Durations}

Write(p) ==
    \/ \E action \in Actions, covers \in (SUBSET Clients) \ {{}}, expires \in Expiries :
          Create(p, action, covers, expires)
    \/ \E i \in DOMAIN rows :
          \/ \E action \in Actions : SetAction(p, i, action)
          \/ Trash(p, i)
          \/ \E action \in Actions, expires \in Expiries : Upsert(p, i, action, expires)

Next ==
    \/ \E p \in Procs :
          \/ \E c \in Clients : Request(p, c)
          \/ ReadLive(p) \/ QueryRows(p) \/ StoreLive(p) \/ StoreDecision(p)
          \/ Write(p) \/ ForgetLive(p)
          \/ \E i \in DOMAIN rows : Revoke(p, i)
          \/ Crash(p)
    \/ Tick

Spec == Init /\ [][Next]_vars

-----------------------------------------------------------------------------
(* Properties.                                                             *)

WriteInFlight == \E p \in Procs : proc[p].at = "written"

\* The live set, kept for ever, still is what its query would have read from
\* today's table, unless a write is about to forget it or one of three things has
\* happened since that query: another process forgot the set while it was being
\* filled, a mass update changed a row without a model event, or a writer died
\* before its forget.  There is no fourth way to a stale live set but expiry.
LiveSetCoherent ==
    live # NoEntry /\ ~live.tainted /\ ~WriteInFlight => live.set = ActiveRows(live.asOf)

\* An allow row announced while no request was under way (shield:bypass-add on a
\* quiet site) frees every client it covers within one decision TTL, whatever
\* else is written, raced or lost afterwards, for as long as the row stands.
AllowTakesEffect ==
    \A i \in DOMAIN rows :
        /\ settled[i] # NoTime /\ now >= settled[i] + Ttl
        /\ rows[i].action = "allow" /\ Active(rows[i], now)
        => \A c \in rows[i].covers : Fresh(decision[c]) => decision[c].verdict = "allow"

\* A row deleted while no request was under way decides nothing once the
\* decision TTL has passed, and no later fill brings it back.
RemovalTakesEffect ==
    \A i \in DOMAIN rows :
        rows[i].trashed /\ settled[i] # NoTime =>
            /\ live # NoEntry => i \notin DOMAIN live.set
            /\ now >= settled[i] + Ttl =>
                  \A c \in Clients : Fresh(decision[c]) => decision[c].entry # i

\* "The evaluator just ignores expired rows": a request is not denied by a row
\* that had expired when the request began to evaluate (time does not pass here
\* between the read of the live set and the verdict).
ExpiredRowsAreIgnored ==
    [][\A p \in Procs :
          /\ proc[p].at = "missed" /\ proc'[p].at = "decided"
          /\ proc'[p].verdict \in {"blacklist", "block"}
          => rows[proc'[p].entry].expires > now]_vars
=============================================================================
