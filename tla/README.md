# TLA+ models of laravel-security

laravel-security is a Laravel package that stands between a site and its
visitors: it decides who may enter, reports what it saw, pushes blocks to the
network edge, keeps a tamper-evident log and talks to a licensing and ingest
service ("Central"). It has no server process of its own. Everything runs in
PHP processes (web requests, artisan commands, queue workers) that share
nothing but the database, the cache store, a disk and a few remote services.
All of its concurrency therefore sits between one statement on shared storage
and the next, and that is the granularity of these models.

1. [The system](#1-the-system) - components, state, interactions, hard parts
2. [Plan](#2-plan) - modules, order, composition, abstractions, theorems
3. [What is modelled](#3-what-is-modelled) - module by module
4. [Runs](#4-runs) - what each run checks, its bounds and why they are enough
5. [Fairness](#5-fairness)
6. [Proofs](#6-proofs)
7. [Findings](#7-findings)
8. [What is not modelled](#8-what-is-not-modelled)

Paths in this file are those of the repository (`src/...`, `docs/...`).

## 1. The system

| component | state | operations | correct when |
|---|---|---|---|
| ACL and its caches | table `ls_acl`; cache key `shield.acl.live` (no expiry); one decision per client (TTL) | evaluate a request; create, update, delete a row; mass revoke; observer forgets the live set | the cached live set is what the table says; a new allow row or a removal takes effect within one decision TTL; expired rows decide nothing |
| Edge reactions | `meta.reactions` of an ACL row; jobs on the queue; rules at Cloudflare; reports at AbuseIPDB | ban and unban jobs, reconcile, retries | the row's marker and the edge agree; no rule goes before its block; each block is reported once; an ended block's rule goes |
| Audit log | table `ls_audit_log`, each row with `prev_hash` and `hmac` | `log()`, `verify()`, hand-over to the forwarder | a clean `verify()` means genuine records, each chained to the one above; what was clean below the newest record stays; no false alarm over an honest log |
| Premium license | one cache entry with a state and dates | `state()`, `refresh()`, grace fallback, clear, hourly check | premium is never further from a confirmation than grace allows; a refusal sticks; an outage of Central neither ends a license early nor locks one out for long |
| Delivery to Central | table `ls_webhook_deliveries`, queue | forward an audit entry (3 tries), finalize, mark exhausted, dashboard retry | a row says what Central took; an event leaves a trace whatever dies; no job is tried too often |
| File integrity | two artifacts (known-good `baseline`, `last-run`), each with its signature; runs, changes, a registry of baselines; a lock that expires | scan, bless, prune | silence means the files are known-good; only a bless replaces a baseline; alarms have a cause; what the next run compares with was reported |
| Scanner and quarantine | runs, findings, vault files, stub files | scan, cancel, quarantine, restore | a vaulted file is kept until it goes back to where it came from; a finding says whether it is there; a completed run has stored all it found |
| Suspicion scoring and honeypot | a counter per address in the cache; block rows | bump, threshold, trap | bumps are not lost; the counter expires; one block per address |
| Threat feeds | a cursor in the cache, block rows and WAF rules of a source | sync, upsert, revoke | what the cursor is past has been dealt with; rules do not go back; the site ends up as Central says |
| Lookup and WAF rule caches | `rememberForever` keys plus a copy per process | resolve, flush | as the ACL live set |
| File drift detector | a JSON baseline file | compare, log, write | a drift is logged once |
| Legacy firewall, auto-block | table `ip`, request patterns | match, log, block, unblock | matching is stateless |
| Notifications, reports, dashboard, installer, geo databases, scanner backends | none of their own | formatting, rendering, I/O | |

**How they interact.** A firewall middleware asks `AclEvaluator`. Rows of
`ls_acl` are written by commands, the dashboard, the scorer, the honeypot, the
legacy auto-block and the threat feeds; `AclObserver` reacts to each write by
forgetting the live set and, on creation, by queueing reaction jobs. Reaction
jobs, logins, scans and dashboard actions write the audit log; after each record
`AuditLogger` asks the cached license verdict whether to queue a delivery to
Central; `LicenseChecker` asks Central. Integrity and scanner runs notify. The
scheduler (`src/ShieldServiceProvider.php:333-414`) runs reconcile every
minute, the realtime feed every five minutes, the integrity scan and the
license check hourly, feed and drift jobs daily; several of them
`withoutOverlapping`, none of them excluding the web requests.

**Where it is hard.** (a) Read-then-write on shared storage with no lock: the
live set, the decision, the chain head of the log, the reaction marks, the
license entry, the score. (b) A remote call and the record of it are two steps:
rules at the edge, reports, deliveries. (c) Jobs are retried, delivered again
after a worker dies, and run in any order on rows that have changed since.
(d) Times: decisions, blocks, license entries and locks end while somebody is
using them. (e) Mass updates and soft deletes silently bypass the observers or
queries other parts rely on. `PROJECT.json` lists each of these at its line.

## 2. Plan

The order follows what a site would miss most: who gets in, what the edge
does, whether the log can be trusted, whether the paid part stays on.

| # | module | content | abstraction / theorem | state |
|---|---|---|---|---|
| 1 | `AclCache` | table, live set, decisions, writers, crashes | type, coherence of the live set, removal and allow take effect | done, proved |
| 2 | `AuditChain` | log, verify, edits | type, the four guarantees of `verify()` | done, proved |
| 3 | `AclReactions` | jobs, marks, edge, reports, reconcile | marker against edge, one report per block, no early unban; liveness by TLC | done, proved |
| 4 | `License` | verdict, grace, checks, outages | four time bounds | done, proved |
| 5 | `CentralDelivery` | one row per attempt, tries, exhaustion, dashboard retry; starts where `AuditChain`'s `LogForward` ends | rows tell the truth, no event vanishes, tries are budgeted | done, proved |
| 6 | `Manifest`, `Integrity` | entries and their comparison as operators; scans, lock, bless and the two-file artifacts | what a comparison without a difference says; type, silence, signatures, alarms, what is remembered, approved and replaced | done, proved |
| 7 | `Custody`, `Quarantine`, `Scanner` | what a quarantine promises; vault, stub, rows; runs, findings and cancel on top | the engine implements `Custody`; type, rows and vault, whole runs | done, proved |
| 8 | `RealtimeFeed` | overlapping syncs, the cursor, upserts and revocations | the cursor is honest; versions grow; convergence to what Central says by TLC | done, proved |

Composition: the writes of the feeds, the scorer and the dashboard to `ls_acl`
are already actions of `AclCache` (`Create`, `Upsert`, `Revoke`, `SetAction`,
`Trash`); the reactions start from the same `Create` (there `Block`). The audit
log's `outbox` holds what `CentralDelivery` delivers (`Forward`), and the gate in
front of it is `License`'s `PremiumCached`, as is `RealtimeFeed`'s `unlocked`.
`Integrity` uses the operators of `Manifest`, `Scanner` runs the actions of
`Quarantine` beside its own, and the two together implement `Custody`.

Every safety and action property of the passing runs is also a theorem.

## 3. What is modelled

### AclCache - who gets in

`rows` is `ls_acl` (position = id, soft-deleted rows kept and marked), `live`
the entry `shield.acl.live`, `decision[c]` the entry of one IP and user agent,
`proc[p]` where a PHP process is.

| action | code |
|---|---|
| `Request`, `ReadLive`, `QueryRows`, `StoreLive`, `StoreDecision` | `AclEvaluator::evaluate`, its two `Cache::remember` calls cut at each read and write of shared storage |
| `Create`, `SetAction`, `Trash`, `Upsert` | the model writes of controllers, commands, feeds, traps; each leaves the process about to run the observer |
| `ForgetLive` | `AclObserver::saved`/`deleted` calling `clearCache` |
| `Revoke` | the realtime feed's mass update, which fires no model event |
| `Crash` | a killed process, at any point |

`Matching`, `Tier`, `Decided` are `evaluateUncached`: allow before blacklist
before block, first by id. A matcher (CIDR, country, ASN, referrer, regular
expression) is the set of clients it covers. `hit_count` is left out: nothing
reads it. `tainted`, `raced` and `settled` are history variables: the first two
mark a live set made stale in one of the ways the code allows, the last dates a
write that was announced with no request under way.

### AclReactions - what the edge does

`acl[i]` is a row with the address it is about (`value`) and its two marks
(`rule_id`, `reported`); an address may have any number of rows, since `ls_acl`
has no unique index and `shield:acl --ban` and the scorer create a row whatever
there is already. `queue` and
`worker` are Laravel's queue, `edge` the rules in force at Cloudflare,
`reports` what AbuseIPDB received. `Take` is the job's load and early returns
(`HasWork`), `CreateRule`, `DeleteRule`, `Report` the remote calls that get
through, the `...Lost` actions the calls whose response is lost,
`CallFails` those that do nothing, `Save` the write-back of the whole meta
column followed by the audit entry, `Crash` a dead worker whose job is delivered
again. `Reconcile` queues unban jobs for a batch of ended rows, taken in no
order, deleted ones included. `Import` writes one address of a file: it updates
a row that is not deleted without any reaction, or creates one, which `onBlock`
sees. `shield:export` writes the meta column, so the file may bring back any mark
the address had once (`Exported`), a rule id that is gone or another row's
included; a rule is deleted by its id, whichever row it was made for (`Recorded`).

`suspect` and `imported` are history variables that name the rows the properties
except. `MarkerTracksEdge`, `OneReportPerBlock` and `ExpiredRuleGoes` except the
rows hit by a fault, by an import, or by a save from a stale copy (`suspect`):
what they say of a row is lost with its marks. `RuleOutlivesBlock` excepts nothing
but rows whose address was in an imported file (`imported`). It holds
through crashes with redelivery, lost responses, stale saves and overlapping
reconcile runs, because an unban is only dispatched for a block that has ended,
and blocks do not come back by themselves.

### AuditChain - what the log is worth

`log` is the visible table, `inserted` every row `log()` ever created. `LogRead`
and `LogCreate` are the two statements of `AuditLogger::log`, `LogForward` the
hand-over to the Central job. `EditRow` and `RemoveRow` change the table behind
the logger's back. `verify` is the walk of `AuditLogger::verify`. An HMAC is
ideal: the sequence of records chained into it. A record's content is its
canonical form; `ReadBack` says what the database returns for it, which is
another canonical form when a JSON column reorders nested keys.

### License - whether the paid part stays on

`cache` is the verdict entry with the date the code gives it, expired or not;
`Cached` and `Fresh` are `cachedState` and `isCachedStateFresh`. `Start`,
`Answer`, `PutVerdict`, `FallBack`, `PutFallBack` are `refresh()` cut at the
remote call, the read of the previous entry and the write; `State`, `Refresh`
and `LicenseCheck` its three callers. `PremiumFresh` is `isPremium` (fresh
entries), `PremiumCached` is `isPremiumCached` (any entry the store still has),
the gate of the audit log. `confirmed`, `anchor`, `revoked` and `upSince` are
history variables.

### CentralDelivery - what Central gets to know

`rows` is `ls_webhook_deliveries`, `jobs` and `worker` the queue. `Open` is the
pop of a job with `pushEvent` and `openDelivery`, `Post` the request with every
answer Central and the network can give, `Finalize` the outcome written on the
row and what `handle` and the queue then do with the job, `ReadLatest` and
`MarkExhausted` the two statements of `failed()`. `Skip` is an attempt that
finds no URL, key or secret, `TooManyAttempts` a job the queue fails unrun,
`DieEarly` and `Crash` a dead worker. `Dispatch` is shared by `Forward`
(`AuditLogger`) and `Retry` (the dashboard; an entry that was deleted is simply
not retried). A row's `answer` and `n` (its job) are history, as are `taken`,
`suspect`, `untracked` and `doubled`, which name the exceptions of the
properties. `strict` says whether the database refuses a value that is too long for
its column, as PostgreSQL and a strict MySQL do, or takes it (SQLite) or cuts it;
it is either, and does not change. Only `reason` can be too long: the message of a
connection failure may be (`TooLong`), that of the exhausted mark always is
(`MarkExhausted`), and `finalize` and `failed()` swallow the exception. `Heartbeat` is one step: nobody else writes or reads its row.

### Manifest and Integrity - which files changed

`Manifest` has no state. `RecordOf` is `Manifest::record`: a link is recorded by
its target, a file whose size and time are those of a known hash keeps that hash
(`Carried`), a large one that is no script by its size alone, the rest by its
hash. `Build`, `Changed`, `Diff` and `RootHash` are the methods of those names.
A hash is the body it was made from. `Vouched` says what a comparison without a
difference can promise at most.

`Integrity` is `IntegrityScanner` on one disk. `store[a]` holds the four files of
an artifact (body, signature, and a temporary file of each, which all writers
share), `proc[x]` what a process has read and how far it is, `runs` the table of
runs with its two comparisons (`delta` against the run before, `drift` against
known-good), `registry` the rows of `ls_integrity_baselines`.

| action | code |
|---|---|
| `Acquire`, `Skip`, `Release` | `run()` and its cache lock, which nobody renews |
| `ReadBody`, then `LoadKnown`, `LoadLast` or `LoadForBless` | `Baseline::read`, cut between the artifact and its signature, and what the three callers make of its four outcomes (`Verdict`) |
| `Walk`, `Begin`, `Complete`, `Establish`, `Tell` | `execute()`: the manifest, the `running` row, changes and `completed`, the row of a first run, the event |
| `Stage`, `StageSig`, `FlipSig`, `Flip` | `Baseline::write`, file by file and rename by rename; `Written` is what the caller does next |
| `Forget`, `Register` | `upsertBaselineRow` |
| `BlessStart` | `bless()`, which takes no lock |
| `Throw`, `Kill`, `Expire`, `Damage`, `Edit` | a write or rename that fails (with the `catch` and `finally` of a scan), a killed process, an expired lock, something else writing an artifact, a change of the disk |

A signature is the manifest it was made from, so a pair verifies exactly if the
two are equal. `mishaps` is a history variable: it names what has gone wrong
(each kind once) and whether a bless met another process, and the properties
except by these names.

### Custody, Quarantine and Scanner - where the files are

`Custody` is the promise: a file that is seized is kept under its finding until
it goes back to the path it came from. It has no processes and no rows; its
steps are `Deploy` (the owner), `Report`, `Seize`, `Release`, and `Disturb` and
`Spoil` for paths on which operations broke off or met. It also says what is
*not* promised: a finding seized again loses what it held, and what stands at a
path is discarded when a file goes back there.

`Quarantine` is the engine. `disk[p]` is the file at a path, `vault[f]` the file
`<uuid>.bin`, `rows` the findings (`held`: `quarantine_path` is set), `proc` the
calls.

| action | code |
|---|---|
| `Load`, `Seize`, `Refuse`, `WriteStub`, `SaveMove` | `move()`: the model its caller has loaded, policy, `is_file` and rename, stub, save |
| `StartRestore`, `Unlink`, `Return`, `Vanished`, `SaveRestore` | `restore()`: the row and its checks, unlink, rename (which fails if the vault file is gone), save |
| `Kill` | a killed process, or a rename that fails with the file still there |
| `Deploy` | the owner of the site writes a file |

A save writes the columns that differ from the loaded model, so a move with an
old model that already had the path set writes nothing (`SaveMove`).

`Scanner` adds the runs.

| action | code |
|---|---|
| `Start` | the row, and the backends that were asked for, are registered and available (`Turns`) |
| `ListFiles`, `ScanFile` | a per-file backend: the files of the run's targets, read one after the other |
| `ScanRun` | a run-level backend, asked once; its findings name a path that need not lie in any target |
| `StoreFinding`, `Complete`, `Fail` | the rest of `run()` |
| `Die`, `Cancel` | a killed scan; `cancel()`, which sets the status and tells nobody |

A detection is a path and a signature. What a run is asked for are names: a row of
`ls_scanner_targets` or not, with paths or not. A finding carries the first of them
that is a target, and `unknown_files` if none is or the list is empty, as in
`ComposerAuditController` (`Resolves`). The shipped service provider registers the
native, per-file backend only (`src/ShieldServiceProvider.php:94-102`); the run-level
branch is reached where an application binds `Scanner` with more of them.

The refinement (`KeepsCustody`): `vault` and `deployed` are the same, a finding's
home is its path, and the site is seen through `SiteView`. On a path that is
still `quiet` a call of `move()` counts as done at its rename, stub included, and
`restore()` at its rename back, the unlink not yet counted; on other paths the
site is what the disk says. `quiet` and `marred` are history variables: the paths
and findings on which no operation was broken off or met another one.

### RealtimeFeed - what Central tells the site to block

`log` is Central's history, `cursor` the cache key, `acl[v]` the feed's rows for
an address (`TRUE`: without an end), `rules[w]` its row for a WAF rule. `Start`
reads the cursor behind the license gate of `FeedRunner`, `Pull` and `PullFails`
are `pullFeed`, `Find`, `WriteRule` and `WriteAcl` the look and the write of the
two upserts, `Revoke` the mass update, `StoreCursor` the end. Rules come before
addresses and revocations last, as in `sync()`; the order within each list is
free. `Duplicate` is the unique index refusing a second row of a rule, which
`ls_acl` does not have. `Abort` is an exception or a kill.

`update()` writes the columns in which the loaded model differs: a rule found
enabled and disabled meanwhile stays disabled under its new version, and an
address found blocked and revoked meanwhile stays revoked.

External and assumed of Central: a page holds everything after the cursor and
names each item once, by its latest entry, and a rule's versions grow (they are
positions in `log`). `applied` and `overtaken` are history variables: which entry
was applied last, and which items had an older entry applied after a newer one
or while another one was.

## 4. Runs

Passing runs check the complete module at small constants.

| run | module | what it asks | bounds |
|---|---|---|---|
| `acl_cache` | `MCAclCache` | coherence of the live set; allow and removal take effect within a TTL | 3 processes, 1 client, 2 rows, 2 writes, clock 0..1 |
| `reactions` | `MCAclReactions` | marker against edge, one report per block, no early unban, an ended block's rule goes | 1 row, 2 workers, both reactions, 2 tries, 2 rules, 1 fault, imports of 3 entries |
| `audit` | `MCAuditChain` | what a clean `verify()` means, that it reports every fork, raises no false alarm, and misses nothing but the newest record | 2 writers, 3 contents, 3 inserts, 1 edit |
| `license` | `License` | the four time bounds | cron and 1 process, cache TTL 3, grace 4, clock 0..8, 3 events |
| `delivery` | `MCCentralDelivery` | the rows tell what Central took, the one under way is pending, no event vanishes, tries are budgeted | 1 event, 2 workers, 2 tries, 1 dashboard retry, 1 heartbeat row, 2 faults, strict database or not |
| `integrity` | `MCIntegrity` | silence vouches for the disk; signatures, alarms, rows, registry and last-run agree with what happened | 1 path with 2 files or none, 2 processes, 3 run rows, 1 bless, 1 change of the disk, 1 mishap of any kind |
| `quarantine` | `MCScanner` | the engine implements `Custody`; rows and vault agree; a completed run has all its findings | 2 processes, 1 path, 2 files, 2 findings, 1 run of one of three target lists with any of 2 backends, 1 fault |
| `feed` | `RealtimeFeed` | the cursor is honest, versions only grow, the site catches up | the cron and 1 process, 1 address, 1 rule, 3 entries of Central, 1 fault |

| run | module | shows the violation of |
|---|---|---|
| `acl_expiry` | `MCAclCache` | `ExpiredRowsAreIgnored` |
| `reactions_unban` | `MCAclReactions` | `UnbanRemovesRule` |
| `audit_mysql` | `MCAuditChain` | `UntouchedLogIsClean` |
| `integrity_atomic` | `MCIntegrity` | `OnlyDamageIsTamper` |

Why the bounds are enough:

- `acl_cache`: the races need a reader between query and store, a writer between
  row and forget, and a third process that refills; three processes give all
  three at once. Two writes on two rows allow a write to overtake another's
  forget, an allow row over a block row, and an upsert or removal of what was
  just created. Properties speak of one client at a time, and the entries of
  different clients never meet, so one client is enough. Clock 0..1 with TTL 1
  contains an expiry of a row and of a decision. All four properties
  are proved for all values.
- `reactions`: one row of one address. Rows of one address meet in three places: the
  batch, an import, and a rule id that an import brought to another row. The last
  two are in the proofs, which hold for any rows and addresses; two rows, without
  the liveness property, were also explored for their safety (12.7 million
  states, no violation). Two workers give two jobs of the row at once (two bans of different
  reactions, a ban and an unban, two tries). Two rules let a second rule be
  made after the first; two tries give a retry and a last try. One fault is one
  lost response, crash or import anywhere; the file is one from before the block,
  one with its rule and report, or one in which it has ended. `Batch = 1` with one row means every
  ended row fits in a batch; where they do not, see the hazard at
  `src/Console/Commands/ReactionsReconcileCommand.php:40`.
- `audit`: two writers fork the chain, three rows give a row with both
  neighbours, one edit gives every single change, splice (a row overwritten with
  another row's columns) and removal. The properties are proved for all values.
- `license`: the order `ShortFresh = GraceFresh < Ttl < Grace` is that of the
  configuration (five minutes, an hour, 24 hours, 7 days); the clock runs past
  `Grace + Ttl`, so that a grace period can begin, be renewed and end, and three
  events give an outage, its end and one more change. One request process next to
  the cron gives every overlap of two checks; two processes were also checked,
  with a shorter clock.
- `delivery`: events share nothing but the table, where a heartbeat's row stands
  for the rows of others. Two workers and one retry give two jobs of an event at
  once, one giving up while the other opens, posts or finishes; two tries give a
  retry and a last try; two faults can spend both tries of a job on dead workers,
  or combine a dead worker with a lost response.

- `integrity`: two processes give a scan and a bless, or two scans once the lock
  has expired, at every pair of steps; three rows give a first run, one that
  compares with known-good and one that compares with the run before it (or a
  skipped one); the two files have one size and different times, the case in
  which only the time tells that a hash must not be carried. Paths are compared
  one by one, so one is enough, and one that may be absent gives `new` and
  `deleted`. Links, large and unreadable files do not occur in the run: that
  silence vouches for them too is `NoDiffVouches`, proved for all files.
- `quarantine`: paths never meet, so one is enough. Two findings of one file give
  two moves, a move and a restore, and two restores, on one finding or on both,
  at every pair of steps; the second file is one the owner puts back while the
  first is in the vault. The lists are the empty one, whose findings get
  `unknown_files`, one log_only target, and one that begins with a name which is no
  target and goes on with a movable one; so a finding may be moved or refused. The
  run-level backend reports one of the file's findings too, or one nothing else
  does. One fault is a kill anywhere or a failed rename.
- `feed`: items do not meet except through the cursor, and one address and one
  rule have the two kinds of row. Three entries are published, revoked and
  published again, or two of one item around one of the other. One process beside
  the cron gives every overlap of two syncs; one fault is a sync that ends anywhere
  or a cache that is cleared. Three syncs on one item were checked, once, for the
  safety properties and the invariants of their proofs (2.7 million states):
  with three, an older page can bring `applied` back to where a copy was loaded.

Bounds in guards: `MaxRows`, `MaxWrites`, `MaxTime` (AclCache); `MaxRules`,
`MaxUnbans`, `MaxFaults` (AclReactions: a full `MaxUnbans` delays a reconcile
run until one of the row's unban jobs is taken); `MaxInserts`, `MaxEdits`
(AuditChain); `MaxTime`, `MaxEvents` (License); `MaxRetries`, `MaxBeats`,
`MaxFaults` (CentralDelivery); `MaxRuns`, `MaxBlesses`, `MaxEdits`,
`MaxMishaps` (Integrity, with room kept for the row of every scan under way);
`MaxFaults`, and `Bodies`, each deployed once (Quarantine); `MaxEvents`,
`MaxFaults` (RealtimeFeed).
Deadlock is not checked: with the
bounds reached and nothing under way each of these systems is at rest. Symmetry
is used for processes and writers in runs that check no liveness.

Assumptions on time in `License`: one tick is the hour between two scheduler
runs; the scheduler starts `shield:license:check` in each (`Tick` waits for it);
a check is limited by `http_timeout`, ten seconds, so it may straddle one tick
and not two; the cron's own check is not killed. `OutageEnds` and
`GraceIsHonoured` rest on them: without the hourly check a `valid` entry leaves
the store exactly when `state()` stops trusting it, and a failing refresh then
finds nothing to base a grace period on.

Each property also has a mutant: a plausible slip in one definition (a dropped
observer, the wrong tier order, a missing early return, an HMAC without its
predecessor, grace renewed from itself ...) under which the same run finds it
violated. They stand beside the definition they change, marked `Mutant:`.

## 5. Fairness

`AclReactions` and `RealtimeFeed` check liveness (`FairSpec`).

`AclReactions`:

- Weak fairness of `Reconcile`: the scheduler runs it every minute.
- Strong fairness of taking a row's unban jobs: a queue does not pass a job over
  for ever while it serves others.
- Strong fairness of `DeleteRule`: a delete that is tried again and again gets
  through at some time; it may fail any number of times before.
- Weak fairness of a busy worker: a job has a timeout.

There is no fairness on blocks, expiry, faults or imports. `ExpiredRuleGoes`
needs the repeated reconcile: one job has finitely many tries, and after the
last of them only the next reconcile run queues another.

`RealtimeFeed`: the scheduler starts a sync every few minutes
(`src/ShieldServiceProvider.php:384-390`); `withoutOverlapping` makes it one at
a time, hence one process `Cron`.

- Strong fairness of `Start(Cron)`: the license may come and go, but a scheduled
  sync finds it there sooner or later if it keeps coming back; `CatchesUp`
  assumes that it does.
- Strong fairness of `Pull(Cron)`: Central may fail to answer any number of times,
  not for ever.
- Weak fairness of `Apply(Cron)`: a sync that runs goes on.

There is none on the other processes, which may stop anywhere, none on Central,
and aborted syncs and lost cursors are limited by `MaxFaults` only.

`License` states its "eventually" as bounds on the clock (`OutageEnds`), which
are safety properties.

## 6. Proofs

TLAPS checks these for every value of the constants that meets the named
assumptions of the modules. Those say of what kind a constant is
(`ParametersAssumption`, `BoundsAssumption`, `RecordsAssumption`,
`ReadBackAssumption`, `ManifestAssumption`, `IntegrityAssumption`,
`QuarantineAssumption`, `ScannerAssumption`, `FeedAssumption` ...) and that
the null value is none of the values it stands beside (`NullsAssumption`,
`NullAssumption`). Nothing is assumed about how many processes, clients, rows,
workers or contents there are, and the sets need not be finite, with one
exception: the syncs of `RealtimeFeed` are counted, since an address gets at most
one row from each. The two properties of `License` that need more say so in the
theorem (`Ttl >= 3`).

**`AclCacheProofs`**

- `TypeCorrect`: `Spec => []TypeOK`.
- `LiveSetStaysCoherent`: `Spec => []LiveSetCoherent`. The property is not
  inductive: a fill under way becomes the live set, so the inductive invariant
  says of a set being carried by a process what the property says of the stored
  one - unless the fill was raced, it is what the query would return from the
  table as it is, or a write is about to forget. `Commit` makes that "about to
  forget", `ForgetLive` marks the fills it overtakes, `Revoke` and `Crash` mark
  both.
- `RemovalTakesEffectAlways`, `AllowTakesEffectAlways`. A row settles when its write
  is announced with no request under way; the invariant (`Effective`) follows it
  through everything read from the table and passed on: a settled row that was
  removed is in no live set, no fill and no verdict (`Gone`), a settled allow row is
  in each of them as it stands in the table (`Granted`), and an older decision ends
  with its lifetime (`Timely`). Each step takes a live set, a fill, a verdict or a
  decision from one of the earlier ones (`Sources`), which is all the argument
  needs; later writes, races and crashes do no harm.

**`AuditChainProofs`**

- `TypeCorrect`. The set of HMACs that exist grows with the table, so the proof
  first shows that the type of a step's old values is contained in the new one.
- `CleanLogIsGenuineAlways`. Each inserted row's HMAC is `compute` of its
  predecessor and content, and every HMAC in the table, however edited, is
  the HMAC of some inserted row or none; by injectivity of `compute` a row that
  verifies determines both its content and the HMAC before it.
- `ForksAreReported`: in an unedited table `verify()` reports exactly the forks
  and the rows that do not read back. The invariant ties each visible row to the
  row inserted for it through `ReadBack`.
- `SerialLogIsClean`: while no two calls overlapped, at most one writer holds a
  chain head, it is the current one, and so every row is chained to the one above.
- `OnlyTheNewestCanGoAlways`: an action property. Each stored HMAC pins
  down everything chained into it; of two clean logs one step apart the later holds
  every record of the earlier but its newest, at the same place.

**`IntegrityProofs`**

- `NoDiffVouches`, a fact about operators: by cases on how a file was recorded, an
  entry that does not differ from the known-good one stands for the same body,
  or neither the size nor the time has changed.
- `TypeCorrect`.
- `SilenceMeansUnchangedAlways`. The property is about three things a scan wrote at
  different times: its manifest, the snapshot it was built from and the row of
  its run. The inductive invariant (`IInv`) says of each process that they
  belong together (`Coherent`) from the walk on, and that no two processes write
  one row (`OwnRows`); a step of one process then leaves the others alone
  (`Local`, `LocalStep`), and `NoDiffVouches` finishes.
- `NeverUnsignedAlways`. The strengthening (`Signed`) adds that a writer about to
  rename the artifact has a signature in place, its own or a later one, which no
  other writer takes away.
- `OnlyBlessReplacesAlways`, `AlarmsAreRealAlways`, `RememberedWasReportedAlways`,
  `RegistryMatchesAlways`, from one inductive invariant (`Ordered`) whose parts hold
  under fewer mishaps the more they say. With none excluded: where a process is in its
  task says which artifact it is at (`Shape`), its row is that of its manifest
  (`Recorded`), and whatever was read, compared with or blessed presupposes a baseline,
  which never goes away again (`Rooted`). While no lock has expired: a scan holds the
  lock (`ScanHolds`), one that is to write the first baseline still finds none
  (`FoundersFirst`; a bless cannot get in between, since it presupposes one), and the
  temporary files of the last-run artifact are the scan's own (`LastRunPrepared`).
  Without a kill or a failed write besides: `Remembered`. With no mishap at all
  (`Orderly`): a process at work is the only one, what it has read is still there, an
  artifact agrees with its signature except between the two renames, and between the
  baseline and the registry row the baseline is the manifest of the process that is
  midway.

**`ScannerProofs`**

- `TypeCorrect`, together with "a scan at work has a run that is not completed".
- `KeepsCustodyAlways`: `Spec => KeepsCustody`, the refinement. A step of a call
  that `Custody` does in one piece maps to that piece or to nothing, and the mapped
  view of a quiet path is computed from the calls under way on it; so the
  inductive invariant (`QuietIsQuiet`) says that on a quiet path there is at most
  one such call and what it has done to the file and the vault so far. Lemmas
  `Seen`, `SeenNext` and `Elsewhere` compute the view, before and after a step, and
  show that a step changes it at its own path only; then one lemma per action
  (`FaithfulSeize`, ..., `FaithfulKill`) names the step of `Custody` or the stutter.
- `RowsMatchVaultAlways`. The property speaks of findings on which nothing is
  under way; the invariant (`Sound`) also says, label by label, how far vault and
  row are apart while one call is, and that there is only one.
- `CompletedIsWholeAlways`. What a run has detected is with its process or in the
  table while the process lives (`NothingSlips`); `Complete` is taken with empty
  hands, and the actions of `Quarantine` leave the columns alone by which a
  detection is recognised (`VaultKeepsReports`).

**`AclReactionsProofs`**

- `TypeCorrect`, with "a job on the queue has a try left".
- `RuleOutlivesBlockAlways`, an action property. Two invariants meet in it. One is
  about jobs that were dispatched long before the step (`UnbanAfterEnd`): every unban
  on the queue or in hand belongs to a row whose block has ended (or that an import
  renewed). The other is about whose rule a delete hits, since it goes by the id
  (`Owned`): an id Cloudflare handed out is new, and it is on another row than its
  rule's, or in a job's copy of one, only if both rows were imported.
- `OneReportPerBlockAlways`. The property counts reports; the invariant (`Counted`)
  says where the one ban job of a row stands: nothing reported and the mark not set,
  or one report and the mark set, or the job between the two. That there is one is
  `OneBan`: taking, retrying and delivering again move a job, only the creation of
  the row (`Created`) makes one.
- `MarkerTracksEdgeAlways`. The same for the rule (`Tracked`), whose marks bans and
  unbans both write. A job may hold an old copy of the marks; that its save does
  not undo another job's is what `suspect` excepts. The rule a call creates has an
  id no row has (`RulesKnown`).

**`LicenseProofs`**

- `TypeCorrect`, with "a check outlasts one tick at most".
- `PremiumIsConfirmedAlways`. The invariant (`Backed`) dates every premium verdict,
  in the cache, answered or fallen back to, from a `valid` of Central's, and says
  that a grace entry keeps the date of the one it came from.
- `RevocationSticksAlways` (`Refused`): after such a refusal neither the cache nor a
  check that read it has anything to base a grace period on.
- `GraceIsHonouredAlways`, `OutageEndsAlways`: `Ttl >= 3 => (Spec => [] ...)`. Both
  rest on the scheduler (`Kept`): since the hourly check is never older than a tick
  when the next one starts, an entry is renewed within two ticks and the store has
  not forgotten it. The condition is sharp: with `Ttl = 2` TLC violates both. The
  configuration has 24 hours (`config/shield.php:1084`).

**`CentralDeliveryProofs`**

- `TypeCorrect`, with "every event that has rows has a newest", on which `failed()`
  depends, and "the row in a worker's hands is one of its job's".
- `UnderWayIsPendingAlways` (`Pending`), `RowsTellTheTruthAlways` (`Truth`). Who can
  write a row decides both: `OneJob` says that a job is in one place and that an
  event which never had two jobs at once has one, so that the row `failed()` marks
  is its own.
- `NothingVanishesAlways` (`Kept`). The property speaks of events whose jobs are
  over, on strict databases and others; the invariant says of each job on its way what it will still leave behind:
  a try, a row to be finished, or a `failed()` that is to mark one.
- `AttemptsAreBudgetedAlways`. The rows of a job are counted against its attempts
  (`Budget`), and what Central answered to them against the place of the job
  (`Answers`).

**`RealtimeFeedProofs`**

- `TypeCorrect`. That an address has at most one row per sync is not inductive
  either: the syncs that found none and are about to add one are counted in.
- `CursorIsHonestAlways`. For each item on which no older page overtook a newer one
  the invariant (`Honest`) says that its row is what the entry applied last makes of
  it, that this entry is as late as the cursor and as the start of every page under
  way, and that a sync about to write has a copy that still fits the row or comes
  after another one applied the same entry. A write of either kind then makes the row
  what its entry says, although it writes only the columns that differ.
- `VersionsOnlyGrowAlways`, from the same invariant. An earlier wording excused a
  step back only while the rule's `applied` differed from the copy's `base`; the
  proof did not go through, and with three syncs TLC shows why: an older page can
  bring `applied` back to `base`.

**Model-checked only.** `ExpiredRuleGoes` and `CatchesUp` are liveness under
fairness, which is out of the prover's reach and stays with TLC. The four runs of
section 7 show violations, of which there is nothing to prove.

## 7. Findings

- **Expired rows keep denying** (`acl_expiry`). `scopeActive` is applied when the
  live set is filled and the set is kept for ever
  (`src/Services/Acl/AclEvaluator.php:99`), so a temporary block that ends while
  the set is cached goes on until the next write to the table.
  `src/Console/Commands/ReactionsReconcileCommand.php:11` relies on the opposite.
- **An unban leaves the edge rule** (`reactions_unban`). The job loads the row
  with `Acl::find`, which hides soft-deleted rows
  (`src/Jobs/RunAclReactionJob.php:36`), so the unban that reconcile queues for
  a deleted block returns at once.
- **Nested JSON is not canonical** (`audit_mysql`). `HmacChain::canonicalize`
  sorts the top level only (`src/Services/Audit/HmacChain.php:17`); a MySQL JSON
  column returns nested keys in its own order, and a record written and never
  touched fails verification.

- **A bless can make a scan report tampering** (`integrity_atomic`). The signature
  is renamed before the artifact (`src/Services/Integrity/Baseline.php:73`), a
  reader takes them in the other order, and a bless holds no lock; a scan between
  the two renames has the old artifact and the new signature. Each rename is
  atomic, the pair is not, whatever `docs/integrity.md:79` says.

Met while modelling and not made into runs:

- Two calls of `log()` that overlap read the same head
  (`src/Services/Audit/AuditLogger.php:29`); `prev_hash` is then not "the previous
  record's `hmac`" of `docs/audit-log.md:24`, and `verify()` reports a record
  nobody touched. That it reports exactly these is `VerifyReportsForks`.
- `docs/audit-log.md:3` says "Modifying or deleting a record breaks the chain". Nothing
  is chained to the newest record, so deleting it leaves a log that verifies; then
  the one before it is the newest, and so on down to an empty table.
  `OnlyTheNewestCanGo` is what remains of the claim: from one clean log to the next
  no other record has changed.
- `docs/specs/spec-006-honeypotplus-edge-reactions.md:324` has AbuseIPDB reported to
  "once per IP" and already reported addresses skipped. The mark is in the row
  (`src/Services/Reactions/AbuseIpDbReportReaction.php:89`), `ls_acl` has no unique
  index (`database/migrations/2026_05_26_000003_create_acl_table.php:31-33`),
  `shield:acl --ban` always creates a row, and an address whose block has expired
  is blocked again in a new one: it is reported once per block (`OneReportPerBlock`).
  In the same way a second block of an address asks Cloudflare for a second rule;
  if Cloudflare refuses one because it has a rule for the address, the row stays
  without, and when the first block ends the rule goes while the second stands.
- An import brings back old marks (`src/Console/Commands/ImportCommand.php:53`, exported
  by `src/Console/Commands/ExportCommand.php:37`): a block that was never pushed may
  then count as pushed, and the end of one row take down the rule of another.
- `shield:reactions-reconcile` takes its batch without an order, and says that "the
  batch limit only counts actionable orphans"
  (`src/Console/Commands/ReactionsReconcileCommand.php:28`). The rows of deleted blocks
  are not: their unban job finds nothing and their rule id stays, so as many of them as
  `reconcile_batch` can keep the expired ones from ever being chosen.
- The `reason` of a delivery has 64 characters
  (`database/migrations/2026_05_28_000001_create_ls_webhook_deliveries_table.php:44`), and
  `failed()` writes more (`src/Jobs/ForwardAuditToCentralJob.php:108`). PostgreSQL and a
  strict MySQL refuse that, the exception is swallowed, and no row ever becomes
  `exhausted`, although "On exhaustion, the most-recent WebhookDelivery row is bumped to
  'exhausted' so the dashboard surfaces the permanent failure" (line 27). The message of
  a connection failure is refused likewise, so an event of an outage may be left with
  pending rows only, which have no retry button: the third case of `NothingVanishes`.
- A finding gets the first target of its run
  (`src/Services/Scanner/Scanner.php:85`), so in a run over several targets the
  policy of the first decides for all: a file of a log_only target may be moved
  although `docs/scanner.md:68` says log_only "never touches the file", and the list
  `shield:scan` uses by default begins with `app_files`, which makes uploads log_only.
  A run that names no target, as that of the Composer page, gets `unknown_files`, so its
  findings in `composer.lock` may be moved. And `unknown_files` is movable as shipped
  (`config/shield.php:629`) and stands for the whole base path
  (`src/Services/Scanner/Scanner.php:201`), not for the "Files in `public/` not matching
  expected patterns" of `docs/scanner.md:25`, so a scan of it makes any file of the
  application movable, contrary to `src/Services/Scanner/Quarantine.php:19`. No property
  about log_only is left that the code could be held to.
- `docs/architecture.md:99` and `docs/troubleshooting.md:82` call `addBackend` on the
  scanner, which has no such method; a second backend takes a binding of one's own.
- A cancelled run goes on and writes `completed` over `cancelled`
  (`src/Services/Scanner/Scanner.php:110`); `docs/scanner.md:41` says "Cancel a
  running scan".
- After two findings of one file have been moved, the second holds the stub of
  the first; restoring both, in this order, deletes the original
  (`src/Services/Scanner/Quarantine.php:129`). Moving a finding twice
  replaces its vault file. `Custody` states both as exceptions.
- Nothing in `src/` calls `move()`, and the dashboard has no restore, though
  `docs/scanner.md:70` names one.
- A sync that applies an older page after another sync has applied a newer one
  re-activates an address that was revoked, and no later page names it again:
  the block stays (`overtaken` in `CursorIsHonest`). The daily `shield:feed-sync`
  and the realtime schedule are two events, so `withoutOverlapping` of the
  second does not exclude the first.
- A revoked WAF rule stays in the rule cache, which a mass update does not clear
  (`src/Services/ThreatFeed/Providers/ShieldRealtimeProvider.php:171`).

Also: `tamper_suspected`, `failed` and
`aborted_limit` runs return before `IntegrityScanCompletedEvent` is dispatched, so
the listener that is to notify of them "ALWAYS"
(`src/Listeners/IntegrityScanCompletedListener.php:15`) never hears of them; a
script whose size and time are unchanged keeps its recorded hash
(`src/Services/Integrity/Manifest.php:168`), while `docs/integrity.md` has script
files always hashed; `verify()` never reads `prev_hash`,
though `docs/audit-log.md` describes it as doing so, and the commands that page
names for verifying, rotating and pruning do not exist; the comment at
`src/ShieldServiceProvider.php:409` says the hourly license check respects the
per-state freshness, while `refresh()` always asks; `src/Models/WebhookDelivery.php:21`
lists a status `skipped` for an attempt without license or URL, while
`pushEvent` returns before there is a row; and `failed()` can mark a row as
exhausted whose request Central took, when a dashboard retry of the same event
is under way (the exception `doubled` of `RowsTellTheTruth`).

## 8. What is not modelled

Scoring and honeypot write rows that are `Create` steps of `AclCache`; their own
state is one counter per address that is read, then incremented or put
(`src/Services/Scoring/SuspicionScorer.php:43`), and a row that is looked for,
then created. Of the feeds only the realtime one has a cursor and revokes; the
others upsert what they download, the `Upsert` of `AclCache`. The lookup and WAF
rule caches follow the fill-and-forget protocol of the live set without the decision
layer, so a model of them would repeat `AclCache`. The drift detector's only
shared state is one file written at the end of a daily run. The legacy firewall
matches patterns request by request; its table is written once per block.
Notifications, reports, views, the facade and the installer hold no state of
their own; geo databases, trusted proxies and scanner backends are I/O in
third-party formats; what a scanner backend reports is an input of `Scanner`. The
JavaScript under `src/public/plugins` is vendored
(DataTables, Bootstrap) and served as it is; the package's own code is PHP.

Left out of the modelled parts: hit counters; the plan and features of a
license; report bodies; event payloads, and the failure to encode one; the age limit of a report (a row is reported within
`max_age_days` of its creation); the wording of audit records; changes of
configuration at run time other than the license key; of the integrity engine
the severity and class of a change, the cap on change rows, the scope
fingerprint, followed links, files that vanish while they are recorded, pruning,
the heartbeat and the summary card; of the quarantine the sidecar (it repeats the
finding's path), mode and mtime, symbolic links and a vault on another file
system; of the scanner what a backend looks for, severities, counts and `file_hash`, which
is taken when the finding is stored and not when the file is read; of the feed
rows that the dashboard changes or deletes, and pages that are no JSON.

## Running

```
tlc -workers 2 -config AclCache.cfg      MCAclCache.tla
tlc -workers 2 -config AclReactions.cfg  MCAclReactions.tla
tlc -workers 2 -config AuditChain.cfg    MCAuditChain.tla
tlc -workers 2 -config License.cfg       License.tla
tlc -workers 2 -config CentralDelivery.cfg MCCentralDelivery.tla
tlc -workers 2 -config Integrity.cfg     MCIntegrity.tla
tlc -workers 2 -config Scanner.cfg       MCScanner.tla
tlc -workers 2 -config RealtimeFeed.cfg  RealtimeFeed.tla
tlapm AclCacheProofs.tla
tlapm AclReactionsProofs.tla
tlapm AuditChainProofs.tla
tlapm CentralDeliveryProofs.tla
tlapm IntegrityProofs.tla
tlapm LicenseProofs.tla
tlapm RealtimeFeedProofs.tla
tlapm ScannerProofs.tla
```
