---------------------------- MODULE RealtimeFeed ----------------------------
(***************************************************************************)
(* ShieldRealtimeProvider: the addresses to block and the WAF rules that   *)
(* Central publishes, copied into ls_acl and ls_waf_rules.                 *)
(*                                                                         *)
(* A sync reads a cursor from the cache, asks Central for what has changed *)
(* since, applies it entry by entry and stores the new cursor last.  The   *)
(* scheduler starts one every few minutes and never two at once; the daily *)
(* sync of all feeds and a sync started by hand run beside it.  A sync     *)
(* that throws or is killed keeps what it has applied and leaves the       *)
(* cursor, so that the next one asks for the same again.                   *)
(*                                                                         *)
(* Central is external: its history is log, an entry is named by its       *)
(* position, which also serves as the version of a rule, and a page names  *)
(* each item that changed once, by its latest entry.                       *)
(***************************************************************************)
EXTENDS Integers, Sequences, FiniteSetsExt

CONSTANTS
    Cron,       \* the scheduled sync
    Others,     \* processes that sync without regard to the scheduler
    Values,     \* addresses
    Refs,       \* WAF rules
    None,
    MaxEvents,  \* bound on what Central publishes
    MaxFaults   \* bound on syncs that throw or are killed, and on lost cursors

ASSUME FeedAssumption ==
    /\ Cron \notin Others
    /\ IsFiniteSet(Others)
    /\ Values \cap Refs = {}
    /\ MaxEvents \in Nat
    /\ MaxFaults \in Nat

VARIABLES
    log,        \* Central's history
    unlocked,   \* whether the license covers the feed
    cursor,     \* 'shield.threat_feed.shield_realtime.cursor', 0 if there is none
    acl,        \* acl[v]: the feed's rows for address v; TRUE: it has no end
    rules,      \* rules[w]: the feed's row for rule w, or None
    proc,       \* proc[x]: where sync x is
    applied,    \* history: the entry applied last to each item
    overtaken,  \* history: items an older entry was applied to after, or while,
                \* another one was
    faults

vars == <<log, unlocked, cursor, acl, rules, proc, applied, overtaken, faults>>

Procs == {Cron} \cup Others
Items == Values \cup Refs
Entries == 1..MaxEvents
Positions == 0..MaxEvents

Entry == [item : Items, up : BOOLEAN]
Rule == [version : Entries, enabled : BOOLEAN]

ASSUME NullAssumption == None \notin Rule \cup BOOLEAN

Idle == [at |-> "idle"]
Asking == [at : {"ask"}, since : Positions]
Applying == [at : {"apply"}, since : Positions, upto : Positions, todo : SUBSET Items]
\* found: the row as loaded, and what applied was then.
WritingRule == [at : {"rule"}, since : Positions, upto : Positions, todo : SUBSET Items,
                item : Refs, found : Rule \cup {None}, base : Positions]
WritingAcl == [at : {"address"}, since : Positions, upto : Positions, todo : SUBSET Items,
               item : Values, found : BOOLEAN \cup {None}, base : Positions]

TypeOK ==
    /\ log \in Seq(Entry) /\ Len(log) <= MaxEvents
    /\ unlocked \in BOOLEAN
    /\ cursor \in 0..Len(log)
    /\ acl \in [Values -> Seq(BOOLEAN)]
    /\ \A v \in Values : Len(acl[v]) <= Cardinality(Procs)
    /\ rules \in [Refs -> Rule \cup {None}]
    /\ proc \in [Procs -> {Idle} \cup Asking \cup Applying \cup WritingRule \cup WritingAcl]
    /\ applied \in [Items -> 0..Len(log)]
    /\ overtaken \in SUBSET Items
    /\ faults \in 0..MaxFaults

Init ==
    /\ log = <<>>
    /\ unlocked = TRUE
    /\ cursor = 0
    /\ acl = [v \in Values |-> <<>>]
    /\ rules = [w \in Refs |-> None]
    /\ proc = [x \in Procs |-> Idle]
    /\ applied = [i \in Items |-> 0]
    /\ overtaken = {}
    /\ faults = 0

\* The latest of the first n entries about item i, 0 if there is none.
Last(i, n) == Max({0} \cup {k \in 1..n : log[k].item = i})

At(x, label) == proc[x].at = label
EntryOf(x, i) == Last(i, proc[x].upto)
Brings(x, i) == log[EntryOf(x, i)].up

\* sync() takes rules before addresses and revokes last.
Rank(x, i) == (IF Brings(x, i) THEN 0 ELSE 2) + (IF i \in Refs THEN 0 ELSE 1)
IsNext(x, i) == i \in proc[x].todo /\ \A j \in proc[x].todo : Rank(x, i) <= Rank(x, j)

-----------------------------------------------------------------------------
(* Central, and the license.                                               *)
Publish(i, up) ==
    /\ Len(log) < MaxEvents
    /\ LET k == Last(i, Len(log)) IN up \/ (k # 0 /\ log[k].up)
    /\ log' = Append(log, [item |-> i, up |-> up])
    /\ UNCHANGED <<unlocked, cursor, acl, rules, proc, applied, overtaken, faults>>

LicenseChanges ==
    /\ unlocked' = ~unlocked
    /\ UNCHANGED <<log, cursor, acl, rules, proc, applied, overtaken, faults>>

\* Mutant: the license gate is the wrong way round.
StartLocked(x) ==
    /\ At(x, "idle")
    /\ ~unlocked
    /\ proc' = [proc EXCEPT ![x] = [at |-> "ask", since |-> cursor]]
    /\ UNCHANGED <<log, unlocked, cursor, acl, rules, applied, overtaken, faults>>

(* FeedRunner, then sync().                                                *)
Start(x) ==
    /\ At(x, "idle")
    /\ unlocked
    /\ proc' = [proc EXCEPT ![x] = [at |-> "ask", since |-> cursor]]
    /\ UNCHANGED <<log, unlocked, cursor, acl, rules, applied, overtaken, faults>>

\* Mutant: the cursor is stored with the page.
PullAndStore(x) ==
    /\ At(x, "ask")
    /\ LET since == proc[x].since
           upto == Len(log)
       IN /\ proc' = [proc EXCEPT ![x] = [at |-> "apply", since |-> since, upto |-> upto,
                                          todo |-> {i \in Items : Last(i, upto) > since}]]
          /\ cursor' = upto
    /\ UNCHANGED <<log, unlocked, acl, rules, applied, overtaken, faults>>

Pull(x) ==
    /\ At(x, "ask")
    /\ LET since == proc[x].since
           upto == Len(log)
       IN proc' = [proc EXCEPT ![x] = [at |-> "apply", since |-> since, upto |-> upto,
                                       todo |-> {i \in Items : Last(i, upto) > since}]]
    /\ UNCHANGED <<log, unlocked, cursor, acl, rules, applied, overtaken, faults>>

PullFails(x) ==
    /\ At(x, "ask")
    /\ proc' = [proc EXCEPT ![x] = Idle]
    /\ UNCHANGED <<log, unlocked, cursor, acl, rules, applied, overtaken, faults>>

\* upsertWafRule, upsertAcl: where(...)->first().
Find(x, i) ==
    /\ At(x, "apply")
    /\ IsNext(x, i) /\ Brings(x, i)
    /\ LET row == IF i \in Refs THEN rules[i]
                  ELSE IF acl[i] = <<>> THEN None ELSE Head(acl[i])
       IN proc' = [proc EXCEPT ![x] =
                     [at |-> IF i \in Refs THEN "rule" ELSE "address",
                      since |-> @.since, upto |-> @.upto, todo |-> @.todo,
                      item |-> i, found |-> row, base |-> applied[i]]]
    /\ UNCHANGED <<log, unlocked, cursor, acl, rules, applied, overtaken, faults>>

\* Entry k has been applied to item i; the row it was applied to was read
\* when entry base was the last one.
Note(i, k, base) ==
    /\ applied' = [applied EXCEPT ![i] = k]
    /\ overtaken' = IF applied[i] > k \/ applied[i] \notin {base, k}
                    THEN overtaken \cup {i} ELSE overtaken

Proceed(x, i) ==
    proc' = [proc EXCEPT ![x] = [at |-> "apply", since |-> @.since, upto |-> @.upto,
                                 todo |-> @.todo \ {i}]]

\* Mutant: the version is not compared.
WriteAnyVersion(x) ==
    LET w == proc[x].item
        found == proc[x].found
        k == EntryOf(x, w)
    IN /\ At(x, "rule")
       /\ found = None => rules[w] = None
       /\ rules' = [rules EXCEPT ![w] = [version |-> k, enabled |-> TRUE]]
       /\ Note(w, k, proc[x].base)
       /\ Proceed(x, w)
       /\ UNCHANGED <<log, unlocked, cursor, acl, faults>>

\* A rule is updated if its row was of an older version; update() writes the
\* columns in which the row loaded differs.
WriteRule(x) ==
    LET w == proc[x].item
        found == proc[x].found
        k == EntryOf(x, w)
    IN /\ At(x, "rule")
       /\ \/ /\ found = None
             /\ rules[w] = None
             /\ rules' = [rules EXCEPT ![w] = [version |-> k, enabled |-> TRUE]]
          \/ /\ found # None
             /\ found.version < k
             /\ rules' = [rules EXCEPT ![w].version = k, ![w].enabled = @ \/ ~found.enabled]
          \/ /\ found # None
             /\ found.version >= k
             /\ UNCHANGED rules
       /\ Note(w, k, proc[x].base)
       /\ Proceed(x, w)
       /\ UNCHANGED <<log, unlocked, cursor, acl, faults>>

\* Somebody else has created the rule: its index is unique, and the sync throws.
Duplicate(x) ==
    /\ At(x, "rule")
    /\ proc[x].found = None
    /\ rules[proc[x].item] # None
    /\ proc' = [proc EXCEPT ![x] = Idle]
    /\ UNCHANGED <<log, unlocked, cursor, acl, rules, applied, overtaken, faults>>

\* Mutant: existing rows are not found.
WriteAclAnew(x) ==
    LET v == proc[x].item
    IN /\ At(x, "address")
       /\ acl' = [acl EXCEPT ![v] = Append(@, TRUE)]
       /\ Note(v, EntryOf(x, v), proc[x].base)
       /\ Proceed(x, v)
       /\ UNCHANGED <<log, unlocked, cursor, rules, faults>>

\* Nothing keeps an address from having two rows.
WriteAcl(x) ==
    LET v == proc[x].item
        found == proc[x].found
    IN /\ At(x, "address")
       /\ acl' = IF found = None THEN [acl EXCEPT ![v] = Append(@, TRUE)]
                 ELSE IF found THEN acl
                 ELSE [acl EXCEPT ![v][1] = TRUE]
       /\ Note(v, EntryOf(x, v), proc[x].base)
       /\ Proceed(x, v)
       /\ UNCHANGED <<log, unlocked, cursor, rules, faults>>

\* revoke(): one update statement for all rows of the item.
Revoke(x, i) ==
    /\ At(x, "apply")
    /\ IsNext(x, i) /\ ~Brings(x, i)
    /\ IF i \in Refs
       THEN /\ rules' = IF rules[i] = None THEN rules ELSE [rules EXCEPT ![i].enabled = FALSE]
            /\ UNCHANGED acl
       ELSE /\ acl' = [acl EXCEPT ![i] = [j \in DOMAIN @ |-> FALSE]]
            /\ UNCHANGED rules
    /\ Note(i, EntryOf(x, i), applied[i])
    /\ Proceed(x, i)
    /\ UNCHANGED <<log, unlocked, cursor, faults>>

StoreCursor(x) ==
    /\ At(x, "apply")
    /\ proc[x].todo = {}
    /\ cursor' = proc[x].upto
    /\ proc' = [proc EXCEPT ![x] = Idle]
    /\ UNCHANGED <<log, unlocked, acl, rules, applied, overtaken, faults>>

\* The sync throws, or its process is killed.
Abort(x) ==
    /\ faults < MaxFaults
    /\ faults' = faults + 1
    /\ proc[x].at \in {"apply", "rule", "address"}
    /\ proc' = [proc EXCEPT ![x] = Idle]
    /\ UNCHANGED <<log, unlocked, cursor, acl, rules, applied, overtaken>>

\* The cache is cleared: the next page starts from the beginning.
LoseCursor ==
    /\ faults < MaxFaults
    /\ faults' = faults + 1
    /\ cursor' = 0
    /\ UNCHANGED <<log, unlocked, acl, rules, proc, applied, overtaken>>

Apply(x) ==
    \/ \E i \in Items : Find(x, i) \/ Revoke(x, i)
    \/ WriteRule(x) \/ Duplicate(x) \/ WriteAcl(x) \/ StoreCursor(x)

Sync(x) == Start(x) \/ Pull(x) \/ PullFails(x) \/ Apply(x) \/ Abort(x)

Next ==
    \/ \E i \in Items, up \in BOOLEAN : Publish(i, up)
    \/ LicenseChanges
    \/ LoseCursor
    \/ \E x \in Procs : Sync(x)

Spec == Init /\ [][Next]_vars

\* The scheduler starts a sync every few minutes while the license lets it,
\* Central answers sooner or later, and a sync that runs goes on.
FairSpec ==
    Spec /\ SF_vars(Start(Cron)) /\ SF_vars(Pull(Cron)) /\ WF_vars(Apply(Cron))

-----------------------------------------------------------------------------
\* What the site does about item i is what Central said of it last.
Agrees(i) ==
    LET k == Last(i, Len(log))
    IN IF k = 0 THEN TRUE
       ELSE IF i \in Refs
       THEN IF log[k].up THEN rules[i] = [version |-> k, enabled |-> TRUE]
            ELSE rules[i] = None \/ ~rules[i].enabled
       ELSE log[k].up <=> (\E j \in DOMAIN acl[i] : acl[i][j])

\* The cursor promises that everything before it has been dealt with: an
\* item of which Central has said nothing since agrees with Central - unless
\* an older page was applied to it after a newer one.  (No page will name it
\* again.)  Syncs that were killed, started over, or overlapped on the same
\* page are no excuse.
CursorIsHonest ==
    \A i \in Items \ overtaken : Last(i, Len(log)) \in 1..cursor => Agrees(i)

\* A rule never goes back to an older version, even under an older page, except under a
\* sync whose copy of the row is older than the row, and that overtakes the rule.
VersionsOnlyGrow ==
    [][\A w \in Refs :
        rules[w] # None /\ rules'[w].version < rules[w].version =>
            /\ w \in overtaken'
            /\ \E x \in Procs : /\ At(x, "rule") /\ proc[x].item = w
                                /\ proc[x].found # None
                                /\ proc[x].found.version < rules[w].version]_vars

\* Whatever is lost on the way, the site ends up agreeing with Central, as
\* long as the license does not stay away and no older page comes in between.
CatchesUp == ([]<>unlocked) => <>[](\A i \in Items \ overtaken : Agrees(i))
=============================================================================
