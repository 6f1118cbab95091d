------------------------------ MODULE License ------------------------------
(***************************************************************************)
(* The premium license as a site knows it: LicenseChecker keeps Central's  *)
(* last verdict as one entry of the shared cache and asks again when the   *)
(* entry is too old, when the hourly shield:license:check runs, or when    *)
(* somebody presses refresh on the License page.                           *)
(*                                                                         *)
(* A check asks Central, then writes the entry; a check that fails first   *)
(* reads the entry it will replace, to see whether a grace period applies. *)
(* Checks of several PHP processes overlap.  When Central changes its mind *)
(* or cannot be reached is up to the environment.                          *)
(*                                                                         *)
(* One tick of the clock is the hour between two runs of the scheduler.  A *)
(* check is limited by http_timeout, ten seconds, so it may outlast one    *)
(* tick but not two.  Plan, features and wording are left out.             *)
(***************************************************************************)
EXTENDS Integers

CONSTANTS
    Cron,        \* the scheduler's shield:license:check, which never overlaps itself
    Requests,    \* the other processes that use LicenseChecker
    Ttl,         \* shield.premium.cache_ttl
    Grace,       \* shield.premium.grace_period_days
    GraceFresh,  \* how long state() trusts a grace entry: an hour
    ShortFresh,  \* how long it trusts "no key" and "unreachable": five minutes
    MaxTime,     \* bound on the clock
    MaxEvents    \* bound on changes of the environment: Central, the key, a cleared cache

ASSUME ParametersAssumption ==
    /\ Cron \notin Requests
    /\ Ttl \in Nat \ {0} /\ Grace \in Nat
    /\ GraceFresh \in 1..Ttl /\ ShortFresh \in 1..Ttl
    /\ MaxTime \in Nat /\ MaxEvents \in Nat

VARIABLES
    now,         \* the clock
    key,         \* a license key is configured
    central,     \* what Central would answer: "valid", "invalid", or "down"
    cache,       \* the entry under shield.premium.cache_key, expired or not, or NoEntry
    check,       \* check[p]: where process p is in refresh()
    due,         \* the scheduler has yet to start this tick's shield:license:check
    events,      \* changes of the environment so far
    confirmed,   \* when Central last answered "valid"
    anchor,      \* when a "valid" was last recorded with no other check under way and
                 \* neither a refusal, a new key nor a cleared cache since; or NoTime
    revoked,     \* an "invalid" was recorded with no other check under way and Central
                 \* has not answered "valid" since
    upSince      \* since when Central would say "valid", with the same key and no cleared
                 \* cache, or NoTime

vars == <<now, key, central, cache, check, due, events, confirmed, anchor, revoked, upSince>>

Procs == Requests \cup {Cron}
Premium == {"valid", "grace"}
NoTime == -1
Times == 0..MaxTime
NoEntry == [state |-> "none"]

\* last_valid_at is there in a grace entry only.
Entry == [state : {"valid", "invalid", "unreachable", "no_key"}, checked_at : Times]
         \cup [state : {"grace"}, checked_at : Times, last_valid_at : Times]

Idle == [at |-> "idle"]
Checking == [at : {"asked"}, began : Times]
            \cup [at : {"answered"}, began : Times, answer : {"valid", "invalid", "failed"}]
            \cup [at : {"fallback"}, began : Times, lastValid : Times \cup {NoTime}]

TypeOK ==
    /\ now \in Times
    /\ key \in BOOLEAN /\ due \in BOOLEAN /\ revoked \in BOOLEAN
    /\ central \in {"valid", "invalid", "down"}
    /\ cache \in Entry \cup {NoEntry}
    /\ check \in [Procs -> Checking \cup {Idle}]
    /\ events \in 0..MaxEvents
    /\ {confirmed, anchor, upSince} \subseteq Times \cup {NoTime}

Init ==
    /\ now = 0
    /\ key \in BOOLEAN
    /\ central \in {"valid", "invalid", "down"}
    /\ cache = NoEntry
    /\ check = [p \in Procs |-> Idle]
    /\ due = TRUE
    /\ events = 0
    /\ confirmed = NoTime
    /\ anchor = NoTime
    /\ revoked = FALSE
    /\ upSince = IF key /\ central = "valid" THEN 0 ELSE NoTime

-----------------------------------------------------------------------------
(* The cached entry.                                                       *)

\* isCachedStateFresh, per state.
Freshness(state) ==
    CASE state \in {"valid", "invalid"} -> Ttl
      [] state = "grace" -> GraceFresh
      [] state \in {"no_key", "unreachable"} -> ShortFresh

\* The store's own expiry: persist, and persistWithTtl for "unreachable".
Lifetime(state) == IF state = "unreachable" THEN ShortFresh ELSE Ttl

Younger(limit) == now - cache.checked_at < limit

\* cachedState
Cached == IF cache = NoEntry \/ ~Younger(Lifetime(cache.state)) THEN NoEntry ELSE cache

Fresh == Cached # NoEntry /\ Younger(Freshness(cache.state))

\* isPremiumCached
PremiumCached == Cached.state \in Premium

\* isPremium, when state() answers from the cache.
PremiumFresh == Fresh /\ PremiumCached

\* Mutants: a grace entry counts as a check; a grace entry grants no more grace; any
\* entry anchors a grace period.
lastValidAtSliding == IF Cached.state \in Premium THEN cache.checked_at ELSE NoTime
lastValidAtOnce == IF Cached.state = "valid" THEN cache.checked_at ELSE NoTime
lastValidAtAny ==
    CASE Cached = NoEntry -> NoTime
      [] Cached.state = "grace" -> cache.last_valid_at
      [] OTHER -> cache.checked_at

lastValidAt ==
    CASE Cached.state = "grace" -> cache.last_valid_at
      [] Cached.state = "valid" -> cache.checked_at
      [] OTHER -> NoTime

-----------------------------------------------------------------------------
(* refresh().                                                              *)

Alone(p) == \A q \in Procs \ {p} : check[q] = Idle

\* Mutant: a check answers from a fresh entry.
StartFresh(p) ==
    /\ check[p] = Idle
    /\ IF key
         THEN /\ check' = IF Fresh THEN check
                          ELSE [check EXCEPT ![p] = [at |-> "asked", began |-> now]]
              /\ cache' = cache
         ELSE /\ cache' = [state |-> "no_key", checked_at |-> now]
              /\ check' = check
    /\ UNCHANGED <<now, key, central, events, confirmed, anchor, revoked, upSince>>

\* Without a key the verdict is written at once.
Start(p) ==
    /\ check[p] = Idle
    /\ IF key
         THEN /\ check' = [check EXCEPT ![p] = [at |-> "asked", began |-> now]]
              /\ cache' = cache
         ELSE /\ cache' = [state |-> "no_key", checked_at |-> now]
              /\ check' = check
    /\ UNCHANGED <<now, key, central, events, confirmed, anchor, revoked, upSince>>

\* state() finds no fresh entry.
State(p) == ~Fresh /\ Start(p) /\ UNCHANGED due

\* The refresh button of the License page.
Refresh(p) == Start(p) /\ UNCHANGED due

\* shield:license:check, which stops at once without a key.
LicenseCheck ==
    /\ due
    /\ due' = FALSE
    /\ \/ check[Cron] = Idle /\ key /\ Start(Cron)
       \/ /\ check[Cron] # Idle \/ ~key
          /\ UNCHANGED <<now, key, central, cache, check, events, confirmed, anchor,
                         revoked, upSince>>

\* Central answers, or the request fails.
Answer(p) ==
    /\ check[p].at = "asked"
    /\ check' = [check EXCEPT ![p] =
                   [at |-> "answered", began |-> check[p].began,
                    answer |-> IF central = "down" THEN "failed" ELSE central]]
    /\ confirmed' = IF central = "valid" THEN now ELSE confirmed
    /\ revoked' = (revoked /\ central # "valid")
    /\ anchor' = IF central = "invalid" THEN NoTime ELSE anchor
    /\ UNCHANGED <<now, key, central, cache, due, events, upSince>>

Put(p, entry) ==
    /\ cache' = entry
    /\ check' = [check EXCEPT ![p] = Idle]

\* persist(): the verdict, dated by the time of the write.
PutVerdict(p) ==
    /\ check[p].at = "answered" /\ check[p].answer # "failed"
    /\ Put(p, [state |-> check[p].answer, checked_at |-> now])
    /\ anchor' = IF check[p].answer = "valid" /\ key /\ Alone(p) THEN now ELSE anchor
    /\ revoked' = (revoked \/ (check[p].answer = "invalid" /\ Alone(p)))
    /\ UNCHANGED <<now, key, central, due, events, confirmed, upSince>>

\* persistGraceOrInvalid: the entry it replaces is read first ...
FallBack(p) ==
    /\ check[p].at = "answered" /\ check[p].answer = "failed"
    /\ check' = [check EXCEPT ![p] =
                   [at |-> "fallback", began |-> check[p].began,
                    lastValid |-> IF lastValidAt # NoTime /\ lastValidAt + Grace > now
                                    THEN lastValidAt ELSE NoTime]]
    /\ UNCHANGED <<now, key, central, cache, due, events, confirmed, anchor, revoked, upSince>>

\* Mutant: no look at whether there was a valid check at all.
PutFallBackGrace(p) ==
    /\ check[p].at = "fallback"
    /\ Put(p, [state |-> "grace", checked_at |-> now, last_valid_at |-> check[p].lastValid])
    /\ UNCHANGED <<now, key, central, due, events, confirmed, anchor, revoked, upSince>>

\* ... and grace, or "unreachable", is written over whatever is there by then.
PutFallBack(p) ==
    /\ check[p].at = "fallback"
    /\ Put(p, IF check[p].lastValid # NoTime
                THEN [state |-> "grace", checked_at |-> now,
                      last_valid_at |-> check[p].lastValid]
                ELSE [state |-> "unreachable", checked_at |-> now])
    /\ UNCHANGED <<now, key, central, due, events, confirmed, anchor, revoked, upSince>>

\* The process is killed.
Crash(p) ==
    /\ check[p] # Idle
    /\ check' = [check EXCEPT ![p] = Idle]
    /\ UNCHANGED <<now, key, central, cache, due, events, confirmed, anchor, revoked, upSince>>

-----------------------------------------------------------------------------
(* The environment.                                                        *)

Event == events < MaxEvents /\ events' = events + 1

Up(k, c) == IF k /\ c = "valid" THEN now ELSE NoTime

\* LicenseController::clear, shield:license:clear, or a flushed cache store.
ClearCache ==
    /\ Event
    /\ cache' = NoEntry
    /\ anchor' = NoTime
    /\ upSince' = Up(key, central)
    /\ UNCHANGED <<now, key, central, check, due, confirmed, revoked>>

\* LS_PREMIUM_LICENSE_KEY is set or taken away.
ChangeKey ==
    /\ Event
    /\ key' = ~key
    /\ anchor' = NoTime
    /\ upSince' = Up(key', central)
    /\ UNCHANGED <<now, central, cache, check, due, confirmed, revoked>>

CentralChanges(answer) ==
    /\ answer # central
    /\ Event
    /\ central' = answer
    /\ upSince' = Up(key, answer)
    /\ UNCHANGED <<now, key, cache, check, due, confirmed, anchor, revoked>>

\* An hour passes: the scheduler has run, and no check is older than that.
Tick ==
    /\ now < MaxTime
    /\ ~due
    /\ \A p \in Procs : check[p] # Idle => check[p].began = now
    /\ now' = now + 1
    /\ due' = TRUE
    /\ UNCHANGED <<key, central, cache, check, events, confirmed, anchor, revoked, upSince>>

Next ==
    \/ \E p \in Requests : State(p) \/ Refresh(p) \/ Crash(p)
    \/ LicenseCheck
    \/ \E p \in Procs : Answer(p) \/ PutVerdict(p) \/ FallBack(p) \/ PutFallBack(p)
    \/ ClearCache \/ ChangeKey
    \/ \E answer \in {"valid", "invalid", "down"} : CentralChanges(answer)
    \/ Tick

Spec == Init /\ [][Next]_vars

-----------------------------------------------------------------------------
(* Properties.                                                             *)

\* Premium is never longer from Central's last "valid" than the grace period and the
\* life of the entry that records it, however many failed checks renew that entry:
\* state() and the cache-only gate of the audit log differ in that life.
PremiumIsConfirmed ==
    /\ PremiumCached => confirmed # NoTime /\ now <= confirmed + Grace + Ttl
    /\ PremiumFresh /\ cache.state = "grace" => now <= confirmed + Grace + GraceFresh

\* A refusal that was recorded while no other check was under way stays in force
\* until Central says "valid": no outage, cleared cache or late answer turns it into
\* a grace period.
RevocationSticks == revoked => ~PremiumCached

\* "Keep honouring the last cached valid result for grace_period_days": a "valid"
\* recorded while no other check was under way keeps the site premium for all of the
\* grace period, whatever fails or overlaps afterwards, unless Central refuses the key,
\* the key changes or the cache is cleared.
GraceIsHonoured == anchor # NoTime /\ now < anchor + Grace => PremiumCached

\* "A transient outage doesn't trap a new buyer": four hours after Central has begun to
\* say "valid" the site is premium, whatever was cached or is still under way (of two
\* scheduler runs one may be skipped, and each check may outlast its hour).
OutageEnds == upSince # NoTime /\ now >= upSince + 4 => PremiumCached
=============================================================================
