--------------------------- MODULE LicenseProofs ---------------------------
(***************************************************************************)
(* Proofs about the premium license, for any processes, lifetimes, grace   *)
(* period and bounds.                                                      *)
(*                                                                         *)
(* Four invariants, one per property, each inductive relative to the types *)
(* (Types). Backed: every premium verdict, stored or about to be stored,   *)
(* goes back to an answer of Central, and its dates are at most a tick     *)
(* apart from it. Refused: after a lonely refusal nothing premium is       *)
(* stored or about to be. Anchored and Recovered share the argument about  *)
(* the scheduler (Kept): the entry is never older than two ticks, because  *)
(* the check of the last tick but one has ended before the next tick.      *)
(* Hence the one condition on a lifetime, Ttl >= 3: with a store that      *)
(* forgets an entry sooner the last two properties do not hold.            *)
(***************************************************************************)
EXTENDS License, TLAPS

Busy(p) == check[p] # Idle

\* A check outlasts one tick of the clock at most, and nothing is dated ahead.
Prompt == \A p \in Procs : Busy(p) => check[p].began <= now /\ now <= check[p].began + 1

Types ==
    /\ TypeOK /\ Prompt
    /\ cache # NoEntry => cache.checked_at <= now
    /\ confirmed <= now

Written == cache # NoEntry

\* Every premium verdict, stored or about to be, goes back to an answer of Central.
Backed ==
    /\ Written /\ cache.state = "valid" =>
          confirmed # NoTime /\ cache.checked_at <= confirmed + 1
    /\ Written /\ cache.state = "grace" =>
          /\ confirmed # NoTime /\ cache.last_valid_at <= confirmed + 1
          /\ cache.checked_at <= cache.last_valid_at + Grace
    /\ \A p \in Procs :
          /\ check[p].at = "answered" /\ check[p].answer = "valid" =>
                confirmed # NoTime /\ check[p].began <= confirmed
          /\ check[p].at = "fallback" /\ check[p].lastValid # NoTime =>
                /\ confirmed # NoTime /\ check[p].lastValid <= confirmed + 1
                /\ check[p].began < check[p].lastValid + Grace

\* After a refusal nothing premium is stored or about to be.
Refused ==
    revoked =>
        /\ Written => cache.state \notin Premium
        /\ \A p \in Procs :
              /\ check[p].at = "answered" => check[p].answer # "valid"
              /\ check[p].at = "fallback" => check[p].lastValid = NoTime

\* When the entry was written, or u if that is later.
Since(u) == IF Written /\ cache.checked_at > u THEN cache.checked_at ELSE u

\* The scheduler keeps the entry younger than three ticks.
Kept(u) ==
    /\ u <= now /\ now <= Since(u) + 2
    /\ now = Since(u) + 2 => Busy(Cron) /\ check[Cron].began = now - 1
    /\ now > Since(u) /\ ~due => Busy(Cron)

\* While a grace period is anchored, every verdict grants it.
Anchored ==
    anchor # NoTime =>
        /\ key /\ Written /\ cache.checked_at >= anchor
        /\ Kept(anchor)
        /\ \A p \in Procs :
              /\ check[p].at = "answered" => check[p].answer # "invalid"
              /\ check[p].at = "fallback" =>
                    IF check[p].lastValid = NoTime THEN now >= anchor + Grace
                                                   ELSE check[p].lastValid >= anchor
        /\ now < anchor + Grace =>
              \/ cache.state = "valid"
              \/ cache.state = "grace" /\ cache.last_valid_at >= anchor

\* Two ticks after Central has come back no check knows anything else.
Recovered ==
    upSince # NoTime =>
        /\ key /\ central = "valid" /\ Kept(upSince)
        /\ \A p \in Procs :
              Busy(p) /\ check[p].began > upSince =>
                  /\ check[p].at # "fallback"
                  /\ check[p].at = "answered" => check[p].answer = "valid"
        /\ Written /\ cache.checked_at > upSince + 1 => cache.state = "valid"
-----------------------------------------------------------------------------
(* Types.                                                                  *)

\* What Entry and Checking say, field by field.
LEMMA Entries ==
    ASSUME NEW t \in Times
    PROVE  /\ \A s \in {"valid", "invalid", "unreachable", "no_key"} :
                 [state |-> s, checked_at |-> t] \in Entry
           /\ \A l \in Times : [state |-> "grace", checked_at |-> t, last_valid_at |-> l] \in Entry
  BY DEF Entry

LEMMA EntryKinds ==
    ASSUME cache \in Entry
    PROVE  /\ cache # NoEntry /\ cache.checked_at \in Times
           /\ cache.state \in {"valid", "invalid", "unreachable", "no_key", "grace"}
           /\ cache.state = "grace" => cache.last_valid_at \in Times
  BY DEF Entry, NoEntry

LEMMA CheckKinds ==
    ASSUME NEW c \in Checking
    PROVE  /\ c # Idle /\ c.began \in Times /\ c.at \in {"asked", "answered", "fallback"}
           /\ c.at = "answered" => c.answer \in {"valid", "invalid", "failed"}
           /\ c.at = "fallback" => c.lastValid \in Times \cup {NoTime}
  BY DEF Checking, Idle

LEMMA LastValidType ==
    ASSUME cache \in Entry \cup {NoEntry}
    PROVE  lastValidAt \in Times \cup {NoTime}
  BY EntryKinds DEF lastValidAt, Cached, NoEntry, NoTime

LEMMA TypesInit == Init => Types
  <1> SUFFICES ASSUME Init
               PROVE  Types
    OBVIOUS
  <1>1. 0 \in Times /\ 0 \in 0..MaxEvents
    BY ParametersAssumption DEF Times
  <1>2. upSince \in Times \cup {NoTime}
    BY <1>1 DEF Init
  <1>3. confirmed <= now
    BY DEF Init, NoTime
  <1> QED
    BY <1>1, <1>2, <1>3 DEF Init, Types, TypeOK, Prompt, Busy

\* Start, with its condition as a case of its own.
LEMMA Starts ==
    ASSUME key \in BOOLEAN, NEW p \in Procs, Start(p)
    PROVE  /\ check[p] = Idle
           /\ \/ /\ key /\ cache' = cache
                 /\ check' = [check EXCEPT ![p] = [at |-> "asked", began |-> now]]
              \/ /\ ~key /\ check' = check
                 /\ cache' = [state |-> "no_key", checked_at |-> now]
           /\ UNCHANGED <<now, key, central, events, confirmed, anchor, revoked, upSince>>
  BY DEF Start

LEMMA TypesStep ==
    ASSUME Types, [Next]_vars
    PROVE  Types'
  <1> USE DEF Types, TypeOK, Prompt, Busy
  <1>1. now \in Nat /\ \A t \in Times : t \in Nat
    BY ParametersAssumption DEF Times
  <1>2. ASSUME NEW p \in Procs, Start(p), due' \in BOOLEAN
        PROVE  Types'
    <2>1. [at |-> "asked", began |-> now] \in Checking
      BY DEF Checking
    <2>2. CASE /\ check' = [check EXCEPT ![p] = [at |-> "asked", began |-> now]]
               /\ cache' = cache
      <3>1. check' \in [Procs -> Checking \cup {Idle}]
        BY <2>1, <2>2
      <3>2. Prompt'
        BY <1>1, <1>2, <2>2, Starts
      <3> QED
        BY <1>2, <2>2, <3>1, <3>2, Starts
    <2>3. CASE cache' = [state |-> "no_key", checked_at |-> now] /\ check' = check
      <3>1. cache' \in Entry /\ cache'.checked_at = now
        BY <2>3, Entries
      <3> QED
        BY <1>1, <1>2, <2>3, <3>1, Starts
    <2> QED
      BY <1>2, <2>2, <2>3, Starts
  <1>3. ASSUME NEW p \in Procs, Answer(p)
        PROVE  Types'
    <2> DEFINE answer == IF central = "down" THEN "failed" ELSE central
    <2>1. check[p] \in Checking
      BY <1>3 DEF Answer, Idle
    <2>2. [at |-> "answered", began |-> check[p].began, answer |-> answer] \in Checking
      BY <2>1, CheckKinds DEF Checking
    <2> HIDE DEF answer
    <2>3. check' = [check EXCEPT ![p] = [at |-> "answered", began |-> check[p].began,
                                         answer |-> answer]]
      BY <1>3 DEF Answer, answer
    <2> QED
      BY <1>1, <1>3, <2>1, <2>2, <2>3, CheckKinds DEF Answer
  <1>4. ASSUME NEW p \in Procs, NEW e \in Entry, Put(p, e), e.checked_at = now,
               UNCHANGED <<now, key, central, due, events, confirmed, upSince>>,
               anchor' \in Times \cup {NoTime}, revoked' \in BOOLEAN
        PROVE  Types'
    BY <1>1, <1>4 DEF Put
  <1>5. ASSUME NEW p \in Procs, PutVerdict(p)
        PROVE  Types'
    <2>1. check[p] \in Checking
      BY <1>5 DEF PutVerdict, Idle
    <2> DEFINE e == [state |-> check[p].answer, checked_at |-> now]
    <2>2. e \in Entry /\ e.checked_at = now
      BY <1>5, <2>1, Entries, CheckKinds DEF PutVerdict
    <2>3. Put(p, e)
      BY <1>5 DEF PutVerdict
    <2> HIDE DEF e
    <2> QED
      BY <1>4, <1>5, <2>2, <2>3 DEF PutVerdict
  <1>6. ASSUME NEW p \in Procs, FallBack(p)
        PROVE  Types'
    <2> DEFINE last == IF lastValidAt # NoTime /\ lastValidAt + Grace > now
                         THEN lastValidAt ELSE NoTime
    <2>1. check[p] \in Checking
      BY <1>6 DEF FallBack, Idle
    <2>2. last \in Times \cup {NoTime}
      BY LastValidType
    <2>3. check' = [check EXCEPT ![p] = [at |-> "fallback", began |-> check[p].began,
                                         lastValid |-> last]]
      BY <1>6 DEF FallBack
    <2> HIDE DEF last
    <2>4. [at |-> "fallback", began |-> check[p].began, lastValid |-> last] \in Checking
      BY <2>1, <2>2, CheckKinds DEF Checking
    <2> QED
      BY <1>1, <1>6, <2>1, <2>3, <2>4, CheckKinds DEF FallBack
  <1>7. ASSUME NEW p \in Procs, PutFallBack(p)
        PROVE  Types'
    <2>1. check[p] \in Checking
      BY <1>7 DEF PutFallBack, Idle
    <2>2. CASE check[p].lastValid # NoTime
      <3>1. [state |-> "grace", checked_at |-> now, last_valid_at |-> check[p].lastValid] \in Entry
        BY <1>7, <2>1, <2>2, Entries, CheckKinds DEF PutFallBack
      <3> QED
        BY <1>4, <1>7, <2>2, <3>1 DEF PutFallBack
    <2>3. CASE check[p].lastValid = NoTime
      BY <1>4, <1>7, <2>3, Entries DEF PutFallBack
    <2> QED
      BY <2>2, <2>3
  <1>8. ASSUME NEW p \in Procs, Crash(p)
        PROVE  Types'
    BY <1>8 DEF Crash
  <1>9. ASSUME ClearCache \/ ChangeKey \/ \E a \in {"valid", "invalid", "down"} : CentralChanges(a)
        PROVE  Types'
    <2>1. events' \in 0..MaxEvents
      BY <1>9, ParametersAssumption DEF ClearCache, ChangeKey, CentralChanges, Event
    <2> QED
      BY <1>9, <2>1 DEF ClearCache, ChangeKey, CentralChanges, Up
  <1>10. CASE Tick
    <2>1. now' = now + 1 /\ now' \in Times
      BY <1>1, <1>10, ParametersAssumption DEF Tick, Times
    <2>2. confirmed <= now'
      <3>1. confirmed \in Times \cup {NoTime}
        OBVIOUS
      <3>2. confirmed \in Int
        BY <1>1, <3>1 DEF NoTime
      <3> QED
        BY <1>1, <2>1, <3>2
    <2>3. Prompt'
      BY <1>1, <1>10, <2>1, CheckKinds DEF Tick
    <2>4. cache # NoEntry => cache.checked_at <= now'
      <3>1. cache # NoEntry => cache.checked_at \in Nat
        BY <1>1, EntryKinds
      <3> QED
        BY <1>1, <2>1, <3>1
    <2> QED
      BY <1>10, <2>1, <2>2, <2>3, <2>4 DEF Tick
  <1>11. CASE LicenseCheck
    BY <1>2, <1>11 DEF LicenseCheck, Procs
  <1>12. CASE UNCHANGED vars
    BY <1>12 DEF vars
  <1>13. Requests \subseteq Procs
    BY DEF Procs
  <1> QED
    BY <1>2, <1>3, <1>5, <1>6, <1>7, <1>8, <1>9, <1>10, <1>11, <1>12, <1>13
    DEF Next, State, Refresh

\* Types is an invariant.
LEMMA TypesAlways == Spec => []Types
  BY TypesInit, TypesStep, PTL DEF Spec

\* Every variable of the license keeps its type.
THEOREM TypeCorrect == Spec => []TypeOK
  BY TypesAlways, PTL DEF Types

-----------------------------------------------------------------------------
\* What the types say of the numbers, the entry and the checks.
LEMMA Shape ==
    ASSUME Types
    PROVE  /\ now \in Nat /\ confirmed \in Int /\ anchor \in Int /\ upSince \in Int
           /\ Grace \in Nat /\ Ttl \in Nat /\ GraceFresh \in Nat
           /\ confirmed <= now
           /\ anchor # NoTime => anchor \in Nat
           /\ upSince # NoTime => upSince \in Nat
           /\ Written => /\ cache.checked_at \in Nat /\ cache.checked_at <= now
                         /\ cache.state = "grace" => cache.last_valid_at \in Nat
           /\ \A p \in Procs :
                 /\ Busy(p) => /\ check[p].began \in Nat /\ check[p].began <= now
                                /\ now <= check[p].began + 1
                                /\ check[p].at \in {"asked", "answered", "fallback"}
                 /\ check[p].at \in {"asked", "answered", "fallback"} => Busy(p)
                 /\ check[p].at = "answered" => check[p].answer \in {"valid", "invalid", "failed"}
                 /\ check[p].at = "fallback" => /\ check[p].lastValid \in Int
                                                /\ check[p].lastValid >= -1
  <1>1. Times \subseteq Nat
    BY ParametersAssumption DEF Times
  <1>2. \A p \in Procs : check[p] \in Checking \/ check[p] = Idle
    BY DEF Types, TypeOK
  <1>3. Idle.at = "idle"
    BY DEF Idle
  <1>4. /\ now \in Nat /\ confirmed \in Int /\ anchor \in Int /\ upSince \in Int
        /\ Grace \in Nat /\ Ttl \in Nat /\ GraceFresh \in Nat
    <2>1. now \in Times /\ {confirmed, anchor, upSince} \subseteq Times \cup {NoTime}
      BY DEF Types, TypeOK
    <2>2. NoTime \in Int
      BY DEF NoTime
    <2>3. \A t \in Times \cup {NoTime} : t \in Int
      BY <1>1, <2>2
    <2>4. Grace \in Nat /\ Ttl \in Nat /\ GraceFresh \in Nat
      BY ParametersAssumption
    <2> QED
      BY <1>1, <2>1, <2>3, <2>4
  <1>7. /\ anchor # NoTime => anchor \in Nat
        /\ upSince # NoTime => upSince \in Nat
    <2>1. anchor \in Times \cup {NoTime} /\ upSince \in Times \cup {NoTime}
      BY DEF Types, TypeOK
    <2> QED
      BY <1>1, <2>1
  <1>5. Written => /\ cache.checked_at \in Nat /\ cache.checked_at <= now
                   /\ cache.state = "grace" => cache.last_valid_at \in Nat
    BY <1>1, EntryKinds DEF Types, TypeOK, Written
  <1>6. ASSUME NEW p \in Procs
        PROVE  /\ Busy(p) => /\ check[p].began \in Nat /\ check[p].began <= now
                              /\ now <= check[p].began + 1
                              /\ check[p].at \in {"asked", "answered", "fallback"}
               /\ check[p].at \in {"asked", "answered", "fallback"} => Busy(p)
               /\ check[p].at = "answered" => check[p].answer \in {"valid", "invalid", "failed"}
               /\ check[p].at = "fallback" => /\ check[p].lastValid \in Int
                                              /\ check[p].lastValid >= -1
    <2>1. CASE check[p] = Idle
      BY <1>3, <2>1 DEF Busy
    <2>2. CASE check[p] \in Checking
      <3>1. /\ Busy(p) /\ check[p].began \in Nat /\ check[p].at \in {"asked", "answered", "fallback"}
            /\ check[p].at = "answered" => check[p].answer \in {"valid", "invalid", "failed"}
        BY <1>1, <2>2, CheckKinds DEF Busy
      <3>2. check[p].at = "fallback" => check[p].lastValid \in Nat \/ check[p].lastValid = -1
        BY <1>1, <2>2, CheckKinds DEF NoTime
      <3> QED
        BY <3>1, <3>2 DEF Types, Prompt
    <2> QED
      BY <1>2, <2>1, <2>2
  <1> QED
    BY <1>4, <1>5, <1>6, <1>7 DEF Types

\* An entry that is read: it was written less than its lifetime ago.
LEMMA Reads ==
    ASSUME Types
    PROVE  /\ PremiumCached =>
                /\ Written /\ cache.state \in Premium
                /\ now < cache.checked_at + Ttl
           /\ Written /\ cache.state \in Premium /\ now < cache.checked_at + Ttl =>
                PremiumCached
           /\ lastValidAt # NoTime =>
                /\ Written
                /\ \/ cache.state = "grace" /\ lastValidAt = cache.last_valid_at
                   \/ cache.state = "valid" /\ lastValidAt = cache.checked_at
           /\ Written /\ now < cache.checked_at + Ttl =>
                /\ cache.state = "grace" => lastValidAt = cache.last_valid_at
                /\ cache.state = "valid" => lastValidAt = cache.checked_at
  <1>1. Cached = NoEntry \/ (Written /\ Cached = cache /\ Younger(Lifetime(cache.state)))
    BY DEF Cached, Written
  <1>2. NoEntry.state = "none"
    BY DEF NoEntry
  <1>3. Written /\ cache.state \in Premium => Lifetime(cache.state) = Ttl
    BY DEF Lifetime, Premium
  <1>4. Written /\ cache.state \in Premium =>
           (Younger(Lifetime(cache.state)) <=> now < cache.checked_at + Ttl)
    BY <1>3, Shape DEF Younger
  <1>5. Written /\ cache.state \in Premium /\ now < cache.checked_at + Ttl => Cached = cache
    BY <1>4 DEF Cached, Written
  <1> QED
    BY <1>1, <1>2, <1>4, <1>5 DEF PremiumCached, Premium, lastValidAt

\* Every step preserves Backed.
LEMMA BackedStep ==
    ASSUME Types, Backed, [Next]_vars
    PROVE  Backed'
  <1> USE Shape DEF Backed, Written, Busy
  <1>1. ASSUME NEW p \in Procs, Start(p)
        PROVE  Backed'
    BY <1>1, Starts DEF Types, TypeOK, NoEntry
  <1>2. ASSUME NEW p \in Procs, Answer(p)
        PROVE  Backed'
    <2>1. Busy(p)
      BY <1>2 DEF Answer
    <2>2. confirmed # NoTime => confirmed' # NoTime /\ confirmed' >= confirmed
      BY <1>2 DEF Answer, NoTime, Types, TypeOK, Times
    <2>3. \A q \in Procs \ {p} : check'[q] = check[q]
      BY <1>2 DEF Answer, Types, TypeOK
    <2>4. /\ check'[p].at = "answered" /\ check'[p].began = check[p].began
          /\ check'[p].answer = "valid" => confirmed' = now /\ confirmed' # NoTime
      BY <1>2 DEF Answer, Types, TypeOK, NoTime
    <2> QED
      BY <1>2, <2>1, <2>2, <2>3, <2>4 DEF Answer
  <1>3. ASSUME NEW p \in Procs, PutVerdict(p)
        PROVE  Backed'
    BY <1>3 DEF PutVerdict, Put, Types, TypeOK, Idle
  <1>4. ASSUME NEW p \in Procs, FallBack(p)
        PROVE  Backed'
    BY <1>4, Reads DEF FallBack, Types, TypeOK, NoTime
  <1>5. ASSUME NEW p \in Procs, PutFallBack(p)
        PROVE  Backed'
    BY <1>5 DEF PutFallBack, Put, Types, TypeOK, Idle
  <1>6. ASSUME NEW p \in Procs, Crash(p)
        PROVE  Backed'
    BY <1>6 DEF Crash, Types, TypeOK, Idle
  <1>7. CASE LicenseCheck
    BY <1>1, <1>7 DEF LicenseCheck, Procs
  <1>8. CASE ClearCache \/ ChangeKey \/ (\E a \in {"valid", "invalid", "down"} : CentralChanges(a))
             \/ Tick \/ UNCHANGED vars
    BY <1>8 DEF ClearCache, ChangeKey, CentralChanges, Tick, vars
  <1>9. Requests \subseteq Procs
    BY DEF Procs
  <1> QED
    BY <1>1, <1>2, <1>3, <1>4, <1>5, <1>6, <1>7, <1>8, <1>9 DEF Next, State, Refresh

LEMMA BackedInit == Init => Backed
  BY DEF Init, Backed, Written, Idle

\* Premium is never longer from Central's last "valid" than the grace period and
\* the life of the entry that records it.
THEOREM PremiumIsConfirmedAlways == Spec => []PremiumIsConfirmed
  <1>1. Types /\ Backed => PremiumIsConfirmed
    <2> SUFFICES ASSUME Types, Backed
                 PROVE  PremiumIsConfirmed
      OBVIOUS
    <2>1. PremiumCached => confirmed # NoTime /\ now <= confirmed + Grace + Ttl
      BY Shape, Reads DEF Backed, Premium
    <2>2. PremiumFresh /\ cache.state = "grace" =>
             Written /\ now < cache.checked_at + GraceFresh
      BY Shape, Reads DEF PremiumFresh, Fresh, Younger, Freshness
    <2>3. PremiumFresh /\ cache.state = "grace" => now <= confirmed + Grace + GraceFresh
      BY <2>2, Shape DEF Backed
    <2> QED
      BY <2>1, <2>3 DEF PremiumIsConfirmed
  <1> QED
    BY <1>1, BackedInit, BackedStep, TypesAlways, PTL DEF Spec

-----------------------------------------------------------------------------
(* Refusals.                                                               *)

\* Every step preserves Refused.
LEMMA RefusedStep ==
    ASSUME Types, Refused, [Next]_vars
    PROVE  Refused'
  <1> USE Shape DEF Refused, Written, Busy
  <1>1. ASSUME NEW p \in Procs, Start(p)
        PROVE  Refused'
    <2>1. CASE cache' = cache /\ check' = [check EXCEPT ![p] = [at |-> "asked", began |-> now]]
      BY <1>1, <2>1, Starts DEF Types, TypeOK
    <2>2. CASE check' = check /\ cache' = [state |-> "no_key", checked_at |-> now]
      BY <1>1, <2>2, Starts DEF Types, TypeOK, Premium
    <2> QED
      BY <1>1, <2>1, <2>2, Starts DEF Types, TypeOK
  <1>2. ASSUME NEW p \in Procs, Answer(p)
        PROVE  Refused'
    BY <1>2 DEF Answer, Types, TypeOK
  <1>3. ASSUME NEW p \in Procs, PutVerdict(p)
        PROVE  Refused'
    <2>1. CASE revoked
      BY <1>3, <2>1 DEF PutVerdict, Put, Types, TypeOK, Idle, Premium
    <2>2. CASE ~revoked
      BY <1>3, <2>2 DEF PutVerdict, Put, Types, TypeOK, Idle, Premium, Alone
    <2> QED
      BY <2>1, <2>2 DEF Types, TypeOK
  <1>4. ASSUME NEW p \in Procs, FallBack(p)
        PROVE  Refused'
    BY <1>4, Reads DEF FallBack, Types, TypeOK, Premium
  <1>5. ASSUME NEW p \in Procs, PutFallBack(p)
        PROVE  Refused'
    BY <1>5 DEF PutFallBack, Put, Types, TypeOK, Idle, Premium
  <1>6. ASSUME NEW p \in Procs, Crash(p)
        PROVE  Refused'
    BY <1>6 DEF Crash, Types, TypeOK, Idle
  <1>7. CASE LicenseCheck
    BY <1>1, <1>7 DEF LicenseCheck, Procs
  <1>8. CASE ClearCache \/ ChangeKey \/ (\E a \in {"valid", "invalid", "down"} : CentralChanges(a))
             \/ Tick \/ UNCHANGED vars
    BY <1>8 DEF ClearCache, ChangeKey, CentralChanges, Tick, vars
  <1>9. Requests \subseteq Procs
    BY DEF Procs
  <1> QED
    BY <1>1, <1>2, <1>3, <1>4, <1>5, <1>6, <1>7, <1>8, <1>9 DEF Next, State, Refresh

\* A refusal recorded while no other check was under way stays in force until
\* Central says "valid".
THEOREM RevocationSticksAlways == Spec => []RevocationSticks
  <1>1. Init => Refused
    BY DEF Init, Refused
  <1>2. Types /\ Refused => RevocationSticks
    BY Reads DEF Refused, RevocationSticks
  <1> QED
    BY <1>1, <1>2, RefusedStep, TypesAlways, PTL DEF Spec

-----------------------------------------------------------------------------
(* The grace period and the end of an outage.                              *)

\* The scheduler's discipline, from any moment on, while there is a key and the
\* cache is not cleared.
LEMMA KeptStep ==
    ASSUME Types, [Next]_vars, NEW u \in Nat, Kept(u), key, key', Written => Written'
    PROVE  Kept(u)'
  <1> USE Shape DEF Kept, Since, Written, Busy
  <1>1. ASSUME NEW p \in Procs, State(p) \/ Refresh(p)
        PROVE  Kept(u)'
    <2>1. /\ check[p] = Idle /\ UNCHANGED <<now, due, cache>>
          /\ check' = [check EXCEPT ![p] = [at |-> "asked", began |-> now]]
      BY <1>1, Starts DEF State, Refresh, Types, TypeOK
    <2>2. Busy(Cron) => Busy(Cron)' /\ check'[Cron].began = check[Cron].began
      BY <2>1 DEF Types, TypeOK, Procs
    <2> QED
      BY <2>1, <2>2
  <1>2. ASSUME NEW p \in Procs, Answer(p) \/ FallBack(p)
        PROVE  Kept(u)'
    BY <1>2 DEF Answer, FallBack, Types, TypeOK, Idle, Procs
  <1>3. ASSUME NEW p \in Procs, PutVerdict(p) \/ PutFallBack(p)
        PROVE  Kept(u)'
    <2>1. cache'.checked_at = now /\ now' = now /\ cache' # NoEntry
      BY <1>3 DEF PutVerdict, PutFallBack, Put, NoEntry
    <2> QED
      BY <2>1
  <1>4. ASSUME NEW p \in Requests, Crash(p)
        PROVE  Kept(u)'
    BY <1>4, ParametersAssumption DEF Crash, Types, TypeOK, Procs
  <1>5. CASE LicenseCheck
    BY <1>5, Starts DEF LicenseCheck, Types, TypeOK, Idle, Procs
  <1>6. CASE Tick
    BY <1>6 DEF Tick, Types, TypeOK, Procs
  <1>7. CASE ClearCache
    BY <1>7 DEF ClearCache
  <1>8. CASE ChangeKey \/ (\E a \in {"valid", "invalid", "down"} : CentralChanges(a))
             \/ UNCHANGED vars
    BY <1>8 DEF ChangeKey, CentralChanges, vars
  <1>9. Requests \subseteq Procs
    BY DEF Procs
  <1> QED
    BY <1>1, <1>2, <1>3, <1>4, <1>5, <1>6, <1>7, <1>8, <1>9 DEF Next

\* So the entry is younger than its lifetime in the store: at once if it is not
\* older than u, and from the third tick after u in any case.
LEMMA KeptLives ==
    ASSUME Types, Ttl >= 3, NEW u \in Nat, Kept(u), Written,
           u <= cache.checked_at \/ now > u + 2
    PROVE  now < cache.checked_at + Ttl
  BY Shape DEF Kept, Since

\* Every step preserves Anchored.
LEMMA AnchoredStep ==
    ASSUME Ttl >= 3, Types, Types', Anchored, [Next]_vars
    PROVE  Anchored'
  <1> SUFFICES ASSUME anchor' # NoTime
               PROVE  Anchored'
    BY DEF Anchored
  <1> USE Shape DEF Written, Busy
  <1>0. Requests \subseteq Procs
    BY DEF Procs
  <1>1. ASSUME NEW p \in Procs, PutVerdict(p), anchor' # anchor
        PROVE  Anchored'
    <2>1. /\ check[p].answer = "valid" /\ key /\ key' = key /\ Alone(p) /\ anchor' = now
          /\ now' = now /\ cache' = [state |-> "valid", checked_at |-> now]
          /\ check' = [check EXCEPT ![p] = Idle]
      BY <1>1 DEF PutVerdict, Put
    <2>2. \A q \in Procs : check'[q] = Idle
      BY <2>1 DEF Alone, Types, TypeOK
    <2>3. Kept(anchor)'
      BY <2>1 DEF Kept, Since
    <2> QED
      BY <2>1, <2>2, <2>3 DEF Anchored, NoEntry, Idle
  <1>2. ASSUME anchor' = anchor, key', Written',
               \/ cache' = cache
               \/ cache'.checked_at = now /\ (now < anchor + Grace =>
                     \/ cache'.state = "valid"
                     \/ cache'.state = "grace" /\ cache'.last_valid_at >= anchor),
               now' \in Nat, now' >= now,
               \A p \in Procs :
                  \/ check'[p] = check[p]
                  \/ /\ check'[p].at = "answered" => check'[p].answer # "invalid"
                     /\ check'[p].at = "fallback" =>
                           IF check'[p].lastValid = NoTime THEN now >= anchor + Grace
                                                           ELSE check'[p].lastValid >= anchor
        PROVE  Anchored'
    <2>1. PICK u \in Nat : u = anchor /\ Kept(u) /\ key /\ Written /\ cache.checked_at >= u
      BY <1>2 DEF Anchored
    <2>2. Kept(u)'
      BY <1>2, <2>1, KeptStep
    <2>3. Kept(anchor)'
      BY <1>2, <2>1, <2>2 DEF Kept, Since
    <2>4. cache'.checked_at >= anchor'
      BY <1>2, <2>1 DEF Kept
    <2>5. ASSUME NEW p \in Procs
          PROVE  /\ check'[p].at = "answered" => check'[p].answer # "invalid"
                 /\ check'[p].at = "fallback" =>
                       IF check'[p].lastValid = NoTime THEN now' >= anchor + Grace
                                                       ELSE check'[p].lastValid >= anchor
      BY <1>2, <2>1 DEF Anchored
    <2>6. now' < anchor + Grace =>
             \/ cache'.state = "valid"
             \/ cache'.state = "grace" /\ cache'.last_valid_at >= anchor
      BY <1>2, <2>1 DEF Anchored
    <2> QED
      BY <1>2, <2>3, <2>4, <2>5, <2>6 DEF Anchored
  <1>3. ASSUME NEW p \in Procs, Start(p)
        PROVE  Anchored'
    <2>1. key /\ anchor' = anchor /\ Written
      BY <1>3, Starts DEF Anchored, Types, TypeOK
    <2>2. UNCHANGED <<now, key, cache>>
          /\ check' = [check EXCEPT ![p] = [at |-> "asked", began |-> now]]
      BY <1>3, <2>1, Starts DEF Types, TypeOK
    <2> QED
      BY <1>2, <2>1, <2>2 DEF Types, TypeOK
  <1>4. ASSUME NEW p \in Procs, Answer(p)
        PROVE  Anchored'
    <2>1. anchor' = anchor /\ central # "invalid"
      BY <1>4 DEF Answer
    <2> QED
      BY <1>2, <1>4, <2>1 DEF Answer, Types, TypeOK, Anchored
  <1>5. ASSUME NEW p \in Procs, PutVerdict(p), anchor' = anchor
        PROVE  Anchored'
    <2>1. cache' = [state |-> "valid", checked_at |-> now]
      BY <1>5 DEF PutVerdict, Put, Anchored
    <2> QED
      BY <1>2, <1>5, <2>1 DEF PutVerdict, Put, Types, TypeOK, Anchored, Idle, NoEntry
  <1>6. ASSUME NEW p \in Procs, FallBack(p)
        PROVE  Anchored'
    <2>1. anchor # NoTime /\ anchor' = anchor
      BY <1>6 DEF FallBack
    <2>2. PICK u \in Nat : u = anchor /\ Kept(u) /\ Written /\ u <= cache.checked_at
      BY <2>1 DEF Anchored
    <2>3. now < cache.checked_at + Ttl
      BY <2>2, KeptLives
    <2>4. now < anchor + Grace => lastValidAt # NoTime /\ lastValidAt + Grace > now
      BY <2>1, <2>2, <2>3, Reads DEF Anchored, NoTime
    <2>5. lastValidAt # NoTime /\ lastValidAt + Grace > now => lastValidAt >= anchor
      BY <2>1, <2>2, Reads DEF Anchored
    <2> DEFINE last == IF lastValidAt # NoTime /\ lastValidAt + Grace > now
                         THEN lastValidAt ELSE NoTime
    <2>6. last = NoTime => now >= anchor + Grace
      BY <2>2, <2>4
    <2>7. last # NoTime => last >= anchor
      BY <2>5
    <2>8. check' = [check EXCEPT ![p] = [at |-> "fallback", began |-> check[p].began,
                                         lastValid |-> last]]
      BY <1>6 DEF FallBack
    <2> HIDE DEF last
    <2>9. UNCHANGED <<now, key, cache>> /\ key
      BY <1>6, <2>1 DEF FallBack, Anchored
    <2> QED
      BY <1>2, <2>1, <2>2, <2>6, <2>7, <2>8, <2>9 DEF Types, TypeOK
  <1>7. ASSUME NEW p \in Procs, PutFallBack(p)
        PROVE  Anchored'
    <2>1. anchor' = anchor /\ cache'.checked_at = now /\ Written'
      BY <1>7 DEF PutFallBack, Put, NoEntry
    <2> QED
      BY <1>2, <1>7, <2>1 DEF PutFallBack, Put, Types, TypeOK, Anchored, Idle
  <1>8. ASSUME NEW p \in Procs, Crash(p)
        PROVE  Anchored'
    BY <1>2, <1>8 DEF Crash, Types, TypeOK, Anchored, Idle
  <1>9. CASE Tick \/ (\E a \in {"valid", "invalid", "down"} : CentralChanges(a)) \/ UNCHANGED vars
    BY <1>2, <1>9 DEF Tick, CentralChanges, vars, Types, TypeOK, Anchored
  <1>10. CASE LicenseCheck
    <2>1. CASE Start(Cron)
      BY <1>3, <2>1 DEF Procs
    <2>2. CASE UNCHANGED <<now, key, central, cache, check, events, confirmed, anchor, revoked,
                           upSince>>
      BY <1>2, <2>2 DEF Types, TypeOK, Anchored
    <2> QED
      BY <1>10, <2>1, <2>2 DEF LicenseCheck
  <1>11. ~ClearCache /\ ~ChangeKey
    BY DEF ClearCache, ChangeKey
  <1> QED
    BY <1>0, <1>1, <1>3, <1>4, <1>5, <1>6, <1>7, <1>8, <1>9, <1>10, <1>11
    DEF Next, State, Refresh

\* "Keep honouring the last cached valid result for grace_period_days": if the
\* store keeps an entry for three ticks, a "valid" recorded by a check that was
\* alone keeps the site premium for all of the grace period.
THEOREM GraceIsHonouredAlways == Ttl >= 3 => (Spec => []GraceIsHonoured)
  <1> SUFFICES ASSUME Ttl >= 3
               PROVE  Spec => []GraceIsHonoured
    OBVIOUS
  <1>1. Init => Anchored
    BY DEF Init, Anchored
  <1>2. Types /\ Anchored => GraceIsHonoured
    <2> SUFFICES ASSUME Types, Anchored, anchor # NoTime, now < anchor + Grace
                 PROVE  PremiumCached
      BY DEF GraceIsHonoured
    <2>1. PICK u \in Nat : u = anchor /\ Kept(u) /\ Written /\ u <= cache.checked_at
      BY Shape DEF Anchored
    <2>2. now < cache.checked_at + Ttl
      BY <2>1, KeptLives
    <2> QED
      BY <2>1, <2>2, Reads DEF Anchored, Premium
  <1>3. Types /\ Types' /\ Anchored /\ [Next]_vars => Anchored'
    BY AnchoredStep
  <1> QED
    BY <1>1, <1>2, <1>3, TypesAlways, PTL DEF Spec

-----------------------------------------------------------------------------
\* Every step preserves Recovered.
LEMMA RecoveredStep ==
    ASSUME Types, Types', Recovered, [Next]_vars
    PROVE  Recovered'
  <1> SUFFICES ASSUME upSince' # NoTime
               PROVE  Recovered'
    BY DEF Recovered
  <1> USE Shape DEF Written, Busy
  <1>0. Requests \subseteq Procs
    BY DEF Procs
  <1>1. ASSUME upSince' = now, now' = now, key', central' = "valid",
               check' = check, cache' = cache \/ cache' = NoEntry
        PROVE  Recovered'
    BY <1>1 DEF Recovered, Kept, Since
  <1>2. ASSUME upSince' = upSince, UNCHANGED <<key, central>>,
               Written => Written',
               \/ cache' = cache
               \/ cache'.checked_at = now /\ (now > upSince + 1 => cache'.state = "valid"),
               \A p \in Procs :
                  \/ check'[p] = check[p]
                  \/ check'[p] # Idle /\ check'[p].began > upSince =>
                        /\ check'[p].at # "fallback"
                        /\ check'[p].at = "answered" => check'[p].answer = "valid"
        PROVE  Recovered'
    <2>1. PICK u \in Nat : u = upSince /\ Kept(u) /\ key /\ central = "valid"
      BY <1>2 DEF Recovered
    <2>2. Kept(u)'
      BY <1>2, <2>1, KeptStep
    <2>3. Kept(upSince)'
      BY <1>2, <2>1, <2>2 DEF Kept, Since
    <2>4. ASSUME NEW p \in Procs, check'[p] # Idle, check'[p].began > upSince
          PROVE  /\ check'[p].at # "fallback"
                 /\ check'[p].at = "answered" => check'[p].answer = "valid"
      BY <1>2, <2>1, <2>4 DEF Recovered
    <2>5. Written' /\ cache'.checked_at > upSince + 1 => cache'.state = "valid"
      BY <1>2, <2>1 DEF Recovered
    <2> QED
      BY <1>2, <2>1, <2>3, <2>4, <2>5 DEF Recovered
  <1>3. ASSUME NEW p \in Procs, Start(p)
        PROVE  Recovered'
    <2>1. key /\ upSince' = upSince
      BY <1>3, Starts DEF Recovered, Types, TypeOK
    <2>2. UNCHANGED <<now, key, central, cache>>
          /\ check' = [check EXCEPT ![p] = [at |-> "asked", began |-> now]]
      BY <1>3, <2>1, Starts DEF Types, TypeOK
    <2> QED
      BY <1>2, <2>1, <2>2 DEF Types, TypeOK
  <1>4. ASSUME NEW p \in Procs, Answer(p)
        PROVE  Recovered'
    <2>1. upSince' = upSince /\ central = "valid" /\ UNCHANGED <<now, key, central, cache>>
      BY <1>4 DEF Answer, Recovered
    <2> QED
      BY <1>2, <1>4, <2>1 DEF Answer, Types, TypeOK
  <1>5. ASSUME NEW p \in Procs, PutVerdict(p) \/ PutFallBack(p)
        PROVE  Recovered'
    <2>1. /\ upSince' = upSince /\ UNCHANGED <<now, key, central>> /\ Busy(p)
          /\ check' = [check EXCEPT ![p] = Idle] /\ Written' /\ cache'.checked_at = now
      BY <1>5 DEF PutVerdict, PutFallBack, Put, NoEntry
    <2>2. now > upSince + 1 => check[p].began > upSince
      BY <2>1
    <2>3. now > upSince + 1 => cache'.state = "valid"
      BY <1>5, <2>1, <2>2 DEF PutVerdict, PutFallBack, Put, Recovered
    <2> QED
      BY <1>2, <2>1, <2>3 DEF Types, TypeOK
  <1>6. ASSUME NEW p \in Procs, FallBack(p)
        PROVE  Recovered'
    <2>1. /\ upSince' = upSince /\ UNCHANGED <<now, key, central, cache>> /\ Busy(p)
          /\ check'[p].began = check[p].began
          /\ \A q \in Procs \ {p} : check'[q] = check[q]
          /\ check[p].at = "answered" /\ check[p].answer = "failed"
      BY <1>6 DEF FallBack, Types, TypeOK
    <2>2. ~(check[p].began > upSince)
      BY <2>1 DEF Recovered
    <2> QED
      BY <1>2, <2>1, <2>2
  <1>7. ASSUME NEW p \in Procs, Crash(p)
        PROVE  Recovered'
    BY <1>2, <1>7 DEF Crash, Types, TypeOK
  <1>8. CASE Tick \/ UNCHANGED vars
    BY <1>2, <1>8 DEF Tick, vars
  <1>9. CASE LicenseCheck
    <2>1. CASE Start(Cron)
      BY <1>3, <2>1 DEF Procs
    <2>2. CASE UNCHANGED <<now, key, central, cache, check, events, confirmed, anchor, revoked,
                           upSince>>
      BY <1>2, <2>2
    <2> QED
      BY <1>9, <2>1, <2>2 DEF LicenseCheck
  <1>10. CASE ClearCache \/ ChangeKey \/ (\E a \in {"valid", "invalid", "down"} : CentralChanges(a))
    BY <1>1, <1>10 DEF ClearCache, ChangeKey, CentralChanges, Up, Types, TypeOK
  <1> QED
    BY <1>0, <1>3, <1>4, <1>5, <1>6, <1>7, <1>8, <1>9, <1>10 DEF Next, State, Refresh

\* "A transient outage doesn't trap a new buyer": if the store keeps an entry for
\* three ticks, the site is premium four ticks after Central has come back.
THEOREM OutageEndsAlways == Ttl >= 3 => (Spec => []OutageEnds)
  <1> SUFFICES ASSUME Ttl >= 3
               PROVE  Spec => []OutageEnds
    OBVIOUS
  <1>1. Init => Recovered
    BY DEF Init, Recovered, Kept, Since, Busy, Written, NoTime
  <1>2. Types /\ Recovered => OutageEnds
    <2> SUFFICES ASSUME Types, Recovered, upSince # NoTime, now >= upSince + 4
                 PROVE  PremiumCached
      BY DEF OutageEnds
    <2>1. PICK u \in Nat : u = upSince /\ Kept(u) /\ now >= u + 4
      BY Shape DEF Recovered
    <2>2. Written /\ cache.checked_at > upSince + 1
      BY <2>1, Shape DEF Kept, Since
    <2>3. now < cache.checked_at + Ttl
      BY <2>1, <2>2, Shape, KeptLives
    <2> QED
      BY <2>2, <2>3, Reads DEF Recovered, Premium
  <1>3. Types /\ Types' /\ Recovered /\ [Next]_vars => Recovered'
    BY RecoveredStep
  <1> QED
    BY <1>1, <1>2, <1>3, TypesAlways, PTL DEF Spec
=============================================================================
