------------------------- MODULE RealtimeFeedProofs -------------------------
(***************************************************************************)
(* Proofs about RealtimeFeed: its type invariant, that the cursor is       *)
(* honest, and when a rule's version may go back, for any number of syncs  *)
(* that run beside the scheduled one.                                      *)
(*                                                                         *)
(* Types says besides TypeOK that what Central has said of an item has a   *)
(* last entry at every position (so that Max, which Last is defined with,  *)
(* finds it), that an address has no more rows than syncs that may have    *)
(* added one, and that a sync which is about to write holds a page that    *)
(* brings its item.                                                        *)
(*                                                                         *)
(* The argument for the cursor follows each item on which no older page    *)
(* overtook a newer one. Its row is what the entry applied to it last      *)
(* makes of it (Reflects), that entry is as late as the cursor and as      *)
(* every page's beginning (Follows), and a sync that is about to write     *)
(* either has a copy of the row as it is (Fits) or was overtaken by its    *)
(* own entry already applied. The cursor alone is not inductive: it is     *)
(* stored by a sync whose page others have been applying too.              *)
(***************************************************************************)
EXTENDS RealtimeFeed, FiniteSetTheorems, SequenceTheorems, TLAPS

Asked(x) == proc[x].at \in {"ask", "apply", "rule", "address"}
Paged(x) == proc[x].at \in {"apply", "rule", "address"}
Writing(x) == proc[x].at \in {"rule", "address"}

\* Entry k, or none, is the last of the first n entries that is about item i.
IsLast(i, k, n) ==
    /\ k \in 0..n
    /\ k # 0 => log[k].item = i
    /\ \A j \in 1..n : log[j].item = i => j <= k

HasLast == \A i \in Items : \A n \in 0..Len(log) : \E k \in 0..n : IsLast(i, k, n)

\* The syncs that are about to give address v another row.
Adding(v) == {x \in Procs : At(x, "address") /\ proc[x].item = v /\ proc[x].found = None}

Within(x) ==
    /\ Asked(x) => proc[x].since <= Len(log)
    /\ Paged(x) => /\ proc[x].upto <= Len(log)
                   /\ \A i \in proc[x].todo : EntryOf(x, i) # 0
    /\ Writing(x) => proc[x].item \in proc[x].todo /\ Brings(x, proc[x].item)
    /\ At(x, "rule") /\ proc[x].found # None => rules[proc[x].item] # None
    /\ At(x, "address") /\ proc[x].found # None => acl[proc[x].item] # <<>>

Types ==
    /\ TypeOK /\ HasLast
    /\ \A v \in Values : Len(acl[v]) + Cardinality(Adding(v)) <= Cardinality(Procs)
    /\ \A i \in Items : applied[i] # 0 => log[applied[i]].item = i
    /\ \A x \in Procs : Within(x)

\* The row of item i is what entry k makes of it.
Reflects(i, k) ==
    IF i \in Refs
      THEN /\ k = 0 => rules[i] = None
           /\ k # 0 /\ log[k].up => rules[i] = [version |-> k, enabled |-> TRUE]
           /\ k # 0 /\ ~log[k].up => rules[i] = None \/ ~rules[i].enabled
           /\ rules[i] # None => rules[i].version <= k
      ELSE /\ k = 0 => acl[i] = <<>>
           /\ k # 0 /\ log[k].up => acl[i] # <<>> /\ acl[i][1]
           /\ k # 0 /\ ~log[k].up => \A j \in DOMAIN acl[i] : ~acl[i][j]

\* The copy of sync x is the row.
Fits(x) ==
    IF At(x, "rule")
      THEN proc[x].found = rules[proc[x].item]
      ELSE /\ proc[x].found = None <=> acl[proc[x].item] = <<>>
           /\ proc[x].found # None => proc[x].found = acl[proc[x].item][1]

\* What sync x need not deal with has been dealt with, and what it has read is older
\* than the last entry applied, or as the row is.
Follows(x, i) ==
    /\ Asked(x) => Last(i, proc[x].since) <= applied[i]
    /\ Paged(x) /\ i \notin proc[x].todo => EntryOf(x, i) <= applied[i]
    /\ Writing(x) /\ proc[x].item = i =>
          /\ proc[x].base <= applied[i]
          /\ proc[x].base = applied[i] => Fits(x)

Honest ==
    \A i \in Items \ overtaken :
        /\ Reflects(i, applied[i])
        /\ Last(i, cursor) <= applied[i]
        /\ \A x \in Procs : Follows(x, i)

-----------------------------------------------------------------------------
(* Types.                                                                  *)

States == {Idle} \cup Asking \cup Applying \cup WritingRule \cup WritingAcl

LEMMA Shape ==
    ASSUME Types, NEW x \in Procs
    PROVE  /\ proc \in [Procs -> States]
           /\ proc[x].at \in {"idle", "ask", "apply", "rule", "address"}
           /\ At(x, "idle") => proc[x] = Idle
           /\ At(x, "ask") => proc[x] \in Asking
           /\ Asked(x) => proc[x].since \in 0..Len(log)
           /\ Paged(x) => proc[x].upto \in 0..Len(log) /\ proc[x].todo \in SUBSET Items
           /\ At(x, "rule") => /\ proc[x].item \in Refs /\ proc[x].found \in Rule \cup {None}
                               /\ proc[x].base \in Positions
           /\ At(x, "address") => /\ proc[x].item \in Values
                                  /\ proc[x].found \in BOOLEAN \cup {None}
                                  /\ proc[x].base \in Positions
           /\ Writing(x) => /\ proc[x].item \in Items /\ proc[x].item \in proc[x].todo
                            /\ EntryOf(x, proc[x].item) # 0
                            /\ log[EntryOf(x, proc[x].item)].up
  <1>1. proc \in [Procs -> States]
    BY DEF Types, TypeOK, States
  <1>2. /\ \A s \in States : /\ s.at \in {"idle", "ask", "apply", "rule", "address"}
                             /\ s.at = "idle" => s = Idle
                             /\ s.at = "ask" => s \in Asking
                             /\ s.at = "apply" => s \in Applying
                             /\ s.at = "rule" => s \in WritingRule
                             /\ s.at = "address" => s \in WritingAcl
    BY DEF States, Idle, Asking, Applying, WritingRule, WritingAcl
  <1>3. proc[x] \in States
    BY <1>1
  <1>4. /\ Asked(x) => proc[x].since \in Positions
        /\ Paged(x) => proc[x].upto \in Positions /\ proc[x].todo \in SUBSET Items
    BY <1>2, <1>3 DEF Asked, Paged, Asking, Applying, WritingRule, WritingAcl
  <1>5. /\ At(x, "rule") => /\ proc[x].item \in Refs /\ proc[x].found \in Rule \cup {None}
                            /\ proc[x].base \in Positions
        /\ At(x, "address") => /\ proc[x].item \in Values
                               /\ proc[x].found \in BOOLEAN \cup {None}
                               /\ proc[x].base \in Positions
    BY <1>2, <1>3 DEF At, WritingRule, WritingAcl
  <1>6. Len(log) \in Nat /\ \A p \in Positions : p \in Nat /\ p >= 0
    BY FeedAssumption DEF Types, TypeOK, Positions
  <1>7. /\ Asked(x) => proc[x].since <= Len(log)
        /\ Paged(x) => proc[x].upto <= Len(log) /\ \A i \in proc[x].todo : EntryOf(x, i) # 0
        /\ Writing(x) => proc[x].item \in proc[x].todo /\ Brings(x, proc[x].item)
    BY DEF Types, Within
  <1>8. /\ Asked(x) => proc[x].since \in 0..Len(log)
        /\ Paged(x) => proc[x].upto \in 0..Len(log)
    BY <1>4, <1>6, <1>7
  <1>9. Writing(x) => /\ proc[x].item \in Items /\ proc[x].item \in proc[x].todo
                      /\ EntryOf(x, proc[x].item) # 0
                      /\ log[EntryOf(x, proc[x].item)].up
    BY <1>4, <1>7 DEF Writing, Paged, Brings
  <1> QED
    BY <1>1, <1>2, <1>3, <1>4, <1>5, <1>8, <1>9 DEF At

\* What a step makes of one sync.
Becomes(x, s) == proc' = [proc EXCEPT ![x] = s]

LEMMA Becoming ==
    ASSUME Types, NEW x \in Procs, NEW s, Becomes(x, s)
    PROVE  /\ proc'[x] = s
           /\ \A y \in Procs \ {x} : proc'[y] = proc[y]
           /\ s \in States => proc' \in [Procs -> States]
  BY DEF Becomes, Types, TypeOK, States

\* Max finds the last entry.
LEMMA LastIs ==
    ASSUME Types, NEW i \in Items, NEW n \in 0..Len(log)
    PROVE  IsLast(i, Last(i, n), n)
  <1>1. PICK k \in 0..n : IsLast(i, k, n)
    BY DEF Types, HasLast
  <1>2. PICK S : S = {0} \cup {j \in 1..n : log[j].item = i}
    OBVIOUS
  <1>3. k \in S /\ \A j \in S : k >= j
    BY <1>1, <1>2 DEF IsLast
  <1>4. Max(S) \in S /\ \A j \in S : Max(S) >= j
    BY <1>3 DEF Max
  <1>5. n \in Nat
    BY DEF Types, TypeOK
  <1> QED
    BY <1>2, <1>4, <1>5 DEF Last, IsLast

\* Which is the last only changes with the position asked for.
LEMMA LastOfMore ==
    ASSUME Types, NEW i \in Items, NEW n \in 0..Len(log), NEW m \in 0..Len(log)
    PROVE  /\ Last(i, n) \in 0..n
           /\ Last(i, n) # 0 => log[Last(i, n)].item = i
           /\ n <= m => Last(i, n) <= Last(i, m)
           /\ Last(i, m) <= n => Last(i, m) <= Last(i, n)
           /\ \A k \in 0..n : k = 0 \/ log[k].item = i => k <= Last(i, n)
  <1>1. IsLast(i, Last(i, n), n) /\ IsLast(i, Last(i, m), m)
    BY LastIs
  <1>2. n \in Nat /\ m \in Nat
    BY DEF Types, TypeOK
  <1> QED
    BY <1>1, <1>2 DEF IsLast

\* Central's history is only added to.
LEMMA LogGrows ==
    ASSUME Types, \/ log' = log
                  \/ \E e \in Entry : log' = Append(log, e)
    PROVE  /\ log' \in Seq(Entry) /\ Len(log) \in Nat /\ Len(log') \in Nat
           /\ Len(log) <= Len(log') /\ Len(log') <= Len(log) + 1
           /\ \A k \in 1..Len(log) : log'[k] = log[k]
           /\ \A i, n : n \in 0..Len(log) => Last(i, n)' = Last(i, n)
  <1>1. log \in Seq(Entry) /\ Len(log) \in Nat
    BY DEF Types, TypeOK
  <1>2. /\ log' \in Seq(Entry) /\ Len(log') \in Nat
        /\ Len(log) <= Len(log') /\ Len(log') <= Len(log) + 1
        /\ \A k \in 1..Len(log) : log'[k] = log[k]
    BY <1>1
  <1>3. ASSUME NEW i, NEW n \in 0..Len(log)
        PROVE  Last(i, n)' = Last(i, n)
    <2>1. {k \in 1..n : log'[k].item = i} = {k \in 1..n : log[k].item = i}
      BY <1>1, <1>2
    <2> QED
      BY <2>1 DEF Last
  <1> QED
    BY <1>1, <1>2, <1>3

LEMMA Steps ==
    ASSUME [Next]_vars
    PROVE  \/ \E i \in Items, up \in BOOLEAN : Publish(i, up)
           \/ LicenseChanges \/ LoseCursor
           \/ \E x \in Procs : Start(x)
           \/ \E x \in Procs : Pull(x)
           \/ \E x \in Procs : PullFails(x) \/ Duplicate(x) \/ Abort(x)
           \/ \E x \in Procs, i \in Items : Find(x, i)
           \/ \E x \in Procs, i \in Items : Revoke(x, i)
           \/ \E x \in Procs : WriteRule(x)
           \/ \E x \in Procs : WriteAcl(x)
           \/ \E x \in Procs : StoreCursor(x)
           \/ UNCHANGED vars
  BY DEF Next, Sync, Apply

\* Sequences of rows.
LEMMA Appending ==
    ASSUME NEW S, NEW s \in Seq(S), NEW e \in S
    PROVE  /\ Append(s, e) \in Seq(S) /\ Len(Append(s, e)) = Len(s) + 1
           /\ Append(s, e) # <<>>
           /\ \A j \in 1..Len(s) : Append(s, e)[j] = s[j]
           /\ Append(s, e)[Len(s) + 1] = e
  OBVIOUS

LEMMA Levelling ==
    ASSUME NEW S, NEW s \in Seq(S), NEW e \in S, NEW t, t = [j \in DOMAIN s |-> e]
    PROVE  /\ t \in Seq(S) /\ Len(t) = Len(s)
           /\ \A j \in DOMAIN t : t[j] = e
           /\ t = <<>> <=> s = <<>>
  <1>1. DOMAIN s = 1..Len(s) /\ Len(s) \in Nat
    OBVIOUS
  <1>2. t \in [1..Len(s) -> S]
    BY <1>1
  <1>3. t \in Seq(S) /\ Len(t) = Len(s)
    BY <1>1, <1>2, SeqDef
  <1>4. t = <<>> <=> s = <<>>
    BY <1>3
  <1> QED
    BY <1>1, <1>3, <1>4

\* Enabling or disabling a rule.
LEMMA Switching ==
    ASSUME NEW r \in Rule, NEW e \in BOOLEAN
    PROVE  /\ [r EXCEPT !.enabled = e] = [version |-> r.version, enabled |-> e]
           /\ [r EXCEPT !.enabled = e] \in Rule
  <1>1. PICK n \in Entries, b \in BOOLEAN : r = [version |-> n, enabled |-> b]
    BY DEF Rule
  <1>2. [r EXCEPT !.enabled = e] = [version |-> n, enabled |-> e]
    BY <1>1
  <1>3. [version |-> n, enabled |-> e] \in Rule
    BY DEF Rule
  <1> QED
    BY <1>1, <1>2, <1>3

\* What the steps of a sync make of it.
LEMMA Starts ==
    ASSUME Types, NEW x \in Procs, Start(x)
    PROVE  /\ proc' \in [Procs -> States] /\ \A y \in Procs \ {x} : proc'[y] = proc[y]
           /\ proc'[x].at = "ask" /\ proc'[x].since = cursor
  <1>1. PICK s : s = [at |-> "ask", since |-> cursor]
    OBVIOUS
  <1>2. cursor \in Positions
    BY FeedAssumption DEF Types, TypeOK, Positions
  <1>3. s \in States
    BY <1>1, <1>2 DEF States, Asking
  <1>4. Becomes(x, s)
    BY <1>1 DEF Start, Becomes
  <1> QED
    BY <1>1, <1>3, <1>4, Becoming

LEMMA Pulls ==
    ASSUME Types, NEW x \in Procs, Pull(x)
    PROVE  /\ proc' \in [Procs -> States] /\ \A y \in Procs \ {x} : proc'[y] = proc[y]
           /\ At(x, "ask") /\ proc'[x].at = "apply"
           /\ proc'[x].since = proc[x].since /\ proc'[x].upto = Len(log)
           /\ proc'[x].todo = {i \in Items : Last(i, Len(log)) > proc[x].since}
  <1>1. PICK s : s = [at |-> "apply", since |-> proc[x].since, upto |-> Len(log),
                      todo |-> {i \in Items : Last(i, Len(log)) > proc[x].since}]
    OBVIOUS
  <1>2. proc[x].since \in Positions /\ Len(log) \in Positions /\ At(x, "ask")
    <2>1. At(x, "ask")
      BY DEF Pull
    <2>2. proc[x].since \in Positions
      BY <2>1, Shape DEF Asking
    <2> QED
      BY <2>1, <2>2, FeedAssumption DEF Types, TypeOK, Positions
  <1>3. s \in States
    BY <1>1, <1>2 DEF States, Applying
  <1>4. Becomes(x, s)
    BY <1>1 DEF Pull, Becomes
  <1> QED
    BY <1>1, <1>2, <1>3, <1>4, Becoming

LEMMA Finds ==
    ASSUME Types, NEW x \in Procs, NEW i \in Items, Find(x, i)
    PROVE  /\ proc' \in [Procs -> States] /\ \A y \in Procs \ {x} : proc'[y] = proc[y]
           /\ At(x, "apply") /\ i \in proc[x].todo /\ Brings(x, i)
           /\ proc'[x].at = IF i \in Refs THEN "rule" ELSE "address"
           /\ proc'[x].since = proc[x].since /\ proc'[x].upto = proc[x].upto
           /\ proc'[x].todo = proc[x].todo
           /\ proc'[x].item = i /\ proc'[x].base = applied[i]
           /\ proc'[x].found = IF i \in Refs THEN rules[i]
                               ELSE IF acl[i] = <<>> THEN None ELSE Head(acl[i])
  <1>1. PICK s : s = [at |-> IF i \in Refs THEN "rule" ELSE "address",
                      since |-> proc[x].since, upto |-> proc[x].upto, todo |-> proc[x].todo,
                      item |-> i,
                      found |-> IF i \in Refs THEN rules[i]
                                ELSE IF acl[i] = <<>> THEN None ELSE Head(acl[i]),
                      base |-> applied[i]]
    OBVIOUS
  <1>2. At(x, "apply") /\ i \in proc[x].todo /\ Brings(x, i) /\ Becomes(x, s)
    BY <1>1 DEF Find, IsNext, Becomes
  <1>3. /\ proc[x].since \in Positions /\ proc[x].upto \in Positions
        /\ proc[x].todo \in SUBSET Items
    BY <1>2, Shape, FeedAssumption DEF Types, TypeOK, At, Asked, Paged, Positions
  <1>4. applied[i] \in Positions
    BY FeedAssumption DEF Types, TypeOK, Positions
  <1>5. CASE i \in Refs
    <2>1. rules[i] \in Rule \cup {None}
      BY <1>5 DEF Types, TypeOK
    <2>2. s \in WritingRule
      BY <1>1, <1>3, <1>4, <1>5, <2>1 DEF WritingRule
    <2> QED
      BY <1>1, <1>2, <2>2, Becoming DEF States
  <1>6. CASE i \notin Refs
    <2>1. i \in Values /\ acl[i] \in Seq(BOOLEAN)
      BY <1>6 DEF Items, Types, TypeOK
    <2>2. acl[i] # <<>> => Head(acl[i]) \in BOOLEAN
      BY <2>1
    <2>3. s \in WritingAcl
      BY <1>1, <1>3, <1>4, <1>6, <2>1, <2>2 DEF WritingAcl
    <2> QED
      BY <1>1, <1>2, <2>3, Becoming DEF States
  <1> QED
    BY <1>5, <1>6

LEMMA Proceeds ==
    ASSUME Types, NEW x \in Procs, NEW i, Paged(x), Proceed(x, i)
    PROVE  /\ proc' \in [Procs -> States] /\ \A y \in Procs \ {x} : proc'[y] = proc[y]
           /\ proc'[x].at = "apply"
           /\ proc'[x].since = proc[x].since /\ proc'[x].upto = proc[x].upto
           /\ proc'[x].todo = proc[x].todo \ {i}
  <1>1. PICK s : s = [at |-> "apply", since |-> proc[x].since, upto |-> proc[x].upto,
                      todo |-> proc[x].todo \ {i}]
    OBVIOUS
  <1>2. /\ proc[x].since \in Positions /\ proc[x].upto \in Positions
        /\ proc[x].todo \in SUBSET Items
    BY Shape, FeedAssumption DEF Types, TypeOK, Asked, Paged, Positions
  <1>3. s \in States
    BY <1>1, <1>2 DEF States, Applying
  <1>4. Becomes(x, s)
    BY <1>1 DEF Proceed, Becomes
  <1> QED
    BY <1>1, <1>3, <1>4, Becoming

LEMMA Rests ==
    ASSUME Types, NEW x \in Procs, proc' = [proc EXCEPT ![x] = Idle]
    PROVE  /\ proc' \in [Procs -> States] /\ \A y \in Procs \ {x} : proc'[y] = proc[y]
           /\ proc'[x].at = "idle"
  <1>1. Idle \in States /\ Idle.at = "idle" /\ Becomes(x, Idle)
    BY DEF States, Idle, Becomes
  <1> QED
    BY <1>1, Becoming

LEMMA Writes ==
    ASSUME Types, NEW x \in Procs, NEW w, w = proc[x].item, NEW k, k = EntryOf(x, w),
           WriteRule(x)
    PROVE  /\ At(x, "rule") /\ w \in Refs /\ w \in Items
           /\ k \in 1..Len(log) /\ k \in Entries
           /\ rules' \in [Refs -> Rule \cup {None}]
           /\ \A u \in Refs \ {w} : rules'[u] = rules[u]
           /\ \/ /\ proc[x].found = None /\ rules[w] = None
                 /\ rules'[w] = [version |-> k, enabled |-> TRUE]
              \/ /\ proc[x].found \in Rule /\ rules[w] \in Rule
                 /\ proc[x].found # None /\ rules[w] # None
                 /\ proc[x].found.version < k
                 /\ rules'[w] = [version |-> k,
                                 enabled |-> rules[w].enabled \/ ~proc[x].found.enabled]
              \/ /\ proc[x].found \in Rule /\ proc[x].found # None
                 /\ proc[x].found.version >= k
                 /\ rules' = rules
  <1>1. /\ At(x, "rule") /\ w \in Refs /\ w \in Items
        /\ proc[x].found \in Rule \cup {None}
        /\ proc[x].upto \in 0..Len(log) /\ k # 0
        /\ proc[x].found # None => rules[w] # None
    BY Shape DEF WriteRule, At, Writing, Paged, Items, Types, Within
  <1>2. k \in 1..Len(log) /\ k \in Entries
    <2>1. k \in 0..proc[x].upto
      BY <1>1, LastOfMore DEF EntryOf
    <2> QED
      BY <1>1, <2>1, FeedAssumption DEF Types, TypeOK, Entries
  <1>3. rules \in [Refs -> Rule \cup {None}]
    BY DEF Types, TypeOK
  <1>4. CASE /\ proc[x].found = None /\ rules[w] = None
             /\ rules' = [rules EXCEPT ![w] = [version |-> k, enabled |-> TRUE]]
    <2>1. [version |-> k, enabled |-> TRUE] \in Rule
      BY <1>2 DEF Rule
    <2> QED
      BY <1>1, <1>2, <1>3, <1>4, <2>1
  <1>5. CASE /\ proc[x].found # None /\ proc[x].found.version < k
             /\ rules' = [rules EXCEPT ![w].version = k,
                                       ![w].enabled = @ \/ ~proc[x].found.enabled]
    <2>1. rules[w] \in Rule /\ proc[x].found \in Rule
      BY <1>1, <1>3, <1>5
    <2>2. PICK e \in BOOLEAN : e = (rules[w].enabled \/ ~proc[x].found.enabled)
      OBVIOUS
    <2>3. PICK r : r = [version |-> k, enabled |-> e]
      OBVIOUS
    <2>4. r \in Rule
      BY <1>2, <2>2, <2>3 DEF Rule
    <2>5. rules' = [rules EXCEPT ![w].version = k, ![w].enabled = e]
      BY <1>5, <2>2
    <2>6. [[rules[w] EXCEPT !.version = k] EXCEPT !.enabled = e] = r
      <3>1. PICK v \in Entries, b \in BOOLEAN : rules[w] = [version |-> v, enabled |-> b]
        BY <2>1 DEF Rule
      <3>2. [rules[w] EXCEPT !.version = k] = [version |-> k, enabled |-> b]
        BY <3>1
      <3>3. [[version |-> k, enabled |-> b] EXCEPT !.enabled = e] = r
        BY <2>3
      <3> QED
        BY <3>2, <3>3
    <2>7. rules' = [rules EXCEPT ![w] = r]
      BY <1>1, <1>3, <2>5, <2>6
    <2>8. /\ rules' \in [Refs -> Rule \cup {None}]
          /\ \A u \in Refs \ {w} : rules'[u] = rules[u]
          /\ rules'[w] = r
      BY <1>1, <1>3, <2>4, <2>7
    <2>9. r = [version |-> k, enabled |-> rules[w].enabled \/ ~proc[x].found.enabled]
      BY <2>2, <2>3
    <2> QED
      BY <1>1, <1>2, <1>5, <2>1, <2>8, <2>9
  <1>6. CASE proc[x].found # None /\ proc[x].found.version >= k /\ rules' = rules
    BY <1>1, <1>2, <1>3, <1>6
  <1> QED
    BY <1>4, <1>5, <1>6 DEF WriteRule

LEMMA WritesAcl ==
    ASSUME Types, NEW x \in Procs, NEW v, v = proc[x].item, NEW k, k = EntryOf(x, v),
           WriteAcl(x)
    PROVE  /\ At(x, "address") /\ v \in Values /\ v \in Items
           /\ k \in 1..Len(log)
           /\ acl' \in [Values -> Seq(BOOLEAN)]
           /\ \A u \in Values \ {v} : acl'[u] = acl[u]
           /\ acl'[v] # <<>>
           /\ \/ /\ proc[x].found = None
                 /\ Len(acl'[v]) = Len(acl[v]) + 1
                 /\ acl[v] = <<>> => acl'[v][1] = TRUE
                 /\ acl[v] # <<>> => acl'[v][1] = acl[v][1]
              \/ /\ proc[x].found # None /\ proc[x].found = TRUE
                 /\ acl' = acl
              \/ /\ proc[x].found # None /\ proc[x].found = FALSE
                 /\ acl'[v][1] = TRUE /\ Len(acl'[v]) = Len(acl[v])
  <1>1. /\ At(x, "address") /\ v \in Values /\ v \in Items
        /\ proc[x].found \in BOOLEAN \cup {None}
        /\ proc[x].upto \in 0..Len(log) /\ k # 0
        /\ proc[x].found # None => acl[v] # <<>>
    BY Shape DEF WriteAcl, At, Writing, Paged, Items, Types, Within
  <1>2. k \in 1..Len(log)
    <2>1. k \in 0..proc[x].upto
      BY <1>1, LastOfMore DEF EntryOf
    <2> QED
      BY <1>1, <2>1 DEF Types, TypeOK
  <1>3. acl \in [Values -> Seq(BOOLEAN)] /\ acl[v] \in Seq(BOOLEAN)
    BY <1>1 DEF Types, TypeOK
  <1>4. CASE proc[x].found = None
    <2>0. PICK e \in BOOLEAN : e = TRUE
      OBVIOUS
    <2>1. PICK s : s = Append(acl[v], e)
      OBVIOUS
    <2>2. /\ s \in Seq(BOOLEAN) /\ Len(s) = Len(acl[v]) + 1 /\ s # <<>>
          /\ \A j \in 1..Len(acl[v]) : s[j] = acl[v][j]
          /\ s[Len(acl[v]) + 1] = e
      BY <1>3, <2>1, Appending
    <2>3. /\ acl[v] = <<>> => s[1] = TRUE
          /\ acl[v] # <<>> => s[1] = acl[v][1]
      <3>1. /\ acl[v] = <<>> => Len(acl[v]) = 0
            /\ acl[v] # <<>> => 1 \in 1..Len(acl[v])
        BY <1>3
      <3>2. acl[v] = <<>> => Len(acl[v]) + 1 = 1
        BY <3>1
      <3>3. acl[v] = <<>> => s[1] = e
        BY <2>2, <3>2
      <3>4. acl[v] # <<>> => s[1] = acl[v][1]
        BY <2>2, <3>1
      <3> QED
        BY <2>0, <3>3, <3>4
    <2>4. acl' = [acl EXCEPT ![v] = s]
      BY <1>4, <2>0, <2>1 DEF WriteAcl
    <2> QED
      BY <1>1, <1>2, <1>3, <1>4, <2>2, <2>3, <2>4
  <1>5. CASE proc[x].found # None /\ proc[x].found = TRUE
    BY <1>1, <1>2, <1>3, <1>5 DEF WriteAcl
  <1>6. CASE proc[x].found # None /\ proc[x].found = FALSE
    <2>1. PICK s : s = [acl[v] EXCEPT ![1] = TRUE]
      OBVIOUS
    <2>2. acl[v] # <<>> /\ Len(acl[v]) \in Nat /\ DOMAIN acl[v] = 1..Len(acl[v]) /\ Len(acl[v]) >= 1
      BY <1>1, <1>3, <1>6
    <2>3. /\ s \in Seq(BOOLEAN) /\ Len(s) = Len(acl[v]) /\ s # <<>> /\ s[1] = TRUE
      BY <1>3, <2>1, <2>2
    <2>4. acl' = [acl EXCEPT ![v] = s]
      BY <1>6, <2>1 DEF WriteAcl
    <2> QED
      BY <1>1, <1>2, <1>3, <1>6, <2>3, <2>4
  <1> QED
    BY <1>1, <1>4, <1>5, <1>6

LEMMA Revokes ==
    ASSUME Types, NEW x \in Procs, NEW i \in Items, NEW k, k = EntryOf(x, i), Revoke(x, i)
    PROVE  /\ At(x, "apply") /\ i \in proc[x].todo
           /\ k \in 1..Len(log) /\ ~log[k].up
           /\ rules' \in [Refs -> Rule \cup {None}]
           /\ acl' \in [Values -> Seq(BOOLEAN)]
           /\ \A w \in Refs : /\ w # i \/ rules[w] = None => rules'[w] = rules[w]
                              /\ w = i /\ rules[w] # None =>
                                    /\ rules[w] \in Rule /\ rules'[w] # None
                                    /\ rules'[w] = [version |-> rules[w].version,
                                                    enabled |-> FALSE]
           /\ \A v \in Values : /\ v # i => acl'[v] = acl[v]
                                /\ Len(acl'[v]) = Len(acl[v])
                                /\ acl[v] = <<>> => acl'[v] = <<>>
                                /\ acl[v] # <<>> => acl'[v] # <<>>
                                /\ v = i => \A j \in DOMAIN acl'[v] : ~acl'[v][j]
  <1>1. /\ At(x, "apply") /\ i \in proc[x].todo /\ ~log[k].up
        /\ proc[x].upto \in 0..Len(log) /\ k # 0
    BY Shape DEF Revoke, IsNext, Brings, At, Paged, Types, Within
  <1>2. k \in 1..Len(log)
    <2>1. k \in 0..proc[x].upto
      BY <1>1, LastOfMore DEF EntryOf
    <2> QED
      BY <1>1, <2>1 DEF Types, TypeOK
  <1>3. rules \in [Refs -> Rule \cup {None}] /\ acl \in [Values -> Seq(BOOLEAN)]
    BY DEF Types, TypeOK
  <1>4. CASE i \in Refs
    <2>1. i \notin Values /\ acl' = acl
      BY <1>4, FeedAssumption DEF Revoke
    <2>2. CASE rules[i] = None
      <3>1. rules' = rules
        BY <1>4, <2>2 DEF Revoke
      <3> QED
        BY <1>1, <1>2, <1>3, <2>1, <2>2, <3>1
    <2>3. CASE rules[i] # None
      <3>1. rules[i] \in Rule
        BY <1>3, <1>4, <2>3
      <3>2. PICK e \in BOOLEAN : e = FALSE
        OBVIOUS
      <3>3. PICK r : r = [rules[i] EXCEPT !.enabled = e]
        OBVIOUS
      <3>4. /\ r \in Rule /\ r # None
            /\ r = [version |-> rules[i].version, enabled |-> e]
        BY <3>1, <3>3, Switching, NullAssumption
      <3>5. rules' = [rules EXCEPT ![i] = r]
        <4>1. rules' = [rules EXCEPT ![i].enabled = e]
          BY <1>4, <2>3, <3>2 DEF Revoke
        <4> QED
          BY <1>3, <1>4, <3>3, <4>1
      <3>6. rules' \in [Refs -> Rule \cup {None}] /\ rules'[i] = r
            /\ \A w \in Refs \ {i} : rules'[w] = rules[w]
        BY <1>3, <1>4, <3>4, <3>5
      <3> QED
        BY <1>1, <1>2, <1>3, <2>1, <2>3, <3>1, <3>2, <3>4, <3>6
    <2> QED
      BY <2>2, <2>3
  <1>5. CASE i \notin Refs
    <2>1. i \in Values /\ rules' = rules /\ acl[i] \in Seq(BOOLEAN)
      BY <1>3, <1>5 DEF Revoke, Items
    <2>2. PICK e \in BOOLEAN : e = FALSE
      OBVIOUS
    <2>3. PICK s : s = [j \in DOMAIN acl[i] |-> e]
      OBVIOUS
    <2>4. /\ s \in Seq(BOOLEAN) /\ Len(s) = Len(acl[i]) /\ \A j \in DOMAIN s : ~s[j]
          /\ acl[i] = <<>> <=> s = <<>>
      BY <2>1, <2>2, <2>3, Levelling
    <2>5. acl' = [acl EXCEPT ![i] = s]
      BY <1>5, <2>2, <2>3 DEF Revoke
    <2> QED
      BY <1>1, <1>2, <1>3, <1>5, <2>1, <2>4, <2>5
  <1> QED
    BY <1>4, <1>5

\* The parts of the invariant, each after a step.
LogStays == log' = log \/ \E e \in Entry : log' = Append(log, e)

RowsStay ==
    /\ \A w \in Refs : rules[w] # None => rules'[w] # None
    /\ \A v \in Values : acl[v] # <<>> => acl'[v] # <<>>

LEMMA HasLastStep ==
    ASSUME Types, LogStays
    PROVE  HasLast'
  <1>0. /\ Len(log) \in Nat /\ log \in Seq(Entry)
        /\ \A i \in Items : \A n \in 0..Len(log) : \E k \in 0..n : IsLast(i, k, n)
    BY DEF Types, TypeOK, HasLast
  <1>1. CASE log' = log
    BY <1>0, <1>1 DEF HasLast, IsLast
  <1>2. ASSUME NEW e \in Entry, log' = Append(log, e)
        PROVE  HasLast'
    <2>1. /\ Len(log') = Len(log) + 1 /\ log'[Len(log) + 1] = e
          /\ \A j \in 1..Len(log) : log'[j] = log[j]
      BY <1>0, <1>2
    <2> SUFFICES ASSUME NEW i \in Items, NEW n \in 0..(Len(log) + 1)
                 PROVE  \E k \in 0..n : IsLast(i, k, n)'
      BY <2>1 DEF HasLast
    <2>2. CASE n <= Len(log)
      <3>1. n \in 0..Len(log)
        BY <1>0, <2>2
      <3>2. PICK k \in 0..n : IsLast(i, k, n)
        BY <1>0, <3>1
      <3>3. k = 0 \/ k \in 1..Len(log)
        BY <1>0, <3>1
      <3>4. \A j \in 1..n : j \in 1..Len(log)
        BY <1>0, <3>1
      <3>5. IsLast(i, k, n)'
        BY <2>1, <3>2, <3>3, <3>4 DEF IsLast
      <3> QED
        BY <3>5
    <2>3. CASE n = Len(log) + 1 /\ e.item = i
      BY <1>0, <2>1, <2>3 DEF IsLast
    <2>4. CASE n = Len(log) + 1 /\ e.item # i
      <3>1. PICK m \in 0..Len(log) : m = Len(log)
        BY <1>0
      <3>2. PICK k \in 0..m : IsLast(i, k, m)
        BY <1>0
      <3>3. k \in 0..n /\ (k = 0 \/ k \in 1..Len(log))
        BY <1>0, <2>4, <3>1
      <3>4. \A j \in 1..n : j = Len(log) + 1 \/ (j \in 1..Len(log) /\ j \in 1..m)
        BY <1>0, <2>4, <3>1
      <3>5. IsLast(i, k, n)'
        BY <1>0, <2>1, <2>4, <3>2, <3>3, <3>4 DEF IsLast
      <3> QED
        BY <3>3, <3>5
    <2> QED
      BY <1>0, <2>2, <2>3, <2>4
  <1> QED
    BY <1>1, <1>2 DEF LogStays

LEMMA AddingFinite ==
    /\ IsFiniteSet(Procs) /\ Cardinality(Procs) \in Nat
    /\ \A v : /\ IsFiniteSet(Adding(v)) /\ Cardinality(Adding(v)) \in Nat
              /\ Cardinality(Adding(v)) <= Cardinality(Procs)
    /\ \A v : /\ IsFiniteSet(Adding(v)') /\ Cardinality(Adding(v)') \in Nat
              /\ Cardinality(Adding(v)') <= Cardinality(Procs)
  <1>1. IsFiniteSet(Procs)
    <2>1. Procs = Others \cup {Cron}
      BY DEF Procs
    <2> QED
      BY <2>1, FeedAssumption, FS_AddElement
  <1>2. \A v : Adding(v) \subseteq Procs /\ Adding(v)' \subseteq Procs
    BY DEF Adding
  <1> QED
    BY <1>1, <1>2, FS_CardinalityType, FS_Subset

Counted(v) == Len(acl[v]) + Cardinality(Adding(v)) <= Cardinality(Procs)

\* A sync that is not about to add a row does not count.
LEMMA CountStays ==
    ASSUME Types, NEW v \in Values, Len(acl'[v]) = Len(acl[v]), NEW x \in Procs,
           \A y \in Procs \ {x} : proc'[y] = proc[y],
           proc'[x] = proc[x] \/ x \notin Adding(v)'
    PROVE  Counted(v)'
  <1>1. Adding(v)' \subseteq Adding(v)
    BY DEF Adding, At
  <1>2. Cardinality(Adding(v)') <= Cardinality(Adding(v))
    BY <1>1, AddingFinite, FS_Subset
  <1>3. Len(acl[v]) + Cardinality(Adding(v)) <= Cardinality(Procs) /\ Len(acl[v]) \in Nat
    BY DEF Types, TypeOK
  <1> QED
    BY <1>2, <1>3, AddingFinite DEF Counted

LEMMA WithinStays ==
    ASSUME Types, LogStays, RowsStay, NEW y \in Procs, proc'[y] = proc[y]
    PROVE  Within(y)'
  <1>0. /\ Len(log) \in Nat /\ Len(log') \in Nat /\ Len(log) <= Len(log')
        /\ \A k \in 1..Len(log) : log'[k] = log[k]
        /\ \A i, n : n \in 0..Len(log) => Last(i, n)' = Last(i, n)
    BY LogGrows DEF LogStays
  <1>1. Within(y)
    BY DEF Types
  <1>2. /\ Asked(y)' <=> Asked(y)
        /\ Paged(y)' <=> Paged(y)
        /\ Writing(y)' <=> Writing(y)
        /\ \A l : At(y, l)' <=> At(y, l)
    BY DEF Asked, Paged, Writing, At
  <1>3. ASSUME Paged(y), NEW i \in Items
        PROVE  EntryOf(y, i)' = EntryOf(y, i) /\ EntryOf(y, i) \in 0..Len(log)
    <2>1. PICK n \in 0..Len(log) : n = proc[y].upto
      BY <1>3, Shape
    <2>2. Last(i, n)' = Last(i, n) /\ Last(i, n) \in 0..n
      BY <1>0, LastOfMore
    <2> QED
      BY <1>0, <2>1, <2>2 DEF EntryOf
  <1>4. ASSUME Writing(y), NEW i, i = proc[y].item
        PROVE  Brings(y, i)'
    <2>1. i \in Items
      BY <1>4, Shape
    <2>2. Paged(y) /\ EntryOf(y, i) # 0 /\ log[EntryOf(y, i)].up
      BY <1>4, Shape DEF Paged, Writing
    <2>3. EntryOf(y, i)' = EntryOf(y, i) /\ EntryOf(y, i) \in 1..Len(log)
      BY <1>0, <1>3, <2>1, <2>2
    <2> QED
      BY <1>0, <2>2, <2>3 DEF Brings
  <1>5. Asked(y) => proc[y].since \in 0..Len(log)
    BY Shape
  <1>6. Paged(y) => proc[y].upto \in 0..Len(log) /\ proc[y].todo \subseteq Items
    BY Shape
  <1>7. /\ At(y, "rule") => proc[y].item \in Refs
        /\ At(y, "address") => proc[y].item \in Values
    BY Shape
  <1>8. Asked(y)' => proc'[y].since <= Len(log')
    BY <1>0, <1>2, <1>5
  <1>9. Paged(y)' => /\ proc'[y].upto <= Len(log')
                     /\ \A i \in proc'[y].todo : EntryOf(y, i)' # 0
    BY <1>0, <1>1, <1>2, <1>3, <1>6 DEF Within
  <1>10. Writing(y)' => /\ proc'[y].item \in proc'[y].todo
                        /\ \A i : i = proc'[y].item => Brings(y, i)'
    BY <1>1, <1>2, <1>4 DEF Within
  <1>11. /\ At(y, "rule")' /\ proc'[y].found # None => rules'[proc'[y].item] # None
         /\ At(y, "address")' /\ proc'[y].found # None => acl'[proc'[y].item] # <<>>
    BY <1>1, <1>2, <1>7 DEF Within, RowsStay
  <1> QED
    BY <1>8, <1>9, <1>10, <1>11 DEF Within

LEMMA TypesFrom ==
    ASSUME Types, LogStays, Len(log') <= MaxEvents,
           unlocked' \in BOOLEAN, cursor' \in 0..Len(log), overtaken' \in SUBSET Items,
           acl' \in [Values -> Seq(BOOLEAN)], rules' \in [Refs -> Rule \cup {None}],
           proc' \in [Procs -> States], faults' \in 0..MaxFaults,
           applied' \in [Items -> 0..Len(log)],
           \A i \in Items : applied'[i] = 0 \/ log[applied'[i]].item = i,
           \A v \in Values : Counted(v)',
           \A x \in Procs : Within(x)'
    PROVE  Types'
  <1>1. /\ log' \in Seq(Entry) /\ Len(log) \in Nat /\ Len(log') \in Nat
        /\ Len(log) <= Len(log')
        /\ \A k \in 1..Len(log) : log'[k] = log[k]
    BY LogGrows DEF LogStays
  <1>2. \A v \in Values : Len(acl'[v]) <= Cardinality(Procs)
    BY AddingFinite DEF Counted
  <1>3. cursor' \in 0..Len(log') /\ applied' \in [Items -> 0..Len(log')]
    BY <1>1
  <1>4. TypeOK'
    BY <1>1, <1>2, <1>3 DEF TypeOK, States
  <1>5. \A i \in Items : applied'[i] # 0 => log'[applied'[i]].item = i
    BY <1>1
  <1> QED
    BY <1>4, <1>5, HasLastStep DEF Types, Counted

LEMMA TypesInit == Init => Types
  <1> SUFFICES ASSUME Init PROVE Types
    OBVIOUS
  <1>1. log = <<>> /\ Len(log) = 0 /\ log \in Seq(Entry)
    BY DEF Init
  <1>2. \A v : Adding(v) = {}
    BY DEF Init, Adding, At, Idle
  <1>3. Cardinality(Procs) \in Nat
    BY AddingFinite
  <1>4. \A v \in Values : Len(acl[v]) = 0 /\ Cardinality(Adding(v)) = 0
    BY <1>2, FS_EmptySet DEF Init
  <1>5. acl \in [Values -> Seq(BOOLEAN)]
    BY DEF Init
  <1>6. proc \in [Procs -> States] /\ \A x \in Procs : proc[x].at = "idle"
    BY DEF Init, States, Idle
  <1>7. HasLast
    BY <1>1 DEF HasLast, IsLast
  <1>8. \A x \in Procs : Within(x)
    BY <1>6 DEF Within, Asked, Paged, Writing, At
  <1>9. TypeOK
    BY <1>1, <1>3, <1>4, <1>5, <1>6, FeedAssumption DEF Init, TypeOK, States
  <1>10. \A i \in Items : applied[i] = 0
    BY DEF Init
  <1> QED
    BY <1>3, <1>4, <1>7, <1>8, <1>9, <1>10 DEF Types

\* A step that leaves the page of a sync alone leaves what it says.
LEMMA SamePage ==
    ASSUME log' = log, NEW x, proc'[x].upto = proc[x].upto
    PROVE  \A i : EntryOf(x, i)' = EntryOf(x, i) /\ (Brings(x, i)' <=> Brings(x, i))
  BY DEF EntryOf, Brings, Last

LEMMA Notes ==
    ASSUME Types, NEW i \in Items, NEW k \in 1..Len(log), NEW base, Note(i, k, base)
    PROVE  /\ applied' \in [Items -> 0..Len(log)]
           /\ applied'[i] = k /\ \A j \in Items \ {i} : applied'[j] = applied[j]
           /\ overtaken' \in SUBSET Items /\ overtaken \subseteq overtaken'
           /\ i \notin overtaken' => applied[i] <= k /\ applied[i] \in {base, k}
           /\ \A j : j # i => (j \in overtaken' <=> j \in overtaken)
  <1>1. k \in 0..Len(log) /\ k \in Nat
    BY DEF Types, TypeOK
  <1>2. applied \in [Items -> 0..Len(log)] /\ applied[i] \in Nat
    BY DEF Types, TypeOK
  <1> QED
    BY <1>1, <1>2 DEF Note, Types, TypeOK

\* Entry k of sync x is about its item.
LEMMA EntryIsOf ==
    ASSUME Types, NEW x \in Procs, Paged(x), NEW i \in Items, NEW k, k = EntryOf(x, i)
    PROVE  k \in 0..Len(log) /\ (k # 0 => log[k].item = i)
  <1>1. PICK n \in 0..Len(log) : n = proc[x].upto
    BY Shape
  <1>2. Len(log) \in Nat
    BY DEF Types, TypeOK
  <1> QED
    BY <1>1, <1>2, LastOfMore DEF EntryOf

LEMMA TypesStep == Types /\ [Next]_vars => Types'
  <1> SUFFICES ASSUME Types, [Next]_vars PROVE Types'
    OBVIOUS
  <1>0. /\ log \in Seq(Entry) /\ Len(log) \in Nat /\ Len(log) <= MaxEvents
        /\ unlocked \in BOOLEAN /\ cursor \in 0..Len(log) /\ overtaken \in SUBSET Items
        /\ acl \in [Values -> Seq(BOOLEAN)] /\ rules \in [Refs -> Rule \cup {None}]
        /\ proc \in [Procs -> States] /\ faults \in 0..MaxFaults /\ MaxFaults \in Nat
        /\ applied \in [Items -> 0..Len(log)]
        /\ \A i \in Items : applied[i] = 0 \/ log[applied[i]].item = i
    BY FeedAssumption DEF Types, TypeOK, States
  <1>1. ASSUME rules' = rules, acl' = acl
        PROVE  RowsStay /\ \A v \in Values : Len(acl'[v]) = Len(acl[v])
    BY <1>1 DEF RowsStay
  <1>2. ASSUME proc' = proc, acl' = acl
        PROVE  \A v \in Values : Counted(v)'
    <2>1. Cron \in Procs
      BY DEF Procs
    <2> QED
      BY <1>2, <2>1, CountStays
  <1>3. ASSUME LogStays, Len(log') <= MaxEvents, UNCHANGED <<acl, rules, proc, applied, overtaken>>,
               unlocked' \in BOOLEAN, cursor' \in 0..Len(log), faults' \in 0..MaxFaults
        PROVE  Types'
    BY <1>0, <1>1, <1>2, <1>3, WithinStays, TypesFrom
  \* One sync moves and Central does not.
  <1>4. ASSUME NEW x \in Procs, log' = log, unlocked' = unlocked, cursor' \in 0..Len(log),
               faults' \in 0..MaxFaults, proc' \in [Procs -> States],
               \A y \in Procs \ {x} : proc'[y] = proc[y],
               acl' \in [Values -> Seq(BOOLEAN)], rules' \in [Refs -> Rule \cup {None}],
               RowsStay, overtaken' \in SUBSET Items, applied' \in [Items -> 0..Len(log)],
               \A i \in Items : applied'[i] = 0 \/ log[applied'[i]].item = i,
               \A v \in Values : Counted(v)',
               Within(x)'
        PROVE  Types'
    <2>1. LogStays /\ Len(log') <= MaxEvents /\ unlocked' \in BOOLEAN
      BY <1>0, <1>4 DEF LogStays
    <2>2. \A y \in Procs : Within(y)'
      BY <1>4, <2>1, WithinStays
    <2> QED
      BY <1>4, <2>1, <2>2, TypesFrom
  <1>5. CASE \E i \in Items, up \in BOOLEAN : Publish(i, up)
    <2>1. PICK i \in Items, up \in BOOLEAN : Publish(i, up)
      BY <1>5
    <2>2. PICK e : e = [item |-> i, up |-> up]
      OBVIOUS
    <2>3. e \in Entry /\ log' = Append(log, e) /\ Len(log) < MaxEvents
      BY <2>1, <2>2 DEF Publish, Entry
    <2>4. LogStays /\ Len(log') <= MaxEvents
      BY <1>0, <2>3, FeedAssumption DEF LogStays
    <2> QED
      BY <1>0, <1>3, <2>1, <2>4 DEF Publish
  <1>6. CASE LicenseChanges \/ LoseCursor \/ UNCHANGED vars
    <2>1. 0 \in 0..Len(log) /\ (faults < MaxFaults => faults + 1 \in 0..MaxFaults)
      BY <1>0
    <2>2. LogStays /\ Len(log') <= MaxEvents
      BY <1>0, <1>6 DEF LogStays, LicenseChanges, LoseCursor, vars
    <2>3. unlocked' \in BOOLEAN /\ cursor' \in 0..Len(log) /\ faults' \in 0..MaxFaults
      BY <1>0, <1>6, <2>1 DEF LicenseChanges, LoseCursor, vars
    <2> QED
      BY <1>3, <1>6, <2>2, <2>3 DEF LicenseChanges, LoseCursor, vars
  <1>7. ASSUME NEW x \in Procs, Start(x)
        PROVE  Types'
    <2>1. UNCHANGED <<log, unlocked, cursor, acl, rules, applied, overtaken, faults>>
      BY <1>7 DEF Start
    <2>2. /\ proc' \in [Procs -> States] /\ \A y \in Procs \ {x} : proc'[y] = proc[y]
          /\ proc'[x].at = "ask" /\ proc'[x].since = cursor
      BY <1>7, Starts
    <2>3. \A v \in Values : Counted(v)'
      BY <1>1, <2>1, <2>2, CountStays DEF Adding, At
    <2>4. Within(x)'
      BY <1>0, <2>1, <2>2 DEF Within, Asked, Paged, Writing, At
    <2> QED
      BY <1>0, <1>1, <1>4, <2>1, <2>2, <2>3, <2>4
  <1>8. ASSUME NEW x \in Procs, Pull(x)
        PROVE  Types'
    <2>1. UNCHANGED <<log, unlocked, cursor, acl, rules, applied, overtaken, faults>>
      BY <1>8 DEF Pull
    <2>2. /\ proc' \in [Procs -> States] /\ \A y \in Procs \ {x} : proc'[y] = proc[y]
          /\ proc'[x].at = "apply" /\ proc'[x].upto = Len(log)
          /\ proc'[x].since = proc[x].since /\ At(x, "ask")
          /\ proc'[x].todo = {i \in Items : Last(i, Len(log)) > proc[x].since}
      BY <1>8, Pulls
    <2>3. proc[x].since \in 0..Len(log)
      BY <2>2, Shape DEF Asked, At
    <2>4. \A v \in Values : Counted(v)'
      BY <1>1, <2>1, <2>2, CountStays DEF Adding, At
    <2>5. \A i \in proc'[x].todo : EntryOf(x, i)' # 0
      <3>1. \A i : EntryOf(x, i)' = Last(i, Len(log))
        BY <2>1, <2>2 DEF EntryOf, Last
      <3>2. \A i \in Items : Last(i, Len(log)) > proc[x].since => Last(i, Len(log)) # 0
        BY <2>3, <1>0
      <3> QED
        BY <2>2, <3>1, <3>2
    <2>6. Within(x)'
      BY <1>0, <2>1, <2>2, <2>3, <2>5 DEF Within, Asked, Paged, Writing, At
    <2> QED
      BY <1>0, <1>1, <1>4, <2>1, <2>2, <2>4, <2>6
  <1>9. ASSUME NEW x \in Procs, PullFails(x) \/ Duplicate(x) \/ Abort(x)
        PROVE  Types'
    <2>1. /\ UNCHANGED <<log, unlocked, cursor, acl, rules, applied, overtaken>>
          /\ faults' \in 0..MaxFaults
          /\ proc' = [proc EXCEPT ![x] = Idle]
      BY <1>0, <1>9 DEF PullFails, Duplicate, Abort
    <2>2. /\ proc' \in [Procs -> States] /\ \A y \in Procs \ {x} : proc'[y] = proc[y]
          /\ proc'[x].at = "idle"
      BY <2>1, Rests
    <2>3. \A v \in Values : Counted(v)'
      BY <1>1, <2>1, <2>2, CountStays DEF Adding, At
    <2>4. Within(x)'
      BY <2>2 DEF Within, Asked, Paged, Writing, At
    <2> QED
      BY <1>0, <1>1, <1>4, <2>1, <2>2, <2>3, <2>4
  <1>10. ASSUME NEW x \in Procs, StoreCursor(x)
         PROVE  Types'
    <2>1. /\ UNCHANGED <<log, unlocked, acl, rules, applied, overtaken, faults>>
          /\ At(x, "apply") /\ cursor' = proc[x].upto
          /\ proc' = [proc EXCEPT ![x] = Idle]
      BY <1>10 DEF StoreCursor
    <2>2. /\ proc' \in [Procs -> States] /\ \A y \in Procs \ {x} : proc'[y] = proc[y]
          /\ proc'[x].at = "idle"
      BY <2>1, Rests
    <2>3. \A v \in Values : Counted(v)'
      BY <1>1, <2>1, <2>2, CountStays DEF Adding, At
    <2>4. Within(x)'
      BY <2>2 DEF Within, Asked, Paged, Writing, At
    <2>5. cursor' \in 0..Len(log)
      BY <2>1, Shape DEF Paged, At
    <2> QED
      BY <1>0, <1>1, <1>4, <2>1, <2>2, <2>3, <2>4, <2>5
  <1>11. ASSUME NEW x \in Procs, NEW i \in Items, Find(x, i)
         PROVE  Types'
    <2>1. UNCHANGED <<log, unlocked, cursor, acl, rules, applied, overtaken, faults>>
      BY <1>11 DEF Find
    <2>2. /\ proc' \in [Procs -> States] /\ \A y \in Procs \ {x} : proc'[y] = proc[y]
          /\ At(x, "apply") /\ i \in proc[x].todo /\ Brings(x, i)
          /\ proc'[x].at = IF i \in Refs THEN "rule" ELSE "address"
          /\ proc'[x].since = proc[x].since /\ proc'[x].upto = proc[x].upto
          /\ proc'[x].todo = proc[x].todo
          /\ proc'[x].item = i
          /\ proc'[x].found = IF i \in Refs THEN rules[i]
                              ELSE IF acl[i] = <<>> THEN None ELSE Head(acl[i])
      BY <1>11, Finds
    <2>3. ASSUME NEW v \in Values
          PROVE  Counted(v)'
      <3>1. CASE v = i /\ acl[i] = <<>>
        <4>1. Len(acl'[v]) = 0
          BY <2>1, <3>1
        <4> QED
          BY <4>1, AddingFinite DEF Counted
      <3>2. CASE v # i \/ acl[i] # <<>>
        <4>1. v = i => proc'[x].found # None
          <5>1. v = i => acl[i] \in Seq(BOOLEAN) /\ i \notin Refs
            BY <1>0, FeedAssumption
          <5>2. v = i => Head(acl[i]) \in BOOLEAN
            BY <3>2, <5>1
          <5> QED
            BY <2>2, <3>2, <5>1, <5>2, NullAssumption
        <4>2. x \notin Adding(v)'
          BY <2>2, <4>1 DEF Adding, At
        <4> QED
          BY <1>1, <2>1, <2>2, <4>2, CountStays
      <3> QED
        BY <3>1, <3>2
    <2>4. Within(x)'
      <3>1. Within(x) /\ Asked(x) /\ Paged(x)
        BY <2>2 DEF Types, At, Asked, Paged
      <3>2. \A j : EntryOf(x, j)' = EntryOf(x, j) /\ (Brings(x, j)' <=> Brings(x, j))
        BY <2>1, <2>2, SamePage
      <3>3. proc'[x].since <= Len(log') /\ proc'[x].upto <= Len(log')
        BY <2>1, <2>2, <3>1 DEF Within
      <3>4. \A j \in proc'[x].todo : EntryOf(x, j)' # 0
        BY <2>2, <3>1, <3>2 DEF Within
      <3>5. \A j : j = proc'[x].item => j \in proc'[x].todo /\ Brings(x, j)'
        BY <2>2, <3>2
      <3>6. /\ At(x, "rule")' /\ proc'[x].found # None => rules'[proc'[x].item] # None
            /\ At(x, "address")' /\ proc'[x].found # None => acl'[proc'[x].item] # <<>>
        BY <2>1, <2>2 DEF At
      <3> QED
        BY <3>3, <3>4, <3>5, <3>6 DEF Within
    <2> QED
      BY <1>0, <1>1, <1>4, <2>1, <2>2, <2>3, <2>4
  \* A sync that has dealt with an item is back at its page.
  <1>12. ASSUME NEW x \in Procs, NEW i, Paged(x), Proceed(x, i), log' = log
         PROVE  Within(x)'
    <2>1. /\ proc'[x].at = "apply"
          /\ proc'[x].since = proc[x].since /\ proc'[x].upto = proc[x].upto
          /\ proc'[x].todo = proc[x].todo \ {i}
      BY <1>12, Proceeds
    <2>2. Within(x) /\ Asked(x)
      BY <1>12 DEF Types, Asked, Paged
    <2>3. \A j : EntryOf(x, j)' = EntryOf(x, j)
      BY <1>12, <2>1, SamePage
    <2>4. proc'[x].since <= Len(log') /\ proc'[x].upto <= Len(log')
      BY <1>12, <2>1, <2>2 DEF Within
    <2>5. \A j \in proc'[x].todo : EntryOf(x, j)' # 0
      BY <1>12, <2>1, <2>2, <2>3 DEF Within
    <2> QED
      BY <2>1, <2>4, <2>5 DEF Within, Writing, At
  <1>13. ASSUME NEW x \in Procs, NEW i \in Items, NEW k, k = EntryOf(x, i), k \in 1..Len(log),
                Paged(x), NEW base, Note(i, k, base), Proceed(x, i),
                UNCHANGED <<log, unlocked, cursor, faults>>,
                acl' \in [Values -> Seq(BOOLEAN)], rules' \in [Refs -> Rule \cup {None}],
                RowsStay, \A v \in Values : Counted(v)'
         PROVE  Types'
    <2>1. /\ applied' \in [Items -> 0..Len(log)] /\ overtaken' \in SUBSET Items
          /\ applied'[i] = k /\ \A j \in Items \ {i} : applied'[j] = applied[j]
      BY <1>13, Notes
    <2>2. log[k].item = i
      BY <1>13, <1>0, EntryIsOf
    <2>3. \A j \in Items : applied'[j] = 0 \/ log[applied'[j]].item = j
      BY <1>0, <2>1, <2>2
    <2>4. proc' \in [Procs -> States] /\ \A y \in Procs \ {x} : proc'[y] = proc[y]
      BY <1>13, Proceeds
    <2>5. Within(x)'
      BY <1>12, <1>13
    <2> QED
      BY <1>0, <1>4, <1>13, <2>1, <2>3, <2>4, <2>5
  <1>14. ASSUME NEW x \in Procs, NEW i \in Items, Revoke(x, i)
         PROVE  Types'
    <2>1. PICK k : k = EntryOf(x, i)
      OBVIOUS
    <2>2. /\ At(x, "apply") /\ k \in 1..Len(log)
          /\ rules' \in [Refs -> Rule \cup {None}] /\ acl' \in [Values -> Seq(BOOLEAN)]
      BY <1>14, <2>1, Revokes
    <2>3. RowsStay /\ \A v \in Values : Len(acl'[v]) = Len(acl[v])
      <3>1. /\ \A w \in Refs : /\ w # i \/ rules[w] = None => rules'[w] = rules[w]
                               /\ w = i /\ rules[w] # None => rules'[w] # None
            /\ \A v \in Values : /\ Len(acl'[v]) = Len(acl[v])
                                 /\ acl[v] # <<>> => acl'[v] # <<>>
        BY <1>14, <2>1, Revokes
      <3> QED
        BY <3>1 DEF RowsStay
    <2>4. /\ Note(i, k, applied[i]) /\ Proceed(x, i) /\ Paged(x)
          /\ UNCHANGED <<log, unlocked, cursor, faults>>
      BY <1>14, <2>1 DEF Revoke, At, Paged
    <2>5. /\ \A y \in Procs \ {x} : proc'[y] = proc[y]
          /\ proc'[x].at = "apply"
      BY <2>4, Proceeds
    <2>6. \A v \in Values : Counted(v)'
      BY <2>3, <2>5, CountStays DEF Adding, At
    <2> QED
      BY <1>13, <2>1, <2>2, <2>3, <2>4, <2>6
  <1>15. ASSUME NEW x \in Procs, WriteRule(x)
         PROVE  Types'
    <2>1. PICK w, k : w = proc[x].item /\ k = EntryOf(x, w)
      OBVIOUS
    <2>2. /\ At(x, "rule") /\ w \in Refs /\ w \in Items /\ k \in 1..Len(log)
          /\ rules' \in [Refs -> Rule \cup {None}]
      BY <1>15, <2>1, Writes
    <2>3. \A u \in Refs : rules[u] # None => rules'[u] # None
      <3>1. \A u \in Refs \ {w} : rules'[u] = rules[u]
        BY <1>15, <2>1, Writes
      <3>2. rules[w] # None => rules'[w] # None
        <4>1. rules[w] = None \/ rules'[w] = rules[w] \/
                 \E b \in BOOLEAN : rules'[w] = [version |-> k, enabled |-> b]
          <5>1. PICK b \in BOOLEAN : b = (rules[w].enabled \/ ~proc[x].found.enabled)
            OBVIOUS
          <5>2. \/ rules[w] = None \/ rules' = rules
                \/ rules'[w] = [version |-> k,
                                enabled |-> rules[w].enabled \/ ~proc[x].found.enabled]
            BY <1>15, <2>1, Writes
          <5>3. CASE rules'[w] = [version |-> k,
                                  enabled |-> rules[w].enabled \/ ~proc[x].found.enabled]
            <6>1. rules'[w] = [version |-> k, enabled |-> b]
              BY <5>1, <5>3
            <6> QED
              BY <6>1
          <5> QED
            BY <5>2, <5>3
        <4>2. \A b \in BOOLEAN : [version |-> k, enabled |-> b] # None
          <5>1. k \in Entries
            BY <1>15, <2>1, Writes
          <5>2. \A b \in BOOLEAN : [version |-> k, enabled |-> b] \in Rule
            BY <5>1 DEF Rule
          <5> QED
            BY <5>2, NullAssumption
        <4> QED
          BY <4>1, <4>2
      <3> QED
        BY <3>1, <3>2
    <2>4. /\ Note(w, k, proc[x].base) /\ Proceed(x, w) /\ Paged(x)
          /\ UNCHANGED <<log, unlocked, cursor, acl, faults>>
      BY <1>15, <2>1, <2>2 DEF WriteRule, At, Paged
    <2>5. /\ \A y \in Procs \ {x} : proc'[y] = proc[y]
          /\ proc'[x].at = "apply"
      BY <2>4, Proceeds
    <2>6. \A v \in Values : Counted(v)'
      BY <2>4, <2>5, CountStays DEF Adding, At
    <2>7. RowsStay
      BY <2>3, <2>4 DEF RowsStay
    <2> QED
      BY <1>0, <1>13, <2>1, <2>2, <2>4, <2>6, <2>7
  <1>16. ASSUME NEW x \in Procs, WriteAcl(x)
         PROVE  Types'
    <2>1. PICK v, k : v = proc[x].item /\ k = EntryOf(x, v)
      OBVIOUS
    <2>2. /\ At(x, "address") /\ v \in Values /\ v \in Items /\ k \in 1..Len(log)
          /\ acl' \in [Values -> Seq(BOOLEAN)]
          /\ \A u \in Values \ {v} : acl'[u] = acl[u]
          /\ acl'[v] # <<>>
          /\ \/ proc[x].found = None /\ Len(acl'[v]) = Len(acl[v]) + 1
             \/ Len(acl'[v]) = Len(acl[v])
      BY <1>16, <2>1, WritesAcl
    <2>3. /\ Note(v, k, proc[x].base) /\ Proceed(x, v) /\ Paged(x)
          /\ UNCHANGED <<log, unlocked, cursor, rules, faults>>
      BY <1>16, <2>1, <2>2 DEF WriteAcl, At, Paged
    <2>4. /\ \A y \in Procs \ {x} : proc'[y] = proc[y]
          /\ proc'[x].at = "apply"
      BY <2>3, Proceeds
    <2>5. ASSUME NEW u \in Values
          PROVE  Counted(u)'
      <3>1. CASE Len(acl'[u]) = Len(acl[u])
        BY <2>4, <3>1, CountStays DEF Adding, At
      <3>2. CASE u = v /\ proc[x].found = None /\ Len(acl'[v]) = Len(acl[v]) + 1
        <4>1. x \in Adding(v) /\ Adding(v)' = Adding(v) \ {x}
          BY <2>1, <2>2, <2>4, <3>2 DEF Adding, At
        <4>2. IsFiniteSet(Adding(v)) /\ Cardinality(Adding(v)) \in Nat
          BY AddingFinite
        <4>3. Cardinality(Adding(v)') = Cardinality(Adding(v)) - 1
          BY <4>1, <4>2, FS_RemoveElement
        <4>4. Len(acl[v]) + Cardinality(Adding(v)) <= Cardinality(Procs) /\ Len(acl[v]) \in Nat
          BY <1>0, <2>2 DEF Types
        <4> QED
          BY <3>2, <4>2, <4>3, <4>4, AddingFinite DEF Counted
      <3> QED
        BY <2>2, <3>1, <3>2
    <2>6. RowsStay
      BY <2>2, <2>3 DEF RowsStay
    <2> QED
      BY <1>0, <1>13, <2>1, <2>2, <2>3, <2>5, <2>6
  <1> QED
    BY <1>5, <1>6, <1>7, <1>8, <1>9, <1>10, <1>11, <1>14, <1>15, <1>16, Steps

LEMMA TypesAlways == Spec => []Types
  BY TypesInit, TypesStep, PTL DEF Spec

\* Every step keeps the types, for any number of syncs, addresses, rules and events; an
\* address has at most one row per sync, as nothing but a sync that found none adds one.
THEOREM TypeCorrect == Spec => []TypeOK
  BY TypesAlways, PTL DEF Types

-----------------------------------------------------------------------------
(* Honesty.                                                                *)

\* A step that leaves of the row of item i what a sync can have seen of it.
SameRow(i) ==
    /\ i \in Refs => rules'[i] = rules[i]
    /\ i \in Values => /\ acl'[i] = <<>> <=> acl[i] = <<>>
                       /\ acl[i] # <<>> => acl'[i][1] = acl[i][1]

LEMMA FitsStays ==
    ASSUME Types, NEW y \in Procs, proc'[y] = proc[y], Writing(y),
           SameRow(proc[y].item), Fits(y)
    PROVE  Fits(y)'
  <1>1. CASE At(y, "rule")
    BY <1>1, Shape DEF Fits, SameRow, At
  <1>2. CASE At(y, "address")
    BY <1>2, Shape DEF Fits, SameRow, At
  <1> QED
    BY <1>1, <1>2 DEF Writing, At

LEMMA FollowsStays ==
    ASSUME Types, LogStays, NEW y \in Procs, proc'[y] = proc[y], NEW i \in Items,
           applied'[i] \in Nat, applied[i] <= applied'[i],
           applied'[i] = applied[i] => SameRow(i),
           Follows(y, i)
    PROVE  Follows(y, i)'
  <1>1. /\ Asked(y)' <=> Asked(y)
        /\ Paged(y)' <=> Paged(y)
        /\ Writing(y)' <=> Writing(y)
    BY DEF Asked, Paged, Writing
  <1>2. applied[i] \in Nat /\ Len(log) \in Nat
    BY DEF Types, TypeOK
  <1>3. \A j, n : n \in 0..Len(log) => Last(j, n)' = Last(j, n)
    BY LogGrows DEF LogStays
  <1>4. ASSUME Asked(y)
        PROVE  (Last(i, proc[y].since))' <= applied'[i]
    <2>1. PICK n \in 0..Len(log) : n = proc[y].since
      BY <1>4, Shape
    <2>2. Last(i, n) \in 0..n /\ Last(i, n)' = Last(i, n)
      BY <1>3, LastOfMore
    <2>3. Last(i, n) <= applied[i]
      BY <1>4, <2>1 DEF Follows
    <2>4. (Last(i, proc[y].since))' = Last(i, n)'
      BY <2>1
    <2> QED
      BY <1>2, <2>2, <2>3, <2>4
  <1>5. ASSUME Paged(y), i \notin proc[y].todo
        PROVE  EntryOf(y, i)' <= applied'[i]
    <2>1. PICK n \in 0..Len(log) : n = proc[y].upto
      BY <1>5, Shape
    <2>2. Last(i, n) \in 0..n /\ Last(i, n)' = Last(i, n)
      BY <1>3, LastOfMore
    <2>3. EntryOf(y, i)' = Last(i, n)' /\ EntryOf(y, i) = Last(i, n)
      BY <2>1 DEF EntryOf
    <2>4. EntryOf(y, i) <= applied[i]
      BY <1>5 DEF Follows
    <2> QED
      BY <1>2, <2>2, <2>3, <2>4
  <1>6. ASSUME Writing(y), proc[y].item = i
        PROVE  /\ proc[y].base <= applied'[i]
               /\ proc[y].base = applied'[i] => Fits(y)'
    <2>1. /\ proc[y].base <= applied[i]
          /\ proc[y].base = applied[i] => Fits(y)
      BY <1>6 DEF Follows
    <2>2. proc[y].base \in Nat
      BY <1>6, Shape, FeedAssumption DEF Writing, At, Positions
    <2>3. proc[y].base <= applied'[i]
      BY <1>2, <2>1, <2>2
    <2>4. ASSUME proc[y].base = applied'[i]
          PROVE  Fits(y)'
      <3>1. applied'[i] = applied[i]
        BY <1>2, <2>1, <2>2, <2>4
      <3> QED
        BY <1>6, <2>1, <2>4, <3>1, FitsStays
    <2> QED
      BY <2>3, <2>4
  <1> QED
    BY <1>1, <1>4, <1>5, <1>6 DEF Follows

LEMMA ReflectsStays ==
    ASSUME Types, LogStays, NEW i \in Items, NEW k \in 0..Len(log), Reflects(i, k),
           i \in Refs => rules'[i] = rules[i], i \in Values => acl'[i] = acl[i]
    PROVE  Reflects(i, k)'
  <1>1. Len(log) \in Nat /\ \A j \in 1..Len(log) : log'[j] = log[j]
    BY LogGrows DEF LogStays
  <1>2. k = 0 \/ log'[k] = log[k]
    BY <1>1
  <1>3. CASE i \in Refs
    BY <1>2, <1>3 DEF Reflects
  <1>4. CASE i \notin Refs
    <2>1. acl'[i] = acl[i]
      BY <1>4 DEF Items
    <2> QED
      BY <1>2, <1>4, <2>1 DEF Reflects
  <1> QED
    BY <1>3, <1>4

LEMMA HonestInit == Init => Honest
  <1> SUFFICES ASSUME Init, NEW i \in Items \ overtaken
               PROVE  /\ Reflects(i, applied[i])
                      /\ Last(i, cursor) <= applied[i]
                      /\ \A x \in Procs : Follows(x, i)
    BY DEF Honest
  <1>1. applied[i] = 0 /\ cursor = 0 /\ Len(log) = 0
    BY DEF Init
  <1>2. Types
    BY TypesInit
  <1>3. Last(i, cursor) \in 0..cursor
    BY <1>1, <1>2, LastOfMore
  <1>4. \A x \in Procs : proc[x].at = "idle"
    BY DEF Init, Idle
  <1>5. Reflects(i, applied[i])
    BY <1>1 DEF Reflects, Init, Items
  <1> QED
    BY <1>1, <1>3, <1>4, <1>5 DEF Follows, Asked, Paged, Writing

\* A step that applies nothing.
LEMMA HonestFrom ==
    ASSUME Types, Honest, LogStays, UNCHANGED <<acl, rules, applied, overtaken>>,
           \A i \in Items \ overtaken : Last(i, cursor)' <= applied[i],
           \A x \in Procs : \/ proc'[x] = proc[x]
                            \/ \A i \in Items \ overtaken : Follows(x, i)'
    PROVE  Honest'
  <1> SUFFICES ASSUME NEW i \in Items \ overtaken
               PROVE  /\ Reflects(i, applied[i])'
                      /\ Last(i, cursor)' <= applied[i]
                      /\ \A x \in Procs : Follows(x, i)'
    BY DEF Honest
  <1>1. PICK k : k = applied[i]
    OBVIOUS
  <1>2. k \in 0..Len(log) /\ k \in Nat
    BY <1>1 DEF Types, TypeOK
  <1>3. Reflects(i, k)'
    BY <1>1, <1>2, ReflectsStays DEF Honest
  <1>4. Reflects(i, applied[i])'
    BY <1>1, <1>3
  <1>5. \A x \in Procs : Follows(x, i)
    BY DEF Honest
  <1>6. SameRow(i) /\ applied'[i] \in Nat /\ applied[i] <= applied'[i]
    BY <1>1, <1>2 DEF SameRow
  <1>7. \A x \in Procs : Follows(x, i)'
    BY <1>5, <1>6, FollowsStays
  <1> QED
    BY <1>4, <1>7

\* A step of sync x that applies entry k to item i.
LEMMA HonestAfter ==
    ASSUME Types, Honest, NEW x \in Procs, NEW i \in Items, NEW k, k = EntryOf(x, i),
           k \in 1..Len(log), Paged(x), NEW base, Note(i, k, base), Proceed(x, i),
           UNCHANGED <<log, cursor>>,
           \A w \in Refs \ {i} : rules'[w] = rules[w],
           \A v \in Values \ {i} : acl'[v] = acl[v],
           i \notin overtaken' => Reflects(i, k)',
           i \notin overtaken' /\ applied[i] = k => SameRow(i)
    PROVE  Honest'
  <1>0. /\ applied'[i] = k /\ \A j \in Items \ {i} : applied'[j] = applied[j]
        /\ overtaken \subseteq overtaken'
        /\ i \notin overtaken' => applied[i] <= k
        /\ LogStays /\ k \in Nat /\ \A j \in Items : applied[j] \in 0..Len(log) /\ applied[j] \in Nat
    BY Notes DEF LogStays, Types, TypeOK
  <1>1. /\ \A y \in Procs \ {x} : proc'[y] = proc[y]
        /\ proc'[x].at = "apply"
        /\ proc'[x].since = proc[x].since /\ proc'[x].upto = proc[x].upto
        /\ proc'[x].todo = proc[x].todo \ {i}
    BY Proceeds
  <1>2. Len(log) \in Nat /\ cursor \in 0..Len(log)
        /\ proc[x].since \in 0..Len(log) /\ proc[x].upto \in 0..Len(log) /\ Asked(x)
    BY Shape DEF Types, TypeOK, Asked, Paged
  <1> SUFFICES ASSUME NEW j \in Items, j \notin overtaken'
               PROVE  /\ Reflects(j, applied[j])'
                      /\ Last(j, cursor)' <= applied'[j]
                      /\ \A y \in Procs : Follows(y, j)'
    BY DEF Honest
  <1>3. /\ Reflects(j, applied[j]) /\ Last(j, cursor) <= applied[j]
        /\ \A y \in Procs : Follows(y, j)
    BY <1>0 DEF Honest
  <1>4. applied[j] <= applied'[j] /\ applied'[j] \in 0..Len(log) /\ applied'[j] \in Nat
    BY <1>0, <1>2
  <1>5. Last(j, cursor) \in Nat /\ Last(j, proc[x].since) \in Nat /\ Last(j, proc[x].upto) \in Nat
    <2>1. \A n \in 0..Len(log) : Last(j, n) \in Nat
      BY <1>2, LastOfMore
    <2> QED
      BY <1>2, <2>1
  <1>6. Last(j, cursor)' <= applied'[j]
    <2>1. Last(j, cursor)' = Last(j, cursor)
      BY DEF Last
    <2> QED
      BY <1>0, <1>3, <1>4, <1>5, <2>1
  <1>7. Reflects(j, applied[j])'
    <2>1. CASE j = i
      <3>1. Reflects(j, k)'
        BY <2>1
      <3> QED
        BY <1>0, <2>1, <3>1
    <2>2. CASE j # i
      <3>1. PICK m \in 0..Len(log) : m = applied[j]
        BY <1>0
      <3>2. Reflects(j, m)'
        BY <1>0, <1>3, <2>2, <3>1, ReflectsStays
      <3>3. m = applied'[j]
        BY <1>0, <2>2, <3>1
      <3> QED
        BY <3>2, <3>3
    <2> QED
      BY <2>1, <2>2
  <1>8. ASSUME NEW y \in Procs \ {x}
        PROVE  Follows(y, j)'
    <2>1. applied'[j] = applied[j] => SameRow(j)
      <3>1. CASE j = i
        BY <1>0, <3>1
      <3>2. CASE j # i
        BY <3>2 DEF SameRow
      <3> QED
        BY <3>1, <3>2
    <2> QED
      BY <1>0, <1>1, <1>3, <1>4, <2>1, FollowsStays
  <1>9. Follows(x, j)'
    <2>1. /\ (Last(j, proc[x].since))' = Last(j, proc[x].since)
          /\ EntryOf(x, j)' = EntryOf(x, j)
      BY <1>1 DEF Last, EntryOf
    <2>2. (Last(j, proc[x].since))' <= applied'[j]
      BY <1>0, <1>2, <1>3, <1>4, <1>5, <2>1 DEF Follows
    <2>3. ASSUME j \notin proc'[x].todo
          PROVE  EntryOf(x, j)' <= applied'[j]
      <3>1. CASE j = i
        BY <1>0, <2>1, <3>1
      <3>2. CASE j # i
        <4>1. EntryOf(x, j) <= applied[j] /\ EntryOf(x, j) \in Nat
          BY <1>1, <1>3, <1>5, <2>3, <3>2 DEF Follows, EntryOf
        <4> QED
          BY <1>0, <1>4, <2>1, <4>1
      <3> QED
        BY <3>1, <3>2
    <2> QED
      BY <1>1, <2>2, <2>3 DEF Follows, Writing
  <1> QED
    BY <1>6, <1>7, <1>8, <1>9

LEMMA HonestStep == Types /\ Honest /\ [Next]_vars => Honest'
  <1> SUFFICES ASSUME Types, Honest, [Next]_vars PROVE Honest'
    OBVIOUS
  <1>0. /\ Len(log) \in Nat /\ cursor \in 0..Len(log)
        /\ \A i \in Items : applied[i] \in 0..Len(log) /\ applied[i] \in Nat
    BY DEF Types, TypeOK
  <1>1. \A i \in Items \ overtaken : /\ Last(i, cursor) <= applied[i]
                                     /\ \A x \in Procs : Follows(x, i)
    BY DEF Honest
  \* Where the log and the cursor stay, the cursor keeps its promise.
  <1>2. ASSUME log' = log, cursor' = cursor
        PROVE  LogStays /\ \A i \in Items \ overtaken : Last(i, cursor)' <= applied[i]
    BY <1>1, <1>2 DEF Last, LogStays
  <1>3. CASE \E i \in Items, up \in BOOLEAN : Publish(i, up)
    <2>1. PICK i \in Items, up \in BOOLEAN : Publish(i, up)
      BY <1>3
    <2>2. PICK e : e = [item |-> i, up |-> up]
      OBVIOUS
    <2>3. e \in Entry /\ log' = Append(log, e)
      BY <2>1, <2>2 DEF Publish, Entry
    <2>4. LogStays /\ UNCHANGED <<cursor, acl, rules, proc, applied, overtaken>>
      BY <2>1, <2>3 DEF LogStays, Publish
    <2>5. ASSUME NEW j \in Items \ overtaken
          PROVE  Last(j, cursor)' <= applied[j]
      <3>1. PICK n \in 0..Len(log) : n = cursor
        BY <1>0
      <3>2. Last(j, n)' = Last(j, n)
        BY <2>3, LogGrows
      <3>3. n = cursor'
        BY <2>4, <3>1
      <3> QED
        BY <1>1, <3>1, <3>2, <3>3
    <2> QED
      BY <2>4, <2>5, HonestFrom
  <1>4. CASE LicenseChanges \/ UNCHANGED vars
    <2>1. UNCHANGED <<log, cursor, acl, rules, proc, applied, overtaken>>
      BY <1>4 DEF LicenseChanges, vars
    <2> QED
      BY <1>2, <2>1, HonestFrom
  <1>5. CASE LoseCursor
    <2>1. UNCHANGED <<log, acl, rules, proc, applied, overtaken>> /\ cursor' = 0
      BY <1>5 DEF LoseCursor
    <2>2. ASSUME NEW j \in Items \ overtaken
          PROVE  Last(j, cursor)' <= applied[j]
      <3>1. PICK n \in 0..Len(log) : n = 0
        BY <1>0
      <3>2. Last(j, n) \in 0..n
        BY LastOfMore
      <3>3. Last(j, n)' = Last(j, n) /\ n = cursor'
        BY <2>1, <3>1 DEF Last
      <3> QED
        BY <1>0, <3>1, <3>2, <3>3
    <2> QED
      BY <2>1, <2>2, HonestFrom DEF LogStays
  <1>6. ASSUME NEW x \in Procs, Start(x)
        PROVE  Honest'
    <2>1. UNCHANGED <<log, cursor, acl, rules, applied, overtaken>>
      BY <1>6 DEF Start
    <2>2. /\ \A y \in Procs \ {x} : proc'[y] = proc[y]
          /\ proc'[x].at = "ask" /\ proc'[x].since = cursor
      BY <1>6, Starts
    <2>3. ASSUME NEW j \in Items \ overtaken
          PROVE  Follows(x, j)'
      <3>1. (Last(j, proc[x].since))' = Last(j, cursor)
        BY <2>1, <2>2 DEF Last
      <3> QED
        BY <1>1, <2>1, <2>2, <3>1 DEF Follows, Asked, Paged, Writing
    <2> QED
      BY <1>2, <2>1, <2>2, <2>3, HonestFrom
  <1>7. ASSUME NEW x \in Procs, Pull(x)
        PROVE  Honest'
    <2>1. UNCHANGED <<log, cursor, acl, rules, applied, overtaken>>
      BY <1>7 DEF Pull
    <2>2. /\ \A y \in Procs \ {x} : proc'[y] = proc[y]
          /\ proc'[x].at = "apply" /\ proc'[x].upto = Len(log)
          /\ proc'[x].since = proc[x].since /\ At(x, "ask")
          /\ proc'[x].todo = {i \in Items : Last(i, Len(log)) > proc[x].since}
      BY <1>7, Pulls
    <2>3. proc[x].since \in 0..Len(log) /\ Asked(x)
      BY <2>2, Shape DEF Asked, At
    <2>4. ASSUME NEW j \in Items \ overtaken
          PROVE  Follows(x, j)'
      <3>1. /\ (Last(j, proc[x].since))' = Last(j, proc[x].since)
            /\ EntryOf(x, j)' = Last(j, Len(log))
        BY <2>1, <2>2 DEF Last, EntryOf
      <3>2. Last(j, proc[x].since) <= applied[j]
        BY <1>1, <2>3 DEF Follows
      <3>3. PICK n \in 0..Len(log), m \in 0..Len(log) : n = proc[x].since /\ m = Len(log)
        BY <1>0, <2>3
      <3>4. /\ Last(j, n) \in 0..n /\ Last(j, m) \in 0..m
            /\ Last(j, m) <= n => Last(j, m) <= Last(j, n)
        BY LastOfMore
      <3>5. j \notin proc'[x].todo => Last(j, Len(log)) <= applied[j]
        BY <1>0, <2>2, <3>2, <3>3, <3>4
      <3> QED
        BY <2>1, <2>2, <3>1, <3>2, <3>5 DEF Follows, Writing
    <2> QED
      BY <1>2, <2>1, <2>2, <2>4, HonestFrom
  <1>8. ASSUME NEW x \in Procs, PullFails(x) \/ Duplicate(x) \/ Abort(x)
        PROVE  Honest'
    <2>1. /\ UNCHANGED <<log, cursor, acl, rules, applied, overtaken>>
          /\ proc' = [proc EXCEPT ![x] = Idle]
      BY <1>8 DEF PullFails, Duplicate, Abort
    <2>2. \A y \in Procs \ {x} : proc'[y] = proc[y]
      BY <2>1, Rests
    <2>3. proc'[x].at = "idle"
      BY <2>1, Rests
    <2>4. \A j \in Items : Follows(x, j)'
      BY <2>3 DEF Follows, Asked, Paged, Writing
    <2> QED
      BY <1>2, <2>1, <2>2, <2>4, HonestFrom
  <1>9. ASSUME NEW x \in Procs, StoreCursor(x)
        PROVE  Honest'
    <2>1. /\ UNCHANGED <<log, acl, rules, applied, overtaken>>
          /\ At(x, "apply") /\ proc[x].todo = {} /\ cursor' = proc[x].upto
          /\ proc' = [proc EXCEPT ![x] = Idle]
      BY <1>9 DEF StoreCursor
    <2>2. \A y \in Procs \ {x} : proc'[y] = proc[y]
      BY <2>1, Rests
    <2>3. proc'[x].at = "idle"
      BY <2>1, Rests
    <2>4. \A j \in Items : Follows(x, j)'
      BY <2>3 DEF Follows, Asked, Paged, Writing
    <2>5. ASSUME NEW j \in Items \ overtaken
          PROVE  Last(j, cursor)' <= applied[j]
      <3>1. Last(j, cursor)' = EntryOf(x, j)
        BY <2>1 DEF Last, EntryOf
      <3>2. EntryOf(x, j) <= applied[j]
        BY <1>1, <2>1 DEF Follows, Paged, At
      <3> QED
        BY <3>1, <3>2
    <2> QED
      BY <2>1, <2>2, <2>4, <2>5, HonestFrom DEF LogStays
  <1>10. ASSUME NEW x \in Procs, NEW i \in Items, Find(x, i)
         PROVE  Honest'
    <2>1. UNCHANGED <<log, cursor, acl, rules, applied, overtaken>>
      BY <1>10 DEF Find
    <2>2. /\ \A y \in Procs \ {x} : proc'[y] = proc[y]
          /\ At(x, "apply")
          /\ proc'[x].at = IF i \in Refs THEN "rule" ELSE "address"
          /\ proc'[x].since = proc[x].since /\ proc'[x].upto = proc[x].upto
          /\ proc'[x].todo = proc[x].todo
          /\ proc'[x].item = i /\ proc'[x].base = applied[i]
          /\ proc'[x].found = IF i \in Refs THEN rules[i]
                              ELSE IF acl[i] = <<>> THEN None ELSE Head(acl[i])
      BY <1>10, Finds
    <2>3. Fits(x)'
      <3>1. CASE i \in Refs
        BY <2>1, <2>2, <3>1 DEF Fits, At
      <3>2. CASE i \notin Refs
        <4>1. i \in Values /\ acl[i] \in Seq(BOOLEAN)
          BY <3>2 DEF Items, Types, TypeOK
        <4>2. acl[i] # <<>> => Head(acl[i]) \in BOOLEAN /\ Head(acl[i]) = acl[i][1]
          BY <4>1
        <4>3. proc'[x].found = None <=> acl'[i] = <<>>
          BY <2>1, <2>2, <3>2, <4>2, NullAssumption
        <4>4. proc'[x].found # None => proc'[x].found = acl'[i][1]
          BY <2>1, <2>2, <3>2, <4>2
        <4> QED
          BY <2>2, <3>2, <4>3, <4>4 DEF Fits, At
      <3> QED
        BY <3>1, <3>2
    <2>4. ASSUME NEW j \in Items \ overtaken
          PROVE  Follows(x, j)'
      <3>1. /\ (Last(j, proc[x].since))' = Last(j, proc[x].since)
            /\ EntryOf(x, j)' = EntryOf(x, j)
        BY <2>1, <2>2 DEF Last, EntryOf
      <3>2. /\ Last(j, proc[x].since) <= applied[j]
            /\ j \notin proc[x].todo => EntryOf(x, j) <= applied[j]
        BY <1>1, <2>2 DEF Follows, Asked, Paged, At
      <3>3. proc'[x].item = j => proc'[x].base <= applied[j]
        BY <1>0, <2>2
      <3> QED
        BY <2>1, <2>2, <2>3, <3>1, <3>2, <3>3 DEF Follows
    <2> QED
      BY <1>2, <2>1, <2>2, <2>4, HonestFrom
  <1>11. ASSUME NEW x \in Procs, NEW i \in Items, Revoke(x, i)
         PROVE  Honest'
    <2>1. PICK k : k = EntryOf(x, i)
      OBVIOUS
    <2>2. /\ At(x, "apply") /\ k \in 1..Len(log) /\ ~log[k].up
          /\ \A w \in Refs : /\ w # i \/ rules[w] = None => rules'[w] = rules[w]
                             /\ w = i /\ rules[w] # None =>
                                   /\ rules[w] \in Rule
                                   /\ rules'[w] = [version |-> rules[w].version,
                                                   enabled |-> FALSE]
          /\ \A v \in Values : /\ v # i => acl'[v] = acl[v]
                               /\ acl[v] = <<>> => acl'[v] = <<>>
                               /\ acl[v] # <<>> => acl'[v] # <<>>
                               /\ Len(acl'[v]) = Len(acl[v])
                               /\ v = i => \A j \in DOMAIN acl'[v] : ~acl'[v][j]
          /\ acl' \in [Values -> Seq(BOOLEAN)]
      BY <1>11, <2>1, Revokes
    <2>3. /\ Note(i, k, applied[i]) /\ Proceed(x, i) /\ Paged(x)
          /\ UNCHANGED <<log, cursor>>
      BY <1>11, <2>1, <2>2 DEF Revoke, At, Paged
    <2>4. ASSUME i \notin overtaken'
          PROVE  Reflects(i, k)' /\ (applied[i] = k => SameRow(i))
      <3>1. i \notin overtaken /\ applied[i] <= k /\ k \in Nat /\ k # 0
        BY <1>0, <2>2, <2>3, <2>4, Notes
      <3>2. Reflects(i, applied[i])
        BY <3>1 DEF Honest
      <3>3. CASE i \in Refs
        <4>1. rules[i] # None => rules[i].version <= k
          <5>0. rules[i] # None => rules[i] \in Rule
            BY <2>2, <3>3
          <5>1. rules[i] # None => rules[i].version \in Nat /\ rules[i].version <= applied[i]
            BY <3>2, <3>3, <5>0 DEF Reflects, Rule, Entries
          <5> QED
            BY <1>0, <3>1, <5>1
        <4>2. rules'[i] = None \/ (~rules'[i].enabled /\ rules'[i].version <= k)
          <5>1. PICK e \in BOOLEAN : e = FALSE
            OBVIOUS
          <5>2. rules[i] # None => rules'[i] = [version |-> rules[i].version, enabled |-> e]
            BY <2>2, <3>3, <5>1
          <5>3. rules[i] = None => rules'[i] = None
            BY <2>2, <3>3
          <5> QED
            BY <4>1, <5>1, <5>2, <5>3
        <4>3. Reflects(i, k)'
          BY <2>2, <2>3, <3>1, <3>3, <4>2 DEF Reflects
        <4>4. ASSUME applied[i] = k, rules[i] # None
              PROVE  rules'[i] = rules[i]
          <5>1. rules[i] \in Rule /\ ~rules[i].enabled
            BY <2>2, <3>1, <3>2, <3>3, <4>4 DEF Reflects
          <5>2. PICK n \in Entries, b \in BOOLEAN : rules[i] = [version |-> n, enabled |-> b]
            BY <5>1 DEF Rule
          <5>3. b = FALSE /\ rules[i].version = n
            BY <5>1, <5>2
          <5>4. rules'[i] = [version |-> rules[i].version, enabled |-> FALSE]
            BY <2>2, <3>3, <4>4
          <5> QED
            BY <5>2, <5>3, <5>4
        <4>5. applied[i] = k => rules'[i] = rules[i]
          BY <2>2, <3>3, <4>4
        <4> QED
          BY <3>3, <4>3, <4>5, FeedAssumption DEF SameRow
      <3>4. CASE i \notin Refs
        <4>1. i \in Values /\ acl[i] \in Seq(BOOLEAN) /\ acl'[i] \in Seq(BOOLEAN)
          BY <2>2, <3>4 DEF Items, Types, TypeOK
        <4>2. \A j \in DOMAIN acl'[i] : ~acl'[i][j]
          BY <2>2, <4>1
        <4>3. Reflects(i, k)'
          BY <2>2, <2>3, <3>1, <3>4, <4>2 DEF Reflects
        <4>4. ASSUME applied[i] = k, acl[i] # <<>>
              PROVE  acl'[i][1] = acl[i][1]
          <5>1. 1 \in DOMAIN acl[i] /\ 1 \in DOMAIN acl'[i]
            BY <2>2, <4>1, <4>4
          <5>2. acl[i][1] \in BOOLEAN /\ acl'[i][1] \in BOOLEAN
            BY <4>1, <5>1
          <5>3. ~acl[i][1] /\ ~acl'[i][1]
            BY <2>2, <3>1, <3>2, <3>4, <4>2, <4>4, <5>1 DEF Reflects
          <5> QED
            BY <5>2, <5>3
        <4>5. acl'[i] = <<>> <=> acl[i] = <<>>
          BY <2>2, <4>1
        <4> QED
          BY <3>4, <4>3, <4>4, <4>5 DEF SameRow
      <3> QED
        BY <3>3, <3>4
    <2> QED
      BY <2>1, <2>2, <2>3, <2>4, HonestAfter
  <1>12. ASSUME NEW x \in Procs, WriteRule(x)
         PROVE  Honest'
    <2>1. PICK w, k : w = proc[x].item /\ k = EntryOf(x, w)
      OBVIOUS
    <2>2. /\ At(x, "rule") /\ w \in Refs /\ w \in Items /\ k \in 1..Len(log) /\ k \in Entries
          /\ \A u \in Refs \ {w} : rules'[u] = rules[u]
      BY <1>12, <2>1, Writes
    <2>3. /\ Note(w, k, proc[x].base) /\ Proceed(x, w) /\ Paged(x) /\ Writing(x)
          /\ UNCHANGED <<log, cursor, acl>>
      BY <1>12, <2>1, <2>2 DEF WriteRule, At, Paged, Writing
    <2>4. log[k].up /\ w \notin Values
      BY <2>1, <2>2, <2>3, Shape, FeedAssumption
    <2>5. ASSUME w \notin overtaken'
          PROVE  Reflects(w, k)' /\ (applied[w] = k => SameRow(w))
      <3>1. /\ w \notin overtaken /\ applied[w] <= k /\ k \in Nat /\ k # 0
            /\ applied[w] \in {proc[x].base, k}
        BY <1>0, <2>2, <2>3, <2>5, Notes
      <3>2. Reflects(w, applied[w]) /\ Follows(x, w)
        BY <2>2, <3>1 DEF Honest
      <3>3. PICK r : r = [version |-> k, enabled |-> TRUE]
        OBVIOUS
      <3>4. r # None /\ r.version = k /\ r \in Rule
        <4>1. PICK e \in BOOLEAN : e = TRUE
          OBVIOUS
        <4>2. [version |-> k, enabled |-> e] \in Rule
          BY <2>2 DEF Rule
        <4> QED
          BY <3>3, <4>1, <4>2, NullAssumption
      <3>5. ASSUME proc[x].found \in Rule, rules[w] \in Rule, proc[x].found # None,
                   rules[w].enabled \/ ~proc[x].found.enabled,
                   rules'[w] = [version |-> k,
                                enabled |-> rules[w].enabled \/ ~proc[x].found.enabled]
            PROVE  rules'[w] = r
        BY <3>3, <3>5
      <3>6. CASE applied[w] = k
        <4>1. rules[w] = r
          BY <2>2, <2>4, <3>1, <3>2, <3>3, <3>6 DEF Reflects
        <4>2. rules[w].enabled
          BY <3>3, <4>1
        <4>3. rules'[w] = r
          BY <1>12, <2>1, <3>3, <3>4, <3>5, <4>1, <4>2, Writes
        <4>4. Reflects(w, k)'
          BY <2>2, <2>3, <2>4, <3>1, <3>3, <3>4, <4>3 DEF Reflects
        <4> QED
          BY <2>4, <4>1, <4>3, <4>4 DEF SameRow
      <3>7. CASE applied[w] = proc[x].base /\ applied[w] # k
        <4>1. proc[x].found = rules[w] /\ applied[w] < k
          BY <1>0, <2>1, <2>2, <2>3, <3>1, <3>2, <3>7 DEF Follows, Fits
        <4>2. rules[w] \in Rule => rules[w].version < k
          <5>1. rules[w] \in Rule => rules[w] # None /\ rules[w].version \in Nat
            BY NullAssumption DEF Rule, Entries
          <5>2. rules[w] \in Rule => rules[w].version <= applied[w]
            BY <2>2, <3>2, <5>1 DEF Reflects
          <5> QED
            BY <1>0, <2>2, <3>1, <4>1, <5>1, <5>2
        <4>3. rules[w] \in Rule => rules[w].enabled \/ ~proc[x].found.enabled
          BY <4>1
        <4>4. rules[w] \in Rule => ~(proc[x].found.version >= k)
          <5>1. rules[w] \in Rule => rules[w].version \in Nat
            BY DEF Rule, Entries
          <5> QED
            BY <3>1, <4>1, <4>2, <5>1
        <4>5. rules'[w] = r
          BY <1>12, <2>1, <3>3, <3>5, <4>1, <4>3, <4>4, Writes
        <4>6. Reflects(w, k)'
          BY <2>2, <2>3, <2>4, <3>1, <3>3, <3>4, <4>5 DEF Reflects
        <4> QED
          BY <3>7, <4>6
      <3> QED
        BY <3>1, <3>6, <3>7
    <2> QED
      BY <2>1, <2>2, <2>3, <2>5, HonestAfter
  <1>13. ASSUME NEW x \in Procs, WriteAcl(x)
         PROVE  Honest'
    <2>1. PICK v, k : v = proc[x].item /\ k = EntryOf(x, v)
      OBVIOUS
    <2>2. /\ At(x, "address") /\ v \in Values /\ v \in Items /\ k \in 1..Len(log)
          /\ acl' \in [Values -> Seq(BOOLEAN)]
          /\ \A u \in Values \ {v} : acl'[u] = acl[u]
          /\ acl'[v] # <<>>
          /\ \/ /\ proc[x].found = None
                /\ acl[v] = <<>> => acl'[v][1] = TRUE
                /\ acl[v] # <<>> => acl'[v][1] = acl[v][1]
             \/ proc[x].found # None /\ proc[x].found = TRUE /\ acl' = acl
             \/ proc[x].found # None /\ acl'[v][1] = TRUE
      BY <1>13, <2>1, WritesAcl
    <2>3. /\ Note(v, k, proc[x].base) /\ Proceed(x, v) /\ Paged(x) /\ Writing(x)
          /\ UNCHANGED <<log, cursor, rules>>
      BY <1>13, <2>1, <2>2 DEF WriteAcl, At, Paged, Writing
    <2>4. log[k].up /\ v \notin Refs /\ acl[v] \in Seq(BOOLEAN)
      BY <2>1, <2>2, <2>3, Shape, FeedAssumption DEF Types, TypeOK
    <2>5. ASSUME v \notin overtaken'
          PROVE  Reflects(v, k)' /\ (applied[v] = k => SameRow(v))
      <3>1. /\ v \notin overtaken /\ applied[v] <= k /\ k \in Nat /\ k # 0
            /\ applied[v] \in {proc[x].base, k}
        BY <1>0, <2>2, <2>3, <2>5, Notes
      <3>2. Reflects(v, applied[v]) /\ Follows(x, v)
        BY <2>2, <3>1 DEF Honest
      <3>3. acl'[v][1] => Reflects(v, k)'
        BY <2>2, <2>3, <2>4, <3>1 DEF Reflects
      <3>4. CASE applied[v] = k
        <4>1. acl[v] # <<>> /\ acl[v][1] /\ acl[v][1] = TRUE
          <5>1. acl[v] # <<>> /\ acl[v][1]
            BY <2>4, <3>1, <3>2, <3>4 DEF Reflects
          <5>2. acl[v][1] \in BOOLEAN
            BY <2>4, <5>1
          <5> QED
            BY <5>1, <5>2
        <4>2. acl'[v][1] = acl[v][1]
          BY <2>2, <4>1
        <4> QED
          BY <2>2, <2>4, <3>3, <4>1, <4>2 DEF SameRow
      <3>5. CASE applied[v] = proc[x].base /\ applied[v] # k
        <4>1. Fits(x)
          BY <2>1, <2>3, <3>2, <3>5 DEF Follows
        <4>2. /\ proc[x].found = None <=> acl[v] = <<>>
              /\ proc[x].found # None => proc[x].found = acl[v][1]
          BY <2>1, <2>2, <4>1 DEF Fits, At
        <4>3. acl'[v][1]
          BY <2>2, <4>2
        <4> QED
          BY <3>3, <3>5, <4>3
      <3> QED
        BY <3>1, <3>4, <3>5
    <2> QED
      BY <2>1, <2>2, <2>3, <2>5, HonestAfter
  <1> QED
    BY <1>3, <1>4, <1>5, <1>6, <1>7, <1>8, <1>9, <1>10, <1>11, <1>12, <1>13, Steps

LEMMA HonestAlways == Spec => [](Types /\ Honest)
  <1>1. Init => Types /\ Honest
    BY TypesInit, HonestInit
  <1>2. Types /\ Honest /\ [Next]_vars => (Types /\ Honest)'
    BY TypesStep, HonestStep
  <1> QED
    BY <1>1, <1>2, PTL DEF Spec

\* Honest means that the cursor is: an item of which Central has said nothing since the
\* cursor has been brought as far as Central's last word on it.
LEMMA HonestCursor == Types /\ Honest => CursorIsHonest
  <1> SUFFICES ASSUME Types, Honest, NEW i \in Items \ overtaken,
                      Last(i, Len(log)) \in 1..cursor
               PROVE  Agrees(i)
    BY DEF CursorIsHonest
  <1>1. PICK k : k = Last(i, Len(log))
    OBVIOUS
  <1>2. /\ Len(log) \in Nat /\ cursor \in 0..Len(log) /\ applied[i] \in 0..Len(log)
        /\ applied[i] = 0 \/ log[applied[i]].item = i
    BY DEF Types, TypeOK
  <1>3. PICK m \in 0..Len(log) : m = Len(log)
    BY <1>2
  <1>4. /\ Last(i, m) \in 0..m /\ Last(i, cursor) \in 0..cursor
        /\ Last(i, m) <= cursor => Last(i, m) <= Last(i, cursor)
        /\ applied[i] <= Last(i, m)
    BY <1>2, <1>3, LastOfMore
  <1>5. Reflects(i, applied[i]) /\ Last(i, cursor) <= applied[i]
    BY DEF Honest
  <1>6. applied[i] = k /\ k # 0
    BY <1>1, <1>2, <1>3, <1>4, <1>5
  <1>7. CASE i \in Refs
    BY <1>1, <1>5, <1>6, <1>7 DEF Agrees, Reflects
  <1>8. CASE i \notin Refs
    <2>1. acl[i] \in Seq(BOOLEAN)
      BY <1>8 DEF Items, Types, TypeOK
    <2>2. log[k].up => acl[i] # <<>> /\ acl[i][1]
      BY <1>5, <1>6, <1>8 DEF Reflects
    <2>3. ~log[k].up => \A j \in DOMAIN acl[i] : ~acl[i][j]
      BY <1>5, <1>6, <1>8 DEF Reflects
    <2>4. acl[i] # <<>> => 1 \in DOMAIN acl[i]
      BY <2>1
    <2> QED
      BY <1>1, <1>6, <1>8, <2>2, <2>3, <2>4 DEF Agrees
  <1> QED
    BY <1>7, <1>8

\* Whatever syncs overlap, die or start over, and however often the cursor is lost: an item
\* that Central has not named since the cursor stands as Central said last, unless an older
\* page overtook it.
THEOREM CursorIsHonestAlways == Spec => []CursorIsHonest
  BY HonestAlways, HonestCursor, PTL

\* For any number of syncs: a rule's version goes down only under a write whose copy of the
\* row is older than the row, and then the rule is one that was overtaken.
THEOREM VersionsOnlyGrowAlways == Spec => VersionsOnlyGrow
  <1>1. Types /\ Honest /\ [Next]_vars =>
           [\A w \in Refs :
               rules[w] # None /\ rules'[w].version < rules[w].version =>
                   /\ w \in overtaken'
                   /\ \E x \in Procs : /\ At(x, "rule") /\ proc[x].item = w
                                       /\ proc[x].found # None
                                       /\ proc[x].found.version < rules[w].version]_vars
    <2> SUFFICES ASSUME Types, Honest, [Next]_vars, NEW w \in Refs,
                        rules[w] # None, rules'[w].version < rules[w].version
                 PROVE  /\ w \in overtaken'
                        /\ \E x \in Procs : /\ At(x, "rule") /\ proc[x].item = w
                                            /\ proc[x].found # None
                                            /\ proc[x].found.version < rules[w].version
      OBVIOUS
    <2>0. rules[w] \in Rule /\ rules[w].version \in Nat /\ w \in Items
      BY DEF Types, TypeOK, Rule, Entries, Items
    <2>1. rules'[w] # rules[w]
      BY <2>0
    <2>2. PICK x \in Procs : \/ \E i \in Items : Revoke(x, i)
                             \/ WriteRule(x)
      BY <2>1, Steps DEF Publish, LicenseChanges, LoseCursor, Start, Pull, PullFails,
                         Duplicate, Abort, Find, WriteAcl, StoreCursor, vars
    <2>3. ASSUME NEW i \in Items, Revoke(x, i)
          PROVE  FALSE
      <3>1. rules'[w] = rules[w] \/ rules'[w] = [version |-> rules[w].version, enabled |-> FALSE]
        BY <2>3, Revokes
      <3>2. rules'[w].version = rules[w].version
        BY <3>1
      <3> QED
        BY <2>0, <3>2
    <2>4. WriteRule(x)
      BY <2>2, <2>3
    <2>5. PICK u, k : u = proc[x].item /\ k = EntryOf(x, u)
      OBVIOUS
    <2>6. /\ At(x, "rule") /\ u \in Refs /\ u \in Items /\ k \in 1..Len(log) /\ k \in Nat
          /\ \A v \in Refs \ {u} : rules'[v] = rules[v]
          /\ Note(u, k, proc[x].base)
      <3>1. /\ At(x, "rule") /\ u \in Refs /\ u \in Items /\ k \in 1..Len(log) /\ k \in Entries
            /\ \A v \in Refs \ {u} : rules'[v] = rules[v]
        BY <2>4, <2>5, Writes
      <3> QED
        BY <2>4, <2>5, <3>1 DEF WriteRule, Entries
    <2>7. u = w
      BY <2>1, <2>6
    <2>8. /\ proc[x].found \in Rule /\ proc[x].found # None
          /\ proc[x].found.version < k /\ rules'[w].version = k
      <3>1. \/ rules[u] = None
            \/ rules' = rules
            \/ /\ proc[x].found \in Rule /\ proc[x].found # None
               /\ proc[x].found.version < k
               /\ rules'[u] = [version |-> k,
                               enabled |-> rules[u].enabled \/ ~proc[x].found.enabled]
        BY <2>4, <2>5, Writes
      <3>2. PICK e \in BOOLEAN : e = (rules[u].enabled \/ ~proc[x].found.enabled)
        OBVIOUS
      <3>3. rules'[u] = [version |-> k, enabled |-> e] => rules'[u].version = k
        OBVIOUS
      <3> QED
        BY <2>1, <2>7, <3>1, <3>2, <3>3
    <2>9. proc[x].found.version < rules[w].version
      BY <2>0, <2>6, <2>8 DEF Rule, Entries
    <2>10. ASSUME w \notin overtaken'
           PROVE  FALSE
      <3>1. w \notin overtaken /\ applied[w] <= k
        BY <2>6, <2>7, <2>10, Notes
      <3>2. rules[w].version <= applied[w] /\ applied[w] \in Nat
        BY <2>0, <3>1 DEF Honest, Reflects, Types, TypeOK
      <3> QED
        BY <2>0, <2>6, <2>8, <3>1, <3>2
    <2> QED
      BY <2>5, <2>6, <2>7, <2>8, <2>9, <2>10
  <1> QED
    BY <1>1, HonestAlways, PTL DEF Spec, VersionsOnlyGrow
=============================================================================
