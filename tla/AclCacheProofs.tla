--------------------------- MODULE AclCacheProofs ---------------------------
(***************************************************************************)
(* Proofs about the ACL caches of AclCache, for any processes, clients,    *)
(* lifetimes and bounds: the type invariant, that the cached live set goes *)
(* stale in three ways only (LiveSetCoherent), and that a removal and an   *)
(* allow row announced with no request under way take effect within one    *)
(* decision lifetime.                                                      *)
(*                                                                         *)
(* LiveSetCoherent alone is not inductive: what a fill under way holds     *)
(* becomes the live set. Coherent says of those fills what it says of the  *)
(* cache, and holds whenever no write is about to forget the set.          *)
(*                                                                         *)
(* The other two follow a settled row through everything that is read from *)
(* the table and passed on (Sources): a removed row is in no live set, no  *)
(* fill and no verdict (Gone), an allow row is in each as it stands        *)
(* (Granted), and what had been decided before ends with its lifetime.     *)
(***************************************************************************)
EXTENDS AclCache, WellFoundedInduction, TLAPS

USE DEF NoRow

-----------------------------------------------------------------------------
(* The evaluator.                                                          *)

\* The first entry by id of a set of entries is one of them.
LEMMA FirstOfMember ==
    ASSUME NEW ids \in SUBSET Nat, ids # {}
    PROVE  FirstOf(ids) \in ids
  <1>1. \E i \in ids : \A j \in ids : ~(<<j, i>> \in OpToRel(<, Nat))
    BY NatLessThanWellFounded, WFMin
  <1>2. PICK i \in ids : \A j \in ids : ~(<<j, i>> \in OpToRel(<, Nat))
    BY <1>1
  <1>3. ASSUME NEW j \in ids
        PROVE  i <= j
    <2>1. ~(<<j, i>> \in {ss \in Nat \X Nat : ss[1] < ss[2]})
      BY <1>2 DEF OpToRel
    <2>2. <<j, i>> \in Nat \X Nat
      OBVIOUS
    <2>3. ~(j < i)
      BY <2>1, <2>2
    <2> QED
      BY <2>3
  <1> QED
    BY <1>3 DEF FirstOf

\* evaluateUncached decides by an entry of the set it was given, or passes.
LEMMA DecidedByEntry ==
    ASSUME NEW client \in Clients, NEW set \in RowSets
    PROVE  /\ Decided(client, set) \in Deciding
           /\ Decided(client, set).entry \in DOMAIN set \cup {NoRow}
           /\ Decided(client, set).client = client
           /\ Decided(client, set).verdict = Tier(set, client)
  <1> DEFINE tier == Tier(set, client)
             entry == IF tier = "pass" THEN NoRow ELSE FirstOf(Matching(set, client, tier))
  <1>1. DOMAIN set \subseteq RowIds
    BY DEF RowSets
  <1>2. tier \in Verdicts
    BY DEF Tier, Verdicts, Actions
  <1>3. CASE tier = "pass"
    BY <1>2, <1>3 DEF Decided, Deciding
  <1>4. CASE tier # "pass"
    <2>1. Matching(set, client, tier) # {}
      BY <1>4 DEF Tier
    <2>2. Matching(set, client, tier) \subseteq DOMAIN set
      BY DEF Matching
    <2>3. FirstOf(Matching(set, client, tier)) \in DOMAIN set
      <3>1. Matching(set, client, tier) \in SUBSET Nat
        BY <1>1, <2>2 DEF RowIds
      <3> QED
        BY <2>1, <2>2, <3>1, FirstOfMember
    <2> QED
      BY <1>1, <1>2, <1>4, <2>3 DEF Decided, Deciding
  <1> QED
    BY <1>3, <1>4

-----------------------------------------------------------------------------
(* Types.                                                                  *)

LEMMA InitType == Init => TypeOK
  <1> SUFFICES ASSUME Init PROVE TypeOK
    OBVIOUS
  <1>1. now \in 0..MaxTime /\ writes \in 0..MaxWrites
    BY ParametersAssumption DEF Init
  <1>2. rows \in Seq(Row) /\ Len(rows) <= MaxRows
    BY ParametersAssumption DEF Init
  <1>3. live \in {NoEntry} \cup LiveSet /\ decision \in [Clients -> {NoEntry} \cup CachedDecision]
    BY DEF Init
  <1>4. proc \in [Procs -> ProcState]
    BY DEF Init, ProcState
  <1>5. settled \in [RowIds -> {NoTime} \cup 0..MaxTime]
    BY DEF Init
  <1> QED
    BY <1>1, <1>2, <1>3, <1>4, <1>5 DEF TypeOK

\* What the live query returns is a collection of typed rows.
LEMMA ActiveRowsType ==
    ASSUME TypeOK, NEW t
    PROVE  ActiveRows(t) \in RowSets
  <1> DEFINE ids == {j \in DOMAIN rows : Active(rows[j], t)}
  <1>1. ids \in SUBSET RowIds
    BY ParametersAssumption DEF TypeOK, RowIds
  <1>2. \A i \in ids : rows[i] \in Row
    BY DEF TypeOK
  <1>3. ActiveRows(t) \in [ids -> Row]
    BY <1>2 DEF ActiveRows
  <1> QED
    BY <1>1, <1>3 DEF RowSets

\* A fill overtaken is a fill, and a tainted live set a live set.
LEMMA RacedType ==
    ASSUME TypeOK
    PROVE  /\ Raced(proc) \in [Procs -> ProcState]
           /\ Taint(live) \in {NoEntry} \cup LiveSet
           /\ \A p \in Procs : Raced(proc)[p].at = proc[p].at
           /\ \A p \in Procs : proc[p].at = "fill" => Raced(proc)[p].raced
           /\ \A p \in Procs : proc[p].at # "fill" => Raced(proc)[p] = proc[p]
           /\ Taint(live) # NoEntry => Taint(live).tainted
  <1>1. ASSUME NEW p \in Procs
        PROVE  /\ Raced(proc)[p] \in ProcState
               /\ Raced(proc)[p].at = proc[p].at
               /\ proc[p].at = "fill" => Raced(proc)[p].raced
               /\ proc[p].at # "fill" => Raced(proc)[p] = proc[p]
    <2>1. CASE proc[p].at = "fill"
      <3>1. proc[p] \in Filling
        BY <2>1 DEF TypeOK, ProcState, Idle, Looking, Deciding, Forgetting
      <3> QED
        BY <2>1, <3>1 DEF Raced, ProcState, Filling
    <2>2. CASE proc[p].at # "fill"
      BY <2>2 DEF Raced, TypeOK
    <2> QED
      BY <2>1, <2>2
  <1>2. Raced(proc) \in [Procs -> ProcState]
    BY <1>1 DEF Raced
  <1>3. /\ Taint(live) \in {NoEntry} \cup LiveSet
        /\ Taint(live) # NoEntry => Taint(live).tainted
    BY DEF TypeOK, Taint, LiveSet
  <1> QED
    BY <1>1, <1>2, <1>3

\* A write leaves everything typed that it leaves alone, and announces a row id.
LEMMA CommitType ==
    ASSUME TypeOK, NEW p \in Procs, NEW id \in RowIds, NEW newRows \in Seq(Row),
           Len(newRows) <= MaxRows, Commit(p, id, newRows)
    PROVE  TypeOK'
  <1>1. proc' \in [Procs -> ProcState]
    <2>1. [at |-> "written", row |-> id] \in ProcState
      BY DEF ProcState, Forgetting
    <2> QED
      BY <2>1 DEF TypeOK, Commit
  <1>2. settled' \in [RowIds -> {NoTime} \cup 0..MaxTime]
    BY DEF TypeOK, Commit
  <1>3. writes' \in 0..MaxWrites
    BY ParametersAssumption DEF TypeOK, Commit
  <1> QED
    BY <1>1, <1>2, <1>3 DEF TypeOK, Commit

LEMMA StoredRow ==
    ASSUME TypeOK, NEW i \in DOMAIN rows
    PROVE  i \in RowIds /\ rows[i] \in Row
  BY ParametersAssumption DEF TypeOK, RowIds

\* A changed row of the table leaves a table.
LEMMA RowChanged ==
    ASSUME TypeOK, NEW i \in DOMAIN rows, NEW row \in Row
    PROVE  /\ [rows EXCEPT ![i] = row] \in Seq(Row)
           /\ Len([rows EXCEPT ![i] = row]) <= MaxRows
  BY DEF TypeOK

LEMMA WriteType ==
    ASSUME TypeOK, NEW p \in Procs, Write(p)
    PROVE  TypeOK'
  <1>0. Expiries \subseteq 0..Never
    BY ParametersAssumption DEF Expiries, Never
  <1>1. ASSUME NEW action \in Actions, NEW covers \in (SUBSET Clients) \ {{}},
               NEW expires \in Expiries, Create(p, action, covers, expires)
        PROVE  TypeOK'
    <2> DEFINE row == [action |-> action, covers |-> covers, expires |-> expires,
                       trashed |-> FALSE]
    <2>1. row \in Row
      BY <1>0 DEF Row
    <2>2. Append(rows, row) \in Seq(Row) /\ Len(Append(rows, row)) = Len(rows) + 1
      BY <2>1 DEF TypeOK
    <2>3. Len(rows) + 1 \in RowIds /\ Len(rows) + 1 <= MaxRows
      BY <1>1, ParametersAssumption DEF Create, TypeOK, RowIds
    <2>4. Commit(p, Len(rows) + 1, Append(rows, row))
      BY <1>1 DEF Create
    <2> HIDE DEF row
    <2> QED
      BY <2>2, <2>3, <2>4, CommitType
  <1>2. ASSUME NEW i \in DOMAIN rows, NEW action \in Actions, SetAction(p, i, action)
        PROVE  TypeOK'
    <2>1. [rows[i] EXCEPT !.action = action] \in Row
      BY StoredRow DEF Row
    <2>2. Commit(p, i, [rows EXCEPT ![i] = [rows[i] EXCEPT !.action = action]])
      BY <1>2 DEF SetAction
    <2> QED
      BY <2>1, <2>2, StoredRow, RowChanged, CommitType
  <1>3. ASSUME NEW i \in DOMAIN rows, Trash(p, i)
        PROVE  TypeOK'
    <2>1. [rows[i] EXCEPT !.trashed = TRUE] \in Row
      BY StoredRow DEF Row
    <2>2. Commit(p, i, [rows EXCEPT ![i] = [rows[i] EXCEPT !.trashed = TRUE]])
      BY <1>3 DEF Trash
    <2> QED
      BY <2>1, <2>2, StoredRow, RowChanged, CommitType
  <1>4. ASSUME NEW i \in DOMAIN rows, NEW action \in Actions, NEW expires \in Expiries,
               Upsert(p, i, action, expires)
        PROVE  TypeOK'
    <2> DEFINE row == [rows[i] EXCEPT !.action = action, !.expires = expires]
    <2>1. row \in Row
      BY <1>0, StoredRow DEF Row
    <2>2. Commit(p, i, [rows EXCEPT ![i] = row])
      <3>1. [rows EXCEPT ![i].action = action, ![i].expires = expires]
              = [rows EXCEPT ![i] = row]
        BY StoredRow DEF TypeOK, Row
      <3> QED
        BY <1>4, <3>1 DEF Upsert
    <2> HIDE DEF row
    <2> QED
      BY <2>1, <2>2, StoredRow, RowChanged, CommitType
  <1> QED
    BY <1>1, <1>2, <1>3, <1>4 DEF Write

\* What a process holds, by where it is.
LEMMA ProcAt ==
    ASSUME TypeOK, NEW p \in Procs
    PROVE  /\ proc[p].at \in {"missed", "query"} => proc[p] \in Looking
           /\ proc[p].at = "fill" => proc[p] \in Filling
           /\ proc[p].at = "decided" => proc[p] \in Deciding
           /\ proc[p].at = "written" => proc[p] \in Forgetting
  BY DEF TypeOK, ProcState, Idle, Looking, Filling, Deciding, Forgetting

LEMMA TypeStep ==
    ASSUME TypeOK, [Next]_vars
    PROVE  TypeOK'
  <1>1. ASSUME NEW p \in Procs, NEW c \in Clients, Request(p, c)
        PROVE  TypeOK'
    <2>1. [at |-> "missed", client |-> c] \in ProcState
      BY DEF ProcState, Looking
    <2> QED
      BY <1>1, <2>1 DEF TypeOK, Request
  <1>2. ASSUME NEW p \in Procs, ReadLive(p)
        PROVE  TypeOK'
    <2>1. proc[p].client \in Clients
      BY <1>2, ProcAt DEF ReadLive, Looking
    <2>2. [at |-> "query", client |-> proc[p].client] \in ProcState
      BY <2>1 DEF ProcState, Looking
    <2>3. live # NoEntry => Decided(proc[p].client, live.set) \in ProcState
      BY <2>1, DecidedByEntry DEF TypeOK, LiveSet, ProcState
    <2>4. proc' \in [Procs -> ProcState]
      BY <1>2, <2>2, <2>3 DEF TypeOK, ReadLive
    <2> QED
      BY <1>2, <2>4 DEF TypeOK, ReadLive
  <1>3. ASSUME NEW p \in Procs, QueryRows(p)
        PROVE  TypeOK'
    <2>1. proc[p].client \in Clients
      BY <1>3, ProcAt DEF QueryRows, Looking
    <2>2. [at |-> "fill", client |-> proc[p].client, set |-> ActiveRows(now),
           asOf |-> now, raced |-> FALSE] \in ProcState
      BY <2>1, ActiveRowsType DEF ProcState, Filling, TypeOK
    <2> QED
      BY <1>3, <2>2 DEF TypeOK, QueryRows
  <1>4. ASSUME NEW p \in Procs, StoreLive(p)
        PROVE  TypeOK'
    <2>1. proc[p] \in Filling
      BY <1>4, ProcAt DEF StoreLive
    <2>2. Decided(proc[p].client, proc[p].set) \in ProcState
      BY <2>1, DecidedByEntry DEF Filling, ProcState
    <2>3. [kind |-> "live", set |-> proc[p].set, asOf |-> proc[p].asOf,
           tainted |-> proc[p].raced] \in LiveSet
      BY <2>1 DEF Filling, LiveSet
    <2> QED
      BY <1>4, <2>2, <2>3 DEF TypeOK, StoreLive
  <1>5. ASSUME NEW p \in Procs, StoreDecision(p)
        PROVE  TypeOK'
    <2>1. proc[p] \in Deciding
      BY <1>5, ProcAt DEF StoreDecision
    <2>2. [kind |-> "decision", verdict |-> proc[p].verdict, entry |-> proc[p].entry,
           until |-> now + Ttl] \in CachedDecision
      BY <2>1, ParametersAssumption DEF Deciding, CachedDecision, TypeOK
    <2>3. decision' \in [Clients -> {NoEntry} \cup CachedDecision]
      BY <1>5, <2>2 DEF TypeOK, StoreDecision
    <2>4. proc' \in [Procs -> ProcState]
      BY <1>5 DEF TypeOK, StoreDecision, ProcState
    <2> QED
      BY <1>5, <2>3, <2>4 DEF TypeOK, StoreDecision
  <1>6. ASSUME NEW p \in Procs, ForgetLive(p)
        PROVE  TypeOK'
    <2>1. proc' \in [Procs -> ProcState]
      BY <1>6, RacedType DEF ForgetLive, ProcState
    <2>2. settled' \in [RowIds -> {NoTime} \cup 0..MaxTime]
      BY <1>6 DEF TypeOK, ForgetLive
    <2>3. live' \in {NoEntry} \cup LiveSet
      BY <1>6 DEF ForgetLive
    <2> QED
      BY <1>6, <2>1, <2>2, <2>3 DEF TypeOK, ForgetLive
  <1>7. ASSUME NEW p \in Procs, NEW i \in DOMAIN rows, Revoke(p, i)
        PROVE  TypeOK'
    <2>1. [rows[i] EXCEPT !.expires = now] \in Row
      <3>1. now \in 0..Never
        BY ParametersAssumption DEF TypeOK, Never
      <3> QED
        BY <3>1, StoredRow DEF Row
    <2>2. rows' = [rows EXCEPT ![i] = [rows[i] EXCEPT !.expires = now]]
      BY <1>7 DEF Revoke
    <2>3. rows' \in Seq(Row) /\ Len(rows') <= MaxRows
      BY <2>1, <2>2, RowChanged
    <2>4. proc' \in [Procs -> ProcState] /\ live' \in {NoEntry} \cup LiveSet
      BY <1>7, RacedType DEF Revoke
    <2>5. settled' \in [RowIds -> {NoTime} \cup 0..MaxTime]
      BY <1>7 DEF TypeOK, Revoke
    <2>6. writes' \in 0..MaxWrites
      BY <1>7, ParametersAssumption DEF TypeOK, Revoke
    <2> QED
      BY <1>7, <2>3, <2>4, <2>5, <2>6 DEF TypeOK, Revoke
  <1>8. ASSUME NEW p \in Procs, Crash(p)
        PROVE  TypeOK'
    <2>1. proc' \in [Procs -> ProcState]
      <3>1. proc' = [Raced(proc) EXCEPT ![p] = Idle] \/ proc' = [proc EXCEPT ![p] = Idle]
        BY <1>8 DEF Crash
      <3> QED
        BY <3>1, RacedType DEF TypeOK, ProcState
    <2>2. live' \in {NoEntry} \cup LiveSet
      BY <1>8, RacedType DEF TypeOK, Crash
    <2> QED
      BY <1>8, <2>1, <2>2 DEF TypeOK, Crash
  <1>9. CASE Tick
    BY <1>9, ParametersAssumption DEF TypeOK, Tick
  <1>10. CASE UNCHANGED vars
    BY <1>10 DEF TypeOK, vars
  <1> QED
    BY <1>1, <1>2, <1>3, <1>4, <1>5, <1>6, <1>7, <1>8, <1>9, <1>10, WriteType DEF Next

\* Every variable stays in its type: a cached live set is a set of typed rows and a
\* cached decision names a row or none.
THEOREM TypeCorrect == Spec => []TypeOK
  BY InitType, TypeStep, PTL DEF Spec

-----------------------------------------------------------------------------
(* The live set goes stale in three ways only.                             *)

\* What an untainted live set and a fill nobody overtook hold.
Coherent ==
    /\ live # NoEntry /\ ~live.tainted => live.set = ActiveRows(live.asOf)
    /\ \A p \in Procs : proc[p].at = "fill" /\ ~proc[p].raced =>
          proc[p].set = ActiveRows(proc[p].asOf)

IInv == TypeOK /\ (WriteInFlight \/ Coherent)

\* A forget, a mass update or a dead writer leaves nothing untainted behind.
LEMMA RacedCoherent ==
    ASSUME TypeOK, NEW p \in Procs, proc[p].at # "fill",
           proc' = Raced(proc) \/ proc' = [Raced(proc) EXCEPT ![p] = Idle],
           live' = NoEntry \/ live' = Taint(live)
    PROVE  Coherent'
  <1>1. live' # NoEntry => live'.tainted
    BY RacedType
  <1>2. ASSUME NEW q \in Procs, proc'[q].at = "fill"
        PROVE  proc'[q].raced
    BY <1>2, RacedType DEF Idle
  <1> QED
    BY <1>1, <1>2 DEF Coherent

\* A step of a process that is not about to forget, on a table that stays: it is
\* enough to look at what the process holds next and at what is cached next.
LEMMA QuietStep ==
    ASSUME IInv, NEW p \in Procs, proc[p].at # "written",
           NEW x, proc' = [proc EXCEPT ![p] = x], rows' = rows,
           x.at = "fill" /\ ~x.raced => x.set = ActiveRows(x.asOf),
           live' # NoEntry /\ ~live'.tainted /\ ~WriteInFlight =>
               live'.set = ActiveRows(live'.asOf)
    PROVE  WriteInFlight' \/ Coherent'
  <1>1. \A q \in Procs : proc'[q] = IF q = p THEN x ELSE proc[q]
    BY DEF IInv, TypeOK
  <1>2. CASE WriteInFlight
    BY <1>1, <1>2 DEF WriteInFlight
  <1>3. CASE Coherent /\ ~WriteInFlight
    <2>1. live' # NoEntry /\ ~live'.tainted => live'.set = ActiveRows(live'.asOf)
      BY <1>3
    <2>2. ASSUME NEW q \in Procs, proc'[q].at = "fill", ~proc'[q].raced
          PROVE  proc'[q].set = ActiveRows(proc'[q].asOf)
      BY <1>1, <1>3, <2>2 DEF Coherent
    <2> QED
      BY <2>1, <2>2 DEF Coherent, ActiveRows, Active
  <1> QED
    BY <1>2, <1>3 DEF IInv

LEMMA CoherentStep ==
    ASSUME IInv, [Next]_vars
    PROVE  WriteInFlight' \/ Coherent'
  <1>l. live # NoEntry /\ ~live.tainted /\ ~WriteInFlight => live.set = ActiveRows(live.asOf)
    BY DEF IInv, Coherent
  <1>t. TypeOK
    BY DEF IInv
  <1>1. ASSUME NEW p \in Procs, NEW c \in Clients, Request(p, c)
        PROVE  WriteInFlight' \/ Coherent'
    <2> DEFINE x == [at |-> "missed", client |-> c]
    <2>1. /\ proc' = [proc EXCEPT ![p] = x] /\ live' = live /\ rows' = rows
          /\ proc[p].at # "written"
      BY <1>1 DEF Request, Idle
    <2>2. x.at # "fill"
      OBVIOUS
    <2> HIDE DEF x
    <2> QED
      BY <1>l, <2>1, <2>2, QuietStep
  <1>2. ASSUME NEW p \in Procs, ReadLive(p)
        PROVE  WriteInFlight' \/ Coherent'
    <2> DEFINE x == IF live # NoEntry THEN Decided(proc[p].client, live.set)
                    ELSE [at |-> "query", client |-> proc[p].client]
    <2>1. /\ proc' = [proc EXCEPT ![p] = x] /\ live' = live /\ rows' = rows
          /\ proc[p].at # "written"
      BY <1>2 DEF ReadLive
    <2>2. x.at # "fill"
      BY DEF Decided
    <2> HIDE DEF x
    <2> QED
      BY <1>l, <2>1, <2>2, QuietStep
  <1>3. ASSUME NEW p \in Procs, QueryRows(p)
        PROVE  WriteInFlight' \/ Coherent'
    <2> DEFINE x == [at |-> "fill", client |-> proc[p].client, set |-> ActiveRows(now),
                     asOf |-> now, raced |-> FALSE]
    <2>1. /\ proc' = [proc EXCEPT ![p] = x] /\ live' = live /\ rows' = rows
          /\ proc[p].at # "written"
      BY <1>3 DEF QueryRows
    <2>2. x.set = ActiveRows(x.asOf)
      OBVIOUS
    <2> HIDE DEF x
    <2> QED
      BY <1>l, <2>1, <2>2, QuietStep
  <1>4. ASSUME NEW p \in Procs, StoreLive(p)
        PROVE  WriteInFlight' \/ Coherent'
    <2> DEFINE x == Decided(proc[p].client, proc[p].set)
    <2>1. /\ proc' = [proc EXCEPT ![p] = x] /\ rows' = rows
          /\ live' = [kind |-> "live", set |-> proc[p].set, asOf |-> proc[p].asOf,
                      tainted |-> proc[p].raced]
          /\ proc[p].at = "fill" /\ proc[p].at # "written"
      BY <1>4 DEF StoreLive
    <2>2. x.at # "fill"
      BY DEF Decided
    <2>3. ~live'.tainted /\ ~WriteInFlight => live'.set = ActiveRows(live'.asOf)
      BY <2>1 DEF IInv, Coherent
    <2> HIDE DEF x
    <2> QED
      BY <2>1, <2>2, <2>3, QuietStep
  <1>5. ASSUME NEW p \in Procs, StoreDecision(p)
        PROVE  WriteInFlight' \/ Coherent'
    <2>1. /\ proc' = [proc EXCEPT ![p] = Idle] /\ live' = live /\ rows' = rows
          /\ proc[p].at # "written" /\ Idle.at # "fill"
      BY <1>5 DEF StoreDecision, Idle
    <2> QED
      BY <1>l, <2>1, QuietStep
  <1>6. ASSUME NEW p \in Procs, Write(p)
        PROVE  WriteInFlight'
    <2>1. PICK id, newRows : Commit(p, id, newRows)
      BY <1>6 DEF Write, Create, SetAction, Trash, Upsert
    <2>2. proc'[p].at = "written"
      BY <1>t, <2>1 DEF Commit, TypeOK
    <2> QED
      BY <2>2 DEF WriteInFlight
  <1>7. ASSUME NEW p \in Procs, ForgetLive(p)
        PROVE  Coherent'
    BY <1>t, <1>7, RacedCoherent DEF ForgetLive
  <1>8. ASSUME NEW p \in Procs, NEW i \in DOMAIN rows, Revoke(p, i)
        PROVE  Coherent'
    BY <1>t, <1>8, RacedCoherent DEF Revoke, Idle
  <1>9. ASSUME NEW p \in Procs, Crash(p)
        PROVE  WriteInFlight' \/ Coherent'
    <2>1. CASE proc[p].at = "written"
      BY <1>t, <1>9, <2>1, RacedCoherent DEF Crash
    <2>2. CASE proc[p].at # "written"
      <3>1. /\ proc' = [proc EXCEPT ![p] = Idle] /\ live' = live /\ rows' = rows
            /\ Idle.at # "fill"
        BY <1>9, <2>2 DEF Crash, Idle
      <3> QED
        BY <1>l, <2>2, <3>1, QuietStep
    <2> QED
      BY <2>1, <2>2
  <1>10. CASE rows' = rows /\ live' = live /\ proc' = proc
    <2>1. CASE WriteInFlight
      BY <1>10, <2>1 DEF WriteInFlight
    <2>2. CASE Coherent
      BY <1>10, <2>2 DEF Coherent, ActiveRows, Active
    <2> QED
      BY <2>1, <2>2 DEF IInv
  <1> QED
    BY <1>1, <1>2, <1>3, <1>4, <1>5, <1>6, <1>7, <1>8, <1>9, <1>10 DEF Next, Tick, vars

THEOREM Invariance == Spec => []IInv
  <1>1. Init => IInv
    <2>1. Init => Coherent
      BY DEF Init, Coherent, Idle
    <2> QED
      BY <2>1, InitType DEF IInv
  <1>2. IInv /\ [Next]_vars => IInv'
    BY TypeStep, CoherentStep DEF IInv
  <1> QED
    BY <1>1, <1>2, PTL DEF Spec

\* Whatever the interleaving, the cached live set is what its query would have read
\* from the table as it is now, unless a write is about to forget it or it was marked
\* by an overtaken fill, a mass update or a writer's death.
THEOREM LiveSetStaysCoherent == Spec => []LiveSetCoherent
  <1>1. IInv => LiveSetCoherent
    BY DEF IInv, Coherent, LiveSetCoherent
  <1> QED
    BY Invariance, <1>1, PTL

-----------------------------------------------------------------------------
(* A settled write takes effect within one decision lifetime.              *)

\* No decision outlives its lifetime.
Timely == \A c \in Clients : decision[c] # NoEntry => decision[c].until <= now + Ttl

\* Row i is in no set of rows, and decides nothing beyond the lifetime of what had been
\* decided when it was settled.
Gone(i) ==
    /\ live # NoEntry => i \notin DOMAIN live.set
    /\ \A p \in Procs : /\ proc[p].at = "fill" => i \notin DOMAIN proc[p].set
                        /\ proc[p].at = "decided" => proc[p].entry # i
    /\ \A c \in Clients : decision[c] # NoEntry /\ decision[c].entry = i =>
          decision[c].until <= settled[i] + Ttl

\* Row i is in every set of rows as it is, and frees the clients it covers.
Granted(i) ==
    /\ live # NoEntry => i \in DOMAIN live.set /\ live.set[i] = rows[i]
    /\ \A p \in Procs :
          /\ proc[p].at = "fill" =>
                i \in DOMAIN proc[p].set /\ proc[p].set[i] = rows[i]
          /\ proc[p].at = "decided" /\ proc[p].client \in rows[i].covers =>
                proc[p].verdict = "allow"
    /\ \A c \in rows[i].covers :
          decision[c] # NoEntry /\ decision[c].verdict # "allow" =>
              decision[c].until <= settled[i] + Ttl

Settled(i) == i \in DOMAIN rows /\ settled[i] # NoTime
Removals == \A i \in DOMAIN rows : Settled(i) /\ rows[i].trashed => Gone(i)
Grants ==
    \A i \in DOMAIN rows :
        Settled(i) /\ rows[i].action = "allow" /\ Active(rows[i], now) => Granted(i)

\* What a mark leaves of fills and of the live set.
LEMMA RacedKeeps ==
    ASSUME TypeOK
    PROVE  /\ \A p \in Procs : proc[p].at = "fill" => Raced(proc)[p].set = proc[p].set
           /\ live = NoEntry => Taint(live) = NoEntry
           /\ live # NoEntry => Taint(live).set = live.set
  <1>1. ASSUME NEW p \in Procs, proc[p].at = "fill"
        PROVE  Raced(proc)[p].set = proc[p].set
    <2>1. proc[p] \in Filling
      BY <1>1, ProcAt
    <2>2. Raced(proc)[p] = [proc[p] EXCEPT !.raced = TRUE]
      BY <1>1 DEF Raced
    <2> QED
      BY <2>1, <2>2 DEF Filling
  <1>2. live # NoEntry => Taint(live).set = live.set
    BY DEF TypeOK, Taint, LiveSet
  <1> QED
    BY <1>1, <1>2 DEF Taint

\* A process that has stopped, or been marked, holds nothing new.
Holds(q) == proc'[q].at \in {"fill", "decided"} =>
                /\ proc'[q].at = proc[q].at
                /\ proc[q].at = "fill" => proc'[q].set = proc[q].set
                /\ proc[q].at = "decided" => proc'[q] = proc[q]

LEMMA Marked ==
    ASSUME TypeOK, NEW p \in Procs, NEW q \in Procs,
           \/ proc' = Raced(proc)
           \/ proc' = [Raced(proc) EXCEPT ![p] = Idle]
           \/ proc' = [proc EXCEPT ![p] = Idle]
    PROVE  Holds(q)
  <1>1. CASE proc'[q] = Idle
    BY <1>1 DEF Holds, Idle
  <1>2. CASE proc'[q] = Raced(proc)[q]
    BY <1>2, RacedType, RacedKeeps DEF Holds
  <1>3. CASE proc'[q] = proc[q]
    BY <1>3 DEF Holds
  <1> QED
    BY <1>1, <1>2, <1>3, RacedType DEF TypeOK

\* Where a live set, a fill, a verdict and a decision come from.
LiveFrom ==
    live' # NoEntry => \/ live # NoEntry /\ live'.set = live.set
                       \/ \E p \in Procs : proc[p].at = "fill" /\ live'.set = proc[p].set

FillFrom(q) ==
    proc'[q].at = "fill" => \/ proc[q].at = "fill" /\ proc'[q].set = proc[q].set
                            \/ proc'[q].set = ActiveRows(now)

VerdictFrom(q) ==
    proc'[q].at = "decided" =>
        \/ proc'[q] = proc[q]
        \/ live # NoEntry /\ proc[q].client \in Clients
              /\ proc'[q] = Decided(proc[q].client, live.set)
        \/ proc[q].at = "fill" /\ proc'[q] = Decided(proc[q].client, proc[q].set)

DecisionFrom(c) ==
    decision'[c] # NoEntry =>
        \/ decision'[c] = decision[c]
        \/ \E p \in Procs : /\ proc[p].at = "decided" /\ proc[p].client = c
                            /\ decision'[c].verdict = proc[p].verdict
                            /\ decision'[c].entry = proc[p].entry
                            /\ decision'[c].until = now + Ttl

LEMMA Sources ==
    ASSUME TypeOK, [Next]_vars
    PROVE  /\ now \in Nat /\ now' \in Nat /\ now <= now'
           /\ LiveFrom
           /\ \A q \in Procs : FillFrom(q) /\ VerdictFrom(q)
           /\ \A c \in Clients : DecisionFrom(c)
  <1>0. now \in Nat /\ proc \in [Procs -> ProcState]
    BY DEF TypeOK
  \* A process that is not reading goes on holding what it held, or nothing.
  <1>1. ASSUME \A q \in Procs : Holds(q) \/ proc'[q] = proc[q]
        PROVE  \A q \in Procs : FillFrom(q) /\ VerdictFrom(q)
    BY <1>1 DEF Holds, FillFrom, VerdictFrom
  <1>2. ASSUME NEW p \in Procs, NEW x, proc' = [proc EXCEPT ![p] = x],
               x.at \notin {"fill", "decided"}
        PROVE  \A q \in Procs : FillFrom(q) /\ VerdictFrom(q)
    BY <1>0, <1>2 DEF FillFrom, VerdictFrom
  <1>3. decision' = decision => \A c \in Clients : DecisionFrom(c)
    BY DEF DecisionFrom
  <1>4. live' = live \/ live' = NoEntry \/ live' = Taint(live) => LiveFrom
    BY RacedKeeps DEF LiveFrom
  <1>5. ASSUME NEW p \in Procs, NEW c \in Clients, Request(p, c)
        PROVE  /\ now' = now /\ LiveFrom
               /\ \A q \in Procs : FillFrom(q) /\ VerdictFrom(q)
               /\ \A d \in Clients : DecisionFrom(d)
    <2>1. PICK x : x = [at |-> "missed", client |-> c]
      OBVIOUS
    <2>2. /\ proc' = [proc EXCEPT ![p] = x] /\ x.at \notin {"fill", "decided"}
          /\ now' = now /\ live' = live /\ decision' = decision
      BY <1>5, <2>1 DEF Request
    <2> QED
      BY <1>2, <1>3, <1>4, <2>2
  <1>6. ASSUME NEW p \in Procs, ReadLive(p)
        PROVE  /\ now' = now /\ LiveFrom
               /\ \A q \in Procs : FillFrom(q) /\ VerdictFrom(q)
               /\ \A d \in Clients : DecisionFrom(d)
    <2>1. now' = now /\ live' = live /\ decision' = decision
      BY <1>6 DEF ReadLive
    <2>2. proc[p].client \in Clients
      BY <1>6, ProcAt DEF ReadLive, Looking
    <2>3. CASE live = NoEntry
      <3>1. PICK x : x = [at |-> "query", client |-> proc[p].client]
        OBVIOUS
      <3>2. proc' = [proc EXCEPT ![p] = x] /\ x.at \notin {"fill", "decided"}
        BY <1>6, <2>3, <3>1 DEF ReadLive
      <3> QED
        BY <1>2, <1>3, <1>4, <2>1, <3>2
    <2>4. CASE live # NoEntry
      <3>1. PICK x : x = Decided(proc[p].client, live.set)
        OBVIOUS
      <3>2. proc' = [proc EXCEPT ![p] = x] /\ x.at = "decided"
        BY <1>6, <2>4, <3>1 DEF ReadLive, Decided
      <3>3. ASSUME NEW q \in Procs
            PROVE  FillFrom(q) /\ VerdictFrom(q)
        BY <1>0, <2>2, <2>4, <3>1, <3>2 DEF FillFrom, VerdictFrom
      <3> QED
        BY <1>3, <1>4, <2>1, <3>3
    <2> QED
      BY <2>3, <2>4
  <1>7. ASSUME NEW p \in Procs, QueryRows(p)
        PROVE  /\ now' = now /\ LiveFrom
               /\ \A q \in Procs : FillFrom(q) /\ VerdictFrom(q)
               /\ \A d \in Clients : DecisionFrom(d)
    <2>1. PICK x : x = [at |-> "fill", client |-> proc[p].client, set |-> ActiveRows(now),
                        asOf |-> now, raced |-> FALSE]
      OBVIOUS
    <2>2. /\ proc' = [proc EXCEPT ![p] = x] /\ x.at = "fill" /\ x.set = ActiveRows(now)
          /\ now' = now /\ live' = live /\ decision' = decision
      BY <1>7, <2>1 DEF QueryRows
    <2>3. \A q \in Procs : FillFrom(q) /\ VerdictFrom(q)
      BY <1>0, <2>2 DEF FillFrom, VerdictFrom
    <2> QED
      BY <1>3, <1>4, <2>2, <2>3
  <1>8. ASSUME NEW p \in Procs, StoreLive(p)
        PROVE  /\ now' = now /\ LiveFrom
               /\ \A q \in Procs : FillFrom(q) /\ VerdictFrom(q)
               /\ \A d \in Clients : DecisionFrom(d)
    <2>1. PICK x : x = Decided(proc[p].client, proc[p].set)
      OBVIOUS
    <2>2. /\ proc' = [proc EXCEPT ![p] = x] /\ x.at = "decided" /\ proc[p].at = "fill"
          /\ now' = now /\ live'.set = proc[p].set /\ decision' = decision
      BY <1>8, <2>1 DEF StoreLive, Decided
    <2>3. \A q \in Procs : FillFrom(q) /\ VerdictFrom(q)
      BY <1>0, <2>1, <2>2 DEF FillFrom, VerdictFrom
    <2> QED
      BY <1>3, <2>2, <2>3 DEF LiveFrom
  <1>9. ASSUME NEW p \in Procs, StoreDecision(p)
        PROVE  /\ now' = now /\ LiveFrom
               /\ \A q \in Procs : FillFrom(q) /\ VerdictFrom(q)
               /\ \A d \in Clients : DecisionFrom(d)
    <2>1. PICK x : x = [kind |-> "decision", verdict |-> proc[p].verdict,
                        entry |-> proc[p].entry, until |-> now + Ttl]
      OBVIOUS
    <2>2. /\ proc' = [proc EXCEPT ![p] = Idle] /\ proc[p].at = "decided"
          /\ now' = now /\ live' = live
          /\ decision' = [decision EXCEPT ![proc[p].client] = x]
      BY <1>9, <2>1 DEF StoreDecision
    <2>3. Idle.at \notin {"fill", "decided"}
      BY DEF Idle
    <2>4. \A d \in Clients : d # proc[p].client => decision'[d] = decision[d]
      BY <2>2 DEF TypeOK
    <2>5. \A d \in Clients : d = proc[p].client => decision'[d] = x
      BY <2>2 DEF TypeOK
    <2>6. \A d \in Clients : DecisionFrom(d)
      BY <2>1, <2>2, <2>4, <2>5 DEF DecisionFrom
    <2> QED
      BY <1>2, <1>4, <2>2, <2>3, <2>6
  <1>10. ASSUME NEW p \in Procs, Write(p)
         PROVE  /\ now' = now /\ LiveFrom
                /\ \A q \in Procs : FillFrom(q) /\ VerdictFrom(q)
                /\ \A d \in Clients : DecisionFrom(d)
    <2>1. PICK id, newRows : Commit(p, id, newRows)
      BY <1>10 DEF Write, Create, SetAction, Trash, Upsert
    <2>2. PICK x : x = [at |-> "written", row |-> id]
      OBVIOUS
    <2>3. /\ proc' = [proc EXCEPT ![p] = x] /\ x.at \notin {"fill", "decided"}
          /\ now' = now /\ live' = live /\ decision' = decision
      BY <2>1, <2>2 DEF Commit
    <2> QED
      BY <1>2, <1>3, <1>4, <2>3
  <1>11. ASSUME NEW p \in Procs,
                ForgetLive(p) \/ Crash(p) \/ \E i \in DOMAIN rows : Revoke(p, i)
         PROVE  /\ now' = now /\ LiveFrom
                /\ \A q \in Procs : FillFrom(q) /\ VerdictFrom(q)
                /\ \A d \in Clients : DecisionFrom(d)
    <2>1. /\ now' = now /\ decision' = decision
          /\ live' = live \/ live' = NoEntry \/ live' = Taint(live)
          /\ \/ proc' = Raced(proc)
             \/ proc' = [Raced(proc) EXCEPT ![p] = Idle]
             \/ proc' = [proc EXCEPT ![p] = Idle]
      BY <1>11 DEF ForgetLive, Crash, Revoke
    <2>2. \A q \in Procs : Holds(q)
      BY <2>1, Marked
    <2> QED
      BY <1>1, <1>3, <1>4, <2>1, <2>2
  <1>12. CASE Tick
    BY <1>0, <1>1, <1>3, <1>4, <1>12 DEF Tick
  <1>13. CASE UNCHANGED vars
    BY <1>0, <1>1, <1>3, <1>4, <1>13 DEF vars
  <1> QED
    BY <1>0, <1>5, <1>6, <1>7, <1>8, <1>9, <1>10, <1>11, <1>12, <1>13 DEF Next

\* A settled row stands as it did, or has just been settled with nothing under way.
JustSettled(i) ==
    /\ rows' = rows /\ settled'[i] = now /\ now' = now
    /\ live' = NoEntry /\ decision' = decision
    /\ \A q \in Procs : proc'[q] = Idle

LEMMA SettledStep ==
    ASSUME TypeOK, [Next]_vars, NEW i, Settled(i)'
    PROVE  \/ Settled(i) /\ rows'[i] = rows[i] /\ settled'[i] = settled[i]
           \/ JustSettled(i)
  <1>0. /\ rows \in Seq(Row) /\ Len(rows) <= MaxRows /\ MaxRows \in Nat
        /\ settled \in [RowIds -> {NoTime} \cup 0..MaxTime]
        /\ proc \in [Procs -> ProcState]
    BY ParametersAssumption DEF TypeOK
  <1>1. i \in DOMAIN rows' /\ settled'[i] # NoTime
    BY DEF Settled
  <1>2. ASSUME UNCHANGED <<rows, settled>>
        PROVE  Settled(i) /\ rows'[i] = rows[i] /\ settled'[i] = settled[i]
    BY <1>1, <1>2 DEF Settled
  <1>3. ASSUME NEW id \in RowIds, settled' = [settled EXCEPT ![id] = NoTime],
               \A j \in DOMAIN rows' : j # id => j \in DOMAIN rows /\ rows'[j] = rows[j]
        PROVE  Settled(i) /\ rows'[i] = rows[i] /\ settled'[i] = settled[i]
    <2>1. i # id
      BY <1>0, <1>1, <1>3
    <2>2. settled'[i] = settled[i]
      BY <1>0, <1>3, <2>1
    <2> QED
      BY <1>1, <1>3, <2>1, <2>2 DEF Settled
  <1>4. ASSUME NEW j \in DOMAIN rows, NEW row, rows' = [rows EXCEPT ![j] = row],
               settled' = [settled EXCEPT ![j] = NoTime]
        PROVE  Settled(i) /\ rows'[i] = rows[i] /\ settled'[i] = settled[i]
    <2>1. j \in RowIds
      BY StoredRow
    <2>2. \A k \in DOMAIN rows' : k # j => k \in DOMAIN rows /\ rows'[k] = rows[k]
      BY <1>0, <1>4
    <2> QED
      BY <1>3, <1>4, <2>1, <2>2
  <1>5. ASSUME NEW p \in Procs, Write(p)
        PROVE  Settled(i) /\ rows'[i] = rows[i] /\ settled'[i] = settled[i]
    <2>1. ASSUME NEW e, Len(rows) < MaxRows, rows' = Append(rows, e),
                 settled' = [settled EXCEPT ![Len(rows) + 1] = NoTime]
          PROVE  Settled(i) /\ rows'[i] = rows[i] /\ settled'[i] = settled[i]
      <3>1. Len(rows) + 1 \in RowIds
        BY <1>0, <2>1 DEF RowIds
      <3>2. \A k \in DOMAIN rows' :
               k # Len(rows) + 1 => k \in DOMAIN rows /\ rows'[k] = rows[k]
        BY <1>0, <2>1
      <3> QED
        BY <1>3, <2>1, <3>1, <3>2
    <2>2. CASE \E action, covers, expires : Create(p, action, covers, expires)
      <3>1. PICK action, covers, expires : Create(p, action, covers, expires)
        BY <2>2
      <3> QED
        BY <2>1, <3>1 DEF Create, Commit
    <2>3. CASE \E j \in DOMAIN rows : \E action : SetAction(p, j, action)
      <3>0. PICK j \in DOMAIN rows : \E action : SetAction(p, j, action)
        BY <2>3
      <3>1. PICK action : SetAction(p, j, action)
        BY <3>0
      <3>2. rows' = [rows EXCEPT ![j] = [rows[j] EXCEPT !.action = action]]
        BY <3>1 DEF SetAction, Commit
      <3> QED
        BY <1>4, <3>1, <3>2 DEF SetAction, Commit
    <2>4. CASE \E j \in DOMAIN rows : Trash(p, j)
      <3>1. PICK j \in DOMAIN rows : Trash(p, j)
        BY <2>4
      <3>2. rows' = [rows EXCEPT ![j] = [rows[j] EXCEPT !.trashed = TRUE]]
        BY <3>1 DEF Trash, Commit
      <3> QED
        BY <1>4, <3>1, <3>2 DEF Trash, Commit
    <2>5. CASE \E j \in DOMAIN rows : \E action, expires : Upsert(p, j, action, expires)
      <3>0. PICK j \in DOMAIN rows : \E action, expires : Upsert(p, j, action, expires)
        BY <2>5
      <3>1. PICK action, expires : Upsert(p, j, action, expires)
        BY <3>0
      <3>2. rows' = [rows EXCEPT ![j] =
                       [rows[j] EXCEPT !.action = action, !.expires = expires]]
        <4>1. rows[j] \in Row
          BY StoredRow
        <4> QED
          BY <3>1, <4>1, <1>0 DEF Upsert, Commit, Row
      <3> QED
        BY <1>4, <3>1, <3>2 DEF Upsert, Commit
    <2> QED
      BY <1>5, <2>2, <2>3, <2>4, <2>5 DEF Write
  <1>6. ASSUME NEW p \in Procs, NEW j \in DOMAIN rows, Revoke(p, j)
        PROVE  Settled(i) /\ rows'[i] = rows[i] /\ settled'[i] = settled[i]
    <2>1. rows' = [rows EXCEPT ![j] = [rows[j] EXCEPT !.expires = now]]
      BY <1>6 DEF Revoke
    <2> QED
      BY <1>4, <1>6, <2>1 DEF Revoke
  <1>7. ASSUME NEW p \in Procs, ForgetLive(p)
        PROVE  \/ Settled(i) /\ rows'[i] = rows[i] /\ settled'[i] = settled[i]
               \/ JustSettled(i)
    <2>1. /\ rows' = rows /\ live' = NoEntry /\ now' = now /\ decision' = decision
          /\ proc' = [Raced(proc) EXCEPT ![p] = Idle]
          /\ proc[p].at = "written"
      BY <1>7 DEF ForgetLive
    <2>2. PICK t : t = IF \A q \in Procs \ {p} : proc[q] = Idle THEN now ELSE NoTime
      OBVIOUS
    <2>3. settled' = [settled EXCEPT ![proc[p].row] = t]
      BY <1>7, <2>2 DEF ForgetLive
    <2>4. CASE i # proc[p].row
      BY <1>0, <1>1, <2>1, <2>3, <2>4 DEF Settled
    <2>5. CASE i = proc[p].row
      <3>1. proc[p].row \in RowIds
        BY <2>1, ProcAt DEF Forgetting
      <3>2. settled'[i] = t
        BY <1>0, <2>3, <2>5, <3>1
      <3>3. t = now /\ \A q \in Procs \ {p} : proc[q] = Idle
        BY <1>1, <2>2, <3>2
      <3>4. \A q \in Procs \ {p} : Raced(proc)[q] = Idle
        BY <3>3, RacedType DEF Idle
      <3>5. \A q \in Procs : proc'[q] = Idle
        BY <2>1, <3>4, RacedType
      <3> QED
        BY <2>1, <3>2, <3>3, <3>5 DEF JustSettled
    <2> QED
      BY <2>4, <2>5
  <1> QED
    BY <1>2, <1>5, <1>6, <1>7
    DEF Next, vars, Request, ReadLive, QueryRows, StoreLive, StoreDecision, Crash, Tick

LEMMA TimelyStep ==
    ASSUME TypeOK, Timely, [Next]_vars
    PROVE  Timely'
  <1> SUFFICES ASSUME NEW c \in Clients, decision'[c] # NoEntry
               PROVE  decision'[c].until <= now' + Ttl
    BY DEF Timely
  <1>1. now \in Nat /\ now' \in Nat /\ now <= now' /\ Ttl \in Nat
    BY Sources, ParametersAssumption
  <1>2. CASE decision'[c] = decision[c]
    <2>1. decision[c].until \in Nat /\ decision[c].until <= now + Ttl
      BY <1>2 DEF Timely, TypeOK, CachedDecision
    <2> QED
      BY <1>1, <1>2, <2>1
  <1>3. CASE decision'[c].until = now + Ttl
    BY <1>1, <1>3
  <1>4. DecisionFrom(c)
    BY Sources
  <1> QED
    BY <1>2, <1>3, <1>4 DEF DecisionFrom

\* Nothing that is read after a removal was settled can bring the row back.
LEMMA GoneStep ==
    ASSUME TypeOK, [Next]_vars, NEW i \in DOMAIN rows, rows[i].trashed, Gone(i),
           settled'[i] = settled[i]
    PROVE  Gone(i)'
  <1>1. /\ LiveFrom
        /\ \A q \in Procs : FillFrom(q) /\ VerdictFrom(q)
        /\ \A c \in Clients : DecisionFrom(c)
    BY Sources
  <1>2. i \in RowIds /\ i # NoRow
    BY StoredRow DEF RowIds
  <1>3. i \notin DOMAIN ActiveRows(now)
    BY DEF ActiveRows, Active
  <1>4. live' # NoEntry => i \notin DOMAIN live'.set
    BY <1>1 DEF LiveFrom, Gone
  <1>5. ASSUME NEW q \in Procs, proc'[q].at = "fill"
        PROVE  i \notin DOMAIN proc'[q].set
    BY <1>1, <1>3, <1>5 DEF FillFrom, Gone
  <1>6. ASSUME NEW q \in Procs, proc'[q].at = "decided"
        PROVE  proc'[q].entry # i
    <2>1. CASE proc'[q] = proc[q]
      BY <1>6, <2>1 DEF Gone
    <2>2. CASE /\ live # NoEntry /\ proc[q].client \in Clients
               /\ proc'[q] = Decided(proc[q].client, live.set)
      <3>1. live.set \in RowSets
        BY <2>2 DEF TypeOK, LiveSet
      <3> QED
        BY <1>2, <2>2, <3>1, DecidedByEntry DEF Gone
    <2>3. CASE proc[q].at = "fill" /\ proc'[q] = Decided(proc[q].client, proc[q].set)
      <3>1. proc[q].set \in RowSets /\ proc[q].client \in Clients
        BY <2>3, ProcAt DEF Filling
      <3> QED
        BY <1>2, <2>3, <3>1, DecidedByEntry DEF Gone
    <2> QED
      BY <1>1, <1>6, <2>1, <2>2, <2>3 DEF VerdictFrom
  <1>7. ASSUME NEW c \in Clients, decision'[c] # NoEntry, decision'[c].entry = i
        PROVE  decision'[c].until <= settled'[i] + Ttl
    BY <1>1, <1>7 DEF DecisionFrom, Gone
  <1> QED
    BY <1>4, <1>5, <1>6, <1>7 DEF Gone

\* A set that has an allow row frees the clients the row covers.
LEMMA AllowDecides ==
    ASSUME NEW set \in RowSets, NEW i \in DOMAIN set, set[i].action = "allow",
           NEW c \in Clients, c \in set[i].covers
    PROVE  Decided(c, set).verdict = "allow"
  <1>1. i \in Matching(set, c, "allow")
    BY DEF Matching
  <1> QED
    BY <1>1, DecidedByEntry DEF Tier

LEMMA GrantedStep ==
    ASSUME TypeOK, [Next]_vars, NEW i \in DOMAIN rows, rows[i].action = "allow",
           Active(rows[i], now), Granted(i), rows'[i] = rows[i], settled'[i] = settled[i]
    PROVE  Granted(i)'
  <1>1. /\ LiveFrom
        /\ \A q \in Procs : FillFrom(q) /\ VerdictFrom(q)
        /\ \A c \in Clients : DecisionFrom(c)
    BY Sources
  <1>2. rows[i].covers \subseteq Clients
    BY StoredRow DEF Row
  <1>3. i \in DOMAIN ActiveRows(now) /\ ActiveRows(now)[i] = rows[i]
    BY DEF ActiveRows
  <1>4. live' # NoEntry => i \in DOMAIN live'.set /\ live'.set[i] = rows[i]
    BY <1>1 DEF LiveFrom, Granted
  <1>5. ASSUME NEW q \in Procs, proc'[q].at = "fill"
        PROVE  i \in DOMAIN proc'[q].set /\ proc'[q].set[i] = rows[i]
    BY <1>1, <1>3, <1>5 DEF FillFrom, Granted
  <1>6. ASSUME NEW q \in Procs, proc'[q].at = "decided", proc'[q].client \in rows[i].covers
        PROVE  proc'[q].verdict = "allow"
    <2>1. CASE proc'[q] = proc[q]
      BY <1>6, <2>1 DEF Granted
    <2>2. CASE /\ live # NoEntry /\ proc[q].client \in Clients
               /\ proc'[q] = Decided(proc[q].client, live.set)
      <3>1. live.set \in RowSets
        BY <2>2 DEF TypeOK, LiveSet
      <3>2. proc'[q].client = proc[q].client
        BY <2>2, <3>1, DecidedByEntry
      <3> QED
        BY <1>6, <2>2, <3>1, <3>2, AllowDecides DEF Granted
    <2>3. CASE proc[q].at = "fill" /\ proc'[q] = Decided(proc[q].client, proc[q].set)
      <3>1. proc[q].set \in RowSets /\ proc[q].client \in Clients
        BY <2>3, ProcAt DEF Filling
      <3>2. proc'[q].client = proc[q].client
        BY <2>3, <3>1, DecidedByEntry
      <3> QED
        BY <1>6, <2>3, <3>1, <3>2, AllowDecides DEF Granted
    <2> QED
      BY <1>1, <1>6, <2>1, <2>2, <2>3 DEF VerdictFrom
  <1>7. ASSUME NEW c \in rows[i].covers, decision'[c] # NoEntry, decision'[c].verdict # "allow"
        PROVE  decision'[c].until <= settled'[i] + Ttl
    <2>1. c \in Clients
      BY <1>2
    <2> QED
      BY <1>1, <1>7, <2>1 DEF DecisionFrom, Granted
  <1> QED
    BY <1>4, <1>5, <1>6, <1>7 DEF Granted

\* What has just been settled is in no set and outlived by no decision.
LEMMA SettlesAll ==
    ASSUME TypeOK, Timely, NEW i \in DOMAIN rows, JustSettled(i)
    PROVE  Gone(i)' /\ Granted(i)'
  <1>1. rows[i].covers \subseteq Clients
    BY StoredRow DEF Row
  <1>2. \A q \in Procs : proc'[q].at \notin {"fill", "decided"}
    BY DEF JustSettled, Idle
  <1>3. \A c \in Clients : decision'[c] # NoEntry => decision'[c].until <= settled'[i] + Ttl
    BY DEF JustSettled, Timely
  <1> QED
    BY <1>1, <1>2, <1>3 DEF JustSettled, Gone, Granted

Effective == Timely /\ Removals /\ Grants

LEMMA EffectiveStep ==
    ASSUME TypeOK, Effective, [Next]_vars
    PROVE  Effective'
  <1>1. Timely'
    BY TimelyStep DEF Effective
  <1>2. ASSUME NEW i, Settled(i)', rows'[i].trashed
        PROVE  Gone(i)'
    <2>1. CASE Settled(i) /\ rows'[i] = rows[i] /\ settled'[i] = settled[i]
      BY <1>2, <2>1, GoneStep DEF Effective, Removals, Settled
    <2>2. CASE JustSettled(i)
      <3>1. i \in DOMAIN rows
        BY <1>2, <2>2 DEF Settled, JustSettled
      <3> QED
        BY <2>2, <3>1, SettlesAll DEF Effective
    <2> QED
      BY <1>2, <2>1, <2>2, SettledStep
  <1>3. ASSUME NEW i, Settled(i)', rows'[i].action = "allow", Active(rows'[i], now')
        PROVE  Granted(i)'
    <2>1. CASE Settled(i) /\ rows'[i] = rows[i] /\ settled'[i] = settled[i]
      <3>1. i \in DOMAIN rows
        BY <2>1 DEF Settled
      <3>2. Active(rows[i], now)
        <4>1. rows[i].expires \in Int
          BY <3>1, StoredRow, ParametersAssumption DEF Row, Never
        <4>2. now \in Nat /\ now' \in Nat /\ now <= now'
          BY Sources
        <4> QED
          BY <1>3, <2>1, <4>1, <4>2 DEF Active
      <3> QED
        BY <1>3, <2>1, <3>1, <3>2, GrantedStep DEF Effective, Grants
    <2>2. CASE JustSettled(i)
      <3>1. i \in DOMAIN rows
        BY <1>3, <2>2 DEF Settled, JustSettled
      <3> QED
        BY <2>2, <3>1, SettlesAll DEF Effective
    <2> QED
      BY <1>3, <2>1, <2>2, SettledStep
  <1> QED
    BY <1>1, <1>2, <1>3 DEF Effective, Removals, Grants

LEMMA EffectiveAlways == Spec => [](TypeOK /\ Effective)
  <1>1. Init => TypeOK /\ Effective
    <2>1. Init => Effective
      BY DEF Init, Effective, Timely, Removals, Grants
    <2> QED
      BY <2>1, InitType
  <1>2. TypeOK /\ Effective /\ [Next]_vars => (TypeOK /\ Effective)'
    BY TypeStep, EffectiveStep
  <1> QED
    BY <1>1, <1>2, PTL DEF Spec

\* For any number of processes and clients: what was deleted with no request under way is
\* not in the live set again, and decides nothing once the decision lifetime has passed.
THEOREM RemovalTakesEffectAlways == Spec => []RemovalTakesEffect
  <1>1. TypeOK /\ Effective => RemovalTakesEffect
    <2> SUFFICES ASSUME TypeOK, Effective, NEW i \in DOMAIN rows,
                        rows[i].trashed, settled[i] # NoTime
                 PROVE  /\ live # NoEntry => i \notin DOMAIN live.set
                        /\ now >= settled[i] + Ttl =>
                              \A c \in Clients : Fresh(decision[c]) => decision[c].entry # i
      BY DEF RemovalTakesEffect
    <2>1. Gone(i)
      BY DEF Effective, Removals, Settled
    <2>2. now \in Int /\ Ttl \in Int /\ settled[i] \in Int
      BY StoredRow, ParametersAssumption DEF TypeOK, NoTime
    <2>3. ASSUME now >= settled[i] + Ttl, NEW c \in Clients, Fresh(decision[c])
          PROVE  decision[c].entry # i
      <3>1. decision[c] # NoEntry /\ decision[c].until > now /\ decision[c].until \in Int
        BY <2>3 DEF Fresh, TypeOK, CachedDecision
      <3> QED
        BY <2>1, <2>2, <2>3, <3>1 DEF Gone
    <2> QED
      BY <2>1, <2>3 DEF Gone
  <1> QED
    BY <1>1, EffectiveAlways, PTL

\* For any number of processes and clients: an allow row announced with no request under
\* way frees the clients it covers once the decision lifetime has passed.
THEOREM AllowTakesEffectAlways == Spec => []AllowTakesEffect
  <1>1. TypeOK /\ Effective => AllowTakesEffect
    <2> SUFFICES ASSUME TypeOK, Effective, NEW i \in DOMAIN rows,
                        settled[i] # NoTime, now >= settled[i] + Ttl,
                        rows[i].action = "allow", Active(rows[i], now),
                        NEW c \in rows[i].covers, Fresh(decision[c])
                 PROVE  decision[c].verdict = "allow"
      BY DEF AllowTakesEffect
    <2>1. Granted(i)
      BY DEF Effective, Grants, Settled
    <2>2. now \in Int /\ Ttl \in Int /\ settled[i] \in Int /\ c \in Clients
      BY StoredRow, ParametersAssumption DEF TypeOK, NoTime, Row
    <2>3. decision[c] # NoEntry /\ decision[c].until > now /\ decision[c].until \in Int
      BY <2>2 DEF Fresh, TypeOK, CachedDecision
    <2> QED
      BY <2>1, <2>2, <2>3 DEF Granted
  <1> QED
    BY <1>1, EffectiveAlways, PTL
=============================================================================
