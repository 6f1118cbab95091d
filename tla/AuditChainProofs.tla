-------------------------- MODULE AuditChainProofs --------------------------
(***************************************************************************)
(* Proofs about the audit log of AuditChain, for any processes, contents   *)
(* and bounds: the type invariant, the three safety invariants and the     *)
(* action property that its TLC run checks on a small instance.            *)
(*                                                                         *)
(* What makes them inductive is that every HMAC in sight, in the table, in *)
(* a process or behind a record that was handed on, is the HMAC of a row   *)
(* AuditLogger::log inserted (IInv's TypeOK), and that such a row's HMAC   *)
(* is chained to the prev_hash it was inserted with (Chained).             *)
(***************************************************************************)
EXTENDS AuditChain, SequenceTheorems, TLAPS

\* HMACs are chains of contents, NoHash the empty one.
HashesAreChains == KnownHashes \subseteq Seq(Contents)

\* Every row was inserted with the HMAC of its prev_hash and its content.
Chained == \A r \in inserted : r.hmac = compute(r.prev_hash, r.content)

\* Without edits the visible rows carry the HMACs they were inserted with.
Unedited ==
    edits = 0 =>
        \A i \in DOMAIN log : \E r \in inserted :
            r.hmac = log[i].hmac /\ r.prev_hash = log[i].prev_hash

\* Without edits and overlaps at most one process is between read and insert, it
\* holds the HMAC of the newest row, and every row is chained to the one above it.
Serial ==
    edits = 0 /\ ~overlapped =>
        /\ \A v, w \in Writers : Reading(v) /\ Reading(w) => v = w
        /\ \A w \in Writers : Reading(w) => pend[w].prev = TailHash
        /\ \A i \in DOMAIN log : log[i].prev_hash = expectedPrev(i)

IInv == TypeOK /\ HashesAreChains /\ Chained /\ Unedited /\ Serial

-----------------------------------------------------------------------------
(* Facts about chains and tables.                                          *)

\* HmacChain::compute is injective ...
LEMMA ComputeInjective ==
    ASSUME NEW h \in Seq(Contents), NEW g \in Seq(Contents),
           NEW c \in Contents, NEW d \in Contents, compute(h, c) = compute(g, d)
    PROVE  h = g /\ c = d
  <1> DEFINE x == compute(h, c)
             y == compute(g, d)
  <1>1. /\ x \in Seq(Contents) /\ Len(x) = Len(h) + 1 /\ x[Len(h) + 1] = c
        /\ \A i \in 1..Len(h) : x[i] = h[i]
    BY DEF compute
  <1>2. /\ y \in Seq(Contents) /\ Len(y) = Len(g) + 1 /\ y[Len(g) + 1] = d
        /\ \A i \in 1..Len(g) : y[i] = g[i]
    BY DEF compute
  <1>3. Len(h) = Len(g)
    BY <1>1, <1>2
  <1>4. \A i \in 1..Len(h) : h[i] = g[i]
    BY <1>1, <1>2, <1>3
  <1> QED
    BY <1>1, <1>2, <1>3, <1>4

\* ... and no HMAC is chained to itself.
LEMMA ComputeGrows ==
    ASSUME NEW h \in Seq(Contents), NEW c \in Contents
    PROVE  compute(h, c) \in Seq(Contents) /\ compute(h, c) # h /\ compute(h, c) # NoHash
  <1>1. compute(h, c) \in Seq(Contents) /\ Len(compute(h, c)) = Len(h) + 1
    BY DEF compute
  <1> QED
    BY <1>1 DEF NoHash

\* The rows left when row i is removed.
LEMMA RemoveAtRows ==
    ASSUME NEW S, NEW s \in Seq(S), NEW i \in DOMAIN s
    PROVE  /\ RemoveAt(s, i) \in Seq(S)
           /\ Len(RemoveAt(s, i)) = Len(s) - 1
           /\ \A j \in 1..(Len(s) - 1) :
                 RemoveAt(s, i)[j] = IF j < i THEN s[j] ELSE s[j + 1]
  <1> DEFINE a == SubSeq(s, 1, i - 1)
             b == SubSeq(s, i + 1, Len(s))
  <1>1. i \in 1..Len(s) /\ \A j \in 1..Len(s) : s[j] \in S
    OBVIOUS
  <1>2. a \in Seq(S) /\ Len(a) = i - 1 /\ \A j \in 1..(i - 1) : a[j] = s[j]
    <2>1. \A j \in 1..(i - 1) : s[j] \in S
      BY <1>1
    <2> QED
      BY <1>1, <2>1, SubSeqProperties
  <1>3. b \in Seq(S) /\ Len(b) = Len(s) - i
        /\ \A j \in 1..(Len(s) - i) : b[j] = s[i + j]
    <2>1. \A j \in (i + 1)..Len(s) : s[j] \in S
      BY <1>1
    <2>2. /\ b \in Seq(S)
          /\ Len(b) = IF i + 1 <= Len(s) THEN Len(s) - (i + 1) + 1 ELSE 0
          /\ \A j \in 1..(Len(s) - (i + 1) + 1) : b[j] = s[(i + 1) + j - 1]
      <3>1. i + 1 \in Int /\ Len(s) \in Int
        OBVIOUS
      <3> HIDE DEF b
      <3>2. b = SubSeq(s, i + 1, Len(s))
        BY DEF b
      <3> QED
        BY <2>1, <3>1, <3>2, SubSeqProperties
    <2> HIDE DEF b
    <2> QED
      BY <1>1, <2>2
  <1>4. RemoveAt(s, i) = a \o b
    BY DEF RemoveAt
  <1> HIDE DEF a, b
  <1>5. /\ a \o b \in Seq(S)
        /\ Len(a \o b) = Len(a) + Len(b)
        /\ \A j \in 1..(Len(a) + Len(b)) :
              (a \o b)[j] = IF j <= Len(a) THEN a[j] ELSE b[j - Len(a)]
    BY <1>2, <1>3, ConcatProperties
  <1>6. ASSUME NEW j \in 1..(Len(s) - 1)
        PROVE  (a \o b)[j] = IF j < i THEN s[j] ELSE s[j + 1]
    <2>1. CASE j < i
      <3>1. /\ Len(a) = i - 1 /\ j <= Len(a) /\ j \in 1..(Len(a) + Len(b))
            /\ j \in 1..(i - 1)
        BY <1>1, <1>2, <1>3, <2>1
      <3>2. (a \o b)[j] = a[j]
        BY <1>5, <3>1
      <3>3. a[j] = s[j]
        BY <1>2, <3>1
      <3> QED
        BY <2>1, <3>2, <3>3
    <2>2. CASE ~(j < i)
      <3> DEFINE k == j - (i - 1)
      <3>1. k \in 1..(Len(s) - i) /\ i + k = j + 1
        BY <1>1, <2>2
      <3>2. (a \o b)[j] = b[k]
        <4>1. Len(a) = i - 1 /\ ~(j <= Len(a)) /\ j \in 1..(Len(a) + Len(b))
          BY <1>1, <1>2, <1>3, <2>2
        <4> QED
          BY <1>5, <4>1
      <3>3. b[k] = s[j + 1]
        <4> HIDE DEF k
        <4> QED
          BY <1>3, <3>1
      <3> QED
        BY <2>2, <3>2, <3>3
    <2> QED
      BY <2>1, <2>2
  <1>7. Len(a) + Len(b) = Len(s) - 1
    BY <1>1, <1>2, <1>3
  <1> QED
    BY <1>4, <1>5, <1>6, <1>7

-----------------------------------------------------------------------------
(* The inductive invariant.                                                *)

LEMMA InitInvariant == Init => IInv
  <1> SUFFICES ASSUME Init PROVE IInv
    OBVIOUS
  <1>1. TypeOK
    <2>1. log \in Seq(Row) /\ inserted \subseteq Row /\ outbox \subseteq inserted
      BY DEF Init
    <2>2. pend \in [Writers -> Pending]
      BY DEF Init, Pending
    <2>3. inserts \in 0..MaxInserts /\ edits \in 0..MaxEdits
      BY BoundsAssumption DEF Init
    <2>4. overlapped \in BOOLEAN
      BY DEF Init
    <2> QED
      BY <2>1, <2>2, <2>3, <2>4 DEF TypeOK
  <1>2. HashesAreChains /\ Chained
    <2>1. inserted = {} /\ KnownHashes = {<< >>}
      BY DEF Init, KnownHashes, NoHash
    <2>2. << >> \in Seq(Contents)
      OBVIOUS
    <2> QED
      BY <2>1, <2>2 DEF HashesAreChains, Chained
  <1>3. DOMAIN log = {} /\ \A w \in Writers : ~Reading(w)
    BY DEF Init, Reading, Idle
  <1>4. Unedited /\ Serial
    BY <1>3 DEF Unedited, Serial
  <1> QED
    BY <1>1, <1>2, <1>4 DEF IInv

\* What log() reads is the HMAC of an inserted row, or none.
LEMMA TailIsKnown ==
    ASSUME TypeOK
    PROVE  TailHash \in KnownHashes
  <1>1. CASE log = << >>
    BY <1>1 DEF TailHash, KnownHashes
  <1>2. CASE log # << >>
    <2>1. log[Len(log)] \in Row
      BY <1>2 DEF TypeOK
    <2> QED
      BY <1>2, <2>1 DEF TailHash, Row
  <1> QED
    BY <1>1, <1>2

\* A step only adds HMACs, so what was typed stays typed.
LEMMA RowsGrow ==
    ASSUME inserted \subseteq inserted'
    PROVE  /\ KnownHashes \subseteq KnownHashes'
           /\ Row \subseteq Row'
           /\ Pending \subseteq Pending'
  <1>1. KnownHashes \subseteq KnownHashes'
    BY DEF KnownHashes
  <1> QED
    BY <1>1 DEF Row, Pending

LEMMA SameRows ==
    ASSUME inserted' = inserted
    PROVE  KnownHashes' = KnownHashes /\ Row' = Row /\ Pending' = Pending
  BY DEF KnownHashes, Row, Pending

\* AuditLogger::log inserts a row that is typed and chained.
LEMMA NewRowIsChained ==
    ASSUME IInv, NEW w \in Writers, LogCreate(w)
    PROVE  /\ NewRow(w) \in Row'
           /\ NewRow(w).hmac = compute(NewRow(w).prev_hash, NewRow(w).content)
           /\ NewRow(w).hmac \in Seq(Contents)
           /\ KnownHashes' \subseteq Seq(Contents)
           /\ StoredRow(w) \in Row'
           /\ StoredRow(w).prev_hash = pend[w].prev
           /\ StoredRow(w).prev_hash = NewRow(w).prev_hash
           /\ StoredRow(w).hmac = NewRow(w).hmac
  <1>1. pend[w].prev \in KnownHashes /\ pend[w].content \in Contents
    BY DEF IInv, TypeOK, LogCreate, Reading, Pending, Idle
  <1>2. inserted' = inserted \cup {NewRow(w)}
    BY DEF LogCreate
  <1>3. NewRow(w).hmac \in KnownHashes' /\ pend[w].prev \in KnownHashes'
    BY <1>1, <1>2 DEF KnownHashes
  <1>4. NewRow(w) \in Row'
    BY <1>1, <1>3 DEF NewRow, Row
  <1>5. NewRow(w).hmac \in Seq(Contents)
    <2>1. pend[w].prev \in Seq(Contents)
      BY <1>1 DEF IInv, HashesAreChains
    <2> QED
      BY <1>1, <2>1, ComputeGrows DEF NewRow
  <1>6. KnownHashes' \subseteq Seq(Contents)
    BY <1>2, <1>5 DEF IInv, HashesAreChains, KnownHashes
  <1>7. ReadBack[pend[w].content] \in Contents
    BY <1>1, ReadBackAssumption
  <1>8. /\ StoredRow(w) \in Row'
        /\ StoredRow(w).prev_hash = NewRow(w).prev_hash /\ StoredRow(w).hmac = NewRow(w).hmac
    BY <1>4, <1>7 DEF StoredRow, Row
  <1> QED
    BY <1>4, <1>5, <1>6, <1>8 DEF NewRow

LEMMA TypeStep ==
    ASSUME IInv, [Next]_vars
    PROVE  TypeOK'
  <1> USE DEF IInv, TypeOK
  <1>1. ASSUME NEW w \in Writers, NEW content \in Records, LogRead(w, content)
        PROVE  TypeOK'
    <2>1. Row' = Row /\ Pending' = Pending
      BY <1>1, SameRows DEF LogRead
    <2>2. [at |-> "read", prev |-> TailHash, content |-> content] \in Pending
      BY TailIsKnown, RecordsAssumption DEF Pending
    <2>3. pend' \in [Writers -> Pending']
      BY <1>1, <2>1, <2>2 DEF LogRead
    <2>4. overlapped' \in BOOLEAN
      BY <1>1 DEF LogRead
    <2> QED
      BY <1>1, <2>1, <2>3, <2>4 DEF LogRead
  <1>2. ASSUME NEW w \in Writers, LogCreate(w)
        PROVE  TypeOK'
    <2>1. /\ NewRow(w) \in Row' /\ StoredRow(w) \in Row' /\ NewRow(w) \in inserted'
          /\ inserted \subseteq inserted' /\ inserted' = inserted \cup {NewRow(w)}
      BY <1>2, NewRowIsChained DEF LogCreate
    <2>2. Row \subseteq Row' /\ Pending \subseteq Pending'
      BY <2>1, RowsGrow
    <2>3. log' \in Seq(Row')
      <3>1. log \in Seq(Row')
        BY <2>2
      <3> QED
        BY <1>2, <2>1, <3>1, AppendProperties DEF LogCreate
    <2>4. inserted' \subseteq Row' /\ outbox' \subseteq inserted'
      BY <1>2, <2>1, <2>2 DEF LogCreate
    <2>5. inserts' \in 0..MaxInserts
      BY <1>2, BoundsAssumption DEF LogCreate
    <2>6. pend' \in [Writers -> Pending']
      <3>1. [at |-> "created", row |-> NewRow(w)] \in Pending'
        BY <2>1 DEF Pending
      <3> QED
        BY <1>2, <2>2, <3>1 DEF LogCreate
    <2> QED
      BY <1>2, <2>3, <2>4, <2>5, <2>6 DEF LogCreate
  <1>3. ASSUME NEW w \in Writers, LogForward(w)
        PROVE  TypeOK'
    <2>1. Row' = Row /\ Pending' = Pending
      BY <1>3, SameRows DEF LogForward
    <2>2. pend[w].row \in inserted
      BY <1>3 DEF LogForward, Pending, Idle
    <2>3. pend' \in [Writers -> Pending']
      BY <1>3, <2>1 DEF LogForward, Pending
    <2> QED
      BY <1>3, <2>1, <2>2, <2>3 DEF LogForward
  <1>4. ASSUME NEW w \in Writers, Crash(w)
        PROVE  TypeOK'
    <2>1. Row' = Row /\ Pending' = Pending
      BY <1>4, SameRows DEF Crash
    <2>2. pend' \in [Writers -> Pending']
      BY <1>4, <2>1 DEF Crash, Pending
    <2> QED
      BY <1>4, <2>1, <2>2 DEF Crash
  <1>5. ASSUME NEW i \in DOMAIN log, NEW row \in Row, EditRow(i, row)
        PROVE  TypeOK'
    <2>1. Row' = Row /\ Pending' = Pending
      BY <1>5, SameRows DEF EditRow
    <2>2. log' \in Seq(Row)
      <3>1. [row EXCEPT !.content = ReadBack[row.content]] \in Row
        BY ReadBackAssumption DEF Row
      <3> QED
        BY <1>5, <3>1 DEF EditRow
    <2>3. edits' \in 0..MaxEdits
      BY <1>5, BoundsAssumption DEF EditRow
    <2> QED
      BY <1>5, <2>1, <2>2, <2>3 DEF EditRow
  <1>6. ASSUME NEW i \in DOMAIN log, RemoveRow(i)
        PROVE  TypeOK'
    <2>1. Row' = Row /\ Pending' = Pending
      BY <1>6, SameRows DEF RemoveRow
    <2>2. log' \in Seq(Row)
      BY <1>6, RemoveAtRows DEF RemoveRow
    <2>3. edits' \in 0..MaxEdits
      BY <1>6, BoundsAssumption DEF RemoveRow
    <2> QED
      BY <1>6, <2>1, <2>2, <2>3 DEF RemoveRow
  <1>7. CASE UNCHANGED vars
    <2>1. Row' = Row /\ Pending' = Pending
      BY <1>7, SameRows DEF vars
    <2> QED
      BY <1>7, <2>1 DEF vars
  <1> QED
    BY <1>1, <1>2, <1>3, <1>4, <1>5, <1>6, <1>7 DEF Next

LEMMA HashesStep ==
    ASSUME IInv, [Next]_vars
    PROVE  HashesAreChains' /\ Chained'
  <1>1. ASSUME NEW w \in Writers, LogCreate(w)
        PROVE  HashesAreChains' /\ Chained'
    <2>1. HashesAreChains'
      BY <1>1, NewRowIsChained DEF HashesAreChains
    <2>2. ASSUME NEW r \in inserted'
          PROVE  r.hmac = compute(r.prev_hash, r.content)
      BY <1>1, <2>2, NewRowIsChained DEF IInv, Chained, LogCreate
    <2> QED
      BY <2>1, <2>2 DEF Chained, compute
  <1>2. CASE inserted' = inserted
    BY <1>2 DEF IInv, HashesAreChains, Chained, KnownHashes, compute
  <1>3. CASE UNCHANGED vars
    BY <1>2, <1>3 DEF vars
  <1> QED
    BY <1>1, <1>2, <1>3 DEF Next, LogRead, LogForward, Crash, EditRow, RemoveRow

LEMMA UneditedStep ==
    ASSUME IInv, [Next]_vars
    PROVE  Unedited'
  <1>1. ASSUME NEW w \in Writers, LogCreate(w), edits = 0, NEW i \in DOMAIN log'
        PROVE  \E r \in inserted' : r.hmac = log'[i].hmac /\ r.prev_hash = log'[i].prev_hash
    <2>1. log \in Seq(Row)
      BY DEF IInv, TypeOK
    <2>2. CASE i = Len(log) + 1
      <3>1. log'[i] = StoredRow(w) /\ NewRow(w) \in inserted'
        BY <1>1, <2>1, <2>2 DEF LogCreate
      <3> QED
        BY <1>1, <3>1, NewRowIsChained
    <2>3. CASE i # Len(log) + 1
      <3>1. i \in DOMAIN log /\ log'[i] = log[i]
        BY <1>1, <2>1, <2>3 DEF LogCreate
      <3>2. PICK r \in inserted : r.hmac = log[i].hmac /\ r.prev_hash = log[i].prev_hash
        BY <1>1, <3>1 DEF IInv, Unedited
      <3> QED
        BY <1>1, <3>1, <3>2 DEF LogCreate
    <2> QED
      BY <2>2, <2>3
  <1>2. ASSUME NEW w \in Writers, LogCreate(w)
        PROVE  Unedited'
    BY <1>1, <1>2 DEF Unedited, LogCreate
  <1>3. CASE log' = log /\ inserted' = inserted /\ edits' = edits
    BY <1>3 DEF IInv, Unedited
  <1>4. CASE edits' = edits + 1
    BY <1>4 DEF IInv, TypeOK, Unedited
  <1>5. CASE UNCHANGED vars
    BY <1>3, <1>5 DEF vars
  <1> QED
    BY <1>2, <1>3, <1>4, <1>5 DEF Next, LogRead, LogForward, Crash, EditRow, RemoveRow

LEMMA SerialStep ==
    ASSUME IInv, [Next]_vars
    PROVE  Serial'
  <1> SUFFICES ASSUME edits' = 0, ~overlapped'
               PROVE  /\ \A v, w \in Writers : Reading(v)' /\ Reading(w)' => v = w
                      /\ \A w \in Writers : Reading(w)' => pend'[w].prev = TailHash'
                      /\ \A i \in DOMAIN log' : log'[i].prev_hash = expectedPrev(i)'
    BY DEF Serial
  <1> DEFINE Goal == /\ \A v, w \in Writers : Reading(v)' /\ Reading(w)' => v = w
                     /\ \A w \in Writers : Reading(w)' => pend'[w].prev = TailHash'
                     /\ \A i \in DOMAIN log' : log'[i].prev_hash = expectedPrev(i)'
  <1>a. log \in Seq(Row) /\ edits \in Nat
    BY BoundsAssumption DEF IInv, TypeOK
  <1>1. ASSUME NEW w \in Writers, NEW content \in Records, LogRead(w, content)
        PROVE  Goal
    <2>1. edits = 0 /\ ~overlapped /\ \A v \in Writers : ~Reading(v)
      BY <1>1 DEF LogRead
    <2>2. TailHash' = TailHash /\ \A i : expectedPrev(i)' = expectedPrev(i)
      BY <1>1 DEF LogRead, TailHash, expectedPrev
    <2>3. \A v \in Writers : Reading(v)' => v = w
      BY <1>1, <2>1 DEF LogRead, Reading
    <2> QED
      BY <1>1, <2>1, <2>2, <2>3 DEF IInv, Serial, LogRead, Reading
  <1>2. ASSUME NEW w \in Writers, LogCreate(w)
        PROVE  Goal
    <2>1. edits = 0 /\ ~overlapped
      BY <1>2 DEF LogCreate
    <2>2. Reading(w) /\ pend[w].prev = TailHash
      BY <1>2, <2>1 DEF IInv, Serial, LogCreate
    <2>3. \A v \in Writers : ~Reading(v)'
      BY <1>2, <2>1 DEF IInv, TypeOK, Serial, LogCreate, Reading
    <2>4. log' = Append(log, StoredRow(w)) /\ Len(log') = Len(log) + 1 /\ DOMAIN log' = 1..(Len(log) + 1)
      BY <1>a, <1>2 DEF LogCreate
    <2>5. ASSUME NEW i \in DOMAIN log'
          PROVE  log'[i].prev_hash = expectedPrev(i)'
      <3>1. CASE i = Len(log) + 1
        <4>1. log'[i] = StoredRow(w)
          BY <1>a, <2>4, <3>1
        <4>2. expectedPrev(i)' = TailHash
          BY <1>a, <2>4, <3>1 DEF expectedPrev, TailHash
        <4> QED
          BY <1>2, <2>2, <4>1, <4>2, NewRowIsChained
      <3>2. CASE i # Len(log) + 1
        <4>1. i \in DOMAIN log /\ log'[i] = log[i]
          BY <1>a, <2>4, <3>2
        <4>2. i # 1 => log'[i - 1] = log[i - 1]
          BY <1>a, <2>4, <4>1
        <4>3. expectedPrev(i)' = expectedPrev(i)
          BY <4>2 DEF expectedPrev
        <4> QED
          BY <2>1, <4>1, <4>3 DEF IInv, Serial
      <3> QED
        BY <3>1, <3>2
    <2> QED
      BY <2>3, <2>5
  <1>3. ASSUME NEW w \in Writers, LogForward(w) \/ Crash(w)
        PROVE  Goal
    <2>1. /\ edits = 0 /\ ~overlapped /\ log' = log
          /\ pend' = [pend EXCEPT ![w] = Idle]
      BY <1>3 DEF LogForward, Crash
    <2>2. \A v \in Writers : Reading(v)' => Reading(v) /\ pend'[v] = pend[v]
      BY <2>1 DEF IInv, TypeOK, Reading, Idle
    <2>3. TailHash' = TailHash /\ \A i : expectedPrev(i)' = expectedPrev(i)
      BY <2>1 DEF TailHash, expectedPrev
    <2> QED
      BY <2>1, <2>2, <2>3 DEF IInv, Serial
  <1>4. CASE edits' = edits + 1
    BY <1>a, <1>4
  <1>5. CASE UNCHANGED vars
    <2>1. edits = 0 /\ ~overlapped /\ log' = log /\ pend' = pend
      BY <1>5 DEF vars
    <2> QED
      BY <2>1 DEF IInv, Serial, Reading, TailHash, expectedPrev
  <1> QED
    BY <1>1, <1>2, <1>3, <1>4, <1>5 DEF Next, EditRow, RemoveRow

\* The inductive invariant holds in every state.
THEOREM Invariance == Spec => []IInv
  <1>1. IInv /\ [Next]_vars => IInv'
    BY TypeStep, HashesStep, UneditedStep, SerialStep DEF IInv
  <1> QED
    BY InitInvariant, <1>1, PTL DEF Spec

\* Every variable stays in its type: in particular every HMAC in the table, in a
\* process and at Central is the HMAC of a row AuditLogger::log inserted.
THEOREM TypeCorrect == Spec => []TypeOK
  <1>1. IInv => TypeOK
    BY DEF IInv
  <1> QED
    BY Invariance, <1>1, PTL

-----------------------------------------------------------------------------
(* What verify() is worth.                                                 *)

\* The stored HMAC above any row is a chain.
LEMMA ExpectedPrevIsChain ==
    ASSUME IInv, NEW i \in DOMAIN log
    PROVE  expectedPrev(i) \in Seq(Contents)
  <1>1. CASE i = 1
    BY <1>1 DEF expectedPrev, NoHash
  <1>2. CASE i # 1
    <2>1. i - 1 \in DOMAIN log
      BY <1>2 DEF IInv, TypeOK
    <2>2. log[i - 1] \in Row
      BY <2>1 DEF IInv, TypeOK
    <2> QED
      BY <1>2, <2>2 DEF expectedPrev, Row, IInv, HashesAreChains
  <1> QED
    BY <1>1, <1>2

\* A clean verify() vouches for every visible row: AuditLogger::log inserted it, with
\* this content, on top of the row it stands on, whatever was done to the table.
THEOREM CleanLogIsGenuineAlways == Spec => []CleanLogIsGenuine
  <1>1. IInv => CleanLogIsGenuine
    <2> SUFFICES ASSUME IInv, verify = {}, NEW i \in DOMAIN log
                 PROVE  [content |-> log[i].content, prev_hash |-> expectedPrev(i),
                         hmac |-> log[i].hmac] \in inserted
      BY DEF CleanLogIsGenuine
    <2>1. log[i] \in Row
      BY DEF IInv, TypeOK
    <2>2. log[i].hmac = compute(expectedPrev(i), log[i].content)
      BY DEF verify
    <2>3. expectedPrev(i) \in Seq(Contents)
      BY ExpectedPrevIsChain
    <2>4. log[i].hmac # NoHash
      BY <2>1, <2>2, <2>3, ComputeGrows DEF Row
    <2>5. PICK r \in inserted : log[i].hmac = r.hmac
      BY <2>1, <2>4 DEF Row, KnownHashes
    <2>6. r \in Row /\ r.hmac = compute(r.prev_hash, r.content)
      BY DEF IInv, TypeOK, Chained
    <2>7. r.prev_hash = expectedPrev(i) /\ r.content = log[i].content
      <3>1. r.prev_hash \in Seq(Contents) /\ r.content \in Contents
        BY <2>6 DEF Row, IInv, HashesAreChains
      <3>2. log[i].content \in Contents
        BY <2>1 DEF Row
      <3>3. compute(r.prev_hash, r.content) = compute(expectedPrev(i), log[i].content)
        BY <2>2, <2>5, <2>6
      <3> QED
        BY <2>3, <3>1, <3>2, <3>3, ComputeInjective
    <2>8. r = [content |-> r.content, prev_hash |-> r.prev_hash, hmac |-> r.hmac]
      BY <2>6 DEF Row
    <2> QED
      BY <2>5, <2>7, <2>8
  <1> QED
    BY Invariance, <1>1, PTL

\* In a table nobody edited verify() reports exactly the forks and the rows that do
\* not read back as they were written.
THEOREM ForksAreReported == Spec => []VerifyReportsForks
  <1>1. IInv => VerifyReportsForks
    <2> SUFFICES ASSUME IInv, edits = 0, NEW i \in DOMAIN log
                 PROVE  compute(expectedPrev(i), log[i].content) # log[i].hmac
                            <=> log[i].prev_hash # expectedPrev(i) \/ ~ReadsBack(i)
      BY DEF VerifyReportsForks, verify
    <2>1. log[i].content \in Contents /\ expectedPrev(i) \in Seq(Contents)
      <3>1. log[i] \in Row
        BY DEF IInv, TypeOK
      <3>2. log[i].content \in Contents
        BY <3>1 DEF Row
      <3> QED
        BY <3>2, ExpectedPrevIsChain DEF IInv
    <2>2. ASSUME NEW r \in inserted
          PROVE  /\ r.hmac = compute(r.prev_hash, r.content)
                 /\ r.prev_hash \in Seq(Contents) /\ r.content \in Contents
      BY DEF IInv, TypeOK, Chained, HashesAreChains, Row
    <2>3. PICK r \in inserted : r.hmac = log[i].hmac /\ r.prev_hash = log[i].prev_hash
      BY DEF IInv, Unedited
    <2>4. ASSUME compute(expectedPrev(i), log[i].content) = log[i].hmac
          PROVE  log[i].prev_hash = expectedPrev(i) /\ ReadsBack(i)
      <3>1. compute(expectedPrev(i), log[i].content) = compute(r.prev_hash, r.content)
        BY <2>2, <2>3, <2>4
      <3>2. r.prev_hash = expectedPrev(i) /\ r.content = log[i].content
        BY <2>1, <2>2, <3>1, ComputeInjective
      <3> QED
        BY <2>3, <3>2 DEF ReadsBack
    <2>5. ASSUME log[i].prev_hash = expectedPrev(i), ReadsBack(i)
          PROVE  compute(expectedPrev(i), log[i].content) = log[i].hmac
      <3>1. PICK t \in inserted : t.hmac = log[i].hmac /\ t.content = log[i].content
        BY <2>5 DEF ReadsBack
      <3>2. compute(t.prev_hash, t.content) = compute(r.prev_hash, r.content)
        BY <2>2, <2>3, <3>1
      <3>3. t.prev_hash = r.prev_hash
        BY <2>2, <3>2, ComputeInjective
      <3> QED
        BY <2>2, <2>3, <2>5, <3>1, <3>3
    <2> QED
      BY <2>4, <2>5
  <1> QED
    BY Invariance, <1>1, PTL

\* verify() raises no alarm over a table nobody edited and writers that took turns,
\* but over rows that do not read back as they were written.
THEOREM SerialLogIsClean == Spec => []NoFalseAlarm
  <1>1. IInv /\ VerifyReportsForks => NoFalseAlarm
    BY DEF NoFalseAlarm, VerifyReportsForks, IInv, Serial
  <1> QED
    BY Invariance, ForksAreReported, <1>1, PTL

-----------------------------------------------------------------------------
(* Two clean tables, one the other with a row edited or removed.           *)

ChainRow == [content : Contents, prev_hash : Seq(Contents), hmac : Seq(Contents)]
Above(t, i) == IF i = 1 THEN NoHash ELSE t[i - 1].hmac
Sound(t) == \A i \in DOMAIN t : t[i].hmac = compute(Above(t, i), t[i].content)

LEMMA SoundRow ==
    ASSUME NEW t \in Seq(ChainRow), Sound(t), NEW i \in DOMAIN t
    PROVE  /\ t[i].hmac = compute(Above(t, i), t[i].content)
           /\ t[i].content \in Contents
           /\ t[i].hmac \in Seq(Contents)
           /\ Above(t, i) \in Seq(Contents)
  <1>1. t[i] \in ChainRow
    OBVIOUS
  <1>2. CASE i = 1
    BY <1>1, <1>2 DEF Sound, Above, NoHash, ChainRow
  <1>3. CASE i # 1
    <2>1. i - 1 \in DOMAIN t
      BY <1>3
    <2>2. t[i - 1] \in ChainRow
      BY <2>1
    <2> QED
      BY <1>1, <1>3, <2>2 DEF Sound, Above, ChainRow
  <1> QED
    BY <1>2, <1>3

\* An edit that leaves the table clean changed no row but the last.
LEMMA EditKeepsHistory ==
    ASSUME NEW s \in Seq(ChainRow), NEW t \in Seq(ChainRow), Sound(s), Sound(t), NEW e \in DOMAIN s,
           DOMAIN t = DOMAIN s, \A j \in DOMAIN s : j # e => t[j] = s[j],
           NEW i \in 1..(Len(s) - 1)
    PROVE  SameRecord(s[i], t[i])
  <1>1. i \in DOMAIN s /\ i + 1 \in DOMAIN s /\ i \in DOMAIN t /\ i + 1 \in DOMAIN t
    OBVIOUS
  <1>2. CASE i # e
    BY <1>1, <1>2 DEF SameRecord
  <1>3. CASE i = e
    <2>1. t[i + 1] = s[i + 1]
      BY <1>1, <1>3
    <2>2. Above(t, i + 1) = t[i].hmac /\ Above(s, i + 1) = s[i].hmac
      BY <1>1 DEF Above
    <2>3. Above(t, i) = Above(s, i)
      <3>1. i # 1 => i - 1 \in DOMAIN s /\ i - 1 # e
        BY <1>1, <1>3
      <3> QED
        BY <3>1 DEF Above
    <2>4. compute(s[i].hmac, s[i + 1].content) = compute(t[i].hmac, s[i + 1].content)
      BY <1>1, <2>1, <2>2, SoundRow
    <2>5. s[i].hmac = t[i].hmac
      <3>1. /\ s[i].hmac \in Seq(Contents) /\ t[i].hmac \in Seq(Contents)
            /\ s[i + 1].content \in Contents
        BY <1>1, SoundRow
      <3> QED
        BY <2>4, <3>1, ComputeInjective
    <2>6. compute(Above(s, i), s[i].content) = compute(Above(s, i), t[i].content)
      BY <1>1, <2>3, <2>5, SoundRow
    <2>7. s[i].content = t[i].content
      <3>1. /\ Above(s, i) \in Seq(Contents)
            /\ s[i].content \in Contents /\ t[i].content \in Contents
        BY <1>1, SoundRow
      <3> QED
        BY <2>6, <3>1, ComputeInjective
    <2> QED
      BY <2>5, <2>7 DEF SameRecord
  <1> QED
    BY <1>2, <1>3

\* A removal that leaves the table clean took the last row.
LEMMA RemovalKeepsHistory ==
    ASSUME NEW s \in Seq(ChainRow), NEW t \in Seq(ChainRow), Sound(s), Sound(t), NEW e \in DOMAIN s,
           Len(t) = Len(s) - 1,
           \A j \in 1..(Len(s) - 1) : t[j] = IF j < e THEN s[j] ELSE s[j + 1],
           NEW i \in 1..(Len(s) - 1)
    PROVE  SameRecord(s[i], t[i])
  <1>1. i \in DOMAIN s /\ e \in 1..Len(s) /\ Len(s) \in Nat /\ DOMAIN t = 1..(Len(s) - 1)
    OBVIOUS
  <1>2. CASE e = Len(s)
    BY <1>1, <1>2 DEF SameRecord
  <1>3. CASE e # Len(s)
    <2>1. e \in DOMAIN t /\ e + 1 \in DOMAIN s /\ t[e] = s[e + 1]
      BY <1>1, <1>3
    <2>2. Above(s, e + 1) = s[e].hmac
      BY <1>1 DEF Above
    <2>3. Above(t, e) = Above(s, e)
      <3>1. e # 1 => e - 1 \in 1..(Len(s) - 1) /\ e - 1 < e
        BY <1>1
      <3> QED
        BY <3>1 DEF Above
    <2>4. compute(s[e].hmac, s[e + 1].content) = compute(Above(s, e), s[e + 1].content)
      BY <2>1, <2>2, <2>3, SoundRow
    <2>5. /\ s[e].hmac \in Seq(Contents) /\ Above(s, e) \in Seq(Contents)
          /\ s[e].content \in Contents /\ s[e + 1].content \in Contents
          /\ s[e].hmac = compute(Above(s, e), s[e].content)
      BY <2>1, SoundRow
    <2>6. s[e].hmac = Above(s, e)
      BY <2>4, <2>5, ComputeInjective
    <2> QED
      BY <2>5, <2>6, ComputeGrows
  <1> QED
    BY <1>2, <1>3

\* From one clean table to the next, only the newest row can have been edited or removed:
\* verify() after every change pins all the others.
THEOREM OnlyTheNewestCanGoAlways == Spec => OnlyTheNewestCanGo
  <1> DEFINE Step ==
        verify = {} /\ verify' = {} =>
          \A i \in DOMAIN log :
              \/ i = Len(log)
              \/ i \in DOMAIN log' /\ SameRecord(log[i], log'[i])
  <1>1. ASSUME IInv, IInv', [Next]_vars
        PROVE  [Step]_vars
    <2> SUFFICES ASSUME verify = {}, verify' = {}
                 PROVE  \A i \in DOMAIN log :
                           \/ i = Len(log)
                           \/ i \in DOMAIN log' /\ SameRecord(log[i], log'[i])
      OBVIOUS
    <2>1. log \in Seq(ChainRow) /\ log' \in Seq(ChainRow)
      <3>1. Row \subseteq ChainRow
        BY <1>1 DEF IInv, HashesAreChains, Row, ChainRow
      <3>2. Row' \subseteq ChainRow
        BY <1>1 DEF IInv, HashesAreChains, Row, ChainRow
      <3> QED
        BY <1>1, <3>1, <3>2 DEF IInv, TypeOK
    <2>2. Sound(log) /\ Sound(log')
      BY DEF verify, Sound, Above, expectedPrev, compute
    <2>3. /\ Len(log) \in Nat /\ DOMAIN log = 1..Len(log)
          /\ Len(log') \in Nat /\ DOMAIN log' = 1..Len(log')
      BY <2>1
    <2>4. ASSUME NEW w \in Writers, LogCreate(w)
          PROVE  Step
      <3>1. Len(log') = Len(log) + 1 /\ \A i \in 1..Len(log) : log'[i] = log[i]
        BY <2>1, <2>4 DEF LogCreate
      <3> QED
        BY <2>3, <3>1 DEF SameRecord
    <2>5. ASSUME NEW e \in DOMAIN log, NEW row \in Row, EditRow(e, row)
          PROVE  Step
      <3>1. /\ DOMAIN log' = DOMAIN log /\ Len(log') = Len(log)
            /\ \A j \in DOMAIN log : j # e => log'[j] = log[j]
        BY <2>1, <2>3, <2>5 DEF EditRow
      <3>2. \A i \in 1..(Len(log) - 1) : SameRecord(log[i], log'[i])
        BY <2>1, <2>2, <2>5, <3>1, EditKeepsHistory
      <3> QED
        BY <2>3, <3>1, <3>2
    <2>6. ASSUME NEW e \in DOMAIN log, RemoveRow(e)
          PROVE  Step
      <3>1. /\ Len(log') = Len(log) - 1
            /\ \A j \in 1..(Len(log) - 1) :
                  log'[j] = IF j < e THEN log[j] ELSE log[j + 1]
        BY <2>1, <2>6, RemoveAtRows DEF RemoveRow
      <3>2. \A i \in 1..(Len(log) - 1) : SameRecord(log[i], log'[i])
        BY <2>1, <2>2, <2>6, <3>1, RemovalKeepsHistory
      <3> QED
        BY <2>3, <3>1, <3>2
    <2>7. CASE log' = log
      BY <2>3, <2>7 DEF SameRecord
    <2> QED
      BY <1>1, <2>4, <2>5, <2>6, <2>7 DEF Next, LogRead, LogForward, Crash, vars
  <1>2. Spec => [][Step]_vars
    BY Invariance, <1>1, PTL DEF Spec
  <1> QED
    BY <1>2 DEF OnlyTheNewestCanGo
=============================================================================
