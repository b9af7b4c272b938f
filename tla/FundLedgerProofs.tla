-------------------------- MODULE FundLedgerProofs --------------------------
(***************************************************************************)
(* Theorems about FundLedger, for any set of sessions, any amounts and     *)
(* requests of any length.  FundInv is the inductive invariant of the      *)
(* concurrent specification; SerialInv strengthens it for requests issued  *)
(* one at a time, and carries the refinement of Ledger.                    *)
(***************************************************************************)
EXTENDS FundLedger, TLAPS

(* Who holds the fund row, and what remains of each session's batch. *)
Holding(s) ==
    /\ pc[s] \in {"idle", "insert"} => staged[s] = <<>> /\ holder # s
    /\ pc[s] \in {"apply", "commit"} => holder = s
    /\ pc[s] = "select" /\ holder = s => staged[s] # <<>>
    /\ pc[s] = "commit" => staged[s] # <<>>
    /\ pc[s] \in {"select", "insert", "lock", "apply"} => todo[s] # <<>>
    /\ staged[s] # <<>> => holder = s

(* Before its first movement a session remembers some committed balance.   *)
Remembered(s) ==
    staged[s] = <<>> /\ pc[s] \in {"lock", "apply"} =>
        \E j \in 0 .. Len(ledger) : seen[s] = Snapshot(ledger, j)

(* The first row of a batch starts from some committed balance, the others *)
(* from the row before; the object in memory is where the last row ended.  *)
Staging(s) ==
    /\ staged[s] # <<>> =>
         /\ seen[s] = staged[s][Len(staged[s])].balance_after
         /\ \E j \in 0 .. Len(ledger) :
                staged[s][1].balance_after = Snapshot(ledger, j) + Signed(staged[s][1])
    /\ \A i \in 2 .. Len(staged[s]) :
           staged[s][i].balance_after = staged[s][i - 1].balance_after + Signed(staged[s][i])

(* Nothing a session has in memory is negative. *)
Solvent(s) ==
    /\ seen[s] >= 0
    /\ \A i \in 1 .. Len(staged[s]) : staged[s][i].balance_after >= 0

FundInv ==
    /\ TypeOK
    /\ BalanceIsLastSnapshot
    /\ SnapshotsGrounded
    /\ NeverOverdrawn
    /\ \A s \in Session : Holding(s) /\ Remembered(s) /\ Staging(s) /\ Solvent(s)

-----------------------------------------------------------------------------

(* A request is a non-empty sequence of movements. *)
LEMMA RequestType == Request \subseteq Seq(Movement) \ {<<>>}
<1>1. \A a \in Amount : /\ CreditMaintenancePayment(a) \in Movement
                       /\ DebitForExpense(a) \in Movement
                       /\ ExpenseRefund(a) \in Movement
                       /\ \A t \in Direction : ManualTransaction(t, a) \in Movement
  BY AmountAssumption DEF CreditMaintenancePayment, DebitForExpense, ExpenseRefund,
       ManualTransaction, Movement, Direction, Source
<1>2. \A m \in Movement : <<m>> \in Seq(Movement) \ {<<>>}
  OBVIOUS
<1>3. RecurringRun \subseteq Seq(Movement) \ {<<>>}
  <2> SUFFICES ASSUME NEW n \in 1 .. MaxBatch,
                      NEW r \in [1 .. n -> {DebitForExpense(a) : a \in Amount}]
               PROVE  r \in Seq(Movement) /\ r # <<>>
    BY DEF RecurringRun
  <2>1. n \in Nat /\ n >= 1
    BY BoundAssumption
  <2>2. r \in [1 .. n -> Movement]
    BY <1>1
  <2>3. r \in Seq(Movement) /\ Len(r) = n
    BY <2>1, <2>2
  <2> QED BY <2>1, <2>3
<1>4. ASSUME NEW r \in Request, r \notin RecurringRun
      PROVE  \E m \in Movement : r = <<m>>
  <2>1. \/ \E a \in Amount : r = <<CreditMaintenancePayment(a)>>
        \/ \E t \in Direction, a \in Amount : r = <<ManualTransaction(t, a)>>
        \/ \E a \in Amount : r = <<ExpenseRefund(a)>>
    BY <1>4 DEF Request, CreditRequest
  <2> QED BY <2>1, <1>1
<1> QED BY <1>2, <1>3, <1>4

(* The webhook only ever credits a payment. *)
LEMMA CreditRequestType == CreditRequest \subseteq Request
BY DEF Request

(* The row _apply writes for a movement. *)
LEMMA RowOfType ==
    ASSUME NEW m \in Movement, NEW b \in Int
    PROVE  /\ RowOf(m, b) \in Row
           /\ RowOf(m, b).balance_after = b
           /\ RowOf(m, b).amount = m.amount
           /\ Signed(RowOf(m, b)) = Signed(m)
           /\ Signed(m) \in Int
BY DEF RowOf, Row, Movement, Direction, Signed

(* A movement that passes the checks leaves a balance that is not negative. *)
LEMMA AcceptableSolvent ==
    ASSUME NEW m \in Movement, NEW b \in Int, b >= 0, Acceptable(m, b)
    PROVE  b + Signed(m) >= 0
BY DEF Acceptable, Movement, Direction, Signed

(* Earlier snapshots do not change when rows are appended. *)
LEMMA SnapshotStable ==
    ASSUME NEW a \in Seq(Row), NEW b \in Seq(Row)
    PROVE  /\ a \o b \in Seq(Row)
           /\ Len(a \o b) = Len(a) + Len(b)
           /\ \A i \in 1 .. Len(a) : (a \o b)[i] = a[i]
           /\ \A i \in 1 .. Len(b) : (a \o b)[Len(a) + i] = b[i]
           /\ \A i \in 0 .. Len(a) : Snapshot(a \o b, i) = Snapshot(a, i)
           /\ \A i \in 1 .. Len(b) : Snapshot(a \o b, Len(a) + i) = b[i].balance_after
BY DEF Snapshot

-----------------------------------------------------------------------------

LEMMA FundInvInit == FundInit => FundInv
<1> SUFFICES ASSUME FundInit PROVE FundInv
  OBVIOUS
<1> USE SessionAssumption DEF FundInit, Init
<1>1. TypeOK
  <2>1. <<>> \in Seq(Row) /\ <<>> \in Seq(Movement)
    OBVIOUS
  <2>2. balance \in Int /\ ledger \in Seq(Row)
    BY <2>1
  <2>3. holder \in Session \cup {NoSession} /\ pc \in [Session -> PC]
    BY DEF PC
  <2>4. created \in BOOLEAN
    OBVIOUS
  <2>5. /\ todo \in [Session -> Seq(Movement)]
        /\ seen \in [Session -> Int]
        /\ staged \in [Session -> Seq(Row)]
    BY <2>1
  <2> QED BY <2>2, <2>3, <2>4, <2>5 DEF TypeOK
<1>2. BalanceIsLastSnapshot /\ SnapshotsGrounded /\ NeverOverdrawn
  BY DEF BalanceIsLastSnapshot, SnapshotsGrounded, NeverOverdrawn, Snapshot
<1>3. \A s \in Session : Holding(s) /\ Remembered(s) /\ Staging(s) /\ Solvent(s)
  BY DEF Holding, Remembered, Staging, Solvent
<1> QED BY <1>1, <1>2, <1>3 DEF FundInv

(* A session that gives up leaves everything but its own memory alone. *)
LEMMA RollbackStep ==
    ASSUME FundInv, NEW s \in Session, Rollback(s)
    PROVE  FundInv'
<1> USE DEF FundInv, Rollback, HolderAfter
<1>1. TypeOK'
  BY DEF TypeOK, PC
<1>2. (BalanceIsLastSnapshot /\ SnapshotsGrounded /\ NeverOverdrawn)'
  BY DEF BalanceIsLastSnapshot, SnapshotsGrounded, NeverOverdrawn
<1>3. ASSUME NEW t \in Session
      PROVE  (Holding(t) /\ Remembered(t) /\ Staging(t) /\ Solvent(t))'
  <2>1. CASE t = s
    BY <2>1, SessionAssumption DEF TypeOK, Holding, Remembered, Staging, Solvent
  <2>2. CASE t # s
    <3>1. Holding(t)'
      BY <2>2, SessionAssumption DEF TypeOK, Holding
    <3>2. (Remembered(t) /\ Staging(t) /\ Solvent(t))'
      BY <2>2 DEF TypeOK, Remembered, Staging, Solvent
    <3> QED BY <3>1, <3>2
  <2> QED BY <2>1, <2>2
<1> QED BY <1>1, <1>2, <1>3

LEMMA BeginStep ==
    ASSUME FundInv, NEW s \in Session, Begin(s)
    PROVE  FundInv'
<1>0. PICK r \in Request : todo' = [todo EXCEPT ![s] = r]
  BY CreditRequestType DEF Begin
<1> USE DEF FundInv, Begin
<1>1. TypeOK'
  BY <1>0, RequestType DEF TypeOK, PC
<1>2. (BalanceIsLastSnapshot /\ SnapshotsGrounded /\ NeverOverdrawn)'
  BY DEF BalanceIsLastSnapshot, SnapshotsGrounded, NeverOverdrawn
<1>3. ASSUME NEW t \in Session
      PROVE  (Holding(t) /\ Remembered(t) /\ Staging(t) /\ Solvent(t))'
  <2>1. Holding(t)'
    BY <1>0, RequestType DEF TypeOK, Holding
  <2>2. (Remembered(t) /\ Staging(t) /\ Solvent(t))'
    BY DEF TypeOK, Remembered, Staging, Solvent
  <2> QED BY <2>1, <2>2
<1> QED BY <1>1, <1>2, <1>3

LEMMA SelectStep ==
    ASSUME FundInv, NEW s \in Session, SelectFund(s)
    PROVE  FundInv'
<1> USE DEF FundInv, SelectFund, Readable
<1>1. TypeOK'
  BY DEF TypeOK, PC
<1>2. (BalanceIsLastSnapshot /\ SnapshotsGrounded /\ NeverOverdrawn)'
  BY DEF BalanceIsLastSnapshot, SnapshotsGrounded, NeverOverdrawn
<1>3. ASSUME NEW t \in Session
      PROVE  (Holding(t) /\ Remembered(t) /\ Staging(t) /\ Solvent(t))'
  <2>1. Holding(t)'
    BY DEF TypeOK, Holding
  <2>2. Remembered(t)'
    <3>1. CASE t = s
      <4>1. Len(ledger) \in 0 .. Len(ledger)
        BY DEF TypeOK
      <4> QED BY <3>1, <4>1 DEF TypeOK, Remembered, Holding, BalanceIsLastSnapshot
    <3>2. CASE t # s
      BY <3>2 DEF TypeOK, Remembered
    <3> QED BY <3>1, <3>2
  <2>3. (Staging(t) /\ Solvent(t))'
    BY DEF TypeOK, Staging, Solvent, NeverOverdrawn, Holding
  <2> QED BY <2>1, <2>2, <2>3
<1> QED BY <1>1, <1>2, <1>3

LEMMA InsertStep ==
    ASSUME FundInv, NEW s \in Session, InsertFund(s)
    PROVE  FundInv'
<1> USE DEF FundInv, InsertFund
<1>1. TypeOK'
  BY DEF TypeOK, PC
<1>2. (BalanceIsLastSnapshot /\ SnapshotsGrounded /\ NeverOverdrawn)'
  BY DEF BalanceIsLastSnapshot, SnapshotsGrounded, NeverOverdrawn
<1>3. ASSUME NEW t \in Session
      PROVE  (Holding(t) /\ Remembered(t) /\ Staging(t) /\ Solvent(t))'
  <2>1. Holding(t)'
    BY SessionAssumption DEF TypeOK, Holding
  <2>2. Remembered(t)'
    <3>1. 0 \in 0 .. Len(ledger) /\ Snapshot(ledger, 0) = 0
      BY DEF TypeOK, Snapshot
    <3>2. ledger' = ledger /\ seen'[s] = 0
      BY DEF TypeOK
    <3>3. CASE t = s
      BY <3>1, <3>2, <3>3 DEF Remembered
    <3>4. CASE t # s
      BY <3>2, <3>4 DEF TypeOK, Remembered
    <3> QED BY <3>3, <3>4
  <2>3. (Staging(t) /\ Solvent(t))'
    <3>1. staged' = staged /\ ledger' = ledger
      OBVIOUS
    <3>2. CASE t = s
      <4>1. staged[s] = <<>> /\ seen'[s] = 0
        BY DEF TypeOK, Holding
      <4> QED BY <3>1, <3>2, <4>1 DEF Staging, Solvent
    <3>3. CASE t # s
      BY <3>1, <3>3 DEF TypeOK, Staging, Solvent
    <3> QED BY <3>2, <3>3
  <2> QED BY <2>1, <2>2, <2>3
<1> QED BY <1>1, <1>2, <1>3

LEMMA LockStep ==
    ASSUME FundInv, NEW s \in Session, LockFund(s)
    PROVE  FundInv'
<1> USE DEF FundInv, LockFund, Lockable, local
<1>1. TypeOK'
  BY DEF TypeOK, PC
<1>2. (BalanceIsLastSnapshot /\ SnapshotsGrounded /\ NeverOverdrawn)'
  BY DEF BalanceIsLastSnapshot, SnapshotsGrounded, NeverOverdrawn
<1>3. ASSUME NEW t \in Session
      PROVE  (Holding(t) /\ Remembered(t) /\ Staging(t) /\ Solvent(t))'
  <2>1. Holding(t)'
    BY SessionAssumption DEF TypeOK, Holding
  <2>2. (Remembered(t) /\ Staging(t) /\ Solvent(t))'
    BY DEF TypeOK, Remembered, Staging, Solvent
  <2> QED BY <2>1, <2>2
<1> QED BY <1>1, <1>2, <1>3

(* A handler that raises keeps its transaction, and its lock, for now. *)
LEMMA RejectStep ==
    ASSUME FundInv, NEW s \in Session, Reject(s)
    PROVE  FundInv'
<1> USE DEF FundInv, Reject, local
<1>1. TypeOK'
  BY DEF TypeOK, PC
<1>2. (BalanceIsLastSnapshot /\ SnapshotsGrounded /\ NeverOverdrawn)'
  BY DEF BalanceIsLastSnapshot, SnapshotsGrounded, NeverOverdrawn
<1>3. ASSUME NEW t \in Session
      PROVE  (Holding(t) /\ Remembered(t) /\ Staging(t) /\ Solvent(t))'
  <2>1. Holding(t)'
    BY DEF TypeOK, Holding
  <2>2. (Remembered(t) /\ Staging(t) /\ Solvent(t))'
    BY DEF TypeOK, Remembered, Staging, Solvent
  <2> QED BY <2>1, <2>2
<1> QED BY <1>1, <1>2, <1>3

(* One movement extends the session's batch by a chained row. *)
LEMMA ApplyStep ==
    ASSUME FundInv, NEW s \in Session, Apply(s)
    PROVE  FundInv'
<1> DEFINE m == Head(todo[s])
           after == seen[s] + Signed(m)
           old == staged[s]
           new == Append(old, RowOf(m, after))
<1>1. /\ m \in Movement
      /\ Tail(todo[s]) \in Seq(Movement)
      /\ old \in Seq(Row)
      /\ seen[s] \in Int
  BY DEF FundInv, TypeOK, Holding, Apply
<1>2. /\ Signed(m) \in Int
      /\ after \in Int
  BY <1>1, RowOfType
<1>3. /\ RowOf(m, after) \in Row
      /\ RowOf(m, after).balance_after = after
      /\ Signed(RowOf(m, after)) = Signed(m)
  BY <1>1, <1>2, RowOfType
<1>4. after >= 0
  BY <1>1, AcceptableSolvent DEF FundInv, Solvent, Apply
<1>5. /\ new \in Seq(Row)
      /\ new # <<>>
      /\ Len(new) = Len(old) + 1
      /\ Len(old) \in Nat
      /\ new[Len(new)] = RowOf(m, after)
      /\ \A i \in 1 .. Len(old) : new[i] = old[i]
  BY <1>1, <1>3
<1>6. /\ seen' = [seen EXCEPT ![s] = after]
      /\ staged' = [staged EXCEPT ![s] = new]
      /\ todo' = [todo EXCEPT ![s] = Tail(@)]
      /\ pc' = [pc EXCEPT ![s] = IF Tail(todo[s]) = <<>> THEN "commit" ELSE "select"]
      /\ pc[s] = "apply"
      /\ UNCHANGED <<balance, ledger, created, holder>>
  BY DEF Apply
<1>7. TypeOK'
  BY <1>1, <1>2, <1>5, <1>6 DEF FundInv, TypeOK, PC
<1>8. (BalanceIsLastSnapshot /\ SnapshotsGrounded /\ NeverOverdrawn)'
  BY <1>6 DEF FundInv, BalanceIsLastSnapshot, SnapshotsGrounded, NeverOverdrawn
<1>9. ASSUME NEW t \in Session, t # s
      PROVE  (Holding(t) /\ Remembered(t) /\ Staging(t) /\ Solvent(t))'
  <2>1. /\ pc'[t] = pc[t] /\ todo'[t] = todo[t]
        /\ seen'[t] = seen[t] /\ staged'[t] = staged[t]
    BY <1>6, <1>9 DEF FundInv, TypeOK
  <2> QED BY <2>1, <1>6 DEF FundInv, Holding, Remembered, Staging, Solvent
<1>10. /\ staged'[s] = new /\ seen'[s] = after /\ todo'[s] = Tail(todo[s])
       /\ pc'[s] = IF Tail(todo[s]) = <<>> THEN "commit" ELSE "select"
       /\ holder' = s /\ ledger' = ledger
  BY <1>6 DEF FundInv, TypeOK, Holding
<1>11. Holding(s)' /\ Remembered(s)'
  BY <1>5, <1>10 DEF Holding, Remembered
<1>12. Solvent(s)'
  BY <1>3, <1>4, <1>5, <1>10 DEF FundInv, Solvent
<1>13. Staging(s)'
  <2> HIDE DEF m, after, new
  <2>1. seen'[s] = staged'[s][Len(staged'[s])].balance_after
    BY <1>3, <1>5, <1>10
  <2>2. \E j \in 0 .. Len(ledger) :
            new[1].balance_after = Snapshot(ledger, j) + Signed(new[1])
    <3>1. CASE old = <<>>
      <4>1. \E j \in 0 .. Len(ledger) : seen[s] = Snapshot(ledger, j)
        BY <3>1, <1>6 DEF FundInv, Remembered
      <4>2. new[1] = RowOf(m, after)
        BY <3>1, <1>5
      <4> QED BY <4>1, <4>2, <1>3 DEF after
    <3>2. CASE old # <<>>
      <4>1. new[1] = old[1]
        BY <3>2, <1>1, <1>5
      <4> QED BY <4>1, <3>2 DEF FundInv, Staging
    <3> QED BY <3>1, <3>2
  <2>3. ASSUME NEW i \in 2 .. Len(new)
        PROVE  new[i].balance_after = new[i - 1].balance_after + Signed(new[i])
    <3>1. CASE i = Len(new)
      <4>1. old # <<>> /\ i - 1 = Len(old) /\ i - 1 \in 1 .. Len(old)
        BY <3>1, <1>1, <1>5
      <4>2. new[i - 1].balance_after = seen[s]
        BY <4>1, <1>5 DEF FundInv, Staging
      <4>3. new[i] = RowOf(m, after)
        BY <3>1, <1>5
      <4> QED BY <4>2, <4>3, <1>3 DEF after
    <3>2. CASE i # Len(new)
      <4>1. i \in 2 .. Len(old) /\ i \in 1 .. Len(old) /\ i - 1 \in 1 .. Len(old)
        BY <3>2, <1>5
      <4>2. new[i] = old[i] /\ new[i - 1] = old[i - 1]
        BY <4>1, <1>5
      <4> QED BY <4>1, <4>2 DEF FundInv, Staging
    <3> QED BY <3>1, <3>2
  <2> QED BY <2>1, <2>2, <2>3, <1>10 DEF Staging
<1> QED BY <1>7, <1>8, <1>9, <1>11, <1>12, <1>13 DEF FundInv

(* The batch becomes visible: its first row is grounded in a committed     *)
(* snapshot, each later one in the row before it.                          *)
LEMMA CommitStep ==
    ASSUME FundInv, NEW s \in Session, Commit(s)
    PROVE  FundInv'
<1> DEFINE rows == staged[s]
           n == Len(ledger)
<1>1. /\ ledger \in Seq(Row) /\ rows \in Seq(Row)
      /\ rows # <<>> /\ Len(rows) \in Nat /\ Len(rows) >= 1
      /\ n \in Nat
  BY DEF FundInv, TypeOK, Holding, Commit
<1>2. /\ ledger' = ledger \o rows
      /\ balance' = seen[s]
      /\ seen[s] = rows[Len(rows)].balance_after
  BY <1>1 DEF Commit, FundInv, Staging
<1>3. /\ ledger' \in Seq(Row)
      /\ Len(ledger') = n + Len(rows)
      /\ \A i \in 1 .. n : ledger'[i] = ledger[i]
      /\ \A i \in 1 .. Len(rows) : ledger'[n + i] = rows[i]
      /\ \A i \in 0 .. n : Snapshot(ledger', i) = Snapshot(ledger, i)
      /\ \A i \in 1 .. Len(rows) : Snapshot(ledger', n + i) = rows[i].balance_after
  BY <1>1, <1>2, SnapshotStable
<1> HIDE DEF rows, n
<1>4. TypeOK'
  BY <1>3 DEF FundInv, TypeOK, PC, Commit
<1>5. BalanceIsLastSnapshot'
  <2>1. Len(rows) \in 1 .. Len(rows)
    BY <1>1
  <2>2. Snapshot(ledger', Len(ledger')) = rows[Len(rows)].balance_after
    BY <2>1, <1>3
  <2> QED BY <2>2, <1>2 DEF BalanceIsLastSnapshot
<1>6. SnapshotsGrounded'
  <2> SUFFICES ASSUME NEW i \in 1 .. Len(ledger')
               PROVE  \E j \in 0 .. (i - 1) :
                          ledger'[i].balance_after = Snapshot(ledger', j) + Signed(ledger'[i])
    BY DEF SnapshotsGrounded, Grounded
  <2>1. CASE i <= n
    <3>1. i \in 1 .. n
      BY <2>1, <1>1
    <3>2. PICK j \in 0 .. (i - 1) :
              ledger[i].balance_after = Snapshot(ledger, j) + Signed(ledger[i])
      BY <3>1 DEF FundInv, SnapshotsGrounded, Grounded, n
    <3>3. j \in 0 .. n
      BY <3>1, <3>2, <1>1
    <3> QED BY <3>1, <3>2, <3>3, <1>3
  <2>2. CASE i = n + 1
    <3>1. PICK j \in 0 .. n :
              rows[1].balance_after = Snapshot(ledger, j) + Signed(rows[1])
      BY <1>1 DEF FundInv, Staging, rows, n
    <3>2. ledger'[i] = rows[1] /\ j \in 0 .. (i - 1)
      BY <2>2, <1>1, <1>3
    <3> QED BY <3>1, <3>2, <1>3
  <2>3. CASE i > n + 1
    <3> DEFINE k == i - n
    <3>1. k \in 2 .. Len(rows) /\ k \in 1 .. Len(rows) /\ k - 1 \in 1 .. Len(rows)
          /\ i = n + k /\ i - 1 = n + (k - 1)
      BY <2>3, <1>1, <1>3
    <3>2. rows[k].balance_after = rows[k - 1].balance_after + Signed(rows[k])
      BY <3>1 DEF FundInv, Staging, rows
    <3>3. ledger'[i] = rows[k] /\ Snapshot(ledger', i - 1) = rows[k - 1].balance_after
      BY <3>1, <1>3
    <3>4. i - 1 \in 0 .. (i - 1)
      BY <2>3, <1>1
    <3> QED BY <3>2, <3>3, <3>4
  <2> QED BY <2>1, <2>2, <2>3, <1>1
<1>7. NeverOverdrawn'
  <2>1. balance' >= 0
    BY <1>2 DEF FundInv, Solvent
  <2>2. ASSUME NEW i \in 1 .. Len(ledger')
        PROVE  ledger'[i].balance_after >= 0
    <3>1. CASE i \in 1 .. n
      BY <3>1, <1>3 DEF FundInv, NeverOverdrawn, n
    <3>2. CASE i \notin 1 .. n
      <4>1. i - n \in 1 .. Len(rows) /\ i = n + (i - n)
        BY <3>2, <1>1, <1>3
      <4>2. ledger'[i] = rows[i - n]
        BY <4>1, <1>3
      <4> QED BY <4>1, <4>2 DEF FundInv, Solvent, rows
    <3> QED BY <3>1, <3>2
  <2> QED BY <2>1, <2>2 DEF NeverOverdrawn
<1>8. ASSUME NEW t \in Session
      PROVE  (Holding(t) /\ Remembered(t) /\ Staging(t) /\ Solvent(t))'
  <2>0. 0 .. n \subseteq 0 .. Len(ledger')
    BY <1>1, <1>3
  <2>1. CASE t = s
    BY <2>1, SessionAssumption DEF FundInv, TypeOK, Holding, Remembered, Staging, Solvent, Commit
  <2>2. CASE t # s
    <3>1. /\ pc'[t] = pc[t] /\ todo'[t] = todo[t]
          /\ seen'[t] = seen[t] /\ staged'[t] = staged[t]
          /\ holder = s /\ holder' = NoSession /\ staged[t] = <<>>
      BY <2>2 DEF FundInv, TypeOK, Holding, Commit
    <3>2. Holding(t)'
      BY <3>1, <2>2, SessionAssumption DEF FundInv, Holding
    <3>3. Remembered(t)'
      <4>1. ASSUME pc[t] \in {"lock", "apply"}
            PROVE  \E j \in 0 .. Len(ledger') : seen[t] = Snapshot(ledger', j)
        <5>1. PICK j \in 0 .. n : seen[t] = Snapshot(ledger, j)
          BY <3>1, <4>1 DEF FundInv, Remembered, n
        <5> QED BY <5>1, <2>0, <1>3
      <4> QED BY <4>1, <3>1 DEF Remembered
    <3>4. Staging(t)' /\ Solvent(t)'
      BY <3>1 DEF FundInv, Staging, Solvent
    <3> QED BY <3>2, <3>3, <3>4
  <2> QED BY <2>1, <2>2
<1> QED BY <1>4, <1>5, <1>6, <1>7, <1>8 DEF FundInv

LEMMA FundInvStep == FundInv /\ [FundNext]_fvars => FundInv'
<1> SUFFICES ASSUME FundInv, [FundNext]_fvars PROVE FundInv'
  OBVIOUS
<1>1. CASE UNCHANGED fvars
  BY <1>1 DEF fvars, FundInv, TypeOK, BalanceIsLastSnapshot, SnapshotsGrounded,
       NeverOverdrawn, Holding, Remembered, Staging, Solvent
<1>2. ASSUME NEW s \in Session, Begin(s) \/ Step(s) \/ Abort(s)
      PROVE  FundInv'
  BY <1>2, BeginStep, SelectStep, InsertStep, LockStep, ApplyStep, CommitStep,
     RejectStep, RollbackStep DEF Step, InsertFails, Close, Abort
<1> QED BY <1>1, <1>2 DEF FundNext

THEOREM FundInvariant == FundSpec => []FundInv
BY FundInvInit, FundInvStep, PTL DEF FundSpec

(* Every variable of the fund service keeps its type. *)
THEOREM FundTypeCorrect == FundSpec => []TypeOK
BY FundInvariant, PTL DEF FundInv

(* However requests interleave, the published balance is the one the       *)
(* newest ledger row recorded.                                             *)
THEOREM FundBalance == FundSpec => []BalanceIsLastSnapshot
BY FundInvariant, PTL DEF FundInv

(* No snapshot rests on work that was rolled back. *)
THEOREM FundGrounded == FundSpec => []SnapshotsGrounded
BY FundInvariant, PTL DEF FundInv

(* Neither the balance nor any snapshot is ever negative. *)
THEOREM FundNeverOverdrawn == FundSpec => []NeverOverdrawn
BY FundInvariant, PTL DEF FundInv

(* Uncommitted ledger rows belong to the holder of the fund row. *)
THEOREM FundWritersSerialized == FundSpec => []WritersSerialized
<1>1. FundInv => WritersSerialized
  BY DEF FundInv, Holding, WritersSerialized
<1> QED BY <1>1, FundInvariant, PTL

-----------------------------------------------------------------------------
(* Requests issued one at a time. *)

OneAtATime ==
    \A s, t \in Session : pc[s] # "idle" /\ pc[t] # "idle" => s = t

(* Nobody commits behind the back of the one open request, so the balance  *)
(* it read is still the committed one.                                     *)
UpToDate(s) ==
    /\ staged[s] = <<>> /\ pc[s] \in {"lock", "apply"} => seen[s] = balance
    /\ staged[s] # <<>> =>
           staged[s][1].balance_after = balance + Signed(staged[s][1])
    /\ \A i \in 1 .. Len(staged[s]) : staged[s][i].amount > 0

SerialInv ==
    /\ FundInv
    /\ OneAtATime
    /\ ~created => balance = 0
    /\ SnapshotChain
    /\ \A s \in Session : UpToDate(s)

LEMMA SerialInvInit == FundInit => SerialInv
BY FundInvInit DEF FundInit, Init, SerialInv, OneAtATime, SnapshotChain, UpToDate

LEMMA SerialIsFund == SerialNext => FundNext
BY DEF SerialNext, FundNext

(* Steps that publish nothing. *)
LEMMA SerialQuietStep ==
    ASSUME SerialInv, FundInv', NEW s \in Session,
           \/ Begin(s) /\ \A t \in Session : pc[t] = "idle"
           \/ Rollback(s)
           \/ SelectFund(s)
           \/ InsertFund(s)
           \/ LockFund(s)
           \/ Reject(s)
    PROVE  SerialInv' /\ UNCHANGED vars
<1> USE DEF SerialInv
<1>1. balance' = balance /\ ledger' = ledger /\ created' = created
  BY DEF Begin, Rollback, SelectFund, InsertFund, LockFund, Reject
<1>2. OneAtATime'
  BY DEF FundInv, TypeOK, OneAtATime, Begin, Rollback, SelectFund, InsertFund, LockFund,
         Reject
<1>3. ASSUME NEW t \in Session PROVE UpToDate(t)'
  <2>1. CASE t # s
    <3>1. seen'[t] = seen[t] /\ staged'[t] = staged[t] /\ pc'[t] = pc[t]
      BY <2>1 DEF FundInv, TypeOK, Begin, Rollback, SelectFund, InsertFund, LockFund,
             Reject, local
    <3> QED BY <3>1, <1>1 DEF UpToDate
  <2>2. CASE t = s
    <3>1. CASE Begin(s)
      BY <3>1, <2>2 DEF FundInv, TypeOK, UpToDate, Begin
    <3>2. CASE Rollback(s)
      BY <3>2, <2>2 DEF FundInv, TypeOK, UpToDate, Rollback
    <3>3. CASE SelectFund(s)
      BY <3>3, <2>2 DEF FundInv, TypeOK, Holding, UpToDate, SelectFund, Readable
    <3>4. CASE InsertFund(s)
      BY <3>4, <2>2 DEF FundInv, TypeOK, Holding, UpToDate, InsertFund
    <3>5. CASE LockFund(s)
      BY <3>5, <2>2 DEF FundInv, TypeOK, UpToDate, LockFund, local
    <3>6. CASE Reject(s)
      BY <3>6, <2>2 DEF FundInv, TypeOK, UpToDate, Reject, local
    <3> QED BY <3>1, <3>2, <3>3, <3>4, <3>5, <3>6
  <2> QED BY <2>1, <2>2
<1>4. SnapshotChain'
  BY <1>1 DEF SnapshotChain, Chained
<1> QED BY <1>1, <1>2, <1>3, <1>4 DEF vars

LEMMA SerialApplyStep ==
    ASSUME SerialInv, FundInv', NEW s \in Session, Apply(s)
    PROVE  SerialInv' /\ UNCHANGED vars
<1> DEFINE m == Head(todo[s])
           after == seen[s] + Signed(m)
           new == Append(staged[s], RowOf(m, after))
<1>1. balance' = balance /\ ledger' = ledger /\ created' = created
  BY DEF Apply
<1>2. OneAtATime'
  BY DEF SerialInv, FundInv, TypeOK, OneAtATime, Apply
<1>3. ASSUME NEW t \in Session, t # s PROVE UpToDate(t)'
  <2>1. seen'[t] = seen[t] /\ staged'[t] = staged[t] /\ pc'[t] = pc[t]
    BY <1>3 DEF SerialInv, FundInv, TypeOK, Apply
  <2> QED BY <2>1, <1>1 DEF SerialInv, UpToDate
<1>4. UpToDate(s)'
  <2>1. m \in Movement /\ staged[s] \in Seq(Row) /\ seen[s] \in Int /\ m.amount > 0
    BY DEF SerialInv, FundInv, TypeOK, Holding, Apply, Acceptable
  <2>2. Signed(m) \in Int /\ after \in Int
    BY <2>1, RowOfType
  <2>3. /\ RowOf(m, after) \in Row
        /\ RowOf(m, after).balance_after = after
        /\ RowOf(m, after).amount > 0
        /\ Signed(RowOf(m, after)) = Signed(m)
    BY <2>1, <2>2, RowOfType
  <2>4. staged'[s] = new /\ pc'[s] \in {"commit", "select"}
    BY DEF SerialInv, FundInv, TypeOK, Apply
  <2>5. /\ new # <<>> /\ Len(new) = Len(staged[s]) + 1 /\ Len(staged[s]) \in Nat
        /\ new[Len(new)] = RowOf(m, after)
        /\ \A i \in 1 .. Len(staged[s]) : new[i] = staged[s][i]
    BY <2>1, <2>3
  <2>6. new[1].balance_after = balance + Signed(new[1])
    <3>1. CASE staged[s] = <<>>
      <4>1. seen[s] = balance /\ new[1] = RowOf(m, after)
        BY <3>1, <2>5 DEF SerialInv, UpToDate, Apply
      <4> QED BY <4>1, <2>3
    <3>2. CASE staged[s] # <<>>
      <4>1. new[1] = staged[s][1]
        BY <3>2, <2>1, <2>5
      <4> QED BY <4>1, <3>2 DEF SerialInv, UpToDate
    <3> QED BY <3>1, <3>2
  <2>7. ASSUME NEW i \in 1 .. Len(new) PROVE new[i].amount > 0
    <3>1. CASE i = Len(new)
      BY <3>1, <2>3, <2>5
    <3>2. CASE i # Len(new)
      <4>1. i \in 1 .. Len(staged[s])
        BY <3>2, <2>5
      <4> QED BY <4>1, <2>5 DEF SerialInv, UpToDate
    <3> QED BY <3>1, <3>2
  <2> HIDE DEF new
  <2> QED BY <2>4, <2>5, <2>6, <2>7, <1>1 DEF UpToDate
<1>5. SnapshotChain'
  BY <1>1 DEF SerialInv, SnapshotChain, Chained
<1> QED BY <1>1, <1>2, <1>3, <1>4, <1>5 DEF SerialInv, vars

(* A commit posts one chained batch on top of the newest snapshot. *)
LEMMA SerialCommitStep ==
    ASSUME SerialInv, FundInv', NEW s \in Session, Commit(s)
    PROVE  SerialInv' /\ Post
<1> DEFINE rows == staged[s]
           n == Len(ledger)
<1>1. /\ ledger \in Seq(Row) /\ rows \in Seq(Row)
      /\ rows # <<>> /\ Len(rows) \in Nat /\ Len(rows) >= 1
      /\ n \in Nat
  BY DEF SerialInv, FundInv, TypeOK, Holding, Commit
<1>2. /\ ledger' = ledger \o rows
      /\ balance' = seen[s]
      /\ balance = Snapshot(ledger, n)
  BY DEF Commit, SerialInv, FundInv, BalanceIsLastSnapshot
<1>3. /\ ledger' \in Seq(Row)
      /\ Len(ledger') = n + Len(rows)
      /\ \A i \in 1 .. n : ledger'[i] = ledger[i]
      /\ \A i \in 1 .. Len(rows) : ledger'[n + i] = rows[i]
      /\ \A i \in 0 .. n : Snapshot(ledger', i) = Snapshot(ledger, i)
      /\ \A i \in 1 .. Len(rows) : Snapshot(ledger', n + i) = rows[i].balance_after
  BY <1>1, <1>2, SnapshotStable
<1>4. SubSeq(ledger', 1, Len(ledger)) = ledger
  BY <1>1, <1>2
<1> HIDE DEF rows, n
<1>5. ASSUME NEW k \in 1 .. Len(rows)
      PROVE  /\ Chained(ledger', n + k)
             /\ ledger'[n + k].amount > 0
             /\ ledger'[n + k].balance_after >= 0
  <2>1. ledger'[n + k] = rows[k] /\ rows[k].amount > 0 /\ rows[k].balance_after >= 0
    BY <1>3 DEF SerialInv, UpToDate, FundInv, Solvent, rows
  <2>2. CASE k = 1
    <3>1. rows[1].balance_after = Snapshot(ledger, n) + Signed(rows[1])
      BY <1>1, <1>2 DEF SerialInv, UpToDate, rows
    <3>2. (n + k) - 1 = n /\ n \in 0 .. n
      BY <2>2, <1>1
    <3> QED BY <2>1, <2>2, <3>1, <3>2, <1>3 DEF Chained
  <2>3. CASE k # 1
    <3>1. k \in 2 .. Len(rows) /\ k - 1 \in 1 .. Len(rows) /\ (n + k) - 1 = n + (k - 1)
      BY <2>3, <1>1
    <3>2. rows[k].balance_after = rows[k - 1].balance_after + Signed(rows[k])
      BY <3>1 DEF SerialInv, FundInv, Staging, rows
    <3>3. Snapshot(ledger', (n + k) - 1) = rows[k - 1].balance_after
      BY <3>1, <1>3
    <3> QED BY <2>1, <3>2, <3>3 DEF Chained
  <2> QED BY <2>1, <2>2, <2>3
<1>6. ASSUME NEW i \in (n + 1) .. Len(ledger')
      PROVE  /\ Chained(ledger', i)
             /\ ledger'[i].amount > 0
             /\ ledger'[i].balance_after >= 0
  <2>1. i - n \in 1 .. Len(rows) /\ n + (i - n) = i
    BY <1>1, <1>3
  <2> QED BY <2>1, <1>5
<1>7. balance' = Snapshot(ledger', Len(ledger'))
  BY DEF FundInv, BalanceIsLastSnapshot
<1>8. Post
  BY <1>1, <1>3, <1>4, <1>6, <1>7 DEF Post, n
<1>9. SnapshotChain'
  <2> SUFFICES ASSUME NEW i \in 1 .. Len(ledger') PROVE Chained(ledger', i)
    BY DEF SnapshotChain
  <2>1. CASE i \in 1 .. n
    <3>1. i - 1 \in 0 .. n
      BY <2>1, <1>1
    <3>2. Chained(ledger, i)
      BY <2>1 DEF SerialInv, SnapshotChain, n
    <3> QED BY <2>1, <3>1, <3>2, <1>3 DEF Chained
  <2>2. CASE i \notin 1 .. n
    <3>1. i \in (n + 1) .. Len(ledger')
      BY <2>2, <1>1, <1>3
    <3> QED BY <3>1, <1>6
  <2> QED BY <2>1, <2>2
<1>10. OneAtATime' /\ created' = TRUE
  BY DEF SerialInv, FundInv, TypeOK, OneAtATime, Commit
<1>11. ASSUME NEW t \in Session PROVE UpToDate(t)'
  <2>1. pc'[t] = "idle" /\ staged'[t] = <<>>
    BY DEF SerialInv, OneAtATime, FundInv, TypeOK, Holding, Commit
  <2> QED BY <2>1 DEF UpToDate
<1> QED BY <1>8, <1>9, <1>10, <1>11 DEF SerialInv

LEMMA SerialInvStep == SerialInv /\ [SerialNext]_fvars => SerialInv' /\ [Post]_vars
<1> SUFFICES ASSUME SerialInv, [SerialNext]_fvars PROVE SerialInv' /\ [Post]_vars
  OBVIOUS
<1>1. CASE UNCHANGED fvars
  <2>1. FundInv'
    BY <1>1, FundInvStep DEF SerialInv
  <2> QED BY <2>1, <1>1 DEF fvars, vars, SerialInv, OneAtATime, SnapshotChain, Chained, UpToDate
<1>2. CASE SerialNext
  <2>1. FundInv'
    BY <1>2, SerialIsFund, FundInvStep DEF SerialInv
  <2>2. PICK s \in Session : \/ Begin(s) /\ \A t \in Session : pc[t] = "idle"
                             \/ Step(s)
                             \/ Abort(s)
    BY <1>2 DEF SerialNext
  <2>3. \/ Begin(s) /\ \A t \in Session : pc[t] = "idle"
        \/ Rollback(s) \/ SelectFund(s) \/ InsertFund(s) \/ LockFund(s)
        \/ Reject(s)
        \/ Apply(s)
        \/ Commit(s)
    BY <2>2 DEF Step, Abort, InsertFails, Close
  <2> QED BY <2>1, <2>3, SerialQuietStep, SerialApplyStep, SerialCommitStep
<1> QED BY <1>1, <1>2

(* One request at a time, the ledger can be replayed row by row. *)
THEOREM FundSerialChain == SerialSpec => []SnapshotChain
<1>1. SerialInv => SnapshotChain
  BY DEF SerialInv
<1> QED BY <1>1, SerialInvInit, SerialInvStep, PTL DEF SerialSpec

(* One request at a time, the fund service is the ledger it promises:      *)
(* every commit posts a whole chained batch, every other step is invisible. *)
THEOREM FundImplementsLedger == SerialSpec => ImplementsLedger
<1>1. FundInit => Promise!Init
  BY DEF FundInit, Init, Promise!Init
<1>2. [Post]_vars => [Promise!Post]_(Promise!vars)
  BY DEF vars, Promise!vars, Post, Promise!Post, Chained, Promise!Chained,
         Snapshot, Promise!Snapshot, Signed, Promise!Signed
<1> QED BY <1>1, <1>2, SerialInvInit, SerialInvStep, PTL
        DEF SerialSpec, ImplementsLedger, Promise!Spec

=============================================================================
