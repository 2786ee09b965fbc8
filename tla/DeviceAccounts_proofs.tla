----------------------- MODULE DeviceAccounts_proofs -----------------------
(***************************************************************************)
(* Proofs about DeviceAccounts, for every number of read loops, accounts   *)
(* and reports.                                                            *)
(***************************************************************************)
EXTENDS DeviceAccounts, TLAPS

-----------------------------------------------------------------------------
(* Types *)

\* The accounts of a report, as far as it goes, make rows.
LEMMA RowsType ==
  ASSUME TypeOK, NEW t \in Txs, NEW n \in Nat, n <= Len(report[t])
  PROVE  RowsOf(t, n) \subseteq Row
<1>1. \A i \in 1..n : report[t][i] \in Accounts
  BY DEF TypeOK
<1> QED
  BY <1>1 DEF RowsOf, Row

\* What a transaction claims to have inserted are rows.
LEMMA InsertedType == ASSUME TypeOK, NEW t \in Txs PROVE Inserted(t) \subseteq Row
<1>1. pos[t] \in Nat /\ pos[t] <= Len(report[t])
  BY DEF TypeOK
<1> QED
  BY <1>1, RowsType DEF Inserted

\* A read loop that works on a report has a transaction that has begun.
LEMMA CurType ==
  ASSUME TypeOK, NEW l \in Loops, cur[l] # 0
  PROVE  cur[l] \in Txs /\ cur[l] <= began
  BY MaxReportsAssumption DEF TypeOK, Txs

\* An open transaction has begun.
LEMMA OpenBegan == ASSUME TypeOK, NEW t \in Open PROVE t \in Txs /\ t <= began
  BY MaxReportsAssumption DEF TypeOK, Txs, Open

\* A list that a device reports is a sequence.
LEMMA ReportType == ASSUME NEW list \in Reports PROVE list \in Seq(Accounts)
  BY MaxLengthAssumption DEF Reports

\* Everything TypeOK says of the transactions.
TxsType ==
  /\ report \in [Txs -> Seq(Accounts)]
  /\ stage \in [Txs -> Stages]
  /\ snapshot \in [Txs -> SUBSET Row]
  /\ deletes \in [Txs -> SUBSET Row]
  /\ pos \in [Txs -> Nat]
  /\ \A t \in Txs :
       /\ pos[t] <= Len(report[t])
       /\ t > began => stage[t] = "new"
       /\ t \notin Open => pos[t] = 0 /\ snapshot[t] = {} /\ deletes[t] = {}

\* Transactions that end keep the types.
LEMMA EndType ==
  ASSUME TypeOK, NEW S \in SUBSET Txs, NEW how \in {"committed", "aborted"}, End(S, how),
         \A t \in S : t <= began
  PROVE  TxsType' /\ began' = began
<1>1. \A t \in Txs : Len(report[t]) \in Nat
  BY DEF TypeOK
<1>2. began \in Nat /\ \A t \in Txs : t \in Nat
  BY MaxReportsAssumption DEF TypeOK, Txs
<1>3. began' = began /\ report' = report
  BY DEF End
<1>4. ASSUME NEW t \in Txs
      PROVE  /\ pos'[t] <= Len(report'[t])
             /\ t > began' => stage'[t] = "new"
             /\ t \notin Open' => pos'[t] = 0 /\ snapshot'[t] = {} /\ deletes'[t] = {}
  <2>1. CASE t \in S
    <3>1. /\ pos'[t] = 0 /\ snapshot'[t] = {} /\ deletes'[t] = {}
          /\ ~(t > began)
      BY <1>2, <2>1 DEF End
    <3> QED
      BY <1>1, <1>3, <3>1
  <2>2. CASE t \notin S
    <3>1. /\ pos'[t] = pos[t] /\ snapshot'[t] = snapshot[t] /\ deletes'[t] = deletes[t]
          /\ stage'[t] = stage[t]
      BY <2>2 DEF End
    <3> QED
      BY <1>3, <3>1 DEF TypeOK, Open
  <2> QED
    BY <2>1, <2>2
<1>5. /\ stage' \in [Txs -> Stages]
      /\ snapshot' \in [Txs -> SUBSET Row]
      /\ deletes' \in [Txs -> SUBSET Row]
      /\ pos' \in [Txs -> Nat]
  BY DEF End, TypeOK, Stages
<1> QED
  BY <1>3, <1>4, <1>5 DEF TxsType, TypeOK

\* Every step keeps the variables in their types.
LEMMA TypeStep == ASSUME TypeOK, [Next]_vars PROVE TypeOK'
<1>0. began \in Nat /\ \A t \in Txs : t \in Nat /\ Len(report[t]) \in Nat /\ pos[t] \in Nat
  BY MaxReportsAssumption DEF TypeOK, Txs
<1>1. ASSUME NEW l \in Loops, NEW list \in Reports, Begin(l, list) PROVE TypeOK'
  <2> DEFINE b == began + 1
  <2>1. b \in Txs /\ b \in 0..MaxReports /\ b > began
    BY <1>0, <1>1, MaxReportsAssumption DEF Begin, TypeOK, Txs
  <2>2. began' = b /\ began' \in 0..MaxReports /\ cur' \in [Loops -> 0..began']
    BY <1>0, <1>1, <2>1 DEF Begin, TypeOK
  <2>3. list \in Seq(Accounts) /\ Len(list) \in Nat
    BY ReportType
  <2>4. /\ report' \in [Txs -> Seq(Accounts)]
        /\ stage' \in [Txs -> Stages]
        /\ snapshot' \in [Txs -> SUBSET Row]
        /\ UNCHANGED <<device, rows, deletes, pos>>
    BY <1>1, <2>1, <2>3 DEF Begin, TypeOK, Stages
  <2>5. stage[b] = "new" /\ pos[b] = 0
    BY <2>1 DEF TypeOK, Open
  <2>6. ASSUME NEW t \in Txs
        PROVE  /\ pos'[t] <= Len(report'[t])
               /\ t > began' => stage'[t] = "new"
               /\ t \notin Open' => pos'[t] = 0 /\ snapshot'[t] = {} /\ deletes'[t] = {}
    <3>1. CASE t = b
      <4>1. pos'[t] = 0 /\ report'[t] = list /\ stage'[t] = "deleting"
        BY <1>1, <2>1, <2>4, <2>5, <3>1 DEF Begin, TypeOK
      <4>2. t \in Open' /\ ~(t > began')
        BY <1>0, <2>2, <3>1, <4>1 DEF Open
      <4> QED
        BY <2>3, <4>1, <4>2
    <3>2. CASE t # b
      <4>1. /\ report'[t] = report[t] /\ stage'[t] = stage[t] /\ snapshot'[t] = snapshot[t]
            /\ pos'[t] = pos[t] /\ deletes'[t] = deletes[t]
        BY <1>1, <2>1, <2>4, <3>2 DEF Begin, TypeOK
      <4>2. t > began' => t > began
        BY <1>0, <2>2
      <4> QED
        BY <4>1, <4>2 DEF TypeOK, Open
    <3> QED
      BY <3>1, <3>2
  <2> QED
    BY <2>2, <2>4, <2>6 DEF TypeOK
<1>2. ASSUME NEW l \in Loops, DeleteRows(l) PROVE TypeOK'
  <2>1. cur[l] \in Txs /\ cur[l] <= began
    BY <1>2, CurType DEF DeleteRows
  <2> QED
    BY <1>2, <2>1 DEF DeleteRows, TypeOK, Open, Stages
<1>3. ASSUME NEW l \in Loops, InsertRow(l) PROVE TypeOK'
  <2> DEFINE t == cur[l]
  <2>1. t \in Txs /\ t \in Open
    BY <1>3, CurType DEF InsertRow, CanInsert, Open
  <2>2. pos[t] + 1 <= Len(report[t])
    BY <1>0, <1>3, <2>1 DEF InsertRow, CanInsert, AllInserted, TypeOK
  <2> QED
    BY <1>0, <1>3, <2>1, <2>2 DEF InsertRow, TypeOK, Open
<1>4. ASSUME NEW l \in Loops, cur[l] # 0, Rollback(l) PROVE TypeOK'
  <2>1. cur[l] \in Txs /\ cur[l] <= began
    BY <1>4, CurType
  <2>2. TxsType' /\ began' = began
    BY <1>4, <2>1, EndType DEF Rollback
  <2>3. cur' \in [Loops -> 0..began'] /\ UNCHANGED <<device, rows>>
    BY <1>0, <1>4, <2>2 DEF Rollback, TypeOK
  <2> QED
    BY <2>2, <2>3 DEF TxsType, TypeOK
<1>5. ASSUME NEW l \in Loops, Commit(l) PROVE TypeOK'
  <2>1. cur[l] \in Txs /\ cur[l] <= began
    BY <1>5, CurType DEF Commit
  <2>2. TxsType' /\ began' = began
    BY <1>5, <2>1, EndType DEF Commit
  <2>3. cur' \in [Loops -> 0..began'] /\ device' = device
    BY <1>0, <1>5, <2>2 DEF Commit, TypeOK
  <2>4. rows' \subseteq Row
    BY <1>5, <2>1, InsertedType DEF Commit, TypeOK
  <2> QED
    BY <2>2, <2>3, <2>4 DEF TxsType, TypeOK
<1>6. CASE DeleteDevice
  BY <1>6 DEF DeleteDevice, LockDevice, CascadeDelete, DeletionFails, TypeOK, Open, txVars
<1>7. CASE Crash
  <2>1. Open \in SUBSET Txs /\ \A t \in Open : t <= began
    BY OpenBegan
  <2>2. TxsType' /\ began' = began
    BY <1>7, <2>1, EndType DEF Crash
  <2>3. cur' \in [Loops -> 0..began'] /\ UNCHANGED <<device, rows>>
    BY <1>0, <1>7, <2>2 DEF Crash
  <2> QED
    BY <2>2, <2>3 DEF TxsType, TypeOK
<1>8. CASE UNCHANGED vars
  BY <1>8 DEF vars, txVars, TypeOK, Open
<1> QED
  BY <1>1, <1>2, <1>3, <1>4, <1>5, <1>6, <1>7, <1>8
     DEF Next, SaveAccounts, InsertFails, StatementFails, DeadlockVictim

\* The variables of every behaviour keep their types.
THEOREM TypeCorrect == Spec => []TypeOK
<1>1. Init => TypeOK
  BY MaxReportsAssumption DEF Init, TypeOK, Stages, Open, Txs
<1> QED
  BY <1>1, TypeStep, PTL DEF Spec

-----------------------------------------------------------------------------
(* The account list *)

\* Rows, seen or in the list, are of committed transactions; a transaction deletes
\* what it has seen, and when it inserts nothing of that is left to delete.
RowsCommitted ==
  /\ \A r \in rows : stage[r.tx] = "committed"
  /\ \A t \in Txs : \A r \in snapshot[t] : stage[r.tx] = "committed"
  /\ \A t \in Txs : deletes[t] \subseteq snapshot[t]
  /\ \A t \in Txs : stage[t] = "inserting" => snapshot[t] \cap rows \subseteq deletes[t]

\* What a transaction sees and deletes is whole, too.
WholeClaims == \A u, t \in Txs : Whole(snapshot[u], t) /\ Whole(deletes[u], t)

\* The deletion of the device has found no inserted row, and no more come.
DeletionAlone == device # "present" => \A t \in Open : pos[t] = 0

ListInv == RowsCommitted /\ WholeClaims /\ WholeReports
DeviceInv == DeletionAlone /\ AccountsHaveDevice

\* Whole sets meet, and differ, in whole sets.
LEMMA WholeAlgebra ==
  ASSUME NEW t, NEW S, NEW T, Whole(S, t), Whole(T, t)
  PROVE  Whole(S \cap T, t) /\ Whole(S \ T, t)
<1> DEFINE Mine(A) == {r \in A : r.tx = t}
<1> DEFINE All == RowsOf(t, Len(report[t]))
<1>1. Mine(S) \in {{}, All} /\ Mine(T) \in {{}, All}
  BY DEF Whole
<1>2. Mine(S \cap T) = Mine(S) \cap Mine(T) /\ Mine(S \ T) = Mine(S) \ Mine(T)
  OBVIOUS
<1>3. Mine(S \cap T) \in {{}, All} /\ Mine(S \ T) \in {{}, All}
  <2> HIDE DEF Mine, All
  <2> QED
    BY <1>1, <1>2
<1> QED
  BY <1>3 DEF Whole

\* A read loop works on an open transaction of its own.
OwnTransactions ==
  /\ \A l \in Loops : cur[l] # 0 => cur[l] \in Open
  /\ \A l, m \in Loops : cur[l] # 0 /\ cur[l] = cur[m] => l = m

\* Transactions stay with their read loops until they end.
LEMMA OwnStep == ASSUME TypeOK, OwnTransactions, [Next]_vars PROVE OwnTransactions'
<1>1. ASSUME NEW l \in Loops, NEW list \in Reports, Begin(l, list) PROVE OwnTransactions'
  <2> DEFINE b == began + 1
  <2>1. b \in Txs /\ b # 0 /\ \A m \in Loops : cur[m] # b
    BY <1>1, MaxReportsAssumption DEF Begin, TypeOK, Txs
  <2>2. stage'[b] = "deleting" /\ \A t \in Txs \ {b} : stage'[t] = stage[t]
    BY <1>1, <2>1 DEF Begin, TypeOK
  <2>3. cur'[l] = b /\ \A m \in Loops \ {l} : cur'[m] = cur[m]
    BY <1>1 DEF Begin, TypeOK
  <2> QED
    BY <2>1, <2>2, <2>3 DEF OwnTransactions, Open
<1>2. ASSUME NEW l \in Loops, DeleteRows(l) PROVE OwnTransactions'
  <2>1. Open \subseteq Open' /\ cur' = cur
    BY <1>2 DEF DeleteRows, TypeOK, Open
  <2> QED
    BY <2>1 DEF OwnTransactions
<1>3. ASSUME NEW l \in Loops, InsertRow(l) PROVE OwnTransactions'
  BY <1>3 DEF InsertRow, OwnTransactions, Open
<1>4. ASSUME NEW l \in Loops, cur[l] # 0, cur' = [cur EXCEPT ![l] = 0],
             NEW how, End({cur[l]}, how)
      PROVE  OwnTransactions'
  <2>1. cur[l] \in Txs
    BY <1>4, CurType
  <2>2. \A t \in Txs \ {cur[l]} : stage'[t] = stage[t]
    BY <1>4 DEF End
  <2>3. cur'[l] = 0 /\ \A m \in Loops \ {l} : cur'[m] = cur[m]
    BY <1>4 DEF TypeOK
  <2> QED
    BY <1>4, <2>1, <2>2, <2>3 DEF OwnTransactions, Open
<1>5. CASE DeleteDevice
  BY <1>5 DEF DeleteDevice, LockDevice, CascadeDelete, DeletionFails, txVars,
              OwnTransactions, Open
<1>6. CASE Crash
  BY <1>6 DEF Crash, OwnTransactions
<1>7. CASE UNCHANGED vars
  BY <1>7 DEF vars, txVars, OwnTransactions, Open
<1> QED
  BY <1>1, <1>2, <1>3, <1>4, <1>5, <1>6, <1>7
     DEF Next, SaveAccounts, InsertFails, StatementFails, DeadlockVictim, Rollback, Commit

\* Committed transactions stay committed.
LEMMA CommittedStays ==
  ASSUME TypeOK, OwnTransactions, [Next]_vars, NEW t \in Txs, stage[t] = "committed"
  PROVE  stage'[t] = "committed" /\ report'[t] = report[t]
<1>0. t \notin Open
  BY DEF Open
<1>1. ASSUME NEW l \in Loops, NEW list \in Reports, Begin(l, list)
      PROVE  stage'[t] = "committed" /\ report'[t] = report[t]
  <2>1. began + 1 > began /\ began + 1 \in Txs
    BY <1>1, MaxReportsAssumption DEF Begin, TypeOK, Txs
  <2>2. stage[began + 1] = "new"
    BY <2>1 DEF TypeOK
  <2> QED
    BY <1>1, <2>2 DEF Begin, TypeOK
<1>2. ASSUME NEW l \in Loops, DeleteRows(l) \/ InsertRow(l)
      PROVE  stage'[t] = "committed" /\ report'[t] = report[t]
  BY <1>2 DEF DeleteRows, InsertRow, TypeOK
<1>3. ASSUME NEW l \in Loops, cur[l] # 0, NEW how, End({cur[l]}, how)
      PROVE  stage'[t] = "committed" /\ report'[t] = report[t]
  BY <1>0, <1>3 DEF End, OwnTransactions
<1>4. CASE DeleteDevice
  BY <1>4 DEF DeleteDevice, LockDevice, CascadeDelete, DeletionFails, txVars
<1>5. CASE Crash
  BY <1>0, <1>5 DEF Crash, End
<1>6. CASE UNCHANGED vars
  BY <1>6 DEF vars, txVars
<1> QED
  BY <1>1, <1>2, <1>3, <1>4, <1>5, <1>6
     DEF Next, SaveAccounts, InsertFails, StatementFails, DeadlockVictim, Rollback, Commit

\* What a transaction inserted has its number.
LEMMA InsertedOwn == ASSUME NEW t, NEW n PROVE \A r \in RowsOf(t, n) : r.tx = t
BY DEF RowsOf

\* Rows stay with committed transactions.
LEMMA CommittedStep ==
  ASSUME TypeOK, OwnTransactions, RowsCommitted, [Next]_vars PROVE RowsCommitted'
<1>0. \A r \in Row : r.tx \in Txs
  BY DEF Row
<1>00. \A t \in Txs : stage[t] = "committed" => stage'[t] = "committed"
  BY CommittedStays
<1>1. ASSUME NEW l \in Loops, NEW list \in Reports, Begin(l, list) PROVE RowsCommitted'
  <2>1. began + 1 \in Txs /\ stage[began + 1] = "new"
    BY <1>1, MaxReportsAssumption DEF Begin, TypeOK, Txs
  <2>2. stage'[began + 1] = "deleting" /\ deletes[began + 1] = {}
    BY <1>1, <2>1 DEF Begin, TypeOK, Open
  <2> QED
    BY <1>0, <1>00, <1>1, <2>1, <2>2 DEF Begin, TypeOK, RowsCommitted
<1>2. ASSUME NEW l \in Loops, DeleteRows(l) PROVE RowsCommitted'
  <2>1. cur[l] \in Txs
    BY <1>2, CurType DEF DeleteRows
  <2> QED
    BY <1>0, <1>00, <1>2, <2>1 DEF DeleteRows, TypeOK, RowsCommitted
<1>3. ASSUME NEW l \in Loops, InsertRow(l) PROVE RowsCommitted'
  BY <1>3 DEF InsertRow, RowsCommitted
<1>4. ASSUME NEW S \in SUBSET Txs, End(S, "aborted"), rows' = rows PROVE RowsCommitted'
  <2>1. ASSUME NEW t \in Txs
        PROVE  /\ \A r \in snapshot'[t] : stage'[r.tx] = "committed"
               /\ deletes'[t] \subseteq snapshot'[t]
               /\ stage'[t] = "inserting" => snapshot'[t] \cap rows' \subseteq deletes'[t]
    <3>1. CASE t \in S
      BY <1>4, <3>1 DEF End
    <3>2. CASE t \notin S
      <4>1. /\ stage'[t] = stage[t] /\ snapshot'[t] = snapshot[t]
            /\ deletes'[t] = deletes[t]
        BY <1>4, <3>2 DEF End
      <4>2. \A r \in snapshot[t] : r.tx \in Txs
        BY <1>0 DEF TypeOK
      <4> QED
        BY <1>00, <1>4, <4>1, <4>2 DEF RowsCommitted
    <3> QED
      BY <3>1, <3>2
  <2> QED
    BY <1>0, <1>00, <1>4, <2>1 DEF RowsCommitted, TypeOK
<1>5. ASSUME NEW l \in Loops, Commit(l) PROVE RowsCommitted'
  <2> DEFINE t == cur[l]
  <2>1. t \in Txs /\ stage[t] = "inserting" /\ End({t}, "committed")
        /\ rows' = (rows \ deletes[t]) \cup Inserted(t)
    BY <1>5, CurType DEF Commit
  <2>2. stage'[t] = "committed" /\ snapshot'[t] = {} /\ deletes'[t] = {}
    BY <2>1 DEF End
  <2>3. \A r \in rows' : stage'[r.tx] = "committed"
    BY <1>0, <1>00, <2>1, <2>2, InsertedOwn DEF RowsCommitted, TypeOK, Inserted
  <2>4. ASSUME NEW u \in Txs
        PROVE  /\ \A r \in snapshot'[u] : stage'[r.tx] = "committed"
               /\ deletes'[u] \subseteq snapshot'[u]
               /\ stage'[u] = "inserting" => snapshot'[u] \cap rows' \subseteq deletes'[u]
    <3>1. CASE u = t
      BY <2>2, <3>1
    <3>2. CASE u # t
      <4>1. /\ stage'[u] = stage[u] /\ snapshot'[u] = snapshot[u]
            /\ deletes'[u] = deletes[u]
        BY <2>1, <3>2 DEF End
      <4>2. \A r \in snapshot[u] : r.tx # t
        BY <2>1 DEF RowsCommitted
      <4>3. snapshot[u] \cap rows' \subseteq snapshot[u] \cap rows
        BY <2>1, <4>2, InsertedOwn DEF Inserted
      <4> QED
        BY <1>0, <1>00, <4>1, <4>3 DEF RowsCommitted, TypeOK
    <3> QED
      BY <3>1, <3>2
  <2> QED
    BY <2>3, <2>4 DEF RowsCommitted
<1>6. CASE DeleteDevice
  BY <1>6 DEF DeleteDevice, LockDevice, CascadeDelete, DeletionFails, txVars, RowsCommitted
<1>7. CASE UNCHANGED vars
  BY <1>7 DEF vars, txVars, RowsCommitted
<1>8. ASSUME NEW l \in Loops, cur[l] # 0, Rollback(l) PROVE RowsCommitted'
  BY <1>4, <1>8, CurType DEF Rollback
<1>9. CASE Crash
  BY <1>4, <1>9 DEF Crash, Open
<1> QED
  BY <1>1, <1>2, <1>3, <1>5, <1>6, <1>7, <1>8, <1>9
     DEF Next, SaveAccounts, InsertFails, StatementFails, DeadlockVictim

\* Rows that are whole stay so: whoever committed them keeps its report.
LEMMA WholeStep ==
  ASSUME TypeOK, OwnTransactions, RowsCommitted, WholeClaims, WholeReports, [Next]_vars
  PROVE  WholeReports' /\ WholeClaims'
<1> DEFINE WholeNext(S) ==
      \A t \in Txs : \/ {r \in S : r.tx = t} = {}
                     \/ {r \in S : r.tx = t} = RowsOf(t, Len(report[t]))'
<1> DEFINE Good(S) == /\ \A r \in S : stage[r.tx] = "committed"
                      /\ \A t \in Txs : Whole(S, t)
<1>1. ASSUME NEW S, Good(S) PROVE WholeNext(S)
  <2> SUFFICES ASSUME NEW t \in Txs, {r \in S : r.tx = t} # {}
               PROVE  {r \in S : r.tx = t} = RowsOf(t, Len(report[t]))'
    OBVIOUS
  <2>1. report'[t] = report[t]
    BY <1>1, CommittedStays
  <2>2. {r \in S : r.tx = t} = RowsOf(t, Len(report[t]))
    BY <1>1 DEF Whole
  <2> QED
    BY <2>1, <2>2 DEF RowsOf
<1>2. Good(rows) /\ \A u \in Txs : Good(snapshot[u]) /\ Good(deletes[u])
  BY DEF RowsCommitted, WholeClaims, WholeReports
<1>3. WholeNext({})
  OBVIOUS
<1>4. SUFFICES WholeNext(rows') /\ \A u \in Txs : WholeNext(snapshot'[u]) /\ WholeNext(deletes'[u])
  BY DEF WholeReports, WholeClaims, Whole
<1>5. WholeNext(rows) /\ \A u \in Txs : WholeNext(snapshot[u]) /\ WholeNext(deletes[u])
  <2> HIDE DEF WholeNext, Good
  <2> QED
    BY <1>1, <1>2
<1> HIDE DEF WholeNext
<1>6. ASSUME NEW l \in Loops, NEW list \in Reports, Begin(l, list)
      PROVE  WholeNext(rows') /\ \A u \in Txs : WholeNext(snapshot'[u]) /\ WholeNext(deletes'[u])
  <2>1. rows' = rows /\ deletes' = deletes
    BY <1>6 DEF Begin
  <2>2. \A u \in Txs : snapshot'[u] = rows \/ snapshot'[u] = snapshot[u]
    BY <1>6 DEF Begin, TypeOK
  <2> QED
    BY <1>5, <2>1, <2>2
<1>7. ASSUME NEW l \in Loops, DeleteRows(l)
      PROVE  WholeNext(rows') /\ \A u \in Txs : WholeNext(snapshot'[u]) /\ WholeNext(deletes'[u])
  <2> DEFINE t == cur[l]
  <2>1. t \in Txs
    BY <1>7, CurType DEF DeleteRows
  <2>2. rows' = rows /\ snapshot' = snapshot
    BY <1>7 DEF DeleteRows
  <2>3. \A u \in Txs : deletes'[u] = snapshot[t] \cap rows \/ deletes'[u] = deletes[u]
    BY <1>7 DEF DeleteRows, TypeOK
  <2>4. Good(snapshot[t] \cap rows)
    BY <1>2, <2>1, WholeAlgebra
  <2>5. WholeNext(snapshot[t] \cap rows)
    BY <1>1, <2>4
  <2> QED
    BY <1>5, <2>2, <2>3, <2>5
<1>8. ASSUME NEW l \in Loops, InsertRow(l)
      PROVE  WholeNext(rows') /\ \A u \in Txs : WholeNext(snapshot'[u]) /\ WholeNext(deletes'[u])
  BY <1>5, <1>8 DEF InsertRow
<1>9. ASSUME NEW S \in SUBSET Txs, NEW how, End(S, how)
      PROVE  \A u \in Txs : WholeNext(snapshot'[u]) /\ WholeNext(deletes'[u])
  <2>1. \A u \in Txs : /\ snapshot'[u] = {} \/ snapshot'[u] = snapshot[u]
                       /\ deletes'[u] = {} \/ deletes'[u] = deletes[u]
    BY <1>9 DEF End
  <2> QED
    BY <1>3, <1>5, <2>1
<1>10. ASSUME NEW l \in Loops, cur[l] # 0, Rollback(l)
       PROVE  WholeNext(rows') /\ \A u \in Txs : WholeNext(snapshot'[u]) /\ WholeNext(deletes'[u])
  BY <1>5, <1>9, <1>10, CurType DEF Rollback
<1>11. ASSUME NEW l \in Loops, Commit(l)
       PROVE  WholeNext(rows') /\ \A u \in Txs : WholeNext(snapshot'[u]) /\ WholeNext(deletes'[u])
  <2>0. PICK t \in Txs : t = cur[l]
    BY <1>11, CurType DEF Commit
  <2>1. t \in Txs /\ End({t}, "committed") /\ AllInserted(t) /\ stage[t] = "inserting"
        /\ rows' = (rows \ deletes[t]) \cup Inserted(t)
    BY <1>11, <2>0 DEF Commit
  <2>2. Good(rows \ deletes[t])
    BY <1>2, <2>1, WholeAlgebra
  <2>3. WholeNext(rows \ deletes[t])
    BY <1>1, <2>2
  <2>4. Inserted(t) = RowsOf(t, Len(report[t]))'
    BY <2>1 DEF Inserted, AllInserted, End, RowsOf
  <2>5. \A r \in rows : r.tx # t
    BY <2>1 DEF RowsCommitted
  <2>6. WholeNext(rows')
    <3> SUFFICES ASSUME NEW u \in Txs
                 PROVE  \/ {r \in rows' : r.tx = u} = {}
                        \/ {r \in rows' : r.tx = u} = RowsOf(u, Len(report[u]))'
      BY DEF WholeNext
    <3>1. CASE u = t
      <4>1. {r \in rows' : r.tx = u} = Inserted(t)
        BY <2>1, <2>5, <3>1, InsertedOwn DEF Inserted
      <4> QED
        BY <2>4, <3>1, <4>1
    <3>2. CASE u # t
      <4>1. {r \in rows' : r.tx = u} = {r \in rows \ deletes[t] : r.tx = u}
        BY <2>1, <3>2, InsertedOwn DEF Inserted
      <4> QED
        BY <2>3, <4>1 DEF WholeNext
    <3> QED
      BY <3>1, <3>2
  <2> QED
    BY <1>9, <2>1, <2>6
<1>12. ASSUME DeleteDevice
       PROVE  WholeNext(rows') /\ \A u \in Txs : WholeNext(snapshot'[u]) /\ WholeNext(deletes'[u])
  BY <1>3, <1>5, <1>12 DEF DeleteDevice, LockDevice, CascadeDelete, DeletionFails, txVars
<1>13. ASSUME Crash
       PROVE  WholeNext(rows') /\ \A u \in Txs : WholeNext(snapshot'[u]) /\ WholeNext(deletes'[u])
  BY <1>5, <1>9, <1>13 DEF Crash, Open
<1>14. ASSUME UNCHANGED vars
       PROVE  WholeNext(rows') /\ \A u \in Txs : WholeNext(snapshot'[u]) /\ WholeNext(deletes'[u])
  BY <1>5, <1>14 DEF vars, txVars
<1> QED
  BY <1>6, <1>7, <1>8, <1>10, <1>11, <1>12, <1>13, <1>14
     DEF Next, SaveAccounts, InsertFails, StatementFails, DeadlockVictim

\* The four invariants hold together from the start.
LEMMA ListInvariant == Spec => [](TypeOK /\ OwnTransactions /\ RowsCommitted /\ ListInv)
<1>1. Init => TypeOK /\ OwnTransactions /\ ListInv
  BY MaxReportsAssumption DEF Init, TypeOK, Stages, Open, Txs, OwnTransactions, ListInv,
                              RowsCommitted, WholeClaims, WholeReports, Whole
<1>2. TypeOK /\ OwnTransactions /\ ListInv /\ [Next]_vars
        => TypeOK' /\ OwnTransactions' /\ ListInv'
  BY TypeStep, OwnStep, CommittedStep, WholeStep DEF ListInv
<1>3. ListInv => RowsCommitted
  BY DEF ListInv
<1> QED
  BY <1>1, <1>2, <1>3, PTL DEF Spec

\* Of every report that was ever saved the list holds all accounts or none, for
\* any number of read loops and reports.
THEOREM ReportsWhole == Spec => []WholeReports
<1>1. ListInv => WholeReports
  BY DEF ListInv
<1> QED
  BY <1>1, ListInvariant, PTL

\* A report that is committed over the list its DELETE saw replaces it.
THEOREM UndisturbedReportReplaces == Spec => UndisturbedReplaces
<1>1. ASSUME TypeOK, OwnTransactions, RowsCommitted, [Next]_vars, NEW t \in Txs,
             stage[t] = "inserting", stage'[t] = "committed", snapshot[t] = rows
      PROVE  \A r \in rows' : r.tx = t
  <2>1. ASSUME NEW l \in Loops, Commit(l) PROVE \A r \in rows' : r.tx = t
    <3>1. cur[l] = t
      BY <1>1, <2>1 DEF Commit, End
    <3>2. rows \subseteq deletes[t]
      BY <1>1 DEF RowsCommitted
    <3>3. rows' \subseteq Inserted(t)
      BY <2>1, <3>1, <3>2 DEF Commit
    <3> QED
      BY <3>3, InsertedOwn DEF Inserted
  <2>2. ASSUME NEW l \in Loops, \E list \in Reports : Begin(l, list) PROVE FALSE
    BY <1>1, <2>2, MaxReportsAssumption DEF Begin, TypeOK
  <2>3. ASSUME NEW l \in Loops, DeleteRows(l) \/ InsertRow(l) PROVE FALSE
    BY <1>1, <2>3 DEF DeleteRows, InsertRow, TypeOK
  <2>4. ASSUME NEW l \in Loops, Rollback(l) PROVE FALSE
    BY <1>1, <2>4 DEF Rollback, End
  <2>5. ASSUME DeleteDevice PROVE FALSE
    BY <1>1, <2>5 DEF DeleteDevice, LockDevice, CascadeDelete, DeletionFails, txVars
  <2>6. ASSUME Crash PROVE FALSE
    BY <1>1, <2>6 DEF Crash, End
  <2>7. ASSUME UNCHANGED vars PROVE FALSE
    BY <1>1, <2>7 DEF vars, txVars
  <2> QED
    BY <1>1, <2>1, <2>2, <2>3, <2>4, <2>5, <2>6, <2>7
       DEF Next, SaveAccounts, InsertFails, StatementFails, DeadlockVictim
<1>2. TypeOK /\ OwnTransactions /\ RowsCommitted /\ [Next]_vars =>
        [\A t \in Txs :
           stage[t] = "inserting" /\ stage'[t] = "committed" /\ snapshot[t] = rows =>
             \A r \in rows' : r.tx = t]_vars
  BY <1>1
<1> QED
  BY <1>2, ListInvariant, PTL DEF Spec, UndisturbedReplaces

-----------------------------------------------------------------------------
(* The deletion of the device *)

\* The deletion stays alone with the list, and nothing is left behind it.
LEMMA DeviceStep == ASSUME TypeOK, OwnTransactions, DeviceInv, [Next]_vars PROVE DeviceInv'
<1>1. ASSUME NEW l \in Loops, NEW list \in Reports, Begin(l, list) PROVE DeviceInv'
  <2> DEFINE b == began + 1
  <2>1. b \in Txs /\ stage[b] = "new"
    BY <1>1, MaxReportsAssumption DEF Begin, TypeOK, Txs
  <2>2. pos[b] = 0
    BY <2>1 DEF TypeOK, Open
  <2>3. Open' \subseteq Open \cup {b} /\ UNCHANGED <<pos, device, rows>>
    BY <1>1, <2>1 DEF Begin, TypeOK, Open
  <2> QED
    BY <2>2, <2>3 DEF DeviceInv, DeletionAlone, AccountsHaveDevice
<1>2. ASSUME NEW l \in Loops, DeleteRows(l) PROVE DeviceInv'
  <2>1. Open' \subseteq Open /\ UNCHANGED <<pos, device, rows>>
    BY <1>2, CurType DEF DeleteRows, TypeOK, Open
  <2> QED
    BY <2>1 DEF DeviceInv, DeletionAlone, AccountsHaveDevice
<1>3. ASSUME NEW l \in Loops, InsertRow(l) PROVE DeviceInv'
  <2>1. cur[l] \in Open
    BY <1>3 DEF InsertRow, OwnTransactions
  <2>2. device # "locked"
    <3> SUFFICES ASSUME device = "locked" PROVE Waiting(cur[l])
      BY <1>3 DEF InsertRow, CanInsert
    <3>1. <<cur[l], 0>> \in Waits
      BY <1>3, <2>1 DEF InsertRow, CanInsert, Waits, ReferenceWaits
    <3> QED
      BY <3>1 DEF Waiting
  <2>3. device' = "present"
    BY <1>3, <2>2 DEF InsertRow, TypeOK
  <2> QED
    BY <2>3 DEF DeviceInv, DeletionAlone, AccountsHaveDevice
<1>4. ASSUME NEW S \in SUBSET Txs, NEW how \in {"committed", "aborted"}, End(S, how),
             device' = device, device = "absent" => rows' = {}
      PROVE  DeviceInv'
  <2>1. ASSUME NEW t \in Open' PROVE t \in Open /\ pos'[t] = pos[t]
    BY <1>4, <2>1 DEF Open, End
  <2> QED
    BY <1>4, <2>1 DEF DeviceInv, DeletionAlone, AccountsHaveDevice
<1>5. ASSUME NEW l \in Loops, Commit(l) PROVE DeviceInv'
  <2> DEFINE t == cur[l]
  <2>1. t \in Open /\ t \in Txs
    BY <1>5 DEF Commit, OwnTransactions, Open
  <2>2. ASSUME device = "absent" PROVE rows' = {}
    <3>1. rows = {} /\ pos[t] = 0
      BY <2>1, <2>2 DEF DeviceInv, DeletionAlone, AccountsHaveDevice
    <3>2. Inserted(t) = {}
      BY <3>1 DEF Inserted, RowsOf
    <3> QED
      BY <1>5, <3>1, <3>2 DEF Commit
  <2> QED
    BY <1>4, <1>5, <2>1, <2>2 DEF Commit
<1>6. ASSUME NEW l \in Loops, cur[l] # 0, Rollback(l) PROVE DeviceInv'
  <2>1. device = "absent" => rows' = {}
    BY <1>6 DEF Rollback, DeviceInv, AccountsHaveDevice
  <2> QED
    BY <1>4, <1>6, <2>1, CurType DEF Rollback
<1>7. CASE DeleteDevice
  BY <1>7 DEF DeleteDevice, LockDevice, CascadeDelete, DeletionFails, txVars,
              DeviceInv, DeletionAlone, AccountsHaveDevice, Open
<1>8. CASE Crash
  <2>1. device = "absent" => rows' = {}
    BY <1>8 DEF Crash, DeviceInv, AccountsHaveDevice
  <2> QED
    BY <1>4, <1>8, <2>1 DEF Crash, Open
<1>9. CASE UNCHANGED vars
  BY <1>9 DEF vars, txVars, DeviceInv, DeletionAlone, AccountsHaveDevice, Open
<1> QED
  BY <1>1, <1>2, <1>3, <1>5, <1>6, <1>7, <1>8, <1>9
     DEF Next, SaveAccounts, InsertFails, StatementFails, DeadlockVictim

\* A deleted device has no accounts, whatever was being saved when it was deleted.
THEOREM NoAccountsLeft == Spec => []AccountsHaveDevice
<1>1. Init => DeviceInv
  BY DEF Init, DeviceInv, DeletionAlone, AccountsHaveDevice
<1>2. TypeOK /\ OwnTransactions /\ DeviceInv /\ [Next]_vars => DeviceInv'
  BY DeviceStep
<1>3. DeviceInv => AccountsHaveDevice
  BY DEF DeviceInv
<1> QED
  BY <1>1, <1>2, <1>3, ListInvariant, PTL DEF Spec

=============================================================================
