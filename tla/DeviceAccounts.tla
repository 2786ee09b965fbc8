--------------------------- MODULE DeviceAccounts ---------------------------
(***************************************************************************)
(* The account list of one device.  Its read loops (an old connection and  *)
(* a new one may both be running) save each reported list in a transaction *)
(* that deletes the rows there are and inserts the reported ones           *)
(* (UpsertDeviceAccounts, internal/repository/device_repo.go), while an    *)
(* administrator may delete the device.  PostgreSQL runs them at its       *)
(* default READ COMMITTED: a statement sees what was committed when it     *)
(* started, waits for rows that another transaction has claimed, and fails *)
(* on a violated constraint or a deadlock.                                 *)
(***************************************************************************)
EXTENDS Naturals, Sequences

CONSTANTS
  Loops,       \* read loops of the device's connections
  Accounts,    \* what a device may report
  MaxLength,   \* accounts in a report, bounded for checking
  MaxReports   \* reports in all, bounded for checking

ASSUME MaxReportsAssumption == MaxReports \in Nat
ASSUME MaxLengthAssumption == MaxLength \in Nat

VARIABLES
  device,    \* the row in devices: "present", "locked" by its deletion, or "absent"
  rows,      \* the committed rows in device_accounts; each knows who inserted it
  began,     \* how many transactions have begun; they are numbered from 1
  report,    \* the list a transaction is to save
  stage,     \* where a transaction is
  snapshot,  \* the rows its DELETE sees
  deletes,   \* the rows it has deleted
  pos,       \* how many rows it has inserted
  cur        \* the transaction of a read loop; 0 for none

txVars == <<began, report, stage, snapshot, deletes, pos>>
vars == <<device, rows, txVars, cur>>

Txs == 1..MaxReports
Reports == UNION {[1..n -> Accounts] : n \in 0..MaxLength}
Row == [account : Accounts, tx : Txs]

Stages == {"new", "deleting", "inserting", "committed", "aborted"}

\* the transactions that hold locks
Open == {t \in Txs : stage[t] \in {"deleting", "inserting"}}

RowsOf(t, n) == {[account |-> report[t][i], tx |-> t] : i \in 1..n}
Inserted(t) == RowsOf(t, pos[t])
AllInserted(t) == pos[t] = Len(report[t])
NextAccount(t) == report[t][pos[t] + 1]

Init ==
  /\ device = "present"
  /\ rows = {}
  /\ began = 0
  /\ report = [t \in Txs |-> <<>>]
  /\ stage = [t \in Txs |-> "new"]
  /\ snapshot = [t \in Txs |-> {}]
  /\ deletes = [t \in Txs |-> {}]
  /\ pos = [t \in Txs |-> 0]
  /\ cur = [l \in Loops |-> 0]

-----------------------------------------------------------------------------
(* Who waits for whom.  The deletion of the device is transaction 0.       *)

\* u has claimed a row that the DELETE of t is to delete
DeleteWaits(t, u) == stage[t] = "deleting" /\ deletes[u] \cap snapshot[t] # {}

\* u has deleted or inserted the account that t is to insert: UNIQUE has to
\* wait for how u ends
InsertWaits(t, u) ==
  /\ stage[t] = "inserting" /\ ~AllInserted(t)
  /\ \E r \in deletes[u] \cup Inserted(u) : r.account = NextAccount(t)

\* a reference to the device has to wait for its deletion to end
ReferenceWaits(t) == stage[t] = "inserting" /\ ~AllInserted(t) /\ device = "locked"

\* the cascade has to wait for who has claimed rows it is to delete
CascadeWaits(t) == device = "locked" /\ deletes[t] # {}

Waits ==
  {e \in Open \X Open : e[1] # e[2] /\ (DeleteWaits(e[1], e[2]) \/ InsertWaits(e[1], e[2]))}
    \cup {e \in Open \X {0} : ReferenceWaits(e[1])}
    \cup {e \in {0} \X Open : CascadeWaits(e[2])}

Waiting(t) == \E e \in Waits : e[1] = t

\* t waits, through others, for itself
Deadlocked(t) ==
  \E S \in SUBSET (Open \cup {0}) :
    /\ t \in S
    /\ \A u \in S : \E v \in S : <<u, v>> \in Waits
    /\ \A u \in S : \E v \in S : <<v, u>> \in Waits

-----------------------------------------------------------------------------
(* A report: DEVICE_ACCOUNTS handled by a read loop. *)

\* transactions end, and what they have claimed is free
End(ended, how) ==
  /\ stage' = [t \in Txs |-> IF t \in ended THEN how ELSE stage[t]]
  /\ snapshot' = [t \in Txs |-> IF t \in ended THEN {} ELSE snapshot[t]]
  /\ deletes' = [t \in Txs |-> IF t \in ended THEN {} ELSE deletes[t]]
  /\ pos' = [t \in Txs |-> IF t \in ended THEN 0 ELSE pos[t]]
  /\ UNCHANGED <<began, report>>

\* mutant: transactions are not counted
BeginUncounted(l, list) ==
  /\ cur[l] = 0 /\ began < MaxReports
  /\ cur' = [cur EXCEPT ![l] = began + 1]
  /\ report' = [report EXCEPT ![began + 1] = list]
  /\ stage' = [stage EXCEPT ![began + 1] = "deleting"]
  /\ snapshot' = [snapshot EXCEPT ![began + 1] = rows]
  /\ UNCHANGED <<device, rows, began, deletes, pos>>

\* BEGIN, and the DELETE starts: it will see the rows committed by now
Begin(l, list) ==
  /\ cur[l] = 0 /\ began < MaxReports
  /\ began' = began + 1
  /\ cur' = [cur EXCEPT ![l] = began + 1]
  /\ report' = [report EXCEPT ![began + 1] = list]
  /\ stage' = [stage EXCEPT ![began + 1] = "deleting"]
  /\ snapshot' = [snapshot EXCEPT ![began + 1] = rows]
  /\ UNCHANGED <<device, rows, deletes, pos>>

\* mutant: the old rows are not deleted
DeleteNothing(l) ==
  LET t == cur[l] IN
    /\ t # 0 /\ stage[t] = "deleting"
    /\ stage' = [stage EXCEPT ![t] = "inserting"]
    /\ UNCHANGED <<device, rows, began, report, snapshot, deletes, pos, cur>>

\* the DELETE gets through; rows that are gone by now are skipped, and rows
\* that came meanwhile are not seen
DeleteRows(l) ==
  LET t == cur[l] IN
    /\ t # 0 /\ stage[t] = "deleting" /\ ~Waiting(t)
    /\ deletes' = [deletes EXCEPT ![t] = snapshot[t] \cap rows]
    /\ stage' = [stage EXCEPT ![t] = "inserting"]
    /\ UNCHANGED <<device, rows, began, report, snapshot, pos, cur>>

\* the account is in the list already: an earlier row of the same report, or
\* one that the DELETE has not seen
Taken(t, a) == \E r \in (rows \ deletes[t]) \cup Inserted(t) : r.account = a

CanInsert(t) == stage[t] = "inserting" /\ ~AllInserted(t) /\ ~Waiting(t)

InsertRow(l) ==
  LET t == cur[l] IN
    /\ t # 0 /\ CanInsert(t)
    /\ device # "absent" /\ ~Taken(t, NextAccount(t))
    /\ pos' = [pos EXCEPT ![t] = @ + 1]
    /\ UNCHANGED <<device, rows, began, report, stage, snapshot, deletes, cur>>

\* mutant: no deferred Rollback, the transaction stays open
RollbackMissing(l) ==
  /\ cur' = [cur EXCEPT ![l] = 0]
  /\ UNCHANGED <<device, rows, txVars>>

\* mutant: a deferred Commit in place of the Rollback
CommitDeferred(l) ==
  /\ rows' = (rows \ deletes[cur[l]]) \cup Inserted(cur[l])
  /\ End({cur[l]}, "committed")
  /\ cur' = [cur EXCEPT ![l] = 0]
  /\ UNCHANGED device

\* the deferred Rollback
Rollback(l) ==
  /\ End({cur[l]}, "aborted")
  /\ cur' = [cur EXCEPT ![l] = 0]
  /\ UNCHANGED <<device, rows>>

InsertFails(l) ==
  LET t == cur[l] IN
    /\ t # 0 /\ CanInsert(t)
    /\ device = "absent" \/ Taken(t, NextAccount(t))
    /\ Rollback(l)

\* any statement may fail; the transaction is rolled back and the list dropped
StatementFails(l) == cur[l] # 0 /\ Rollback(l)

Commit(l) ==
  LET t == cur[l] IN
    /\ t # 0 /\ stage[t] = "inserting" /\ AllInserted(t)
    /\ rows' = (rows \ deletes[t]) \cup Inserted(t)
    /\ End({t}, "committed")
    /\ cur' = [cur EXCEPT ![l] = 0]
    /\ UNCHANGED device

\* PostgreSQL fails a statement that waits for itself
DeadlockVictim(l) == cur[l] # 0 /\ Deadlocked(cur[l]) /\ Rollback(l)

-----------------------------------------------------------------------------
(* DELETE FROM devices, with its cascade. *)

\* mutant: an inserted row does not hold the row it references
LockUnheld ==
  /\ device = "present"
  /\ device' = "locked"
  /\ UNCHANGED <<rows, txVars, cur>>

\* an inserted row holds the row it references
LockDevice ==
  /\ device = "present"
  /\ \A t \in Open : pos[t] = 0
  /\ device' = "locked"
  /\ UNCHANGED <<rows, txVars, cur>>

CascadeDelete ==
  /\ device = "locked" /\ ~Waiting(0)
  /\ device' = "absent"
  /\ rows' = {}
  /\ UNCHANGED <<txVars, cur>>

\* the administrator is told that the deletion failed
DeletionFails ==
  /\ device = "locked" /\ Deadlocked(0)
  /\ device' = "present"
  /\ UNCHANGED <<rows, txVars, cur>>

\* the server dies, and PostgreSQL aborts what was open
Crash ==
  /\ \E l \in Loops : cur[l] # 0
  /\ End(Open, "aborted")
  /\ cur' = [l \in Loops |-> 0]
  /\ UNCHANGED <<device, rows>>

-----------------------------------------------------------------------------
SaveAccounts(l) ==
  DeleteRows(l) \/ InsertRow(l) \/ InsertFails(l) \/ Commit(l) \/ DeadlockVictim(l)

DeleteDevice == LockDevice \/ CascadeDelete \/ DeletionFails

Next ==
  \/ \E l \in Loops : \/ \E list \in Reports : Begin(l, list)
                      \/ SaveAccounts(l)
                      \/ StatementFails(l)
  \/ DeleteDevice
  \/ Crash

Spec == Init /\ [][Next]_vars

(* Statements that can go on do, deadlocks are detected (after             *)
(* deadlock_timeout), and a deletion that holds the device's row goes on   *)
(* or fails.                                                               *)
Fairness ==
  /\ \A l \in Loops : WF_vars(SaveAccounts(l))
  /\ WF_vars(CascadeDelete \/ DeletionFails)

FairSpec == Spec /\ Fairness

-----------------------------------------------------------------------------
(* Properties *)

\* The variables keep their types; a read loop's transaction has begun, and only
\* an open transaction has a claim.
TypeOK ==
  /\ device \in {"present", "locked", "absent"}
  /\ rows \subseteq Row
  /\ began \in 0..MaxReports
  /\ report \in [Txs -> Seq(Accounts)]
  /\ stage \in [Txs -> Stages]
  /\ snapshot \in [Txs -> SUBSET Row]
  /\ deletes \in [Txs -> SUBSET Row]
  /\ pos \in [Txs -> Nat]
  /\ cur \in [Loops -> 0..began]
  /\ \A t \in Txs :
       /\ pos[t] <= Len(report[t])
       /\ t > began => stage[t] = "new"
       /\ t \notin Open => pos[t] = 0 /\ snapshot[t] = {} /\ deletes[t] = {}

\* device_repo.go:176-200: a report is saved whole or not at all, and it leaves
\* whole: of each report that was ever saved, the list holds all accounts or none,
\* whatever transactions overlap, fail, deadlock or die half-way.
Whole(S, t) == LET mine == {r \in S : r.tx = t} IN mine = {} \/ mine = RowsOf(t, Len(report[t]))
WholeReports == \A t \in Txs : Whole(rows, t)

\* A report that is committed while the list is still the one its DELETE saw
\* replaces the list: nothing of an older report survives it.
UndisturbedReplaces ==
  [][\A t \in Txs : stage[t] = "inserting" /\ stage'[t] = "committed" /\ snapshot[t] = rows =>
       \A r \in rows' : r.tx = t]_vars

\* A deleted device has no accounts, and none come back from a report that was
\* being saved when it was deleted.
AccountsHaveDevice == device = "absent" => rows = {}

\* A read loop gets done with a report: it does not wait forever for a lock of a
\* transaction that failed or that waits for it.
ReportsEnd == \A l \in Loops : cur[l] # 0 ~> cur[l] = 0

=============================================================================
