--------------------------- MODULE ApkStore_proofs ---------------------------
(***************************************************************************)
(* Proofs about ApkStore, for every number of uploads, downloads and       *)
(* faults.                                                                 *)
(***************************************************************************)
EXTENDS ApkStore, TLAPS

\* A step of an upload before its insert has no row yet: rows are of finished
\* uploads, whose files nobody touches again.
FilesFirst ==
  /\ \A u \in Uploads : at[u] = "inserting" => file[u] = "whole"
  /\ \A u \in apks : at[u] = "done"

\* What is said of files and rows is inductive together with that.
StoreInv == TypeOK /\ FilesFirst /\ RowsHaveFiles

\* The empty store.
LEMMA InitStore == Init => StoreInv
  BY FaultBoundAssumption DEF Init, StoreInv, TypeOK, FilesFirst, RowsHaveFiles

\* A fault is counted within its bound.
LEMMA FaultCount == ASSUME TypeOK, Fault PROVE faults' \in 0..MaxFaults
<1>1. faults \in 0..MaxFaults /\ faults < MaxFaults /\ faults' = faults + 1
  BY DEF TypeOK, Fault
<1> QED
  BY <1>1, FaultBoundAssumption

\* Receive, CreateFile and CopyFile work on a file without a row.
LEMMA UploadStep ==
  ASSUME StoreInv, NEW u \in Uploads, Receive(u) \/ CreateFile(u) \/ CopyFile(u)
  PROVE  StoreInv'
<1> USE DEF StoreInv, TypeOK, FilesFirst, RowsHaveFiles, getVars, GoTo, Finish
<1>1. CASE Receive(u)
  <2>1. faults' = faults \/ Fault
    BY <1>1 DEF Receive
  <2>2. faults' \in 0..MaxFaults
    BY <2>1, FaultCount
  <2>3. /\ at[u] = "idle" /\ UNCHANGED <<file, apks, getAt, apk, got>>
        /\ \/ at' = [at EXCEPT ![u] = "saving"] /\ UNCHANGED answer
           \/ /\ at' = [at EXCEPT ![u] = "done"]
              /\ \/ answer' = [answer EXCEPT ![u] = "bad request"]
                 \/ answer' = [answer EXCEPT ![u] = "internal error"]
    BY <1>1 DEF Receive
  <2>4. TypeOK'
    <3>1. at' \in [Uploads -> {"idle", "saving", "copying", "inserting", "done"}]
      BY <2>3
    <3>2. answer' \in [Uploads -> {"none", "ok", "bad request", "internal error"}]
      BY <2>3
    <3>3. file' \in [Uploads -> {"none", "partial", "whole"}]
      BY <2>3
    <3> QED
      BY <2>2, <2>3, <3>1, <3>2, <3>3
  <2>5. FilesFirst'
    BY <2>3
  <2>6. RowsHaveFiles'
    BY <2>3
  <2> QED
    BY <2>4, <2>5, <2>6
<1>2. CASE CreateFile(u)
  BY <1>2 DEF CreateFile
<1>3. CASE CopyFile(u)
  <2>1. faults' = faults \/ Fault
    BY <1>3 DEF CopyFile
  <2>2. faults' \in 0..MaxFaults
    BY <2>1, FaultCount
  <2>3. /\ at[u] = "copying" /\ UNCHANGED <<apks, getAt, apk, got>>
        /\ \/ /\ at' = [at EXCEPT ![u] = "inserting"] /\ UNCHANGED answer
              /\ file' = [file EXCEPT ![u] = "whole"]
           \/ /\ at' = [at EXCEPT ![u] = "done"] /\ UNCHANGED file
              /\ answer' = [answer EXCEPT ![u] = "internal error"]
    BY <1>3 DEF CopyFile
  <2>4. TypeOK'
    <3>1. at' \in [Uploads -> {"idle", "saving", "copying", "inserting", "done"}]
      BY <2>3
    <3>2. answer' \in [Uploads -> {"none", "ok", "bad request", "internal error"}]
      BY <2>3
    <3>3. file' \in [Uploads -> {"none", "partial", "whole"}]
      BY <2>3
    <3> QED
      BY <2>2, <2>3, <3>1, <3>2, <3>3
  <2>5. FilesFirst'
    <3>1. u \notin apks
      BY <2>3
    <3>2. ASSUME NEW v \in Uploads, at'[v] = "inserting" PROVE file'[v] = "whole"
      <4>1. CASE v # u
        BY <2>3, <3>2, <4>1
      <4>2. CASE v = u
        BY <2>3, <3>2, <4>2
      <4> QED
        BY <4>1, <4>2
    <3>3. \A v \in apks : at'[v] = "done"
      BY <2>3, <3>1
    <3> QED
      BY <2>3, <3>2, <3>3
  <2>6. RowsHaveFiles'
    BY <2>3
  <2> QED
    BY <2>4, <2>5, <2>6
<1> QED
  BY <1>1, <1>2, <1>3

\* The row comes when the file is whole and stays.
LEMMA InsertStep == ASSUME StoreInv, NEW u \in Uploads, InsertRow(u) PROVE StoreInv'
<1> USE DEF StoreInv, TypeOK, FilesFirst, RowsHaveFiles, getVars, Finish
<1>1. at[u] = "inserting" /\ file[u] = "whole" /\ UNCHANGED <<file, getAt, apk, got>>
  BY DEF InsertRow
<1>2. /\ at' = [at EXCEPT ![u] = "done"]
      /\ \/ answer' = [answer EXCEPT ![u] = "ok"] /\ apks' = apks \cup {u}
         \/ answer' = [answer EXCEPT ![u] = "internal error"] /\ apks' \in {apks, apks \cup {u}}
  BY DEF InsertRow
<1>3. faults' \in 0..MaxFaults
  BY FaultCount DEF InsertRow
<1>4. TypeOK'
  BY <1>1, <1>2, <1>3
<1>5. FilesFirst'
  BY <1>1, <1>2
<1>6. RowsHaveFiles'
  BY <1>1, <1>2
<1> QED
  BY <1>4, <1>5, <1>6

\* A download reads rows and files and changes neither.
LEMMA DownloadStep ==
  ASSUME StoreInv, NEW x \in Downloads, (\E u \in Uploads : FindRow(x, u)) \/ SendFile(x)
  PROVE  StoreInv'
<1> USE DEF StoreInv, TypeOK, FilesFirst, RowsHaveFiles, uploadVars
<1>1. ASSUME NEW u \in Uploads, FindRow(x, u) PROVE StoreInv'
  <2>1. faults' = faults \/ Fault
    BY <1>1 DEF FindRow
  <2>2. faults' \in 0..MaxFaults
    BY <2>1, FaultCount
  <2>3. /\ UNCHANGED <<at, answer, file, apks>> /\ apk' = [apk EXCEPT ![x] = u]
        /\ \/ u \in apks /\ getAt' = [getAt EXCEPT ![x] = "sending"] /\ UNCHANGED got
           \/ /\ getAt' = [getAt EXCEPT ![x] = "done"]
              /\ got' = [got EXCEPT ![x] = "not found"]
    BY <1>1 DEF FindRow
  <2>4. TypeOK'
    <3>1. getAt' \in [Downloads -> {"idle", "sending", "done"}] /\ apk' \in [Downloads -> Uploads \cup {None}]
      BY <2>3
    <3>2. got' \in [Downloads -> {"none", "partial", "whole", "not found"}]
      BY <2>3
    <3>3. ASSUME NEW y \in Downloads, getAt'[y] = "sending" PROVE apk'[y] \in apks'
      <4>1. CASE y = x
        BY <4>1, <3>3, <2>3
      <4>2. CASE y # x
        BY <4>2, <3>3, <2>3
      <4> QED
        BY <4>1, <4>2
    <3> QED
      BY <2>2, <2>3, <3>1, <3>2, <3>3
  <2>5. FilesFirst'
    BY <2>3
  <2>6. RowsHaveFiles'
    BY <2>3
  <2> QED
    BY <2>4, <2>5, <2>6
<1>2. CASE SendFile(x)
  BY <1>2 DEF SendFile
<1> QED
  BY <1>1, <1>2

\* Every step keeps the invariant.
LEMMA StoreStep == ASSUME StoreInv, [Next]_vars PROVE StoreInv'
<1>1. CASE Crash
  BY <1>1 DEF StoreInv, TypeOK, FilesFirst, RowsHaveFiles, Crash
<1>2. CASE UNCHANGED vars
  BY <1>2 DEF vars, uploadVars, getVars, StoreInv, TypeOK, FilesFirst, RowsHaveFiles
<1> QED
  BY <1>1, <1>2, UploadStep, InsertStep, DownloadStep DEF Next

\* Files come before their rows in every state.
LEMMA StoreInvariant == Spec => []StoreInv
  BY InitStore, StoreStep, PTL DEF Spec

\* The variables of the APK store keep their types, whatever fails.
THEOREM TypeCorrect == Spec => []TypeOK
<1>1. StoreInv => TypeOK
  BY DEF StoreInv
<1> QED
  BY <1>1, StoreInvariant, PTL

\* No row of the table apks names a missing or partial file, and no download of a
\* row gets one.
THEOREM RowsSound == Spec => []RowsHaveFiles
<1>1. StoreInv => RowsHaveFiles
  BY DEF StoreInv
<1> QED
  BY <1>1, StoreInvariant, PTL

=============================================================================
