------------------------------ MODULE ApkStore ------------------------------
(***************************************************************************)
(* The APK files and the table apks (handler/apk_handler.go, repository/   *)
(* apk_repo.go): an upload saves its file under a fresh name, then inserts *)
(* a row with the path; a download reads a row, then sends the file it     *)
(* names.  Neither is undone when a later step fails or the process dies.  *)
(***************************************************************************)
EXTENDS Naturals, FiniteSets

CONSTANTS
  Uploads,    \* POST /api/apks requests; each has its own path and row
  Downloads,  \* GET /api/apks/:id requests
  None,       \* no upload
  MaxFaults   \* bound: file system and database calls that fail in a run

ASSUME NoneAssumption == None \notin Uploads
ASSUME FaultBoundAssumption == MaxFaults \in Nat

VARIABLES
  at,      \* where an upload is
  answer,  \* what it was answered
  file,    \* what is at its path
  apks,    \* the table, by upload
  getAt,   \* where a download is
  apk,     \* the upload whose row it asks for
  got,     \* what it was answered
  faults

uploadVars == <<at, answer>>
getVars    == <<getAt, apk, got>>
vars == <<uploadVars, file, apks, getVars, faults>>

Init ==
  /\ at = [u \in Uploads |-> "idle"]
  /\ answer = [u \in Uploads |-> "none"]
  /\ file = [u \in Uploads |-> "none"]
  /\ apks = {}
  /\ getAt = [x \in Downloads |-> "idle"]
  /\ apk = [x \in Downloads |-> None]
  /\ got = [x \in Downloads |-> "none"]
  /\ faults = 0

Fault == faults < MaxFaults /\ faults' = faults + 1

-----------------------------------------------------------------------------
(* Upload. *)

GoTo(u, from, to) == /\ at[u] = from
                     /\ at' = [at EXCEPT ![u] = to]
                     /\ UNCHANGED answer

Finish(u, from, reply) == /\ at[u] = from
                          /\ at' = [at EXCEPT ![u] = "done"]
                          /\ answer' = [answer EXCEPT ![u] = reply]

\* the form has a file and all the metadata, or the answer is 400; the directory
\* is made, or the answer is 500
Receive(u) ==
  /\ \/ GoTo(u, "idle", "saving") /\ UNCHANGED faults
     \/ Finish(u, "idle", "bad request") /\ UNCHANGED faults
     \/ Finish(u, "idle", "internal error") /\ Fault
  /\ UNCHANGED <<file, apks, getVars>>

\* SaveFile creates the file and copies the upload into it
CreateFile(u) ==
  /\ GoTo(u, "saving", "copying")
  /\ file' = [file EXCEPT ![u] = "partial"]
  /\ UNCHANGED <<apks, getVars, faults>>

\* mutant: the error of SaveFile is ignored
CopyUnchecked(u) ==
  /\ GoTo(u, "copying", "inserting")
  /\ \/ file' = [file EXCEPT ![u] = "whole"] /\ UNCHANGED faults
     \/ Fault /\ UNCHANGED file
  /\ UNCHANGED <<apks, getVars>>

\* and leaves behind what it copied when that fails
CopyFile(u) ==
  /\ \/ /\ GoTo(u, "copying", "inserting")
        /\ file' = [file EXCEPT ![u] = "whole"]
        /\ UNCHANGED faults
     \/ Finish(u, "copying", "internal error") /\ Fault /\ UNCHANGED file
  /\ UNCHANGED <<apks, getVars>>

\* an INSERT whose error is reported may have been committed all the same
InsertRow(u) ==
  /\ \/ Finish(u, "inserting", "ok") /\ apks' = apks \cup {u} /\ UNCHANGED faults
     \/ Finish(u, "inserting", "internal error") /\ Fault /\ apks' \in {apks, apks \cup {u}}
  /\ UNCHANGED <<file, getVars>>

-----------------------------------------------------------------------------
(* Download. *)

\* mutant: a row that is not found is not looked at
FindRowUnchecked(x, u) ==
  /\ getAt[x] = "idle"
  /\ getAt' = [getAt EXCEPT ![x] = "sending"]
  /\ apk' = [apk EXCEPT ![x] = u]
  /\ UNCHANGED <<uploadVars, file, apks, got, faults>>

FindRow(x, u) ==
  /\ getAt[x] = "idle"
  /\ \/ /\ u \in apks
        /\ getAt' = [getAt EXCEPT ![x] = "sending"]
        /\ UNCHANGED <<got, faults>>
     \/ /\ (u \notin apks /\ UNCHANGED faults) \/ Fault
        /\ getAt' = [getAt EXCEPT ![x] = "done"]
        /\ got' = [got EXCEPT ![x] = "not found"]
  /\ apk' = [apk EXCEPT ![x] = u]
  /\ UNCHANGED <<uploadVars, file, apks>>

SendFile(x) ==
  /\ getAt[x] = "sending"
  /\ getAt' = [getAt EXCEPT ![x] = "done"]
  /\ got' = [got EXCEPT ![x] = file[apk[x]]]
  /\ UNCHANGED <<uploadVars, file, apks, apk, faults>>

\* the process dies; files and rows stay as they are
Crash ==
  /\ \/ \E u \in Uploads : at[u] \notin {"idle", "done"}
     \/ \E x \in Downloads : getAt[x] = "sending"
  /\ at' = [u \in Uploads |-> IF at[u] = "idle" THEN "idle" ELSE "done"]
  /\ getAt' = [x \in Downloads |-> IF getAt[x] = "idle" THEN "idle" ELSE "done"]
  /\ UNCHANGED <<answer, file, apks, apk, got, faults>>

-----------------------------------------------------------------------------
Next ==
  \/ \E u \in Uploads : \/ Receive(u) \/ CreateFile(u) \/ CopyFile(u) \/ InsertRow(u)
                        \/ \E x \in Downloads : FindRow(x, u)
  \/ \E x \in Downloads : SendFile(x)
  \/ Crash

Spec == Init /\ [][Next]_vars

-----------------------------------------------------------------------------
(* Properties *)

\* The variables keep their types, and a download sends only a file it found a row of.
TypeOK ==
  /\ at \in [Uploads -> {"idle", "saving", "copying", "inserting", "done"}]
  /\ answer \in [Uploads -> {"none", "ok", "bad request", "internal error"}]
  /\ file \in [Uploads -> {"none", "partial", "whole"}]
  /\ apks \subseteq Uploads
  /\ getAt \in [Downloads -> {"idle", "sending", "done"}]
  /\ apk \in [Downloads -> Uploads \cup {None}]
  /\ \A x \in Downloads : getAt[x] = "sending" => apk[x] \in apks
  /\ got \in [Downloads -> {"none", "partial", "whole", "not found"}]
  /\ faults \in 0..MaxFaults

\* A row names a whole file, so a download that finds a row gets a whole APK, and
\* an upload answered with success stays to be downloaded: failures and crashes
\* between the file and the row leave files without rows, never the reverse.
RowsHaveFiles ==
  /\ \A u \in apks : file[u] = "whole"
  /\ \A u \in Uploads : answer[u] = "ok" => u \in apks
  /\ \A x \in Downloads : got[x] \in {"none", "whole", "not found"}

=============================================================================
