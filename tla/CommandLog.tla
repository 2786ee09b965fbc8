----------------------------- MODULE CommandLog -----------------------------
(***************************************************************************)
(* What the command log promises, without requests, connections, read      *)
(* loops or clocks: the life of the rows of command_logs.  A row is        *)
(* PENDING when it is created; the request that created it may mark it     *)
(* SENT once; the device's answer is written once, whatever the row says   *)
(* by then; the worker turns SENT into TIMEOUT; the deletion of the device *)
(* removes the row.  Commands implements this.                             *)
(***************************************************************************)
CONSTANT Cmds  \* ids of command_logs rows

VARIABLES
  status,   \* command_logs.status; "none" before, "deleted" after
  open,     \* the rows a request may still mark as sent
  awaited   \* the rows whose answer may still be written

vars == <<status, open, awaited>>

Stored    == {"PENDING", "SENT", "SUCCESS", "FAILED", "TIMEOUT"}
Completed == {"SUCCESS", "FAILED"}

Init ==
  /\ status = [k \in Cmds |-> "none"]
  /\ open = {}
  /\ awaited = Cmds

\* a request that gets an error knows nothing of the row
Create(k) ==
  /\ status[k] = "none"
  /\ status' = [status EXCEPT ![k] = "PENDING"]
  /\ open' \in {open, open \cup {k}}
  /\ UNCHANGED awaited

\* the row is marked, unless it is gone
MarkSent(k) ==
  /\ k \in open
  /\ open' = open \ {k}
  /\ status' = [status EXCEPT ![k] = IF @ \in Stored THEN "SENT" ELSE @]
  /\ UNCHANGED awaited

Answer(k) ==
  /\ k \in awaited /\ status[k] \in Stored
  /\ awaited' = awaited \ {k}
  /\ \E s \in Completed : status' = [status EXCEPT ![k] = s]
  /\ UNCHANGED open

Expire ==
  /\ \E K \in SUBSET {k \in Cmds : status[k] = "SENT"} :
       status' = [k \in Cmds |-> IF k \in K THEN "TIMEOUT" ELSE status[k]]
  /\ UNCHANGED <<open, awaited>>

Remove ==
  /\ \E K \in SUBSET {k \in Cmds : status[k] \in Stored} :
       status' = [k \in Cmds |-> IF k \in K THEN "deleted" ELSE status[k]]
  /\ UNCHANGED <<open, awaited>>

\* a refused dispatch, a failed statement, or the end of the process
GiveUp ==
  /\ open' \in SUBSET open
  /\ awaited' \in SUBSET awaited
  /\ UNCHANGED status

Next ==
  \/ \E k \in Cmds : Create(k) \/ MarkSent(k) \/ Answer(k)
  \/ Expire
  \/ Remove
  \/ GiveUp

Spec == Init /\ [][Next]_vars

=============================================================================
