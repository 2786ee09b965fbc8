------------------------------ MODULE Commands ------------------------------
(***************************************************************************)
(* The life of a command: the HTTP requests that create it and hand it to  *)
(* the hub (handler/command_handler.go), the statements on its row         *)
(* (service/command_service.go, repository/command_repo.go), the read      *)
(* loops that bring the device's result back (cmd/server/main.go), the     *)
(* background worker that times it out, and the deletion of its device.    *)
(*                                                                         *)
(* A step is one SQL statement, one call of the hub, or one half of a file *)
(* write: opening the file empties it, and its bytes come after that.      *)
(* The connections are DeviceHub's; here they only decide what             *)
(* SendToDevice does with a message.                                       *)
(***************************************************************************)
EXTENDS Naturals, Sequences, FiniteSets

CONSTANTS
  Devices,
  Members,      \* the devices of the group a bulk request names
  Cmds,         \* ids of command_logs rows
  Screenshots,  \* the commands of type TAKE_SCREENSHOT
  Requests,     \* HTTP requests, each served once
  Readers,      \* read loops that deliver results
  None,         \* no command, no device, no file
  MaxDbFaults   \* bound: database statements that fail in a run

ASSUME MembersAssumption == Members \subseteq Devices
ASSUME ScreenshotsAssumption == Screenshots \subseteq Cmds
ASSUME FaultBoundAssumption == MaxDbFaults \in Nat
ASSUME NoneAssumption == {None, "begun", "mixed"} \cap (Devices \cup Cmds) = {}

VARIABLES
  status,     \* command_logs.status; "none" before INSERT, "deleted" after DELETE
  cmdDev,     \* command_logs.device_id
  completed,  \* command_logs.completed_at is set
  result,     \* command_logs.result: none, data, or the SCREENSHOT_SAVED mark
  old,        \* command_logs.created_at is more than 60 seconds ago
  exists,     \* the device has a row
  link,       \* how far the COMMAND message and its answer got
  outcome,    \* what the device answered
  reqAt,      \* where a request is
  todo,       \* the devices it still creates a row for
  logs,       \* the rows it created and has not dispatched yet
  rdAt,       \* where a read loop is
  rdCmd,      \* the command whose result it handles
  rdMark,     \* the result column it will write
  shot,       \* what is in {device}.jpg
  dbFaults,   \* database statements that failed so far
  crashed,    \* the process has died once
  cutOff      \* history: rows whose own statement failed, or whose request died

rowVars  == <<status, cmdDev, completed, result>>
netVars  == <<link, outcome>>
reqVars  == <<reqAt, todo, logs>>
rdVars   == <<rdAt, rdCmd, rdMark>>
vars == <<rowVars, old, exists, netVars, reqVars, rdVars, shot, dbFaults, crashed, cutOff>>

-----------------------------------------------------------------------------
Stored    == {"PENDING", "SENT", "SUCCESS", "FAILED", "TIMEOUT"}
Completed == {"SUCCESS", "FAILED"}

\* queued: Send put it in the channel; dropped: Send returned nil and dropped it;
\* refused: Send returned an error; lost: the connection took it along; answered:
\* the result is under way; read: a read loop has it
Links == {"none", "queued", "dropped", "refused", "lost", "received", "answered", "read"}

\* Send returned nil, which it also does when it drops the message
ReturnedNil == Links \ {"none", "refused"}

\* a command: its whole image; begun: emptied, and so far written by one only; mixed:
\* written by two at a time, or broken off
Files == Cmds \cup {None, "begun", "mixed"}

InLogs(q, k) == \E i \in 1..Len(logs[q]) : logs[q][i] = k

Init ==
  /\ status = [k \in Cmds |-> "none"]
  /\ cmdDev = [k \in Cmds |-> None]
  /\ completed = [k \in Cmds |-> FALSE]
  /\ result = [k \in Cmds |-> "none"]
  /\ old = [k \in Cmds |-> FALSE]
  /\ exists = [d \in Devices |-> TRUE]
  /\ link = [k \in Cmds |-> "none"]
  /\ outcome = [k \in Cmds |-> "none"]
  /\ reqAt = [q \in Requests |-> "idle"]
  /\ todo = [q \in Requests |-> {}]
  /\ logs = [q \in Requests |-> <<>>]
  /\ rdAt = [r \in Readers |-> "idle"]
  /\ rdCmd = [r \in Readers |-> None]
  /\ rdMark = [r \in Readers |-> "none"]
  /\ shot = [d \in Devices |-> None]
  /\ dbFaults = 0
  /\ crashed = FALSE
  /\ cutOff = {}

\* a statement that fails; its error is ignored or ends one iteration
DbFault == /\ dbFaults < MaxDbFaults
           /\ dbFaults' = dbFaults + 1
           /\ UNCHANGED rowVars

-----------------------------------------------------------------------------
(* A request: one device, or all online members of a group; then one row   *)
(* per device; then, row by row, SendToDevice and MarkSent.  What it reads *)
(* in is_online may be TRUE or FALSE for any device with a row: handlers,  *)
(* heartbeats and the worker write it at any time (DeviceHub).             *)

Begin(q, devices) ==
  /\ reqAt[q] = "idle"
  /\ reqAt' = [reqAt EXCEPT ![q] = "creating"]
  /\ todo' = [todo EXCEPT ![q] = devices]
  /\ UNCHANGED <<rowVars, old, exists, netVars, logs, rdVars, shot, dbFaults, crashed, cutOff>>

\* SendCommand reads the device; a missing or offline one ends the request
SendCommand(q, d) == exists[d] /\ Begin(q, {d})

\* BulkSendCommand reads the members of the group, and which are online, once
BulkSendCommand(q) ==
  \E online \in SUBSET {d \in Members : exists[d]} : Begin(q, online)

Insert(k, d) ==
  /\ exists[d] /\ status[k] = "none"
  /\ status' = [status EXCEPT ![k] = "PENDING"]
  /\ cmdDev' = [cmdDev EXCEPT ![k] = d]
  /\ UNCHANGED <<completed, result>>

\* the INSERT of one row; a device deleted meanwhile violates the foreign key; a row
\* may be in the table though an error is reported, and is in no list then
Create(q, d) ==
  /\ reqAt[q] = "creating" /\ d \in todo[q]
  /\ todo' = [todo EXCEPT ![q] = @ \ {d}]
  /\ \/ \E k \in Cmds : /\ Insert(k, d)
                        /\ logs' = [logs EXCEPT ![q] = Append(@, k)]
                        /\ UNCHANGED <<dbFaults, cutOff>>
     \/ \E k \in Cmds : /\ Insert(k, d)
                        /\ dbFaults < MaxDbFaults /\ dbFaults' = dbFaults + 1
                        /\ cutOff' = cutOff \cup {k}
                        /\ UNCHANGED logs
     \/ ~exists[d] /\ UNCHANGED <<rowVars, logs, dbFaults, cutOff>>
     \/ DbFault /\ UNCHANGED <<logs, cutOff>>
  /\ UNCHANGED <<reqAt, old, exists, netVars, rdVars, shot, crashed>>

AllCreated(q) ==
  /\ reqAt[q] = "creating" /\ todo[q] = {}
  /\ reqAt' = [reqAt EXCEPT ![q] = "dispatching"]
  /\ UNCHANGED <<rowVars, old, exists, netVars, todo, logs, rdVars, shot, dbFaults, crashed, cutOff>>

Reached(k, l) == link' = [link EXCEPT ![k] = l]

\* mutant: the row leaves the list before it is marked
HandedAndPopped(q, k) ==
  /\ Reached(k, "queued") \/ Reached(k, "dropped")
  /\ reqAt' = [reqAt EXCEPT ![q] = "marking"]
  /\ logs' = [logs EXCEPT ![q] = Tail(@)]

\* SendToDevice returns nil: next is MarkSent for the same row
Handed(q, k) ==
  /\ Reached(k, "queued") \/ Reached(k, "dropped")
  /\ reqAt' = [reqAt EXCEPT ![q] = "marking"]
  /\ UNCHANGED logs

\* mutants: the error is ignored; it ends the loop
MarkAnyway(q) == reqAt' = [reqAt EXCEPT ![q] = "marking"] /\ UNCHANGED logs
GiveUp(q)     == logs' = [logs EXCEPT ![q] = <<>>] /\ UNCHANGED reqAt

\* SendToDevice returns an error: on to the next row
Skip(q) ==
  /\ logs' = [logs EXCEPT ![q] = Tail(@)]
  /\ UNCHANGED reqAt

\* SendToDevice: whether the hub has a client for the device, and whether that is open,
\* full or closed, is the hub's business and need not agree with is_online
Dispatch(q) ==
  LET k == Head(logs[q]) IN
  /\ reqAt[q] = "dispatching" /\ logs[q] # <<>>
  /\ \/ Handed(q, k)
     \/ Reached(k, "refused") /\ Skip(q)
  /\ UNCHANGED <<rowVars, old, exists, outcome, todo, rdVars, shot, dbFaults, crashed, cutOff>>

\* UPDATE ... SET status = 'SENT' WHERE id = $1, whatever the status is by now
MarkSent(q) ==
  LET k == Head(logs[q]) IN
  /\ reqAt[q] = "marking"
  /\ reqAt' = [reqAt EXCEPT ![q] = "dispatching"]
  /\ logs' = [logs EXCEPT ![q] = Tail(@)]
  /\ \/ /\ status' = [status EXCEPT ![k] = IF @ \in Stored THEN "SENT" ELSE @]
        /\ UNCHANGED <<cmdDev, completed, result, dbFaults, cutOff>>
     \/ DbFault /\ cutOff' = cutOff \cup {k}
  /\ UNCHANGED <<old, exists, netVars, todo, rdVars, shot, crashed>>

Respond(q) ==
  /\ reqAt[q] = "dispatching" /\ logs[q] = <<>>
  /\ reqAt' = [reqAt EXCEPT ![q] = "done"]
  /\ UNCHANGED <<rowVars, old, exists, netVars, todo, logs, rdVars, shot, dbFaults, crashed, cutOff>>

-----------------------------------------------------------------------------
(* The device and its connection, as far as commands see them. *)

Receive(k) ==
  /\ link[k] = "queued"
  /\ Reached(k, "received")
  /\ UNCHANGED <<rowVars, old, exists, outcome, reqVars, rdVars, shot, dbFaults, crashed, cutOff>>

Answer(k) ==
  /\ link[k] = "received"
  /\ Reached(k, "answered")
  /\ \E s \in Completed : outcome' = [outcome EXCEPT ![k] = s]
  /\ UNCHANGED <<rowVars, old, exists, reqVars, rdVars, shot, dbFaults, crashed, cutOff>>

\* the connection of d ends, with what its channel holds
Disconnect(d) ==
  LET gone == {k \in Cmds : link[k] = "queued" /\ cmdDev[k] = d} IN
  /\ gone # {}
  /\ link' = [k \in Cmds |-> IF k \in gone THEN "lost" ELSE link[k]]
  /\ UNCHANGED <<rowVars, old, exists, outcome, reqVars, rdVars, shot, dbFaults, crashed, cutOff>>

\* mutant: the command log has no ON DELETE CASCADE
DeleteDeviceOnly(d) ==
  /\ exists[d]
  /\ exists' = [exists EXCEPT ![d] = FALSE]
  /\ UNCHANGED <<rowVars, old, netVars, reqVars, rdVars, shot, dbFaults, crashed, cutOff>>

\* DELETE FROM devices, cascading to the command log; the hub is not told
DeleteDevice(d) ==
  /\ exists[d]
  /\ exists' = [exists EXCEPT ![d] = FALSE]
  /\ status' = [k \in Cmds |-> IF cmdDev[k] = d THEN "deleted" ELSE status[k]]
  /\ UNCHANGED <<cmdDev, completed, result, old, netVars, reqVars, rdVars,
                 shot, dbFaults, crashed, cutOff>>

-----------------------------------------------------------------------------
(* A result: HandleResult reads the row, saves a screenshot, and writes    *)
(* the row, in three steps of the read loop that got the message.          *)

FetchCommand(r, k) ==
  /\ rdAt[r] = "idle" /\ link[k] = "answered"
  /\ Reached(k, "read")
  /\ \/ /\ status[k] \in Stored
        /\ rdAt' = [rdAt EXCEPT ![r] = IF k \in Screenshots /\ outcome[k] = "SUCCESS"
                                       THEN "saving" ELSE "updating"]
        /\ rdCmd' = [rdCmd EXCEPT ![r] = k]
        /\ rdMark' = [rdMark EXCEPT ![r] = "data"]
        /\ UNCHANGED dbFaults
     \/ status[k] = "deleted" /\ UNCHANGED <<rdVars, dbFaults>>
     \/ DbFault /\ UNCHANGED rdVars
  /\ UNCHANGED <<rowVars, old, exists, outcome, reqVars, shot, crashed, cutOff>>

Writes(r, d) == rdAt[r] = "writing" /\ cmdDev[rdCmd[r]] = d

\* WriteFile opens {device}.jpg and empties it; without data, or if the file cannot be
\* opened, the result is kept as it came
OpenImage(r) ==
  LET d == cmdDev[rdCmd[r]] IN
  /\ rdAt[r] = "saving"
  /\ \/ /\ rdAt' = [rdAt EXCEPT ![r] = "writing"]
        /\ shot' = [shot EXCEPT ![d] = IF \E o \in Readers : Writes(o, d) THEN "mixed" ELSE "begun"]
     \/ /\ rdAt' = [rdAt EXCEPT ![r] = "updating"]
        /\ UNCHANGED shot
  /\ UNCHANGED <<rowVars, old, exists, netVars, reqVars, rdCmd, rdMark, dbFaults, crashed, cutOff>>

\* mutant: the error of WriteFile is ignored
WriteUnchecked(r) ==
  LET k == rdCmd[r] IN
  /\ rdAt[r] = "writing"
  /\ rdAt' = [rdAt EXCEPT ![r] = "updating"]
  /\ rdMark' = [rdMark EXCEPT ![r] = "SCREENSHOT_SAVED"]
  /\ \E f \in {k, shot[cmdDev[k]]} : shot' = [shot EXCEPT ![cmdDev[k]] = f]
  /\ UNCHANGED <<rowVars, old, exists, netVars, reqVars, rdCmd, dbFaults, crashed, cutOff>>

\* the bytes; nothing keeps two read loops from writing the file of a device together
WriteImage(r) ==
  LET k == rdCmd[r]
      d == cmdDev[k]
  IN /\ rdAt[r] = "writing"
     /\ rdAt' = [rdAt EXCEPT ![r] = "updating"]
     /\ \/ /\ shot' \in {[shot EXCEPT ![d] = k]} \cup
                        (IF shot[d] = "begun" THEN {} ELSE {[shot EXCEPT ![d] = "mixed"]})
           /\ rdMark' = [rdMark EXCEPT ![r] = "SCREENSHOT_SAVED"]
        \/ /\ shot' = [shot EXCEPT ![d] = IF @ = "begun" THEN @ ELSE "mixed"]
           /\ UNCHANGED rdMark
     /\ UNCHANGED <<rowVars, old, exists, netVars, reqVars, rdCmd, dbFaults, crashed, cutOff>>

\* mutant: a result is a success
VerdictSuccess(r) == "SUCCESS"

\* what the result message says
Verdict(r) == outcome[rdCmd[r]]

UpdateStatus(r) ==
  LET k == rdCmd[r] IN
  /\ rdAt[r] = "updating"
  /\ rdAt' = [rdAt EXCEPT ![r] = "idle"]
  /\ rdCmd' = [rdCmd EXCEPT ![r] = None]
  /\ rdMark' = [rdMark EXCEPT ![r] = "none"]
  /\ \/ /\ status[k] \in Stored
        /\ status' = [status EXCEPT ![k] = Verdict(r)]
        /\ completed' = [completed EXCEPT ![k] = TRUE]
        /\ result' = [result EXCEPT ![k] = rdMark[r]]
        /\ UNCHANGED <<cmdDev, dbFaults>>
     \/ status[k] = "deleted" /\ UNCHANGED <<rowVars, dbFaults>>
     \/ DbFault
  /\ UNCHANGED <<old, exists, netVars, reqVars, shot, crashed, cutOff>>

-----------------------------------------------------------------------------
(* The worker, time, and the process. *)

\* mutants: any old row times out; rows that were never sent do
TimedOutAny(k)     == status[k] \in Stored /\ old[k]
TimedOutPending(k) == status[k] = "PENDING" /\ old[k]

TimedOut(k) == status[k] = "SENT" /\ old[k]

MarkTimeouts ==
  /\ \/ /\ status' = [k \in Cmds |-> IF TimedOut(k) THEN "TIMEOUT" ELSE status[k]]
        /\ completed' = [k \in Cmds |-> completed[k] \/ TimedOut(k)]
        /\ UNCHANGED <<cmdDev, result, dbFaults>>
     \/ DbFault
  /\ UNCHANGED <<old, exists, netVars, reqVars, rdVars, shot, crashed, cutOff>>

\* a minute has passed since created_at
RowAges(k) ==
  /\ status[k] \in Stored /\ ~old[k]
  /\ old' = [old EXCEPT ![k] = TRUE]
  /\ UNCHANGED <<rowVars, exists, netVars, reqVars, rdVars, shot, dbFaults, crashed, cutOff>>

\* requests and read loops die, connections and channels are gone, rows stay, and
\* files, but for those that were being written; bound: once
Crash ==
  /\ ~crashed
  /\ crashed' = TRUE
  /\ reqAt' = [q \in Requests |-> IF reqAt[q] = "idle" THEN "idle" ELSE "done"]
  /\ todo' = [q \in Requests |-> {}]
  /\ logs' = [q \in Requests |-> <<>>]
  /\ rdAt' = [r \in Readers |-> "idle"]
  /\ rdCmd' = [r \in Readers |-> None]
  /\ rdMark' = [r \in Readers |-> "none"]
  /\ link' = [k \in Cmds |-> IF link[k] = "queued" THEN "lost" ELSE link[k]]
  /\ shot' = [d \in Devices |-> IF \E r \in Readers : Writes(r, d) THEN "mixed" ELSE shot[d]]
  /\ cutOff' = cutOff \cup {k \in Cmds : \E q \in Requests : InLogs(q, k)}
  /\ UNCHANGED <<rowVars, old, exists, outcome, dbFaults>>

-----------------------------------------------------------------------------
Request(q) ==
  \/ \E d \in Devices : Create(q, d)
  \/ AllCreated(q)
  \/ Dispatch(q)
  \/ MarkSent(q)
  \/ Respond(q)

ReadLoop(r) ==
  \/ \E k \in Cmds : FetchCommand(r, k)
  \/ OpenImage(r)
  \/ WriteImage(r)
  \/ UpdateStatus(r)

Next ==
  \/ \E q \in Requests : \/ \E d \in Devices : SendCommand(q, d)
                         \/ BulkSendCommand(q)
                         \/ Request(q)
  \/ \E r \in Readers : ReadLoop(r)
  \/ \E k \in Cmds : Receive(k) \/ Answer(k) \/ RowAges(k)
  \/ \E d \in Devices : Disconnect(d) \/ DeleteDevice(d)
  \/ MarkTimeouts
  \/ Crash

Spec == Init /\ [][Next]_vars

(* A request, and a read loop that has a result, go on; time passes; the   *)
(* worker ticks every minute.  No device need connect, answer, or have its *)
(* answer read: its connection may be gone.                                *)
Fairness ==
  /\ \A q \in Requests : WF_vars(Request(q))
  /\ \A r \in Readers : WF_vars(OpenImage(r) \/ WriteImage(r) \/ UpdateStatus(r))
  /\ \A k \in Cmds : WF_vars(RowAges(k))
  /\ WF_vars(MarkTimeouts)

FairSpec == Spec /\ Fairness

-----------------------------------------------------------------------------
(* Properties *)

\* The variables keep their types, and the fields of a row, a request and a read
\* loop fit the state it is in.
TypeOK ==
  /\ status \in [Cmds -> Stored \cup {"none", "deleted"}]
  /\ cmdDev \in [Cmds -> Devices \cup {None}]
  /\ completed \in [Cmds -> BOOLEAN]
  /\ result \in [Cmds -> {"none", "data", "SCREENSHOT_SAVED"}]
  /\ old \in [Cmds -> BOOLEAN]
  /\ exists \in [Devices -> BOOLEAN]
  /\ link \in [Cmds -> Links]
  /\ outcome \in [Cmds -> Completed \cup {"none"}]
  /\ reqAt \in [Requests -> {"idle", "creating", "dispatching", "marking", "done"}]
  /\ todo \in [Requests -> SUBSET Devices]
  /\ logs \in [Requests -> Seq(Cmds)]
  /\ rdAt \in [Readers -> {"idle", "saving", "writing", "updating"}]
  /\ rdCmd \in [Readers -> Cmds \cup {None}]
  /\ rdMark \in [Readers -> {"none", "data", "SCREENSHOT_SAVED"}]
  /\ shot \in [Devices -> Files]
  /\ dbFaults \in 0..MaxDbFaults
  /\ crashed \in BOOLEAN
  /\ cutOff \subseteq Cmds
  /\ \A k \in Cmds : status[k] # "none" => cmdDev[k] \in Devices
  /\ \A q \in Requests : reqAt[q] = "marking" => logs[q] # <<>>
  /\ \A r \in Readers : rdAt[r] # "idle" => rdCmd[r] \in Cmds

\* A row that says SUCCESS or FAILED says what the device answered, however the
\* answer, the timeout, MarkSent and the deletion of the device were ordered.
OutcomeReported ==
  \A k \in Cmds : status[k] \in Completed => link[k] = "read" /\ outcome[k] = status[k]

\* A row says SENT, or TIMEOUT, only if SendToDevice returned nil for its command,
\* whatever became of the other rows of a bulk request.  It says no more: the message
\* may have been dropped at a full channel, and then was never sent to the device.
SentReturnedNil ==
  \A k \in Cmds : status[k] \in {"SENT", "TIMEOUT"} => link[k] \in ReturnedNil

\* No row outlives its device: the insert of a request and the late update of a
\* read loop meet the deletion in any order.
RowsHaveDevice ==
  \A k \in Cmds : status[k] \in Stored => exists[cmdDev[k]]

\* A row that no request is to dispatch any more is left PENDING for a reason of its
\* own: SendToDevice refused it, a statement on it failed, or its request died.  What
\* fails for one row of a bulk request makes it forget no other.
PendingExplained ==
  \A k \in Cmds :
    status[k] = "PENDING" /\ (\A q \in Requests : ~InLogs(q, k)) =>
      link[k] = "refused" \/ k \in cutOff

\* the image of j, another screenshot of the device of k, came to be saved
Rival(j, k) ==
  /\ j # k /\ j \in Screenshots /\ cmdDev[j] = cmdDev[k]
  /\ link[j] = "read" /\ outcome[j] = "SUCCESS"

\* A row that says its screenshot was saved has a whole image of its device, unless
\* another image of the device is being saved, failed half way or was cut off by a
\* crash (its own row does not say it was saved), or was written at the same time.
ScreenshotBacked ==
  \A k \in Cmds : result[k] = "SCREENSHOT_SAVED" =>
    \/ shot[cmdDev[k]] \in Cmds
    \/ \E j \in Cmds : /\ Rival(j, k)
                       /\ result[j] = "SCREENSHOT_SAVED" => shot[cmdDev[k]] = "mixed"

MarkingCmd(k) == \E q \in Requests : reqAt[q] = "marking" /\ Head(logs[q]) = k

\* Once the request that sent it is past MarkSent, a command keeps its result: no
\* timeout and no other read loop takes it away; only its device's deletion does.
ResultsStay ==
  [][\A k \in Cmds : status[k] \in Completed /\ ~MarkingCmd(k) =>
       status'[k] \in {status[k], "deleted"}]_vars

\* The rows live as CommandLog says: while requests, read loops, the worker and
\* deletions interleave, a row is marked sent once at most and answered once at
\* most, and nothing else takes a status away but the timeout of a SENT row and
\* the deletion of the device.
Log == INSTANCE CommandLog WITH
  open    <- {k \in Cmds : \E q \in Requests : InLogs(q, k)},
  awaited <- {k \in Cmds : link[k] # "read" \/ \E r \in Readers : rdCmd[r] = k}

ImplementsCommandLog == Log!Spec

\* No command waits for its result forever: SENT is left, by the answer or by the
\* worker, and not entered again for ever.
SentResolves == \A k \in Cmds : <>[](status[k] # "SENT")

(* An expectation the code states and does not meet. *)

\* command_repo.go:97: a command times out that has been sent but not completed.
CompletedNeverTimesOut ==
  [][\A k \in Cmds : status[k] # "TIMEOUT" /\ status'[k] = "TIMEOUT" => ~completed[k]]_vars

=============================================================================
