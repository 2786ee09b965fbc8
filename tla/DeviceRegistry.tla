--------------------------- MODULE DeviceRegistry ---------------------------
(***************************************************************************)
(* The tables devices, groups and device_status: the requests that create, *)
(* change and delete devices and groups (handler/device_handler.go,        *)
(* group_handler.go, their services and repositories, the foreign keys of  *)
(* migrations/), the token a device is given once and connects with, and   *)
(* the read loops of its connections that store what it reports            *)
(* (HEARTBEAT and DEVICE_INFO of handleDeviceMessage in main.go).  Nothing *)
(* ends the connections of a device that is deleted, and an old connection *)
(* may have messages left when a new one begins.                           *)
(*                                                                         *)
(* A step is one statement; row locks and foreign keys make concurrent     *)
(* ones serial.  A reported value is the number of the message that        *)
(* brought it, and messages are numbered as the device sends them; 0 is    *)
(* NULL.  The columns is_online and last_seen are those of DeviceHub.      *)
(***************************************************************************)
EXTENDS Naturals, Sequences, FiniteSets

CONSTANTS
  Devices,      \* rows of devices, each made by one POST /api/devices
  Groups,       \* rows of groups, each made by one POST /api/groups
  GroupNames,
  Loops,        \* device connections, each with its read loop
  Fields,       \* columns of device_status
  None,
  MaxMessages,  \* bound: messages devices send in a run
  MaxDbFaults   \* bound: statements that fail in a run

ASSUME NoneAssumption == /\ None \notin Devices \cup Groups \cup GroupNames
                         /\ None \notin [Fields -> 0..MaxMessages]
ASSUME BoundsAssumption == MaxMessages \in Nat /\ MaxDbFaults \in Nat

VARIABLES
  creating,   \* where the request that creates a device is
  issued,     \* the devices whose raw token was answered
  devices,    \* the table
  deleted,    \* rows a DELETE removed; their ids do not come again
  groupOf,    \* devices.group_id
  model,      \* devices.device_model, android_version and agent_version
  groupName,  \* the table groups: its name, None if there is no such row
  usedGroups, \* group ids there have been
  status,     \* device_status: its columns, None if the device has no row
  deviceOf,   \* the device of a connection, None before it is opened
  open,       \* the connections a device can send on
  inbox,      \* messages sent on a connection and not read yet
  stored,     \* messages of a connection whose statement succeeded
  sent,       \* messages sent so far
  dbFaults

deviceVars  == <<creating, issued, devices, deleted, groupOf>>
groupVars   == <<groupName, usedGroups>>
reportVars  == <<model, status, stored>>
loopVars    == <<deviceOf, open, inbox, sent>>
vars == <<deviceVars, groupVars, reportVars, loopVars, dbFaults>>

groups == {g \in Groups : groupName[g] # None}

Heartbeat == [n : 1..MaxMessages, type : {"HEARTBEAT"}, fields : SUBSET Fields]
DeviceInfo == [n : 1..MaxMessages, type : {"DEVICE_INFO"}, fields : {{}}]
Message == Heartbeat \cup DeviceInfo

Columns == [Fields -> 0..MaxMessages]

Init ==
  /\ creating = [d \in Devices |-> "idle"]
  /\ issued = {} /\ devices = {} /\ deleted = {}
  /\ groupOf = [d \in Devices |-> None]
  /\ model = [d \in Devices |-> 0]
  /\ groupName = [g \in Groups |-> None]
  /\ usedGroups = {}
  /\ status = [d \in Devices |-> None]
  /\ deviceOf = [l \in Loops |-> None]
  /\ open = {}
  /\ inbox = [l \in Loops |-> <<>>]
  /\ stored = [l \in Loops |-> {}]
  /\ sent = 0
  /\ dbFaults = 0

DbFault == dbFaults < MaxDbFaults /\ dbFaults' = dbFaults + 1

-----------------------------------------------------------------------------
(* POST /api/devices: a fresh token, the row with its hash, the answer.    *)

CreateStep(d, from, to) == /\ creating[d] = from
                           /\ creating' = [creating EXCEPT ![d] = to]

RequestCreate(d) ==
  /\ CreateStep(d, "idle", "inserting")
  /\ UNCHANGED <<issued, devices, deleted, groupOf, groupVars, reportVars, loopVars, dbFaults>>

\* mutant: the error of the INSERT is ignored
InsertDeviceUnchecked(d) ==
  /\ CreateStep(d, "inserting", "replying")
  /\ \/ devices' = devices \cup {d} /\ UNCHANGED dbFaults
     \/ DbFault /\ UNCHANGED devices
  /\ UNCHANGED <<issued, deleted, groupOf, groupVars, reportVars, loopVars>>

\* an INSERT whose error is reported may have been committed all the same
InsertDevice(d) ==
  /\ \/ CreateStep(d, "inserting", "replying") /\ devices' = devices \cup {d} /\ UNCHANGED dbFaults
     \/ CreateStep(d, "inserting", "done") /\ DbFault /\ devices' \in {devices, devices \cup {d}}
  /\ UNCHANGED <<issued, deleted, groupOf, groupVars, reportVars, loopVars>>

\* the answer has the raw token, which nothing keeps; it may get lost
ReplyCreated(d) ==
  /\ CreateStep(d, "replying", "done")
  /\ issued' \in {issued, issued \cup {d}}
  /\ UNCHANGED <<devices, deleted, groupOf, groupVars, reportVars, loopVars, dbFaults>>

-----------------------------------------------------------------------------
(* DELETE and PUT /api/devices/:id.                                        *)

\* device_status goes with its device, by cascade
DeleteDevice(d) ==
  /\ d \in devices
  /\ devices' = devices \ {d}
  /\ deleted' = deleted \cup {d}
  /\ groupOf' = [groupOf EXCEPT ![d] = None]
  /\ model' = [model EXCEPT ![d] = 0]
  /\ status' = [status EXCEPT ![d] = None]
  /\ UNCHANGED <<creating, issued, groupVars, stored, loopVars, dbFaults>>

\* the request names a group it has seen, which may be gone: then the statement
\* fails; without the device it changes nothing
UpdateDevice(d, g) ==
  /\ d \in devices
  /\ g \in groups \cup {None}
  /\ groupOf' = [groupOf EXCEPT ![d] = g]
  /\ UNCHANGED <<creating, issued, devices, deleted, groupVars, reportVars, loopVars, dbFaults>>

-----------------------------------------------------------------------------
(* POST /api/groups and DELETE /api/groups/:id.                            *)

\* groups.name is UNIQUE
CreateGroup(g, n) ==
  /\ g \notin usedGroups
  /\ \A h \in Groups : groupName[h] # n
  /\ groupName' = [groupName EXCEPT ![g] = n]
  /\ usedGroups' = usedGroups \cup {g}
  /\ UNCHANGED <<deviceVars, reportVars, loopVars, dbFaults>>

\* mutant: group_id has no foreign key
DeleteGroupOnly(g) ==
  /\ g \in groups
  /\ groupName' = [groupName EXCEPT ![g] = None]
  /\ UNCHANGED <<usedGroups, deviceVars, reportVars, loopVars, dbFaults>>

\* ON DELETE SET NULL
DeleteGroup(g) ==
  /\ g \in groups
  /\ groupName' = [groupName EXCEPT ![g] = None]
  /\ groupOf' = [d \in Devices |-> IF groupOf[d] = g THEN None ELSE groupOf[d]]
  /\ UNCHANGED <<usedGroups, creating, issued, devices, deleted, reportVars, loopVars, dbFaults>>

-----------------------------------------------------------------------------
(* Connections and what they report.                                       *)

\* mutant: the device id does not get from the upgrade to the connection
ConnectUnnamed(l, d) ==
  /\ deviceOf[l] = None
  /\ d \in issued \cap devices
  /\ open' = open \cup {l}
  /\ UNCHANGED <<deviceVars, groupVars, reportVars, deviceOf, inbox, sent, dbFaults>>

\* AuthenticateDevice finds the row of the hash, or the upgrade is refused
DeviceConnects(l, d) ==
  /\ deviceOf[l] = None
  /\ d \in issued \cap devices
  /\ deviceOf' = [deviceOf EXCEPT ![l] = d]
  /\ open' = open \cup {l}
  /\ UNCHANGED <<deviceVars, groupVars, reportVars, inbox, sent, dbFaults>>

DeviceSends(l, type, fields) ==
  /\ l \in open /\ sent < MaxMessages
  /\ sent' = sent + 1
  /\ inbox' = [inbox EXCEPT ![l] = Append(@, [n |-> sent + 1, type |-> type, fields |-> fields])]
  /\ UNCHANGED <<deviceVars, groupVars, reportVars, deviceOf, open, dbFaults>>

\* the connection is closed; what was not read yet is read still, or lost
ConnectionEnds(l) ==
  /\ l \in open
  /\ open' = open \ {l}
  /\ inbox' \in {inbox, [inbox EXCEPT ![l] = <<>>]}
  /\ UNCHANGED <<deviceVars, groupVars, reportVars, deviceOf, sent, dbFaults>>

\* mutant: the arguments of COALESCE are swapped
MergeKeepingOld(row, m) ==
  [f \in Fields |-> IF f \in m.fields /\ (row = None \/ row[f] = 0) THEN m.n
                    ELSE IF row = None THEN 0 ELSE row[f]]

\* the row after INSERT ... ON CONFLICT DO UPDATE SET f = COALESCE(new, old)
Merge(row, m) ==
  [f \in Fields |-> IF f \in m.fields THEN m.n
                    ELSE IF row = None THEN 0 ELSE row[f]]

Read(l, m) == /\ inbox[l] # <<>> /\ m = Head(inbox[l])
              /\ inbox' = [inbox EXCEPT ![l] = Tail(@)]
              /\ UNCHANGED <<deviceVars, groupVars, deviceOf, open, sent>>

\* of a device that was deleted a heartbeat is refused by the foreign key
Upsert(l) ==
  LET m == Head(inbox[l])
      d == deviceOf[l]
  IN /\ Read(l, m) /\ m.type = "HEARTBEAT"
     /\ \/ /\ d \in devices
           /\ status' = [status EXCEPT ![d] = Merge(status[d], m)]
           /\ stored' = [stored EXCEPT ![l] = @ \cup {m}]
           /\ UNCHANGED dbFaults
        \/ d \notin devices /\ UNCHANGED <<status, stored, dbFaults>>
        \/ DbFault /\ UNCHANGED <<status, stored>>
     /\ UNCHANGED model

\* and DEVICE_INFO finds no row to update
UpdateDeviceInfo(l) ==
  LET m == Head(inbox[l])
      d == deviceOf[l]
  IN /\ Read(l, m) /\ m.type = "DEVICE_INFO"
     /\ \/ /\ d \in devices
           /\ model' = [model EXCEPT ![d] = m.n]
           /\ stored' = [stored EXCEPT ![l] = @ \cup {m}]
           /\ UNCHANGED dbFaults
        \/ d \notin devices /\ UNCHANGED <<model, stored, dbFaults>>
        \/ DbFault /\ UNCHANGED <<model, stored>>
     /\ UNCHANGED status

\* the process dies with its requests and connections; a new one has the tables
Crash ==
  /\ \/ \E d \in Devices : creating[d] \in {"inserting", "replying"}
     \/ \E l \in Loops : l \in open \/ inbox[l] # <<>>
  /\ creating' = [d \in Devices |->
                    IF creating[d] \in {"inserting", "replying"} THEN "done" ELSE creating[d]]
  /\ open' = {}
  /\ inbox' = [l \in Loops |-> <<>>]
  /\ UNCHANGED <<issued, devices, deleted, groupOf, groupVars, reportVars, deviceOf, sent, dbFaults>>

-----------------------------------------------------------------------------
Next ==
  \/ \E d \in Devices : \/ RequestCreate(d) \/ InsertDevice(d) \/ ReplyCreated(d)
                        \/ DeleteDevice(d)
                        \/ \E g \in Groups \cup {None} : UpdateDevice(d, g)
                        \/ \E l \in Loops : DeviceConnects(l, d)
  \/ \E g \in Groups : DeleteGroup(g) \/ \E n \in GroupNames : CreateGroup(g, n)
  \/ \E l \in Loops : \/ \E F \in SUBSET Fields : DeviceSends(l, "HEARTBEAT", F)
                      \/ DeviceSends(l, "DEVICE_INFO", {})
                      \/ ConnectionEnds(l) \/ Upsert(l) \/ UpdateDeviceInfo(l)
  \/ Crash

Spec == Init /\ [][Next]_vars

-----------------------------------------------------------------------------
(* Properties *)

\* The variables keep their types, and messages wait in the order they were sent.
TypeOK ==
  /\ creating \in [Devices -> {"idle", "inserting", "replying", "done"}]
  /\ issued \subseteq Devices /\ devices \subseteq Devices /\ deleted \subseteq Devices
  /\ groupOf \in [Devices -> Groups \cup {None}]
  /\ model \in [Devices -> 0..MaxMessages]
  /\ groupName \in [Groups -> GroupNames \cup {None}]
  /\ groups \subseteq usedGroups /\ usedGroups \subseteq Groups
  /\ status \in [Devices -> Columns \cup {None}]
  /\ deviceOf \in [Loops -> Devices \cup {None}]
  /\ open \subseteq {l \in Loops : deviceOf[l] # None}
  /\ inbox \in [Loops -> Seq(Message)]
  /\ stored \in [Loops -> SUBSET Message]
  /\ \A l \in Loops : deviceOf[l] = None => inbox[l] = <<>> /\ stored[l] = {}
  /\ sent \in 0..MaxMessages
  /\ dbFaults \in 0..MaxDbFaults

\* A token that was answered is the token of a row, until a DELETE of that device:
\* neither a failing INSERT nor a crash gives a device a token that is refused.
IssuedTokensWork == issued \subseteq devices \cup deleted

\* What refers to a row refers to one that exists: no request, and no message of a
\* connection that outlives its device, brings back a deleted device, leaves data
\* of it, or puts a device in a group that is gone; and no name is used twice.
ReferencesHold ==
  /\ devices \cap deleted = {}
  /\ \A d \in Devices : /\ groupOf[d] \in groups \cup {None}
                        /\ d \notin devices => /\ groupOf[d] = None /\ model[d] = 0
                                               /\ status[d] = None
  /\ \A g, h \in groups : groupName[g] = groupName[h] => g = h

\* by connection, the numbers of its stored messages that bring a value
Brought(f) ==
  [l \in Loops |-> {m.n : m \in {x \in stored[l] : x.type = "HEARTBEAT" /\ f \in x.fields}}]
BroughtModel == [l \in Loops |-> {m.n : m \in {x \in stored[l] : x.type = "DEVICE_INFO"}}]

\* value is the newest one of some connection of the device, or NULL if there is none
NewestOfOne(d, value, brought) ==
  \/ value = 0 /\ \A l \in Loops : deviceOf[l] = d => brought[l] = {}
  \/ \E l \in Loops : /\ deviceOf[l] = d /\ value \in brought[l]
                      /\ \A n \in brought[l] : n <= value

Shown(d, f) == IF status[d] = None THEN 0 ELSE status[d][f]

\* What a device shows in a field is the newest value that was stored from one of
\* its connections: heartbeats without the field do not clear it, and only another
\* connection, never an earlier message of the same one, can put back an older one.
StatusIsFresh ==
  \A d \in devices : /\ NewestOfOne(d, model[d], BroughtModel)
                     /\ \A f \in Fields : NewestOfOne(d, Shown(d, f), Brought(f))

=============================================================================
