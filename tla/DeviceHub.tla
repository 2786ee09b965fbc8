----------------------------- MODULE DeviceHub -----------------------------
(***************************************************************************)
(* The life of the device connections of the MDM server: the WebSocket     *)
(* handler of a device (internal/websocket/handler.go), the hub that maps  *)
(* a device to its client (hub.go), the client with its bounded send       *)
(* channel and its two pumps (client.go), the senders that reach a device  *)
(* through the hub, the is_online / last_seen columns the handler writes,  *)
(* and the background worker that marks silent devices offline.            *)
(*                                                                         *)
(* Every connection has three goroutines at most: its handler (which       *)
(* becomes the read pump), its write pump, and whoever sends to it.  A     *)
(* step is what one goroutine does between two points where another one    *)
(* can be seen: a region under Hub.mu, a channel operation, a socket       *)
(* operation, a database statement, a broadcast.                           *)
(*                                                                         *)
(* A broadcast may panic, when another goroutine writes to the same        *)
(* dashboard, or stay in a write: HubLock has both in detail.  Here it is  *)
(* one step that may end its handler, or never be taken.  The wrapper of a *)
(* handler recovers; it then closes the socket, and gives the connection   *)
(* object back, so that a later Close on it panics too, or closes the      *)
(* connection that has the object now.                                     *)
(***************************************************************************)
EXTENDS Naturals, Sequences, FiniteSets

CONSTANTS
  Devices,      \* rows of the devices table
  Conns,        \* WebSocket connections; each is opened once
  Messages,     \* messages other goroutines send to devices, each one once
  Ack,          \* the ACK the handler queues for its own client
  None,         \* no connection, no message
  SendCap,      \* capacity of Client.send (64 in the code)
  MaxDbFaults   \* bound: database statements that fail in a run

ASSUME SendCapAssumption == SendCap \in Nat \ {0}
ASSUME FaultBoundAssumption == MaxDbFaults \in Nat
ASSUME NamesAssumption == /\ None \notin Devices \cup Conns \cup Messages \cup {Ack}
                          /\ Ack \notin Messages

VARIABLES
  pc,             \* where the handler goroutine of a connection is
  devOf,          \* Client.DeviceID
  deviceClients,  \* Hub.deviceClients: device -> the client of a connection
  closed,         \* Client.done is closed and conn is closed
  sendq,          \* Client.send
  writer,         \* where the write pump of a connection is
  inHand,         \* the message the write pump took and is writing
  wire,           \* the messages written to a connection
  fate,           \* where the goroutine that sends a message is
  target,         \* the client that goroutine found in the hub
  isOnline,       \* devices.is_online
  lastSeen,       \* devices.last_seen, against the worker's two minutes
  announced,      \* last DEVICE_ONLINE / DEVICE_OFFLINE a dashboard that watches got
  dbFaults        \* database statements that failed so far

connVars   == <<pc, devOf>>
hubVars    == <<deviceClients, closed>>
pumpVars   == <<sendq, writer, inHand, wire>>
senderVars == <<fate, target>>
dbVars     == <<isOnline, lastSeen, dbFaults>>
vars == <<connVars, hubVars, pumpVars, senderVars, dbVars, announced>>

-----------------------------------------------------------------------------
(* The states of the goroutines. *)

HandlerStates == {"new", "upgraded", "online", "registered", "acked",
                  "announced", "reading", "forwarding", "closing", "unregistered",
                  "stopped", "offline", "done",
                  "rejected", "abandoned", "panicking", "unwinding", "panicked"}

\* between RegisterDevice and the UnregisterDevice of its read pump; forwarding: the
\* read pump is in a broadcast; panicking: it left one by a panic
InHub == {"registered", "acked", "announced", "reading", "forwarding", "closing", "panicking"}

\* from RegisterDevice on; abandoned: the first broadcast panicked; panicked: a later
\* call did, and the deferred calls of readPump have run
WasRegistered == InHub \cup {"unregistered", "unwinding", "stopped", "offline", "done",
                             "abandoned", "panicked"}

\* the handler has told the dashboards "online" and not yet "offline"
OwesOffline == {"announced", "reading", "forwarding", "closing", "unregistered",
                "stopped", "offline"}

\* rejected: RegisterDevice panicked
Ended == {"done", "rejected", "abandoned", "panicked"}

Running(c) == pc[c] \notin {"new"} \cup Ended

WriterStates == {"none", "selecting", "writing", "returning", "exited"}

\* idle: not sent yet; held: the hub was read, Send is still to come; queued and
\* dropped: Send returned nil; refused: ErrDeviceNotConnected; lost: the
\* goroutine died with the process
Fates == {"idle", "held", "queued", "dropped", "refused", "lost"}

Payloads == Messages \cup {Ack}

InQueue(m, c) == \E i \in 1..Len(sendq[c]) : sendq[c][i] = m

-----------------------------------------------------------------------------
Init ==
  /\ pc = [c \in Conns |-> "new"]
  /\ devOf = [c \in Conns |-> None]
  /\ deviceClients = [d \in Devices |-> None]
  /\ closed = [c \in Conns |-> FALSE]
  /\ sendq = [c \in Conns |-> <<>>]
  /\ writer = [c \in Conns |-> "none"]
  /\ inHand = [c \in Conns |-> None]
  /\ wire = [c \in Conns |-> {}]
  /\ fate = [m \in Messages |-> "idle"]
  /\ target = [m \in Messages |-> None]
  /\ isOnline = [d \in Devices |-> FALSE]
  /\ lastSeen = [d \in Devices |-> "never"]
  /\ announced = [d \in Devices |-> "none"]
  /\ dbFaults = 0

-----------------------------------------------------------------------------
(* Database statements.  The handler ignores their errors: a statement     *)
(* takes effect, or fails and changes nothing.                             *)

DbFault == /\ dbFaults < MaxDbFaults
           /\ dbFaults' = dbFaults + 1
           /\ UNCHANGED <<isOnline, lastSeen>>

SetOnline(d, v) ==
  \/ /\ isOnline' = [isOnline EXCEPT ![d] = v]
     /\ lastSeen' = [lastSeen EXCEPT ![d] = "recent"]
     /\ UNCHANGED dbFaults
  \/ DbFault

TouchLastSeen(d) ==
  \/ /\ lastSeen' = [lastSeen EXCEPT ![d] = "recent"]
     /\ UNCHANGED <<isOnline, dbFaults>>
  \/ DbFault

-----------------------------------------------------------------------------
(* Client.Send: a select among the channel, done, and default.  Go picks   *)
(* any ready case, and default only when none is ready.                    *)

\* mutant: the channel takes one message too many
AcceptsOneTooMany(c) == Len(sendq[c]) <= SendCap

Accepts(c) == Len(sendq[c]) < SendCap
Refuses(c) == closed[c]
Drops(c)   == ~Accepts(c) /\ ~Refuses(c)

Push(c, m) == sendq' = [sendq EXCEPT ![c] = Append(@, m)]

-----------------------------------------------------------------------------
(* The handler of a device connection, in the order of its statements. *)

HandlerStep(c, from, to) == /\ pc[c] = from
                            /\ pc' = [pc EXCEPT ![c] = to]

\* the token of device d is accepted and the connection is upgraded
UpgradeCheck(c, d) ==
  /\ HandlerStep(c, "new", "upgraded")
  /\ devOf' = [devOf EXCEPT ![c] = d]
  /\ UNCHANGED <<hubVars, pumpVars, senderVars, dbVars, announced>>

MarkOnline(c) ==
  /\ HandlerStep(c, "upgraded", "online")
  /\ SetOnline(devOf[c], TRUE)
  /\ UNCHANGED <<devOf, hubVars, pumpVars, senderVars, announced>>

\* mutant: the existing client is replaced and not closed
RegisterWithoutClosing(c) ==
  /\ HandlerStep(c, "online", "registered")
  /\ deviceClients' = [deviceClients EXCEPT ![devOf[c]] = c]
  /\ UNCHANGED <<devOf, closed, pumpVars, senderVars, dbVars, announced>>

RegisterDevice(c) ==
  LET d == devOf[c]
      existing == deviceClients[d]
  IN /\ HandlerStep(c, "online", "registered")
     /\ closed' = [x \in Conns |-> closed[x] \/ x = existing]
     /\ deviceClients' = [deviceClients EXCEPT ![d] = c]
     /\ UNCHANGED <<devOf, pumpVars, senderVars, dbVars, announced>>

\* Close on the client of an abandoned connection closes done and then panics; the
\* lock is released, the entry stays, and the handler of c ends
Given(x) == x # None /\ pc[x] = "abandoned" /\ ~closed[x]

RegisterPanics(c) ==
  LET existing == deviceClients[devOf[c]]
  IN /\ HandlerStep(c, "online", "rejected")
     /\ Given(existing)
     /\ closed' = [x \in Conns |-> closed[x] \/ x = existing]
     /\ UNCHANGED <<devOf, deviceClients, pumpVars, senderVars, dbVars, announced>>

SendAck(c) ==
  /\ HandlerStep(c, "registered", "acked")
  /\ \/ Accepts(c) /\ Push(c, Ack)
     \/ (Refuses(c) \/ Drops(c)) /\ UNCHANGED sendq
  /\ UNCHANGED <<devOf, hubVars, writer, inHand, wire, senderVars, dbVars, announced>>

AnnounceOnline(c) ==
  /\ HandlerStep(c, "acked", "announced")
  /\ announced' = [announced EXCEPT ![devOf[c]] = "online"]
  /\ UNCHANGED <<devOf, hubVars, pumpVars, senderVars, dbVars>>

\* the broadcast panics after or before a dashboard that watches got the message:
\* Start is never called, and the client stays in the hub
AnnounceOnlinePanics(c) ==
  /\ HandlerStep(c, "acked", "abandoned")
  /\ announced' \in {announced, [announced EXCEPT ![devOf[c]] = "online"]}
  /\ UNCHANGED <<devOf, hubVars, pumpVars, senderVars, dbVars>>

\* mutant: go writePump() is missing
StartReaderOnly(c) ==
  /\ HandlerStep(c, "announced", "reading")
  /\ UNCHANGED <<devOf, hubVars, pumpVars, senderVars, dbVars, announced>>

\* go writePump(); readPump()
StartPumps(c) ==
  /\ HandlerStep(c, "announced", "reading")
  /\ writer' = [writer EXCEPT ![c] = "selecting"]
  /\ UNCHANGED <<devOf, hubVars, sendq, inHand, wire, senderVars, dbVars, announced>>

\* a heartbeat is read, possibly from what the closed socket still had buffered; the
\* columns are written and it is forwarded to the dashboards
Heartbeat(c) ==
  /\ HandlerStep(c, "reading", "forwarding")
  /\ SetOnline(devOf[c], TRUE)
  /\ UNCHANGED <<devOf, hubVars, pumpVars, senderVars, announced>>

\* a DEVICE_INFO message writes last_seen and not is_online
DeviceInfo(c) ==
  /\ HandlerStep(c, "reading", "forwarding")
  /\ TouchLastSeen(devOf[c])
  /\ UNCHANGED <<devOf, hubVars, pumpVars, senderVars, announced>>

\* a result, a frame or a signal, which other modules model, is forwarded too
OtherMessage(c) ==
  /\ HandlerStep(c, "reading", "forwarding")
  /\ UNCHANGED <<devOf, hubVars, pumpVars, senderVars, dbVars, announced>>

Forwarded(c) ==
  /\ HandlerStep(c, "forwarding", "reading")
  /\ UNCHANGED <<devOf, hubVars, pumpVars, senderVars, dbVars, announced>>

\* the deferred calls of readPump are all that is left of the handler
ForwardPanics(c) ==
  /\ HandlerStep(c, "forwarding", "panicking")
  /\ UNCHANGED <<devOf, hubVars, pumpVars, senderVars, dbVars, announced>>

\* ReadMessage fails: the peer is gone, no pong for pongWait, or conn is closed
ReadFails(c) ==
  /\ HandlerStep(c, "reading", "closing")
  /\ UNCHANGED <<devOf, hubVars, pumpVars, senderVars, dbVars, announced>>

ToUnregistered(c) == \/ HandlerStep(c, "closing", "unregistered")
                     \/ HandlerStep(c, "panicking", "unwinding")

\* mutant: the client is closed and stays in the map
UnregisterWithoutDelete(c) ==
  /\ ToUnregistered(c)
  /\ closed' = [x \in Conns |-> closed[x] \/ x = deviceClients[devOf[c]]]
  /\ UNCHANGED <<devOf, deviceClients, pumpVars, senderVars, dbVars, announced>>

\* mutant: the client leaves the map and is not closed
UnregisterWithoutClosing(c) ==
  /\ ToUnregistered(c)
  /\ deviceClients' = [deviceClients EXCEPT ![devOf[c]] = None]
  /\ UNCHANGED <<devOf, closed, pumpVars, senderVars, dbVars, announced>>

\* the deferred call of readPump: by device, whatever client the hub has for it
UnregisterDevice(c) ==
  LET d == devOf[c]
      client == deviceClients[d]
  IN /\ ToUnregistered(c)
     /\ closed' = [x \in Conns |-> closed[x] \/ x = client]
     /\ deviceClients' = [deviceClients EXCEPT ![d] = None]
     /\ UNCHANGED <<devOf, pumpVars, senderVars, dbVars, announced>>

\* that client is of an abandoned connection, and Close panics before the delete
UnregisterPanics(c) ==
  LET client == deviceClients[devOf[c]]
  IN /\ HandlerStep(c, "closing", "panicked") \/ HandlerStep(c, "panicking", "panicked")
     /\ Given(client)
     /\ closed' = [x \in Conns |-> closed[x] \/ x = client]
     /\ UNCHANGED <<devOf, deviceClients, pumpVars, senderVars, dbVars, announced>>

\* where a panic ends, the statements after Start are not reached
CloseSelf(c) ==
  /\ HandlerStep(c, "unregistered", "stopped") \/ HandlerStep(c, "unwinding", "panicked")
  /\ closed' = [closed EXCEPT ![c] = TRUE]
  /\ UNCHANGED <<devOf, deviceClients, pumpVars, senderVars, dbVars, announced>>

MarkOffline(c) ==
  /\ HandlerStep(c, "stopped", "offline")
  /\ SetOnline(devOf[c], FALSE)
  /\ UNCHANGED <<devOf, hubVars, pumpVars, senderVars, announced>>

\* mutant: the handler ends without its last broadcast
EndSilently(c) ==
  /\ HandlerStep(c, "offline", "done")
  /\ UNCHANGED <<devOf, hubVars, pumpVars, senderVars, dbVars, announced>>

AnnounceOffline(c) ==
  /\ HandlerStep(c, "offline", "done")
  /\ announced' = [announced EXCEPT ![devOf[c]] = "offline"]
  /\ UNCHANGED <<devOf, hubVars, pumpVars, senderVars, dbVars>>

AnnounceOfflinePanics(c) ==
  /\ HandlerStep(c, "offline", "panicked")
  /\ announced' \in {announced, [announced EXCEPT ![devOf[c]] = "offline"]}
  /\ UNCHANGED <<devOf, hubVars, pumpVars, senderVars, dbVars>>

-----------------------------------------------------------------------------
(* The write pump. *)

WriterStep(c, from, to) == /\ writer[c] = from
                           /\ writer' = [writer EXCEPT ![c] = to]

TakeNext(c) ==
  /\ WriterStep(c, "selecting", "writing")
  /\ sendq[c] # <<>>
  /\ inHand' = [inHand EXCEPT ![c] = Head(sendq[c])]
  /\ sendq' = [sendq EXCEPT ![c] = Tail(@)]
  /\ UNCHANGED <<connVars, hubVars, wire, senderVars, dbVars, announced>>

WriteSucceeds(c) ==
  /\ WriterStep(c, "writing", "selecting")
  /\ ~closed[c]
  /\ wire' = [wire EXCEPT ![c] = @ \cup {inHand[c]}]
  /\ inHand' = [inHand EXCEPT ![c] = None]
  /\ UNCHANGED <<connVars, hubVars, sendq, senderVars, dbVars, announced>>

\* mutant: a failed write is logged and the pump goes on
WriteFailsIgnored(c) ==
  /\ WriterStep(c, "writing", "selecting")
  /\ inHand' = [inHand EXCEPT ![c] = None]
  /\ UNCHANGED <<connVars, hubVars, sendq, wire, senderVars, dbVars, announced>>

\* the socket is closed, broken, or not writable for writeWait
WriteFails(c) ==
  /\ WriterStep(c, "writing", "returning")
  /\ inHand' = [inHand EXCEPT ![c] = None]
  /\ UNCHANGED <<connVars, hubVars, sendq, wire, senderVars, dbVars, announced>>

PingFails(c) ==
  /\ WriterStep(c, "selecting", "returning")
  /\ UNCHANGED <<connVars, hubVars, sendq, inHand, wire, senderVars, dbVars, announced>>

ObserveDone(c) ==
  /\ WriterStep(c, "selecting", "returning")
  /\ closed[c]
  /\ UNCHANGED <<connVars, hubVars, sendq, inHand, wire, senderVars, dbVars, announced>>

\* mutant: the pump returns without the deferred Close
WriterLeavesOpen(c) ==
  /\ WriterStep(c, "returning", "exited")
  /\ UNCHANGED <<connVars, hubVars, sendq, inHand, wire, senderVars, dbVars, announced>>

WriterCloses(c) ==
  /\ WriterStep(c, "returning", "exited")
  /\ closed' = [closed EXCEPT ![c] = TRUE]
  /\ UNCHANGED <<connVars, deviceClients, sendq, inHand, wire, senderVars, dbVars, announced>>

-----------------------------------------------------------------------------
(* SendToDevice, called by any other goroutine: the hub is read under      *)
(* Hub.mu, which is released before Client.Send.                           *)

Lookup(m, d) ==
  /\ fate[m] = "idle"
  /\ target' = [target EXCEPT ![m] = deviceClients[d]]
  /\ fate' = [fate EXCEPT ![m] = IF deviceClients[d] = None THEN "refused" ELSE "held"]
  /\ UNCHANGED <<connVars, hubVars, pumpVars, dbVars, announced>>

Enqueue(m) ==
  LET c == target[m] IN
  /\ fate[m] = "held"
  /\ \/ /\ Accepts(c)
        /\ Push(c, m)
        /\ fate' = [fate EXCEPT ![m] = "queued"]
     \/ /\ Refuses(c)
        /\ fate' = [fate EXCEPT ![m] = "refused"]
        /\ UNCHANGED sendq
     \/ /\ Drops(c)
        /\ fate' = [fate EXCEPT ![m] = "dropped"]
        /\ UNCHANGED sendq
  /\ UNCHANGED <<connVars, hubVars, writer, inHand, wire, target, dbVars, announced>>

-----------------------------------------------------------------------------
(* The background worker, time, and the process. *)

\* mutant: the comparison with the cutoff is the wrong way round
MarkOfflineActive ==
  /\ isOnline' = [d \in Devices |-> isOnline[d] /\ lastSeen[d] # "recent"]
  /\ UNCHANGED <<connVars, hubVars, pumpVars, senderVars, lastSeen, dbFaults, announced>>

\* one UPDATE for all devices: online, and not seen for two minutes or never
MarkOfflineInactive ==
  /\ \/ /\ isOnline' = [d \in Devices |->
                          isOnline[d] /\ lastSeen[d] \notin {"old", "never"}]
        /\ UNCHANGED <<lastSeen, dbFaults>>
     \/ DbFault
  /\ UNCHANGED <<connVars, hubVars, pumpVars, senderVars, announced>>

\* two minutes pass in which nothing writes last_seen of d
TwoMinutesPass(d) ==
  /\ lastSeen[d] = "recent"
  /\ lastSeen' = [lastSeen EXCEPT ![d] = "old"]
  /\ UNCHANGED <<connVars, hubVars, pumpVars, senderVars, isOnline, dbFaults, announced>>

\* the process dies, or is told to stop, which closes no device either; a new
\* one starts with an empty hub and the database as it was
Crash ==
  /\ \E c \in Conns : pc[c] # "new"
  /\ pc' = [c \in Conns |-> IF pc[c] = "new" THEN "new" ELSE "done"]
  /\ deviceClients' = [d \in Devices |-> None]
  /\ closed' = [c \in Conns |-> closed[c] \/ pc[c] # "new"]
  /\ sendq' = [c \in Conns |-> <<>>]
  /\ writer' = [c \in Conns |-> IF pc[c] = "new" THEN writer[c] ELSE "exited"]
  /\ inHand' = [c \in Conns |-> None]
  /\ fate' = [m \in Messages |-> IF fate[m] = "held" THEN "lost" ELSE fate[m]]
  /\ announced' = [d \in Devices |-> "none"]
  /\ UNCHANGED <<devOf, wire, target, dbVars>>

-----------------------------------------------------------------------------
\* the statements of the handler that wait for nobody
Statements(c) ==
  \/ MarkOnline(c)
  \/ SendAck(c)
  \/ StartPumps(c)
  \/ CloseSelf(c)
  \/ MarkOffline(c)

\* those under Hub.mu, with or without writes to dashboards
HubCalls(c) ==
  \/ RegisterDevice(c) \/ RegisterPanics(c)
  \/ AnnounceOnline(c) \/ AnnounceOnlinePanics(c)
  \/ Forwarded(c) \/ ForwardPanics(c)
  \/ UnregisterDevice(c) \/ UnregisterPanics(c)
  \/ AnnounceOffline(c) \/ AnnounceOfflinePanics(c)

Reader(c) == Heartbeat(c) \/ DeviceInfo(c) \/ OtherMessage(c) \/ ReadFails(c)

WritePump(c) ==
  \/ TakeNext(c)
  \/ WriteSucceeds(c)
  \/ WriteFails(c)
  \/ ObserveDone(c)
  \/ WriterCloses(c)

Next ==
  \/ \E c \in Conns : \/ \E d \in Devices : UpgradeCheck(c, d)
                      \/ Statements(c)
                      \/ HubCalls(c)
                      \/ Reader(c)
                      \/ WritePump(c)
                      \/ PingFails(c)
  \/ \E m \in Messages : (\E d \in Devices : Lookup(m, d)) \/ Enqueue(m)
  \/ \E d \in Devices : TwoMinutesPass(d)
  \/ MarkOfflineInactive
  \/ Crash

Spec == Init /\ [][Next]_vars

(* A goroutine that can run does: the handler between its statements, the  *)
(* write pump (a write ends within writeWait), a sender that holds a       *)
(* client; time passes and the worker ticks every minute.  The read of a   *)
(* closed socket fails after whatever was buffered, hence SF.  Nothing     *)
(* makes a device connect, send or fail, and no call of the hub returns by *)
(* fairness: a broadcast has no write deadline, and others wait for it.    *)
Fairness ==
  /\ \A c \in Conns : /\ WF_vars(Statements(c))
                      /\ SF_vars(ReadFails(c) /\ closed[c])
                      /\ WF_vars(WritePump(c))
  /\ \A m \in Messages : WF_vars(Enqueue(m))
  /\ \A d \in Devices : WF_vars(TwoMinutesPass(d))
  /\ WF_vars(MarkOfflineInactive)

FairSpec == Spec /\ Fairness

-----------------------------------------------------------------------------
(* Properties *)

\* The variables keep their types; in particular Client.send never holds more
\* than its capacity, whoever of the handler and the senders fills it.
TypeOK ==
  /\ pc \in [Conns -> HandlerStates]
  /\ devOf \in [Conns -> Devices \cup {None}]
  /\ \A c \in Conns : pc[c] # "new" => devOf[c] \in Devices
  /\ deviceClients \in [Devices -> Conns \cup {None}]
  /\ closed \in [Conns -> BOOLEAN]
  /\ sendq \in [Conns -> Seq(Payloads)]
  /\ \A c \in Conns : Len(sendq[c]) <= SendCap
  /\ writer \in [Conns -> WriterStates]
  /\ inHand \in [Conns -> Payloads \cup {None}]
  /\ \A c \in Conns : /\ writer[c] = "writing" => inHand[c] \in Payloads
                      /\ pc[c] = "new" => writer[c] = "none"
  /\ wire \in [Conns -> SUBSET Payloads]
  /\ fate \in [Messages -> Fates]
  /\ target \in [Messages -> Conns \cup {None}]
  /\ \A m \in Messages : fate[m] \in {"held", "queued", "dropped"} => target[m] \in Conns
  /\ isOnline \in [Devices -> BOOLEAN]
  /\ lastSeen \in [Devices -> {"never", "recent", "old"}]
  /\ announced \in [Devices -> {"none", "online", "offline"}]
  /\ dbFaults \in 0..MaxDbFaults

\* An entry of the hub belongs to a connection of that device whose handler is
\* still on its way to UnregisterDevice, or was ended by a panic of its first
\* broadcast, before it had pumps: no other way of ending leaves an entry that
\* nobody removes, however many connections of the device come and go.
EntryAttended ==
  \A d \in Devices : LET c == deviceClients[d] IN
    c # None => devOf[c] = d /\ pc[c] \in InHub \cup {"abandoned"}

\* A registered connection that the hub no longer names is closed: whoever took
\* it out of the hub closed it, before its own teardown comes to that.
OrphanClosed ==
  \A c \in Conns :
    pc[c] \in WasRegistered /\ deviceClients[devOf[c]] # c => closed[c]

\* A device never has two open clients, even while a replaced one winds down.
OneOpenClient ==
  \A c, e \in Conns :
    /\ {pc[c], pc[e]} \subseteq WasRegistered
    /\ devOf[c] = devOf[e]
    /\ ~closed[c] /\ ~closed[e]
    => c = e

\* some handler of the device is still to broadcast DEVICE_OFFLINE
Attended(d) == \E c \in Conns : devOf[c] = d /\ pc[c] \in OwesOffline

\* in this step the handler of c is left by a panic
Panics(c) == /\ pc[c] \notin {"abandoned", "panicking", "unwinding", "panicked"}
             /\ pc'[c] \in {"abandoned", "panicking", "panicked"}

\* That a dashboard shows a device online, and no handler of the device is left to
\* take it back, comes about in one way: a panic ends a handler of that device.  It
\* does not by connections that replace each other and end in any order.
OnlineIsTakenBack ==
  [][\A d \in Devices : announced'[d] = "online" /\ ~Attended(d)' =>
       \/ announced[d] = "online" /\ ~Attended(d)
       \/ \E c \in Conns : devOf[c] = d /\ Panics(c)]_vars

\* A message that SendToDevice put in a channel is in the channel, in the hand
\* of the write pump, or on the wire, unless the write pump gave up.
AcceptedFate ==
  \A m \in Messages : fate[m] = "queued" =>
    LET c == target[m] IN
    InQueue(m, c) \/ inHand[c] = m \/ m \in wire[c] \/ writer[c] \in {"returning", "exited"}

\* What DeviceSession knows of a connection: whether it still serves its device,
\* and what it accepted for it, the message in the hand of the pump first.
Life(c) ==
  IF pc[c] = "new" THEN "new"
  ELSE IF pc[c] \notin WasRegistered THEN "admitted"
  ELSE IF closed[c] \/ writer[c] \in {"returning", "exited"} THEN "over"
  ELSE IF pc[c] = "registered" THEN "registered" ELSE "greeted"

Undelivered(c) ==
  IF Life(c) \notin {"registered", "greeted"} THEN <<>>
  ELSE IF inHand[c] = None THEN sendq[c] ELSE <<inHand[c]>> \o sendq[c]

SenderState(m) ==
  CASE fate[m] = "idle" -> "idle" [] fate[m] = "held" -> "bound" [] OTHER -> "decided"

\* Those who send to a device see what DeviceSession promises, however the
\* handlers, pumps and senders of its connections interleave: a message goes to
\* the one live connection, is refused or dropped only if that is over or full,
\* and is written once, in order, and on no connection that was replaced.
Session == INSTANCE DeviceSession WITH
  dev       <- devOf,
  life      <- [c \in Conns |-> Life(c)],
  pending   <- [c \in Conns |-> Undelivered(c)],
  delivered <- wire,
  sender    <- [m \in Messages |-> SenderState(m)],
  bound     <- target

ImplementsDeviceSession == Session!Spec

\* the handler waits for Hub.mu or is in a broadcast
AtHub(c) == pc[c] \in {"online", "acked", "forwarding", "closing", "panicking", "offline"}

\* The premise of what follows: no call of the hub waits for ever.  HubLock has
\* what it takes, which is that no dashboard stops reading for good.
HubReturns == \A c \in Conns : []<>~AtHub(c)

\* If the hub's calls return, what entered a channel, the ACK or a message, gets
\* written or the write pump ends, though the ACK waits in the channel before there
\* is a pump; but for the channel of a handler that a panic ended before its pumps.
QueuedResolves ==
  HubReturns =>
    \A m \in Payloads, c \in Conns :
      InQueue(m, c) ~> m \in wire[c] \/ writer[c] = "exited" \/ pc[c] = "abandoned"

\* If the hub's calls return, a connection that was closed, or that lost its write
\* pump, is torn down by its handler, also by one that a panic left: nothing stays
\* half open.
TeardownCompletes ==
  HubReturns =>
    \A c \in Conns :
      Running(c) /\ (closed[c] \/ writer[c] \in {"returning", "exited"}) ~> ~Running(c)

\* A device whose connections have all ended is offline in the database in the
\* end, also when the process died, a handler panicked or a statement failed.
PresenceConverges ==
  \A d \in Devices :
    <>[](\A c \in Conns : devOf[c] = d => ~Running(c)) => <>[](~isOnline[d])

(* An expectation the code states and does not meet; its run looks for the *)
(* counterexample.                                                         *)

\* hub.go:43: registering disconnects the EXISTING connection of the device.  So
\* the one that replaced it stays until its own handler, or the process, ends.
ReplacementSurvives ==
  [][\A d \in Devices : LET c == deviceClients[d] IN
       c # None /\ deviceClients'[d] = None => pc[c] # pc'[c]]_vars

=============================================================================
