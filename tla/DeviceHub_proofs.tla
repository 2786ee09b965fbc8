-------------------------- MODULE DeviceHub_proofs --------------------------
(***************************************************************************)
(* Proofs about DeviceHub, for every set of devices, connections and       *)
(* messages and every capacity of the send channel.                        *)
(***************************************************************************)
EXTENDS DeviceHub, TLAPS

USE DEF HandlerStates, InHub, WasRegistered, OwesOffline, Ended, Running,
        WriterStates, Fates, Payloads

\* The steps of a handler that leave the hub and the clients as they are, and those
\* that close the client the hub has for the device, whatever else they do.
PlainStep(c) ==
  \/ MarkOnline(c) \/ AnnounceOnline(c) \/ AnnounceOnlinePanics(c) \/ Reader(c)
  \/ Forwarded(c) \/ ForwardPanics(c) \/ MarkOffline(c) \/ AnnounceOffline(c)
  \/ AnnounceOfflinePanics(c)

ClosingStep(c) == RegisterPanics(c) \/ UnregisterDevice(c) \/ UnregisterPanics(c)

PlainMove(c) ==
  \/ HandlerStep(c, "upgraded", "online")     \/ HandlerStep(c, "acked", "announced")
  \/ HandlerStep(c, "acked", "abandoned")     \/ HandlerStep(c, "reading", "forwarding")
  \/ HandlerStep(c, "reading", "closing")     \/ HandlerStep(c, "forwarding", "reading")
  \/ HandlerStep(c, "forwarding", "panicking") \/ HandlerStep(c, "stopped", "offline")
  \/ HandlerStep(c, "offline", "done")        \/ HandlerStep(c, "offline", "panicked")

ClosingMove(c) ==
  \/ HandlerStep(c, "online", "rejected")
  \/ HandlerStep(c, "closing", "unregistered") \/ HandlerStep(c, "panicking", "unwinding")
  \/ HandlerStep(c, "closing", "panicked")     \/ HandlerStep(c, "panicking", "panicked")

\* Where a plain step takes the handler.
LEMMA PlainStepMoves ==
  ASSUME NEW c \in Conns, PlainStep(c)
  PROVE  /\ UNCHANGED <<devOf, hubVars, pumpVars, senderVars>>
         /\ PlainMove(c)
<1>1. UNCHANGED <<devOf, hubVars, pumpVars, senderVars>>
  BY DEF PlainStep, Reader, MarkOnline, AnnounceOnline, AnnounceOnlinePanics, Heartbeat, DeviceInfo,
         OtherMessage, ReadFails, Forwarded, ForwardPanics, MarkOffline, AnnounceOffline,
         AnnounceOfflinePanics
<1>2. PlainMove(c)
  BY DEF PlainStep, PlainMove, Reader, MarkOnline, AnnounceOnline, AnnounceOnlinePanics, Heartbeat,
         DeviceInfo, OtherMessage, ReadFails, Forwarded, ForwardPanics, MarkOffline,
         AnnounceOffline, AnnounceOfflinePanics
<1> QED
  BY <1>1, <1>2

\* Where a closing step takes the handler, and what it does to the hub.
LEMMA ClosingStepMoves ==
  ASSUME NEW c \in Conns, ClosingStep(c)
  PROVE  /\ UNCHANGED <<devOf, sendq, writer, inHand, wire, fate, target, announced>>
         /\ ClosingMove(c)
         /\ closed' = [x \in Conns |-> closed[x] \/ x = deviceClients[devOf[c]]]
         /\ \/ deviceClients' = [deviceClients EXCEPT ![devOf[c]] = None]
            \/ /\ UNCHANGED deviceClients
               /\ pc[deviceClients[devOf[c]]] = "abandoned"
<1>1. CASE RegisterPanics(c)
  BY <1>1 DEF RegisterPanics, Given, ClosingMove, pumpVars, senderVars
<1>2. CASE UnregisterDevice(c)
  BY <1>2 DEF UnregisterDevice, ToUnregistered, ClosingMove, pumpVars, senderVars
<1>3. CASE UnregisterPanics(c)
  BY <1>3 DEF UnregisterPanics, Given, ClosingMove, pumpVars, senderVars
<1> QED
  BY <1>1, <1>2, <1>3 DEF ClosingStep

\* The types of the database columns and of the fault counter.
DbTypeOK == /\ isOnline \in [Devices -> BOOLEAN]
            /\ lastSeen \in [Devices -> {"never", "recent", "old"}]
            /\ dbFaults \in 0..MaxDbFaults

\* A statement on the device row keeps them, whether it takes effect or fails.
LEMMA DbStatementType ==
  ASSUME DbTypeOK, NEW d \in Devices, NEW v \in BOOLEAN,
         SetOnline(d, v) \/ TouchLastSeen(d)
  PROVE  DbTypeOK'
<1>1. CASE DbFault
  BY <1>1, FaultBoundAssumption DEF DbTypeOK, DbFault
<1>2. CASE ~DbFault
  BY <1>2 DEF DbTypeOK, SetOnline, TouchLastSeen
<1> QED
  BY <1>1, <1>2

\* Appending to a channel that accepts keeps its type and its capacity.
LEMMA PushType ==
  ASSUME sendq \in [Conns -> Seq(Payloads)], \A c \in Conns : Len(sendq[c]) <= SendCap,
         NEW c \in Conns, NEW m \in Payloads, Accepts(c), Push(c, m)
  PROVE  /\ sendq' \in [Conns -> Seq(Payloads)]
         /\ \A e \in Conns : Len(sendq'[e]) <= SendCap
<1>1. /\ Append(sendq[c], m) \in Seq(Payloads)
      /\ Len(Append(sendq[c], m)) = Len(sendq[c]) + 1
      /\ Len(sendq[c]) \in Nat
  OBVIOUS
<1>2. Len(sendq[c]) + 1 <= SendCap
  BY <1>1, SendCapAssumption DEF Accepts
<1> QED
  BY <1>1, <1>2 DEF Push

\* Every step of DeviceHub keeps the variables in their types.
LEMMA TypeStep == ASSUME TypeOK, [Next]_vars PROVE TypeOK'
<1> USE SendCapAssumption, FaultBoundAssumption, NamesAssumption DEF TypeOK
<1>1. ASSUME NEW c \in Conns, NEW d \in Devices, UpgradeCheck(c, d) PROVE TypeOK'
  BY <1>1 DEF UpgradeCheck, HandlerStep, hubVars, pumpVars, senderVars, dbVars
<1>2. ASSUME NEW c \in Conns, MarkOnline(c) PROVE TypeOK'
  <2>1. devOf[c] \in Devices
    BY <1>2 DEF MarkOnline, HandlerStep
  <2>2. DbTypeOK'
    BY <1>2, <2>1, DbStatementType DEF MarkOnline, DbTypeOK
  <2> QED
    BY <1>2, <2>2 DEF MarkOnline, HandlerStep, DbTypeOK, hubVars, pumpVars, senderVars
<1>3. ASSUME NEW c \in Conns, RegisterDevice(c) PROVE TypeOK'
  BY <1>3 DEF RegisterDevice, HandlerStep, pumpVars, senderVars, dbVars
<1>4. ASSUME NEW c \in Conns, SendAck(c) PROVE TypeOK'
  <2>1. /\ sendq' \in [Conns -> Seq(Payloads)]
        /\ \A e \in Conns : Len(sendq'[e]) <= SendCap
    BY <1>4, PushType DEF SendAck
  <2> QED
    BY <1>4, <2>1 DEF SendAck, HandlerStep, hubVars, senderVars, dbVars
<1>5. ASSUME NEW c \in Conns, AnnounceOnline(c) \/ AnnounceOnlinePanics(c) PROVE TypeOK'
  <2>1. CASE AnnounceOnline(c)
    BY <2>1 DEF AnnounceOnline, HandlerStep, hubVars, pumpVars, senderVars, dbVars
  <2>2. CASE AnnounceOnlinePanics(c)
    <3>1. announced' \in [Devices -> {"none", "online", "offline"}]
      BY <2>2 DEF AnnounceOnlinePanics
    <3>2. /\ pc[c] = "acked" /\ pc' = [pc EXCEPT ![c] = "abandoned"]
          /\ UNCHANGED <<devOf, hubVars, pumpVars, senderVars, dbVars>>
      BY <2>2 DEF AnnounceOnlinePanics, HandlerStep
    <3>3. /\ pc' \in [Conns -> HandlerStates]
          /\ \A e \in Conns : pc'[e] = "new" => pc[e] = "new"
          /\ \A e \in Conns : pc'[e] # "new" => pc[e] # "new"
      BY <3>2
    <3> QED
      BY <3>1, <3>2, <3>3 DEF hubVars, pumpVars, senderVars, dbVars
  <2> QED
    BY <1>5, <2>1, <2>2
<1>6. ASSUME NEW c \in Conns, StartPumps(c) PROVE TypeOK'
  BY <1>6 DEF StartPumps, HandlerStep, hubVars, senderVars, dbVars
<1>7. ASSUME NEW c \in Conns, Heartbeat(c) PROVE TypeOK'
  <2>1. devOf[c] \in Devices
    BY <1>7 DEF Heartbeat, HandlerStep
  <2>2. DbTypeOK'
    BY <1>7, <2>1, DbStatementType DEF Heartbeat, DbTypeOK
  <2> QED
    BY <1>7, <2>2 DEF Heartbeat, HandlerStep, DbTypeOK, hubVars, pumpVars, senderVars
<1>8. ASSUME NEW c \in Conns, DeviceInfo(c) PROVE TypeOK'
  <2>1. devOf[c] \in Devices
    BY <1>8 DEF DeviceInfo, HandlerStep
  <2>2. DbTypeOK'
    BY <1>8, <2>1, DbStatementType DEF DeviceInfo, DbTypeOK
  <2> QED
    BY <1>8, <2>2 DEF DeviceInfo, HandlerStep, DbTypeOK, hubVars, pumpVars, senderVars
<1>9. ASSUME NEW c \in Conns,
             OtherMessage(c) \/ Forwarded(c) \/ ForwardPanics(c) \/ ReadFails(c)
      PROVE  TypeOK'
  <2>1. /\ pc[c] \in {"reading", "forwarding"}
        /\ \E s \in {"reading", "forwarding", "panicking", "closing"} : pc' = [pc EXCEPT ![c] = s]
        /\ UNCHANGED <<devOf, hubVars, pumpVars, senderVars, dbVars, announced>>
    BY <1>9 DEF OtherMessage, Forwarded, ForwardPanics, ReadFails, HandlerStep
  <2> QED
    BY <2>1 DEF hubVars, pumpVars, senderVars, dbVars
<1>10. ASSUME NEW c \in Conns, ClosingStep(c) PROVE TypeOK'
  <2>0. /\ ClosingMove(c)
        /\ closed' = [x \in Conns |-> closed[x] \/ x = deviceClients[devOf[c]]]
        /\ \/ deviceClients' = [deviceClients EXCEPT ![devOf[c]] = None]
           \/ UNCHANGED deviceClients
    BY <1>10, ClosingStepMoves
  <2>1. /\ pc[c] # "new" /\ devOf[c] \in Devices
        /\ \E s \in HandlerStates \ {"new"} : pc' = [pc EXCEPT ![c] = s]
    BY <2>0 DEF ClosingMove, HandlerStep
  <2>2. closed' \in [Conns -> BOOLEAN] /\ deviceClients' \in [Devices -> Conns \cup {None}]
    <3>1. closed' \in [Conns -> BOOLEAN]
      BY <2>0, Zenon
    <3>2. deviceClients' \in [Devices -> Conns \cup {None}]
      BY <2>0
    <3> QED
      BY <3>1, <3>2
  <2>3. UNCHANGED dbVars
    BY <1>10 DEF ClosingStep, RegisterPanics, UnregisterDevice, UnregisterPanics
  <2> QED
    BY <1>10, <2>1, <2>2, <2>3, ClosingStepMoves DEF dbVars
<1>11. ASSUME NEW c \in Conns, CloseSelf(c) PROVE TypeOK'
  BY <1>11 DEF CloseSelf, HandlerStep, pumpVars, senderVars, dbVars
<1>12. ASSUME NEW c \in Conns, MarkOffline(c) PROVE TypeOK'
  <2>1. devOf[c] \in Devices
    BY <1>12 DEF MarkOffline, HandlerStep
  <2>2. DbTypeOK'
    BY <1>12, <2>1, DbStatementType DEF MarkOffline, DbTypeOK
  <2> QED
    BY <1>12, <2>2 DEF MarkOffline, HandlerStep, DbTypeOK, hubVars, pumpVars, senderVars
<1>13. ASSUME NEW c \in Conns, AnnounceOffline(c) \/ AnnounceOfflinePanics(c) PROVE TypeOK'
  <2>1. CASE AnnounceOffline(c)
    BY <2>1 DEF AnnounceOffline, HandlerStep, hubVars, pumpVars, senderVars, dbVars
  <2>2. CASE AnnounceOfflinePanics(c)
    <3>1. announced' \in [Devices -> {"none", "online", "offline"}]
      BY <2>2 DEF AnnounceOfflinePanics
    <3>2. /\ pc[c] = "offline" /\ pc' = [pc EXCEPT ![c] = "panicked"]
          /\ UNCHANGED <<devOf, hubVars, pumpVars, senderVars, dbVars>>
      BY <2>2 DEF AnnounceOfflinePanics, HandlerStep
    <3>3. /\ pc' \in [Conns -> HandlerStates]
          /\ \A e \in Conns : pc'[e] = "new" => pc[e] = "new"
          /\ \A e \in Conns : pc'[e] # "new" => pc[e] # "new"
      BY <3>2
    <3> QED
      BY <3>1, <3>2, <3>3 DEF hubVars, pumpVars, senderVars, dbVars
  <2> QED
    BY <1>13, <2>1, <2>2
<1>14. ASSUME NEW c \in Conns, TakeNext(c) PROVE TypeOK'
  <2>1. /\ Head(sendq[c]) \in Payloads /\ Tail(sendq[c]) \in Seq(Payloads)
        /\ Len(Tail(sendq[c])) <= SendCap
    BY <1>14 DEF TakeNext
  <2>2. /\ inHand' \in [Conns -> Payloads \cup {None}]
        /\ sendq' \in [Conns -> Seq(Payloads)]
        /\ \A e \in Conns : Len(sendq'[e]) <= SendCap
    BY <1>14, <2>1 DEF TakeNext
  <2>3. /\ writer' \in [Conns -> WriterStates]
        /\ \A e \in Conns : /\ writer'[e] = "writing" => inHand'[e] \in Payloads
                            /\ pc[e] = "new" => writer'[e] = "none"
    BY <1>14, <2>1 DEF TakeNext, WriterStep
  <2> QED
    BY <1>14, <2>2, <2>3 DEF TakeNext, connVars, hubVars, senderVars, dbVars
<1>15. ASSUME NEW c \in Conns, WriteSucceeds(c) PROVE TypeOK'
  BY <1>15 DEF WriteSucceeds, WriterStep, connVars, hubVars, senderVars, dbVars
<1>16. ASSUME NEW c \in Conns, WriteFails(c) PROVE TypeOK'
  <2>1. pc[c] # "new"
    BY <1>16 DEF WriteFails, WriterStep
  <2> QED
    BY <1>16, <2>1 DEF WriteFails, WriterStep, connVars, hubVars, senderVars, dbVars
<1>17. ASSUME NEW c \in Conns, ObserveDone(c) \/ PingFails(c) PROVE TypeOK'
  <2>1. pc[c] # "new"
    BY <1>17 DEF ObserveDone, PingFails, WriterStep
  <2>2. /\ writer' = [writer EXCEPT ![c] = "returning"]
        /\ UNCHANGED <<connVars, hubVars, sendq, inHand, wire, senderVars, dbVars, announced>>
    BY <1>17 DEF ObserveDone, PingFails, WriterStep
  <2>3. /\ writer' \in [Conns -> WriterStates]
        /\ \A e \in Conns : /\ writer'[e] = "writing" => inHand[e] \in Payloads
                            /\ pc[e] = "new" => writer'[e] = "none"
    BY <2>1, <2>2
  <2> QED
    BY <2>2, <2>3 DEF connVars, hubVars, senderVars, dbVars
<1>18. ASSUME NEW c \in Conns, WriterCloses(c) PROVE TypeOK'
  BY <1>18 DEF WriterCloses, WriterStep, connVars, senderVars, dbVars
<1>19. ASSUME NEW m \in Messages, NEW d \in Devices, Lookup(m, d) PROVE TypeOK'
  BY <1>19 DEF Lookup, connVars, hubVars, pumpVars, dbVars
<1>20. ASSUME NEW m \in Messages, Enqueue(m) PROVE TypeOK'
  <2>1. target[m] \in Conns
    BY <1>20 DEF Enqueue
  <2>2. /\ sendq' \in [Conns -> Seq(Payloads)]
        /\ \A e \in Conns : Len(sendq'[e]) <= SendCap
    BY <1>20, <2>1, PushType DEF Enqueue
  <2>3. fate' \in [Messages -> Fates] /\ (\A k \in Messages : k # m => fate'[k] = fate[k])
    BY <1>20 DEF Enqueue
  <2> QED
    BY <1>20, <2>1, <2>2, <2>3 DEF Enqueue, connVars, hubVars, dbVars
<1>21. ASSUME NEW d \in Devices, TwoMinutesPass(d) PROVE TypeOK'
  BY <1>21 DEF TwoMinutesPass, connVars, hubVars, pumpVars, senderVars
<1>22. ASSUME MarkOfflineInactive PROVE TypeOK'
  <2>1. DbTypeOK'
    <3>1. CASE DbFault
      BY <3>1, FaultBoundAssumption DEF DbTypeOK, DbFault
    <3>2. CASE ~DbFault
      <4>1. isOnline' = [d \in Devices |->
                          isOnline[d] /\ lastSeen[d] \notin {"old", "never"}]
        BY <1>22, <3>2, Zenon DEF MarkOfflineInactive
      <4>2. isOnline' \in [Devices -> BOOLEAN]
        BY <4>1, Zenon
      <4> QED
        BY <1>22, <3>2, <4>2 DEF MarkOfflineInactive, DbTypeOK
    <3> QED
      BY <3>1, <3>2
  <2> QED
    BY <1>22, <2>1 DEF MarkOfflineInactive, DbTypeOK, connVars, hubVars, pumpVars, senderVars
<1>23. ASSUME Crash PROVE TypeOK'
  <2>1. /\ pc' \in [Conns -> HandlerStates]
        /\ \A c \in Conns : pc'[c] # "new" => devOf'[c] \in Devices
    BY <1>23 DEF Crash
  <2>2. /\ closed' \in [Conns -> BOOLEAN]
        /\ deviceClients' \in [Devices -> Conns \cup {None}]
        /\ announced' \in [Devices -> {"none", "online", "offline"}]
    BY <1>23 DEF Crash
  <2>3. /\ sendq' \in [Conns -> Seq(Payloads)]
        /\ \A c \in Conns : Len(sendq'[c]) <= SendCap
    BY <1>23 DEF Crash
  <2>4. /\ writer' \in [Conns -> WriterStates]
        /\ inHand' \in [Conns -> Payloads \cup {None}]
        /\ \A c \in Conns : /\ writer'[c] = "writing" => inHand'[c] \in Payloads
                            /\ pc'[c] = "new" => writer'[c] = "none"
    BY <1>23 DEF Crash
  <2>5. /\ fate' \in [Messages -> Fates]
        /\ \A m \in Messages : fate'[m] \in {"held", "queued", "dropped"} => target'[m] \in Conns
    BY <1>23 DEF Crash
  <2> QED
    BY <1>23, <2>1, <2>2, <2>3, <2>4, <2>5 DEF Crash, dbVars
<1>24. ASSUME UNCHANGED vars PROVE TypeOK'
  BY <1>24 DEF vars, connVars, hubVars, pumpVars, senderVars, dbVars
<1> QED
  BY <1>1, <1>2, <1>3, <1>4, <1>5, <1>6, <1>7, <1>8, <1>9, <1>10, <1>11, <1>12,
     <1>13, <1>14, <1>15, <1>16, <1>17, <1>18, <1>19, <1>20, <1>21, <1>22, <1>23, <1>24
  DEF Next, Statements, HubCalls, ClosingStep, Reader, WritePump

\* The type invariant of the hub, its clients and its handlers.
THEOREM TypeCorrect == Spec => []TypeOK
<1>1. Init => TypeOK
  BY SendCapAssumption, FaultBoundAssumption DEF Init, TypeOK
<1> QED
  BY <1>1, TypeStep, PTL DEF Spec

-----------------------------------------------------------------------------
(* The registry: what the hub, the handlers and the clients agree on. *)

\* Neither half is inductive alone: replacing an entry closes the client it
\* named, which covers every other registered connection only because those are
\* closed already.
RegistryInv == EntryAttended /\ OrphanClosed

\* Every step keeps the hub's entries attended and the connections it does not
\* name closed.
LEMMA RegistryStep ==
  ASSUME TypeOK, RegistryInv, [Next]_vars
  PROVE  RegistryInv'
<1> USE NamesAssumption DEF TypeOK, RegistryInv, EntryAttended, OrphanClosed
<1>1. ASSUME NEW c \in Conns, NEW d \in Devices, UpgradeCheck(c, d) PROVE RegistryInv'
  BY <1>1 DEF UpgradeCheck, HandlerStep, hubVars
<1>2. ASSUME NEW c \in Conns, PlainStep(c) \/ SendAck(c) \/ StartPumps(c) PROVE RegistryInv'
  <2>1. UNCHANGED <<devOf, deviceClients, closed>>
    BY <1>2, PlainStepMoves DEF SendAck, StartPumps, hubVars
  <2>2. \A e \in Conns : /\ pc[e] \in InHub \cup {"abandoned"} => pc'[e] \in InHub \cup {"abandoned"}
                         /\ pc'[e] \in WasRegistered => pc[e] \in WasRegistered
    <3>1. CASE PlainStep(c)
      <4>1. PlainMove(c)
        BY <3>1, PlainStepMoves
      <4>2. /\ \A e \in Conns : e # c => pc'[e] = pc[e]
            /\ pc[c] \in InHub \cup {"abandoned"} => pc'[c] \in InHub \cup {"abandoned"}
            /\ pc'[c] \in WasRegistered => pc[c] \in WasRegistered
        BY <4>1 DEF PlainMove, HandlerStep
      <4> QED
        BY <4>2
    <3>2. CASE SendAck(c)
      BY <3>2 DEF SendAck, HandlerStep
    <3>3. CASE StartPumps(c)
      BY <3>3 DEF StartPumps, HandlerStep
    <3> QED
      BY <1>2, <3>1, <3>2, <3>3
  <2>3. EntryAttended'
    BY <2>1, <2>2
  <2>4. OrphanClosed'
    BY <2>1, <2>2
  <2> QED
    BY <2>3, <2>4
<1>3. ASSUME NEW c \in Conns, RegisterDevice(c) PROVE RegistryInv'
  <2>1. EntryAttended'
    BY <1>3 DEF RegisterDevice, HandlerStep
  <2>2. OrphanClosed'
    <3> SUFFICES ASSUME NEW e \in Conns, pc'[e] \in WasRegistered,
                        deviceClients'[devOf'[e]] # e
                 PROVE  closed'[e]
      OBVIOUS
    <3>1. e # c /\ pc[e] \in WasRegistered /\ devOf'[e] = devOf[e] /\ devOf[e] \in Devices
      BY <1>3 DEF RegisterDevice, HandlerStep
    <3>2. CASE deviceClients[devOf[e]] = e
      <4>1. e = deviceClients[devOf[c]]
        BY <1>3, <3>1, <3>2 DEF RegisterDevice
      <4> QED
        BY <1>3, <4>1, Zenon DEF RegisterDevice
    <3>3. CASE deviceClients[devOf[e]] # e
      BY <1>3, <3>1, <3>3 DEF RegisterDevice
    <3> QED
      BY <3>2, <3>3
  <2> QED
    BY <2>1, <2>2
<1>4. ASSUME NEW c \in Conns, ClosingStep(c) PROVE RegistryInv'
  <2>1. /\ UNCHANGED devOf
        /\ closed' = [x \in Conns |-> closed[x] \/ x = deviceClients[devOf[c]]]
        /\ \/ deviceClients' = [deviceClients EXCEPT ![devOf[c]] = None]
           \/ /\ UNCHANGED deviceClients
              /\ pc[deviceClients[devOf[c]]] = "abandoned"
    BY <1>4, ClosingStepMoves
  <2>2. ClosingMove(c)
    BY <1>4, ClosingStepMoves
  <2>3. /\ \A e \in Conns : e # c => pc'[e] = pc[e]
        /\ devOf[c] \in Devices /\ pc[c] # "abandoned"
        /\ pc'[c] \in WasRegistered => pc[c] \in WasRegistered
    BY <2>2 DEF ClosingMove, HandlerStep
  <2>4. EntryAttended'
    <3> SUFFICES ASSUME NEW d \in Devices, deviceClients'[d] # None
                 PROVE  /\ devOf[deviceClients'[d]] = d
                        /\ pc'[deviceClients'[d]] \in InHub \cup {"abandoned"}
      BY <2>1
    <3>1. /\ deviceClients'[d] = deviceClients[d] /\ devOf[deviceClients[d]] = d
          /\ pc[deviceClients[d]] \in InHub \cup {"abandoned"}
      BY <2>1
    <3>2. deviceClients[d] # c
      <4>1. CASE d = devOf[c]
        BY <2>1, <2>3, <4>1
      <4>2. CASE d # devOf[c]
        BY <3>1, <4>2
      <4> QED
        BY <4>1, <4>2
    <3> QED
      BY <2>3, <3>1, <3>2
  <2>5. OrphanClosed'
    <3> SUFFICES ASSUME NEW e \in Conns, pc'[e] \in WasRegistered,
                        deviceClients'[devOf'[e]] # e
                 PROVE  closed'[e]
      OBVIOUS
    <3>1. pc[e] \in WasRegistered /\ devOf'[e] = devOf[e] /\ devOf[e] \in Devices
      BY <2>1, <2>3
    <3>2. CASE deviceClients[devOf[e]] = e
      <4>1. e = deviceClients[devOf[c]]
        BY <2>1, <3>1, <3>2
      <4> QED
        BY <2>1, <4>1, Zenon
    <3>3. CASE deviceClients[devOf[e]] # e
      BY <2>1, <3>1, <3>3
    <3> QED
      BY <3>2, <3>3
  <2> QED
    BY <2>4, <2>5
<1>5. ASSUME NEW c \in Conns, CloseSelf(c) PROVE RegistryInv'
  <2>1. /\ pc[c] \in {"unregistered", "unwinding"} /\ pc'[c] \in WasRegistered
        /\ \A e \in Conns : e # c => pc'[e] = pc[e]
        /\ \A e \in Conns : closed[e] => closed'[e]
        /\ UNCHANGED <<devOf, deviceClients>>
    BY <1>5 DEF CloseSelf, HandlerStep
  <2>2. EntryAttended'
    <3>1. \A d \in Devices : deviceClients[d] # None => deviceClients[d] # c
      BY <2>1
    <3> QED
      BY <2>1, <3>1
  <2>3. OrphanClosed'
    BY <2>1
  <2> QED
    BY <2>2, <2>3
<1>6. ASSUME NEW c \in Conns, WriterCloses(c) PROVE RegistryInv'
  BY <1>6 DEF WriterCloses, WriterStep, connVars
<1>7. ASSUME Crash PROVE RegistryInv'
  <2>1. EntryAttended'
    BY <1>7 DEF Crash
  <2>2. OrphanClosed'
    BY <1>7 DEF Crash
  <2> QED
    BY <2>1, <2>2
<1>8. ASSUME UNCHANGED <<connVars, hubVars>> PROVE RegistryInv'
  BY <1>8 DEF connVars, hubVars
<1> QED
  BY <1>1, <1>2, <1>3, <1>4, <1>5, <1>6, <1>7, <1>8
  DEF Next, Statements, HubCalls, PlainStep, ClosingStep, WritePump, vars, TakeNext,
      WriteSucceeds, WriteFails, ObserveDone, PingFails, Lookup, Enqueue, TwoMinutesPass,
      MarkOfflineInactive

\* The registry is consistent in every reachable state.
LEMMA RegistryCorrect == Spec => [](TypeOK /\ RegistryInv)
<1>1. Init => RegistryInv
  BY NamesAssumption DEF Init, RegistryInv, EntryAttended, OrphanClosed
<1> QED
  BY <1>1, TypeCorrect, RegistryStep, PTL DEF Spec

\* No entry of the hub is left without a handler that will remove it, but for the
\* entry of a handler whose first broadcast panicked.
THEOREM EntriesAttended == Spec => []EntryAttended
  BY RegistryCorrect, PTL DEF RegistryInv

\* A registered connection the hub does not name has been closed.
THEOREM OrphansClosed == Spec => []OrphanClosed
  BY RegistryCorrect, PTL DEF RegistryInv

\* Two clients of one device are never open together.
THEOREM AtMostOneOpen == Spec => []OneOpenClient
<1>1. ASSUME TypeOK, RegistryInv PROVE OneOpenClient
  <2> SUFFICES ASSUME NEW c \in Conns, NEW e \in Conns,
                      {pc[c], pc[e]} \subseteq WasRegistered, devOf[c] = devOf[e],
                      ~closed[c], ~closed[e]
               PROVE  c = e
    BY DEF OneOpenClient
  <2>1. pc[c] \in WasRegistered /\ pc[e] \in WasRegistered
    OBVIOUS
  <2>2. deviceClients[devOf[c]] = c /\ deviceClients[devOf[e]] = e
    BY <1>1, <2>1 DEF RegistryInv, OrphanClosed
  <2> QED
    BY <2>2
<1> QED
  BY <1>1, RegistryCorrect, PTL

-----------------------------------------------------------------------------
(* The pumps: when they run, and what they may still write. *)

BeforePumps == {"new", "upgraded", "online", "rejected", "registered", "acked", "announced",
                "abandoned"}

\* A write pump exists only once the handler started it and has a message in
\* hand only while it writes; a sender holds only clients that were registered.
PumpInv ==
  /\ \A c \in Conns : pc[c] \in BeforePumps => writer[c] = "none"
  /\ \A c \in Conns : inHand[c] # None => writer[c] = "writing"
  /\ \A m \in Messages : fate[m] \in {"held", "queued", "dropped"} =>
                          pc[target[m]] \in WasRegistered

\* Every step keeps PumpInv; that a sender holds a registered client rests on
\* the hub's entries being attended.
LEMMA PumpStep ==
  ASSUME TypeOK, EntryAttended, PumpInv, [Next]_vars
  PROVE  PumpInv'
<1> USE NamesAssumption DEF TypeOK, PumpInv, BeforePumps
<1>1. ASSUME NEW c \in Conns, NEW d \in Devices, UpgradeCheck(c, d) PROVE PumpInv'
  BY <1>1 DEF UpgradeCheck, HandlerStep, pumpVars, senderVars
<1>2. ASSUME NEW c \in Conns, StartPumps(c) PROVE PumpInv'
  BY <1>2 DEF StartPumps, HandlerStep, senderVars
<1>3. ASSUME NEW c \in Conns,
             PlainStep(c) \/ ClosingStep(c) \/ RegisterDevice(c) \/ SendAck(c) \/ CloseSelf(c)
      PROVE  PumpInv'
  <2>1. UNCHANGED <<writer, inHand, fate, target>>
    BY <1>3, PlainStepMoves, ClosingStepMoves
    DEF RegisterDevice, SendAck, CloseSelf, pumpVars, senderVars
  <2>2. \A e \in Conns : /\ pc'[e] \in BeforePumps => pc[e] \in BeforePumps
                         /\ pc[e] \in WasRegistered => pc'[e] \in WasRegistered
    <3>1. CASE PlainStep(c)
      BY <3>1, PlainStepMoves DEF PlainMove, HandlerStep
    <3>2. CASE ClosingStep(c)
      <4>1. ClosingMove(c)
        BY <3>2, ClosingStepMoves
      <4>2. /\ \A e \in Conns : e # c => pc'[e] = pc[e]
            /\ pc'[c] \in BeforePumps => pc[c] \in BeforePumps
            /\ pc[c] \in WasRegistered => pc'[c] \in WasRegistered
        BY <4>1 DEF ClosingMove, HandlerStep
      <4> QED
        BY <4>2
    <3>3. CASE RegisterDevice(c)
      BY <3>3 DEF RegisterDevice, HandlerStep
    <3>4. CASE SendAck(c)
      BY <3>4 DEF SendAck, HandlerStep
    <3>5. CASE CloseSelf(c)
      BY <3>5 DEF CloseSelf, HandlerStep
    <3> QED
      BY <1>3, <3>1, <3>2, <3>3, <3>4, <3>5
  <2> QED
    BY <2>1, <2>2
<1>4. ASSUME NEW c \in Conns, WritePump(c) \/ PingFails(c) PROVE PumpInv'
  <2>1. UNCHANGED <<pc, fate, target>> /\ writer[c] # "none"
    BY <1>4 DEF WritePump, TakeNext, WriteSucceeds, WriteFails, ObserveDone, WriterCloses,
                PingFails, WriterStep, connVars, senderVars
  <2>2. \A e \in Conns : e # c => writer'[e] = writer[e] /\ inHand'[e] = inHand[e]
    BY <1>4 DEF WritePump, TakeNext, WriteSucceeds, WriteFails, ObserveDone, WriterCloses,
                PingFails, WriterStep
  <2>3. inHand'[c] # None => writer'[c] = "writing"
    <3>1. CASE TakeNext(c)
      BY <3>1 DEF TakeNext, WriterStep
    <3>2. CASE WriteSucceeds(c) \/ WriteFails(c)
      BY <3>2 DEF WriteSucceeds, WriteFails
    <3>3. CASE ObserveDone(c) \/ PingFails(c) \/ WriterCloses(c)
      BY <3>3 DEF ObserveDone, PingFails, WriterCloses, WriterStep
    <3> QED
      BY <1>4, <3>1, <3>2, <3>3 DEF WritePump
  <2> QED
    BY <2>1, <2>2, <2>3
<1>5. ASSUME NEW m \in Messages, NEW d \in Devices, Lookup(m, d) PROVE PumpInv'
  <2>1. deviceClients[d] # None => pc[deviceClients[d]] \in WasRegistered
    BY DEF EntryAttended
  <2> QED
    BY <1>5, <2>1 DEF Lookup, connVars, pumpVars
<1>6. ASSUME NEW m \in Messages, Enqueue(m) PROVE PumpInv'
  <2>1. /\ UNCHANGED <<pc, writer, inHand, target>> /\ fate[m] = "held"
        /\ \A k \in Messages : k # m => fate'[k] = fate[k]
    BY <1>6 DEF Enqueue, connVars
  <2> QED
    BY <2>1
<1>7. ASSUME Crash PROVE PumpInv'
  BY <1>7 DEF Crash
<1>8. ASSUME UNCHANGED <<connVars, pumpVars, senderVars>> PROVE PumpInv'
  BY <1>8 DEF connVars, pumpVars, senderVars
<1> QED
  BY <1>1, <1>2, <1>3, <1>4, <1>5, <1>6, <1>7, <1>8
  DEF Next, Statements, HubCalls, PlainStep, ClosingStep, vars, TwoMinutesPass, MarkOfflineInactive

\* The pumps and the senders are consistent with the registry in every reachable
\* state.
LEMMA PumpCorrect == Spec => [](TypeOK /\ RegistryInv /\ PumpInv)
<1>1. Init => PumpInv
  BY DEF Init, PumpInv, BeforePumps
<1>2. TypeOK /\ RegistryInv /\ PumpInv /\ [Next]_vars => PumpInv'
  BY PumpStep DEF RegistryInv
<1> QED
  BY <1>1, <1>2, RegistryCorrect, PTL DEF Spec

\* Only a successful write of a pump changes what is on a wire.
LEMMA WireGrowsByWriting ==
  ASSUME Next, wire' # wire
  PROVE  \E c \in Conns : WriteSucceeds(c)
<1>1. ASSUME NEW c \in Conns, Statements(c) \/ HubCalls(c) \/ Reader(c) PROVE UNCHANGED wire
  BY <1>1, PlainStepMoves, ClosingStepMoves
  DEF Statements, HubCalls, PlainStep, ClosingStep, RegisterDevice, SendAck, StartPumps, CloseSelf,
      pumpVars
<1>2. ASSUME NEW c \in Conns, WritePump(c) \/ PingFails(c), ~WriteSucceeds(c)
      PROVE  UNCHANGED wire
  BY <1>2 DEF WritePump, TakeNext, WriteFails, ObserveDone, WriterCloses, PingFails
<1>3. ASSUME NEW c \in Conns, NEW d \in Devices, UpgradeCheck(c, d) PROVE UNCHANGED wire
  BY <1>3 DEF UpgradeCheck, pumpVars
<1>4. ASSUME NEW m \in Messages, Enqueue(m) \/ (\E d \in Devices : Lookup(m, d))
      PROVE  UNCHANGED wire
  BY <1>4 DEF Enqueue, Lookup, pumpVars
<1>5. ASSUME \/ MarkOfflineInactive \/ Crash
             \/ \E d \in Devices : TwoMinutesPass(d)
      PROVE  UNCHANGED wire
  BY <1>5 DEF MarkOfflineInactive, Crash, TwoMinutesPass, pumpVars
<1> QED
  BY <1>1, <1>2, <1>3, <1>4, <1>5 DEF Next

\* What is written to a device is written on the connection the hub names for it.
WrittenOnCurrentConnection ==
  [][\A c \in Conns : wire'[c] # wire[c] => deviceClients[devOf[c]] = c]_vars

\* Nothing is written to a connection that the hub no longer names: neither the
\* pump of a replaced connection nor that of an unregistered one delivers.
THEOREM WritesGoToCurrent == Spec => WrittenOnCurrentConnection
<1>1. ASSUME TypeOK, RegistryInv, PumpInv, Next, NEW c \in Conns, wire'[c] # wire[c]
      PROVE  deviceClients[devOf[c]] = c
  <2>1. PICK e \in Conns : WriteSucceeds(e)
    BY <1>1, WireGrowsByWriting
  <2>2. e = c
    BY <1>1, <2>1 DEF WriteSucceeds, TypeOK
  <2>3. writer[c] = "writing" /\ ~closed[c]
    BY <2>1, <2>2 DEF WriteSucceeds, WriterStep
  <2>4. pc[c] \in HandlerStates /\ pc[c] \notin BeforePumps
    BY <1>1, <2>3 DEF PumpInv, TypeOK
  <2>5. pc[c] \in WasRegistered
    BY <2>4 DEF BeforePumps
  <2> QED
    BY <1>1, <2>3, <2>5 DEF RegistryInv, OrphanClosed
<1>2. TypeOK /\ RegistryInv /\ PumpInv /\ [Next]_vars =>
        [\A c \in Conns : wire'[c] # wire[c] => deviceClients[devOf[c]] = c]_vars
  BY <1>1
<1> QED
  BY <1>2, PumpCorrect, PTL DEF Spec, WrittenOnCurrentConnection

-----------------------------------------------------------------------------
(* Messages: what a channel accepted is not forgotten. *)

\* A message in a channel stays in it when another one is appended.
LEMMA PushKeeps ==
  ASSUME sendq \in [Conns -> Seq(Payloads)],
         NEW c \in Conns, NEW k \in Payloads, Push(c, k)
  PROVE  /\ InQueue(k, c)'
         /\ \A m \in Messages, e \in Conns : InQueue(m, e) => InQueue(m, e)'
<1>1. /\ Len(sendq'[c]) = Len(sendq[c]) + 1
      /\ sendq'[c][Len(sendq[c]) + 1] = k
      /\ \A i \in 1..Len(sendq[c]) : sendq'[c][i] = sendq[c][i]
      /\ Len(sendq[c]) \in Nat
  BY DEF Push
<1>2. InQueue(k, c)'
  BY <1>1 DEF InQueue
<1>3. ASSUME NEW m \in Messages, NEW e \in Conns, InQueue(m, e) PROVE InQueue(m, e)'
  <2>1. CASE e = c
    BY <1>1, <1>3, <2>1 DEF InQueue
  <2>2. CASE e # c
    BY <1>3, <2>2 DEF InQueue, Push
  <2> QED
    BY <2>1, <2>2
<1> QED
  BY <1>2, <1>3

\* Taking the head moves that message to the hand of the pump and no other.
LEMMA TakeKeeps ==
  ASSUME TypeOK, NEW c \in Conns, TakeNext(c), NEW m \in Messages, InQueue(m, c)
  PROVE  InQueue(m, c)' \/ inHand'[c] = m
<1>1. /\ sendq[c] # <<>> /\ sendq[c] \in Seq(Payloads)
      /\ sendq'[c] = Tail(sendq[c]) /\ inHand'[c] = Head(sendq[c])
  BY DEF TakeNext, TypeOK
<1>2. PICK i \in 1..Len(sendq[c]) : sendq[c][i] = m
  BY DEF InQueue
<1>3. CASE i = 1
  BY <1>1, <1>2, <1>3
<1>4. CASE i # 1
  <2>1. i - 1 \in 1..Len(sendq'[c]) /\ sendq'[c][i - 1] = m
    BY <1>1, <1>2, <1>4
  <2> QED
    BY <2>1 DEF InQueue
<1> QED
  BY <1>3, <1>4

\* Of the steps of a handler only the ACK and the start of the pumps touch either.
LEMMA HandlerKeepsMessages ==
  ASSUME NEW c \in Conns, PlainStep(c) \/ ClosingStep(c)
  PROVE  UNCHANGED <<pumpVars, senderVars>>
  BY PlainStepMoves, ClosingStepMoves DEF pumpVars, senderVars

\* Every step keeps the accepted messages accounted for.
LEMMA FateStep ==
  ASSUME TypeOK, PumpInv, AcceptedFate, [Next]_vars
  PROVE  AcceptedFate'
<1> SUFFICES ASSUME NEW m \in Messages, fate'[m] = "queued", NEW c \in Conns, target'[m] = c,
                    writer'[c] \notin {"returning", "exited"}
             PROVE  InQueue(m, c)' \/ inHand'[c] = m \/ m \in wire'[c]
  <2>1. TypeOK'
    BY TypeStep
  <2> QED
    BY <2>1 DEF AcceptedFate, TypeOK
<1> USE NamesAssumption DEF AcceptedFate
<1>1. CASE UNCHANGED <<pumpVars, senderVars>>
  BY <1>1 DEF pumpVars, senderVars, InQueue
<1>2. ASSUME NEW e \in Conns, SendAck(e) PROVE InQueue(m, c)' \/ inHand'[c] = m \/ m \in wire'[c]
  <2>1. InQueue(m, c) => InQueue(m, c)'
    <3>1. CASE UNCHANGED sendq
      BY <3>1 DEF InQueue
    <3>2. CASE Push(e, Ack)
      BY <3>2, PushKeeps DEF TypeOK
    <3> QED
      BY <1>2, <3>1, <3>2 DEF SendAck
  <2> QED
    BY <1>2, <2>1 DEF SendAck, senderVars
<1>3. ASSUME NEW e \in Conns, StartPumps(e) PROVE InQueue(m, c)' \/ inHand'[c] = m \/ m \in wire'[c]
  <2>1. writer[e] = "none"
    BY <1>3 DEF StartPumps, HandlerStep, PumpInv, BeforePumps
  <2> QED
    BY <1>3, <2>1 DEF StartPumps, senderVars, TypeOK, InQueue
<1>4. ASSUME NEW e \in Conns, TakeNext(e) PROVE InQueue(m, c)' \/ inHand'[c] = m \/ m \in wire'[c]
  <2>1. /\ fate[m] = "queued" /\ target[m] = c /\ UNCHANGED wire
        /\ writer[c] \notin {"returning", "exited"}
    BY <1>4 DEF TakeNext, WriterStep, senderVars, TypeOK
  <2>2. CASE e = c
    <3>1. inHand[c] = None
      BY <1>4, <2>2 DEF TakeNext, WriterStep, PumpInv
    <3> QED
      BY <1>4, <2>1, <2>2, <3>1, TakeKeeps
  <2>3. CASE e # c
    BY <1>4, <2>1, <2>3 DEF TakeNext, TypeOK, InQueue
  <2> QED
    BY <2>2, <2>3
<1>5. ASSUME NEW e \in Conns, WriteSucceeds(e) PROVE InQueue(m, c)' \/ inHand'[c] = m \/ m \in wire'[c]
  BY <1>5 DEF WriteSucceeds, WriterStep, senderVars, TypeOK, InQueue
<1>6. ASSUME NEW e \in Conns, WriteFails(e) \/ ObserveDone(e) \/ PingFails(e) \/ WriterCloses(e)
      PROVE  InQueue(m, c)' \/ inHand'[c] = m \/ m \in wire'[c]
  <2>1. /\ fate[m] = "queued" /\ target[m] = c /\ UNCHANGED <<sendq, wire>>
        /\ writer'[e] \in {"returning", "exited"}
        /\ \A x \in Conns : x # e => writer'[x] = writer[x] /\ inHand'[x] = inHand[x]
    BY <1>6 DEF WriteFails, ObserveDone, PingFails, WriterCloses, WriterStep, senderVars, TypeOK
  <2> QED
    BY <2>1 DEF InQueue
<1>7. ASSUME NEW k \in Messages, NEW d \in Devices, Lookup(k, d)
      PROVE  InQueue(m, c)' \/ inHand'[c] = m \/ m \in wire'[c]
  <2>1. k # m
    BY <1>7 DEF Lookup, TypeOK
  <2> QED
    BY <1>7, <2>1 DEF Lookup, pumpVars, TypeOK, InQueue
<1>8. ASSUME NEW k \in Messages, Enqueue(k) PROVE InQueue(m, c)' \/ inHand'[c] = m \/ m \in wire'[c]
  <2>1. UNCHANGED <<writer, inHand, wire, target>> /\ target[k] \in Conns
    BY <1>8 DEF Enqueue, TypeOK
  <2>2. InQueue(m, c) => InQueue(m, c)'
    <3>1. CASE UNCHANGED sendq
      BY <3>1 DEF InQueue
    <3>2. CASE Push(target[k], k)
      BY <2>1, <3>2, PushKeeps DEF TypeOK
    <3> QED
      BY <1>8, <3>1, <3>2 DEF Enqueue
  <2>3. CASE k = m
    BY <1>8, <2>1, <2>3, PushKeeps DEF Enqueue, TypeOK
  <2>4. CASE k # m
    <3>1. fate[m] = "queued"
      BY <1>8, <2>4 DEF Enqueue, TypeOK
    <3> QED
      BY <2>1, <2>2, <3>1
  <2> QED
    BY <2>3, <2>4
<1>9. ASSUME Crash PROVE InQueue(m, c)' \/ inHand'[c] = m \/ m \in wire'[c]
  <2>1. fate[m] = "queued" /\ target[m] = c
    BY <1>9 DEF Crash, TypeOK
  <2>2. writer'[c] = "exited"
    BY <1>9, <2>1 DEF Crash, PumpInv
  <2> QED
    BY <2>2
<1> QED
  BY <1>1, <1>2, <1>3, <1>4, <1>5, <1>6, <1>7, <1>8, <1>9, HandlerKeepsMessages
  DEF Next, Statements, HubCalls, PlainStep, ClosingStep, WritePump, vars, UpgradeCheck,
      RegisterDevice, CloseSelf, TwoMinutesPass, MarkOfflineInactive

\* A message the channel of a client accepted is never forgotten while the pump
\* of that client works.
THEOREM AcceptedMessagesKept == Spec => []AcceptedFate
<1>1. Init => AcceptedFate
  BY DEF Init, AcceptedFate
<1> QED
  BY <1>1, FateStep, PumpCorrect, PTL DEF Spec

\* A message is in a channel once at most.
Single(m, c) == \A i, j \in 1..Len(sendq[c]) : sendq[c][i] = m /\ sendq[c][j] = m => i = j

\* A message that is with a connection is queued for it, and at one place.
OnceAt(m, c) ==
  /\ InQueue(m, c) \/ inHand[c] = m \/ m \in wire[c] => fate[m] = "queued" /\ target[m] = c
  /\ Single(m, c)
  /\ InQueue(m, c) => inHand[c] # m
  /\ m \in wire[c] => ~InQueue(m, c) /\ inHand[c] # m

\* A message is at one place of one connection, the one that accepted it: it is
\* never written twice, nor on two connections.
AtMostOnce == \A m \in Messages, c \in Conns : OnceAt(m, c)

\* What is in a channel after a push, and how often.
LEMMA PushAddsOne ==
  ASSUME sendq \in [Conns -> Seq(Payloads)],
         NEW e \in Conns, NEW k \in Payloads, Push(e, k), NEW m \in Messages, NEW c \in Conns
  PROVE  /\ InQueue(m, c)' => InQueue(m, c) \/ (m = k /\ c = e)
         /\ Single(m, c) /\ ~(m = k /\ c = e /\ InQueue(m, c)) => Single(m, c)'
<1>1. CASE c = e
  <2>1. /\ Len(sendq'[c]) = Len(sendq[c]) + 1 /\ Len(sendq[c]) \in Nat
        /\ sendq'[c][Len(sendq[c]) + 1] = k
        /\ \A i \in 1..Len(sendq[c]) : sendq'[c][i] = sendq[c][i]
    BY <1>1 DEF Push
  <2>2. \A i \in 1..Len(sendq'[c]) : i \in 1..Len(sendq[c]) \/ i = Len(sendq[c]) + 1
    BY <2>1
  <2>3. InQueue(m, c)' => InQueue(m, c) \/ m = k
    BY <2>1, <2>2 DEF InQueue
  <2>4. ASSUME Single(m, c), ~(m = k /\ InQueue(m, c)),
               NEW i \in 1..Len(sendq'[c]), NEW j \in 1..Len(sendq'[c]),
               sendq'[c][i] = m, sendq'[c][j] = m
        PROVE  i = j
    BY <2>1, <2>2, <2>4 DEF InQueue, Single
  <2>5. Single(m, c) /\ ~(m = k /\ InQueue(m, c)) => Single(m, c)'
    BY <2>4 DEF Single
  <2> QED
    BY <1>1, <2>3, <2>5
<1>2. CASE c # e
  <2>1. sendq'[c] = sendq[c]
    BY <1>2 DEF Push
  <2> QED
    BY <2>1 DEF InQueue, Single
<1> QED
  BY <1>1, <1>2

\* What is left in a channel when the head, which is in it once, is taken.
LEMMA TakeRemovesOne ==
  ASSUME TypeOK, NEW c \in Conns, TakeNext(c), NEW m \in Messages, OnceAt(m, c)
  PROVE  /\ InQueue(m, c)' => InQueue(m, c) /\ inHand'[c] # m
         /\ inHand'[c] = m => InQueue(m, c)
         /\ Single(m, c)'
<1>1. /\ sendq[c] # <<>> /\ sendq[c] \in Seq(Payloads)
      /\ sendq'[c] = Tail(sendq[c]) /\ inHand'[c] = Head(sendq[c])
  BY DEF TakeNext, TypeOK
<1>2. /\ Len(sendq[c]) \in Nat \ {0} /\ Len(sendq'[c]) = Len(sendq[c]) - 1
      /\ \A i \in 1..Len(sendq'[c]) : i + 1 \in 1..Len(sendq[c]) /\ sendq'[c][i] = sendq[c][i + 1]
      /\ inHand'[c] = sendq[c][1] /\ 1 \in 1..Len(sendq[c])
  BY <1>1
<1>3. \A i, j \in 1..Len(sendq[c]) : sendq[c][i] = m /\ sendq[c][j] = m => i = j
  BY DEF OnceAt, Single
<1>4. ASSUME NEW i \in 1..Len(sendq'[c]), sendq'[c][i] = m
      PROVE  InQueue(m, c) /\ inHand'[c] # m
  <2>1. i + 1 \in 1..Len(sendq[c]) /\ sendq[c][i + 1] = m /\ i + 1 # 1
    BY <1>2, <1>4
  <2>2. sendq[c][1] # m
    BY <1>2, <1>3, <2>1
  <2> QED
    BY <1>2, <2>1, <2>2 DEF InQueue
<1>5. ASSUME NEW i \in 1..Len(sendq'[c]), NEW j \in 1..Len(sendq'[c]),
             sendq'[c][i] = m, sendq'[c][j] = m
      PROVE  i = j
  BY <1>2, <1>3, <1>5
<1>6. InQueue(m, c)' => InQueue(m, c) /\ inHand'[c] # m
  BY <1>4 DEF InQueue
<1>7. inHand'[c] = m => InQueue(m, c)
  BY <1>2 DEF InQueue
<1>8. Single(m, c)'
  BY <1>5 DEF Single
<1> QED
  BY <1>6, <1>7, <1>8

\* Every step keeps a message at one place.
LEMMA OnceStep ==
  ASSUME TypeOK, PumpInv, [Next]_vars, NEW m \in Messages, NEW c \in Conns, OnceAt(m, c)
  PROVE  OnceAt(m, c)'
<1> USE NamesAssumption DEF TypeOK
<1>1. CASE UNCHANGED <<pumpVars, senderVars>>
  BY <1>1 DEF pumpVars, senderVars, OnceAt, Single, InQueue
<1>2. ASSUME NEW e \in Conns, SendAck(e) PROVE OnceAt(m, c)'
  <2>1. UNCHANGED <<inHand, wire, fate, target>>
    BY <1>2 DEF SendAck, senderVars
  <2>2. CASE UNCHANGED sendq
    BY <2>1, <2>2 DEF OnceAt, Single, InQueue
  <2>3. CASE Push(e, Ack)
    <3>1. /\ InQueue(m, c)' => InQueue(m, c)
          /\ Single(m, c)'
      BY <2>3, PushAddsOne DEF OnceAt
    <3> QED
      BY <2>1, <3>1 DEF OnceAt
  <2> QED
    BY <1>2, <2>2, <2>3 DEF SendAck
<1>3. ASSUME NEW e \in Conns, TakeNext(e) PROVE OnceAt(m, c)'
  <2>1. UNCHANGED <<wire, fate, target>>
    BY <1>3 DEF TakeNext, senderVars
  <2>2. CASE e = c
    BY <1>3, <2>1, <2>2, TakeRemovesOne DEF OnceAt
  <2>3. CASE e # c
    <3>1. sendq'[c] = sendq[c] /\ inHand'[c] = inHand[c]
      BY <1>3, <2>3 DEF TakeNext
    <3> QED
      BY <2>1, <3>1 DEF OnceAt, Single, InQueue
  <2> QED
    BY <2>2, <2>3
<1>4. ASSUME NEW e \in Conns, WriteSucceeds(e) PROVE OnceAt(m, c)'
  BY <1>4 DEF WriteSucceeds, senderVars, OnceAt, Single, InQueue
<1>5. ASSUME NEW e \in Conns, WriteFails(e) \/ ObserveDone(e) \/ PingFails(e) \/ WriterCloses(e)
                              \/ StartPumps(e)
      PROVE  OnceAt(m, c)'
  <2>1. UNCHANGED <<sendq, wire, fate, target>>
    BY <1>5 DEF WriteFails, ObserveDone, PingFails, WriterCloses, StartPumps, senderVars
  <2>2. inHand'[c] \in {inHand[c], None}
    BY <1>5 DEF WriteFails, ObserveDone, PingFails, WriterCloses, StartPumps
  <2> QED
    BY <2>1, <2>2 DEF OnceAt, Single, InQueue
<1>6. ASSUME NEW k \in Messages, NEW d \in Devices, Lookup(k, d) PROVE OnceAt(m, c)'
  <2>1. UNCHANGED <<sendq, inHand, wire>> /\ fate[k] = "idle"
    BY <1>6 DEF Lookup, pumpVars
  <2>2. m # k => fate'[m] = fate[m] /\ target'[m] = target[m]
    BY <1>6 DEF Lookup
  <2>3. /\ (InQueue(m, c)' <=> InQueue(m, c)) /\ (Single(m, c)' <=> Single(m, c))
        /\ inHand'[c] = inHand[c] /\ wire'[c] = wire[c]
    BY <2>1 DEF Single, InQueue
  <2> QED
    BY <2>1, <2>2, <2>3 DEF OnceAt
<1>7. ASSUME NEW k \in Messages, Enqueue(k) PROVE OnceAt(m, c)'
  <2>1. UNCHANGED <<inHand, wire, target>> /\ fate[k] = "held" /\ target[k] \in Conns
    BY <1>7 DEF Enqueue
  <2>2. m # k => fate'[m] = fate[m]
    BY <1>7 DEF Enqueue
  <2>3. m = k => ~InQueue(m, c) /\ inHand[c] # m /\ m \notin wire[c]
    BY <2>1 DEF OnceAt
  <2>4. CASE UNCHANGED sendq
    <3>1. (InQueue(m, c)' <=> InQueue(m, c)) /\ (Single(m, c)' <=> Single(m, c))
      BY <2>4 DEF InQueue, Single
    <3> QED
      BY <2>1, <2>2, <2>3, <3>1 DEF OnceAt
  <2>5. CASE Push(target[k], k) /\ fate' = [fate EXCEPT ![k] = "queued"]
    <3>1. /\ InQueue(m, c)' => InQueue(m, c) \/ (m = k /\ c = target[k])
          /\ Single(m, c)'
      BY <2>1, <2>3, <2>5, PushAddsOne DEF OnceAt
    <3>2. m = k => fate'[m] = "queued"
      BY <2>5
    <3> QED
      BY <2>1, <2>2, <2>3, <3>1, <3>2 DEF OnceAt
  <2> QED
    BY <1>7, <2>4, <2>5 DEF Enqueue
<1>8. CASE Crash
  <2>1. /\ sendq'[c] = <<>> /\ inHand'[c] = None /\ UNCHANGED <<wire, target>>
        /\ fate[m] = "queued" => fate'[m] = "queued"
    BY <1>8 DEF Crash
  <2> QED
    BY <2>1 DEF OnceAt, Single, InQueue
<1> QED
  BY <1>1, <1>2, <1>3, <1>4, <1>5, <1>6, <1>7, <1>8, HandlerKeepsMessages
  DEF Next, Statements, HubCalls, PlainStep, ClosingStep, WritePump, vars, UpgradeCheck,
      RegisterDevice, CloseSelf, TwoMinutesPass, MarkOfflineInactive

\* No message is written twice, and none on two connections.
THEOREM MessagesOnce == Spec => []AtMostOnce
<1>1. Init => AtMostOnce
  BY NamesAssumption DEF Init, AtMostOnce, OnceAt, Single, InQueue
<1>2. TypeOK /\ PumpInv /\ AtMostOnce /\ [Next]_vars => AtMostOnce'
  BY OnceStep DEF AtMostOnce
<1> QED
  BY <1>1, <1>2, PumpCorrect, PTL DEF Spec

-----------------------------------------------------------------------------
(* The dashboards. *)

\* What a step may do to a device that shows as online and has nobody afterwards.
LEMMA TakenBackStep ==
  ASSUME TypeOK, [Next]_vars, NEW d \in Devices, announced'[d] = "online", ~Attended(d)'
  PROVE  \/ announced[d] = "online" /\ ~Attended(d)
         \/ \E c \in Conns : devOf[c] = d /\ Panics(c)
<1> DEFINE Explained == \/ announced[d] = "online" /\ ~Attended(d)
                        \/ \E c \in Conns : devOf[c] = d /\ Panics(c)
<1> USE DEF TypeOK
<1>1. CASE UNCHANGED <<pc, devOf, announced>>
  BY <1>1 DEF Attended
<1>2. ASSUME NEW c \in Conns, UNCHANGED devOf, \A e \in Conns : e # c => pc'[e] = pc[e],
             announced'[d] = announced[d], devOf[c] # d \/ pc[c] \notin OwesOffline
      PROVE  Explained
  BY <1>2 DEF Attended
<1>3. ASSUME NEW c \in Conns, AnnounceOnline(c) \/ AnnounceOnlinePanics(c) PROVE Explained
  <2>1. /\ pc[c] = "acked" /\ pc'[c] \in {"announced", "abandoned"} /\ UNCHANGED devOf
        /\ \A e \in Conns : e # c => pc'[e] = pc[e]
    BY <1>3 DEF AnnounceOnline, AnnounceOnlinePanics, HandlerStep
  <2>2. CASE devOf[c] # d
    <3>1. announced'[d] = announced[d]
      BY <1>3, <2>2 DEF AnnounceOnline, AnnounceOnlinePanics
    <3> QED
      BY <1>2, <2>1, <2>2, <3>1
  <2>3. CASE devOf[c] = d
    <3>1. pc'[c] = "abandoned"
      BY <2>1, <2>3 DEF Attended
    <3> QED
      BY <2>1, <2>3, <3>1 DEF Panics
  <2> QED
    BY <2>2, <2>3
<1>4. ASSUME NEW c \in Conns, AnnounceOffline(c) \/ AnnounceOfflinePanics(c) PROVE Explained
  <2>1. /\ pc[c] = "offline" /\ pc'[c] \in {"done", "panicked"} /\ UNCHANGED devOf
        /\ \A e \in Conns : e # c => pc'[e] = pc[e]
    BY <1>4 DEF AnnounceOffline, AnnounceOfflinePanics, HandlerStep
  <2>2. CASE devOf[c] # d
    <3>1. announced'[d] = announced[d]
      BY <1>4, <2>2 DEF AnnounceOffline, AnnounceOfflinePanics
    <3> QED
      BY <1>2, <2>1, <2>2, <3>1
  <2>3. CASE devOf[c] = d
    <3>1. ~AnnounceOffline(c)
      BY <2>3 DEF AnnounceOffline
    <3>2. pc'[c] = "panicked"
      BY <1>4, <3>1 DEF AnnounceOfflinePanics, HandlerStep
    <3> QED
      BY <2>1, <2>3, <3>2 DEF Panics
  <2> QED
    BY <2>2, <2>3
<1>5. ASSUME NEW c \in Conns,
             (\E x \in Devices : UpgradeCheck(c, x)) \/ MarkOnline(c) \/ RegisterDevice(c) \/ SendAck(c)
      PROVE  Explained
  <2>1. /\ pc[c] \notin OwesOffline /\ UNCHANGED announced
        /\ \A e \in Conns : e # c => pc'[e] = pc[e] /\ devOf'[e] = devOf[e]
    BY <1>5 DEF UpgradeCheck, MarkOnline, RegisterDevice, SendAck, HandlerStep
  <2> QED
    BY <2>1 DEF Attended
<1>6. ASSUME NEW c \in Conns,
             StartPumps(c) \/ Reader(c) \/ Forwarded(c) \/ ForwardPanics(c) \/ ClosingStep(c)
             \/ CloseSelf(c) \/ MarkOffline(c)
      PROVE  Explained
  <2>1. /\ UNCHANGED <<devOf, announced>>
        /\ \A e \in Conns : e # c => pc'[e] = pc[e]
        /\ pc[c] \in OwesOffline => pc'[c] \in OwesOffline \/ Panics(c)
    <3>1. CASE StartPumps(c)
      BY <3>1 DEF StartPumps, HandlerStep
    <3>2. CASE Reader(c)
      BY <3>2 DEF Reader, Heartbeat, DeviceInfo, OtherMessage, ReadFails, HandlerStep
    <3>3. CASE Forwarded(c) \/ ForwardPanics(c)
      BY <3>3 DEF Forwarded, ForwardPanics, HandlerStep, Panics
    <3>4. CASE ClosingStep(c)
      <4>1. UNCHANGED <<devOf, announced>>
        BY <3>4, ClosingStepMoves
      <4>2. ClosingMove(c)
        BY <3>4, ClosingStepMoves
      <4> QED
        BY <4>1, <4>2 DEF ClosingMove, HandlerStep, Panics
    <3>5. CASE CloseSelf(c)
      BY <3>5 DEF CloseSelf, HandlerStep
    <3>6. CASE MarkOffline(c)
      BY <3>6 DEF MarkOffline, HandlerStep
    <3> QED
      BY <1>6, <3>1, <3>2, <3>3, <3>4, <3>5, <3>6
  <2>2. CASE devOf[c] # d \/ pc[c] \notin OwesOffline
    BY <1>2, <2>1, <2>2
  <2>3. CASE devOf[c] = d /\ pc[c] \in OwesOffline
    <3>1. pc'[c] \notin OwesOffline
      BY <2>1, <2>3 DEF Attended
    <3> QED
      BY <2>1, <2>3, <3>1
  <2> QED
    BY <2>2, <2>3
<1>7. CASE Crash
  BY <1>7 DEF Crash
<1> QED
  BY <1>1, <1>3, <1>4, <1>5, <1>6, <1>7
  DEF Next, Statements, HubCalls, ClosingStep, WritePump, vars, connVars, TakeNext,
      WriteSucceeds, WriteFails, ObserveDone, PingFails, WriterCloses, Lookup, Enqueue,
      TwoMinutesPass, MarkOfflineInactive

\* A device that shows as online has a handler that will take that back, unless a
\* panic ended one.
THEOREM OnlineTakenBack == Spec => OnlineIsTakenBack
<1>1. TypeOK /\ [Next]_vars =>
        [\A d \in Devices : announced'[d] = "online" /\ ~Attended(d)' =>
           \/ announced[d] = "online" /\ ~Attended(d)
           \/ \E c \in Conns : devOf[c] = d /\ Panics(c)]_vars
  BY TakenBackStep
<1> QED
  BY <1>1, TypeCorrect, PTL DEF Spec, OnlineIsTakenBack

-----------------------------------------------------------------------------
(* DeviceHub implements DeviceSession. *)

\* A connection that is not registered yet is neither closed nor written to.
Untouched == \A c \in Conns : pc[c] \notin WasRegistered => ~closed[c] /\ sendq[c] = <<>>

\* Who closes or fills a client found it in the hub, or is its own handler or pump.
LEMMA UntouchedStep ==
  ASSUME TypeOK, RegistryInv, PumpInv, Untouched, [Next]_vars
  PROVE  Untouched'
<1> USE NamesAssumption DEF TypeOK, Untouched
<1> SUFFICES ASSUME NEW c \in Conns, pc'[c] \notin WasRegistered
             PROVE  ~closed'[c] /\ sendq'[c] = <<>>
  OBVIOUS
<1>1. CASE UNCHANGED <<pc, closed, sendq>>
  BY <1>1
<1>2. ASSUME NEW e \in Conns,
             (\E d \in Devices : UpgradeCheck(e, d)) \/ PlainStep(e) \/ StartPumps(e)
      PROVE  ~closed'[c] /\ sendq'[c] = <<>>
  <2>1. UNCHANGED <<closed, sendq>>
    BY <1>2, PlainStepMoves DEF UpgradeCheck, StartPumps, hubVars, pumpVars
  <2>2. pc[c] \notin WasRegistered
    <3>1. ASSUME NEW d \in Devices, UpgradeCheck(e, d) PROVE pc[c] \notin WasRegistered
      BY <3>1 DEF UpgradeCheck, HandlerStep
    <3>2. CASE PlainStep(e)
      BY <3>2, PlainStepMoves DEF PlainMove, HandlerStep
    <3>3. CASE StartPumps(e)
      BY <3>3 DEF StartPumps, HandlerStep
    <3> QED
      BY <1>2, <3>1, <3>2, <3>3
  <2> QED
    BY <2>1, <2>2
<1>3. ASSUME NEW e \in Conns, RegisterDevice(e) \/ ClosingStep(e)
      PROVE  ~closed'[c] /\ sendq'[c] = <<>>
  <2>1. /\ pc[c] \notin WasRegistered /\ devOf[e] \in Devices
        /\ closed' = [x \in Conns |-> closed[x] \/ x = deviceClients[devOf[e]]]
        /\ UNCHANGED sendq
    <3>1. CASE RegisterDevice(e)
      BY <3>1 DEF RegisterDevice, HandlerStep, pumpVars
    <3>2. CASE ClosingStep(e)
      <4>1. ClosingMove(e)
        BY <3>2, ClosingStepMoves
      <4>2. /\ pc[c] \notin WasRegistered /\ pc[e] # "new"
        BY <4>1 DEF ClosingMove, HandlerStep
      <4> QED
        BY <3>2, <4>2, ClosingStepMoves
    <3> QED
      BY <1>3, <3>1, <3>2
  <2>2. c # deviceClients[devOf[e]]
    BY <2>1 DEF RegistryInv, EntryAttended
  <2> QED
    BY <2>1, <2>2
<1>4. ASSUME NEW e \in Conns, SendAck(e) \/ CloseSelf(e)
      PROVE  ~closed'[c] /\ sendq'[c] = <<>>
  <2>1. c # e /\ pc[c] \notin WasRegistered
    BY <1>4 DEF SendAck, CloseSelf, HandlerStep
  <2> QED
    BY <1>4, <2>1 DEF SendAck, CloseSelf, Push, hubVars, pumpVars
<1>5. ASSUME NEW e \in Conns, WriterCloses(e) \/ TakeNext(e)
      PROVE  ~closed'[c] /\ sendq'[c] = <<>>
  <2>1. UNCHANGED pc /\ writer[e] # "none"
    BY <1>5 DEF WriterCloses, TakeNext, WriterStep, connVars
  <2>2. c # e
    BY <2>1 DEF PumpInv, BeforePumps
  <2> QED
    BY <1>5, <2>1, <2>2 DEF WriterCloses, TakeNext, hubVars
<1>6. ASSUME NEW m \in Messages, Enqueue(m)
      PROVE  ~closed'[c] /\ sendq'[c] = <<>>
  <2>1. UNCHANGED <<pc, closed>> /\ c # target[m]
    BY <1>6 DEF Enqueue, connVars, hubVars, PumpInv
  <2> QED
    BY <1>6, <2>1 DEF Enqueue, Push
<1>7. CASE Crash
  BY <1>7 DEF Crash
<1> QED
  BY <1>1, <1>2, <1>3, <1>4, <1>5, <1>6, <1>7
  DEF Next, Statements, HubCalls, PlainStep, ClosingStep, WritePump, vars, connVars, hubVars,
      pumpVars, WriteSucceeds, WriteFails, ObserveDone, PingFails, Lookup, TwoMinutesPass, MarkOfflineInactive

\* A connection is untouched until its handler registers it.
LEMMA UntouchedCorrect == Spec => [](TypeOK /\ RegistryInv /\ PumpInv /\ Untouched)
<1>1. Init => Untouched
  BY DEF Init, Untouched
<1> QED
  BY <1>1, UntouchedStep, PumpCorrect, PTL DEF Spec

\* A connection serves its device: it is live for DeviceSession.
Serves(c) == /\ pc[c] \in WasRegistered
             /\ ~closed[c]
             /\ writer[c] \notin {"returning", "exited"}

\* The life of a connection by what it does.
LEMMA LifeCases ==
  ASSUME NEW c \in Conns
  PROVE  /\ Life(c) \in {"registered", "greeted"} <=> Serves(c)
         /\ Life(c) = "new" <=> pc[c] = "new"
         /\ Life(c) = "admitted" <=> pc[c] \notin WasRegistered \cup {"new"}
         /\ Life(c) = "over" <=> pc[c] \in WasRegistered /\ ~Serves(c)
         /\ Life(c) = "registered" <=> Serves(c) /\ pc[c] = "registered"
  BY DEF Life, Serves

\* The same of the next state.
LEMMA LifeCasesPrimed ==
  ASSUME NEW c \in Conns
  PROVE  /\ Life(c)' \in {"registered", "greeted"} <=> Serves(c)'
         /\ Life(c)' = "new" <=> pc'[c] = "new"
         /\ Life(c)' = "admitted" <=> pc'[c] \notin WasRegistered \cup {"new"}
         /\ Life(c)' = "over" <=> pc'[c] \in WasRegistered /\ ~Serves(c)'
         /\ Life(c)' = "registered" <=> Serves(c)' /\ pc'[c] = "registered"
  BY DEF Life, Serves

\* What waits in a connection that serves is what its pump holds and its channel.
LEMMA UndeliveredCases ==
  ASSUME NEW c \in Conns
  PROVE  /\ ~Serves(c) => Undelivered(c) = <<>>
         /\ Serves(c) /\ inHand[c] = None => Undelivered(c) = sendq[c]
         /\ Serves(c) /\ inHand[c] # None => Undelivered(c) = <<inHand[c]>> \o sendq[c]
  BY LifeCases DEF Undelivered

\* The same of the next state.
LEMMA UndeliveredCasesPrimed ==
  ASSUME NEW c \in Conns
  PROVE  /\ ~Serves(c)' => Undelivered(c)' = <<>>
         /\ Serves(c)' /\ inHand'[c] = None => Undelivered(c)' = sendq'[c]
         /\ Serves(c)' /\ inHand'[c] # None => Undelivered(c)' = <<inHand'[c]>> \o sendq'[c]
  BY LifeCasesPrimed DEF Undelivered

\* DeviceSession sees nothing of a step at this connection.
Quiet(c) == Life(c)' = Life(c) /\ Undelivered(c)' = Undelivered(c)

\* A connection that is not touched shows no change.
LEMMA UntouchedIsQuiet ==
  ASSUME NEW c \in Conns, pc'[c] = pc[c], closed'[c] = closed[c], writer'[c] = writer[c],
         sendq'[c] = sendq[c], inHand'[c] = inHand[c]
  PROVE  Quiet(c)
  BY DEF Quiet, Life, Undelivered

\* Nor does one that is over and stays so, whatever its channel does.
LEMMA OverIsQuiet ==
  ASSUME NEW c \in Conns, pc[c] \in WasRegistered, ~Serves(c),
         pc'[c] \in WasRegistered, ~Serves(c)'
  PROVE  Quiet(c)
  BY LifeCases, LifeCasesPrimed, UndeliveredCases, UndeliveredCasesPrimed DEF Quiet

\* Senders that stay where they are show no change.
LEMMA SendersStay ==
  ASSUME UNCHANGED fate PROVE \A m \in Messages : SenderState(m)' = SenderState(m)
  BY DEF SenderState

\* If no connection and no sender shows a change, neither does DeviceSession.
LEMMA NothingShows ==
  ASSUME \A c \in Conns : Quiet(c), UNCHANGED <<devOf, wire, fate, target>>
  PROVE  UNCHANGED Session!vars
  BY SendersStay DEF Session!vars, Quiet

\* A step that ends the service of one connection and shows nothing else.
LEMMA ServiceEnds ==
  ASSUME NEW c \in Conns, Serves(c), pc'[c] \in WasRegistered, ~Serves(c)',
         \A x \in Conns : x # c => Quiet(x), UNCHANGED <<devOf, wire, fate, target>>
  PROVE  Session!End(c)
<1>1. /\ Life(c) \in {"registered", "greeted"}
      /\ Life(c)' = "over" /\ Undelivered(c)' = <<>>
  BY LifeCases, LifeCasesPrimed, UndeliveredCasesPrimed
<1> QED
  BY <1>1, SendersStay DEF Session!End, Session!Live, Quiet

\* What the invariants say together about connections, for the steps below.
LinkInv == TypeOK /\ RegistryInv /\ PumpInv /\ Untouched

\* A connection that serves is the one the hub names, and nobody else serves its
\* device.
LEMMA ServesIsNamed ==
  ASSUME LinkInv, NEW c \in Conns, Serves(c)
  PROVE  deviceClients[devOf[c]] = c /\ devOf[c] \in Devices
  BY DEF LinkInv, Serves, RegistryInv, OrphanClosed, TypeOK

\* An entry of the hub is a registered connection of the device.
LEMMA NamedIsRegistered ==
  ASSUME LinkInv, NEW d \in Devices, deviceClients[d] # None
  PROVE  /\ deviceClients[d] \in Conns /\ devOf[deviceClients[d]] = d
         /\ pc[deviceClients[d]] \in InHub \cup {"abandoned"}
<1>1. deviceClients[d] \in Conns
  BY DEF LinkInv, TypeOK
<1> QED
  BY <1>1 DEF LinkInv, RegistryInv, EntryAttended

\* The upgrade admits the connection.
LEMMA UpgradeImplements ==
  ASSUME LinkInv, NEW c \in Conns, NEW d \in Devices, UpgradeCheck(c, d)
  PROVE  Session!Admit(c, d)
<1>1. /\ pc[c] = "new" /\ pc' = [pc EXCEPT ![c] = "upgraded"]
      /\ devOf' = [devOf EXCEPT ![c] = d]
      /\ UNCHANGED <<closed, sendq, writer, inHand, wire, fate, target>>
  BY DEF UpgradeCheck, HandlerStep, hubVars, pumpVars, senderVars
<1>2. pc'[c] = "upgraded" /\ \A x \in Conns : x # c => pc'[x] = pc[x]
  BY <1>1 DEF LinkInv, TypeOK
<1>3. \A x \in Conns : x # c => Quiet(x)
  BY <1>1, <1>2, UntouchedIsQuiet
<1>4. Life(c) = "new" /\ Life(c)' = "admitted"
  BY <1>1, <1>2, LifeCases, LifeCasesPrimed
<1>5. Undelivered(c) = <<>> /\ Undelivered(c)' = <<>>
  BY <1>1, <1>2, UndeliveredCases, UndeliveredCasesPrimed DEF Serves
<1> QED
  BY <1>1, <1>3, <1>4, <1>5, SendersStay DEF Session!Admit, Quiet

\* The registration ends whoever served the device, and is not ended by it.
LEMMA RegisterImplements ==
  ASSUME LinkInv, NEW c \in Conns, RegisterDevice(c)
  PROVE  Session!Register(c)
<1> DEFINE existing == deviceClients[devOf[c]]
<1>1. /\ pc[c] = "online" /\ pc' = [pc EXCEPT ![c] = "registered"]
      /\ closed' = [x \in Conns |-> closed[x] \/ x = existing]
      /\ UNCHANGED <<devOf, sendq, writer, inHand, wire, fate, target>>
  BY DEF RegisterDevice, HandlerStep, pumpVars, senderVars
<1>2. pc'[c] = "registered" /\ \A x \in Conns : x # c => pc'[x] = pc[x]
  BY <1>1 DEF LinkInv, TypeOK
<1>3. devOf[c] \in Devices
  BY <1>1 DEF LinkInv, TypeOK
<1>4. existing # None => existing \in Conns /\ devOf[existing] = devOf[c] /\ existing # c
  BY <1>1, <1>3, NamedIsRegistered
<1>5. ASSUME NEW x \in Conns, Serves(x) PROVE devOf[x] = devOf[c] <=> x = existing
  BY <1>4, <1>5, ServesIsNamed, NamesAssumption
<1>6. \A x \in Conns : /\ x = existing => closed'[x]
                       /\ x # existing => closed'[x] = closed[x]
  <2>1. \A x \in Conns : closed[x] \in BOOLEAN
    BY DEF LinkInv, TypeOK
  <2> QED
    BY <1>1, <2>1
<1> HIDE DEF existing
<1>7. Life(c) = "admitted" /\ Life(c)' = "registered" /\ Undelivered(c)' = Undelivered(c)
  <2>1. ~Serves(c) /\ ~closed[c] /\ sendq[c] = <<>> /\ writer[c] = "none" /\ inHand[c] = None
    BY <1>1 DEF LinkInv, Untouched, PumpInv, BeforePumps, Serves
  <2>2. Serves(c)'
    <3>1. ~closed'[c]
      BY <1>4, <1>6, <2>1, NamesAssumption
    <3> QED
      BY <1>1, <1>2, <2>1, <3>1 DEF Serves
  <2>3. sendq'[c] = <<>> /\ inHand'[c] = None
    BY <1>1, <2>1
  <2> QED
    BY <1>1, <1>2, <2>1, <2>2, <2>3, LifeCases, LifeCasesPrimed, UndeliveredCases,
       UndeliveredCasesPrimed
<1>8. ASSUME NEW x \in Conns, x # c
      PROVE  IF Serves(x) /\ devOf[x] = devOf[c]
             THEN Life(x)' = "over" /\ Undelivered(x)' = <<>> ELSE Quiet(x)
  <2>1. CASE Serves(x) /\ x = existing
    <3>1. pc'[x] \in WasRegistered /\ ~Serves(x)'
      BY <1>2, <1>6, <1>8, <2>1 DEF Serves
    <3> QED
      BY <1>5, <2>1, <3>1, LifeCasesPrimed, UndeliveredCasesPrimed
  <2>2. CASE x # existing
    <3>1. closed'[x] = closed[x]
      BY <1>6, <2>2
    <3> QED
      BY <1>1, <1>2, <1>5, <1>8, <2>2, <3>1, UntouchedIsQuiet
  <2>3. CASE ~Serves(x) /\ x = existing
    <3>1. pc[x] \in WasRegistered
      BY <1>3, <2>3, NamedIsRegistered, NamesAssumption DEF existing
    <3>2. ~Serves(x)' /\ pc'[x] \in WasRegistered
      BY <1>2, <1>6, <1>8, <2>3, <3>1 DEF Serves
    <3> QED
      BY <2>3, <3>1, <3>2, OverIsQuiet
  <2> QED
    BY <2>1, <2>2, <2>3
<1>9. ~Serves(c)
  BY <1>1 DEF Serves
<1>10. \A x \in Conns : Life(x) \in {"registered", "greeted"} <=> Serves(x)
  BY LifeCases
<1> QED
  BY <1>1, <1>7, <1>8, <1>9, <1>10, SendersStay
  DEF Session!Register, Session!Replaced, Session!Live, Quiet

\* What waits in a connection that serves, when a message joins its channel.
LEMMA PushedLast ==
  ASSUME LinkInv, NEW c \in Conns, NEW k \in Payloads, Serves(c), Serves(c)', Push(c, k),
         inHand'[c] = inHand[c]
  PROVE  Undelivered(c)' = Append(Undelivered(c), k)
<1>1. sendq[c] \in Seq(Payloads) /\ sendq'[c] = Append(sendq[c], k)
  BY DEF LinkInv, TypeOK, Push
<1>2. CASE inHand[c] = None
  BY <1>1, <1>2, UndeliveredCases, UndeliveredCasesPrimed
<1>3. CASE inHand[c] # None
  <2>1. inHand[c] \in Payloads
    BY <1>3 DEF LinkInv, TypeOK
  <2>2. <<inHand[c]>> \o Append(sendq[c], k) = Append(<<inHand[c]>> \o sendq[c], k)
    BY <1>1, <2>1
  <2> QED
    BY <1>1, <1>3, <2>2, UndeliveredCases, UndeliveredCasesPrimed
<1> QED
  BY <1>2, <1>3

\* How much waits in a connection that serves: its channel and one more at most.
LEMMA WaitingLength ==
  ASSUME LinkInv, NEW c \in Conns, Serves(c)
  PROVE  /\ Len(Undelivered(c)) \in {Len(sendq[c]), Len(sendq[c]) + 1}
         /\ Len(sendq[c]) \in Nat /\ Len(sendq[c]) <= SendCap
<1>1. sendq[c] \in Seq(Payloads) /\ Len(sendq[c]) \in Nat /\ Len(sendq[c]) <= SendCap
  BY DEF LinkInv, TypeOK
<1>2. CASE inHand[c] = None
  <2>1. Undelivered(c) = sendq[c]
    BY <1>2, UndeliveredCases
  <2> QED
    BY <1>1, <2>1
<1>3. CASE inHand[c] # None
  <2>1. inHand[c] \in Payloads
    BY <1>3 DEF LinkInv, TypeOK
  <2>2. Len(<<inHand[c]>> \o sendq[c]) = Len(sendq[c]) + 1
    BY <1>1, <2>1
  <2>3. Undelivered(c) = <<inHand[c]>> \o sendq[c]
    BY <1>3, UndeliveredCases
  <2> QED
    BY <1>1, <2>2, <2>3
<1> QED
  BY <1>2, <1>3

\* The ACK greets a connection that serves, and is lost on one that is closed.
LEMMA AckImplements ==
  ASSUME LinkInv, NEW c \in Conns, SendAck(c)
  PROVE  Session!Greet(c) \/ UNCHANGED Session!vars
<1>1. /\ pc[c] = "registered" /\ pc' = [pc EXCEPT ![c] = "acked"]
      /\ UNCHANGED <<devOf, closed, writer, inHand, wire, fate, target>>
      /\ \/ Accepts(c) /\ Push(c, Ack)
         \/ (Refuses(c) \/ Drops(c)) /\ UNCHANGED sendq
  BY DEF SendAck, HandlerStep, hubVars, senderVars
<1>2. pc'[c] = "acked" /\ \A x \in Conns : x # c => pc'[x] = pc[x]
  BY <1>1 DEF LinkInv, TypeOK
<1>3. \A x \in Conns : x # c => sendq'[x] = sendq[x]
  BY <1>1 DEF Push, LinkInv, TypeOK
<1>4. \A x \in Conns : x # c => Quiet(x)
  BY <1>1, <1>2, <1>3, UntouchedIsQuiet
<1>5. Serves(c)' <=> Serves(c)
  BY <1>1, <1>2 DEF Serves
<1>6. CASE ~Serves(c)
  <2>1. Quiet(c)
    BY <1>1, <1>2, <1>5, <1>6, OverIsQuiet
  <2> QED
    BY <1>1, <1>4, <2>1, NothingShows
<1>7. CASE Serves(c)
  <2>1. Life(c) = "registered" /\ Life(c)' = "greeted"
    BY <1>1, <1>2, <1>5, <1>7, LifeCases, LifeCasesPrimed
  <2>2. Len(Undelivered(c)) \in {Len(sendq[c]), Len(sendq[c]) + 1} /\ Len(sendq[c]) \in Nat
    BY <1>7, WaitingLength
  <2>3. CASE Accepts(c) /\ Push(c, Ack)
    <3>1. Undelivered(c)' = Append(Undelivered(c), Ack)
      BY <1>1, <1>5, <1>7, <2>3, PushedLast
    <3>2. Len(Undelivered(c)) <= SendCap
      BY <2>2, <2>3, SendCapAssumption DEF Accepts
    <3> QED
      BY <1>1, <1>4, <2>1, <3>1, <3>2, SendersStay DEF Session!Greet, Session!HasRoom, Quiet
  <2>4. CASE (Refuses(c) \/ Drops(c)) /\ UNCHANGED sendq
    <3>1. Len(Undelivered(c)) >= SendCap
      BY <1>7, <2>2, <2>4, SendCapAssumption DEF Serves, Refuses, Drops, Accepts
    <3>2. Undelivered(c)' = Undelivered(c)
      BY <1>1, <1>5, <1>7, <2>4, UndeliveredCases, UndeliveredCasesPrimed
    <3> QED
      BY <1>1, <1>4, <2>1, <3>1, <3>2, SendersStay DEF Session!Greet, Session!IsFull, Quiet
  <2> QED
    BY <1>1, <2>3, <2>4
<1> QED
  BY <1>6, <1>7

\* A closing step shows the end of the connection the hub names, or nothing.
LEMMA ClosingImplements ==
  ASSUME LinkInv, NEW c \in Conns, ClosingStep(c)
  PROVE  (\E x \in Conns : Session!End(x)) \/ UNCHANGED Session!vars
<1> DEFINE client == deviceClients[devOf[c]]
<1>1. /\ closed' = [x \in Conns |-> closed[x] \/ x = client]
      /\ UNCHANGED <<devOf, sendq, writer, inHand, wire, fate, target>>
  BY ClosingStepMoves
<1>2. /\ pc[c] \in {"online", "closing", "panicking"} /\ devOf[c] \in Devices
      /\ pc'[c] \in {"rejected", "unregistered", "unwinding", "panicked"}
      /\ pc'[c] = "rejected" <=> pc[c] = "online"
      /\ \A x \in Conns : x # c => pc'[x] = pc[x]
  BY ClosingStepMoves DEF ClosingMove, HandlerStep, LinkInv, TypeOK
<1>3. \A x \in Conns : /\ x = client => closed'[x]
                       /\ x # client => closed'[x] = closed[x]
  <2>1. \A x \in Conns : closed[x] \in BOOLEAN
    BY DEF LinkInv, TypeOK
  <2> QED
    BY <1>1, <2>1
<1>4. \A x \in Conns : x = client => pc[x] \in WasRegistered
  BY <1>2, NamedIsRegistered, NamesAssumption
<1> HIDE DEF client
<1>5. ASSUME NEW x \in Conns PROVE /\ pc'[x] \in WasRegistered <=> pc[x] \in WasRegistered
                                   /\ pc'[x] = pc[x] \/ pc[x] \notin {"new", "registered"}
  BY <1>2
<1>6. ASSUME NEW x \in Conns, x # client PROVE Quiet(x)
  <2>1. Serves(x)' <=> Serves(x)
    BY <1>1, <1>3, <1>5, <1>6 DEF Serves
  <2>2. Life(x)' = Life(x)
    BY <1>1, <1>2, <1>3, <1>6 DEF Life
  <2> QED
    BY <1>1, <2>1, <2>2, UndeliveredCases, UndeliveredCasesPrimed DEF Quiet
<1>7. ASSUME NEW x \in Conns, x = client
      PROVE  pc[x] \in WasRegistered /\ pc'[x] \in WasRegistered /\ ~Serves(x)'
  BY <1>3, <1>4, <1>5, <1>7 DEF Serves
<1>8. CASE \E x \in Conns : x = client /\ Serves(x)
  BY <1>1, <1>6, <1>7, <1>8, ServiceEnds
<1>9. CASE ~ \E x \in Conns : x = client /\ Serves(x)
  <2>1. \A x \in Conns : Quiet(x)
    BY <1>6, <1>7, <1>9, OverIsQuiet
  <2> QED
    BY <1>1, <2>1, NothingShows
<1> QED
  BY <1>8, <1>9

\* A handler that closes its own client closes one that the hub has let go.
LEMMA CloseSelfShowsNothing ==
  ASSUME LinkInv, NEW c \in Conns, CloseSelf(c) PROVE UNCHANGED Session!vars
<1>1. /\ pc[c] \in {"unregistered", "unwinding"}
      /\ \E s \in {"stopped", "panicked"} : pc' = [pc EXCEPT ![c] = s]
      /\ closed' = [closed EXCEPT ![c] = TRUE]
      /\ UNCHANGED <<devOf, sendq, writer, inHand, wire, fate, target>>
  BY DEF CloseSelf, HandlerStep, pumpVars, senderVars
<1>2. \A x \in Conns : x # c => pc'[x] = pc[x] /\ closed'[x] = closed[x]
  BY <1>1 DEF LinkInv, TypeOK
<1>3. pc'[c] \in {"stopped", "panicked"} /\ closed'[c]
  BY <1>1 DEF LinkInv, TypeOK
<1>4. closed[c]
  <2>1. devOf[c] \in Devices
    BY <1>1 DEF LinkInv, TypeOK
  <2>2. deviceClients[devOf[c]] # c
    BY <1>1, <2>1, NamedIsRegistered, NamesAssumption
  <2> QED
    BY <1>1, <2>2 DEF LinkInv, RegistryInv, OrphanClosed
<1>5. Quiet(c)
  BY <1>1, <1>3, <1>4, OverIsQuiet DEF Serves
<1>6. \A x \in Conns : x # c => Quiet(x)
  BY <1>1, <1>2, UntouchedIsQuiet
<1> QED
  BY <1>1, <1>5, <1>6, NothingShows

\* Nor do the statements of a handler that leave the client alone.
LEMMA StatementsShowNothing ==
  ASSUME LinkInv, NEW c \in Conns, PlainStep(c) \/ StartPumps(c)
  PROVE  UNCHANGED Session!vars
<1>1. UNCHANGED <<devOf, closed, sendq, inHand, wire, fate, target>>
  BY PlainStepMoves DEF StartPumps, hubVars, pumpVars, senderVars
<1>2. /\ \A x \in Conns : x # c => pc'[x] = pc[x]
      /\ \/ pc[c] = "upgraded" /\ pc'[c] = "online"
         \/ pc[c] \in WasRegistered \ {"registered"} /\ pc'[c] \in WasRegistered \ {"registered"}
  <2>1. CASE PlainStep(c)
    BY <2>1, PlainStepMoves DEF PlainMove, HandlerStep, LinkInv, TypeOK
  <2>2. CASE StartPumps(c)
    BY <2>2 DEF StartPumps, HandlerStep, LinkInv, TypeOK
  <2> QED
    BY <2>1, <2>2
<1>3. \A x \in Conns : writer'[x] = writer[x] \/ (writer[x] = "none" /\ writer'[x] = "selecting")
  <2>1. CASE StartPumps(c)
    <3>1. writer[c] = "none"
      BY <2>1 DEF StartPumps, HandlerStep, LinkInv, PumpInv, BeforePumps
    <3> QED
      BY <2>1, <3>1 DEF StartPumps, LinkInv, TypeOK
  <2>2. CASE PlainStep(c)
    BY <2>2, PlainStepMoves DEF pumpVars
  <2> QED
    BY <2>1, <2>2
<1>4. ASSUME NEW x \in Conns PROVE Quiet(x)
  <2>1. Serves(x)' <=> Serves(x)
    BY <1>1, <1>2, <1>3 DEF Serves
  <2>2. Life(x)' = Life(x)
    BY <1>1, <1>2, <1>3 DEF Life
  <2> QED
    BY <1>1, <2>1, <2>2, UndeliveredCases, UndeliveredCasesPrimed DEF Quiet
<1> QED
  BY <1>1, <1>4, NothingShows

\* The pump that takes a message from the channel has it in hand.
LEMMA TakeShowsNothing ==
  ASSUME LinkInv, NEW c \in Conns, TakeNext(c) PROVE UNCHANGED Session!vars
<1>1. /\ writer[c] = "selecting" /\ writer' = [writer EXCEPT ![c] = "writing"]
      /\ sendq[c] # <<>> /\ sendq[c] \in Seq(Payloads)
      /\ inHand' = [inHand EXCEPT ![c] = Head(sendq[c])]
      /\ sendq' = [sendq EXCEPT ![c] = Tail(@)]
      /\ UNCHANGED <<pc, devOf, closed, wire, fate, target>>
  BY DEF TakeNext, WriterStep, connVars, hubVars, senderVars, LinkInv, TypeOK
<1>2. \A x \in Conns : x # c => Quiet(x)
  <2>1. \A x \in Conns : x # c => /\ writer'[x] = writer[x] /\ inHand'[x] = inHand[x]
                                  /\ sendq'[x] = sendq[x]
    BY <1>1 DEF LinkInv, TypeOK
  <2> QED
    BY <1>1, <2>1, UntouchedIsQuiet
<1>3. writer'[c] = "writing" /\ inHand'[c] = Head(sendq[c]) /\ sendq'[c] = Tail(sendq[c])
  BY <1>1 DEF LinkInv, TypeOK
<1>4. inHand[c] = None
  BY <1>1 DEF LinkInv, PumpInv
<1>5. inHand'[c] # None
  BY <1>1, <1>3, NamesAssumption
<1>6. <<Head(sendq[c])>> \o Tail(sendq[c]) = sendq[c]
  BY <1>1
<1>7. Life(c)' = Life(c) /\ (Serves(c)' <=> Serves(c))
  BY <1>1, <1>3 DEF Life, Serves
<1>8. Undelivered(c)' = Undelivered(c)
  BY <1>3, <1>4, <1>5, <1>6, <1>7, UndeliveredCases, UndeliveredCasesPrimed
<1> QED
  BY <1>1, <1>2, <1>7, <1>8, NothingShows DEF Quiet

\* A write delivers what has waited longest in a connection that serves.
LEMMA WriteImplements ==
  ASSUME LinkInv, NEW c \in Conns, WriteSucceeds(c) PROVE Session!Deliver(c)
<1>1. /\ writer[c] = "writing" /\ writer' = [writer EXCEPT ![c] = "selecting"]
      /\ ~closed[c] /\ wire' = [wire EXCEPT ![c] = @ \cup {inHand[c]}]
      /\ inHand' = [inHand EXCEPT ![c] = None]
      /\ UNCHANGED <<pc, devOf, closed, sendq, fate, target>>
  BY DEF WriteSucceeds, WriterStep, connVars, hubVars, senderVars
<1>2. \A x \in Conns : x # c => Quiet(x)
  <2>1. \A x \in Conns : x # c => writer'[x] = writer[x] /\ inHand'[x] = inHand[x]
    BY <1>1 DEF LinkInv, TypeOK
  <2> QED
    BY <1>1, <2>1, UntouchedIsQuiet
<1>3. writer'[c] = "selecting" /\ inHand'[c] = None /\ sendq'[c] = sendq[c]
  BY <1>1 DEF LinkInv, TypeOK
<1>4. inHand[c] \in Payloads /\ inHand[c] # None /\ sendq[c] \in Seq(Payloads)
  BY <1>1, NamesAssumption DEF LinkInv, TypeOK
<1>5. pc[c] \in WasRegistered
  <2>1. pc[c] \in HandlerStates /\ pc[c] \notin BeforePumps
    BY <1>1 DEF LinkInv, TypeOK, PumpInv
  <2> QED
    BY <2>1 DEF BeforePumps
<1>6. Serves(c) /\ Serves(c)' /\ Life(c)' = Life(c)
  BY <1>1, <1>3, <1>5 DEF Serves, Life
<1>7. Undelivered(c) = <<inHand[c]>> \o sendq[c] /\ Undelivered(c)' = sendq[c]
  BY <1>3, <1>4, <1>6, UndeliveredCases, UndeliveredCasesPrimed
<1>8. /\ Undelivered(c) # <<>> /\ Head(Undelivered(c)) = inHand[c]
      /\ Tail(Undelivered(c)) = Undelivered(c)'
  <2>1. LET u == <<inHand[c]>> \o sendq[c]
        IN  u # <<>> /\ Head(u) = inHand[c] /\ Tail(u) = sendq[c]
    BY <1>4
  <2> QED
    BY <1>7, <2>1
<1>9. Life(c) \in {"registered", "greeted"}
  BY <1>6, LifeCases
<1> QED
  BY <1>1, <1>2, <1>6, <1>8, <1>9, SendersStay DEF Session!Deliver, Session!Live, Quiet

\* A pump that gives up ends the service; one that returns for good ends nothing
\* that was not over.
LEMMA PumpEndImplements ==
  ASSUME LinkInv, NEW c \in Conns,
         WriteFails(c) \/ PingFails(c) \/ ObserveDone(c) \/ WriterCloses(c)
  PROVE  Session!End(c) \/ UNCHANGED Session!vars
<1>1. /\ writer[c] # "none" /\ writer'[c] \in {"returning", "exited"}
      /\ UNCHANGED <<pc, devOf, sendq, wire, fate, target>>
  BY DEF WriteFails, PingFails, ObserveDone, WriterCloses, WriterStep, connVars, hubVars,
         senderVars, LinkInv, TypeOK
<1>2. \A x \in Conns : x # c => /\ writer'[x] = writer[x] /\ inHand'[x] = inHand[x]
                                /\ closed'[x] = closed[x]
  BY DEF WriteFails, PingFails, ObserveDone, WriterCloses, WriterStep, hubVars, LinkInv, TypeOK
<1>3. \A x \in Conns : x # c => Quiet(x)
  BY <1>1, <1>2, UntouchedIsQuiet
<1>4. pc[c] \in WasRegistered /\ pc'[c] \in WasRegistered /\ ~Serves(c)'
  BY <1>1 DEF LinkInv, TypeOK, PumpInv, BeforePumps, Serves
<1>5. CASE Serves(c)
  BY <1>1, <1>3, <1>4, <1>5, ServiceEnds
<1>6. CASE ~Serves(c)
  <2>1. Quiet(c)
    BY <1>4, <1>6, OverIsQuiet
  <2> QED
    BY <1>1, <1>3, <2>1, NothingShows
<1> QED
  BY <1>5, <1>6

\* A sender that looks a device up finds its live connection, if it has one.
LEMMA LookupImplements ==
  ASSUME LinkInv, NEW m \in Messages, NEW d \in Devices, Lookup(m, d)
  PROVE  Session!Find(m, d)
<1> DEFINE c == deviceClients[d]
<1>1. /\ fate[m] = "idle"
      /\ target' = [target EXCEPT ![m] = c]
      /\ fate' = [fate EXCEPT ![m] = IF c = None THEN "refused" ELSE "held"]
      /\ UNCHANGED <<pc, devOf, closed, sendq, writer, inHand, wire>>
  BY DEF Lookup, connVars, hubVars, pumpVars
<1>2. \A x \in Conns : Quiet(x)
  BY <1>1, UntouchedIsQuiet
<1>3. c \in {x \in Conns : devOf[x] = d} \cup {None}
  BY NamedIsRegistered
<1>4. \A x \in Conns : Serves(x) /\ devOf[x] = d => x = c
  BY ServesIsNamed
<1>5. SenderState(m) = "idle" /\ SenderState(m)' = IF c = None THEN "decided" ELSE "bound"
  <2>1. fate'[m] = IF c = None THEN "refused" ELSE "held"
    BY <1>1 DEF LinkInv, TypeOK
  <2> QED
    BY <1>1, <2>1 DEF SenderState
<1>6. ASSUME NEW k \in Messages, k # m PROVE SenderState(k)' = SenderState(k)
  <2>1. fate'[k] = fate[k]
    BY <1>1, <1>6 DEF LinkInv, TypeOK
  <2> QED
    BY <2>1 DEF SenderState
<1> HIDE DEF c
<1>7. \A x \in Conns : Life(x) \in {"registered", "greeted"} => Serves(x)
  BY LifeCases
<1>8. PICK e \in {x \in Conns : devOf[x] = d} \cup {None} : e = c
  BY <1>3
<1> QED
  BY <1>1, <1>2, <1>4, <1>5, <1>6, <1>7, <1>8 DEF Session!Find, Session!Live, Quiet

\* A sender that holds a client is done with its message: the connection accepts
\* it, or is over, or has no room.
LEMMA EnqueueImplements ==
  ASSUME LinkInv, NEW m \in Messages, Enqueue(m)
  PROVE  Session!Accept(m) \/ Session!Lose(m)
<1>1. PICK c \in Conns : c = target[m] /\ pc[c] \in WasRegistered
  BY DEF Enqueue, LinkInv, TypeOK, PumpInv
<1>2. /\ fate[m] = "held" /\ UNCHANGED <<pc, devOf, closed, writer, inHand, wire, target>>
      /\ \/ Accepts(c) /\ Push(c, m) /\ fate' = [fate EXCEPT ![m] = "queued"]
         \/ Refuses(c) /\ fate' = [fate EXCEPT ![m] = "refused"] /\ UNCHANGED sendq
         \/ Drops(c) /\ fate' = [fate EXCEPT ![m] = "dropped"] /\ UNCHANGED sendq
  BY <1>1 DEF Enqueue, connVars, hubVars
<1>3. Session!Decide(m)
  <2>1. fate'[m] \in {"queued", "refused", "dropped"} /\ \A k \in Messages : k # m => fate'[k] = fate[k]
    BY <1>2 DEF LinkInv, TypeOK
  <2>2. SenderState(m) = "bound" /\ SenderState(m)' = "decided"
    BY <1>2, <2>1 DEF SenderState
  <2>3. ASSUME NEW k \in Messages, k # m PROVE SenderState(k)' = SenderState(k)
    BY <2>1, <2>3 DEF SenderState
  <2> QED
    BY <2>2, <2>3 DEF Session!Decide
<1>4. \A x \in Conns : (Serves(x)' <=> Serves(x)) /\ Life(x)' = Life(x)
  BY <1>2 DEF Serves, Life
<1>5. Life(c) \in {"registered", "greeted"} <=> Serves(c)
  BY <1>1, LifeCases
<1>6. ASSUME NEW x \in Conns, x # c PROVE Quiet(x)
  <2>1. sendq'[x] = sendq[x]
    BY <1>2, <1>6 DEF Push, LinkInv, TypeOK
  <2> QED
    BY <1>2, <2>1, UntouchedIsQuiet
<1>7. CASE ~Serves(c)
  <2>1. Quiet(c)
    BY <1>1, <1>4, <1>7, UndeliveredCases, UndeliveredCasesPrimed DEF Quiet
  <2> QED
    BY <1>1, <1>2, <1>3, <1>5, <1>6, <1>7, <2>1 DEF Session!Lose, Session!Live, Quiet
<1>8. CASE Serves(c)
  <2>1. Len(Undelivered(c)) \in {Len(sendq[c]), Len(sendq[c]) + 1} /\ Len(sendq[c]) \in Nat
    BY <1>1, <1>8, WaitingLength
  <2>2. CASE Accepts(c) /\ Push(c, m)
    <3>1. Undelivered(c)' = Append(Undelivered(c), m)
      BY <1>1, <1>2, <1>4, <1>8, <2>2, PushedLast
    <3>2. Len(Undelivered(c)) <= SendCap
      BY <2>1, <2>2, SendCapAssumption DEF Accepts
    <3> QED
      BY <1>1, <1>2, <1>3, <1>4, <1>5, <1>6, <1>8, <3>1, <3>2
      DEF Session!Accept, Session!Live, Session!HasRoom, Quiet
  <2>3. CASE (Refuses(c) \/ Drops(c)) /\ UNCHANGED sendq
    <3>1. Len(Undelivered(c)) >= SendCap
      BY <1>8, <2>1, <2>3, SendCapAssumption DEF Serves, Refuses, Drops, Accepts
    <3>2. Quiet(c)
      BY <1>1, <1>2, <2>3, UntouchedIsQuiet
    <3> QED
      BY <1>1, <1>2, <1>3, <1>6, <3>1, <3>2 DEF Session!Lose, Session!IsFull, Quiet
  <2> QED
    BY <1>2, <2>2, <2>3
<1> QED
  BY <1>7, <1>8

\* The end of the process is the end of every connection and of every sender.
LEMMA CrashImplements == ASSUME LinkInv, Crash PROVE Session!Stop
<1>1. ASSUME NEW c \in Conns
      PROVE  /\ Life(c)' = IF Life(c) = "new" THEN "new" ELSE "over"
             /\ Undelivered(c)' = <<>>
  <2>1. /\ pc'[c] = IF pc[c] = "new" THEN "new" ELSE "done"
        /\ writer'[c] = IF pc[c] = "new" THEN writer[c] ELSE "exited"
    BY DEF Crash
  <2>2. CASE pc[c] = "new"
    <3>1. pc'[c] = "new"
      BY <2>1, <2>2
    <3> QED
      BY <2>2, <3>1, LifeCases, LifeCasesPrimed, UndeliveredCasesPrimed DEF Serves
  <2>3. CASE pc[c] # "new"
    <3>1. pc'[c] = "done" /\ writer'[c] = "exited"
      BY <2>1, <2>3
    <3>2. ~Serves(c)'
      BY <3>1 DEF Serves
    <3> QED
      BY <2>3, <3>1, <3>2, LifeCases, LifeCasesPrimed, UndeliveredCasesPrimed
  <2> QED
    BY <2>2, <2>3
<1>2. ASSUME NEW m \in Messages
      PROVE  SenderState(m)' = IF SenderState(m) = "bound" THEN "decided" ELSE SenderState(m)
  <2>1. fate'[m] = IF fate[m] = "held" THEN "lost" ELSE fate[m]
    BY DEF Crash
  <2> QED
    BY <2>1 DEF SenderState
<1>3. UNCHANGED <<devOf, wire, target>>
  BY DEF Crash
<1> QED
  BY <1>1, <1>2, <1>3 DEF Session!Stop

\* DeviceHub implements DeviceSession: for every number of devices, connections
\* and messages and every capacity, a message goes to the one live connection of
\* its device, is refused or dropped only if that is over or full, and is written
\* once, in order, on a connection that was not replaced.
THEOREM RefinesDeviceSession == Spec => ImplementsDeviceSession
<1>1. Init => Session!Init
  <2> SUFFICES ASSUME Init PROVE Session!Init
    OBVIOUS
  <2>1. \A c \in Conns : Life(c) = "new" /\ Undelivered(c) = <<>>
    BY DEF Init, Life, Undelivered
  <2>2. \A m \in Messages : SenderState(m) = "idle"
    BY DEF Init, SenderState
  <2> QED
    BY <2>1, <2>2 DEF Init, Session!Init
<1>2. LinkInv /\ [Next]_vars => [Session!Next]_(Session!vars)
  <2> SUFFICES ASSUME LinkInv, [Next]_vars PROVE Session!Next \/ UNCHANGED Session!vars
    OBVIOUS
  <2>1. CASE UNCHANGED <<connVars, hubVars, pumpVars, senderVars>>
    <3>1. \A c \in Conns : Quiet(c)
      BY <2>1, UntouchedIsQuiet DEF connVars, hubVars, pumpVars
    <3> QED
      BY <2>1, <3>1, NothingShows DEF connVars, pumpVars, senderVars
  <2>2. ASSUME NEW c \in Conns,
               Statements(c) \/ HubCalls(c) \/ Reader(c) \/ \E d \in Devices : UpgradeCheck(c, d)
        PROVE  Session!Next \/ UNCHANGED Session!vars
    BY <2>2, UpgradeImplements, RegisterImplements, AckImplements, ClosingImplements,
       CloseSelfShowsNothing, StatementsShowNothing
    DEF Statements, HubCalls, PlainStep, ClosingStep, Session!Next
  <2>3. ASSUME NEW c \in Conns, WritePump(c) \/ PingFails(c)
        PROVE  Session!Next \/ UNCHANGED Session!vars
    BY <2>3, TakeShowsNothing, WriteImplements, PumpEndImplements DEF WritePump, Session!Next
  <2>4. ASSUME NEW m \in Messages, Enqueue(m) \/ \E d \in Devices : Lookup(m, d)
        PROVE  Session!Next
    BY <2>4, LookupImplements, EnqueueImplements DEF Session!Next
  <2>5. CASE Crash
    BY <2>5, CrashImplements DEF Session!Next
  <2> QED
    BY <2>1, <2>2, <2>3, <2>4, <2>5
    DEF Next, TwoMinutesPass, MarkOfflineInactive, vars
<1>3. Spec => []LinkInv
  BY UntouchedCorrect, PTL DEF LinkInv
<1> QED
  BY <1>1, <1>2, <1>3, PTL DEF Spec, ImplementsDeviceSession, Session!Spec

=============================================================================
