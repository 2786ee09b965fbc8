----------------------- MODULE MirrorSessions_proofs -----------------------
(***************************************************************************)
(* Proofs about MirrorSessions, for every number of devices, dashboards    *)
(* and relays and every capacity of the channels.                          *)
(***************************************************************************)
EXTENDS MirrorSessions, TLAPS

Msgs == {"START_MIRROR", "STOP_MIRROR", "OTHER"}

\* The types of the handlers of dashboards, with the session table.
DashType ==
  /\ at \in [Dashboards -> HandlerStates]
  /\ arg \in [Dashboards -> Devices \cup {None}]
  /\ broken \in [Dashboards -> BOOLEAN]
  /\ dashboardClients \subseteq Dashboards
  /\ mirrorSessions \in [Devices -> Dashboards \cup {None}]
  /\ \A c \in Dashboards : at[c] \in {"started", "stopped"} => arg[c] \in Devices

\* The types of the devices and their channels.
DevType ==
  /\ connected \in [Devices -> BOOLEAN]
  /\ sendq \in [Devices -> Seq(Msgs)]
  /\ \A d \in Devices : Len(sendq[d]) <= SendCap

\* The types of the relays.
RelayType ==
  /\ relayAt \in [Relays -> {"idle", "writing", "failed"}]
  /\ relayDev \in [Relays -> Devices \cup {None}]
  /\ relayTo \in [Relays -> Dashboards \cup {None}]
  /\ \A r \in Relays : relayAt[r] # "idle" => relayDev[r] \in Devices /\ relayTo[r] \in Dashboards

\* TypeOK is these three.
LEMMA TypeParts == TypeOK <=> DashType /\ DevType /\ RelayType
  BY DEF TypeOK, DashType, DevType, RelayType, Msgs

\* The same of the next state.
LEMMA TypePartsPrimed == TypeOK' <=> DashType' /\ DevType' /\ RelayType'
  BY DEF TypeOK, DashType, DevType, RelayType, Msgs

\* Sending to some devices respects the capacity of every channel.
LEMMA SentKeeps ==
  ASSUME DevType, NEW S, NEW msg \in Msgs, sendq' = Sent(S, msg), UNCHANGED connected
  PROVE  DevType'
<1>1. \A d \in Devices : /\ sendq[d] \in Seq(Msgs) /\ Append(sendq[d], msg) \in Seq(Msgs)
                         /\ Len(sendq[d]) \in Nat /\ Len(Append(sendq[d], msg)) = Len(sendq[d]) + 1
  BY DEF DevType
<1>2. sendq' \in [Devices -> Seq(Msgs)]
  BY <1>1 DEF Sent
<1>3. ASSUME NEW d \in Devices PROVE Len(sendq'[d]) <= SendCap
  <2>1. CASE sendq'[d] = sendq[d]
    BY <2>1 DEF DevType
  <2>2. CASE sendq'[d] = Append(sendq[d], msg) /\ Len(sendq[d]) < SendCap
    BY <2>2, <1>1, SendCapAssumption
  <2> QED
    BY <2>1, <2>2 DEF Sent
<1> QED
  BY <1>2, <1>3 DEF DevType

\* The step of a handler from one place to another keeps the types of dashboards if
\* it leaves its message with a device.
LEMMA HandlerMoves ==
  ASSUME DashType, NEW c \in Dashboards, NEW to \in HandlerStates, at' = [at EXCEPT ![c] = to],
         arg' \in [Dashboards -> Devices \cup {None}],
         \A e \in Dashboards : e # c => arg'[e] = arg[e],
         to \in {"started", "stopped"} => arg'[c] \in Devices,
         UNCHANGED broken, dashboardClients' \subseteq Dashboards,
         mirrorSessions' \in [Devices -> Dashboards \cup {None}]
  PROVE  DashType'
<1>1. ASSUME NEW e \in Dashboards, at'[e] \in {"started", "stopped"} PROVE arg'[e] \in Devices
  BY <1>1 DEF DashType
<1> QED
  BY <1>1 DEF DashType

\* Types, for the steps of a dashboard's handler.
LEMMA DashboardTypes ==
  ASSUME TypeOK, NEW c \in Dashboards,
         \/ RegisterDashboard(c) \/ Handler(c)
         \/ \E d \in Devices : StartMirrorSession(c, d) \/ StopMirrorSession(c, d) \/ PassThrough(c, d)
  PROVE  TypeOK'
<1> USE TypeParts, TypePartsPrimed
<1> DashType /\ DevType /\ RelayType
  OBVIOUS
<1> {"reading", "started", "stopped", "cleaning", "unregistering", "closed"} \subseteq HandlerStates
  BY DEF HandlerStates
<1>1. ASSUME UNCHANGED relayVars PROVE RelayType'
  BY <1>1 DEF RelayType, relayVars
<1>2. ASSUME UNCHANGED <<connected, sendq>> PROVE DevType'
  BY <1>2 DEF DevType
<1>3. CASE RegisterDashboard(c)
  <2>1. DashType'
    BY <1>3, HandlerMoves DEF RegisterDashboard, HandlerStep, DashType
  <2> QED
    BY <1>1, <1>2, <1>3, <2>1 DEF RegisterDashboard
<1>4. ASSUME NEW d \in Devices, StartMirrorSession(c, d) PROVE TypeOK'
  <2>1. arg' \in [Dashboards -> Devices \cup {None}] /\ arg'[c] = d
    BY <1>4 DEF StartMirrorSession, DashType
  <2>2. mirrorSessions' \in [Devices -> Dashboards \cup {None}]
    BY <1>4 DEF StartMirrorSession, DashType
  <2>3. DashType'
    BY <1>4, <2>1, <2>2, HandlerMoves DEF StartMirrorSession, HandlerStep, DashType
  <2> QED
    BY <1>1, <1>2, <1>4, <2>3 DEF StartMirrorSession
<1>5. ASSUME NEW d \in Devices, StopMirrorSession(c, d) PROVE TypeOK'
  <2>1. arg' \in [Dashboards -> Devices \cup {None}] /\ arg'[c] = d
    BY <1>5 DEF StopMirrorSession, DashType
  <2>2. mirrorSessions' \in [Devices -> Dashboards \cup {None}]
    BY <1>5 DEF StopMirrorSession, DashType
  <2>3. DashType'
    BY <1>5, <2>1, <2>2, HandlerMoves DEF StopMirrorSession, HandlerStep, DashType
  <2> QED
    BY <1>1, <1>2, <1>5, <2>3 DEF StopMirrorSession
<1>6. ASSUME NEW d \in Devices, PassThrough(c, d) PROVE TypeOK'
  <2>1. DashType'
    BY <1>6 DEF PassThrough, DashType, dashVars
  <2>2. DevType'
    BY <1>6, SentKeeps DEF PassThrough, Msgs
  <2> QED
    BY <1>1, <1>6, <2>1, <2>2 DEF PassThrough
<1>7. CASE Forward(c)
  <2>1. arg' \in [Dashboards -> Devices \cup {None}]
    BY <1>7 DEF Forward, DashType
  <2>2. DashType'
    BY <1>7, <2>1, HandlerMoves DEF Forward, HandlerStep, DashType
  <2>3. DevType'
    BY <1>7, SentKeeps DEF Forward, Msgs
  <2> QED
    BY <1>1, <1>7, <2>2, <2>3 DEF Forward
<1>8. CASE ReadFails(c)
  <2>1. DashType'
    BY <1>8, HandlerMoves DEF ReadFails, HandlerStep, DashType
  <2> QED
    BY <1>1, <1>2, <1>8, <2>1 DEF ReadFails
<1>9. CASE StopMirrorSessionsForDashboard(c)
  <2>1. mirrorSessions' \in [Devices -> Dashboards \cup {None}]
    BY <1>9 DEF StopMirrorSessionsForDashboard, DashType
  <2>2. DashType'
    BY <1>9, <2>1, HandlerMoves DEF StopMirrorSessionsForDashboard, HandlerStep, DashType
  <2>3. DevType'
    BY <1>9, SentKeeps DEF StopMirrorSessionsForDashboard, Msgs
  <2> QED
    BY <1>1, <1>9, <2>2, <2>3 DEF StopMirrorSessionsForDashboard
<1>10. CASE UnregisterDashboard(c)
  <2>1. DashType'
    BY <1>10, HandlerMoves DEF UnregisterDashboard, HandlerStep, DashType
  <2> QED
    BY <1>1, <1>2, <1>10, <2>1 DEF UnregisterDashboard
<1> QED
  BY <1>3, <1>4, <1>5, <1>6, <1>7, <1>8, <1>9, <1>10 DEF Handler

\* Types, for the relays.
LEMMA RelayTypes ==
  ASSUME TypeOK, NEW r \in Relays, (\E d \in Devices : LookUpSession(r, d)) \/ Relay(r)
  PROVE  TypeOK'
<1> USE TypeParts, TypePartsPrimed
<1> DashType /\ DevType /\ RelayType
  OBVIOUS
<1>1. ASSUME NEW d \in Devices, LookUpSession(r, d) PROVE TypeOK'
  <2>1. mirrorSessions[d] \in Dashboards
    BY <1>1 DEF LookUpSession, DashType
  <2>2. RelayType'
    BY <1>1, <2>1 DEF LookUpSession, RelayType
  <2>3. DashType' /\ DevType'
    BY <1>1 DEF LookUpSession, DashType, DevType, dashVars
  <2> QED
    BY <2>2, <2>3
<1>2. ASSUME NEW from, NEW to \in {"idle", "failed"}, from # "idle", RelayStep(r, from, to)
      PROVE  RelayType'
  BY <1>2 DEF RelayStep, RelayType
<1>3. CASE WriteFrame(r) \/ WriteFails(r)
  <2>1. RelayType'
    BY <1>2, <1>3 DEF WriteFrame, WriteFails
  <2>2. DashType' /\ DevType'
    BY <1>3 DEF WriteFrame, WriteFails, DashType, DevType, dashVars
  <2> QED
    BY <2>1, <2>2
<1>4. CASE StopAfterFailure(r)
  <2>1. RelayType'
    BY <1>2, <1>4 DEF StopAfterFailure
  <2>2. mirrorSessions' \in [Devices -> Dashboards \cup {None}]
    BY <1>4 DEF StopAfterFailure, DashType
  <2>3. DashType'
    BY <1>4, <2>2 DEF StopAfterFailure, DashType, dashVars
  <2>4. DevType'
    BY <1>4 DEF StopAfterFailure, DevType
  <2> QED
    BY <2>1, <2>3, <2>4
<1> QED
  BY <1>1, <1>3, <1>4 DEF Relay

\* Types, for what sockets and devices do.
LEMMA PeerTypes ==
  ASSUME TypeOK,
         \/ \E c \in Dashboards : SocketBreaks(c)
         \/ \E d \in Devices : DeviceReceives(d) \/ DeviceConnects(d) \/ DeviceDisconnects(d)
  PROVE  TypeOK'
<1> USE TypeParts, TypePartsPrimed
<1> DashType /\ DevType /\ RelayType
  OBVIOUS
<1>1. ASSUME UNCHANGED relayVars PROVE RelayType'
  BY <1>1 DEF RelayType, relayVars
<1>2. ASSUME NEW c \in Dashboards, SocketBreaks(c) PROVE TypeOK'
  <2>1. DashType'
    BY <1>2 DEF SocketBreaks, DashType
  <2>2. DevType'
    BY <1>2 DEF SocketBreaks, DevType
  <2> QED
    BY <1>1, <1>2, <2>1, <2>2 DEF SocketBreaks
<1>3. ASSUME NEW d \in Devices, DeviceReceives(d) PROVE TypeOK'
  <2>1. /\ sendq[d] \in Seq(Msgs) /\ sendq[d] # <<>>
        /\ Tail(sendq[d]) \in Seq(Msgs) /\ Len(Tail(sendq[d])) = Len(sendq[d]) - 1
        /\ Len(sendq[d]) \in Nat /\ Len(sendq[d]) <= SendCap
    BY <1>3 DEF DeviceReceives, DevType
  <2>2. sendq' = [sendq EXCEPT ![d] = Tail(sendq[d])]
    BY <1>3 DEF DeviceReceives
  <2>3. sendq' \in [Devices -> Seq(Msgs)]
    BY <2>1, <2>2 DEF DevType
  <2>4. ASSUME NEW e \in Devices PROVE Len(sendq'[e]) <= SendCap
    BY <2>1, <2>2, SendCapAssumption DEF DevType
  <2>5. DevType'
    BY <1>3, <2>3, <2>4 DEF DeviceReceives, DevType
  <2>6. DashType'
    BY <1>3 DEF DeviceReceives, DashType, dashVars
  <2> QED
    BY <1>1, <1>3, <2>5, <2>6 DEF DeviceReceives
<1>4. ASSUME NEW d \in Devices, DeviceConnects(d) PROVE TypeOK'
  <2>1. DevType'
    BY <1>4 DEF DeviceConnects, DevType
  <2>2. DashType'
    BY <1>4 DEF DeviceConnects, DashType, dashVars
  <2> QED
    BY <1>1, <1>4, <2>1, <2>2 DEF DeviceConnects
<1>5. ASSUME NEW d \in Devices, DeviceDisconnects(d) PROVE TypeOK'
  <2>1. <<>> \in Seq(Msgs) /\ Len(<<>>) = 0
    OBVIOUS
  <2>2. sendq' \in [Devices -> Seq(Msgs)]
    BY <1>5, <2>1 DEF DeviceDisconnects, DevType
  <2>3. ASSUME NEW e \in Devices PROVE Len(sendq'[e]) <= SendCap
    BY <1>5, <2>1, SendCapAssumption DEF DeviceDisconnects, DevType
  <2>4. DevType'
    BY <1>5, <2>2, <2>3 DEF DeviceDisconnects, DevType
  <2>5. DashType'
    BY <1>5 DEF DeviceDisconnects, DashType, dashVars
  <2> QED
    BY <1>1, <1>5, <2>4, <2>5 DEF DeviceDisconnects
<1> QED
  BY <1>2, <1>3, <1>4, <1>5

\* The steps of Next, by who takes them.
LEMMA NextKinds ==
  ASSUME Next
  PROVE  \/ \E c \in Dashboards :
              \/ RegisterDashboard(c) \/ Handler(c)
              \/ \E d \in Devices : StartMirrorSession(c, d) \/ StopMirrorSession(c, d) \/ PassThrough(c, d)
         \/ \E r \in Relays : (\E d \in Devices : LookUpSession(r, d)) \/ Relay(r)
         \/ \E c \in Dashboards : SocketBreaks(c)
         \/ \E d \in Devices : DeviceReceives(d) \/ DeviceConnects(d) \/ DeviceDisconnects(d)
  BY DEF Next

\* The variables keep their types, no channel holds more than its capacity, and a
\* handler or a relay that is under way knows its device and its dashboard.
THEOREM TypeCorrect == Spec => []TypeOK
<1>1. Init => TypeOK
  <2>1. <<>> \in Seq(Msgs) /\ Len(<<>>) = 0
    OBVIOUS
  <2> QED
    BY <2>1, SendCapAssumption DEF Init, TypeOK, HandlerStates, Msgs
<1>2. TypeOK /\ [Next]_vars => TypeOK'
  <2>1. TypeOK /\ UNCHANGED vars => TypeOK'
    BY DEF vars, dashVars, relayVars, TypeOK
  <2> QED
    BY <2>1, NextKinds, DashboardTypes, RelayTypes, PeerTypes
<1> QED
  BY <1>1, <1>2, PTL DEF Spec

-----------------------------------------------------------------------------
(* Sessions. *)

\* A handler that attends to its dashboard has registered it.
AttendingRegistered == \A c \in Dashboards : at[c] \in Attending => c \in dashboardClients

\* A relay whose write failed wrote to a dashboard that is gone.
FailuresReal == \A r \in Relays : relayAt[r] = "failed" => broken[relayTo[r]]

SessionInv == AttendingRegistered /\ FailuresReal /\ SessionAttended

\* A session that stays, and one that begins, is attended if its dashboard is.
LEMMA SessionStep == ASSUME TypeOK, SessionInv, [Next]_vars PROVE SessionInv'
<1> USE DEF SessionInv, TypeOK, AttendingRegistered, FailuresReal, SessionAttended, Attending,
            HandlerStep, relayVars
<1>1. ASSUME NEW c \in Dashboards, RegisterDashboard(c) PROVE SessionInv'
  BY <1>1 DEF RegisterDashboard
<1>2. ASSUME NEW c \in Dashboards, NEW d \in Devices, StartMirrorSession(c, d) PROVE SessionInv'
  BY <1>2 DEF StartMirrorSession
<1>3. ASSUME NEW c \in Dashboards, NEW d \in Devices, StopMirrorSession(c, d) PROVE SessionInv'
  BY <1>3 DEF StopMirrorSession
<1>4. ASSUME NEW c \in Dashboards, NEW d \in Devices, PassThrough(c, d) PROVE SessionInv'
  BY <1>4 DEF PassThrough, dashVars
<1>5. ASSUME NEW c \in Dashboards, Forward(c) \/ ReadFails(c) PROVE SessionInv'
  <2>1. \E to \in {"reading", "cleaning"} : at[c] \in Attending /\ at' = [at EXCEPT ![c] = to]
    BY <1>5 DEF Forward, ReadFails
  <2>2. UNCHANGED <<broken, dashboardClients, mirrorSessions, relayAt, relayTo>>
    BY <1>5 DEF Forward, ReadFails
  <2>3. AttendingRegistered' /\ FailuresReal'
    BY <2>1, <2>2
  <2>4. SessionAttended'
    BY <2>1, <2>2
  <2> QED
    BY <2>3, <2>4
<1>6. ASSUME NEW c \in Dashboards, StopMirrorSessionsForDashboard(c) PROVE SessionInv'
  <2>1. ASSUME NEW d \in Devices, mirrorSessions'[d] # None
        PROVE  mirrorSessions'[d] = mirrorSessions[d] /\ mirrorSessions[d] # c
    BY <1>6, <2>1 DEF StopMirrorSessionsForDashboard, Mirrored
  <2>2. SessionAttended'
    BY <1>6, <2>1 DEF StopMirrorSessionsForDashboard
  <2> QED
    BY <1>6, <2>2 DEF StopMirrorSessionsForDashboard
<1>7. ASSUME NEW c \in Dashboards, UnregisterDashboard(c) PROVE SessionInv'
  BY <1>7 DEF UnregisterDashboard
<1>8. ASSUME NEW r \in Relays, NEW d \in Devices, LookUpSession(r, d) PROVE SessionInv'
  BY <1>8 DEF LookUpSession, dashVars
<1>9. ASSUME NEW r \in Relays, Relay(r) PROVE SessionInv'
  <2>1. CASE WriteFrame(r)
    BY <2>1 DEF WriteFrame, RelayStep, dashVars
  <2>2. CASE WriteFails(r)
    BY <2>2 DEF WriteFails, RelayStep, dashVars
  <2>3. CASE StopAfterFailure(r)
    BY <2>3 DEF StopAfterFailure, RelayStep, dashVars
  <2> QED
    BY <1>9, <2>1, <2>2, <2>3 DEF Relay
<1>10. ASSUME NEW c \in Dashboards, SocketBreaks(c) PROVE SessionInv'
  BY <1>10 DEF SocketBreaks
<1>11. ASSUME NEW d \in Devices, DeviceReceives(d) \/ DeviceConnects(d) \/ DeviceDisconnects(d)
       PROVE  SessionInv'
  BY <1>11 DEF DeviceReceives, DeviceConnects, DeviceDisconnects, dashVars
<1>12. CASE UNCHANGED vars
  BY <1>12 DEF vars, dashVars
<1>13. Next => SessionInv'
  <2> HIDE DEF SessionInv, TypeOK, AttendingRegistered, FailuresReal, SessionAttended, Attending,
               HandlerStep, relayVars
  <2> QED
    BY <1>1, <1>2, <1>3, <1>4, <1>5, <1>6, <1>7, <1>8, <1>9, <1>10, <1>11, NextKinds DEF Handler
<1> QED
  BY <1>12, <1>13

\* Sessions are attended, and failures real, in every state.
LEMMA SessionInvariant == Spec => []SessionInv
<1>1. Init => SessionInv
  BY DEF Init, SessionInv, AttendingRegistered, FailuresReal, SessionAttended, Attending
<1> QED
  BY <1>1, SessionStep, TypeCorrect, PTL DEF Spec

\* No session outlives its dashboard.
THEOREM SessionsAttended == Spec => []SessionAttended
  BY SessionInvariant, PTL DEF SessionInv

\* A session is lost only by the cleanup of its own dashboard, by a message about its
\* device, or after a frame of the device found its dashboard gone.
THEOREM LossExplained == Spec => SessionLossExplained
<1> DEFINE Explained(c, d) ==
      \/ at[c] = "cleaning" /\ at'[c] = "unregistering"
      \/ \E e \in Dashboards : /\ at[e] = "reading" /\ at'[e] \in {"started", "stopped"}
                               /\ arg'[e] = d
      \/ \E r \in Relays : /\ relayAt[r] = "failed" /\ relayAt'[r] = "idle"
                           /\ relayDev[r] = d /\ broken[relayTo[r]]
<1>1. ASSUME TypeOK, SessionInv, [Next]_vars, NEW c \in Dashboards, NEW d \in Devices,
             mirrorSessions[d] = c, mirrorSessions'[d] # c
      PROVE  Explained(c, d)
  <2>1. ASSUME NEW e \in Dashboards, NEW x \in Devices,
               StartMirrorSession(e, x) \/ StopMirrorSession(e, x)
        PROVE  Explained(c, d)
    <3>1. x = d
      BY <1>1, <2>1 DEF StartMirrorSession, StopMirrorSession, TypeOK
    <3> QED
      BY <1>1, <2>1, <3>1 DEF StartMirrorSession, StopMirrorSession, HandlerStep, TypeOK
  <2>2. ASSUME NEW e \in Dashboards, StopMirrorSessionsForDashboard(e) PROVE Explained(c, d)
    <3>1. e = c
      BY <1>1, <2>2 DEF StopMirrorSessionsForDashboard, Mirrored, TypeOK
    <3> QED
      BY <1>1, <2>2, <3>1 DEF StopMirrorSessionsForDashboard, HandlerStep, TypeOK
  <2>3. ASSUME NEW r \in Relays, StopAfterFailure(r) PROVE Explained(c, d)
    <3>1. relayDev[r] = d
      BY <1>1, <2>3 DEF StopAfterFailure, TypeOK
    <3> QED
      BY <1>1, <2>3, <3>1 DEF StopAfterFailure, RelayStep, TypeOK, SessionInv, FailuresReal
  <2>4. ASSUME UNCHANGED mirrorSessions PROVE FALSE
    BY <1>1, <2>4
  <2>5. \/ \E e \in Dashboards, x \in Devices : StartMirrorSession(e, x) \/ StopMirrorSession(e, x)
        \/ \E e \in Dashboards : StopMirrorSessionsForDashboard(e)
        \/ \E r \in Relays : StopAfterFailure(r)
    <3>1. ~ UNCHANGED vars
      BY <2>4 DEF vars
    <3>2. Next
      BY <1>1, <3>1
    <3>3. \A e \in Dashboards : /\ ~RegisterDashboard(e) /\ ~Forward(e) /\ ~ReadFails(e)
                                /\ ~UnregisterDashboard(e) /\ ~SocketBreaks(e)
                                /\ \A x \in Devices : ~PassThrough(e, x)
      BY <2>4 DEF RegisterDashboard, Forward, ReadFails, UnregisterDashboard, SocketBreaks, PassThrough
    <3>4. \A r \in Relays : /\ ~WriteFrame(r) /\ ~WriteFails(r)
                            /\ \A x \in Devices : ~LookUpSession(r, x)
      BY <2>4 DEF WriteFrame, WriteFails, LookUpSession
    <3>5. \A x \in Devices : ~DeviceReceives(x) /\ ~DeviceConnects(x) /\ ~DeviceDisconnects(x)
      BY <2>4 DEF DeviceReceives, DeviceConnects, DeviceDisconnects
    <3> QED
      BY <3>2, <3>3, <3>4, <3>5, NextKinds DEF Handler, Relay
  <2> QED
    BY <2>1, <2>2, <2>3, <2>5
<1>2. TypeOK /\ SessionInv /\ [Next]_vars =>
        [\A c \in Dashboards, d \in Devices :
           mirrorSessions[d] = c /\ mirrorSessions'[d] # c => Explained(c, d)]_vars
  BY <1>1
<1> QED
  BY <1>2, TypeCorrect, SessionInvariant, PTL DEF Spec, SessionLossExplained
=============================================================================
