--------------------------- MODULE MirrorSessions ---------------------------
(***************************************************************************)
(* Screen mirroring: the dashboards' WebSocket handlers                    *)
(* (internal/websocket/handler.go), the hub's table of mirror sessions     *)
(* (hub.go), and the device read loops that relay frames to the dashboard  *)
(* a session names.  A handler changes the table first and tells the       *)
(* device afterwards; a relay reads the table first and writes the frame   *)
(* afterwards; Hub.mu is free in between.                                  *)
(***************************************************************************)
EXTENDS Naturals, Sequences, FiniteSets

CONSTANTS
  Devices,
  Dashboards,  \* dashboard connections; each is opened once
  Relays,      \* device read loops that relay frames
  None,        \* no dashboard, no device
  SendCap      \* capacity of a device client's send channel

ASSUME SendCapAssumption == SendCap \in Nat \ {0}
ASSUME NoneAssumption == None \notin Devices \cup Dashboards

VARIABLES
  at,                \* where the handler of a dashboard is
  arg,               \* the device of the message it handles
  broken,            \* the socket of the dashboard is gone
  dashboardClients,  \* Hub.dashboardClients
  mirrorSessions,    \* Hub.mirrorSessions: device -> dashboard
  connected,         \* the hub has an open client for the device
  sendq,             \* what waits in the channel of that client
  relayAt,           \* where a relay is
  relayDev,          \* the device whose frame it relays
  relayTo            \* the dashboard it read from the table

dashVars  == <<at, arg, broken, dashboardClients>>
relayVars == <<relayAt, relayDev, relayTo>>
vars == <<dashVars, mirrorSessions, connected, sendq, relayVars>>

HandlerStates == {"new", "reading", "started", "stopped", "cleaning", "unregistering", "closed"}

\* the handler has not run StopMirrorSessionsForDashboard yet
Attending == {"reading", "started", "stopped", "cleaning"}

Init ==
  /\ at = [c \in Dashboards |-> "new"]
  /\ arg = [c \in Dashboards |-> None]
  /\ broken = [c \in Dashboards |-> FALSE]
  /\ dashboardClients = {}
  /\ mirrorSessions = [d \in Devices |-> None]
  /\ connected = [d \in Devices |-> FALSE]
  /\ sendq = [d \in Devices |-> <<>>]
  /\ relayAt = [r \in Relays |-> "idle"]
  /\ relayDev = [r \in Relays |-> None]
  /\ relayTo = [r \in Relays |-> None]

-----------------------------------------------------------------------------
(* SendToDevice for the devices in a set: nothing for one that is not      *)
(* connected or whose channel is full.                                     *)

\* mutant: the channel takes one message too many
SentOneTooMany(devices, msg) ==
  [d \in Devices |-> IF d \in devices /\ connected[d] /\ Len(sendq[d]) <= SendCap
                     THEN Append(sendq[d], msg) ELSE sendq[d]]

Sent(devices, msg) ==
  [d \in Devices |-> IF d \in devices /\ connected[d] /\ Len(sendq[d]) < SendCap
                     THEN Append(sendq[d], msg) ELSE sendq[d]]

-----------------------------------------------------------------------------
(* The handler of a dashboard connection. *)

HandlerStep(c, from, to) == /\ at[c] = from
                            /\ at' = [at EXCEPT ![c] = to]

RegisterDashboard(c) ==
  /\ HandlerStep(c, "new", "reading")
  /\ dashboardClients' = dashboardClients \cup {c}
  /\ UNCHANGED <<arg, broken, mirrorSessions, connected, sendq, relayVars>>

\* START_MIRROR: the session is registered whether or not the device is there
StartMirrorSession(c, d) ==
  /\ HandlerStep(c, "reading", "started")
  /\ arg' = [arg EXCEPT ![c] = d]
  /\ mirrorSessions' = [mirrorSessions EXCEPT ![d] = c]
  /\ UNCHANGED <<broken, dashboardClients, connected, sendq, relayVars>>

\* STOP_MIRROR: any dashboard ends the session of any device
StopMirrorSession(c, d) ==
  /\ HandlerStep(c, "reading", "stopped")
  /\ arg' = [arg EXCEPT ![c] = d]
  /\ mirrorSessions' = [mirrorSessions EXCEPT ![d] = None]
  /\ UNCHANGED <<broken, dashboardClients, connected, sendq, relayVars>>

\* what follows either in the same handler: the message goes to the device
Forward(c) ==
  /\ \/ HandlerStep(c, "started", "reading") /\ sendq' = Sent({arg[c]}, "START_MIRROR")
     \/ HandlerStep(c, "stopped", "reading") /\ sendq' = Sent({arg[c]}, "STOP_MIRROR")
  /\ arg' = [arg EXCEPT ![c] = None]
  /\ UNCHANGED <<broken, dashboardClients, mirrorSessions, connected, relayVars>>

\* TOUCH_EVENT and WEBRTC_SIGNAL only pass through
PassThrough(c, d) ==
  /\ at[c] = "reading"
  /\ sendq' = Sent({d}, "OTHER")
  /\ UNCHANGED <<dashVars, mirrorSessions, connected, relayVars>>

ReadFails(c) ==
  /\ broken[c]
  /\ HandlerStep(c, "reading", "cleaning")
  /\ UNCHANGED <<arg, broken, dashboardClients, mirrorSessions, connected, sendq, relayVars>>

\* mutant: every session is cleaned up
MirroredByAny(c) == {d \in Devices : mirrorSessions[d] # None}

Mirrored(c) == {d \in Devices : mirrorSessions[d] = c}

\* mutant: the devices are told, the sessions stay
TellDevicesOnly(c) ==
  /\ HandlerStep(c, "cleaning", "unregistering")
  /\ sendq' = Sent(Mirrored(c), "STOP_MIRROR")
  /\ UNCHANGED <<arg, broken, dashboardClients, mirrorSessions, connected, relayVars>>

\* one region under Hub.mu: drop the sessions and tell their devices to stop
StopMirrorSessionsForDashboard(c) ==
  /\ HandlerStep(c, "cleaning", "unregistering")
  /\ mirrorSessions' = [d \in Devices |-> IF d \in Mirrored(c) THEN None ELSE mirrorSessions[d]]
  /\ sendq' = Sent(Mirrored(c), "STOP_MIRROR")
  /\ UNCHANGED <<arg, broken, dashboardClients, connected, relayVars>>

UnregisterDashboard(c) ==
  /\ HandlerStep(c, "unregistering", "closed")
  /\ dashboardClients' = dashboardClients \ {c}
  /\ UNCHANGED <<arg, broken, mirrorSessions, connected, sendq, relayVars>>

-----------------------------------------------------------------------------
(* SendMirrorFrame, run by the read loop of a device for every frame that   *)
(* comes in; what a device was told does not stop the frames under way.    *)

LookUpSession(r, d) ==
  /\ relayAt[r] = "idle" /\ mirrorSessions[d] # None
  /\ relayAt' = [relayAt EXCEPT ![r] = "writing"]
  /\ relayDev' = [relayDev EXCEPT ![r] = d]
  /\ relayTo' = [relayTo EXCEPT ![r] = mirrorSessions[d]]
  /\ UNCHANGED <<dashVars, mirrorSessions, connected, sendq>>

RelayStep(r, from, to) == /\ relayAt[r] = from
                          /\ relayAt' = [relayAt EXCEPT ![r] = to]
                          /\ UNCHANGED <<relayDev, relayTo>>

\* a broken socket may take some more frames before a write fails
WriteFrame(r) ==
  /\ RelayStep(r, "writing", "idle")
  /\ at[relayTo[r]] # "closed"
  /\ UNCHANGED <<dashVars, mirrorSessions, connected, sendq>>

WriteFails(r) ==
  /\ RelayStep(r, "writing", "failed")
  /\ broken[relayTo[r]]
  /\ UNCHANGED <<dashVars, mirrorSessions, connected, sendq>>

\* StopMirrorSession(deviceID), whichever dashboard has the session by now
StopAfterFailure(r) ==
  /\ RelayStep(r, "failed", "idle")
  /\ mirrorSessions' = [mirrorSessions EXCEPT ![relayDev[r]] = None]
  /\ UNCHANGED <<dashVars, connected, sendq>>

-----------------------------------------------------------------------------
(* Sockets and devices. *)

SocketBreaks(c) ==
  /\ at[c] \in Attending /\ ~broken[c]
  /\ broken' = [broken EXCEPT ![c] = TRUE]
  /\ UNCHANGED <<at, arg, dashboardClients, mirrorSessions, connected, sendq, relayVars>>

DeviceReceives(d) ==
  /\ connected[d] /\ sendq[d] # <<>>
  /\ sendq' = [sendq EXCEPT ![d] = Tail(@)]
  /\ UNCHANGED <<dashVars, mirrorSessions, connected, relayVars>>

DeviceConnects(d) ==
  /\ ~connected[d]
  /\ connected' = [connected EXCEPT ![d] = TRUE]
  /\ UNCHANGED <<dashVars, mirrorSessions, sendq, relayVars>>

\* the channel goes with the client; the session stays in the table
DeviceDisconnects(d) ==
  /\ connected[d]
  /\ connected' = [connected EXCEPT ![d] = FALSE]
  /\ sendq' = [sendq EXCEPT ![d] = <<>>]
  /\ UNCHANGED <<dashVars, mirrorSessions, relayVars>>

-----------------------------------------------------------------------------
\* the steps a handler takes of itself, once it has read a message or an error
Handler(c) ==
  \/ Forward(c)
  \/ ReadFails(c)
  \/ StopMirrorSessionsForDashboard(c)
  \/ UnregisterDashboard(c)

Relay(r) == WriteFrame(r) \/ WriteFails(r) \/ StopAfterFailure(r)

Next ==
  \/ \E c \in Dashboards : \/ RegisterDashboard(c)
                           \/ \E d \in Devices : \/ StartMirrorSession(c, d)
                                                 \/ StopMirrorSession(c, d)
                                                 \/ PassThrough(c, d)
                           \/ Handler(c)
                           \/ SocketBreaks(c)
  \/ \E r \in Relays : (\E d \in Devices : LookUpSession(r, d)) \/ Relay(r)
  \/ \E d \in Devices : DeviceReceives(d) \/ DeviceConnects(d) \/ DeviceDisconnects(d)

Spec == Init /\ [][Next]_vars

(* A handler goes on; the read of a broken socket fails, though messages   *)
(* that came before may be handled first, again and again for as long as   *)
(* they last, hence SF; a relay that holds a session writes or fails.      *)
Fairness ==
  /\ \A c \in Dashboards : WF_vars(Handler(c)) /\ SF_vars(ReadFails(c))
  /\ \A r \in Relays : WF_vars(Relay(r))

FairSpec == Spec /\ Fairness

-----------------------------------------------------------------------------
(* Properties *)

\* The variables keep their types; what a handler or a relay will use is set.
TypeOK ==
  /\ at \in [Dashboards -> HandlerStates]
  /\ arg \in [Dashboards -> Devices \cup {None}]
  /\ broken \in [Dashboards -> BOOLEAN]
  /\ dashboardClients \subseteq Dashboards
  /\ mirrorSessions \in [Devices -> Dashboards \cup {None}]
  /\ connected \in [Devices -> BOOLEAN]
  /\ sendq \in [Devices -> Seq({"START_MIRROR", "STOP_MIRROR", "OTHER"})]
  /\ \A d \in Devices : Len(sendq[d]) <= SendCap
  /\ relayAt \in [Relays -> {"idle", "writing", "failed"}]
  /\ relayDev \in [Relays -> Devices \cup {None}]
  /\ relayTo \in [Relays -> Dashboards \cup {None}]
  /\ \A c \in Dashboards : at[c] \in {"started", "stopped"} => arg[c] \in Devices
  /\ \A r \in Relays : relayAt[r] # "idle" => relayDev[r] \in Devices /\ relayTo[r] \in Dashboards

\* A session names a registered dashboard whose handler is still to clean up: no
\* session outlives its dashboard, in whatever order sessions are started, taken
\* over, stopped and lost.
SessionAttended ==
  \A d \in Devices : LET c == mirrorSessions[d] IN
    c # None => at[c] \in Attending /\ c \in dashboardClients

\* A dashboard loses the session of a device only by its own cleanup, by a message
\* about that device, or after a frame of that device could not be written to a
\* dashboard that is gone (the same or, after a take-over, the one before): never
\* by the cleanup of another dashboard, nor because a dashboard is slow.
SessionLossExplained ==
  [][\A c \in Dashboards, d \in Devices :
       mirrorSessions[d] = c /\ mirrorSessions'[d] # c =>
         \/ at[c] = "cleaning" /\ at'[c] = "unregistering"
         \/ \E e \in Dashboards : /\ at[e] = "reading" /\ at'[e] \in {"started", "stopped"}
                                  /\ arg'[e] = d
         \/ \E r \in Relays : /\ relayAt[r] = "failed" /\ relayAt'[r] = "idle"
                              /\ relayDev[r] = d /\ broken[relayTo[r]]]_vars

\* A dashboard that is gone loses its sessions.
SessionsEnd ==
  \A c \in Dashboards, d \in Devices :
    broken[c] /\ mirrorSessions[d] = c ~> mirrorSessions[d] # c

=============================================================================
