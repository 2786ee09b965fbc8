------------------------------- MODULE HubLock -------------------------------
(***************************************************************************)
(* Hub.mu, the sync.RWMutex of internal/websocket/hub.go, under everything *)
(* that takes it: the handlers of device connections, which register,      *)
(* broadcast, look up, relay frames and unregister, and the handlers of    *)
(* dashboards, which register, start and stop mirror sessions, look up and *)
(* clean up.  A broadcast writes to every dashboard with the read lock     *)
(* held and without a deadline; a frame is written with no lock at all.    *)
(*                                                                         *)
(* Three libraries are modelled from their use.  RWMutex: Lock first takes *)
(* an inner mutex, from then on new readers wait, and it returns when the  *)
(* readers inside have left; Unlock lets in all that wait.  A WebSocket    *)
(* connection allows one WriteMessage at a time: another one panics, as    *)
(* does any on a connection whose handler has returned.  The wrapper of a  *)
(* handler recovers from a panic after the deferred calls have run.        *)
(***************************************************************************)
EXTENDS Naturals, FiniteSets

CONSTANTS
  Conns,       \* device connections, each with its handler
  Dashboards,  \* dashboard connections, each with its handler
  None         \* no goroutine, no connection

ASSUME NoneAssumption == None \notin Conns \cup Dashboards
ASSUME KindsAssumption == Conns \cap Dashboards = {}

VARIABLES
  at,                \* where a goroutine is
  readers,           \* goroutines that hold the read lock
  parked,            \* goroutines whose RLock waits for a writer to be done
  writer,            \* the goroutine that has the inner mutex of Lock
  dashboardClients,  \* Hub.dashboardClients
  visited,           \* the dashboards a broadcast has written to
  conn,              \* the dashboard a goroutine writes, or will write, to
  sock               \* the socket of a dashboard

lockVars == <<readers, parked, writer>>
writeVars == <<visited, conn>>
vars == <<at, lockVars, dashboardClients, writeVars, sock>>

Procs == Conns \cup Dashboards

-----------------------------------------------------------------------------
(* Where a goroutine is: at a region under Lock, at one under RLock, or at *)
(* neither.  NextAfter gives the statements that follow the region; none   *)
(* do if closing a client panics in it, whose connection was given back    *)
(* (DeviceHub), but for the deferred Unlock.                               *)

WriteOps == {"registering device", "unregistering device", "unregistering after panic",
             "dropping session", "registering", "setting session", "cleaning", "unregistering"}

Broadcasts == {"announcing", "broadcasting", "taking leave"}

ReadOps == Broadcasts \cup {"dispatching", "finding session", "forwarding"}

AtLock(p) == at[p] \in WriteOps \cup ReadOps

States == WriteOps \cup ReadOps \cup
          {"new", "reading", "relaying", "sending", "serving", "done"}

NextAfter(op) ==
  CASE op = "registering device"        -> {"announcing", "done"}
    [] op = "announcing"                -> {"reading"}
    [] op = "dispatching"               -> {"broadcasting", "finding session", "reading"}
    [] op = "broadcasting"              -> {"reading"}
    [] op = "finding session"           -> {"relaying", "reading"}
    [] op = "dropping session"          -> {"reading"}
    [] op = "unregistering device"      -> {"taking leave", "done"}
    [] op = "unregistering after panic" -> {"done"}
    [] op = "taking leave"              -> {"done"}
    [] op = "registering"               -> {"serving"}
    [] op = "setting session"           -> {"forwarding"}
    [] op = "forwarding"                -> {"serving"}
    [] op = "cleaning"                  -> {"unregistering"}
    [] op = "unregistering"             -> {"done"}

\* the deferred calls of readPump run also on a panic; what the handler would do
\* after Start, or after its first broadcast, does not
AfterPanic(op) ==
  IF op \in {"broadcasting", "relaying"} THEN "unregistering after panic" ELSE "done"

\* the handler of c can have a session, as MirrorSessions shows
CanMirror(c) == at[c] \in {"serving", "setting session", "forwarding", "cleaning"}

Init ==
  /\ at = [p \in Procs |-> "new"]
  /\ readers = {}
  /\ parked = {}
  /\ writer = None
  /\ dashboardClients = {}
  /\ visited = [p \in Conns |-> {}]
  /\ conn = [p \in Conns |-> None]
  /\ sock = [c \in Dashboards |-> "open"]

-----------------------------------------------------------------------------
(* The lock. *)

RLock(p) ==
  /\ at[p] \in ReadOps /\ p \notin readers \cup parked
  /\ \/ writer = None /\ readers' = readers \cup {p} /\ UNCHANGED parked
     \/ writer # None /\ parked' = parked \cup {p} /\ UNCHANGED readers
  /\ UNCHANGED <<at, writer, dashboardClients, writeVars, sock>>

Lock(p) ==
  /\ at[p] \in WriteOps /\ writer = None
  /\ writer' = p
  /\ UNCHANGED <<at, readers, parked, dashboardClients, writeVars, sock>>

\* mutant: Lock does not wait for the readers inside
HasLockAlone(p) == writer = p

HasLock(p) == writer = p /\ readers = {}

\* what a region under Lock does, and its deferred Unlock
WriteRegion(p) ==
  /\ HasLock(p)
  /\ \E next \in NextAfter(at[p]) : at' = [at EXCEPT ![p] = next]
  /\ dashboardClients' = CASE at[p] = "registering"   -> dashboardClients \cup {p}
                           [] at[p] = "unregistering" -> dashboardClients \ {p}
                           [] OTHER                   -> dashboardClients
  /\ writer' = None
  /\ readers' = readers \cup parked
  /\ parked' = {}
  /\ UNCHANGED <<writeVars, sock>>

\* a region under RLock that only reads, and its RUnlock
ReadRegion(p) ==
  /\ p \in readers /\ at[p] \in ReadOps \ Broadcasts
  /\ \E next \in NextAfter(at[p]) :
       /\ at' = [at EXCEPT ![p] = next]
       /\ \/ /\ next = "relaying"
             /\ \E c \in Dashboards : CanMirror(c) /\ conn' = [conn EXCEPT ![p] = c]
          \/ next # "relaying" /\ UNCHANGED conn
  /\ readers' = readers \ {p}
  /\ UNCHANGED <<parked, writer, dashboardClients, visited, sock>>

-----------------------------------------------------------------------------
(* Writes to dashboards. *)

\* p is inside WriteMessage on c
Writing(p, c) == conn[p] = c /\ (at[p] = "sending" \/ p \in readers)

Busy(c) == \E p \in Conns : Writing(p, c)

\* p comes to write to c: the next one of its broadcast, or the one of its frame
ComesTo(p, c) ==
  \/ /\ p \in readers /\ at[p] \in Broadcasts /\ conn[p] = None
     /\ c \in dashboardClients \ visited[p]
  \/ at[p] = "relaying" /\ conn[p] = c

Released(c) == c \in Dashboards /\ at[c] = "done"

StartWrite(p, c) ==
  /\ ComesTo(p, c) /\ ~Busy(c) /\ ~Released(c)
  /\ conn' = [conn EXCEPT ![p] = c]
  /\ at' = IF at[p] = "relaying" THEN [at EXCEPT ![p] = "sending"] ELSE at
  /\ UNCHANGED <<lockVars, dashboardClients, visited, sock>>

\* mutant: RUnlock is not deferred
PanicKeepsLock(p, c) ==
  /\ ComesTo(p, c) /\ (Busy(c) \/ Released(c))
  /\ at' = [at EXCEPT ![p] = AfterPanic(at[p])]
  /\ conn' = [conn EXCEPT ![p] = None]
  /\ visited' = [visited EXCEPT ![p] = {}]
  /\ UNCHANGED <<lockVars, dashboardClients, sock>>

Panic(p, c) ==
  /\ ComesTo(p, c) /\ (Busy(c) \/ Released(c))
  /\ at' = [at EXCEPT ![p] = AfterPanic(at[p])]
  /\ readers' = readers \ {p}
  /\ conn' = [conn EXCEPT ![p] = None]
  /\ visited' = [visited EXCEPT ![p] = {}]
  /\ UNCHANGED <<parked, writer, dashboardClients, sock>>

\* the broadcast logs an error and goes on; a frame that fails ends the session
WriteReturns(p, c) ==
  /\ Writing(p, c) /\ sock[c] # "stalled"
  /\ conn' = [conn EXCEPT ![p] = None]
  /\ \/ /\ at[p] = "sending"
        /\ \/ at' = [at EXCEPT ![p] = "reading"]
           \/ sock[c] = "broken" /\ at' = [at EXCEPT ![p] = "dropping session"]
        /\ UNCHANGED visited
     \/ /\ at[p] \in Broadcasts
        /\ visited' = [visited EXCEPT ![p] = @ \cup {c}]
        /\ UNCHANGED at
  /\ UNCHANGED <<lockVars, dashboardClients, sock>>

EndBroadcast(p) ==
  /\ p \in readers /\ at[p] \in Broadcasts
  /\ conn[p] = None /\ dashboardClients \subseteq visited[p]
  /\ \E next \in NextAfter(at[p]) : at' = [at EXCEPT ![p] = next]
  /\ readers' = readers \ {p}
  /\ visited' = [visited EXCEPT ![p] = {}]
  /\ UNCHANGED <<parked, writer, dashboardClients, conn, sock>>

-----------------------------------------------------------------------------
(* What the peers do. *)

GoTo(p, from, to) ==
  /\ at[p] = from
  /\ at' = [at EXCEPT ![p] = to]
  /\ UNCHANGED <<lockVars, dashboardClients, writeVars, sock>>

DeviceConnects(p) == p \in Conns /\ GoTo(p, "new", "registering device")

\* the read loop gets a message, or an error
DeviceSends(p) == GoTo(p, "reading", "dispatching")
DeviceLeaves(p) == GoTo(p, "reading", "unregistering device")

DashboardConnects(c) == c \in Dashboards /\ GoTo(c, "new", "registering")

\* START_MIRROR and STOP_MIRROR change a session; every message is forwarded
DashboardSends(c) ==
  GoTo(c, "serving", "setting session") \/ GoTo(c, "serving", "forwarding")

DashboardReadFails(c) == sock[c] = "broken" /\ GoTo(c, "serving", "cleaning")

\* a dashboard stops reading, reads again, or is gone
SocketTurns(c) ==
  /\ at[c] \notin {"new", "done"} /\ sock[c] # "broken"
  /\ \E s \in {"open", "stalled", "broken"} \ {sock[c]} : sock' = [sock EXCEPT ![c] = s]
  /\ UNCHANGED <<at, lockVars, dashboardClients, writeVars>>

-----------------------------------------------------------------------------
\* the steps a goroutine takes once it can
Step(p) ==
  \/ RLock(p)
  \/ WriteRegion(p)
  \/ ReadRegion(p)
  \/ p \in Conns /\ (EndBroadcast(p) \/ \E c \in Dashboards : StartWrite(p, c) \/ Panic(p, c))
  \/ p \in Dashboards /\ DashboardReadFails(p)

Next ==
  \/ \E p \in Procs : Lock(p) \/ Step(p)
  \/ \E p \in Conns : \/ \E c \in Dashboards : WriteReturns(p, c)
                      \/ DeviceConnects(p) \/ DeviceSends(p) \/ DeviceLeaves(p)
  \/ \E c \in Dashboards : DashboardConnects(c) \/ DashboardSends(c) \/ SocketTurns(c)

Spec == Init /\ [][Next]_vars

(* A goroutine that can run does.  A write returns if its socket takes     *)
(* data again and again; the inner mutex of the lock starves nobody (a     *)
(* sync.Mutex hands itself to one that waited for a millisecond): SF.      *)
Fairness ==
  /\ \A p \in Procs : WF_vars(Step(p)) /\ SF_vars(Lock(p))
  /\ \A p \in Conns : SF_vars(\E c \in Dashboards : WriteReturns(p, c))

FairSpec == Spec /\ Fairness

-----------------------------------------------------------------------------
(* Properties *)

\* The variables keep their types, and the lock its meaning: readers and those
\* that wait are at regions under RLock, and a writer at one under Lock.
TypeOK ==
  /\ at \in [Procs -> States]
  /\ readers \subseteq Procs /\ parked \subseteq Procs /\ readers \cap parked = {}
  /\ \A p \in readers \cup parked : at[p] \in ReadOps
  /\ writer \in Procs \cup {None}
  /\ writer # None => at[writer] \in WriteOps
  /\ writer = None => parked = {}
  /\ dashboardClients \subseteq Dashboards
  /\ visited \in [Conns -> SUBSET Dashboards]
  /\ conn \in [Conns -> Dashboards \cup {None}]
  /\ sock \in [Dashboards -> {"open", "stalled", "broken"}]

\* A broadcast writes only to connections of registered dashboards whose handlers
\* have not returned (after that the connection is given back and reused), however
\* long the write takes and whoever connects and leaves in the meantime.
BroadcastTargetsLive ==
  \A p \in Conns : at[p] \in Broadcasts /\ conn[p] # None =>
    conn[p] \in dashboardClients /\ ~Released(conn[p])

\* Unless a dashboard stops reading for good, whoever comes to Hub.mu gets through
\* it, also past broadcasts that panic, dashboards that stall for a while, and
\* readers and writers without end.
LockProgress ==
  (\A c \in Dashboards : []<>(sock[c] # "stalled")) =>
    \A p \in Procs : AtLock(p) ~> ~AtLock(p)

=============================================================================
