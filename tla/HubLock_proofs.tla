---------------------------- MODULE HubLock_proofs ----------------------------
(***************************************************************************)
(* Proofs about HubLock, for every number of device and dashboard          *)
(* connections.                                                            *)
(***************************************************************************)
EXTENDS HubLock, TLAPS

\* Where a dashboard's handler is, from the end of its registration to the region
\* that ends it.
Registered == {"serving", "setting session", "forwarding", "cleaning", "unregistering"}

DashboardStates == Registered \cup {"new", "registering", "done"}
DeviceStates == States \ (Registered \cup {"registering"})

\* The handlers of devices and of dashboards are at places of their own.
Places == /\ \A p \in Conns : at[p] \in DeviceStates
          /\ \A c \in Dashboards : at[c] \in DashboardStates

\* A registered dashboard is between its registration and its end.
Registry == \A c \in dashboardClients : at[c] \in Registered

\* A broadcast that writes holds the read lock and writes to a registered dashboard;
\* who neither broadcasts nor relays a frame has nobody to write to.
Writers ==
  \A p \in Conns : conn[p] # None =>
    \/ at[p] \in {"relaying", "sending"}
    \/ at[p] \in Broadcasts /\ p \in readers /\ conn[p] \in dashboardClients

LockInv == TypeOK /\ Places /\ Registry /\ Writers

\* Before anybody comes the lock is free.
LEMMA InitLock == Init => LockInv
  BY NoneAssumption
  DEF Init, LockInv, TypeOK, Places, Registry, Writers, Registered, DeviceStates,
      DashboardStates, States, WriteOps, ReadOps, Broadcasts, Procs

\* Where the regions of devices, and those of dashboards, lead to.
LEMMA NextAfterFacts ==
  /\ \A op \in DeviceStates \cap (WriteOps \cup ReadOps) : NextAfter(op) \subseteq DeviceStates \ {"sending"}
  /\ \A op \in WriteOps \cup Broadcasts : "relaying" \notin NextAfter(op)
  /\ \A op \in Broadcasts \cup {"relaying"} : AfterPanic(op) \in {"unregistering after panic", "done"}
  /\ NextAfter("registering") = {"serving"}
  /\ NextAfter("setting session") = {"forwarding"}
  /\ NextAfter("forwarding") = {"serving"}
  /\ NextAfter("cleaning") = {"unregistering"}
  /\ NextAfter("unregistering") = {"done"}
<1>1. DeviceStates \cap (WriteOps \cup ReadOps) =
        {"registering device", "unregistering device", "unregistering after panic",
         "dropping session", "announcing", "broadcasting", "taking leave", "dispatching",
         "finding session"}
  BY DEF DeviceStates, Registered, States, WriteOps, ReadOps, Broadcasts
<1>2. /\ NextAfter("registering device") = {"announcing", "done"}
      /\ NextAfter("unregistering device") = {"taking leave", "done"}
      /\ NextAfter("unregistering after panic") = {"done"}
      /\ NextAfter("dropping session") = {"reading"}
      /\ NextAfter("announcing") = {"reading"}
      /\ NextAfter("broadcasting") = {"reading"}
      /\ NextAfter("taking leave") = {"done"}
      /\ NextAfter("dispatching") = {"broadcasting", "finding session", "reading"}
      /\ NextAfter("finding session") = {"relaying", "reading"}
  BY DEF NextAfter
<1>3. /\ NextAfter("registering") = {"serving"}
      /\ NextAfter("setting session") = {"forwarding"}
      /\ NextAfter("forwarding") = {"serving"}
      /\ NextAfter("cleaning") = {"unregistering"}
      /\ NextAfter("unregistering") = {"done"}
  BY DEF NextAfter
<1>4. {"announcing", "broadcasting", "taking leave", "dispatching", "finding session",
       "relaying", "reading", "done"} \subseteq DeviceStates
  BY DEF DeviceStates, Registered, States, WriteOps, ReadOps, Broadcasts
<1>5. \A op \in DeviceStates \cap (WriteOps \cup ReadOps) : NextAfter(op) \subseteq DeviceStates \ {"sending"}
  <2>1. \A op \in DeviceStates \cap (WriteOps \cup ReadOps) :
          NextAfter(op) \subseteq {"announcing", "broadcasting", "taking leave", "finding session",
                                  "relaying", "reading", "done"}
    BY <1>1, <1>2
  <2> QED
    BY <1>4, <2>1
<1>6. \A op \in WriteOps \cup Broadcasts : "relaying" \notin NextAfter(op)
  <2>1. \A op \in WriteOps \cup Broadcasts :
          NextAfter(op) \subseteq
            {"announcing", "taking leave", "done", "reading", "serving", "forwarding", "unregistering"}
    <3> TAKE op \in WriteOps \cup Broadcasts
    <3>1. CASE op \in Broadcasts
      BY <3>1, <1>2 DEF Broadcasts
    <3>2. CASE op \in WriteOps
      BY <3>2, <1>2, <1>3 DEF WriteOps
    <3> QED
      BY <3>1, <3>2
  <2> QED
    BY <2>1
<1> QED
  BY <1>3, <1>5, <1>6 DEF AfterPanic

\* What the sets of places have in common and what not.
LEMMA PlaceFacts ==
  /\ Broadcasts \subseteq ReadOps \cap DeviceStates
  /\ WriteOps \cap ReadOps = {}
  /\ WriteOps \cup ReadOps \subseteq States
  /\ DeviceStates \subseteq States /\ DashboardStates \subseteq States
  /\ DashboardStates \cap WriteOps = {"registering", "setting session", "cleaning", "unregistering"}
  /\ DashboardStates \cap ReadOps = {"forwarding"}
  /\ \A s \in {"relaying", "sending", "reading", "new", "done", "serving"} :
       s \in States \ (WriteOps \cup ReadOps)
  /\ {"relaying", "sending", "reading", "dispatching", "registering device",
      "unregistering device", "unregistering after panic", "dropping session",
      "done"} \subseteq DeviceStates
  /\ {"registering device", "unregistering device", "unregistering after panic",
      "dropping session"} \subseteq WriteOps
  /\ "dispatching" \in ReadOps \ Broadcasts
  /\ "done" \notin Registered
  BY DEF DeviceStates, DashboardStates, Registered, States, WriteOps, ReadOps, Broadcasts

\* RLock and Lock move nobody.
LEMMA AcquireStep ==
  ASSUME LockInv, NEW p \in Procs, RLock(p) \/ Lock(p) PROVE LockInv'
<1> USE DEF LockInv, TypeOK, Places, Registry, Writers, writeVars
<1>1. CASE RLock(p)
  BY <1>1 DEF RLock
<1>2. CASE Lock(p)
  BY <1>2, NoneAssumption DEF Lock, Procs
<1> QED
  BY <1>1, <1>2

\* What the handler of a device does once it has no lock, or gives back the read
\* lock: only frames are written from then on.
LEMMA DeviceMoves ==
  ASSUME LockInv, NEW p \in Conns, at[p] \notin WriteOps, p \notin parked,
         NEW to \in DeviceStates, at' = [at EXCEPT ![p] = to],
         NEW x \in Dashboards \cup {None}, conn' = [conn EXCEPT ![p] = x],
         x # None => to \in {"relaying", "sending"},
         readers' = readers \ {p}, visited' \in [Conns -> SUBSET Dashboards],
         UNCHANGED <<parked, writer, dashboardClients, sock>>
  PROVE  LockInv'
<1> p \in Procs /\ p \notin Dashboards
  BY KindsAssumption DEF Procs
<1> to \in States
  BY PlaceFacts
<1>1. TypeOK'
  BY DEF LockInv, TypeOK
<1>2. Places'
  BY DEF LockInv, TypeOK, Places, Procs
<1>3. Registry'
  BY DEF LockInv, TypeOK, Registry, Procs
<1>4. Writers'
  <2>1. ASSUME NEW q \in Conns, conn'[q] # None, q # p
        PROVE  conn'[q] = conn[q] /\ at'[q] = at[q] /\ (q \in readers' <=> q \in readers)
    BY <2>1 DEF LockInv, TypeOK, Procs
  <2>2. ASSUME conn'[p] # None PROVE at'[p] \in {"relaying", "sending"}
    BY <2>2 DEF LockInv, TypeOK, Procs
  <2> QED
    BY <2>1, <2>2 DEF LockInv, Writers
<1> QED
  BY <1>1, <1>2, <1>3, <1>4 DEF LockInv

\* Under neither lock, at a region or not, a handler waits for no lock.
LEMMA NotParked ==
  ASSUME LockInv, NEW p \in Procs, p \in readers \/ at[p] \notin ReadOps
  PROVE  p \notin parked
  BY DEF LockInv, TypeOK

\* A region under Lock: nobody holds the read lock, so no broadcast is under way.
LEMMA WriteRegionStep ==
  ASSUME LockInv, NEW p \in Procs, WriteRegion(p) PROVE LockInv'
<1>1. /\ writer = p /\ readers = {} /\ at[p] \in WriteOps /\ p # None
      /\ writer' = None /\ readers' = parked /\ parked' = {}
      /\ UNCHANGED <<visited, conn, sock>>
  BY NoneAssumption DEF LockInv, TypeOK, WriteRegion, HasLock, writeVars, Procs
<1>2. PICK next \in NextAfter(at[p]) : at' = [at EXCEPT ![p] = next]
  BY DEF WriteRegion
<1>3. \A q \in Conns : conn[q] # None => q # p /\ at[q] \in {"relaying", "sending"}
  BY <1>1, PlaceFacts DEF LockInv, Writers
<1>4. \A q \in Procs : q \in parked => q # p /\ at[q] \in ReadOps
  BY <1>1, PlaceFacts DEF LockInv, TypeOK
<1>5. CASE p \in Conns
  <2>1. at[p] \in DeviceStates \cap WriteOps
    BY <1>1, <1>5 DEF LockInv, Places
  <2>2. next \in DeviceStates /\ next \in States
    BY <1>2, <2>1, NextAfterFacts, PlaceFacts
  <2>3. UNCHANGED dashboardClients
    BY <2>1 DEF WriteRegion, DeviceStates, Registered
  <2>4. TypeOK'
    BY <1>1, <1>2, <1>4, <2>2, <2>3 DEF LockInv, TypeOK
  <2>5. Places'
    BY <1>2, <1>5, <2>2, KindsAssumption DEF LockInv, TypeOK, Places, Procs
  <2>6. Registry'
    BY <1>2, <1>5, <2>3, KindsAssumption DEF LockInv, TypeOK, Registry, Procs
  <2>7. Writers'
    BY <1>1, <1>2, <1>3 DEF LockInv, TypeOK, Writers, Procs
  <2> QED
    BY <2>4, <2>5, <2>6, <2>7 DEF LockInv
<1>6. CASE p \in Dashboards
  <2>1. at[p] \in {"registering", "setting session", "cleaning", "unregistering"}
    BY <1>1, <1>6, PlaceFacts DEF LockInv, Places
  <2>2. \/ /\ at[p] = "registering" /\ next = "serving" /\ dashboardClients' = dashboardClients \cup {p}
        \/ /\ at[p] = "unregistering" /\ next = "done" /\ dashboardClients' = dashboardClients \ {p}
        \/ /\ at[p] \in {"setting session", "cleaning"} /\ next \in {"forwarding", "unregistering"}
           /\ dashboardClients' = dashboardClients
    BY <1>2, <2>1, NextAfterFacts DEF WriteRegion
  <2>3. next \in DashboardStates /\ next \in States
    BY <2>2, PlaceFacts DEF DashboardStates, Registered
  <2>4. TypeOK'
    BY <1>1, <1>2, <1>4, <1>6, <2>2, <2>3 DEF LockInv, TypeOK
  <2>5. Places'
    BY <1>2, <1>6, <2>3, KindsAssumption DEF LockInv, TypeOK, Places, Procs
  <2>6. Registry'
    <3>1. \A c \in dashboardClients : c # p => at'[c] = at[c] /\ at[c] \in Registered
      BY <1>2 DEF LockInv, TypeOK, Registry, Procs
    <3>2. p \in dashboardClients' => at'[p] \in Registered
      <4>1. at'[p] = next
        BY <1>2 DEF LockInv, TypeOK
      <4>2. next # "done" => next \in Registered
        BY <2>2 DEF Registered
      <4> QED
        BY <4>1, <4>2, <2>2
    <3>3. \A c \in dashboardClients' : c # p => c \in dashboardClients
      BY <2>2
    <3> QED
      BY <3>1, <3>2, <3>3 DEF Registry
  <2>7. Writers'
    BY <1>1, <1>2, <1>3, <1>6, KindsAssumption DEF LockInv, TypeOK, Writers, Procs
  <2> QED
    BY <2>4, <2>5, <2>6, <2>7 DEF LockInv
<1> QED
  BY <1>5, <1>6 DEF Procs

\* A region under RLock that only reads.
LEMMA ReadRegionStep ==
  ASSUME LockInv, NEW p \in Procs, ReadRegion(p) PROVE LockInv'
<1>1. /\ p \in readers /\ at[p] \in ReadOps \ Broadcasts /\ readers' = readers \ {p}
      /\ UNCHANGED <<parked, writer, dashboardClients, visited, sock>>
  BY DEF ReadRegion
<1>2. PICK next \in NextAfter(at[p]) :
        /\ at' = [at EXCEPT ![p] = next]
        /\ \/ next = "relaying" /\ \E c \in Dashboards : conn' = [conn EXCEPT ![p] = c]
           \/ next # "relaying" /\ UNCHANGED conn
  BY DEF ReadRegion
<1>3. CASE p \in Conns
  <2>1. at[p] \in DeviceStates \cap ReadOps /\ at[p] \notin WriteOps /\ p \notin parked
    BY <1>1, <1>3, PlaceFacts, NotParked DEF LockInv, Places
  <2>2. next \in DeviceStates
    BY <1>2, <2>1, NextAfterFacts
  <2>3. conn[p] = None
    BY <1>1, <1>3, PlaceFacts DEF LockInv, Writers
  <2>4. \E x \in Dashboards \cup {None} :
          conn' = [conn EXCEPT ![p] = x] /\ (x # None => next \in {"relaying", "sending"})
    BY <1>2, <2>3 DEF LockInv, TypeOK
  <2>5. visited' \in [Conns -> SUBSET Dashboards]
    BY <1>1 DEF LockInv, TypeOK
  <2> QED
    BY <1>1, <1>2, <1>3, <2>1, <2>2, <2>4, <2>5, DeviceMoves
<1>4. CASE p \in Dashboards
  <2>1. at[p] = "forwarding" /\ next = "serving"
    BY <1>1, <1>2, <1>4, PlaceFacts, NextAfterFacts DEF LockInv, Places
  <2>2. next \in DashboardStates /\ next \in Registered /\ next \in States /\ UNCHANGED conn
    BY <1>2, <2>1, PlaceFacts DEF DashboardStates, Registered
  <2>3. p \notin parked /\ writer # p
    BY <1>1, NotParked, PlaceFacts, NoneAssumption DEF LockInv, TypeOK, Procs
  <2>4. TypeOK'
    BY <1>1, <1>2, <2>2, <2>3 DEF LockInv, TypeOK
  <2>5. Places'
    BY <1>2, <1>4, <2>2, KindsAssumption DEF LockInv, TypeOK, Places, Procs
  <2>6. Registry'
    BY <1>1, <1>2, <1>4, <2>2 DEF LockInv, TypeOK, Registry, Procs
  <2>7. Writers'
    BY <1>1, <1>2, <1>4, <2>2, KindsAssumption DEF LockInv, TypeOK, Writers, Procs
  <2> QED
    BY <2>4, <2>5, <2>6, <2>7 DEF LockInv
<1> QED
  BY <1>3, <1>4 DEF Procs

\* The writes of a broadcast and of a frame.
LEMMA WriteStep ==
  ASSUME LockInv, NEW p \in Conns, NEW c \in Dashboards,
         StartWrite(p, c) \/ Panic(p, c) \/ WriteReturns(p, c)
  PROVE  LockInv'
<1>0. p \in Procs /\ p \notin Dashboards
  BY KindsAssumption DEF Procs
<1>1. CASE ComesTo(p, c) /\ at[p] \in Broadcasts /\ StartWrite(p, c)
  <2>1. /\ p \in readers /\ c \in dashboardClients /\ at' = at
        /\ conn' = [conn EXCEPT ![p] = c]
        /\ UNCHANGED <<readers, parked, writer, dashboardClients, visited, sock>>
    BY <1>1, PlaceFacts DEF StartWrite, ComesTo, lockVars
  <2> QED
    BY <1>1, <2>1 DEF LockInv, TypeOK, Places, Registry, Writers
<1>2. CASE at[p] = "relaying" /\ StartWrite(p, c)
  <2>1. /\ at' = [at EXCEPT ![p] = "sending"] /\ conn' = [conn EXCEPT ![p] = c]
        /\ UNCHANGED <<readers, parked, writer, dashboardClients, visited, sock>>
    BY <1>2 DEF StartWrite, lockVars
  <2>2. p \notin readers \cup parked /\ at[p] \notin WriteOps
    BY <1>2, PlaceFacts DEF LockInv, TypeOK
  <2>3. readers' = readers \ {p} /\ visited' \in [Conns -> SUBSET Dashboards]
    BY <2>1, <2>2 DEF LockInv, TypeOK
  <2>4. "sending" \in DeviceStates
    BY PlaceFacts
  <2> QED
    BY <2>1, <2>2, <2>3, <2>4, DeviceMoves
<1>3. CASE Panic(p, c)
  <2>1. /\ (at[p] \in Broadcasts /\ p \in readers) \/ at[p] = "relaying"
        /\ at' = [at EXCEPT ![p] = AfterPanic(at[p])] /\ readers' = readers \ {p}
        /\ conn' = [conn EXCEPT ![p] = None] /\ visited' = [visited EXCEPT ![p] = {}]
        /\ UNCHANGED <<parked, writer, dashboardClients, sock>>
    BY <1>3 DEF Panic, ComesTo
  <2>2. AfterPanic(at[p]) \in DeviceStates
    BY <2>1, NextAfterFacts, PlaceFacts
  <2>3. p \notin parked /\ at[p] \notin WriteOps
    BY <1>0, <2>1, NotParked, PlaceFacts
  <2>4. visited' \in [Conns -> SUBSET Dashboards]
    BY <2>1 DEF LockInv, TypeOK
  <2> QED
    BY <2>1, <2>2, <2>3, <2>4, DeviceMoves
<1>4. CASE WriteReturns(p, c) /\ at[p] = "sending"
  <2>1. PICK to \in {"reading", "dropping session"} :
          /\ at' = [at EXCEPT ![p] = to]
          /\ conn' = [conn EXCEPT ![p] = None]
          /\ UNCHANGED <<readers, parked, writer, dashboardClients, visited, sock>>
    BY <1>4, PlaceFacts DEF WriteReturns, lockVars
  <2>2. p \notin readers \cup parked /\ at[p] \notin WriteOps
    BY <1>4, PlaceFacts DEF LockInv, TypeOK
  <2>3. readers' = readers \ {p} /\ visited' \in [Conns -> SUBSET Dashboards]
    BY <2>1, <2>2 DEF LockInv, TypeOK
  <2>4. to \in DeviceStates
    BY PlaceFacts
  <2> QED
    BY <2>1, <2>2, <2>3, <2>4, DeviceMoves
<1>5. CASE WriteReturns(p, c) /\ at[p] # "sending"
  <2>1. /\ visited' = [visited EXCEPT ![p] = @ \cup {c}] /\ at' = at
        /\ conn' = [conn EXCEPT ![p] = None]
        /\ UNCHANGED <<readers, parked, writer, dashboardClients, sock>>
    BY <1>5 DEF WriteReturns, lockVars
  <2> QED
    BY <2>1 DEF LockInv, TypeOK, Places, Registry, Writers
<1> QED
  BY <1>1, <1>2, <1>3, <1>4, <1>5 DEF StartWrite, ComesTo

\* The end of a broadcast.
LEMMA EndBroadcastStep ==
  ASSUME LockInv, NEW p \in Conns, EndBroadcast(p) PROVE LockInv'
<1>1. /\ p \in readers /\ at[p] \in Broadcasts /\ conn[p] = None /\ readers' = readers \ {p}
      /\ visited' = [visited EXCEPT ![p] = {}]
      /\ UNCHANGED <<parked, writer, dashboardClients, conn, sock>>
  BY DEF EndBroadcast
<1>2. PICK next \in NextAfter(at[p]) : at' = [at EXCEPT ![p] = next]
  BY DEF EndBroadcast
<1>3. next \in DeviceStates /\ at[p] \notin WriteOps /\ p \notin parked
  BY <1>1, <1>2, NextAfterFacts, PlaceFacts, NotParked DEF Procs
<1>4. /\ conn' = [conn EXCEPT ![p] = None]
      /\ visited' \in [Conns -> SUBSET Dashboards]
  BY <1>1 DEF LockInv, TypeOK
<1> QED
  BY <1>1, <1>2, <1>3, <1>4, DeviceMoves

\* A message or an error comes to the handler of a device.
LEMMA DeviceMove ==
  ASSUME LockInv, NEW p \in Conns, DeviceConnects(p) \/ DeviceSends(p) \/ DeviceLeaves(p)
  PROVE  LockInv'
<1>1. PICK to \in {"registering device", "dispatching", "unregistering device"} :
        at[p] \in {"new", "reading"} /\ at' = [at EXCEPT ![p] = to]
  BY DEF DeviceConnects, DeviceSends, DeviceLeaves, GoTo
<1>2. UNCHANGED <<readers, parked, writer, dashboardClients, visited, conn, sock>>
  BY DEF DeviceConnects, DeviceSends, DeviceLeaves, GoTo, lockVars, writeVars
<1>3. at[p] \notin WriteOps \cup ReadOps
  BY <1>1, PlaceFacts
<1>4. conn[p] = None /\ p \notin parked /\ p \notin readers
  BY <1>1, <1>3, PlaceFacts DEF LockInv, Writers, TypeOK, Procs
<1>5. /\ conn' = [conn EXCEPT ![p] = None] /\ readers' = readers \ {p}
      /\ visited' \in [Conns -> SUBSET Dashboards]
  BY <1>2, <1>4 DEF LockInv, TypeOK
<1>6. to \in DeviceStates
  BY PlaceFacts
<1> QED
  BY <1>1, <1>2, <1>3, <1>4, <1>5, <1>6, DeviceMoves

\* A message or an error comes to the handler of a dashboard.
LEMMA DashboardMove ==
  ASSUME LockInv, NEW c \in Dashboards,
         DashboardConnects(c) \/ DashboardSends(c) \/ DashboardReadFails(c)
  PROVE  LockInv'
<1> USE KindsAssumption, NoneAssumption, PlaceFacts
    DEF LockInv, TypeOK, Places, Registry, Writers, Procs
<1>1. PICK to \in {"registering", "setting session", "forwarding", "cleaning"} :
        /\ at' = [at EXCEPT ![c] = to]
        /\ \/ at[c] = "new" /\ to = "registering"
           \/ at[c] = "serving" /\ to \in Registered
  BY DEF DashboardConnects, DashboardSends, DashboardReadFails, GoTo, Registered
<1>2. UNCHANGED <<readers, parked, writer, dashboardClients, visited, conn, sock>>
  BY DEF DashboardConnects, DashboardSends, DashboardReadFails, GoTo, lockVars, writeVars
<1>3. to \in DashboardStates
  BY <1>1 DEF DashboardStates, Registered
<1>4. TypeOK'
  BY <1>1, <1>2, <1>3
<1>5. Places'
  BY <1>1, <1>2, <1>3
<1>6. Registry'
  BY <1>1, <1>2 DEF Registered
<1>7. Writers'
  BY <1>1, <1>2
<1> QED
  BY <1>4, <1>5, <1>6, <1>7

\* Every step of a goroutine or a peer keeps the invariant of the lock.
LEMMA LockStep == ASSUME LockInv, [Next]_vars PROVE LockInv'
<1>1. ASSUME NEW c \in Dashboards, SocketTurns(c) PROVE LockInv'
  BY <1>1 DEF SocketTurns, lockVars, writeVars, LockInv, TypeOK, Places, Registry, Writers
<1>2. CASE UNCHANGED vars
  BY <1>2 DEF vars, lockVars, writeVars, LockInv, TypeOK, Places, Registry, Writers
<1>3. ASSUME NEW p \in Procs, Lock(p) \/ Step(p) PROVE LockInv'
  BY <1>3, AcquireStep, WriteRegionStep, ReadRegionStep, EndBroadcastStep, WriteStep,
     DashboardMove DEF Step
<1> QED
  BY <1>1, <1>2, <1>3, WriteStep, DeviceMove, DashboardMove DEF Next

\* It holds in every state.
LEMMA LockInvariant == Spec => []LockInv
  BY InitLock, LockStep, PTL DEF Spec

\* The lock means what it should: readers are at regions under RLock, a writer is at
\* one under Lock, and only a writer keeps goroutines waiting.
THEOREM TypeCorrect == Spec => []TypeOK
<1>1. LockInv => TypeOK
  BY DEF LockInv
<1> QED
  BY <1>1, LockInvariant, PTL

\* No broadcast writes to a dashboard that has been unregistered or released.
THEOREM TargetsLive == Spec => []BroadcastTargetsLive
<1>1. LockInv => BroadcastTargetsLive
  BY NoneAssumption, PlaceFacts
  DEF LockInv, TypeOK, Registry, Writers, BroadcastTargetsLive, Released, Broadcasts, Registered
<1> QED
  BY <1>1, LockInvariant, PTL

=============================================================================
