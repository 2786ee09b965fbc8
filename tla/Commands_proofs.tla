-------------------------- MODULE Commands_proofs --------------------------
(***************************************************************************)
(* Proofs about Commands, for every set of devices, group, set of rows,    *)
(* number of requests and read loops, and number of failing statements:    *)
(* the types, what the rows may say, and that Commands implements          *)
(* CommandLog.                                                             *)
(***************************************************************************)
EXTENDS Commands, TLAPS

States == Stored \cup {"none", "deleted"}
Marks  == {"none", "data", "SCREENSHOT_SAVED"}
ReqStates == {"idle", "creating", "dispatching", "marking", "done"}

\* The types of the rows.
RowType ==
  /\ status \in [Cmds -> States]
  /\ cmdDev \in [Cmds -> Devices \cup {None}]
  /\ completed \in [Cmds -> BOOLEAN]
  /\ result \in [Cmds -> Marks]
  /\ \A k \in Cmds : status[k] # "none" => cmdDev[k] \in Devices

\* The types of what devices and time do to commands.
WorldType ==
  /\ old \in [Cmds -> BOOLEAN]
  /\ exists \in [Devices -> BOOLEAN]
  /\ link \in [Cmds -> Links]
  /\ outcome \in [Cmds -> Completed \cup {"none"}]
  /\ shot \in [Devices -> Files]
  /\ crashed \in BOOLEAN

\* The types of requests, and of the rows they left; a request that marks a row has one
\* in its list.
RequestType ==
  /\ reqAt \in [Requests -> ReqStates]
  /\ todo \in [Requests -> SUBSET Devices]
  /\ logs \in [Requests -> Seq(Cmds)]
  /\ \A q \in Requests : reqAt[q] = "marking" => logs[q] # <<>>
  /\ cutOff \subseteq Cmds

\* The types of read loops; a busy one has a command.
ReaderType ==
  /\ rdAt \in [Readers -> {"idle", "saving", "writing", "updating"}]
  /\ rdCmd \in [Readers -> Cmds \cup {None}]
  /\ rdMark \in [Readers -> Marks]
  /\ \A r \in Readers : rdAt[r] # "idle" => rdCmd[r] \in Cmds

\* TypeOK is these and the count of failed statements.
LEMMA TypeParts ==
  TypeOK <=> RowType /\ WorldType /\ RequestType /\ ReaderType /\ dbFaults \in 0..MaxDbFaults
  BY DEF TypeOK, RowType, WorldType, RequestType, ReaderType, States, Marks, ReqStates

\* The same of the next state.
LEMMA TypePartsPrimed ==
  TypeOK' <=> /\ RowType' /\ WorldType' /\ RequestType' /\ ReaderType'
              /\ dbFaults' \in 0..MaxDbFaults
  BY DEF TypeOK, RowType, WorldType, RequestType, ReaderType, States, Marks, ReqStates

\* The rows keep their types while nothing writes them.
LEMMA RowFrame == ASSUME RowType, UNCHANGED rowVars PROVE RowType'
  BY DEF RowType, rowVars

\* The same for devices, messages and files.
LEMMA WorldFrame ==
  ASSUME WorldType, UNCHANGED <<old, exists, netVars, shot, crashed>> PROVE WorldType'
  BY DEF WorldType, netVars

\* The same for requests.
LEMMA RequestFrame == ASSUME RequestType, UNCHANGED <<reqVars, cutOff>> PROVE RequestType'
  BY DEF RequestType, reqVars

\* The same for read loops.
LEMMA ReaderFrame == ASSUME ReaderType, UNCHANGED rdVars PROVE ReaderType'
  BY DEF ReaderType, rdVars

\* A failed statement writes nothing, and is counted within the bound.
LEMMA FaultCount ==
  ASSUME dbFaults \in 0..MaxDbFaults, DbFault
  PROVE  dbFaults' \in 0..MaxDbFaults /\ dbFaults' > 0 /\ UNCHANGED rowVars
  BY FaultBoundAssumption DEF DbFault

\* The first row of a list is a row, and the rest a list of rows.
LEMMA HeadTail ==
  ASSUME NEW s \in Seq(Cmds), s # <<>>
  PROVE  /\ Head(s) \in Cmds /\ Tail(s) \in Seq(Cmds) /\ Len(s) \in Nat /\ Len(s) > 0
         /\ Head(s) = s[1] /\ Len(Tail(s)) = Len(s) - 1
         /\ \A i \in 1..Len(Tail(s)) : Tail(s)[i] = s[i + 1]
  OBVIOUS

\* Types, for the requests.
LEMMA RequestTypes ==
  ASSUME TypeOK, NEW q \in Requests,
         \/ \E d \in Devices : SendCommand(q, d)
         \/ BulkSendCommand(q)
         \/ Request(q)
  PROVE  TypeOK'
<1> USE TypeParts, TypePartsPrimed
<1> RowType /\ WorldType /\ RequestType /\ ReaderType /\ dbFaults \in 0..MaxDbFaults
  OBVIOUS
<1>1. ASSUME NEW S \in SUBSET Devices, Begin(q, S) PROVE TypeOK'
  <2>1. RequestType'
    BY <1>1 DEF Begin, RequestType, ReqStates
  <2> QED
    BY <1>1, <2>1, RowFrame, WorldFrame, ReaderFrame DEF Begin
<1>2. ASSUME NEW d \in Devices, Create(q, d) PROVE TypeOK'
  <2>1. RequestType'
    <3> HIDE TypeParts, TypePartsPrimed
    <3>0. \A k \in Cmds : Append(logs[q], k) \in Seq(Cmds)
      BY DEF RequestType
    <3>1. logs' \in [Requests -> Seq(Cmds)] /\ reqAt[q] = "creating" /\ reqAt' = reqAt
      BY <1>2, <3>0 DEF Create, RequestType
    <3>4. cutOff' \subseteq Cmds
      BY <1>2 DEF Create, RequestType
    <3>2. todo' \in [Requests -> SUBSET Devices]
      BY <1>2 DEF Create, RequestType
    <3>3. \A p \in Requests : p # q => logs'[p] = logs[p]
      BY <1>2 DEF Create, RequestType
    <3> QED
      BY <3>1, <3>2, <3>3, <3>4 DEF RequestType
  <2>2. RowType' /\ dbFaults' \in 0..MaxDbFaults
    <3>1. ASSUME DbFault PROVE RowType' /\ dbFaults' \in 0..MaxDbFaults
      BY <3>1, FaultCount, RowFrame
    <3>2. ASSUME NEW k \in Cmds, Insert(k, d) PROVE RowType'
      BY <3>2 DEF Insert, RowType, States, Stored
    <3>3. dbFaults < MaxDbFaults /\ dbFaults' = dbFaults + 1 => dbFaults' \in 0..MaxDbFaults
      BY FaultBoundAssumption
    <3> QED
      BY <1>2, <3>1, <3>2, <3>3, RowFrame DEF Create
  <2> QED
    BY <1>2, <2>1, <2>2, WorldFrame, ReaderFrame DEF Create
<1>3. CASE AllCreated(q) \/ Respond(q)
  <2>1. RequestType'
    BY <1>3 DEF AllCreated, Respond, RequestType, ReqStates
  <2> QED
    BY <1>3, <2>1, RowFrame, WorldFrame, ReaderFrame DEF AllCreated, Respond
<1>4. CASE Dispatch(q)
  <2> DEFINE k == Head(logs[q])
  <2>1. logs[q] \in Seq(Cmds) /\ logs[q] # <<>> /\ reqAt[q] = "dispatching"
    BY <1>4 DEF Dispatch, RequestType
  <2>2. k \in Cmds /\ Tail(logs[q]) \in Seq(Cmds)
    BY <2>1, HeadTail
  <2> HIDE DEF k
  <2>3. \E l \in Links : link' = [link EXCEPT ![k] = l]
    BY <1>4 DEF Dispatch, Handed, Reached, Links, k
  <2>4. WorldType'
    BY <1>4, <2>2, <2>3 DEF Dispatch, WorldType
  <2>5. RequestType'
    BY <1>4, <2>1, <2>2 DEF Dispatch, Handed, Skip, RequestType, ReqStates
  <2> QED
    BY <1>4, <2>4, <2>5, RowFrame, ReaderFrame DEF Dispatch
<1>5. CASE MarkSent(q)
  <2> DEFINE k == Head(logs[q])
  <2>1. logs[q] \in Seq(Cmds) /\ logs[q] # <<>>
    BY <1>5 DEF MarkSent, RequestType
  <2>2. k \in Cmds /\ Tail(logs[q]) \in Seq(Cmds)
    BY <2>1, HeadTail
  <2> HIDE DEF k
  <2>3. RequestType'
    <3>1. cutOff' \subseteq Cmds
      BY <1>5, <2>2 DEF MarkSent, RequestType, k
    <3> QED
      BY <1>5, <2>1, <2>2, <3>1 DEF MarkSent, RequestType, ReqStates
  <2>4. RowType' /\ dbFaults' \in 0..MaxDbFaults
    <3>1. ASSUME DbFault PROVE RowType' /\ dbFaults' \in 0..MaxDbFaults
      BY <3>1, FaultCount, RowFrame
    <3>2. ASSUME status' = [status EXCEPT ![k] = IF @ \in Stored THEN "SENT" ELSE @],
                 UNCHANGED <<cmdDev, completed, result>>
          PROVE  RowType'
      BY <2>2, <3>2 DEF RowType, States, Stored
    <3> QED
      BY <1>5, <3>1, <3>2 DEF MarkSent, k
  <2> QED
    BY <1>5, <2>3, <2>4, WorldFrame, ReaderFrame DEF MarkSent
<1>6. CASE (\E d \in Devices : SendCommand(q, d)) \/ BulkSendCommand(q)
  <2>2. \E S \in SUBSET Devices : Begin(q, S)
    BY <1>6, MembersAssumption DEF SendCommand, BulkSendCommand
  <2> QED
    BY <1>1, <2>2
<1> QED
  BY <1>2, <1>3, <1>4, <1>5, <1>6 DEF Request

\* Types, for the read loops.
LEMMA ReaderTypes == ASSUME TypeOK, NEW r \in Readers, ReadLoop(r) PROVE TypeOK'
<1> USE TypeParts, TypePartsPrimed
<1> RowType /\ WorldType /\ RequestType /\ ReaderType /\ dbFaults \in 0..MaxDbFaults
  OBVIOUS
<1>1. ASSUME NEW k \in Cmds, FetchCommand(r, k) PROVE TypeOK'
  <2>1. WorldType'
    BY <1>1 DEF FetchCommand, WorldType, Reached, Links
  <2>2. dbFaults' \in 0..MaxDbFaults
    BY <1>1, FaultCount DEF FetchCommand
  <2>3. ReaderType'
    <3> HIDE TypeParts, TypePartsPrimed
    <3>1. CASE UNCHANGED rdVars
      BY <3>1, ReaderFrame
    <3>2. ASSUME NEW a \in {"saving", "writing", "updating"},
                 rdAt' = [rdAt EXCEPT ![r] = a], rdCmd' = [rdCmd EXCEPT ![r] = k],
                 rdMark' = [rdMark EXCEPT ![r] = "data"]
          PROVE  ReaderType'
      BY <3>2 DEF ReaderType, Marks
    <3> QED
      BY <1>1, <3>1, <3>2 DEF FetchCommand
  <2> QED
    BY <1>1, <2>1, <2>2, <2>3, RowFrame, RequestFrame DEF FetchCommand
<1>2. CASE OpenImage(r) \/ WriteImage(r)
  <2>1. rdCmd[r] \in Cmds
    BY <1>2 DEF OpenImage, WriteImage, ReaderType
  <2>2. ReaderType'
    <3>1. CASE OpenImage(r)
      BY <3>1 DEF OpenImage, ReaderType, Marks
    <3>2. CASE WriteImage(r)
      BY <3>2 DEF WriteImage, ReaderType, Marks
    <3> QED
      BY <1>2, <3>1, <3>2
  <2>3. WorldType'
    <3>1. CASE OpenImage(r)
      <4>1. shot' \in [Devices -> Files]
        BY <3>1 DEF OpenImage, WorldType, Files
      <4> QED
        BY <3>1, <4>1 DEF OpenImage, WorldType, netVars
    <3>2. CASE WriteImage(r)
      <4>1. shot' \in [Devices -> Files]
        BY <2>1, <3>2 DEF WriteImage, WorldType, Files
      <4> QED
        BY <3>2, <4>1 DEF WriteImage, WorldType, netVars
    <3> QED
      BY <1>2, <3>1, <3>2
  <2>4. UNCHANGED <<rowVars, reqVars, cutOff, dbFaults>>
    BY <1>2 DEF OpenImage, WriteImage
  <2> QED
    BY <2>2, <2>3, <2>4, RowFrame, RequestFrame
<1>3. CASE UpdateStatus(r)
  <2>1. rdCmd[r] \in Cmds
    BY <1>3 DEF UpdateStatus, ReaderType
  <2>2. ReaderType'
    BY <1>3 DEF UpdateStatus, ReaderType, Marks
  <2>3. ASSUME UNCHANGED rowVars, UNCHANGED dbFaults \/ DbFault
        PROVE  RowType' /\ dbFaults' \in 0..MaxDbFaults
    BY <2>3, RowFrame, FaultCount
  <2>4. ASSUME NEW k \in Cmds, k = rdCmd[r], status[k] \in Stored,
               status' = [status EXCEPT ![k] = Verdict(r)],
               completed' = [completed EXCEPT ![k] = TRUE],
               result' = [result EXCEPT ![k] = rdMark[r]],
               UNCHANGED cmdDev
        PROVE  RowType'
    <3>1. Verdict(r) \in States /\ rdMark[r] \in Marks
      BY <2>4 DEF Verdict, WorldType, ReaderType, States, Completed, Stored
    <3> QED
      BY <2>4, <3>1 DEF RowType, Stored
  <2>5. RowType' /\ dbFaults' \in 0..MaxDbFaults
    BY <1>3, <2>1, <2>3, <2>4 DEF UpdateStatus, DbFault
  <2> QED
    BY <1>3, <2>2, <2>5, WorldFrame, RequestFrame DEF UpdateStatus
<1> QED
  BY <1>1, <1>2, <1>3 DEF ReadLoop

\* Types, for the device and its connection, time and the worker.
LEMMA WorldTypes ==
  ASSUME TypeOK,
         \/ \E k \in Cmds : Receive(k) \/ Answer(k) \/ RowAges(k)
         \/ \E d \in Devices : Disconnect(d) \/ DeleteDevice(d)
         \/ MarkTimeouts
  PROVE  TypeOK'
<1> USE TypeParts, TypePartsPrimed
<1> RowType /\ WorldType /\ RequestType /\ ReaderType /\ dbFaults \in 0..MaxDbFaults
  OBVIOUS
<1>1. ASSUME NEW k \in Cmds, Receive(k) \/ Answer(k) \/ RowAges(k) PROVE TypeOK'
  <2>1. WorldType'
    BY <1>1 DEF Receive, Answer, RowAges, WorldType, Reached, Links, netVars
  <2> QED
    BY <1>1, <2>1, RowFrame, RequestFrame, ReaderFrame DEF Receive, Answer, RowAges
<1>2. ASSUME NEW d \in Devices, Disconnect(d) PROVE TypeOK'
  <2>1. link' \in [Cmds -> Links]
    BY <1>2 DEF Disconnect, WorldType, Links
  <2>2. WorldType'
    BY <1>2, <2>1 DEF Disconnect, WorldType
  <2> QED
    BY <1>2, <2>2, RowFrame, RequestFrame, ReaderFrame DEF Disconnect
<1>3. ASSUME NEW d \in Devices, DeleteDevice(d) PROVE TypeOK'
  <2>1. WorldType'
    BY <1>3 DEF DeleteDevice, WorldType, netVars
  <2>2. RowType'
    <3>1. \A k \in Cmds : status'[k] = IF cmdDev[k] = d THEN "deleted" ELSE status[k]
      BY <1>3 DEF DeleteDevice
    <3>2. status' \in [Cmds -> States]
      BY <1>3 DEF DeleteDevice, RowType, States
    <3> QED
      BY <1>3, <3>1, <3>2 DEF DeleteDevice, RowType
  <2> QED
    BY <1>3, <2>1, <2>2, RequestFrame, ReaderFrame DEF DeleteDevice
<1>4. CASE MarkTimeouts
  <2>1. ASSUME DbFault PROVE RowType' /\ dbFaults' \in 0..MaxDbFaults
    BY <2>1, FaultCount, RowFrame
  <2>2. ASSUME status' = [k \in Cmds |-> IF TimedOut(k) THEN "TIMEOUT" ELSE status[k]],
               completed' = [k \in Cmds |-> completed[k] \/ TimedOut(k)],
               UNCHANGED <<cmdDev, result>>
        PROVE  RowType'
    <3>1. status' \in [Cmds -> States] /\ \A k \in Cmds : status[k] = "none" => status'[k] = "none"
      BY <2>2 DEF RowType, States, Stored, TimedOut
    <3>2. \A k \in Cmds : completed[k] \/ TimedOut(k) \in BOOLEAN
      BY DEF RowType, TimedOut
    <3>3. completed' \in [Cmds -> BOOLEAN]
      BY <2>2, <3>2
    <3>4. \A k \in Cmds : status'[k] # "none" => status[k] # "none"
      BY <2>2, <3>1
    <3> QED
      BY <2>2, <3>1, <3>3, <3>4 DEF RowType
  <2> QED
    BY <1>4, <2>1, <2>2, WorldFrame, RequestFrame, ReaderFrame DEF MarkTimeouts
<1> QED
  BY <1>1, <1>2, <1>3, <1>4

\* Types, for the end of the process.
LEMMA CrashTypes == ASSUME TypeOK, Crash PROVE TypeOK'
<1> USE TypeParts, TypePartsPrimed
<1> RowType /\ WorldType /\ RequestType /\ ReaderType /\ dbFaults \in 0..MaxDbFaults
  OBVIOUS
<1>1. RequestType'
  BY DEF Crash, RequestType, ReqStates
<1>2. ReaderType'
  BY DEF Crash, ReaderType, Marks
<1>3. WorldType'
  <2>1. link' \in [Cmds -> Links]
    BY DEF Crash, WorldType, Links
  <2>2. shot' \in [Devices -> Files]
    BY DEF Crash, WorldType, Files
  <2> QED
    BY <2>1, <2>2 DEF Crash, WorldType
<1> QED
  BY <1>1, <1>2, <1>3, RowFrame DEF Crash

\* Every step belongs to a request, a read loop, the world, or is the end of the process.
LEMMA NextKinds ==
  Next =>
    \/ \E q \in Requests : \/ \E d \in Devices : SendCommand(q, d)
                           \/ BulkSendCommand(q)
                           \/ Request(q)
    \/ \E r \in Readers : ReadLoop(r)
    \/ \/ \E k \in Cmds : Receive(k) \/ Answer(k) \/ RowAges(k)
       \/ \E d \in Devices : Disconnect(d) \/ DeleteDevice(d)
       \/ MarkTimeouts
    \/ Crash
  BY DEF Next

\* No step breaks a type.
LEMMA TypeInductive == TypeOK /\ [Next]_vars => TypeOK'
<1>1. TypeOK /\ UNCHANGED vars => TypeOK'
  BY TypeParts, TypePartsPrimed, RowFrame, WorldFrame, RequestFrame, ReaderFrame DEF vars
<1>2. TypeOK /\ Next => TypeOK'
  BY NextKinds, RequestTypes, ReaderTypes, WorldTypes, CrashTypes
<1> QED
  BY <1>1, <1>2

\* The variables keep their types, and the fields of a row, a request and a read
\* loop fit the state it is in.
THEOREM TypeCorrect == Spec => []TypeOK
<1>1. Init => TypeOK
  <2> SUFFICES ASSUME Init PROVE TypeOK
    OBVIOUS
  <2>1. RowType
    BY DEF Init, RowType, States, Marks
  <2>2. WorldType
    BY DEF Init, WorldType, Links, Files
  <2>3. RequestType
    BY DEF Init, RequestType, ReqStates
  <2>4. ReaderType
    BY DEF Init, ReaderType, Marks
  <2>5. dbFaults \in 0..MaxDbFaults
    BY FaultBoundAssumption DEF Init
  <2> QED
    BY <2>1, <2>2, <2>3, <2>4, <2>5, TypeParts
<1> QED
  BY <1>1, TypeInductive, PTL DEF Spec

-----------------------------------------------------------------------------
(* What a step may do to one row, one message, one list and one read loop. *)

Kept(k)     == UNCHANGED <<status[k], cmdDev[k], result[k]>>
Born(k)     == \E q \in Requests, d \in Devices :
                 /\ Create(q, d) /\ exists[d]
                 /\ \/ logs' = [logs EXCEPT ![q] = Append(@, k)]
                    \/ UNCHANGED logs /\ k \in cutOff'
                 /\ status[k] = "none" /\ status'[k] = "PENDING"
                 /\ cmdDev'[k] = d /\ result'[k] = result[k]
Marked(k)   == \E q \in Requests :
                 /\ MarkSent(q) /\ k = Head(logs[q])
                 /\ status[k] \in Stored /\ status'[k] = "SENT"
                 /\ UNCHANGED <<cmdDev[k], result[k]>>
Resolved(k) == \E r \in Readers :
                 /\ UpdateStatus(r) /\ k = rdCmd[r]
                 /\ status[k] \in Stored /\ status'[k] = outcome[k]
                 /\ result'[k] = rdMark[r] /\ UNCHANGED cmdDev[k]
Expired(k)  == /\ MarkTimeouts /\ status[k] = "SENT" /\ status'[k] = "TIMEOUT"
               /\ UNCHANGED <<cmdDev[k], result[k]>>
Removed(k)  == \E d \in Devices :
                 /\ DeleteDevice(d) /\ cmdDev[k] = d /\ status'[k] = "deleted"
                 /\ UNCHANGED <<cmdDev[k], result[k]>>

\* A step leaves a row alone, or does one of the five things code does to rows.
LEMMA RowMoves ==
  ASSUME TypeOK, [Next]_vars, NEW k \in Cmds
  PROVE  Kept(k) \/ Born(k) \/ Marked(k) \/ Resolved(k) \/ Expired(k) \/ Removed(k)
<1> DEFINE Goal == Kept(k) \/ Born(k) \/ Marked(k) \/ Resolved(k) \/ Expired(k) \/ Removed(k)
<1> RowType /\ RequestType /\ ReaderType
  BY TypeParts
<1> USE DEF rowVars
<1>1. ASSUME UNCHANGED rowVars PROVE Goal
  BY <1>1 DEF Kept
<1>2. ASSUME DbFault PROVE Goal
  BY <1>1, <1>2 DEF DbFault
<1>3. ASSUME NEW q \in Requests, NEW d \in Devices, Create(q, d) PROVE Goal
  <2>1. ASSUME NEW j \in Cmds, Insert(j, d),
               \/ logs' = [logs EXCEPT ![q] = Append(@, j)]
               \/ UNCHANGED logs /\ cutOff' = cutOff \cup {j}
        PROVE  Goal
    <3>1. CASE j = k
      <4>1. /\ exists[d] /\ status[k] = "none" /\ status'[k] = "PENDING"
            /\ cmdDev'[k] = d /\ result'[k] = result[k]
        BY <2>1, <3>1 DEF Insert, RowType
      <4> QED
        BY <1>3, <2>1, <3>1, <4>1 DEF Born
    <3>2. CASE j # k
      BY <2>1, <3>2 DEF Insert, Kept, RowType
    <3> QED
      BY <3>1, <3>2
  <2> QED
    BY <1>1, <1>2, <1>3, <2>1 DEF Create
<1>4. ASSUME NEW q \in Requests, MarkSent(q) PROVE Goal
  <2>1. Head(logs[q]) \in Cmds
    BY <1>4, HeadTail DEF MarkSent, RequestType
  <2>2. ASSUME status' = [status EXCEPT ![Head(logs[q])] = IF @ \in Stored THEN "SENT" ELSE @],
               UNCHANGED <<cmdDev, result>>
        PROVE  Goal
    <3>1. CASE k = Head(logs[q]) /\ status[k] \in Stored
      BY <1>4, <2>2, <3>1 DEF Marked, RowType
    <3>2. CASE ~(k = Head(logs[q]) /\ status[k] \in Stored)
      BY <2>1, <2>2, <3>2 DEF Kept, RowType
    <3> QED
      BY <3>1, <3>2
  <2> QED
    BY <1>2, <1>4, <2>2 DEF MarkSent
<1>5. ASSUME NEW r \in Readers, UpdateStatus(r) PROVE Goal
  <2>1. rdCmd[r] \in Cmds
    BY <1>5 DEF UpdateStatus, ReaderType
  <2>2. ASSUME NEW j \in Cmds, j = rdCmd[r], status[j] \in Stored,
               status' = [status EXCEPT ![j] = Verdict(r)],
               result' = [result EXCEPT ![j] = rdMark[r]],
               UNCHANGED cmdDev
        PROVE  Goal
    <3>1. CASE j = k
      BY <1>5, <2>2, <3>1 DEF Resolved, RowType, Verdict
    <3>2. CASE j # k
      BY <2>2, <3>2 DEF Kept, RowType
    <3> QED
      BY <3>1, <3>2
  <2> QED
    BY <1>1, <1>2, <1>5, <2>1, <2>2 DEF UpdateStatus
<1>6. CASE MarkTimeouts
  <2>1. CASE DbFault
    BY <1>2, <2>1
  <2>2. CASE ~DbFault
    <3>1. /\ status'[k] = IF TimedOut(k) THEN "TIMEOUT" ELSE status[k]
          /\ UNCHANGED <<cmdDev, result>>
      BY <1>6, <2>2 DEF MarkTimeouts
    <3> QED
      BY <1>6, <3>1 DEF Expired, Kept, TimedOut
  <2> QED
    BY <2>1, <2>2
<1>7. ASSUME NEW d \in Devices, DeleteDevice(d) PROVE Goal
  <2>1. /\ status'[k] = IF cmdDev[k] = d THEN "deleted" ELSE status[k]
        /\ UNCHANGED <<cmdDev, result>>
    BY <1>7 DEF DeleteDevice
  <2> QED
    BY <1>7, <2>1 DEF Removed, Kept
<1>8. CASE UNCHANGED vars
  BY <1>1, <1>8 DEF vars
<1>9. CASE Next
  <2> HIDE DEF Goal, rowVars
  <2>1. ASSUME NEW q \in Requests,
               \/ \E d \in Devices : SendCommand(q, d)
               \/ BulkSendCommand(q) \/ AllCreated(q) \/ Dispatch(q) \/ Respond(q)
        PROVE  Goal
    BY <1>1, <2>1 DEF SendCommand, BulkSendCommand, Begin, AllCreated, Dispatch, Respond
  <2>2. ASSUME NEW r \in Readers,
               OpenImage(r) \/ WriteImage(r) \/ \E j \in Cmds : FetchCommand(r, j)
        PROVE  Goal
    BY <1>1, <2>2 DEF OpenImage, WriteImage, FetchCommand
  <2>3. ASSUME NEW j \in Cmds, Receive(j) \/ Answer(j) \/ RowAges(j) PROVE Goal
    BY <1>1, <2>3 DEF Receive, Answer, RowAges
  <2>4. ASSUME NEW d \in Devices, Disconnect(d) PROVE Goal
    BY <1>1, <2>4 DEF Disconnect
  <2>5. ASSUME Crash PROVE Goal
    BY <1>1, <2>5 DEF Crash
  <2> QED
    BY <1>3, <1>4, <1>5, <1>6, <1>7, <1>9, <2>1, <2>2, <2>3, <2>4, <2>5, NextKinds
       DEF Request, ReadLoop, Goal
<1> QED
  BY <1>8, <1>9

MessageKept(k) == UNCHANGED <<link[k], outcome[k]>>
Handled(k)     == \E q \in Requests :
                    /\ Dispatch(q) /\ k = Head(logs[q])
                    /\ \/ /\ link'[k] \in {"queued", "dropped"} /\ UNCHANGED logs
                          /\ reqAt' = [reqAt EXCEPT ![q] = "marking"]
                       \/ /\ link'[k] = "refused" /\ UNCHANGED reqAt
                          /\ logs' = [logs EXCEPT ![q] = Tail(@)]
                    /\ UNCHANGED outcome[k]
Travelled(k)   == /\ link[k] = "queued" /\ link'[k] \in {"received", "lost"}
                  /\ UNCHANGED outcome[k]
Replied(k)     == link[k] = "received" /\ link'[k] = "answered" /\ outcome'[k] \in Completed
Fetched(k)     == /\ link[k] = "answered" /\ link'[k] = "read" /\ UNCHANGED outcome[k]
                  /\ \E r \in Readers : FetchCommand(r, k)

\* A step leaves a command's message alone, or takes it one hop further.
LEMMA MessageMoves ==
  ASSUME TypeOK, [Next]_vars, NEW k \in Cmds
  PROVE  MessageKept(k) \/ Handled(k) \/ Travelled(k) \/ Replied(k) \/ Fetched(k)
<1> DEFINE Goal == MessageKept(k) \/ Handled(k) \/ Travelled(k) \/ Replied(k) \/ Fetched(k)
<1> WorldType /\ RequestType
  BY TypeParts
<1>1. ASSUME UNCHANGED netVars PROVE Goal
  BY <1>1 DEF MessageKept, netVars
<1>2. ASSUME NEW q \in Requests, Dispatch(q) PROVE Goal
  <2>1. Head(logs[q]) \in Cmds
    BY <1>2, HeadTail DEF Dispatch, RequestType
  <2>2. CASE k = Head(logs[q])
    <3>1. UNCHANGED outcome[k]
      BY <1>2 DEF Dispatch
    <3>2. \/ /\ link'[k] \in {"queued", "dropped"} /\ UNCHANGED logs
             /\ reqAt' = [reqAt EXCEPT ![q] = "marking"]
          \/ /\ link'[k] = "refused" /\ UNCHANGED reqAt
             /\ logs' = [logs EXCEPT ![q] = Tail(@)]
      BY <1>2, <2>2 DEF Dispatch, Reached, Handed, Skip, WorldType
    <3> QED
      BY <1>2, <2>2, <3>1, <3>2 DEF Handled
  <2>3. CASE k # Head(logs[q])
    BY <1>2, <2>1, <2>3 DEF Dispatch, Reached, Handed, MessageKept, WorldType
  <2> QED
    BY <2>2, <2>3
<1>3. ASSUME NEW j \in Cmds, Receive(j) PROVE Goal
  BY <1>3 DEF Receive, Reached, MessageKept, Travelled, WorldType
<1>4. ASSUME NEW j \in Cmds, Answer(j) PROVE Goal
  BY <1>4 DEF Answer, Reached, MessageKept, Replied, WorldType
<1>5. ASSUME NEW d \in Devices, Disconnect(d) PROVE Goal
  BY <1>5 DEF Disconnect, MessageKept, Travelled
<1>6. ASSUME NEW r \in Readers, NEW j \in Cmds, FetchCommand(r, j) PROVE Goal
  <2>1. link[j] = "answered" /\ link' = [link EXCEPT ![j] = "read"] /\ outcome' = outcome
    BY <1>6 DEF FetchCommand, Reached
  <2> QED
    BY <1>6, <2>1 DEF MessageKept, Fetched, WorldType
<1>7. CASE Crash
  BY <1>7 DEF Crash, MessageKept, Travelled
<1>8. CASE UNCHANGED vars
  BY <1>1, <1>8 DEF vars
<1>9. CASE Next
  <2> HIDE DEF Goal, netVars
  <2>1. ASSUME NEW q \in Requests,
               \/ \E d \in Devices : SendCommand(q, d) \/ Create(q, d)
               \/ BulkSendCommand(q) \/ AllCreated(q) \/ MarkSent(q) \/ Respond(q)
        PROVE  Goal
    BY <1>1, <2>1 DEF SendCommand, BulkSendCommand, Begin, Create, AllCreated, MarkSent, Respond
  <2>2. ASSUME NEW r \in Readers, OpenImage(r) \/ WriteImage(r) \/ UpdateStatus(r) PROVE Goal
    BY <1>1, <2>2 DEF OpenImage, WriteImage, UpdateStatus
  <2>3. ASSUME NEW j \in Cmds, RowAges(j) PROVE Goal
    BY <1>1, <2>3 DEF RowAges
  <2>4. ASSUME NEW d \in Devices, DeleteDevice(d) PROVE Goal
    BY <1>1, <2>4 DEF DeleteDevice
  <2>5. ASSUME MarkTimeouts PROVE Goal
    BY <1>1, <2>5 DEF MarkTimeouts
  <2> QED
    BY <1>2, <1>3, <1>4, <1>5, <1>6, <1>7, <1>9, <2>1, <2>2, <2>3, <2>4, <2>5, NextKinds
       DEF Request, ReadLoop, Goal
<1> QED
  BY <1>8, <1>9

ListKept(q) == UNCHANGED logs[q] /\ (reqAt'[q] = "marking" <=> reqAt[q] = "marking")
Grown(q)    == \E d \in Devices, k \in Cmds :
                 /\ Create(q, d) /\ status[k] = "none" /\ status'[k] = "PENDING"
                 /\ logs' = [logs EXCEPT ![q] = Append(@, k)]
                 /\ reqAt[q] = "creating" /\ UNCHANGED <<reqAt, link>>
Handing(q)  == /\ Dispatch(q) /\ logs[q] # <<>> /\ UNCHANGED logs
               /\ link'[Head(logs[q])] \in ReturnedNil
               /\ reqAt[q] = "dispatching" /\ reqAt'[q] = "marking"
Popped(q)   == /\ Dispatch(q) \/ MarkSent(q)
               /\ logs[q] # <<>> /\ logs' = [logs EXCEPT ![q] = Tail(@)]
               /\ reqAt'[q] = "dispatching"
Died(q)     == Crash /\ logs'[q] = <<>> /\ reqAt'[q] # "marking"

\* A step leaves the list of a request alone, or does one of the four things code
\* does to it.
LEMMA ListMoves ==
  ASSUME TypeOK, [Next]_vars, NEW q \in Requests
  PROVE  ListKept(q) \/ Grown(q) \/ Handing(q) \/ Popped(q) \/ Died(q)
<1> DEFINE Goal == ListKept(q) \/ Grown(q) \/ Handing(q) \/ Popped(q) \/ Died(q)
<1> RequestType /\ WorldType
  BY TypeParts
<1>1. ASSUME UNCHANGED <<reqAt, logs>> PROVE Goal
  BY <1>1 DEF ListKept
<1>2. ASSUME NEW p \in Requests, \/ BulkSendCommand(p) \/ AllCreated(p) \/ Respond(p)
                                 \/ \E d \in Devices : SendCommand(p, d)
      PROVE  Goal
  BY <1>2 DEF SendCommand, BulkSendCommand, Begin, AllCreated, Respond, ListKept, RequestType
<1>3. ASSUME NEW p \in Requests, NEW d \in Devices, Create(p, d) PROVE Goal
  <2>1. CASE UNCHANGED logs
    BY <1>1, <1>3, <2>1 DEF Create
  <2>2. CASE ~UNCHANGED logs
    <3>1. PICK k \in Cmds : /\ status[k] = "none"
                            /\ status' = [status EXCEPT ![k] = "PENDING"]
                            /\ logs' = [logs EXCEPT ![p] = Append(@, k)]
      BY <1>3, <2>2 DEF Create, Insert
    <3>2. status'[k] = "PENDING"
      BY <3>1, TypeParts DEF RowType
    <3>3. UNCHANGED <<reqAt, link>> /\ reqAt[p] = "creating"
      BY <1>3 DEF Create, netVars
    <3>4. CASE p = q
      BY <1>3, <3>1, <3>2, <3>3, <3>4 DEF Grown
    <3>5. CASE p # q
      BY <3>1, <3>3, <3>5 DEF ListKept, RequestType
    <3> QED
      BY <3>4, <3>5
  <2> QED
    BY <2>1, <2>2
<1>4. ASSUME NEW p \in Requests, Dispatch(p) PROVE Goal
  <2>1. /\ reqAt[p] = "dispatching" /\ logs[p] # <<>>
        /\ \/ /\ link'[Head(logs[p])] \in ReturnedNil
              /\ reqAt' = [reqAt EXCEPT ![p] = "marking"] /\ UNCHANGED logs
           \/ logs' = [logs EXCEPT ![p] = Tail(@)] /\ UNCHANGED reqAt
    BY <1>4, HeadTail DEF Dispatch, Handed, Skip, Reached, ReturnedNil, Links, RequestType, WorldType
  <2>2. CASE p = q
    BY <1>4, <2>1, <2>2 DEF Handing, Popped, RequestType
  <2>3. CASE p # q
    BY <2>1, <2>3 DEF ListKept, RequestType
  <2> QED
    BY <2>2, <2>3
<1>5. ASSUME NEW p \in Requests, MarkSent(p) PROVE Goal
  <2>1. /\ logs[p] # <<>> /\ logs' = [logs EXCEPT ![p] = Tail(@)]
        /\ reqAt' = [reqAt EXCEPT ![p] = "dispatching"]
    BY <1>5 DEF MarkSent, RequestType
  <2>2. CASE p = q
    BY <1>5, <2>1, <2>2 DEF Popped, RequestType
  <2>3. CASE p # q
    BY <2>1, <2>3 DEF ListKept, RequestType
  <2> QED
    BY <2>2, <2>3
<1>6. CASE Crash
  BY <1>6 DEF Crash, Died
<1>7. CASE UNCHANGED vars
  BY <1>1, <1>7 DEF vars, reqVars
<1>8. CASE Next
  <2> HIDE DEF Goal
  <2>1. ASSUME NEW r \in Readers, ReadLoop(r) PROVE Goal
    BY <1>1, <2>1 DEF ReadLoop, FetchCommand, OpenImage, WriteImage, UpdateStatus, reqVars
  <2>2. ASSUME NEW k \in Cmds, Receive(k) \/ Answer(k) \/ RowAges(k) PROVE Goal
    BY <1>1, <2>2 DEF Receive, Answer, RowAges, reqVars
  <2>3. ASSUME NEW d \in Devices,
               Disconnect(d) \/ DeleteDevice(d)
        PROVE  Goal
    BY <1>1, <2>3 DEF Disconnect, DeleteDevice, reqVars
  <2>4. ASSUME MarkTimeouts PROVE Goal
    BY <1>1, <2>4 DEF MarkTimeouts, reqVars
  <2> QED
    BY <1>2, <1>3, <1>4, <1>5, <1>6, <1>8, <2>1, <2>2, <2>3, <2>4, NextKinds DEF Request, Goal
<1> QED
  BY <1>7, <1>8

HoldKept(r) == UNCHANGED <<rdCmd[r], rdMark[r]>> /\ (rdAt'[r] = "idle" <=> rdAt[r] = "idle")
Took(r)     == \E k \in Cmds :
                 /\ FetchCommand(r, k) /\ link[k] = "answered" /\ link'[k] = "read"
                 /\ status[k] \in Stored /\ UNCHANGED rowVars
                 /\ rdCmd' = [rdCmd EXCEPT ![r] = k]
                 /\ rdMark'[r] = "data" /\ rdAt'[r] # "idle"
Saved(r)    == /\ WriteImage(r) /\ rdAt[r] = "writing" /\ rdAt'[r] = "updating"
               /\ UNCHANGED <<rowVars, rdCmd>> /\ rdMark'[r] = "SCREENSHOT_SAVED"
Freed(r)    == rdCmd'[r] = None /\ rdMark'[r] = "none"

\* A step leaves a read loop alone, or moves it to the next point of HandleResult.
LEMMA ReaderMoves ==
  ASSUME TypeOK, [Next]_vars, NEW r \in Readers
  PROVE  HoldKept(r) \/ Took(r) \/ Saved(r) \/ Freed(r)
<1> DEFINE Goal == HoldKept(r) \/ Took(r) \/ Saved(r) \/ Freed(r)
<1> ReaderType /\ WorldType
  BY TypeParts
<1>1. ASSUME UNCHANGED rdVars PROVE Goal
  BY <1>1 DEF HoldKept, rdVars
<1>2. ASSUME NEW s \in Readers, NEW k \in Cmds, FetchCommand(s, k) PROVE Goal
  <2>1. CASE UNCHANGED rdVars
    BY <1>1, <2>1
  <2>2. CASE ~UNCHANGED rdVars
    <3>1. /\ link[k] = "answered" /\ link' = [link EXCEPT ![k] = "read"]
          /\ status[k] \in Stored
          /\ \E a \in {"saving", "updating"} : rdAt' = [rdAt EXCEPT ![s] = a]
          /\ rdCmd' = [rdCmd EXCEPT ![s] = k]
          /\ rdMark' = [rdMark EXCEPT ![s] = "data"]
      BY <1>2, <2>2 DEF FetchCommand, Reached
    <3>2. UNCHANGED rowVars
      BY <1>2 DEF FetchCommand
    <3>3. CASE s = r
      <4>1. link'[k] = "read" /\ rdMark'[r] = "data" /\ rdAt'[r] # "idle"
        BY <3>1, <3>3 DEF ReaderType, WorldType
      <4> QED
        BY <1>2, <3>1, <3>2, <3>3, <4>1 DEF Took
    <3>4. CASE s # r
      BY <3>1, <3>4 DEF HoldKept, ReaderType
    <3> QED
      BY <3>3, <3>4
  <2> QED
    BY <2>1, <2>2
<1>3. ASSUME NEW s \in Readers, WriteImage(s) PROVE Goal
  <2>1. /\ rdAt[s] = "writing" /\ rdAt' = [rdAt EXCEPT ![s] = "updating"] /\ UNCHANGED rdCmd
        /\ \/ UNCHANGED rdMark
           \/ rdMark' = [rdMark EXCEPT ![s] = "SCREENSHOT_SAVED"]
    BY <1>3 DEF WriteImage
  <2>2. UNCHANGED rowVars
    BY <1>3 DEF WriteImage
  <2>3. CASE s = r
    BY <1>3, <2>1, <2>2, <2>3 DEF HoldKept, Saved, ReaderType
  <2>4. CASE s # r
    BY <2>1, <2>4 DEF HoldKept, ReaderType
  <2> QED
    BY <2>3, <2>4
<1>4. ASSUME NEW s \in Readers, UpdateStatus(s) PROVE Goal
  BY <1>4 DEF UpdateStatus, HoldKept, Freed, ReaderType
<1>8. ASSUME NEW s \in Readers, OpenImage(s) PROVE Goal
  BY <1>8 DEF OpenImage, HoldKept, ReaderType
<1>5. CASE Crash
  BY <1>5 DEF Crash, Freed
<1>6. CASE UNCHANGED vars
  BY <1>1, <1>6 DEF vars
<1>7. CASE Next
  <2> HIDE DEF Goal
  <2>1. ASSUME NEW q \in Requests, \/ \E d \in Devices : SendCommand(q, d) \/ Create(q, d)
                                   \/ BulkSendCommand(q) \/ AllCreated(q) \/ Respond(q)
                                   \/ Dispatch(q) \/ MarkSent(q)
        PROVE  Goal
    BY <1>1, <2>1 DEF SendCommand, BulkSendCommand, Begin, Create, AllCreated, Respond, Dispatch,
                      MarkSent
  <2>2. ASSUME NEW k \in Cmds, Receive(k) \/ Answer(k) \/ RowAges(k) PROVE Goal
    BY <1>1, <2>2 DEF Receive, Answer, RowAges
  <2>3. ASSUME NEW d \in Devices,
               Disconnect(d) \/ DeleteDevice(d)
        PROVE  Goal
    BY <1>1, <2>3 DEF Disconnect, DeleteDevice
  <2>4. ASSUME MarkTimeouts PROVE Goal
    BY <1>1, <2>4 DEF MarkTimeouts
  <2> QED
    BY <1>2, <1>3, <1>4, <1>5, <1>7, <1>8, <2>1, <2>2, <2>3, <2>4, NextKinds
       DEF Request, ReadLoop, Goal
<1> QED
  BY <1>6, <1>7

-----------------------------------------------------------------------------
(* The inductive invariant: in whose hands a command is. *)

\* A row that does not exist yet is in nobody's hands.
Unborn ==
  \A k \in Cmds : status[k] = "none" =>
    /\ cmdDev[k] = None /\ link[k] = "none" /\ result[k] = "none"
    /\ \A q \in Requests : ~InLogs(q, k)

\* A row is in the list of one request, and there once.
ListedOnce ==
  /\ \A q, p \in Requests, k \in Cmds : InLogs(q, k) /\ InLogs(p, k) => q = p
  /\ \A q \in Requests : \A i, j \in 1..Len(logs[q]) : logs[q][i] = logs[q][j] => i = j

\* A listed row is untouched but for its deletion; only the head of a list may be
\* with the hub, and then the request is about to mark it.
Undispatched ==
  /\ \A q \in Requests, k \in Cmds :
       InLogs(q, k) => \/ link[k] = "none" /\ status[k] \in {"PENDING", "deleted"}
                       \/ reqAt[q] = "marking" /\ k = Head(logs[q])
  /\ \A q \in Requests : reqAt[q] = "marking" => link[Head(logs[q])] \in ReturnedNil

\* An answer is on its way, or read, only with an outcome.
Answered == \A k \in Cmds : link[k] \in {"answered", "read"} => outcome[k] \in Completed

\* A busy read loop holds a command whose answer was read, no other read loop
\* holds it, and its row has no result yet.
HeldByOne ==
  /\ \A r \in Readers : rdAt[r] = "idle" => rdCmd[r] = None
  /\ \A r \in Readers, k \in Cmds : rdCmd[r] = k =>
       link[k] = "read" /\ status[k] # "none" /\ status[k] \notin Completed
  /\ \A r, s \in Readers : rdCmd[r] = rdCmd[s] /\ rdCmd[r] # None => r = s

CommandInv ==
  /\ Unborn
  /\ ListedOnce
  /\ Undispatched
  /\ Answered
  /\ HeldByOne
  /\ OutcomeReported
  /\ SentReturnedNil

\* The value that stands for "no command" is none.
LEMMA NoneIsNoCommand == None \notin Cmds
  BY NoneAssumption

\* A row appended to a list is in it, and nothing else changes.
LEMMA GrownMembers ==
  ASSUME RequestType, NEW q \in Requests, NEW k \in Cmds,
         logs' = [logs EXCEPT ![q] = Append(@, k)]
  PROVE  \A p \in Requests, j \in Cmds : InLogs(p, j)' <=> InLogs(p, j) \/ (p = q /\ j = k)
<1> SUFFICES ASSUME NEW p \in Requests, NEW j \in Cmds
             PROVE  InLogs(p, j)' <=> InLogs(p, j) \/ (p = q /\ j = k)
  OBVIOUS
<1>1. CASE p # q
  BY <1>1 DEF InLogs, RequestType
<1>2. CASE p = q
  <2>1. logs'[q] = Append(logs[q], k) /\ logs[q] \in Seq(Cmds)
    BY DEF RequestType
  <2>2. /\ Len(logs'[q]) = Len(logs[q]) + 1 /\ Len(logs[q]) \in Nat
        /\ logs'[q][Len(logs[q]) + 1] = k
        /\ \A i \in 1..Len(logs[q]) : logs'[q][i] = logs[q][i]
    BY <2>1
  <2> HIDE <2>1
  <2>3. InLogs(q, j) => InLogs(q, j)'
    BY <2>2 DEF InLogs
  <2>4. InLogs(q, k)'
    BY <2>2 DEF InLogs
  <2>5. InLogs(q, j)' => InLogs(q, j) \/ j = k
    <3>1. ASSUME NEW i \in 1..Len(logs'[q]), logs'[q][i] = j, j # k PROVE InLogs(q, j)
      <4>1. i \in 1..Len(logs[q])
        BY <2>2, <3>1
      <4> QED
        BY <2>2, <3>1, <4>1 DEF InLogs
    <3> QED
      BY <3>1 DEF InLogs
  <2> QED
    BY <1>2, <2>3, <2>4, <2>5
<1> QED
  BY <1>1, <1>2

\* The head of a list without repetitions leaves it for good, and nothing else does.
LEMMA PoppedMembers ==
  ASSUME RequestType, ListedOnce, NEW q \in Requests, logs[q] # <<>>,
         logs' = [logs EXCEPT ![q] = Tail(@)]
  PROVE  \A p \in Requests, j \in Cmds :
           InLogs(p, j)' <=> InLogs(p, j) /\ ~(p = q /\ j = Head(logs[q]))
<1> SUFFICES ASSUME NEW p \in Requests, NEW j \in Cmds
             PROVE  InLogs(p, j)' <=> InLogs(p, j) /\ ~(p = q /\ j = Head(logs[q]))
  OBVIOUS
<1>1. CASE p # q
  BY <1>1 DEF InLogs, RequestType
<1>2. CASE p = q
  <2>1. logs'[q] = Tail(logs[q]) /\ logs[q] \in Seq(Cmds)
    BY DEF RequestType
  <2>2. /\ Len(logs[q]) \in Nat /\ Len(logs[q]) > 0 /\ Len(logs'[q]) = Len(logs[q]) - 1
        /\ Head(logs[q]) = logs[q][1]
        /\ \A i \in 1..Len(logs'[q]) : logs'[q][i] = logs[q][i + 1]
    BY <2>1, HeadTail
  <2>3. ASSUME InLogs(q, j), j # Head(logs[q]) PROVE InLogs(q, j)'
    <3>1. PICK i \in 1..Len(logs[q]) : logs[q][i] = j
      BY <2>3 DEF InLogs
    <3>2. i - 1 \in 1..Len(logs'[q]) /\ (i - 1) + 1 = i
      BY <2>2, <2>3, <3>1
    <3>3. logs'[q][i - 1] = j
      BY <2>2, <3>1, <3>2
    <3> QED
      BY <3>2, <3>3 DEF InLogs
  <2>4. ASSUME InLogs(q, j)' PROVE InLogs(q, j) /\ j # Head(logs[q])
    <3>1. PICK i \in 1..Len(logs'[q]) : logs'[q][i] = j
      BY <2>4 DEF InLogs
    <3>2. i + 1 \in 1..Len(logs[q]) /\ 1 \in 1..Len(logs[q]) /\ i + 1 # 1
      BY <2>2, <3>1
    <3>3. logs[q][i + 1] = j
      BY <2>2, <3>1
    <3> QED
      BY <2>2, <3>2, <3>3 DEF InLogs, ListedOnce
  <2> QED
    BY <1>2, <2>3, <2>4
<1> QED
  BY <1>1, <1>2

\* What a list holds after a step: what it held, or a row that was born in it; not
\* its head if that was popped.
LEMMA MemberMoves ==
  ASSUME TypeOK, CommandInv, [Next]_vars, NEW q \in Requests, NEW k \in Cmds, InLogs(q, k)'
  PROVE  \/ InLogs(q, k)
         \/ \E d \in Devices : /\ Create(q, d) /\ status[k] = "none" /\ status'[k] = "PENDING"
                               /\ logs' = [logs EXCEPT ![q] = Append(@, k)]
                               /\ reqAt[q] = "creating" /\ UNCHANGED <<reqAt, link>>
<1> RequestType
  BY TypeParts
<1>1. CASE ListKept(q)
  BY <1>1 DEF ListKept, InLogs
<1>2. CASE Grown(q)
  <2>1. PICK d \in Devices, j \in Cmds :
               /\ Create(q, d) /\ status[j] = "none" /\ status'[j] = "PENDING"
               /\ logs' = [logs EXCEPT ![q] = Append(@, j)]
               /\ reqAt[q] = "creating" /\ UNCHANGED <<reqAt, link>>
    BY <1>2 DEF Grown
  <2>2. InLogs(q, k) \/ k = j
    BY <2>1, GrownMembers
  <2> QED
    BY <2>1, <2>2
<1>3. CASE Handing(q)
  BY <1>3 DEF Handing, InLogs
<1>4. CASE Popped(q)
  BY <1>4, PoppedMembers DEF Popped, CommandInv
<1>5. CASE Died(q)
  BY <1>5 DEF Died, InLogs
<1> QED
  BY <1>1, <1>2, <1>3, <1>4, <1>5, ListMoves

\* The head of the list of a request that dispatches or marks is in it.
LEMMA HeadListed ==
  ASSUME RequestType, NEW q \in Requests, logs[q] # <<>>
  PROVE  Head(logs[q]) \in Cmds /\ InLogs(q, Head(logs[q]))
  BY HeadTail DEF RequestType, InLogs

\* A row handed to the hub had no message before.
LEMMA HandledFresh ==
  ASSUME TypeOK, CommandInv, NEW q \in Requests, Dispatch(q)
  PROVE  link[Head(logs[q])] = "none" /\ InLogs(q, Head(logs[q])) /\ Head(logs[q]) \in Cmds
<1>1. reqAt[q] = "dispatching" /\ logs[q] # <<>> /\ RequestType
  BY TypeParts DEF Dispatch
<1>2. InLogs(q, Head(logs[q])) /\ Head(logs[q]) \in Cmds
  BY <1>1, HeadListed
<1> QED
  BY <1>1, <1>2 DEF CommandInv, Undispatched

\* A message that SendToDevice returned nil for stays one, and an answer that was read
\* stays read with its outcome.
LEMMA MessageStays ==
  ASSUME TypeOK, CommandInv, [Next]_vars, NEW k \in Cmds
  PROVE  /\ link[k] \in ReturnedNil => link'[k] \in ReturnedNil
         /\ link[k] = "read" => link'[k] = "read" /\ outcome'[k] = outcome[k]
<1>1. CASE MessageKept(k)
  BY <1>1 DEF MessageKept
<1>2. CASE Handled(k)
  BY <1>2, HandledFresh DEF Handled, ReturnedNil
<1>3. CASE Travelled(k) \/ Replied(k) \/ Fetched(k)
  BY <1>3 DEF Travelled, Replied, Fetched, ReturnedNil, Links
<1> QED
  BY <1>1, <1>2, <1>3, MessageMoves

\* A row that is marked is the head of a list, and SendToDevice returned nil for it.
LEMMA MarkedReturnedNil ==
  ASSUME TypeOK, CommandInv, NEW q \in Requests, MarkSent(q)
  PROVE  /\ reqAt[q] = "marking" /\ logs[q] # <<>> /\ link' = link
         /\ Head(logs[q]) \in Cmds /\ InLogs(q, Head(logs[q]))
         /\ link[Head(logs[q])] \in ReturnedNil
         /\ logs' = [logs EXCEPT ![q] = Tail(@)]
<1>1. reqAt[q] = "marking" /\ logs[q] # <<>> /\ RequestType
  BY TypeParts DEF MarkSent, RequestType
<1>2. Head(logs[q]) \in Cmds /\ InLogs(q, Head(logs[q]))
  BY <1>1, HeadListed
<1> QED
  BY <1>1, <1>2 DEF MarkSent, CommandInv, Undispatched, netVars

\* Only one read loop resolves a row, and it had read the answer.
LEMMA ResolvedHeld ==
  ASSUME TypeOK, CommandInv, NEW r \in Readers, UpdateStatus(r)
  PROVE  /\ rdCmd[r] \in Cmds /\ link[rdCmd[r]] = "read" /\ rdCmd'[r] = None
         /\ link' = link /\ outcome' = outcome
<1>1. rdCmd[r] \in Cmds /\ rdCmd'[r] = None
  BY TypeParts DEF UpdateStatus, ReaderType
<1> QED
  BY <1>1 DEF UpdateStatus, CommandInv, HeldByOne, netVars

\* Rows are born in nobody's hands.
LEMMA UnbornStep == ASSUME TypeOK, CommandInv, [Next]_vars PROVE Unborn'
<1> SUFFICES ASSUME NEW k \in Cmds, status'[k] = "none"
             PROVE  /\ cmdDev'[k] = None /\ link'[k] = "none" /\ result'[k] = "none"
                    /\ \A q \in Requests : ~InLogs(q, k)'
  BY DEF Unborn
<1>1. Kept(k) /\ status[k] = "none"
  <2>1. ~Born(k) /\ ~Marked(k) /\ ~Expired(k) /\ ~Removed(k)
    BY DEF Born, Marked, Expired, Removed
  <2>2. ~Resolved(k)
    BY DEF Resolved, CommandInv, HeldByOne, Answered, Completed
  <2> QED
    BY <2>1, <2>2, RowMoves DEF Kept
<1>2. /\ cmdDev[k] = None /\ link[k] = "none" /\ result[k] = "none"
      /\ \A q \in Requests : ~InLogs(q, k)
  BY <1>1 DEF CommandInv, Unborn
<1>3. link'[k] = "none"
  <2>1. ~Handled(k)
    BY <1>2, HandledFresh DEF Handled
  <2> QED
    BY <1>2, <2>1, MessageMoves DEF MessageKept, Travelled, Replied, Fetched
<1>4. ASSUME NEW q \in Requests, InLogs(q, k)' PROVE FALSE
  BY <1>2, <1>4, MemberMoves
<1> QED
  BY <1>1, <1>2, <1>3, <1>4 DEF Kept

\* A row stays in one list: only the request that created it appends it.
LEMMA ListedOnceStep == ASSUME TypeOK, CommandInv, [Next]_vars PROVE ListedOnce'
<1> RequestType
  BY TypeParts
<1>1. ASSUME NEW q \in Requests, NEW p \in Requests, NEW k \in Cmds, InLogs(q, k)', InLogs(p, k)'
      PROVE  q = p
  <2>1. CASE InLogs(q, k) /\ InLogs(p, k)
    BY <2>1 DEF CommandInv, ListedOnce
  <2>2. ASSUME NEW x \in Requests, NEW y \in Requests, {x, y} = {q, p},
               InLogs(y, k)', ~InLogs(x, k), InLogs(x, k)', x # y
        PROVE  FALSE
    <3>1. PICK d \in Devices : /\ status[k] = "none"
                               /\ logs' = [logs EXCEPT ![x] = Append(@, k)]
      BY <2>2, MemberMoves
    <3>2. InLogs(y, k)
      BY <2>2, <3>1 DEF RequestType, InLogs
    <3> QED
      BY <3>1, <3>2 DEF CommandInv, Unborn
  <2> QED
    BY <1>1, <2>1, <2>2
<1>2. ASSUME NEW q \in Requests, NEW i \in 1..Len(logs'[q]), NEW j \in 1..Len(logs'[q]),
             logs'[q][i] = logs'[q][j]
      PROVE  i = j
  <2>1. CASE UNCHANGED logs[q]
    BY <1>2, <2>1 DEF CommandInv, ListedOnce
  <2>2. CASE Grown(q)
    <3>1. PICK k \in Cmds : status[k] = "none" /\ logs'[q] = Append(logs[q], k)
      BY <2>2 DEF Grown, RequestType
    <3>2. /\ Len(logs[q]) \in Nat /\ Len(logs'[q]) = Len(logs[q]) + 1
          /\ logs'[q][Len(logs'[q])] = k
          /\ \A x \in 1..Len(logs[q]) : logs'[q][x] = logs[q][x]
      BY <3>1 DEF RequestType
    <3>3. \A x \in 1..Len(logs[q]) : logs[q][x] # k
      BY <3>1 DEF CommandInv, Unborn, InLogs
    <3> HIDE <3>1
    <3>4. CASE i \in 1..Len(logs[q]) /\ j \in 1..Len(logs[q])
      BY <1>2, <3>2, <3>4 DEF CommandInv, ListedOnce
    <3>5. CASE i = Len(logs'[q]) /\ j \in 1..Len(logs[q])
      BY <1>2, <3>2, <3>3, <3>5
    <3>6. CASE j = Len(logs'[q]) /\ i \in 1..Len(logs[q])
      BY <1>2, <3>2, <3>3, <3>6
    <3>7. \A x \in 1..Len(logs'[q]) : x \in 1..Len(logs[q]) \/ x = Len(logs'[q])
      BY <3>2
    <3> QED
      BY <3>4, <3>5, <3>6, <3>7
  <2>3. CASE Popped(q)
    <3>1. logs[q] # <<>> /\ logs'[q] = Tail(logs[q]) /\ logs[q] \in Seq(Cmds)
      BY <2>3 DEF Popped, RequestType
    <3>2. /\ Len(logs[q]) \in Nat /\ Len(logs[q]) > 0 /\ Len(logs'[q]) = Len(logs[q]) - 1
          /\ \A x \in 1..Len(logs'[q]) : logs'[q][x] = logs[q][x + 1]
      BY <3>1, HeadTail
    <3>3. /\ i + 1 \in 1..Len(logs[q]) /\ j + 1 \in 1..Len(logs[q])
          /\ logs[q][i + 1] = logs[q][j + 1]
      BY <1>2, <3>2
    <3>4. i + 1 = j + 1
      BY <3>3 DEF CommandInv, ListedOnce
    <3> QED
      BY <3>4
  <2>4. CASE Died(q)
    BY <1>2, <2>4 DEF Died
  <2> QED
    BY <2>1, <2>2, <2>3, <2>4, ListMoves DEF ListKept, Handing
<1> QED
  BY <1>1, <1>2 DEF ListedOnce

\* A request about to mark a row keeps it at the head of its list until it has.
LEMMA MarkingStays ==
  ASSUME TypeOK, CommandInv, [Next]_vars, NEW q \in Requests, reqAt[q] = "marking"
  PROVE  \/ reqAt'[q] = "marking" /\ logs'[q] = logs[q]
         \/ /\ reqAt'[q] # "marking" /\ MarkSent(q)
            /\ \A k \in Cmds : k = Head(logs[q]) => ~InLogs(q, k)'
         \/ reqAt'[q] # "marking" /\ logs'[q] = <<>>
<1> RequestType
  BY TypeParts
<1>1. CASE Popped(q)
  <2>1. MarkSent(q) /\ reqAt'[q] # "marking" /\ logs[q] # <<>>
    BY <1>1 DEF Popped, Dispatch
  <2> QED
    BY <1>1, <2>1, PoppedMembers DEF Popped, CommandInv
<1> QED
  BY <1>1, ListMoves DEF ListKept, Grown, Handing, Died

\* A listed row is touched by its own request alone, and that sends it before it
\* marks it.
LEMMA UndispatchedStep == ASSUME TypeOK, CommandInv, [Next]_vars PROVE Undispatched'
<1> RequestType
  BY TypeParts
<1>1. ASSUME NEW q \in Requests, NEW k \in Cmds, InLogs(q, k)'
      PROVE  \/ link'[k] = "none" /\ status'[k] \in {"PENDING", "deleted"}
             \/ reqAt'[q] = "marking" /\ k = Head(logs'[q])
  <2>1. CASE InLogs(q, k) /\ reqAt[q] = "marking" /\ k = Head(logs[q])
    <3>1. logs'[q] # <<>>
      BY <1>1 DEF InLogs
    <3> QED
      BY <1>1, <2>1, <3>1, MarkingStays
  <2>2. CASE InLogs(q, k) /\ link[k] = "none" /\ status[k] \in {"PENDING", "deleted"}
    <3>1. link'[k] = "none" \/ (reqAt'[q] = "marking" /\ k = Head(logs'[q]))
      <4>1. ASSUME NEW p \in Requests, Dispatch(p), k = Head(logs[p]),
                   \/ UNCHANGED logs /\ reqAt' = [reqAt EXCEPT ![p] = "marking"]
                   \/ logs' = [logs EXCEPT ![p] = Tail(@)]
            PROVE  reqAt'[q] = "marking" /\ k = Head(logs'[q])
        <5>1. InLogs(p, k) /\ logs[p] # <<>>
          BY <4>1, HandledFresh DEF Dispatch
        <5>2. p = q
          BY <2>2, <5>1 DEF CommandInv, ListedOnce
        <5>3. logs' # [logs EXCEPT ![p] = Tail(@)]
          BY <1>1, <4>1, <5>1, <5>2, PoppedMembers DEF CommandInv
        <5> QED
          BY <4>1, <5>2, <5>3 DEF RequestType
      <4> QED
        BY <2>2, <4>1, MessageMoves DEF MessageKept, Handled, Travelled, Replied, Fetched
    <3>2. status'[k] \in {"PENDING", "deleted"}
      <4>1. ~Marked(k)
        <5>1. ASSUME NEW p \in Requests, MarkSent(p), k = Head(logs[p]) PROVE FALSE
          <6>1. link[k] \in ReturnedNil
            BY <5>1, MarkedReturnedNil
          <6> QED
            BY <2>2, <6>1 DEF ReturnedNil
        <5> QED
          BY <5>1 DEF Marked
      <4>2. ~Resolved(k)
        BY <2>2, ResolvedHeld DEF Resolved
      <4> QED
        BY <2>2, <4>1, <4>2, RowMoves DEF Kept, Born, Expired, Removed
    <3> QED
      BY <3>1, <3>2
  <2>3. CASE ~InLogs(q, k)
    <3>1. status[k] = "none" /\ status'[k] = "PENDING" /\ UNCHANGED link
      BY <1>1, <2>3, MemberMoves
    <3> QED
      BY <3>1 DEF CommandInv, Unborn
  <2> QED
    BY <2>1, <2>2, <2>3 DEF CommandInv, Undispatched
<1>2. ASSUME NEW q \in Requests, reqAt'[q] = "marking" PROVE link'[Head(logs'[q])] \in ReturnedNil
  <2>1. CASE reqAt[q] = "marking"
    <3>1. logs'[q] = logs[q] /\ logs[q] # <<>>
      BY <1>2, <2>1, MarkingStays DEF RequestType
    <3>2. Head(logs[q]) \in Cmds
      BY <3>1, HeadListed
    <3>3. link[Head(logs[q])] \in ReturnedNil
      BY <2>1 DEF CommandInv, Undispatched
    <3> QED
      BY <3>1, <3>2, <3>3, MessageStays
  <2>2. CASE reqAt[q] # "marking"
    BY <1>2, <2>2, ListMoves DEF ListKept, Grown, Handing, Popped, Died
  <2> QED
    BY <2>1, <2>2
<1> QED
  BY <1>1, <1>2 DEF Undispatched

\* The outcome is there before the answer is, and does not change after.
LEMMA AnsweredStep == ASSUME TypeOK, CommandInv, [Next]_vars PROVE Answered'
<1> SUFFICES ASSUME NEW k \in Cmds, link'[k] \in {"answered", "read"}
             PROVE  outcome'[k] \in Completed
  BY DEF Answered
<1> QED
  BY MessageMoves DEF CommandInv, Answered, MessageKept, Handled, Travelled, Replied, Fetched

\* A command is held by the one read loop that read its answer, until it writes it.
LEMMA HeldByOneStep == ASSUME TypeOK, CommandInv, [Next]_vars PROVE HeldByOne'
<1> ReaderType /\ RowType /\ None \notin Cmds
  BY TypeParts, NoneIsNoCommand
<1>1. ASSUME NEW r \in Readers, rdAt'[r] = "idle" PROVE rdCmd'[r] = None
  BY <1>1, ReaderMoves DEF HoldKept, Took, Saved, Freed, CommandInv, HeldByOne
<1>2. ASSUME NEW r \in Readers, NEW k \in Cmds, rdCmd'[r] = k
      PROVE  link'[k] = "read" /\ status'[k] # "none" /\ status'[k] \notin Completed
  <2>1. CASE rdCmd[r] = k
    <3>1. link[k] = "read" /\ status[k] # "none" /\ status[k] \notin Completed
      BY <2>1 DEF CommandInv, HeldByOne
    <3>2. ~Resolved(k)
      <4>1. ASSUME NEW s \in Readers, UpdateStatus(s), k = rdCmd[s] PROVE FALSE
        <5>1. s = r
          BY <2>1, <4>1 DEF CommandInv, HeldByOne
        <5> QED
          BY <1>2, <4>1, <5>1, ResolvedHeld
      <4> QED
        BY <4>1 DEF Resolved
    <3> QED
      BY <3>1, <3>2, MessageStays, RowMoves DEF Kept, Born, Marked, Expired, Removed, Completed
  <2>2. CASE rdCmd[r] # k
    <3>1. PICK j \in Cmds : /\ link[j] = "answered" /\ link'[j] = "read"
                            /\ status[j] \in Stored /\ UNCHANGED rowVars
                            /\ rdCmd' = [rdCmd EXCEPT ![r] = j]
      BY <1>2, <2>2, ReaderMoves DEF HoldKept, Took, Saved, Freed
    <3>2. j = k
      BY <1>2, <3>1 DEF ReaderType
    <3> QED
      BY <3>1, <3>2 DEF CommandInv, OutcomeReported, Stored, rowVars
  <2> QED
    BY <2>1, <2>2
<1>3. ASSUME NEW r \in Readers, NEW s \in Readers, rdCmd'[r] = rdCmd'[s], rdCmd'[r] # None
      PROVE  r = s
  <2>1. CASE rdCmd'[r] = rdCmd[r] /\ rdCmd'[s] = rdCmd[s]
    BY <1>3, <2>1 DEF CommandInv, HeldByOne
  <2>2. ASSUME NEW x \in Readers, NEW y \in Readers, rdCmd'[x] = rdCmd'[y], rdCmd'[x] # None,
               rdCmd'[x] # rdCmd[x], x # y
        PROVE  FALSE
    <3>1. PICK k \in Cmds : link[k] = "answered" /\ rdCmd' = [rdCmd EXCEPT ![x] = k]
      BY <2>2, ReaderMoves DEF HoldKept, Took, Saved, Freed
    <3>2. rdCmd[y] = k
      BY <2>2, <3>1 DEF ReaderType
    <3> QED
      BY <3>1, <3>2 DEF CommandInv, HeldByOne
  <2> QED
    BY <1>3, <2>1, <2>2
<1> QED
  BY <1>1, <1>2, <1>3 DEF HeldByOne

\* A row gets a result from the read loop that holds the command, and the outcome
\* no longer changes then.
LEMMA OutcomeStep == ASSUME TypeOK, CommandInv, [Next]_vars PROVE OutcomeReported'
<1> SUFFICES ASSUME NEW k \in Cmds, status'[k] \in Completed
             PROVE  link'[k] = "read" /\ outcome'[k] = status'[k]
  BY DEF OutcomeReported
<1>1. CASE Kept(k)
  BY <1>1, MessageStays DEF Kept, CommandInv, OutcomeReported
<1>2. CASE Resolved(k)
  BY <1>2, ResolvedHeld DEF Resolved
<1> QED
  BY <1>1, <1>2, RowMoves DEF Born, Marked, Expired, Removed, Completed

\* A row becomes SENT after SendToDevice returned nil, and TIMEOUT after it was SENT.
LEMMA SentStep == ASSUME TypeOK, CommandInv, [Next]_vars PROVE SentReturnedNil'
<1> SUFFICES ASSUME NEW k \in Cmds, status'[k] \in {"SENT", "TIMEOUT"}
             PROVE  link'[k] \in ReturnedNil
  BY DEF SentReturnedNil
<1>1. CASE Kept(k) \/ Expired(k)
  BY <1>1, MessageStays DEF Kept, Expired, CommandInv, SentReturnedNil
<1>2. CASE Marked(k)
  BY <1>2, MarkedReturnedNil DEF Marked
<1>3. ~Resolved(k)
  BY ResolvedHeld DEF Resolved, CommandInv, Answered, Completed
<1> QED
  BY <1>1, <1>2, <1>3, RowMoves DEF Born, Removed

\* A command is in one pair of hands at a time, in every state.
LEMMA CommandInvariant == Spec => []CommandInv
<1>1. Init => CommandInv
  <2> SUFFICES ASSUME Init PROVE CommandInv
    OBVIOUS
  <2>1. \A q \in Requests : logs[q] = <<>> /\ Len(logs[q]) = 0 /\ reqAt[q] = "idle"
    BY DEF Init
  <2>2. \A q \in Requests, k \in Cmds : ~InLogs(q, k)
    BY <2>1 DEF InLogs
  <2>3. ListedOnce /\ Undispatched
    BY <2>1, <2>2 DEF ListedOnce, Undispatched
  <2>4. Unborn /\ Answered /\ OutcomeReported /\ SentReturnedNil
    BY <2>2 DEF Init, Unborn, Answered, OutcomeReported, SentReturnedNil, Completed
  <2>5. HeldByOne
    BY NoneIsNoCommand DEF Init, HeldByOne
  <2> QED
    BY <2>3, <2>4, <2>5 DEF CommandInv
<1>2. TypeOK /\ CommandInv /\ [Next]_vars => CommandInv'
  <2> SUFFICES ASSUME TypeOK, CommandInv, [Next]_vars PROVE CommandInv'
    OBVIOUS
  <2> QED
    BY UnbornStep, ListedOnceStep, UndispatchedStep, AnsweredStep, HeldByOneStep, OutcomeStep,
       SentStep DEF CommandInv
<1> QED
  BY <1>1, <1>2, TypeCorrect, PTL DEF Spec

\* A row that says SUCCESS or FAILED says what the device answered, however the
\* answer, the timeout, MarkSent and the deletion of the device were ordered.
THEOREM OutcomesReported == Spec => []OutcomeReported
  BY CommandInvariant, PTL DEF CommandInv

\* A row says SENT, or TIMEOUT, only if SendToDevice returned nil for its command,
\* whatever became of the other rows of a bulk request; the message may have been
\* dropped at a full channel, and then was never sent to the device.
THEOREM SentOnlyOnNil == Spec => []SentReturnedNil
  BY CommandInvariant, PTL DEF CommandInv

\* Once the request that sent it is past MarkSent, a command keeps its result: no
\* timeout and no other read loop takes it away; only its device's deletion does.
THEOREM ResultsStayAlways == Spec => ResultsStay
<1>1. ASSUME TypeOK, CommandInv, [Next]_vars, NEW k \in Cmds, status[k] \in Completed, ~MarkingCmd(k)
      PROVE  status'[k] \in {status[k], "deleted"}
  <2>1. ~Marked(k)
    BY <1>1, MarkedReturnedNil DEF Marked, MarkingCmd
  <2>2. ~Resolved(k)
    <3>1. ASSUME NEW r \in Readers, UpdateStatus(r), k = rdCmd[r] PROVE FALSE
      BY <1>1, <3>1 DEF CommandInv, HeldByOne
    <3> QED
      BY <3>1 DEF Resolved
  <2> QED
    BY <1>1, <2>1, <2>2, RowMoves DEF Kept, Born, Expired, Removed, Completed
<1>2. TypeOK /\ CommandInv /\ [Next]_vars =>
        [\A k \in Cmds : status[k] \in Completed /\ ~MarkingCmd(k) =>
           status'[k] \in {status[k], "deleted"}]_vars
  BY <1>1
<1> QED
  BY <1>2, TypeCorrect, CommandInvariant, PTL DEF Spec, ResultsStay

-----------------------------------------------------------------------------
(* Rows and devices, screenshots and files, pending rows and their reasons. *)

\* A device's row goes only by its deletion.
LEMMA DeviceMoves ==
  ASSUME TypeOK, [Next]_vars, NEW d \in Devices PROVE exists'[d] = exists[d] \/ DeleteDevice(d)
<1> DEFINE Goal == exists'[d] = exists[d] \/ DeleteDevice(d)
<1>1. ASSUME UNCHANGED exists PROVE Goal
  BY <1>1
<1>2. ASSUME NEW e \in Devices, DeleteDevice(e) PROVE Goal
  BY <1>2, TypeParts DEF DeleteDevice, WorldType
<1>3. CASE UNCHANGED vars
  BY <1>1, <1>3 DEF vars
<1>4. CASE Next
  <2> HIDE DEF Goal
  <2>1. ASSUME NEW q \in Requests, \/ \E e \in Devices : SendCommand(q, e) \/ Create(q, e)
                                   \/ BulkSendCommand(q) \/ AllCreated(q) \/ Respond(q)
                                   \/ Dispatch(q) \/ MarkSent(q)
        PROVE  Goal
    BY <1>1, <2>1 DEF SendCommand, BulkSendCommand, Begin, Create, AllCreated, Respond, Dispatch,
                      MarkSent
  <2>2. ASSUME NEW r \in Readers, ReadLoop(r) PROVE Goal
    BY <1>1, <2>2 DEF ReadLoop, FetchCommand, OpenImage, WriteImage, UpdateStatus
  <2>3. ASSUME NEW k \in Cmds, Receive(k) \/ Answer(k) \/ RowAges(k) PROVE Goal
    BY <1>1, <2>3 DEF Receive, Answer, RowAges
  <2>4. ASSUME NEW e \in Devices, Disconnect(e) PROVE Goal
    BY <1>1, <2>4 DEF Disconnect
  <2>5. ASSUME MarkTimeouts \/ Crash PROVE Goal
    BY <1>1, <2>5 DEF MarkTimeouts, Crash
  <2> QED
    BY <1>2, <1>4, <2>1, <2>2, <2>3, <2>4, <2>5, NextKinds DEF Request, Goal
<1> QED
  BY <1>3, <1>4

\* No row outlives its device: the insert of a request and the late update of a
\* read loop meet the deletion in any order.
THEOREM RowsSound == Spec => []RowsHaveDevice
<1>1. Init => RowsHaveDevice
  BY DEF Init, RowsHaveDevice, Stored
<1>2. TypeOK /\ RowsHaveDevice /\ [Next]_vars => RowsHaveDevice'
  <2> SUFFICES ASSUME TypeOK, RowsHaveDevice, [Next]_vars, NEW k \in Cmds, status'[k] \in Stored
               PROVE  exists'[cmdDev'[k]]
    BY DEF RowsHaveDevice
  <2> RowType
    BY TypeParts
  <2>1. CASE Born(k)
    BY <2>1 DEF Born, Create
  <2>2. CASE ~Born(k)
    <3>1. cmdDev'[k] = cmdDev[k] /\ status[k] \in Stored /\ status[k] # "none"
      BY <2>2, RowMoves DEF Kept, Marked, Resolved, Expired, Removed, Stored
    <3>2. exists[cmdDev[k]] /\ cmdDev[k] \in Devices
      BY <3>1 DEF RowsHaveDevice, RowType
    <3>3. ~DeleteDevice(cmdDev[k])
      BY DEF DeleteDevice, Stored
    <3> QED
      BY <3>1, <3>2, <3>3, DeviceMoves
  <2> QED
    BY <2>1, <2>2
<1> QED
  BY <1>1, <1>2, TypeCorrect, PTL DEF Spec

\* A created row keeps its device.
LEMMA DeviceKept ==
  ASSUME TypeOK, CommandInv, [Next]_vars, NEW k \in Cmds, status[k] # "none"
  PROVE  cmdDev'[k] = cmdDev[k] /\ cmdDev[k] \in Devices
  BY TypeParts, RowMoves DEF RowType, Kept, Born, Marked, Resolved, Expired, Removed

Saving == {"saving", "writing"}

\* A row says that its screenshot was saved, or a read loop is about to write that.
Noted(k) == \/ result[k] = "SCREENSHOT_SAVED"
            \/ \E r \in Readers : rdCmd[r] = k /\ rdMark[r] = "SCREENSHOT_SAVED"

\* A read loop with an image holds an answered screenshot, and has not noted it yet.
ImageHeld ==
  \A r \in Readers : rdAt[r] \in Saving =>
    rdCmd[r] \in Screenshots /\ outcome[rdCmd[r]] = "SUCCESS" /\ rdMark[r] = "data"

\* A row has a result only after its answer was read, and then no read loop holds it.
ResultLast ==
  \A k \in Cmds : result[k] # "none" => link[k] = "read" /\ \A r \in Readers : rdCmd[r] # k

\* The file a read loop writes is as it opened it, or there was another to write it.
OpenedOrShared ==
  \A r \in Readers : rdAt[r] = "writing" =>
    shot[cmdDev[rdCmd[r]]] = "begun" \/ \E j \in Cmds : Rival(j, rdCmd[r])

\* What ScreenshotBacked says, of what read loops are about to write as well.
NotedBacked ==
  \A k \in Cmds : Noted(k) =>
    \/ shot[cmdDev[k]] \in Cmds
    \/ \E j \in Cmds : Rival(j, k) /\ (Noted(j) => shot[cmdDev[k]] = "mixed")

SaveInv == ImageHeld /\ ResultLast /\ OpenedOrShared /\ NotedBacked

\* A read loop with an image got it by reading an answer, or had it and keeps it; it
\* writes only what it opened.
LEMMA SavingMoves ==
  ASSUME TypeOK, CommandInv, [Next]_vars, NEW r \in Readers, rdAt'[r] \in Saving
  PROVE  \/ /\ rdAt[r] \in Saving /\ UNCHANGED <<rdCmd[r], rdMark[r]>>
            /\ rdAt'[r] = "writing" => rdAt[r] = "writing" \/ OpenImage(r)
         \/ \E k \in Cmds : /\ FetchCommand(r, k) /\ rdAt'[r] = "saving" /\ rdCmd'[r] = k
                            /\ k \in Screenshots /\ outcome'[k] = "SUCCESS" /\ rdMark'[r] = "data"
<1> DEFINE Goal ==
      \/ /\ rdAt[r] \in Saving /\ UNCHANGED <<rdCmd[r], rdMark[r]>>
         /\ rdAt'[r] = "writing" => rdAt[r] = "writing" \/ OpenImage(r)
      \/ \E k \in Cmds : /\ FetchCommand(r, k) /\ rdAt'[r] = "saving" /\ rdCmd'[r] = k
                         /\ k \in Screenshots /\ outcome'[k] = "SUCCESS" /\ rdMark'[r] = "data"
<1> SUFFICES Goal
  OBVIOUS
<1> ReaderType
  BY TypeParts
<1>1. ASSUME UNCHANGED rdVars PROVE Goal
  BY <1>1 DEF rdVars, Saving
<1>2. ASSUME NEW s \in Readers, NEW k \in Cmds, FetchCommand(s, k) PROVE Goal
  <2>1. CASE UNCHANGED rdVars
    BY <1>1, <2>1
  <2>2. CASE ~UNCHANGED rdVars
    <3>1. /\ rdAt' = [rdAt EXCEPT ![s] = IF k \in Screenshots /\ outcome[k] = "SUCCESS"
                                         THEN "saving" ELSE "updating"]
          /\ rdCmd' = [rdCmd EXCEPT ![s] = k] /\ rdMark' = [rdMark EXCEPT ![s] = "data"]
          /\ UNCHANGED outcome
      BY <1>2, <2>2 DEF FetchCommand
    <3>2. CASE s = r
      BY <1>2, <3>1, <3>2 DEF ReaderType, Saving
    <3>3. CASE s # r
      BY <3>1, <3>3 DEF ReaderType, Saving
    <3> QED
      BY <3>2, <3>3
  <2> QED
    BY <2>1, <2>2
<1>3. ASSUME NEW s \in Readers, OpenImage(s) PROVE Goal
  <2>1. CASE s = r
    BY <1>3, <2>1 DEF OpenImage, ReaderType, Saving
  <2>2. CASE s # r
    BY <1>3, <2>2 DEF OpenImage, ReaderType, Saving
  <2> QED
    BY <2>1, <2>2
<1>4. ASSUME NEW s \in Readers, WriteImage(s) PROVE Goal
  <2>1. /\ rdAt' = [rdAt EXCEPT ![s] = "updating"] /\ UNCHANGED rdCmd
        /\ rdMark' = [rdMark EXCEPT ![s] = "SCREENSHOT_SAVED"] \/ UNCHANGED rdMark
    BY <1>4 DEF WriteImage
  <2> QED
    BY <2>1 DEF ReaderType, Saving
<1>5. ASSUME NEW s \in Readers, UpdateStatus(s) PROVE Goal
  <2>1. /\ rdAt' = [rdAt EXCEPT ![s] = "idle"] /\ rdCmd' = [rdCmd EXCEPT ![s] = None]
        /\ rdMark' = [rdMark EXCEPT ![s] = "none"]
    BY <1>5 DEF UpdateStatus
  <2> QED
    BY <2>1 DEF ReaderType, Saving
<1>6. ~Crash
  BY DEF Crash, Saving
<1>7. CASE UNCHANGED vars
  BY <1>1, <1>7 DEF vars
<1>8. CASE Next
  <2> HIDE DEF Goal
  <2>1. ASSUME NEW q \in Requests, \/ \E d \in Devices : SendCommand(q, d) \/ Create(q, d)
                                   \/ BulkSendCommand(q) \/ AllCreated(q) \/ Respond(q)
                                   \/ Dispatch(q) \/ MarkSent(q)
        PROVE  Goal
    BY <1>1, <2>1 DEF SendCommand, BulkSendCommand, Begin, Create, AllCreated, Respond, Dispatch,
                      MarkSent
  <2>2. ASSUME NEW k \in Cmds, Receive(k) \/ Answer(k) \/ RowAges(k) PROVE Goal
    BY <1>1, <2>2 DEF Receive, Answer, RowAges
  <2>3. ASSUME NEW d \in Devices, Disconnect(d) \/ DeleteDevice(d) PROVE Goal
    BY <1>1, <2>3 DEF Disconnect, DeleteDevice
  <2>4. ASSUME MarkTimeouts PROVE Goal
    BY <1>1, <2>4 DEF MarkTimeouts
  <2> QED
    BY <1>2, <1>3, <1>4, <1>5, <1>6, <1>8, <2>1, <2>2, <2>3, <2>4, NextKinds
       DEF Request, ReadLoop
<1> QED
  BY <1>7, <1>8

\* A screenshot is noted by the read loop that has just written it.
LEMMA NotedMoves ==
  ASSUME TypeOK, CommandInv, [Next]_vars, NEW k \in Cmds, Noted(k)'
  PROVE  Noted(k) \/ \E r \in Readers : Saved(r) /\ rdCmd[r] = k
<1>1. CASE result'[k] = "SCREENSHOT_SAVED"
  <2>1. CASE Resolved(k)
    BY <1>1, <2>1 DEF Resolved, Noted
  <2>2. CASE ~Resolved(k)
    <3>1. result'[k] = result[k]
      BY <2>2, RowMoves DEF Kept, Born, Marked, Expired, Removed
    <3> QED
      BY <1>1, <3>1 DEF Noted
  <2> QED
    BY <2>1, <2>2
<1>2. ASSUME NEW r \in Readers, rdCmd'[r] = k, rdMark'[r] = "SCREENSHOT_SAVED"
      PROVE  Noted(k) \/ \E s \in Readers : Saved(s) /\ rdCmd[s] = k
  <2>1. ~Took(r) /\ ~Freed(r)
    BY <1>2 DEF Took, Freed
  <2> QED
    BY <1>2, <2>1, ReaderMoves DEF HoldKept, Saved, Noted
<1> QED
  BY <1>1, <1>2 DEF Noted

\* The row of a noted screenshot exists.
LEMMA NotedBorn ==
  ASSUME TypeOK, CommandInv, [Next]_vars, NEW k \in Cmds, Noted(k)'
  PROVE  status[k] # "none" /\ cmdDev'[k] = cmdDev[k] /\ cmdDev[k] \in Devices
<1>1. status[k] # "none"
  BY NotedMoves DEF Noted, CommandInv, Unborn, HeldByOne
<1> QED
  BY <1>1, DeviceKept

\* A rival remains one.
LEMMA RivalStays ==
  ASSUME TypeOK, CommandInv, [Next]_vars, NEW j \in Cmds, NEW k \in Cmds, Rival(j, k),
         status[k] # "none"
  PROVE  Rival(j, k)'
<1>1. status[j] # "none"
  BY DEF Rival, CommandInv, Unborn
<1> QED
  BY <1>1, DeviceKept, MessageStays DEF Rival

\* Two read loops with images of one device hold rivals.
LEMMA SavingRivals ==
  ASSUME TypeOK, CommandInv, ImageHeld, NEW r \in Readers, NEW s \in Readers, r # s,
         rdAt[r] \in Saving, rdAt[s] \in Saving, cmdDev[rdCmd[r]] = cmdDev[rdCmd[s]]
  PROVE  rdCmd[s] \in Cmds /\ Rival(rdCmd[s], rdCmd[r])
<1>1. rdCmd[r] \in Cmds /\ rdCmd[s] \in Cmds
  BY TypeParts DEF ReaderType, Saving
<1>2. rdCmd[r] # rdCmd[s]
  BY <1>1, NoneIsNoCommand DEF CommandInv, HeldByOne
<1> QED
  BY <1>1, <1>2 DEF CommandInv, HeldByOne, ImageHeld, Rival

FileKept(d)    == shot'[d] = shot[d] /\ \A r \in Readers : Saved(r) => cmdDev[rdCmd[r]] # d
Spoiled(r, d)  == /\ rdAt[r] \in Saving /\ cmdDev[rdCmd[r]] = d
                  /\ rdAt[r] = "writing" => rdAt'[r] # "writing"
                  /\ shot'[d] \in {"begun", "mixed"} /\ UNCHANGED result
                  /\ \A s \in Readers : /\ rdCmd'[s] \in {rdCmd[s], None}
                                        /\ rdMark'[s] \in {rdMark[s], "none"}
Written(r, d)  == /\ Saved(r) /\ cmdDev[rdCmd[r]] = d
                  /\ shot'[d] = rdCmd[r] \/ (shot'[d] = "mixed" /\ shot[d] # "begun")

\* A step leaves the file of a device alone, or it is a step of a read loop that has an
\* image of the device: it spoils the file and notes nothing, or it writes the file.
LEMMA FileMoves ==
  ASSUME TypeOK, [Next]_vars, NEW d \in Devices
  PROVE  FileKept(d) \/ \E r \in Readers : Spoiled(r, d) \/ Written(r, d)
<1> DEFINE Goal == FileKept(d) \/ \E r \in Readers : Spoiled(r, d) \/ Written(r, d)
<1> ReaderType /\ WorldType
  BY TypeParts
<1>1. ASSUME UNCHANGED shot, \A r \in Readers : ~Saved(r) PROVE Goal
  BY <1>1 DEF FileKept
<1>2. ASSUME NEW r \in Readers, OpenImage(r) PROVE Goal
  <2>1. \A s \in Readers : ~Saved(s)
    BY <1>2 DEF OpenImage, Saved, ReaderType
  <2>2. CASE UNCHANGED shot
    BY <1>1, <2>1, <2>2
  <2>3. CASE ~UNCHANGED shot
    <3>1. /\ rdAt[r] = "saving" /\ UNCHANGED <<rdCmd, rdMark, result>>
          /\ shot' \in {[shot EXCEPT ![cmdDev[rdCmd[r]]] = f] : f \in {"begun", "mixed"}}
      BY <1>2, <2>3 DEF OpenImage, rowVars
    <3>2. CASE cmdDev[rdCmd[r]] = d
      BY <3>1, <3>2 DEF Spoiled, Saving, WorldType
    <3>3. CASE cmdDev[rdCmd[r]] # d
      BY <2>1, <3>1, <3>3 DEF FileKept, WorldType
    <3> QED
      BY <3>2, <3>3
  <2> QED
    BY <2>2, <2>3
<1>3. ASSUME NEW r \in Readers, WriteImage(r) PROVE Goal
  <2>1. /\ rdAt[r] = "writing" /\ rdAt' = [rdAt EXCEPT ![r] = "updating"]
        /\ UNCHANGED <<rdCmd, result>>
    BY <1>3 DEF WriteImage, rowVars
  <2>2. \A s \in Readers : s # r => ~Saved(s)
    BY <2>1 DEF Saved, ReaderType
  <2>3. \A e \in Devices : e # cmdDev[rdCmd[r]] => shot'[e] = shot[e]
    BY <1>3 DEF WriteImage, WorldType
  <2>4. CASE cmdDev[rdCmd[r]] # d
    BY <2>2, <2>3, <2>4 DEF FileKept
  <2>5. CASE cmdDev[rdCmd[r]] = d
    <3>1. \/ /\ shot'[d] = rdCmd[r] \/ (shot'[d] = "mixed" /\ shot[d] # "begun")
             /\ rdMark' = [rdMark EXCEPT ![r] = "SCREENSHOT_SAVED"]
          \/ shot'[d] \in {"begun", "mixed"} /\ UNCHANGED rdMark
      BY <1>3, <2>5 DEF WriteImage, WorldType
    <3>2. CASE UNCHANGED rdMark /\ shot'[d] \in {"begun", "mixed"}
      BY <2>1, <2>5, <3>2 DEF Spoiled, Saving, ReaderType
    <3>3. ASSUME rdMark' = [rdMark EXCEPT ![r] = "SCREENSHOT_SAVED"],
                 shot'[d] = rdCmd[r] \/ (shot'[d] = "mixed" /\ shot[d] # "begun")
          PROVE  Goal
      <4>1. Saved(r)
        BY <1>3, <2>1, <3>3 DEF Saved, WriteImage, ReaderType
      <4> QED
        BY <2>5, <3>3, <4>1 DEF Written
    <3> QED
      BY <3>1, <3>2, <3>3
  <2> QED
    BY <2>4, <2>5
<1>4. CASE Crash
  <2>1. \A r \in Readers : rdAt'[r] = "idle" /\ rdCmd'[r] = None /\ rdMark'[r] = "none"
    BY <1>4 DEF Crash
  <2>2. shot'[d] = IF \E r \in Readers : Writes(r, d) THEN "mixed" ELSE shot[d]
    BY <1>4 DEF Crash
  <2>3. CASE \E r \in Readers : Writes(r, d)
    <3>1. PICK r \in Readers : Writes(r, d)
      BY <2>3
    <3>2. Spoiled(r, d)
      BY <1>4, <2>1, <2>2, <3>1 DEF Crash, Spoiled, Writes, Saving, rowVars
    <3> QED
      BY <3>2
  <2>4. CASE ~\E r \in Readers : Writes(r, d)
    BY <2>1, <2>2, <2>4 DEF FileKept, Saved
  <2> QED
    BY <2>3, <2>4
<1>5. CASE UNCHANGED vars
  BY <1>1, <1>5 DEF vars, rdVars, Saved
<1>6. CASE Next
  <2>0. ASSUME UNCHANGED <<shot, rdVars>> PROVE Goal
    BY <1>1, <2>0 DEF Saved, rdVars
  <2> HIDE DEF Goal
  <2>1. ASSUME NEW q \in Requests, \/ \E e \in Devices : SendCommand(q, e) \/ Create(q, e)
                                   \/ BulkSendCommand(q) \/ AllCreated(q) \/ Respond(q)
                                   \/ Dispatch(q) \/ MarkSent(q)
        PROVE  Goal
    BY <2>0, <2>1 DEF SendCommand, BulkSendCommand, Begin, Create, AllCreated, Respond, Dispatch,
                      MarkSent
  <2>2. ASSUME NEW r \in Readers, NEW k \in Cmds, FetchCommand(r, k) PROVE Goal
    <3>1. \A s \in Readers : ~Saved(s)
      BY <2>2 DEF FetchCommand, Saved, ReaderType, rdVars
    <3> QED
      BY <1>1, <2>2, <3>1 DEF FetchCommand
  <2>3. ASSUME NEW r \in Readers, UpdateStatus(r) PROVE Goal
    <3>1. \A s \in Readers : ~Saved(s)
      BY <2>3 DEF UpdateStatus, Saved, ReaderType
    <3> QED
      BY <1>1, <2>3, <3>1 DEF UpdateStatus
  <2>4. ASSUME NEW k \in Cmds, Receive(k) \/ Answer(k) \/ RowAges(k) PROVE Goal
    BY <2>0, <2>4 DEF Receive, Answer, RowAges
  <2>5. ASSUME NEW e \in Devices, Disconnect(e) \/ DeleteDevice(e) PROVE Goal
    BY <2>0, <2>5 DEF Disconnect, DeleteDevice
  <2>6. ASSUME MarkTimeouts PROVE Goal
    BY <2>0, <2>6 DEF MarkTimeouts
  <2> QED
    BY <1>2, <1>3, <1>4, <1>6, <2>1, <2>2, <2>3, <2>4, <2>5, <2>6, NextKinds
       DEF Request, ReadLoop, Goal
<1> QED
  BY <1>5, <1>6

\* A read loop takes images of answered screenshots only.
LEMMA ImageHeldStep == ASSUME TypeOK, CommandInv, ImageHeld, [Next]_vars PROVE ImageHeld'
<1> SUFFICES ASSUME NEW r \in Readers, rdAt'[r] \in Saving
             PROVE  /\ rdCmd'[r] \in Screenshots /\ outcome'[rdCmd'[r]] = "SUCCESS"
                    /\ rdMark'[r] = "data"
  BY DEF ImageHeld, Saving
<1>1. CASE rdAt[r] \in Saving /\ UNCHANGED <<rdCmd[r], rdMark[r]>>
  <2>1. PICK k \in Cmds : k = rdCmd[r]
    BY <1>1, TypeParts DEF ReaderType, Saving
  <2>2. link[k] = "read"
    BY <2>1 DEF CommandInv, HeldByOne
  <2>3. outcome'[k] = outcome[k]
    BY <2>2, MessageStays
  <2> QED
    BY <1>1, <2>1, <2>3 DEF ImageHeld
<1> QED
  BY <1>1, SavingMoves

\* The read loop that writes a result is the only one that had the command.
LEMMA ResultLastStep == ASSUME TypeOK, CommandInv, ResultLast, [Next]_vars PROVE ResultLast'
<1> ReaderType /\ None \notin Cmds
  BY TypeParts, NoneIsNoCommand
<1> SUFFICES ASSUME NEW k \in Cmds, result'[k] # "none"
             PROVE  link'[k] = "read" /\ \A r \in Readers : rdCmd'[r] # k
  BY DEF ResultLast
<1>1. CASE Resolved(k)
  <2>1. PICK r \in Readers : UpdateStatus(r) /\ k = rdCmd[r]
    BY <1>1 DEF Resolved
  <2>2. link[k] = "read" /\ link' = link /\ rdCmd'[r] = None
    BY <2>1, ResolvedHeld
  <2>3. \A s \in Readers : s # r => rdCmd'[s] = rdCmd[s]
    BY <2>1 DEF UpdateStatus, ReaderType
  <2>4. \A s \in Readers : s # r => rdCmd[s] # k
    BY <2>1 DEF CommandInv, HeldByOne
  <2> QED
    BY <2>2, <2>3, <2>4
<1>2. CASE ~Resolved(k)
  <2>1. result'[k] = result[k]
    BY <1>2, RowMoves DEF Kept, Born, Marked, Expired, Removed
  <2>2. link[k] = "read" /\ \A r \in Readers : rdCmd[r] # k
    BY <2>1 DEF ResultLast
  <2>3. ASSUME NEW r \in Readers, rdCmd'[r] = k PROVE FALSE
    <3>1. Took(r)
      BY <2>2, <2>3, ReaderMoves DEF HoldKept, Saved, Freed
    <3>2. PICK j \in Cmds : link[j] = "answered" /\ rdCmd' = [rdCmd EXCEPT ![r] = j]
      BY <3>1 DEF Took
    <3>3. j = k
      BY <2>3, <3>2 DEF ReaderType
    <3> QED
      BY <2>2, <3>2, <3>3
  <2> QED
    BY <2>2, <2>3, MessageStays
<1> QED
  BY <1>1, <1>2

\* A file that was opened is changed before it is written only by a rival.
LEMMA OpenedOrSharedStep ==
  ASSUME TypeOK, CommandInv, ImageHeld, OpenedOrShared, [Next]_vars PROVE OpenedOrShared'
<1> SUFFICES ASSUME NEW r \in Readers, rdAt'[r] = "writing"
             PROVE  \/ shot'[cmdDev'[rdCmd'[r]]] = "begun"
                    \/ \E j \in Cmds : Rival(j, rdCmd[r])' /\ rdCmd'[r] = rdCmd[r]
  BY DEF OpenedOrShared, Rival
<1>1. /\ rdAt[r] \in Saving /\ rdCmd'[r] = rdCmd[r]
      /\ rdAt[r] = "writing" \/ OpenImage(r)
  BY SavingMoves DEF Saving
<1>2. PICK k \in Cmds : k = rdCmd[r]
  BY <1>1, TypeParts DEF ReaderType, Saving
<1>3. status[k] # "none"
  BY <1>2 DEF CommandInv, HeldByOne
<1>4. PICK d \in Devices : d = cmdDev[k] /\ d = cmdDev'[k]
  BY <1>3, DeviceKept
<1>5. ASSUME NEW j \in Cmds, Rival(j, k)
      PROVE  \E i \in Cmds : Rival(i, k)'
  BY <1>3, <1>5, RivalStays
<1>6. ASSUME NEW s \in Readers, s # r, rdAt[s] \in Saving, cmdDev[rdCmd[s]] = d
      PROVE  \E j \in Cmds : Rival(j, k)
  BY <1>1, <1>2, <1>4, <1>6, SavingRivals
<1>7. shot'[d] = "begun" \/ \E j \in Cmds : Rival(j, k)
  <2>1. CASE OpenImage(r)
    <3>1. \/ shot'[d] = "begun"
          \/ \E o \in Readers : Writes(o, d) /\ o # r
      BY <1>2, <1>4, <2>1, TypeParts DEF OpenImage, Writes, WorldType, ReaderType
    <3> QED
      BY <1>6, <3>1 DEF Writes, Saving
  <2>2. CASE rdAt[r] = "writing"
    <3>1. shot[d] = "begun" \/ \E j \in Cmds : Rival(j, k)
      BY <1>2, <1>4, <2>2 DEF OpenedOrShared
    <3>2. CASE FileKept(d)
      BY <3>1, <3>2 DEF FileKept
    <3>3. ASSUME NEW s \in Readers, Spoiled(s, d) \/ Written(s, d)
          PROVE  \E j \in Cmds : Rival(j, k)
      <4>1. s # r
        BY <2>2, <3>3 DEF Spoiled, Written, Saved
      <4>2. rdAt[s] \in Saving /\ cmdDev[rdCmd[s]] = d
        BY <3>3 DEF Spoiled, Written, Saved, Saving
      <4> QED
        BY <1>6, <4>1, <4>2
    <3> QED
      BY <3>2, <3>3, FileMoves
  <2> QED
    BY <1>1, <2>1, <2>2
<1> QED
  BY <1>1, <1>2, <1>4, <1>5, <1>7

\* Who notes a screenshot has written the whole file, or shared it; who spoils the file
\* after that is a rival.
LEMMA NotedBackedStep ==
  ASSUME TypeOK, CommandInv, SaveInv, [Next]_vars PROVE NotedBacked'
<1> SUFFICES ASSUME NEW k \in Cmds, Noted(k)'
             PROVE  \/ shot'[cmdDev'[k]] \in Cmds
                    \/ \E j \in Cmds : Rival(j, k)' /\ (Noted(j)' => shot'[cmdDev'[k]] = "mixed")
  BY DEF NotedBacked
<1>1. status[k] # "none"
  BY NotedBorn
<1>2. PICK d \in Devices : d = cmdDev[k] /\ d = cmdDev'[k]
  BY NotedBorn
<1>3. CASE FileKept(d)
  <2>1. ASSUME NEW j \in Cmds, cmdDev[j] = d, Noted(j)' PROVE Noted(j)
    BY <1>3, <2>1, NotedMoves DEF FileKept
  <2>2. \/ shot[d] \in Cmds
        \/ \E j \in Cmds : Rival(j, k) /\ (Noted(j) => shot[d] = "mixed")
    BY <1>2, <2>1 DEF SaveInv, NotedBacked
  <2>3. ASSUME NEW j \in Cmds, Rival(j, k), Noted(j) => shot[d] = "mixed"
        PROVE  Rival(j, k)' /\ (Noted(j)' => shot'[d] = "mixed")
    <3>1. cmdDev[j] = d
      BY <1>2, <2>3 DEF Rival
    <3> QED
      BY <1>1, <1>3, <2>1, <2>3, <3>1, RivalStays DEF FileKept
  <2> QED
    BY <1>2, <1>3, <2>2, <2>3 DEF FileKept
<1>4. ASSUME NEW r \in Readers, Spoiled(r, d)
      PROVE  \E j \in Cmds : Rival(j, k)' /\ (Noted(j)' => shot'[d] = "mixed")
  <2>1. PICK c \in Cmds : c = rdCmd[r]
    BY <1>4, TypeParts DEF Spoiled, ReaderType, Saving
  <2>2. ~Noted(c)'
    <3>1. result'[c] = result[c] /\ result[c] = "none"
      BY <1>4, <2>1 DEF Spoiled, SaveInv, ResultLast
    <3>2. ASSUME NEW s \in Readers, rdCmd'[s] = c, rdMark'[s] = "SCREENSHOT_SAVED" PROVE FALSE
      <4>1. rdCmd[s] = c /\ rdMark[s] = "SCREENSHOT_SAVED"
        BY <1>4, <3>2, NoneIsNoCommand DEF Spoiled
      <4>2. s = r
        BY <2>1, <4>1, NoneIsNoCommand DEF CommandInv, HeldByOne
      <4> QED
        BY <1>4, <4>1, <4>2 DEF Spoiled, SaveInv, ImageHeld
    <3> QED
      BY <3>1, <3>2 DEF Noted
  <2>3. c # k
    BY <2>2
  <2>4. Rival(c, k)
    BY <1>2, <1>4, <2>1, <2>3 DEF Spoiled, Rival, SaveInv, ImageHeld, CommandInv, HeldByOne
  <2> QED
    BY <1>1, <2>2, <2>4, RivalStays
<1>5. ASSUME NEW r \in Readers, Written(r, d)
      PROVE  \/ shot'[d] \in Cmds
             \/ \E j \in Cmds : Rival(j, k)' /\ (Noted(j)' => shot'[d] = "mixed")
  <2>1. PICK c \in Cmds : c = rdCmd[r]
    BY <1>5, TypeParts DEF Written, Saved, ReaderType
  <2>2. CASE shot'[d] = c
    BY <2>2
  <2>3. CASE shot'[d] = "mixed" /\ shot[d] # "begun"
    <3>1. PICK j \in Cmds : Rival(j, k)
      <4>1. CASE c = k
        <5>1. rdAt[r] = "writing" /\ shot[cmdDev[rdCmd[r]]] # "begun"
          BY <1>5, <2>3 DEF Written, Saved
        <5> QED
          BY <2>1, <4>1, <5>1 DEF SaveInv, OpenedOrShared
      <4>2. CASE c # k
        <5>1. rdAt[r] \in Saving /\ cmdDev[c] = d
          BY <1>5, <2>1 DEF Written, Saved, Saving
        <5> QED
          BY <1>2, <2>1, <4>2, <5>1 DEF Rival, SaveInv, ImageHeld, CommandInv, HeldByOne
      <4> QED
        BY <4>1, <4>2
    <3> QED
      BY <1>1, <2>3, <3>1, RivalStays
  <2> QED
    BY <1>5, <2>1, <2>2, <2>3 DEF Written
<1> QED
  BY <1>2, <1>3, <1>4, <1>5, FileMoves

\* A row that says its screenshot was saved has a whole image of its device, unless
\* another image of the device is being saved, failed half way or was cut off by a
\* crash (its own row does not say it was saved), or was written at the same time.
THEOREM ScreenshotsBacked == Spec => []ScreenshotBacked
<1>1. Init => SaveInv
  <2> SUFFICES ASSUME Init PROVE SaveInv
    OBVIOUS
  <2>1. ImageHeld /\ ResultLast /\ OpenedOrShared
    BY DEF Init, ImageHeld, ResultLast, OpenedOrShared, Saving
  <2>2. \A k \in Cmds : ~Noted(k)
    BY DEF Init, Noted
  <2> QED
    BY <2>1, <2>2 DEF SaveInv, NotedBacked
<1>2. TypeOK /\ CommandInv /\ SaveInv /\ [Next]_vars => SaveInv'
  <2> SUFFICES ASSUME TypeOK, CommandInv, SaveInv, [Next]_vars PROVE SaveInv'
    OBVIOUS
  <2>1. ImageHeld' /\ ResultLast' /\ OpenedOrShared'
    BY ImageHeldStep, ResultLastStep, OpenedOrSharedStep DEF SaveInv
  <2> QED
    BY <2>1, NotedBackedStep DEF SaveInv
<1>3. SaveInv => ScreenshotBacked
  <2> SUFFICES ASSUME SaveInv, NEW k \in Cmds, result[k] = "SCREENSHOT_SAVED"
               PROVE  \/ shot[cmdDev[k]] \in Cmds
                      \/ \E j \in Cmds : /\ Rival(j, k)
                                         /\ result[j] = "SCREENSHOT_SAVED" => shot[cmdDev[k]] = "mixed"
    BY DEF ScreenshotBacked
  <2> QED
    BY DEF SaveInv, NotedBacked, Noted
<1> QED
  BY <1>1, <1>2, <1>3, TypeCorrect, CommandInvariant, PTL DEF Spec

\* A row that was cut off remains so.
LEMMA CutOffStays == ASSUME [Next]_vars PROVE cutOff \subseteq cutOff'
<1>1. CASE UNCHANGED vars
  BY <1>1 DEF vars
<1>2. CASE Next
  <2>1. ASSUME NEW q \in Requests, \/ \E d \in Devices : SendCommand(q, d)
                                   \/ BulkSendCommand(q) \/ AllCreated(q) \/ Respond(q)
                                   \/ Dispatch(q)
        PROVE  cutOff \subseteq cutOff'
    BY <2>1 DEF SendCommand, BulkSendCommand, Begin, AllCreated, Respond, Dispatch
  <2>2. ASSUME NEW q \in Requests, MarkSent(q) \/ \E d \in Devices : Create(q, d)
        PROVE  cutOff \subseteq cutOff'
    BY <2>2 DEF MarkSent, Create
  <2>3. ASSUME NEW r \in Readers, ReadLoop(r) PROVE cutOff \subseteq cutOff'
    BY <2>3 DEF ReadLoop, FetchCommand, OpenImage, WriteImage, UpdateStatus
  <2>4. ASSUME NEW k \in Cmds, Receive(k) \/ Answer(k) \/ RowAges(k) PROVE cutOff \subseteq cutOff'
    BY <2>4 DEF Receive, Answer, RowAges
  <2>5. ASSUME NEW d \in Devices, Disconnect(d) \/ DeleteDevice(d) PROVE cutOff \subseteq cutOff'
    BY <2>5 DEF Disconnect, DeleteDevice
  <2>6. ASSUME MarkTimeouts \/ Crash PROVE cutOff \subseteq cutOff'
    BY <2>6 DEF MarkTimeouts, Crash
  <2> QED
    BY <1>2, <2>1, <2>2, <2>3, <2>4, <2>5, <2>6, NextKinds DEF Request
<1> QED
  BY <1>1, <1>2

\* A row that no request is to dispatch any more is left PENDING for a reason of its
\* own: SendToDevice refused it, a statement on it failed, or its request died.  What
\* fails for one row of a bulk request makes it forget no other.
THEOREM PendingAlwaysExplained == Spec => []PendingExplained
<1>1. Init => PendingExplained
  BY DEF Init, PendingExplained
<1>2. TypeOK /\ CommandInv /\ PendingExplained /\ [Next]_vars => PendingExplained'
  <2> SUFFICES ASSUME TypeOK, CommandInv, PendingExplained, [Next]_vars, NEW k \in Cmds,
                      status'[k] = "PENDING", \A q \in Requests : ~InLogs(q, k)',
                      k \notin cutOff'
               PROVE  link'[k] = "refused"
    BY DEF PendingExplained
  <2> RequestType
    BY TypeParts
  <2>1. Kept(k) /\ status[k] = "PENDING"
    <3>1. ~Born(k)
      BY GrownMembers DEF Born
    <3>2. ~Resolved(k)
      BY ResolvedHeld DEF Resolved, CommandInv, Answered, Completed
    <3> QED
      BY <3>1, <3>2, RowMoves DEF Kept, Marked, Expired, Removed
  <2>2. CASE \A q \in Requests : ~InLogs(q, k)
    <3>1. link[k] = "refused" => link'[k] = "refused"
      BY HandledFresh, MessageMoves DEF MessageKept, Handled, Travelled, Replied, Fetched
    <3> QED
      BY <2>1, <2>2, <3>1, CutOffStays DEF PendingExplained
  <2>3. ASSUME NEW q \in Requests, InLogs(q, k)
        PROVE  link'[k] = "refused"
    <3>1. ~ListKept(q) /\ ~Handing(q)
      BY <2>3 DEF ListKept, Handing, InLogs
    <3>2. ~Grown(q)
      BY <2>3, GrownMembers DEF Grown
    <3>3. ~Died(q)
      BY <2>3 DEF Died, Crash
    <3>4. CASE Popped(q)
      <4>1. k = Head(logs[q])
        BY <2>3, <3>4, PoppedMembers DEF Popped, CommandInv
      <4>2. CASE Dispatch(q)
        <5>1. Reached(k, "refused")
          <6>1. reqAt' # [reqAt EXCEPT ![q] = "marking"]
            BY <3>4 DEF Popped, RequestType
          <6> QED
            BY <4>1, <4>2, <6>1 DEF Dispatch, Handed
        <5> QED
          BY <5>1, TypeParts DEF Reached, WorldType
      <4>3. ~MarkSent(q)
        <5>1. ASSUME MarkSent(q) PROVE FALSE
          <6>1. status' = [status EXCEPT ![k] = IF @ \in Stored THEN "SENT" ELSE @]
            BY <4>1, <5>1 DEF MarkSent
          <6> QED
            BY <2>1, <6>1, TypeParts DEF RowType, Kept, Stored
        <5> QED
          BY <5>1
      <4> QED
        BY <3>4, <4>2, <4>3 DEF Popped
    <3> QED
      BY <3>1, <3>2, <3>3, <3>4, ListMoves
  <2> QED
    BY <2>2, <2>3
<1> QED
  BY <1>1, <1>2, TypeCorrect, CommandInvariant, PTL DEF Spec

-----------------------------------------------------------------------------
(* Commands implements CommandLog. *)

\* The rows a request may still mark, and those whose answer may still be written:
\* what CommandLog calls open and awaited.
Open    == {k \in Cmds : \E q \in Requests : InLogs(q, k)}
Awaited == {k \in Cmds : link[k] # "read" \/ \E r \in Readers : rdCmd[r] = k}

\* No command is awaited again.
LEMMA AwaitedShrinks == ASSUME TypeOK, CommandInv, [Next]_vars PROVE Awaited' \subseteq Awaited
<1> ReaderType
  BY TypeParts
<1> SUFFICES ASSUME NEW k \in Cmds, link'[k] # "read" \/ \E r \in Readers : rdCmd'[r] = k
             PROVE  link[k] # "read" \/ \E r \in Readers : rdCmd[r] = k
  BY DEF Awaited
<1>1. CASE link'[k] # "read"
  BY <1>1, MessageStays
<1>2. ASSUME NEW r \in Readers, rdCmd'[r] = k
      PROVE  link[k] # "read" \/ \E s \in Readers : rdCmd[s] = k
  <2>1. CASE HoldKept(r) \/ Saved(r)
    BY <1>2, <2>1 DEF HoldKept, Saved
  <2>2. CASE Took(r)
    BY <1>2, <2>2 DEF Took, ReaderType
  <2>3. ~Freed(r)
    BY <1>2, NoneIsNoCommand DEF Freed
  <2> QED
    BY <2>1, <2>2, <2>3, ReaderMoves
<1> QED
  BY <1>1, <1>2

\* A row that is not created by the step is not opened by it.
LEMMA OpenShrinks ==
  ASSUME TypeOK, CommandInv, [Next]_vars, NEW k \in Cmds, k \in Open',
         ~(status[k] = "none" /\ status'[k] = "PENDING")
  PROVE  k \in Open
<1>1. PICK q \in Requests : InLogs(q, k)'
  BY DEF Open
<1>2. InLogs(q, k)
  BY <1>1, MemberMoves
<1> QED
  BY <1>2 DEF Open

\* A step that leaves the statuses alone gives up some rows, or none.
LEMMA NothingWritten ==
  ASSUME TypeOK, CommandInv, [Next]_vars, UNCHANGED status
  PROVE  Log!GiveUp
<1>1. Awaited' \in SUBSET Awaited
  BY AwaitedShrinks
<1>2. Open' \in SUBSET Open
  BY OpenShrinks DEF Open
<1> QED
  BY <1>1, <1>2 DEF Log!GiveUp, Open, Awaited

\* The INSERT of a request creates a row of the log, or does nothing to it.
LEMMA CreateImplements ==
  ASSUME TypeOK, CommandInv, NEW q \in Requests, NEW d \in Devices, Create(q, d)
  PROVE  (\E k \in Cmds : Log!Create(k)) \/ Log!GiveUp
<1>0. [Next]_vars /\ RequestType
  BY TypeParts DEF Next, Request
<1>1. CASE UNCHANGED status
  BY <1>0, <1>1, NothingWritten
<1>2. CASE ~UNCHANGED status
  <2>1. PICK k \in Cmds : /\ status[k] = "none"
                          /\ status' = [status EXCEPT ![k] = "PENDING"]
                          /\ logs' = [logs EXCEPT ![q] = Append(@, k)] \/ UNCHANGED logs
    BY <1>2 DEF Create, Insert, DbFault, rowVars
  <2>2. Open' \in {Open, Open \cup {k}}
    <3>1. CASE UNCHANGED logs
      BY <3>1 DEF Open, InLogs
    <3>2. CASE logs' = [logs EXCEPT ![q] = Append(@, k)]
      <4>1. \A p \in Requests, x \in Cmds : InLogs(p, x)' <=> InLogs(p, x) \/ (p = q /\ x = k)
        BY <1>0, <3>2, GrownMembers
      <4> HIDE <2>1, <3>2
      <4>2. ASSUME NEW x \in Cmds
            PROVE  (\E p \in Requests : InLogs(p, x)') <=> (\E p \in Requests : InLogs(p, x)) \/ x = k
        BY <4>1
      <4> QED
        BY <4>2 DEF Open
    <3> QED
      BY <2>1, <3>1, <3>2
  <2>3. Awaited' = Awaited
    BY DEF Create, Awaited, netVars, rdVars
  <2> QED
    BY <2>1, <2>2, <2>3 DEF Log!Create, Open, Awaited
<1> QED
  BY <1>1, <1>2

\* The UPDATE of a request marks a row it had open, and closes it.
LEMMA MarkSentImplements ==
  ASSUME TypeOK, CommandInv, NEW q \in Requests, MarkSent(q)
  PROVE  (\E k \in Cmds : Log!MarkSent(k)) \/ Log!GiveUp
<1>0. [Next]_vars /\ RequestType
  BY TypeParts DEF Next, Request
<1>1. CASE UNCHANGED status
  BY <1>0, <1>1, NothingWritten
<1>2. CASE ~UNCHANGED status
  <2> DEFINE k == Head(logs[q])
  <2>1. /\ k \in Cmds /\ InLogs(q, k) /\ logs[q] # <<>>
        /\ logs' = [logs EXCEPT ![q] = Tail(@)]
    BY MarkedReturnedNil
  <2>2. status' = [status EXCEPT ![k] = IF @ \in Stored THEN "SENT" ELSE @]
    BY <1>2 DEF MarkSent, DbFault, rowVars
  <2>3. PICK j \in Cmds : j = k
    BY <2>1
  <2>4. j \in Open
    BY <2>1, <2>3 DEF Open
  <2>5. Open' = Open \ {j}
    <3>1. \A p \in Requests, x \in Cmds :
            InLogs(p, x)' <=> InLogs(p, x) /\ ~(p = q /\ x = Head(logs[q]))
      BY <1>0, <2>1, PoppedMembers DEF CommandInv
    <3>2. \A p \in Requests : InLogs(p, j) => p = q
      BY <2>1, <2>3 DEF CommandInv, ListedOnce
    <3> HIDE <2>1
    <3>3. ASSUME NEW x \in Cmds
          PROVE  (\E p \in Requests : InLogs(p, x)') <=> (\E p \in Requests : InLogs(p, x)) /\ x # j
      BY <2>3, <3>1, <3>2
    <3> QED
      BY <3>3 DEF Open
  <2>6. Awaited' = Awaited
    BY DEF MarkSent, Awaited, netVars, rdVars
  <2>7. status' = [status EXCEPT ![j] = IF @ \in Log!Stored THEN "SENT" ELSE @]
    BY <2>2, <2>3 DEF Log!Stored, Stored
  <2> QED
    BY <2>4, <2>5, <2>6, <2>7 DEF Log!MarkSent, Open, Awaited
<1> QED
  BY <1>1, <1>2

\* The UPDATE of a read loop writes an answer that was awaited, for the last time.
LEMMA UpdateStatusImplements ==
  ASSUME TypeOK, CommandInv, NEW r \in Readers, UpdateStatus(r)
  PROVE  (\E k \in Cmds : Log!Answer(k)) \/ Log!GiveUp
<1>0. [Next]_vars /\ ReaderType
  BY TypeParts DEF Next, ReadLoop
<1>1. CASE UNCHANGED status
  BY <1>0, <1>1, NothingWritten
<1>2. CASE ~UNCHANGED status
  <2>1. PICK k \in Cmds : k = rdCmd[r]
    BY ResolvedHeld
  <2>2. status[k] \in Stored /\ status' = [status EXCEPT ![k] = outcome[k]]
    BY <1>2, <2>1 DEF UpdateStatus, DbFault, rowVars, Verdict
  <2>3. link[k] = "read" /\ UNCHANGED link /\ outcome[k] \in Completed
    BY <2>1, ResolvedHeld DEF CommandInv, Answered
  <2>4. rdCmd' = [rdCmd EXCEPT ![r] = None]
    BY DEF UpdateStatus
  <2>5. Awaited' = Awaited \ {k}
    <3>1. \A s \in Readers : rdCmd[s] = k => s = r
      BY <2>1, NoneIsNoCommand DEF CommandInv, HeldByOne
    <3>2. ASSUME NEW x \in Cmds
          PROVE  (\E s \in Readers : rdCmd'[s] = x) <=> (\E s \in Readers : rdCmd[s] = x) /\ x # k
      <4>1. \A s \in Readers : rdCmd'[s] = IF s = r THEN None ELSE rdCmd[s]
        BY <1>0, <2>4 DEF ReaderType
      <4>2. None # x
        BY NoneIsNoCommand
      <4>3. ASSUME NEW s \in Readers, rdCmd'[s] = x PROVE rdCmd[s] = x /\ x # k
        BY <3>1, <4>1, <4>2, <4>3
      <4>4. ASSUME NEW s \in Readers, rdCmd[s] = x, x # k PROVE rdCmd'[s] = x
        BY <2>1, <4>1, <4>4
      <4> QED
        BY <4>3, <4>4
    <3> QED
      BY <2>3, <3>2 DEF Awaited
  <2>6. k \in Awaited
    BY <2>1 DEF Awaited
  <2>7. Open' = Open
    BY DEF UpdateStatus, reqVars, Open, InLogs
  <2> QED
    BY <2>2, <2>3, <2>5, <2>6, <2>7
       DEF Log!Answer, Log!Stored, Log!Completed, Stored, Completed, Open, Awaited
<1> QED
  BY <1>1, <1>2

\* The worker expires rows that are SENT.
LEMMA MarkTimeoutsImplements ==
  ASSUME TypeOK, CommandInv, MarkTimeouts PROVE Log!Expire \/ Log!GiveUp
<1>0. [Next]_vars
  BY DEF Next
<1>1. CASE UNCHANGED status
  BY <1>0, <1>1, NothingWritten
<1>2. CASE ~UNCHANGED status
  <2> DEFINE K == {k \in Cmds : TimedOut(k)}
  <2>1. K \in SUBSET {k \in Cmds : status[k] = "SENT"}
    BY DEF TimedOut
  <2>2. status' = [k \in Cmds |-> IF k \in K THEN "TIMEOUT" ELSE status[k]]
    BY <1>2 DEF MarkTimeouts, DbFault, rowVars
  <2>3. Open' = Open /\ Awaited' = Awaited
    BY DEF MarkTimeouts, netVars, rdVars, reqVars, Open, Awaited, InLogs
  <2> HIDE DEF K
  <2> QED
    BY <2>1, <2>2, <2>3 DEF Log!Expire, Open, Awaited
<1> QED
  BY <1>1, <1>2

\* The deletion of a device removes its rows.
LEMMA DeleteDeviceImplements ==
  ASSUME TypeOK, CommandInv, NEW d \in Devices, DeleteDevice(d) PROVE Log!Remove
<1> DEFINE K == {k \in Cmds : cmdDev[k] = d /\ status[k] \in Stored}
<1>1. K \in SUBSET {k \in Cmds : status[k] \in Log!Stored}
  BY DEF Log!Stored, Stored
<1>2. status' = [k \in Cmds |-> IF cmdDev[k] = d THEN "deleted" ELSE status[k]]
  BY DEF DeleteDevice
<1>3. \A k \in Cmds : cmdDev[k] = d => status[k] \in Stored \/ status[k] = "deleted"
  BY TypeParts, NoneAssumption DEF RowType, States, CommandInv, Unborn
<1>4. status' = [k \in Cmds |-> IF k \in K THEN "deleted" ELSE status[k]]
  BY <1>2, <1>3
<1>5. Open' = Open /\ Awaited' = Awaited
  BY DEF DeleteDevice, netVars, rdVars, reqVars, Open, Awaited, InLogs
<1> HIDE DEF K
<1> QED
  BY <1>1, <1>4, <1>5 DEF Log!Remove, Open, Awaited

\* The rows live as CommandLog says: while requests, read loops, the worker and
\* deletions interleave, a row is marked sent once at most and answered once at
\* most, and nothing else takes a status away but the timeout of a SENT row and
\* the deletion of the device.
THEOREM RefinesCommandLog == Spec => ImplementsCommandLog
<1>1. Init => Log!Init
  <2> SUFFICES ASSUME Init PROVE Log!Init
    OBVIOUS
  <2>1. \A q \in Requests, k \in Cmds : ~InLogs(q, k)
    BY DEF Init, InLogs
  <2> QED
    BY <2>1 DEF Init, Log!Init
<1>2. TypeOK /\ CommandInv /\ [Next]_vars => [Log!Next]_(Log!vars)
  <2> SUFFICES ASSUME TypeOK, CommandInv, [Next]_vars PROVE Log!Next
    OBVIOUS
  <2>1. CASE UNCHANGED status
    BY <2>1, NothingWritten DEF Log!Next
  <2>2. ASSUME NEW q \in Requests, NEW d \in Devices, Create(q, d) PROVE Log!Next
    BY <2>2, CreateImplements DEF Log!Next
  <2>3. ASSUME NEW q \in Requests, MarkSent(q) PROVE Log!Next
    BY <2>3, MarkSentImplements DEF Log!Next
  <2>4. ASSUME NEW r \in Readers, UpdateStatus(r) PROVE Log!Next
    BY <2>4, UpdateStatusImplements DEF Log!Next
  <2>5. CASE MarkTimeouts
    BY <2>5, MarkTimeoutsImplements DEF Log!Next
  <2>6. ASSUME NEW d \in Devices, DeleteDevice(d) PROVE Log!Next
    BY <2>6, DeleteDeviceImplements DEF Log!Next
  <2>7. CASE ~UNCHANGED status
    <3>1. PICK k \in Cmds : status'[k] # status[k]
      <4>1. status \in [Cmds -> States] /\ status' \in [Cmds -> States]
        BY TypeParts, TypePartsPrimed, TypeInductive DEF RowType
      <4>2. status = [k \in Cmds |-> status[k]] /\ status' = [k \in Cmds |-> status'[k]]
        BY <4>1
      <4> QED
        BY <2>7, <4>2
    <3>2. Born(k) \/ Marked(k) \/ Resolved(k) \/ Expired(k) \/ Removed(k)
      BY <3>1, RowMoves DEF Kept
    <3> QED
      BY <2>2, <2>3, <2>4, <2>5, <2>6, <3>2 DEF Born, Marked, Resolved, Expired, Removed
  <2> QED
    BY <2>1, <2>7
<1> QED
  BY <1>1, <1>2, TypeCorrect, CommandInvariant, PTL DEF Spec, ImplementsCommandLog, Log!Spec

=============================================================================
