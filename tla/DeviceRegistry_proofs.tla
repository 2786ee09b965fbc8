------------------------ MODULE DeviceRegistry_proofs ------------------------
(***************************************************************************)
(* Proofs about DeviceRegistry, for every number of devices, groups,       *)
(* names, connections, fields and messages.                                *)
(***************************************************************************)
EXTENDS DeviceRegistry, TLAPS

\* A fault is counted within its bound.
LEMMA FaultCount == ASSUME TypeOK, UNCHANGED dbFaults \/ DbFault PROVE dbFaults' \in 0..MaxDbFaults
<1>1. CASE UNCHANGED dbFaults
  BY <1>1 DEF TypeOK
<1>2. CASE DbFault
  <2>1. dbFaults \in 0..MaxDbFaults /\ dbFaults < MaxDbFaults /\ dbFaults' = dbFaults + 1
    BY <1>2 DEF TypeOK, DbFault
  <2> QED
    BY <2>1, BoundsAssumption
<1> QED
  BY <1>1, <1>2

\* The types of what a connection brings: who it is, what waits, what was stored.
LoopType ==
  /\ deviceOf \in [Loops -> Devices \cup {None}]
  /\ open \subseteq {l \in Loops : deviceOf[l] # None}
  /\ inbox \in [Loops -> Seq(Message)]
  /\ stored \in [Loops -> SUBSET Message]
  /\ \A l \in Loops : deviceOf[l] = None => inbox[l] = <<>> /\ stored[l] = {}
  /\ sent \in 0..MaxMessages

\* The types of the tables.
TableType ==
  /\ creating \in [Devices -> {"idle", "inserting", "replying", "done"}]
  /\ issued \subseteq Devices /\ devices \subseteq Devices /\ deleted \subseteq Devices
  /\ groupOf \in [Devices -> Groups \cup {None}]
  /\ model \in [Devices -> 0..MaxMessages]
  /\ groupName \in [Groups -> GroupNames \cup {None}]
  /\ usedGroups \subseteq Groups
  /\ groups \subseteq usedGroups
  /\ status \in [Devices -> Columns \cup {None}]
  /\ dbFaults \in 0..MaxDbFaults

\* TypeOK is these two.
LEMMA TypeParts == TypeOK <=> LoopType /\ TableType
  BY DEF TypeOK, LoopType, TableType

\* The same of the next state.
LEMMA TypePartsPrimed == TypeOK' <=> LoopType' /\ TableType'
  BY DEF TypeOK, LoopType, TableType

\* The columns after a heartbeat are columns.
LEMMA MergeType ==
  ASSUME NEW row \in Columns \cup {None}, NEW m \in Message
  PROVE  Merge(row, m) \in Columns
<1>1. m.n \in 0..MaxMessages
  BY BoundsAssumption DEF Message, Heartbeat, DeviceInfo
<1>2. ASSUME NEW f \in Fields PROVE (IF row = None THEN 0 ELSE row[f]) \in 0..MaxMessages
  BY BoundsAssumption DEF Columns
<1> QED
  BY <1>1, <1>2 DEF Merge, Columns

\* The head of an inbox is a message, and the rest an inbox.
LEMMA InboxHead ==
  ASSUME NEW s \in Seq(Message), s # <<>>
  PROVE  Head(s) \in Message /\ Tail(s) \in Seq(Message)
  OBVIOUS

-----------------------------------------------------------------------------
(* What the steps of one kind do, for the invariants that follow. *)

\* The requests that change devices leave the groups and connections alone.
DeviceRequest(d) ==
  RequestCreate(d) \/ InsertDevice(d) \/ ReplyCreated(d) \/ DeleteDevice(d)
  \/ \E g \in Groups \cup {None} : UpdateDevice(d, g)

GroupRequest(g) == DeleteGroup(g) \/ \E n \in GroupNames : CreateGroup(g, n)

Send(l) == \/ \E F \in SUBSET Fields : DeviceSends(l, "HEARTBEAT", F)
           \/ DeviceSends(l, "DEVICE_INFO", {})

\* Next, by kinds.
LEMMA NextKinds ==
  Next <=> \/ \E d \in Devices : DeviceRequest(d) \/ \E l \in Loops : DeviceConnects(l, d)
           \/ \E g \in Groups : GroupRequest(g)
           \/ \E l \in Loops : Send(l) \/ ConnectionEnds(l) \/ Upsert(l) \/ UpdateDeviceInfo(l)
           \/ Crash
  BY DEF Next, DeviceRequest, GroupRequest, Send

\* A message that was sent is the one of its number, at the end of its inbox.
LEMMA SendStep ==
  ASSUME TypeOK, NEW l \in Loops, Send(l)
  PROVE  /\ \E m \in Message : m.n = sent + 1 /\ inbox' = [inbox EXCEPT ![l] = Append(@, m)]
         /\ l \in open /\ sent' = sent + 1 /\ sent' \in 1..MaxMessages
         /\ UNCHANGED <<deviceVars, groupVars, reportVars, deviceOf, open, dbFaults>>
<1>1. sent \in 0..MaxMessages /\ MaxMessages \in Nat
  BY BoundsAssumption DEF TypeOK
<1>2. /\ l \in open /\ sent < MaxMessages /\ sent' = sent + 1
      /\ UNCHANGED <<deviceVars, groupVars, reportVars, deviceOf, open, dbFaults>>
  BY DEF Send, DeviceSends
<1>3. sent + 1 \in 1..MaxMessages
  BY <1>1, <1>2
<1>4. \E m \in Message : m.n = sent + 1 /\ inbox' = [inbox EXCEPT ![l] = Append(@, m)]
  <2>1. CASE \E F \in SUBSET Fields : DeviceSends(l, "HEARTBEAT", F)
    <3>1. PICK F \in SUBSET Fields : DeviceSends(l, "HEARTBEAT", F)
      BY <2>1
    <3>2. [n |-> sent + 1, type |-> "HEARTBEAT", fields |-> F] \in Message
      BY <1>3 DEF Message, Heartbeat
    <3> QED
      BY <3>1, <3>2 DEF DeviceSends
  <2>2. CASE DeviceSends(l, "DEVICE_INFO", {})
    <3>1. [n |-> sent + 1, type |-> "DEVICE_INFO", fields |-> {}] \in Message
      BY <1>3 DEF Message, DeviceInfo
    <3> QED
      BY <2>2, <3>1 DEF DeviceSends
  <2> QED
    BY <2>1, <2>2 DEF Send
<1> QED
  BY <1>1, <1>2, <1>3, <1>4

\* A read loop takes the first message of its inbox and stores it or not; storing
\* it changes the one value or row it is for.
LEMMA ReadStep ==
  ASSUME TypeOK, NEW l \in Loops, Upsert(l) \/ UpdateDeviceInfo(l)
  PROVE  /\ inbox[l] # <<>> /\ inbox' = [inbox EXCEPT ![l] = Tail(@)]
         /\ UNCHANGED <<deviceVars, groupVars, deviceOf, open, sent>>
         /\ Head(inbox[l]) \in Message /\ deviceOf[l] \in Devices
         /\ UNCHANGED dbFaults \/ DbFault
         /\ \/ UNCHANGED <<status, model, stored>>
            \/ /\ deviceOf[l] \in devices
               /\ stored' = [stored EXCEPT ![l] = @ \cup {Head(inbox[l])}]
               /\ \/ /\ Head(inbox[l]).type = "HEARTBEAT" /\ UNCHANGED model
                     /\ status' = [status EXCEPT ![deviceOf[l]] = Merge(@, Head(inbox[l]))]
                  \/ /\ Head(inbox[l]).type = "DEVICE_INFO" /\ UNCHANGED status
                     /\ model' = [model EXCEPT ![deviceOf[l]] = Head(inbox[l]).n]
<1>1. /\ inbox[l] # <<>> /\ inbox' = [inbox EXCEPT ![l] = Tail(@)]
      /\ UNCHANGED <<deviceVars, groupVars, deviceOf, open, sent>>
  BY DEF Upsert, UpdateDeviceInfo, Read
<1>2. Head(inbox[l]) \in Message
  BY <1>1, InboxHead DEF TypeOK
<1>3. deviceOf[l] \in Devices
  BY <1>1 DEF TypeOK
<1>4. UNCHANGED dbFaults \/ DbFault
  BY DEF Upsert, UpdateDeviceInfo
<1>5. CASE Upsert(l)
  BY <1>1, <1>2, <1>3, <1>4, <1>5 DEF Upsert
<1>6. CASE UpdateDeviceInfo(l)
  BY <1>1, <1>2, <1>3, <1>4, <1>6 DEF UpdateDeviceInfo
<1> QED
  BY <1>5, <1>6

-----------------------------------------------------------------------------
(* Types. *)

\* The types hold of empty tables.
LEMMA InitType == Init => TypeOK
  BY BoundsAssumption DEF Init, TypeOK, groups

\* Messages go from an inbox to what was stored; nothing else reaches either.
LEMMA LoopTypeStep == ASSUME TypeOK, [Next]_vars PROVE LoopType'
<1> USE TypeParts, TypePartsPrimed, NoneAssumption DEF LoopType
<1>1. ASSUME NEW d \in Devices, DeviceRequest(d) PROVE LoopType'
  BY <1>1 DEF DeviceRequest, RequestCreate, InsertDevice, ReplyCreated, DeleteDevice, UpdateDevice,
              CreateStep, loopVars, reportVars
<1>2. ASSUME NEW g \in Groups, GroupRequest(g) PROVE LoopType'
  BY <1>2 DEF GroupRequest, DeleteGroup, CreateGroup, loopVars, reportVars
<1>3. ASSUME NEW d \in Devices, NEW l \in Loops, DeviceConnects(l, d) PROVE LoopType'
  BY <1>3 DEF DeviceConnects, reportVars
<1>4. ASSUME NEW l \in Loops, Send(l) PROVE LoopType'
  <2>1. PICK m \in Message : inbox' = [inbox EXCEPT ![l] = Append(@, m)]
    BY <1>4, SendStep
  <2>2. UNCHANGED <<stored, deviceOf, open>> /\ l \in open /\ sent' \in 0..MaxMessages
    BY <1>4, SendStep DEF reportVars
  <2>3. inbox' \in [Loops -> Seq(Message)]
    BY <2>1
  <2>4. \A k \in Loops : deviceOf[k] = None => inbox'[k] = <<>>
    BY <2>1, <2>2
  <2> QED
    BY <2>2, <2>3, <2>4
<1>5. ASSUME NEW l \in Loops, ConnectionEnds(l) PROVE LoopType'
  <2>1. /\ UNCHANGED <<stored, deviceOf, sent>> /\ open' = open \ {l}
        /\ UNCHANGED inbox \/ inbox' = [inbox EXCEPT ![l] = <<>>]
    BY <1>5 DEF ConnectionEnds, reportVars
  <2>2. inbox' \in [Loops -> Seq(Message)]
    <3>1. <<>> \in Seq(Message) /\ inbox \in [Loops -> Seq(Message)]
      OBVIOUS
    <3>2. CASE UNCHANGED inbox
      BY <3>1, <3>2
    <3>3. CASE inbox' = [inbox EXCEPT ![l] = <<>>]
      BY <3>1, <3>3
    <3> QED
      BY <2>1, <3>2, <3>3
  <2>3. \A k \in Loops : deviceOf[k] = None => inbox'[k] = <<>>
    BY <2>1
  <2>4. open' \subseteq {k \in Loops : deviceOf[k] # None}
    BY <2>1
  <2> QED
    BY <2>1, <2>2, <2>3, <2>4
<1>6. ASSUME NEW l \in Loops, Upsert(l) \/ UpdateDeviceInfo(l) PROVE LoopType'
  <2>1. /\ inbox[l] # <<>> /\ inbox' = [inbox EXCEPT ![l] = Tail(@)]
        /\ UNCHANGED <<deviceOf, open, sent>>
        /\ Head(inbox[l]) \in Message /\ deviceOf[l] # None
        /\ UNCHANGED stored \/ stored' = [stored EXCEPT ![l] = @ \cup {Head(inbox[l])}]
    BY <1>6, ReadStep
  <2>2. inbox' \in [Loops -> Seq(Message)]
    BY <2>1, InboxHead
  <2>3. stored' \in [Loops -> SUBSET Message]
    <3>1. stored[l] \cup {Head(inbox[l])} \in SUBSET Message
      BY <2>1
    <3> QED
      BY <2>1, <3>1
  <2> QED
    BY <2>1, <2>2, <2>3
<1>7. CASE Crash
  BY <1>7 DEF Crash, reportVars
<1>8. CASE UNCHANGED vars
  BY <1>8 DEF vars, loopVars, reportVars
<1> QED
  BY <1>1, <1>2, <1>3, <1>4, <1>5, <1>6, <1>7, <1>8, NextKinds

\* Requests and reports put in the tables what their columns hold.
LEMMA TableTypeStep == ASSUME TypeOK, [Next]_vars PROVE TableType'
<1> USE TypeParts, TypePartsPrimed DEF TableType
<1>1. ASSUME NEW d \in Devices, DeviceRequest(d) PROVE TableType'
  <2>1. dbFaults' \in 0..MaxDbFaults
    BY <1>1, FaultCount DEF DeviceRequest, RequestCreate, InsertDevice, ReplyCreated, DeleteDevice,
                            UpdateDevice
  <2>2. groupName' = groupName /\ usedGroups' = usedGroups /\ groups' = groups
    BY <1>1 DEF DeviceRequest, RequestCreate, InsertDevice, ReplyCreated, DeleteDevice,
                UpdateDevice, groupVars, groups
  <2>3. CASE RequestCreate(d) \/ InsertDevice(d) \/ ReplyCreated(d)
    BY <2>1, <2>2, <2>3 DEF RequestCreate, InsertDevice, ReplyCreated, CreateStep, reportVars
  <2>4. CASE DeleteDevice(d)
    BY <2>1, <2>2, <2>4, BoundsAssumption DEF DeleteDevice
  <2>5. CASE \E g \in Groups \cup {None} : UpdateDevice(d, g)
    BY <2>1, <2>2, <2>5 DEF UpdateDevice, reportVars
  <2> QED
    BY <1>1, <2>3, <2>4, <2>5 DEF DeviceRequest
<1>2. ASSUME NEW g \in Groups, GroupRequest(g) PROVE TableType'
  BY <1>2 DEF GroupRequest, DeleteGroup, CreateGroup, deviceVars, reportVars, groups
<1>3. ASSUME NEW l \in Loops, Upsert(l) \/ UpdateDeviceInfo(l) PROVE TableType'
  <2>1. dbFaults' \in 0..MaxDbFaults
    BY <1>3, ReadStep, FaultCount
  <2>2. UNCHANGED <<creating, issued, devices, deleted, groupOf, groupName, usedGroups, groups>>
    BY <1>3, ReadStep DEF deviceVars, groupVars, groups
  <2>3. status' \in [Devices -> Columns \cup {None}] /\ model' \in [Devices -> 0..MaxMessages]
    <3> DEFINE m == Head(inbox[l])
    <3>1. m \in Message /\ m.n \in 0..MaxMessages /\ deviceOf[l] \in Devices
      BY <1>3, ReadStep, BoundsAssumption DEF Message, Heartbeat, DeviceInfo
    <3>2. Merge(status[deviceOf[l]], m) \in Columns
      BY <3>1, MergeType
    <3>3. \/ UNCHANGED <<status, model>>
          \/ status' = [status EXCEPT ![deviceOf[l]] = Merge(@, m)] /\ UNCHANGED model
          \/ model' = [model EXCEPT ![deviceOf[l]] = m.n] /\ UNCHANGED status
      BY <1>3, ReadStep
    <3> QED
      BY <3>1, <3>2, <3>3
  <2> QED
    BY <2>1, <2>2, <2>3
<1>4. CASE UNCHANGED <<issued, devices, deleted, groupOf, groupVars, model, status, dbFaults>>
           /\ (creating' = creating \/ Crash)
  BY <1>4 DEF groupVars, groups, Crash
<1>5. ASSUME NEW l \in Loops,
             ConnectionEnds(l) \/ Send(l) \/ \E d \in Devices : DeviceConnects(l, d)
      PROVE  TableType'
  <2>1. UNCHANGED <<deviceVars, groupVars, reportVars, dbFaults>>
    BY <1>5, SendStep DEF ConnectionEnds, DeviceConnects
  <2> QED
    BY <2>1, <1>4 DEF deviceVars, reportVars
<1>6. CASE Crash
  BY <1>4, <1>6 DEF Crash, reportVars
<1>7. CASE UNCHANGED vars
  BY <1>4, <1>7 DEF vars, deviceVars, reportVars
<1> QED
  BY <1>1, <1>2, <1>3, <1>5, <1>6, <1>7, NextKinds

\* The variables of the registry keep their types, and connections are of devices.
THEOREM TypeCorrect == Spec => []TypeOK
<1>1. TypeOK /\ [Next]_vars => TypeOK'
  BY LoopTypeStep, TableTypeStep, TypePartsPrimed
<1> QED
  BY InitType, <1>1, PTL DEF Spec

-----------------------------------------------------------------------------
(* Tokens and references. *)

\* A row that is not there yet was never there, and one whose token is about to be
\* answered was: creation gives each device its id once.
Creation ==
  \A d \in Devices :
    /\ creating[d] \in {"idle", "inserting"} => d \notin devices \cup deleted
    /\ creating[d] = "replying" => d \in devices \cup deleted

TableInv == Creation /\ IssuedTokensWork /\ ReferencesHold

\* Empty tables refer to nothing, and no token was answered.
LEMMA InitTable == Init => TableInv
  BY NoneAssumption DEF Init, TableInv, Creation, IssuedTokensWork, ReferencesHold, groups

\* Creation, change and deletion of a device.
LEMMA DeviceTableStep ==
  ASSUME TypeOK, TableInv, NEW d \in Devices, DeviceRequest(d) PROVE TableInv'
<1> USE DEF TypeOK, TableInv, Creation, IssuedTokensWork, ReferencesHold
<1>1. groupName' = groupName /\ groups' = groups
  BY DEF DeviceRequest, RequestCreate, InsertDevice, ReplyCreated, DeleteDevice, UpdateDevice,
         groupVars, groups
<1>2. CASE RequestCreate(d)
  BY <1>1, <1>2 DEF RequestCreate, CreateStep, reportVars
<1>3. CASE InsertDevice(d)
  BY <1>1, <1>3 DEF InsertDevice, CreateStep, reportVars
<1>4. CASE ReplyCreated(d)
  BY <1>1, <1>4 DEF ReplyCreated, CreateStep, reportVars
<1>5. CASE DeleteDevice(d)
  BY <1>1, <1>5 DEF DeleteDevice
<1>6. CASE \E g \in Groups \cup {None} : UpdateDevice(d, g)
  BY <1>1, <1>6 DEF UpdateDevice, reportVars
<1> QED
  BY <1>2, <1>3, <1>4, <1>5, <1>6 DEF DeviceRequest

\* Every step keeps what is said of tokens and references.
LEMMA TableStep == ASSUME TypeOK, TableInv, [Next]_vars PROVE TableInv'
<1> USE DEF TypeOK, TableInv, Creation, IssuedTokensWork, ReferencesHold
<1>1. ASSUME NEW g \in Groups, DeleteGroup(g) PROVE TableInv'
  <2>1. groups' = groups \ {g} /\ \A h \in groups' : groupName'[h] = groupName[h]
    BY <1>1, NoneAssumption DEF DeleteGroup, groups
  <2>2. \A e \in Devices : groupOf'[e] = None \/ (groupOf'[e] = groupOf[e] /\ groupOf[e] # g)
    BY <1>1 DEF DeleteGroup
  <2> QED
    BY <1>1, <2>1, <2>2 DEF DeleteGroup, reportVars
<1>2. ASSUME NEW g \in Groups, NEW n \in GroupNames, CreateGroup(g, n) PROVE TableInv'
  <2>1. groups' = groups \cup {g} /\ \A h \in groups : groupName'[h] = groupName[h] /\ h # g
    BY <1>2, NoneAssumption DEF CreateGroup, groups
  <2>2. groupName'[g] = n /\ \A h \in groups : groupName[h] # n
    BY <1>2 DEF CreateGroup, groups
  <2> QED
    BY <1>2, <2>1, <2>2 DEF CreateGroup, deviceVars, reportVars
<1>3. ASSUME NEW l \in Loops, Upsert(l) \/ UpdateDeviceInfo(l) PROVE TableInv'
  <2>1. UNCHANGED <<creating, issued, devices, deleted, groupOf, groupName, groups>>
    BY <1>3, ReadStep DEF deviceVars, groupVars, groups
  <2>2. \A e \in Devices : e \notin devices => status'[e] = status[e] /\ model'[e] = model[e]
    BY <1>3, ReadStep
  <2> QED
    BY <2>1, <2>2
<1>4. CASE UNCHANGED <<issued, devices, deleted, groupOf, groupVars, model, status>>
           /\ (creating' = creating \/ Crash)
  BY <1>4 DEF groupVars, groups, Crash
<1>5. ASSUME NEW l \in Loops,
             ConnectionEnds(l) \/ Send(l) \/ \E d \in Devices : DeviceConnects(l, d)
      PROVE  TableInv'
  <2>1. UNCHANGED <<deviceVars, groupVars, reportVars>>
    BY <1>5, SendStep DEF ConnectionEnds, DeviceConnects
  <2> QED
    BY <2>1, <1>4 DEF deviceVars, reportVars
<1>6. CASE Crash
  BY <1>4, <1>6 DEF Crash, reportVars
<1>7. CASE UNCHANGED vars
  BY <1>4, <1>7 DEF vars, deviceVars, reportVars
<1> QED
  BY <1>1, <1>2, <1>3, <1>5, <1>6, <1>7, DeviceTableStep, NextKinds DEF GroupRequest

\* What is said of the tables holds in every state.
LEMMA TableInvariant == Spec => []TableInv
  BY InitTable, TableStep, TypeCorrect, PTL DEF Spec

\* A token that was answered works until its device is deleted.
THEOREM TokensWork == Spec => []IssuedTokensWork
<1>1. TableInv => IssuedTokensWork
  BY DEF TableInv
<1> QED
  BY <1>1, TableInvariant, PTL

\* No row refers to one that is gone, and no deleted device comes back.
THEOREM ReferencesSound == Spec => []ReferencesHold
<1>1. TableInv => ReferencesHold
  BY DEF TableInv
<1> QED
  BY <1>1, TableInvariant, PTL

-----------------------------------------------------------------------------
(* What a device shows. *)

\* The messages of a connection are numbered in the order they wait in, and from
\* the last one stored on: none of them is read late.
Ordered(l) ==
  /\ \A m \in stored[l] : m.n <= sent
  /\ \A i \in 1..Len(inbox[l]) :
       /\ inbox[l][i].n <= sent
       /\ \A m \in stored[l] : m.n < inbox[l][i].n
       /\ \A j \in 1..Len(inbox[l]) : i < j => inbox[l][i].n < inbox[l][j].n

\* Connections are of devices there are or were, so that a new row has none.
ConnectedKnown == \A l \in Loops : deviceOf[l] \in devices \cup deleted \cup {None}

OrderInv == ConnectedKnown /\ \A l \in Loops : Ordered(l)

\* Nothing was reported to empty tables.
LEMMA InitOrder == Init => OrderInv
  BY DEF Init, OrderInv, ConnectedKnown, Ordered

\* A queue keeps its order when a later message joins it.
LEMMA OrderedAppend ==
  ASSUME NEW s \in Seq(Message), NEW m \in Message, NEW t \in Nat, m.n = t + 1,
         \A i \in 1..Len(s) : s[i].n <= t /\ \A j \in 1..Len(s) : i < j => s[i].n < s[j].n
  PROVE  \A i \in 1..Len(Append(s, m)) :
           /\ Append(s, m)[i].n <= t + 1
           /\ \A j \in 1..Len(Append(s, m)) : i < j => Append(s, m)[i].n < Append(s, m)[j].n
<1>1. \A x \in Message : x.n \in Nat
  BY BoundsAssumption DEF Message, Heartbeat, DeviceInfo
<1>2. /\ Len(Append(s, m)) = Len(s) + 1 /\ Len(s) \in Nat /\ Append(s, m)[Len(s) + 1] = m
      /\ \A i \in 1..Len(s) : Append(s, m)[i] = s[i] /\ s[i] \in Message
  OBVIOUS
<1> QED
  BY <1>1, <1>2

\* Messages join and leave in order.
LEMMA OrderStep == ASSUME TypeOK, IssuedTokensWork, OrderInv, [Next]_vars PROVE OrderInv'
<1> USE DEF OrderInv
<1>1. ASSUME UNCHANGED <<stored, sent>>,
             \A l \in Loops : inbox'[l] = inbox[l] \/ inbox'[l] = <<>>
      PROVE  \A l \in Loops : Ordered(l)'
  BY <1>1 DEF Ordered
<1>2. ASSUME UNCHANGED deviceOf, devices \cup deleted \subseteq devices' \cup deleted'
      PROVE  ConnectedKnown'
  BY <1>2 DEF ConnectedKnown
<1>3. ASSUME NEW d \in Devices, DeviceRequest(d) PROVE OrderInv'
  <2>1. UNCHANGED <<stored, sent, inbox, deviceOf>>
    BY <1>3 DEF DeviceRequest, RequestCreate, InsertDevice, ReplyCreated, DeleteDevice,
                UpdateDevice, loopVars, reportVars
  <2>2. devices \cup deleted \subseteq devices' \cup deleted'
    BY <1>3 DEF DeviceRequest, RequestCreate, InsertDevice, ReplyCreated, DeleteDevice,
                UpdateDevice
  <2> QED
    BY <2>1, <2>2, <1>1, <1>2
<1>4. ASSUME NEW g \in Groups, GroupRequest(g) PROVE OrderInv'
  <2>1. UNCHANGED <<stored, sent, inbox, deviceOf, devices, deleted>>
    BY <1>4 DEF GroupRequest, DeleteGroup, CreateGroup, deviceVars, loopVars, reportVars
  <2> QED
    BY <2>1, <1>1, <1>2
<1>5. ASSUME NEW d \in Devices, NEW l \in Loops, DeviceConnects(l, d) PROVE OrderInv'
  <2>1. UNCHANGED <<stored, sent, inbox, devices, deleted>>
    BY <1>5 DEF DeviceConnects, deviceVars, reportVars
  <2>2. ConnectedKnown'
    BY <1>5, <2>1 DEF DeviceConnects, ConnectedKnown, TypeOK
  <2> QED
    BY <2>1, <2>2, <1>1
<1>6. ASSUME NEW l \in Loops, Send(l) PROVE OrderInv'
  <2>1. PICK m \in Message : m.n = sent + 1 /\ inbox' = [inbox EXCEPT ![l] = Append(@, m)]
    BY <1>6, SendStep
  <2>2. UNCHANGED <<stored, deviceOf, devices, deleted>> /\ sent' = sent + 1 /\ sent \in Nat
    BY <1>6, SendStep, BoundsAssumption DEF TypeOK, deviceVars, reportVars
  <2>3. \A k \in Loops : \A x \in stored[k] : x.n \in Nat
    BY BoundsAssumption DEF TypeOK, Message, Heartbeat, DeviceInfo
  <2>4. ASSUME NEW k \in Loops, k # l PROVE Ordered(k)'
    <3>1. inbox'[k] = inbox[k] /\ stored'[k] = stored[k] /\ Ordered(k)
      BY <2>1, <2>2, <2>4 DEF TypeOK
    <3>2. \A i \in 1..Len(inbox[k]) : inbox[k][i].n \in Nat
      BY BoundsAssumption DEF TypeOK, Message, Heartbeat, DeviceInfo
    <3> QED
      BY <2>2, <2>3, <3>1, <3>2 DEF Ordered
  <2>5. Ordered(l)'
    <3>1. inbox'[l] = Append(inbox[l], m) /\ stored'[l] = stored[l] /\ inbox[l] \in Seq(Message)
      BY <2>1, <2>2 DEF TypeOK
    <3>2. Ordered(l)
      OBVIOUS
    <3>3. \A i \in 1..Len(inbox'[l]) :
            /\ inbox'[l][i].n <= sent'
            /\ \A j \in 1..Len(inbox'[l]) : i < j => inbox'[l][i].n < inbox'[l][j].n
      BY <2>1, <2>2, <3>1, <3>2, OrderedAppend DEF Ordered
    <3>4. \A x \in stored[l] : x.n <= sent'
      BY <2>2, <2>3, <3>2 DEF Ordered
    <3>5. ASSUME NEW i \in 1..Len(inbox'[l]), NEW x \in stored[l] PROVE x.n < inbox'[l][i].n
      <4>1. CASE i \in 1..Len(inbox[l])
        <5>1. inbox'[l][i] = inbox[l][i]
          BY <3>1, <4>1
        <5> QED
          BY <3>2, <4>1, <5>1 DEF Ordered
      <4>2. CASE i = Len(inbox[l]) + 1
        <5>1. inbox'[l][i] = m
          BY <3>1, <4>2
        <5> QED
          BY <2>1, <2>2, <2>3, <3>2, <5>1 DEF Ordered
      <4> QED
        BY <3>1, <4>1, <4>2
    <3> QED
      BY <3>1, <3>3, <3>4, <3>5 DEF Ordered
  <2> QED
    BY <2>2, <2>4, <2>5, <1>2
<1>7. ASSUME NEW l \in Loops, ConnectionEnds(l) PROVE OrderInv'
  <2>1. UNCHANGED <<stored, sent, deviceOf, devices, deleted>>
    BY <1>7 DEF ConnectionEnds, deviceVars, reportVars
  <2>2. \A k \in Loops : inbox'[k] = inbox[k] \/ inbox'[k] = <<>>
    BY <1>7 DEF ConnectionEnds, TypeOK
  <2> QED
    BY <2>1, <2>2, <1>1, <1>2
<1>8. ASSUME NEW l \in Loops, Upsert(l) \/ UpdateDeviceInfo(l) PROVE OrderInv'
  <2>1. /\ inbox[l] # <<>> /\ inbox' = [inbox EXCEPT ![l] = Tail(@)]
        /\ UNCHANGED <<deviceOf, devices, deleted, sent>>
        /\ UNCHANGED stored \/ stored' = [stored EXCEPT ![l] = @ \cup {Head(inbox[l])}]
    BY <1>8, ReadStep DEF deviceVars
  <2>2. ASSUME NEW k \in Loops, k # l PROVE Ordered(k)'
    BY <2>1, <2>2 DEF TypeOK, Ordered
  <2>3. Ordered(l)'
    <3>1. inbox[l] \in Seq(Message) /\ inbox'[l] = Tail(inbox[l]) /\ Head(inbox[l]) = inbox[l][1]
      BY <2>1 DEF TypeOK
    <3>2. /\ Len(inbox[l]) \in Nat \ {0} /\ Len(Tail(inbox[l])) = Len(inbox[l]) - 1
          /\ \A i \in 1..Len(Tail(inbox[l])) : Tail(inbox[l])[i] = inbox[l][i + 1]
      BY <2>1, <3>1
    <3>3. stored'[l] \subseteq stored[l] \cup {inbox[l][1]}
      BY <2>1, <3>1 DEF TypeOK
    <3>4. Ordered(l)
      OBVIOUS
    <3>5. \A m \in stored'[l] : m.n <= sent'
      BY <2>1, <3>2, <3>3, <3>4 DEF Ordered
    <3>6. ASSUME NEW i \in 1..Len(inbox'[l])
          PROVE  /\ inbox'[l][i] = inbox[l][i + 1] /\ i + 1 \in 1..Len(inbox[l]) /\ 1 < i + 1
                 /\ 1 \in 1..Len(inbox[l])
      BY <3>1, <3>2
    <3>7. ASSUME NEW i \in 1..Len(inbox'[l]), NEW m \in stored'[l] PROVE m.n < inbox'[l][i].n
      BY <3>3, <3>4, <3>6 DEF Ordered
    <3>8. ASSUME NEW i \in 1..Len(inbox'[l]), NEW j \in 1..Len(inbox'[l]), i < j
          PROVE  inbox'[l][i].n < inbox'[l][j].n
      <4>1. i + 1 < j + 1
        BY <3>2, <3>1, <3>8
      <4> QED
        BY <3>4, <3>6, <4>1 DEF Ordered
    <3>9. \A i \in 1..Len(inbox'[l]) : inbox'[l][i].n <= sent'
      BY <2>1, <3>4, <3>6 DEF Ordered
    <3> QED
      BY <3>5, <3>7, <3>8, <3>9 DEF Ordered
  <2> QED
    BY <2>1, <2>2, <2>3, <1>2
<1>9. CASE Crash
  <2>1. UNCHANGED <<stored, sent, deviceOf, devices, deleted>> /\ \A k \in Loops : inbox'[k] = <<>>
    BY <1>9 DEF Crash, reportVars
  <2> QED
    BY <2>1, <1>1, <1>2
<1>10. CASE UNCHANGED vars
  <2>1. UNCHANGED <<stored, sent, inbox, deviceOf, devices, deleted>>
    BY <1>10 DEF vars, deviceVars, loopVars, reportVars
  <2> QED
    BY <2>1, <1>1, <1>2
<1> QED
  BY <1>3, <1>4, <1>5, <1>6, <1>7, <1>8, <1>9, <1>10, NextKinds

\* Reported values are ordered as they were sent, in every state.
LEMMA OrderInvariant == Spec => []OrderInv
  BY InitOrder, OrderStep, TypeCorrect, TokensWork, PTL DEF Spec

\* The value of a message that is stored last is the newest of its connection.
LEMMA NewestAdded ==
  ASSUME NEW d, NEW l \in Loops, deviceOf[l] = d, UNCHANGED deviceOf,
         NEW n \in Nat, NEW b \in [Loops -> SUBSET Nat], NEW c,
         c[l] = b[l] \cup {n}, \A x \in b[l] : x < n
  PROVE  \E k \in Loops : /\ deviceOf'[k] = d /\ n \in c[k]
                          /\ \A x \in c[k] : x <= n
  OBVIOUS

\* The numbers of what was stored.
LEMMA BroughtType ==
  ASSUME TypeOK
  PROVE  /\ BroughtModel \in [Loops -> SUBSET Nat]
         /\ \A f \in Fields : Brought(f) \in [Loops -> SUBSET Nat]
<1>1. \A m \in Message : m.n \in Nat
  BY BoundsAssumption DEF Message, Heartbeat, DeviceInfo
<1>2. \A l \in Loops : stored[l] \subseteq Message
  BY DEF TypeOK
<1> QED
  BY <1>1, <1>2 DEF BroughtModel, Brought

\* Nothing stored, nothing about the device changed: what it shows stays fresh.
LEMMA FreshKept ==
  ASSUME UNCHANGED <<stored, deviceOf>>, NEW d, model'[d] = model[d], status'[d] = status[d],
         NewestOfOne(d, model[d], BroughtModel),
         \A f \in Fields : NewestOfOne(d, Shown(d, f), Brought(f))
  PROVE  /\ NewestOfOne(d, model[d], BroughtModel)'
         /\ \A f \in Fields : NewestOfOne(d, Shown(d, f), Brought(f))'
  BY DEF NewestOfOne, Shown, Brought, BroughtModel

\* A message is stored with the newest values of its connection.
LEMMA FreshStored ==
  ASSUME TypeOK, OrderInv, StatusIsFresh, NEW l \in Loops, Upsert(l) \/ UpdateDeviceInfo(l)
  PROVE  StatusIsFresh'
<1>1. UNCHANGED <<deviceOf, devices>>
  BY ReadStep DEF deviceVars
<1>2. CASE UNCHANGED <<status, model, stored>>
  BY <1>1, <1>2, FreshKept DEF StatusIsFresh
<1>3. ASSUME NEW m \in Message, m = Head(inbox[l]),
             deviceOf[l] \in devices, stored' = [stored EXCEPT ![l] = @ \cup {m}],
             \/ /\ m.type = "HEARTBEAT" /\ UNCHANGED model
                /\ status' = [status EXCEPT ![deviceOf[l]] = Merge(@, m)]
             \/ /\ m.type = "DEVICE_INFO" /\ UNCHANGED status
                /\ model' = [model EXCEPT ![deviceOf[l]] = m.n]
      PROVE  StatusIsFresh'
  <2>1. m.n \in Nat /\ \A x \in stored[l] : x.n < m.n
    <3>1. inbox[l] \in Seq(Message) /\ inbox[l] # <<>> /\ Ordered(l)
      BY ReadStep DEF TypeOK, OrderInv
    <3>2. 1 \in 1..Len(inbox[l]) /\ inbox[l][1] = m
      BY <3>1, <1>3
    <3> QED
      BY <3>1, <3>2, BoundsAssumption DEF Ordered, Message, Heartbeat, DeviceInfo
  <2>2. stored'[l] = stored[l] \cup {m} /\ \A k \in Loops : k # l => stored'[k] = stored[k]
    BY <1>3 DEF TypeOK
  <2>3. /\ BroughtModel'[l] = BroughtModel[l] \cup (IF m.type = "DEVICE_INFO" THEN {m.n} ELSE {})
        /\ \A k \in Loops : k # l => BroughtModel'[k] = BroughtModel[k]
    BY <2>2 DEF BroughtModel
  <2>4. ASSUME NEW f \in Fields
        PROVE  /\ Brought(f)'[l] = Brought(f)[l]
                    \cup (IF m.type = "HEARTBEAT" /\ f \in m.fields THEN {m.n} ELSE {})
               /\ \A k \in Loops : k # l => Brought(f)'[k] = Brought(f)[k]
    BY <2>2 DEF Brought
  <2>5. /\ \A x \in BroughtModel[l] : x < m.n
        /\ \A f \in Fields : \A x \in Brought(f)[l] : x < m.n
    BY <2>1 DEF BroughtModel, Brought
  <2>6. ASSUME NEW d \in devices PROVE NewestOfOne(d, model[d], BroughtModel)'
    <3>1. NewestOfOne(d, model[d], BroughtModel) /\ d \in Devices
      BY DEF StatusIsFresh, TypeOK
    <3>2. CASE m.type = "DEVICE_INFO" /\ d = deviceOf[l]
      <4>1. model'[d] = m.n
        BY <1>3, <3>1, <3>2 DEF TypeOK
      <4> QED
        BY <1>1, <2>1, <2>3, <2>5, <3>2, <4>1, NewestAdded, BroughtType DEF NewestOfOne
    <3>3. CASE m.type # "DEVICE_INFO"
      <4>1. model'[d] = model[d] /\ \A k \in Loops : BroughtModel'[k] = BroughtModel[k]
        BY <1>3, <2>3, <3>3
      <4> QED
        BY <1>1, <3>1, <4>1 DEF NewestOfOne
    <3>4. CASE d # deviceOf[l]
      <4>1. model'[d] = model[d]
        BY <1>3, <3>1, <3>4 DEF TypeOK
      <4> QED
        BY <1>1, <2>3, <3>1, <3>4, <4>1 DEF NewestOfOne
    <3> QED
      BY <3>2, <3>3, <3>4
  <2>7. ASSUME NEW d \in devices, NEW f \in Fields
        PROVE  NewestOfOne(d, Shown(d, f), Brought(f))'
    <3>1. NewestOfOne(d, Shown(d, f), Brought(f)) /\ d \in Devices
      BY DEF StatusIsFresh, TypeOK
    <3>2. CASE m.type = "HEARTBEAT" /\ d = deviceOf[l]
      <4>1. status'[d] = Merge(status[d], m) /\ status'[d] \in Columns
        BY <1>3, <3>1, <3>2, MergeType DEF TypeOK
      <4>2. Shown(d, f)' = IF f \in m.fields THEN m.n ELSE Shown(d, f)
        <5>1. Merge(status[d], m)[f] = IF f \in m.fields THEN m.n ELSE Shown(d, f)
          BY DEF Merge, Shown
        <5>2. status'[d] # None
          BY <4>1, NoneAssumption DEF Columns
        <5> QED
          BY <4>1, <5>1, <5>2 DEF Shown
      <4>3. CASE f \in m.fields
        BY <1>1, <2>1, <2>4, <2>5, <3>2, <4>2, <4>3, NewestAdded, BroughtType DEF NewestOfOne
      <4>4. CASE f \notin m.fields
        <5>1. Shown(d, f)' = Shown(d, f) /\ \A k \in Loops : Brought(f)'[k] = Brought(f)[k]
          BY <2>4, <4>2, <4>4
        <5> QED
          BY <1>1, <3>1, <5>1 DEF NewestOfOne
      <4> QED
        BY <4>3, <4>4
    <3>3. CASE m.type # "HEARTBEAT"
      <4>1. Shown(d, f)' = Shown(d, f) /\ \A k \in Loops : Brought(f)'[k] = Brought(f)[k]
        BY <1>3, <2>4, <3>3 DEF Shown
      <4> QED
        BY <1>1, <3>1, <4>1 DEF NewestOfOne
    <3>4. CASE d # deviceOf[l]
      <4>1. Shown(d, f)' = Shown(d, f)
        BY <1>3, <3>1, <3>4 DEF Shown, TypeOK
      <4> QED
        BY <1>1, <2>4, <3>1, <3>4, <4>1 DEF NewestOfOne
    <3> QED
      BY <3>2, <3>3, <3>4
  <2> QED
    BY <1>1, <2>6, <2>7 DEF StatusIsFresh
<1> QED
  BY <1>2, <1>3, ReadStep

\* Every step keeps what devices show fresh; a new row has nothing to show.
LEMMA FreshStep ==
  ASSUME TypeOK, TableInv, OrderInv, StatusIsFresh, [Next]_vars PROVE StatusIsFresh'
<1>1. ASSUME UNCHANGED <<stored, deviceOf>>, devices' \subseteq devices,
             \A d \in devices' : model'[d] = model[d] /\ status'[d] = status[d]
      PROVE  StatusIsFresh'
  BY <1>1, FreshKept DEF StatusIsFresh
<1>2. ASSUME NEW d \in Devices, DeviceRequest(d) PROVE StatusIsFresh'
  <2>1. UNCHANGED <<stored, deviceOf>>
    BY <1>2 DEF DeviceRequest, RequestCreate, InsertDevice, ReplyCreated, DeleteDevice,
                UpdateDevice, loopVars, reportVars
  <2>2. CASE RequestCreate(d) \/ ReplyCreated(d) \/ \E g \in Groups \cup {None} : UpdateDevice(d, g)
    <3>1. UNCHANGED <<devices, model, status>>
      BY <2>2 DEF RequestCreate, ReplyCreated, UpdateDevice, reportVars
    <3> QED
      BY <2>1, <3>1, <1>1
  <2>3. CASE DeleteDevice(d)
    <3>1. devices' = devices \ {d} /\ \A e \in devices' : model'[e] = model[e] /\ status'[e] = status[e]
      BY <2>3 DEF DeleteDevice, TypeOK
    <3> QED
      BY <2>1, <3>1, <1>1
  <2>4. CASE InsertDevice(d)
    <3>1. UNCHANGED <<model, status>> /\ devices' \subseteq devices \cup {d} /\ d \notin devices \cup deleted
      BY <2>4 DEF InsertDevice, CreateStep, reportVars, TableInv, Creation
    <3>2. model[d] = 0 /\ status[d] = None /\ \A l \in Loops : deviceOf[l] # d
      BY <3>1, NoneAssumption DEF TableInv, ReferencesHold, OrderInv, ConnectedKnown
    <3>3. /\ NewestOfOne(d, model[d], BroughtModel)
          /\ \A f \in Fields : NewestOfOne(d, Shown(d, f), Brought(f))
      BY <3>2 DEF NewestOfOne, Shown
    <3>4. ASSUME NEW e \in devices'
          PROVE  /\ NewestOfOne(e, model[e], BroughtModel)'
                 /\ \A f \in Fields : NewestOfOne(e, Shown(e, f), Brought(f))'
      <4>1. /\ NewestOfOne(e, model[e], BroughtModel)
            /\ \A f \in Fields : NewestOfOne(e, Shown(e, f), Brought(f))
        BY <3>1, <3>3 DEF StatusIsFresh
      <4> QED
        BY <2>1, <3>1, <4>1, FreshKept
    <3> QED
      BY <3>4 DEF StatusIsFresh
  <2> QED
    BY <1>2, <2>2, <2>3, <2>4 DEF DeviceRequest
<1>3. ASSUME NEW g \in Groups, GroupRequest(g) PROVE StatusIsFresh'
  <2>1. UNCHANGED <<stored, deviceOf, devices, model, status>>
    BY <1>3 DEF GroupRequest, DeleteGroup, CreateGroup, deviceVars, loopVars, reportVars
  <2> QED
    BY <2>1, <1>1
<1>4. ASSUME NEW d \in Devices, NEW l \in Loops, DeviceConnects(l, d) PROVE StatusIsFresh'
  <2>1. UNCHANGED <<stored, devices, model, status>> /\ deviceOf[l] = None
        /\ deviceOf' = [deviceOf EXCEPT ![l] = d]
    BY <1>4 DEF DeviceConnects, deviceVars, reportVars
  <2>2. stored[l] = {}
    BY <2>1 DEF TypeOK
  <2>3. BroughtModel[l] = {} /\ \A f \in Fields : Brought(f)[l] = {}
    BY <2>2 DEF BroughtModel, Brought
  <2>4. ASSUME NEW e \in devices, NEW v, NEW b, b[l] = {}, NewestOfOne(e, v, b)
        PROVE  \/ v = 0 /\ \A k \in Loops : deviceOf'[k] = e => b[k] = {}
               \/ \E k \in Loops : deviceOf'[k] = e /\ v \in b[k] /\ \A n \in b[k] : n <= v
    BY <2>1, <2>4 DEF NewestOfOne, TypeOK
  <2>5. BroughtModel' = BroughtModel /\ \A f \in Fields : Brought(f)' = Brought(f)
    BY <2>1 DEF BroughtModel, Brought
  <2>6. ASSUME NEW e \in devices PROVE NewestOfOne(e, model[e], BroughtModel)'
    BY <2>1, <2>3, <2>4, <2>5 DEF NewestOfOne, StatusIsFresh
  <2>7. ASSUME NEW e \in devices, NEW f \in Fields PROVE NewestOfOne(e, Shown(e, f), Brought(f))'
    <3>1. Shown(e, f)' = Shown(e, f)
      BY <2>1 DEF Shown
    <3>2. NewestOfOne(e, Shown(e, f), Brought(f)) /\ Brought(f)[l] = {}
      BY <2>3 DEF StatusIsFresh
    <3>3. \/ Shown(e, f) = 0 /\ \A k \in Loops : deviceOf'[k] = e => Brought(f)[k] = {}
          \/ \E k \in Loops : /\ deviceOf'[k] = e /\ Shown(e, f) \in Brought(f)[k]
                              /\ \A n \in Brought(f)[k] : n <= Shown(e, f)
      BY <2>4, <3>2
    <3>4. Brought(f)' = Brought(f)
      BY <2>5
    <3> QED
      BY <3>1, <3>3, <3>4 DEF NewestOfOne
  <2> QED
    BY <2>1, <2>6, <2>7 DEF StatusIsFresh
<1>5. ASSUME NEW l \in Loops, ConnectionEnds(l) \/ Send(l) PROVE StatusIsFresh'
  <2>1. UNCHANGED <<stored, deviceOf, devices, model, status>>
    BY <1>5, SendStep DEF ConnectionEnds, deviceVars, reportVars
  <2> QED
    BY <2>1, <1>1
<1>6. CASE Crash
  <2>1. UNCHANGED <<stored, deviceOf, devices, model, status>>
    BY <1>6 DEF Crash, reportVars
  <2> QED
    BY <2>1, <1>1
<1>7. CASE UNCHANGED vars
  <2>1. UNCHANGED <<stored, deviceOf, devices, model, status>>
    BY <1>7 DEF vars, deviceVars, loopVars, reportVars
  <2> QED
    BY <2>1, <1>1
<1> QED
  BY <1>2, <1>3, <1>4, <1>5, <1>6, <1>7, FreshStored, NextKinds

\* What a device shows in a field is the newest value stored from a connection of it.
THEOREM ReportsFresh == Spec => []StatusIsFresh
<1>1. Init => StatusIsFresh
  BY DEF Init, StatusIsFresh
<1> QED
  BY <1>1, FreshStep, TypeCorrect, TableInvariant, OrderInvariant, PTL DEF Spec

=============================================================================
