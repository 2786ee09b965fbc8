--------------------------- MODULE DeviceSession ---------------------------
(***************************************************************************)
(* What the connections of devices promise to those who send, without      *)
(* locks, channels, pumps or goroutines.  A device has one live connection *)
(* at most: a connection that registers ends the one before.  A message    *)
(* goes to the live connection of its device, if there is one; it is       *)
(* accepted once, in order, unless that connection has ended or is full;   *)
(* what a live connection accepted is delivered in order and once; what    *)
(* is not delivered when a connection ends is lost.  DeviceHub implements  *)
(* this.                                                                   *)
(***************************************************************************)
EXTENDS Naturals, Sequences

CONSTANTS
  Devices,   \* the devices
  Conns,     \* their connections
  Messages,  \* messages other goroutines send to devices, each one once
  Ack,       \* the greeting of a connection
  None,      \* no connection, no device
  SendCap    \* messages a connection holds for its device, beside the one in hand

VARIABLES
  dev,        \* the device of a connection
  life,       \* "new", "admitted", "registered", "greeted", "over"
  pending,    \* what a live connection accepted and has not delivered
  delivered,  \* what was delivered on a connection
  sender,     \* of a message: "idle", "bound" to a connection, or "decided"
  bound       \* the connection a message goes to

vars == <<dev, life, pending, delivered, sender, bound>>

Live(c) == life[c] \in {"registered", "greeted"}

\* One message may be in hand, so that at SendCap both are possible.
HasRoom(c) == Len(pending[c]) <= SendCap
IsFull(c)  == Len(pending[c]) >= SendCap

Init ==
  /\ dev = [c \in Conns |-> None]
  /\ life = [c \in Conns |-> "new"]
  /\ pending = [c \in Conns |-> <<>>]
  /\ delivered = [c \in Conns |-> {}]
  /\ sender = [m \in Messages |-> "idle"]
  /\ bound = [m \in Messages |-> None]

Admit(c, d) ==
  /\ life[c] = "new"
  /\ life' = [life EXCEPT ![c] = "admitted"]
  /\ dev' = [dev EXCEPT ![c] = d]
  /\ UNCHANGED <<pending, delivered, sender, bound>>

Replaced(c) == {x \in Conns : Live(x) /\ dev[x] = dev[c]}

Register(c) ==
  /\ life[c] = "admitted"
  /\ life' = [x \in Conns |-> IF x = c THEN "registered"
                              ELSE IF x \in Replaced(c) THEN "over" ELSE life[x]]
  /\ pending' = [x \in Conns |-> IF x \in Replaced(c) THEN <<>> ELSE pending[x]]
  /\ UNCHANGED <<dev, delivered, sender, bound>>

Greet(c) ==
  /\ life[c] = "registered"
  /\ life' = [life EXCEPT ![c] = "greeted"]
  /\ \/ HasRoom(c) /\ pending' = [pending EXCEPT ![c] = Append(@, Ack)]
     \/ IsFull(c) /\ UNCHANGED pending
  /\ UNCHANGED <<dev, delivered, sender, bound>>

\* a message for device d meets its live connection, or none if there is none
Find(m, d) ==
  /\ sender[m] = "idle"
  /\ \E c \in {x \in Conns : dev[x] = d} \cup {None} :
       /\ \A x \in Conns : Live(x) /\ dev[x] = d => x = c
       /\ bound' = [bound EXCEPT ![m] = c]
       /\ sender' = [sender EXCEPT ![m] = IF c = None THEN "decided" ELSE "bound"]
  /\ UNCHANGED <<dev, life, pending, delivered>>

Decide(m) == /\ sender[m] = "bound"
             /\ sender' = [sender EXCEPT ![m] = "decided"]

Accept(m) ==
  /\ Decide(m)
  /\ Live(bound[m]) /\ HasRoom(bound[m])
  /\ pending' = [pending EXCEPT ![bound[m]] = Append(@, m)]
  /\ UNCHANGED <<dev, life, delivered, bound>>

Lose(m) ==
  /\ Decide(m)
  /\ Live(bound[m]) => IsFull(bound[m])
  /\ UNCHANGED <<dev, life, pending, delivered, bound>>

Deliver(c) ==
  /\ Live(c) /\ pending[c] # <<>>
  /\ delivered' = [delivered EXCEPT ![c] = @ \cup {Head(pending[c])}]
  /\ pending' = [pending EXCEPT ![c] = Tail(@)]
  /\ UNCHANGED <<dev, life, sender, bound>>

End(c) ==
  /\ Live(c)
  /\ life' = [life EXCEPT ![c] = "over"]
  /\ pending' = [pending EXCEPT ![c] = <<>>]
  /\ UNCHANGED <<dev, delivered, sender, bound>>

\* the process ends, and with it every connection and every sender
Stop ==
  /\ life' = [c \in Conns |-> IF life[c] = "new" THEN "new" ELSE "over"]
  /\ pending' = [c \in Conns |-> <<>>]
  /\ sender' = [m \in Messages |-> IF sender[m] = "bound" THEN "decided" ELSE sender[m]]
  /\ UNCHANGED <<dev, delivered, bound>>

Next ==
  \/ \E c \in Conns : \/ \E d \in Devices : Admit(c, d)
                      \/ Register(c) \/ Greet(c) \/ Deliver(c) \/ End(c)
  \/ \E m \in Messages : (\E d \in Devices : Find(m, d)) \/ Accept(m) \/ Lose(m)
  \/ Stop

Spec == Init /\ [][Next]_vars

=============================================================================
