---------------------------- MODULE MCDeviceHub ----------------------------
(***************************************************************************)
(* DeviceHub on small instances: the connections of a device are           *)
(* interchangeable, and so are the messages and the devices.               *)
(***************************************************************************)
EXTENDS DeviceHub, TLC

ConnSymmetry == Permutations(Conns)

\* The columns of the devices table are written and never read by the handlers, the
\* pumps and the senders, so that what those do can be explored without them.
WithoutColumns == <<connVars, hubVars, pumpVars, senderVars, announced>>

AllSymmetry == Permutations(Conns) \cup Permutations(Messages) \cup Permutations(Devices)

=============================================================================
