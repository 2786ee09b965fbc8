-------------------------- MODULE MCDeviceAccounts --------------------------
(***************************************************************************)
(* DeviceAccounts on a small instance: two read loops.                     *)
(***************************************************************************)
EXTENDS DeviceAccounts, TLC

Symmetry == Permutations(Accounts) \cup Permutations(Loops)

=============================================================================
