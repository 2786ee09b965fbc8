------------------------------ MODULE MCHubLock ------------------------------
(***************************************************************************)
(* HubLock with device and dashboard connections as model values.          *)
(***************************************************************************)
EXTENDS HubLock, TLC

Symmetry == Permutations(Conns) \cup Permutations(Dashboards)

=============================================================================
