-------------------------- MODULE MCMirrorSessions --------------------------
(***************************************************************************)
(* MirrorSessions with interchangeable dashboards and devices.     *)
(***************************************************************************)
EXTENDS MirrorSessions, TLC

Symmetry == Permutations(Dashboards) \cup Permutations(Devices)

=============================================================================
