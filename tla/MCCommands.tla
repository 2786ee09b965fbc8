----------------------------- MODULE MCCommands -----------------------------
(***************************************************************************)
(* Commands on small instances.  Commands are interchangeable where none   *)
(* of them, or each of them, is a screenshot.                              *)
(***************************************************************************)
EXTENDS Commands, TLC

Symmetry == Permutations(Cmds) \cup Permutations(Requests) \cup Permutations(Readers)
            \cup Permutations(Devices)

=============================================================================
