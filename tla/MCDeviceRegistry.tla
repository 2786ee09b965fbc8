-------------------------- MODULE MCDeviceRegistry --------------------------
(***************************************************************************)
(* DeviceRegistry with interchangeable ids, names, connections and fields. *)
(***************************************************************************)
EXTENDS DeviceRegistry, TLC

Symmetry == Permutations(Devices) \cup Permutations(Groups) \cup Permutations(GroupNames)
            \cup Permutations(Loops) \cup Permutations(Fields)

=============================================================================
