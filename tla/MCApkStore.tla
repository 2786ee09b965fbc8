----------------------------- MODULE MCApkStore -----------------------------
(***************************************************************************)
(* ApkStore with interchangeable uploads and downloads.                    *)
(***************************************************************************)
EXTENDS ApkStore, TLC

Symmetry == Permutations(Uploads) \cup Permutations(Downloads)

=============================================================================
