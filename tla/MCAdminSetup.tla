---------------------------- MODULE MCAdminSetup ----------------------------
(***************************************************************************)
(* AdminSetup with interchangeable requests, names and passwords.          *)
(***************************************************************************)
EXTENDS AdminSetup, TLC

Symmetry == Permutations(Requests) \cup Permutations(Names) \cup Permutations(Passwords)

=============================================================================
