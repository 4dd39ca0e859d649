---------------------------- MODULE MCParentAuth ----------------------------
(***************************************************************************)
(* TLC instance of ParentAuth: attempts and requests are interchangeable.  *)
(***************************************************************************)
EXTENDS ParentAuth, TLC

AuthSymmetry == Permutations(Attempts) \cup Permutations(Requests)

=============================================================================
