-------------------------- MODULE MCAccessRequests --------------------------
(***************************************************************************)
(* TLC instances of AccessRequests.  POST and resolve invocations are      *)
(* interchangeable.                                                        *)
(***************************************************************************)
EXTENDS AccessRequests, TLC

RequestSymmetry == Permutations(Posts) \cup Permutations(Resolvers)

=============================================================================
