-------------------------- MODULE MCAgentEnrollment --------------------------
(***************************************************************************)
(* TLC instances of AgentEnrollment: two PCs with an attempt each, or one  *)
(* PC moved from one child to another.  Codes, attempts, PCs and children  *)
(* are interchangeable.                                                    *)
(***************************************************************************)
EXTENDS AgentEnrollment, TLC

AgentSymmetry == Permutations(Codes) \cup Permutations(Attempts)
                 \cup Permutations(PCs) \cup Permutations(Children)

=============================================================================
