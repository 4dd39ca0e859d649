---------------------------- MODULE MCPolicySync ----------------------------
(***************************************************************************)
(* TLC instances of PolicySync: two age bands of which one blocks only     *)
(* threats, two worker invocations at a time.                              *)
(***************************************************************************)
EXTENDS PolicySync, TLC

CONSTANTS young, teen, threats, social, h1, h2

MCAgeBands   == {young, teen}
MCCategories == {threats, social}
MCPreset     == [b \in AgeBands |-> IF b = young THEN Categories ELSE {threats}]
MCHandlers   == {h1, h2}

HandlerSymmetry == Permutations(MCHandlers)

=============================================================================
