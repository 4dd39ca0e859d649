----------------------------- MODULE MCListSync -----------------------------
(***************************************************************************)
(* TLC instances of ListSync.  MCManifest: the second list version adds a  *)
(* category, the third drops one again.                                    *)
(***************************************************************************)
EXTENDS ListSync

CONSTANTS adult, social

MCCategories == {adult, social}

MCManifest == [v \in 1..MaxLists |-> IF v = 2 THEN {adult, social} ELSE {adult}]

=============================================================================
