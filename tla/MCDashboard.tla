---------------------------- MODULE MCDashboard ----------------------------
(***************************************************************************)
(* Instance of Dashboard: two panels, two checks or refreshes in flight,   *)
(* two sessions, and two children whose policies may be opened at once.    *)
(* Calls, panels and children are interchangeable.                         *)
(***************************************************************************)
EXTENDS Dashboard, TLC

DashboardSymmetry ==
    Permutations(Panels) \cup Permutations(Calls) \cup Permutations(Children)

=============================================================================
