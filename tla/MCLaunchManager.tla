-------------------------- MODULE MCLaunchManager --------------------------
(***************************************************************************)
(* Small instances of LaunchManager.                                       *)
(***************************************************************************)
EXTENDS LaunchManager

CONSTANTS l1, l3, p1, p2

\* Two launches of one profile and one of another.
TwoOfOne == [l \in Launches |-> IF l = l3 THEN p2 ELSE p1]
=============================================================================
