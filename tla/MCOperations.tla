---------------------------- MODULE MCOperations ----------------------------
(* Small instances of Operations for TLC. *)
EXTENDS Operations, TLC

CONSTANTS o0, o1, o2, p1, p2

\* p1 is installed with revision o0; any other profile is still to be created.
Installed == [p \in Profiles |-> IF p = p1 THEN o0 ELSE None]

\* Nothing is installed yet.
Fresh == [p \in Profiles |-> None]

\* Operations are interchangeable, but for an installed revision.
OpSymmetry     == Permutations(Ops \ {o0})
AllOpsSymmetry == Permutations(Ops)
=============================================================================
