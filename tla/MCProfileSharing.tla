--------------------------- MODULE MCProfileSharing ---------------------------
(* Small instances of ProfileSharing. *)
EXTENDS ProfileSharing

CONSTANTS s, b

\* Three narrow instances in one: ends that are synced again, one task at a time;
\* an interruption, with two tasks; lists of servers.
MCBounds == {
    [ends |-> 3, stamps |-> 3, servers |-> 0, faults |-> 0, tasks |-> 1, list |-> 0],
    [ends |-> 1, stamps |-> 2, servers |-> 0, faults |-> 1, tasks |-> 2, list |-> 0],
    [ends |-> 2, stamps |-> 1, servers |-> 3, faults |-> 0, tasks |-> 1, list |-> 1]}

\* What has lapsed stays lapsed and is not followed any further: of the behaviours
\* the properties speak of none is lost.
NoLapse == lapses = {}
=============================================================================
