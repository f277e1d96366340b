--------------------------- MODULE ProfileHistory ---------------------------
(***************************************************************************)
(* What the operation engine promises about a profile, without threads,    *)
(* files, crashes or recovery: a history of revisions with a current one.  *)
(* A revision is appended on top of the current one, and only the current  *)
(* one can be taken back, which makes its predecessor current again.       *)
(***************************************************************************)
CONSTANTS Revisions, Profiles, None, Baseline

VARIABLES exists, top, status, parent, home

hvars == <<exists, top, status, parent, home>>

BaselineHome(r) == CHOOSE p \in Profiles : Baseline[p] = r
IsBaseline(r)   == \E p \in Profiles : Baseline[p] = r

Init ==
    /\ exists = {p \in Profiles : Baseline[p] # None}
    /\ top = Baseline
    /\ status = [r \in Revisions |-> IF IsBaseline(r) THEN "committed" ELSE "none"]
    /\ parent = [r \in Revisions |-> None]
    /\ home = [r \in Revisions |-> IF IsBaseline(r) THEN BaselineHome(r) ELSE None]

Open(p) ==
    /\ p \notin exists
    /\ exists' = exists \cup {p}
    /\ UNCHANGED <<top, status, parent, home>>

Append(p, r) ==
    /\ p \in exists
    /\ status[r] = "none"
    /\ status' = [status EXCEPT ![r] = "committed"]
    /\ parent' = [parent EXCEPT ![r] = top[p]]
    /\ home' = [home EXCEPT ![r] = p]
    /\ top' = [top EXCEPT ![p] = r]
    /\ UNCHANGED exists

TakeBack(p, r) ==
    /\ p \in exists
    /\ top[p] = r
    /\ home[r] = p
    /\ status[r] = "committed"
    /\ status' = [status EXCEPT ![r] = "invalidated"]
    /\ top' = [top EXCEPT ![p] = parent[r]]
    /\ UNCHANGED <<exists, parent, home>>

\* Only a profile without a current revision can be deleted.
Close(p) ==
    /\ p \in exists
    /\ top[p] = None
    /\ exists' = exists \ {p}
    /\ status' = [r \in Revisions |-> IF home[r] = p THEN "none" ELSE status[r]]
    /\ parent' = [r \in Revisions |-> IF home[r] = p THEN None ELSE parent[r]]
    /\ home' = [r \in Revisions |-> IF home[r] = p THEN None ELSE home[r]]
    /\ UNCHANGED top

Next ==
    \E p \in Profiles :
        \/ Open(p) \/ Close(p)
        \/ \E r \in Revisions : Append(p, r) \/ TakeBack(p, r)

Spec == Init /\ [][Next]_hvars
=============================================================================
