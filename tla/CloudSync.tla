----------------------------- MODULE CloudSync -----------------------------
(***************************************************************************)
(* The three-way merge of what two devices changed since a revision both   *)
(* have, and the resolution of its conflicts by the user                   *)
(* (cloud_sync/service.rs).  No provider is configured, so nothing is      *)
(* pulled or pushed: the launcher shows its own revision, and its tests    *)
(* run the merge.                                                          *)
(*                                                                         *)
(* A revision is a function from the fields to values; None: no such field *)
(***************************************************************************)
EXTENDS Absence, FiniteSets

CONSTANTS Fields, FieldValues,
          Unresolved      \* the choices do not fit

Revisions == [Fields -> FieldValues \cup {None}]

VARIABLES
    given,          \* [base, local, remote, choices], or None
    preview,        \* [fields, conflicts] of the merge, or None
    resolved        \* what the choices make of it, Unresolved or None

syncVars == <<given, preview, resolved>>

(* one field *)
Selected(base, local, remote) ==
    IF local = remote THEN local
    ELSE IF local = base THEN remote
    ELSE IF remote = base THEN local
    ELSE base
Conflicts(base, local, remote) ==
    {f \in Fields : /\ local[f] # remote[f]
                    /\ local[f] # base[f] /\ remote[f] # base[f]}

(* With the side of the local device forgotten. *)
SelectedRemote(base, local, remote) ==
    IF remote # base THEN remote ELSE local

(* three_way_merge *)
MergeRemote(base, local, remote) ==
    [fields |-> [f \in Fields |-> SelectedRemote(base[f], local[f], remote[f])],
     conflicts |-> Conflicts(base, local, remote)]
Merge(base, local, remote) ==
    [fields |-> [f \in Fields |-> Selected(base[f], local[f], remote[f])],
     conflicts |-> Conflicts(base, local, remote)]

(* resolve_conflicts: as many choices as conflicts, and one for each. *)
ChoicesFit(conflicts, choices) ==
    /\ Cardinality(DOMAIN choices) = Cardinality(conflicts)
    /\ \A f \in conflicts : f \in DOMAIN choices /\ choices[f] \in {"local", "remote"}
Resolve(p, local, remote, choices) ==
    [f \in Fields |-> IF f \notin p.conflicts THEN p.fields[f]
                      ELSE IF choices[f] = "local" THEN local[f] ELSE remote[f]]

(* Any three revisions and any choices; only "local" and "remote" are ones. *)
Decisions == UNION {[S -> {"local", "remote", "other"}] : S \in SUBSET Fields}
Edited == [base : Revisions, local : Revisions, remote : Revisions, choices : Decisions]

SyncInit(cases) == given \in cases /\ preview = None /\ resolved = None

Preview ==
    /\ given # None /\ preview = None
    /\ preview' = Merge(given.base, given.local, given.remote)
    /\ UNCHANGED <<given, resolved>>

ResolveChosen ==
    /\ preview # None /\ resolved = None
    /\ resolved' = IF ChoicesFit(preview.conflicts, given.choices)
                   THEN Resolve(preview, given.local, given.remote, given.choices)
                   ELSE Unresolved
    /\ UNCHANGED <<given, preview>>

SyncNext == Preview \/ ResolveChosen

SyncSpec == SyncInit(Edited) /\ [][SyncNext]_syncVars

-----------------------------------------------------------------------------
(* Until the conflicts are resolved they have the value of before.  The
   devices merge to the same, whichever of them does it, when the user
   chooses the same for both; what only one device changed is kept,
   removals as well, and nothing is made up.  Covers three_way_merge and
   resolve_conflicts. *)
Opposite(choices) == [f \in DOMAIN choices |-> IF choices[f] = "local" THEN "remote" ELSE "local"]
MergeKeepsChanges ==
    preview # None =>
       LET b == given.base  l == given.local  r == given.remote
           theirs == Merge(b, r, l)
       IN  /\ preview = theirs
           /\ \A f \in preview.conflicts : preview.fields[f] = b[f]
           /\ resolved \notin {None, Unresolved} =>
                /\ resolved = Resolve(theirs, r, l, Opposite(given.choices))
                /\ \A f \in Fields :
                      /\ resolved[f] \in {l[f], r[f]}
                      /\ l[f] = b[f] => resolved[f] = r[f]
                      /\ r[f] = b[f] => resolved[f] = l[f]
=============================================================================
