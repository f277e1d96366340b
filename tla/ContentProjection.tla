-------------------------- MODULE ContentProjection --------------------------
(***************************************************************************)
(* What a launch does to the content files of one instance: it compares    *)
(* the files with the marker of the previous projection, moves replaced    *)
(* files into the backup of a transaction directory, moves staged copies   *)
(* of the new revision's files to their targets, and commits by moving the *)
(* new marker into place.  An error is undone by moving everything back.   *)
(* One mutex serializes projections, so a profile has at most one; the     *)
(* user and other programs change files at any time.                       *)
(*                                                                         *)
(* A plan gives a target the item a revision has for it: content that the  *)
(* launcher manages, or a seed, a start value that belongs to the user as  *)
(* soon as it exists.  The marker is the plan it lists; its revision       *)
(* identifier only decides whether a launch that manages nothing rewrites  *)
(* it.                                                                     *)
(***************************************************************************)
EXTENDS Integers, FiniteSets

CONSTANTS
    Targets,    \* relative paths below the instance
    Hashes,     \* contents a revision may have for a target
    Theirs,     \* a content of the user's own making
    Absent,     \* no file
    None,       \* no item, no marker
    MaxFaults   \* bound: I/O errors and crashes in one behaviour

ASSUME ProjectionAssumption ==
    /\ Theirs \notin Hashes
    /\ Absent \notin Hashes \cup {Theirs}
    /\ None \notin [seed : BOOLEAN, hash : Hashes]
    /\ None \notin [Targets -> [seed : BOOLEAN, hash : Hashes] \cup {None}]
    /\ MaxFaults \in Nat

VARIABLES
    file,        \* the files below instance
    marker,      \* instance/.s9lab/content-projection.json
    kept,        \* contents in transaction directories left behind
    pc, todo,    \* the running projection: its loop, the targets still to visit
    prev, want,  \* the marker it read and the plan it projects
    staged, backup, markerBackup,  \* its transaction directory
    activated,   \* targets in its list of activations
    undoFailed,  \* its rollback met an error
    committed,   \* history: the plan of the last marker moved into place
    before,      \* history: the files when the last projection began
    touched,     \* history: what the user changed since
    altered,     \* history: what the user changed since the last commit began
    outcome,     \* history: how the last projection ended
    interrupted, \* history: a crash or a failed rollback since the last commit
    faults       \* I/O errors and crashes so far

disk        == <<file, marker, kept>>
transaction == <<prev, want, staged, backup, markerBackup, activated, undoFailed>>
history     == <<committed, before, touched, altered, outcome, interrupted>>
vars == <<file, marker, kept, pc, todo, prev, want, staged, backup,
          markerBackup, activated, undoFailed, committed, before, touched,
          altered, outcome, interrupted, faults>>

Item  == [seed : BOOLEAN, hash : Hashes]
Plan  == [Targets -> Item \cup {None}]
Empty == [t \in Targets |-> None]
NoFiles == [t \in Targets |-> Absent]

Items(m)   == IF m = None THEN Empty ELSE m
Listed(m)  == {t \in Targets : Items(m)[t] # None}
Seeds(m)   == {t \in Listed(m) : m[t].seed}
Managed(m) == Listed(m) \ Seeds(m)

\* A new instance, or one with files of the user.
Init ==
    /\ file \in [Targets -> {Absent, Theirs}]
    /\ marker = None
    /\ kept = {}
    /\ pc = "idle"
    /\ todo = {}
    /\ prev = None
    /\ want = Empty
    /\ staged = NoFiles
    /\ backup = NoFiles
    /\ markerBackup = None
    /\ activated = {}
    /\ undoFailed = FALSE
    /\ committed = None
    /\ before = NoFiles
    /\ touched = {}
    /\ altered = {}
    /\ outcome = "none"
    /\ interrupted = FALSE
    /\ faults = 0

\* The call is over: its locals and its transaction directory are gone.
Leave(result) ==
    /\ pc' = "idle"
    /\ todo' = {}
    /\ prev' = None
    /\ want' = Empty
    /\ staged' = NoFiles
    /\ backup' = NoFiles
    /\ markerBackup' = None
    /\ activated' = {}
    /\ undoFailed' = FALSE
    /\ before' = NoFiles
    /\ outcome' = result
-----------------------------------------------------------------------------
(* What the code decides from what it finds.                               *)

\* validate_previous_projection and validate_foreign_conflicts: what the marker
\* lists as managed is intact, and a new managed file meets no other file.
Acceptable(m, w) ==
    /\ \A t \in Managed(m) : file[t] = m[t].hash
    /\ \A t \in Managed(w) \ Managed(m) : file[t] = Absent

\* Mutant: a new version under the same path counts as unchanged.
SamePath(t) == prev # None /\ prev[t] # None /\ prev[t].seed = want[t].seed

\* same_projected_artifact, for a listed target
Same(t) == prev # None /\ prev[t] = want[t]

\* Mutant: a seed is sown whenever its target is missing.
KeepsExistingSeed(t) ==
    want[t].seed /\ file[t] # Absent /\ t \notin Managed(prev)

\* preserve_override_seed: an existing file and a seed sown before stay as the
\* user left them.
KeepsSeed(t) ==
    /\ want[t].seed
    /\ \/ file[t] # Absent /\ t \notin Managed(prev)
       \/ t \in Seeds(prev)

Skips(t) == Same(t) \/ KeepsSeed(t)

\* Files of the previous projection that the new one changes or drops.
Replaced == {t \in Managed(prev) : t \notin Listed(want) \/ ~Same(t)}

Saved == {t \in Targets : backup[t] # Absent}
-----------------------------------------------------------------------------
(* A launch *)

\* project_content_for_launch up to its last check.  A refused launch and one
\* with nothing to reconcile change nothing.
Begin(w) ==
    /\ pc = "idle"
    /\ Acceptable(marker, w)
    /\ pc' = "stage"
    /\ todo' = Listed(w)
    /\ prev' = marker
    /\ want' = w
    /\ staged' = NoFiles
    /\ backup' = NoFiles
    /\ markerBackup' = None
    /\ activated' = {}
    /\ undoFailed' = FALSE
    /\ before' = file
    /\ touched' = {}
    /\ outcome' = "running"
    /\ UNCHANGED <<disk, committed, altered, interrupted, faults>>

\* Mutant: the item itself is staged, not its content.
StageItem(t) ==
    /\ pc = "stage"
    /\ t \in todo
    /\ todo' = todo \ {t}
    /\ staged' = [staged EXCEPT ![t] = IF Skips(t) THEN Absent ELSE want[t]]
    /\ UNCHANGED <<disk, pc, prev, want, backup, markerBackup, activated,
                   undoFailed, history, faults>>

\* stage_desired_projection, which reads the targets as they are now.
Stage(t) ==
    /\ pc = "stage"
    /\ t \in todo
    /\ todo' = todo \ {t}
    /\ staged' = [staged EXCEPT ![t] = IF Skips(t) THEN Absent ELSE want[t].hash]
    /\ UNCHANGED <<disk, pc, prev, want, backup, markerBackup, activated,
                   undoFailed, history, faults>>

StageMarker ==
    /\ pc = "stage"
    /\ todo = {}
    /\ pc' = "backup"
    /\ todo' = Replaced
    /\ UNCHANGED <<disk, transaction, history, faults>>

BackUp(t) ==
    /\ pc = "backup"
    /\ t \in todo
    /\ file[t] # Absent
    /\ todo' = todo \ {t}
    /\ backup' = [backup EXCEPT ![t] = file[t]]
    /\ file' = [file EXCEPT ![t] = Absent]
    /\ UNCHANGED <<marker, kept, pc, prev, want, staged, markerBackup,
                   activated, undoFailed, history, faults>>

BackUpMarker ==
    /\ pc = "backup"
    /\ todo = {}
    /\ markerBackup' = marker
    /\ marker' = None
    /\ pc' = "activate"
    /\ todo' = Listed(want)
    /\ UNCHANGED <<file, kept, prev, want, staged, backup, activated,
                   undoFailed, history, faults>>

\* The targets are looked at once more: a file that appeared keeps its place
\* if the item is a seed.
Skip(t) ==
    /\ pc = "activate"
    /\ t \in todo
    /\ Skips(t)
    /\ todo' = todo \ {t}
    /\ UNCHANGED <<disk, pc, transaction, history, faults>>

MoveToTarget(t) ==
    /\ pc = "activate"
    /\ t \in todo
    /\ ~Skips(t)
    /\ staged[t] # Absent
    /\ todo' = todo \ {t}
    /\ file' = [file EXCEPT ![t] = staged[t]]
    /\ staged' = [staged EXCEPT ![t] = Absent]
    /\ activated' = activated \cup {t}
    /\ UNCHANGED <<marker, kept, pc, prev, want, backup, markerBackup,
                   undoFailed, history, faults>>

\* Mutant: the move replaces what is there.
ActivateOver(t) == MoveToTarget(t)

Activate(t) == file[t] = Absent /\ MoveToTarget(t)

\* The commit.  Removing the transaction directory afterwards may fail, which
\* nobody is told and nothing depends on.
PlaceMarker ==
    /\ pc = "activate"
    /\ todo = {}
    /\ marker' = want
    /\ Leave("done")
    /\ committed' = want
    /\ altered' = touched
    /\ interrupted' = FALSE
    /\ UNCHANGED <<file, kept, touched, faults>>
-----------------------------------------------------------------------------
(* Errors, rollback_moves, and the end of the process *)

\* Nothing has been moved yet: the transaction directory is all there is.
StageFails ==
    /\ pc = "stage"
    /\ faults < MaxFaults
    /\ faults' = faults + 1
    /\ Leave("failed")
    /\ UNCHANGED <<disk, committed, touched, altered, interrupted>>

\* A move that cannot succeed: its source is gone or its target is taken.
Blocked ==
    \/ pc = "backup" /\ \E t \in todo : file[t] = Absent
    \/ pc = "activate" /\ \E t \in todo :
         ~Skips(t) /\ (staged[t] = Absent \/ file[t] # Absent)

MoveFails ==
    /\ pc \in {"backup", "activate"}
    /\ \/ Blocked /\ UNCHANGED faults
       \/ faults < MaxFaults /\ faults' = faults + 1
    /\ pc' = "deactivate"
    /\ todo' = activated
    /\ UNCHANGED <<disk, transaction, history>>

Deactivate(t) ==
    /\ pc = "deactivate"
    /\ t \in todo
    /\ todo' = todo \ {t}
    /\ staged' = [staged EXCEPT ![t] = file[t]]
    /\ file' = [file EXCEPT ![t] = Absent]
    /\ UNCHANGED <<marker, kept, pc, prev, want, backup, markerBackup,
                   activated, undoFailed, history, faults>>

Deactivated ==
    /\ pc = "deactivate"
    /\ todo = {}
    /\ pc' = "marker"
    /\ UNCHANGED <<disk, todo, transaction, history, faults>>

\* Mutant: only files are moved back.
ForgetMarker ==
    /\ pc = "marker"
    /\ pc' = "restore"
    /\ todo' = Saved
    /\ UNCHANGED <<disk, transaction, history, faults>>

\* The marker was backed up last and comes back first.
RestoreMarker ==
    /\ pc = "marker"
    /\ pc' = "restore"
    /\ todo' = Saved
    /\ IF markerBackup = None
       THEN UNCHANGED <<marker, markerBackup>>
       ELSE marker' = markerBackup /\ markerBackup' = None
    /\ UNCHANGED <<file, kept, prev, want, staged, backup, activated,
                   undoFailed, history, faults>>

RestoreMarkerFails ==
    /\ pc = "marker"
    /\ markerBackup # None
    /\ faults < MaxFaults
    /\ faults' = faults + 1
    /\ undoFailed' = TRUE
    /\ pc' = "restore"
    /\ todo' = Saved
    /\ UNCHANGED <<disk, prev, want, staged, backup, markerBackup, activated,
                   history>>

Restore(t) ==
    /\ pc = "restore"
    /\ t \in todo
    /\ file[t] = Absent
    /\ todo' = todo \ {t}
    /\ file' = [file EXCEPT ![t] = backup[t]]
    /\ backup' = [backup EXCEPT ![t] = Absent]
    /\ UNCHANGED <<marker, kept, pc, prev, want, staged, markerBackup,
                   activated, undoFailed, history, faults>>

\* rollback_moves goes on after an error.
UndoMoveFails(t) ==
    /\ \/ pc = "deactivate" /\ file[t] # Absent
       \/ pc = "restore"
    /\ t \in todo
    /\ \/ pc = "restore" /\ file[t] # Absent /\ UNCHANGED faults
       \/ faults < MaxFaults /\ faults' = faults + 1
    /\ todo' = todo \ {t}
    /\ undoFailed' = TRUE
    /\ UNCHANGED <<disk, pc, prev, want, staged, backup, markerBackup,
                   activated, history>>

UndoneCompletely ==
    /\ pc = "restore"
    /\ todo = {}
    /\ ~undoFailed
    /\ Leave("failed")
    /\ UNCHANGED <<disk, committed, touched, altered, interrupted, faults>>

\* Mutant: the directory is removed whatever the rollback achieved.
LeaveNothingBehind ==
    /\ Leave("interrupted")
    /\ interrupted' = TRUE
    /\ UNCHANGED <<disk, committed, touched, altered>>

\* The transaction directory stays where it is, and nobody visits it again.
LeaveBehind ==
    /\ kept' = kept \cup {<<t, backup[t]>> : t \in Saved}
    /\ Leave("interrupted")
    /\ interrupted' = TRUE
    /\ UNCHANGED <<file, marker, committed, touched, altered>>

UndoneInPart ==
    /\ pc = "restore"
    /\ todo = {}
    /\ undoFailed
    /\ LeaveBehind
    /\ UNCHANGED faults

\* The process ends; before the first move this is as good as an error.
Crash ==
    /\ pc \notin {"idle", "stage"}
    /\ faults < MaxFaults
    /\ faults' = faults + 1
    /\ LeaveBehind

\* The user, the game or another program writes or deletes a file.
UserChanges(t) ==
    /\ \E c \in {Theirs, Absent} \ {file[t]} : file' = [file EXCEPT ![t] = c]
    /\ touched' = touched \cup {t}
    /\ altered' = altered \cup {t}
    /\ UNCHANGED <<marker, kept, pc, todo, transaction, committed, before,
                   outcome, interrupted, faults>>
-----------------------------------------------------------------------------
Project ==
    \/ \E w \in Plan : Begin(w)
    \/ \E t \in Targets : Stage(t) \/ BackUp(t) \/ Skip(t) \/ Activate(t)
    \/ StageMarker \/ BackUpMarker \/ PlaceMarker \/ StageFails \/ MoveFails

Undo ==
    \/ \E t \in Targets : Deactivate(t) \/ Restore(t) \/ UndoMoveFails(t)
    \/ Deactivated \/ RestoreMarker \/ RestoreMarkerFails
    \/ UndoneCompletely \/ UndoneInPart

Launcher == Project \/ Undo \/ Crash

Next == Launcher \/ \E t \in Targets : UserChanges(t)

Spec == Init /\ [][Next]_vars
-----------------------------------------------------------------------------
Files == [Targets -> Hashes \cup {Theirs, Absent}]

\* Every variable has its type.
TypeOK ==
    /\ file \in Files
    /\ marker \in Plan \cup {None}
    /\ kept \subseteq Targets \X (Hashes \cup {Theirs})
    /\ pc \in {"idle", "stage", "backup", "activate", "deactivate", "marker", "restore"}
    /\ todo \subseteq Targets
    /\ prev \in Plan \cup {None}
    /\ want \in Plan
    /\ staged \in Files
    /\ backup \in Files
    /\ markerBackup \in Plan \cup {None}
    /\ activated \subseteq Targets
    /\ undoFailed \in BOOLEAN
    /\ committed \in Plan \cup {None}
    /\ before \in Files
    /\ touched \subseteq Targets
    /\ altered \subseteq Targets
    /\ outcome \in {"none", "running", "done", "failed", "interrupted"}
    /\ interrupted \in BOOLEAN
    /\ faults \in 0..MaxFaults

\* What a completed projection leaves at a target nobody else touched.
Reconciled(t) ==
    CASE t \in Managed(want) -> want[t].hash
      [] t \in Managed(prev) \ Listed(want) -> Absent
      [] t \in Seeds(want) /\ t \in Managed(prev) -> want[t].hash
      [] t \in Seeds(want) \ Listed(prev) /\ before[t] = Absent -> want[t].hash
      [] OTHER -> before[t]

\* A projection that returns, and whose rollback if any met no error, leaves
\* the files and the marker of the new revision or everything as it was, but
\* for the targets somebody else touched meanwhile.
FullyOldOrFullyNew ==
    [][pc # "idle" /\ pc' = "idle" =>
         /\ outcome' = "done" =>
              /\ marker' = want
              /\ \A t \in Targets \ touched : file'[t] = Reconciled(t)
         /\ outcome' = "failed" =>
              /\ marker' = prev
              /\ \A t \in Targets \ touched : file'[t] = before[t]]_vars

\* Until a new projection commits, what the last one put in place is there, in
\* the backup, or in a transaction directory left behind: neither an error nor
\* a crash nor a rollback that fails half way destroys managed content.
NothingIsDestroyed ==
    \A t \in Managed(committed) :
        LET old == committed[t].hash IN
        \/ old \in {file[t], backup[t]}
        \/ <<t, old>> \in kept
        \/ t \in altered

\* The launcher changes or removes an existing file only if the marker it
\* validated manages it, or if it has put a file there in this projection:
\* every other file remains the user's, whatever happens meanwhile.
OnlyManagedFilesChange ==
    [][Launcher => \A t \in Targets :
         file[t] # Absent /\ file'[t] # file[t]
            => t \in Managed(prev) \cup activated]_vars

\* Unless the user changed a file, the revision projected last can be
\* projected again at the next launch.  Does not hold when the process ends
\* between the moves.
ProjectionIsRepeatable ==
    pc = "idle" /\ touched = {} /\ committed # None => Acceptable(marker, committed)

UninterruptedIsRepeatable == ~interrupted => ProjectionIsRepeatable

\* No managed file is destroyed, and what was committed can be projected
\* again, as long as the process did not end in between; the state keeps its
\* types throughout.  Covers apply_projection_transaction and rollback_moves.
CommittedIsKept == TypeOK /\ NothingIsDestroyed /\ UninterruptedIsRepeatable
=============================================================================
