------------------------------- MODULE Backups -------------------------------
(***************************************************************************)
(* Restore points of one profile (updates/service.rs) and the copies made  *)
(* from them (profiles/service.rs), while content is committed, a launch   *)
(* projects it into the folder, the player edits files and settings, and   *)
(* the process ends.                                                       *)
(*                                                                         *)
(* A file of the folder is Managed or one of the player's.  The projection *)
(* of content takes two steps here, as long as its marker is away;         *)
(* ContentProjection has it in full.                                       *)
(***************************************************************************)
EXTENDS Absence, Naturals, FiniteSets

CONSTANTS
    Paths,
    Managed,        \* the content of every file of a projection
    UserContents,
    TargetsOf,      \* [revision -> paths of its enabled content]
    Points,         \* identifiers of restore points
    Settings,
    MaxEdits, MaxCopies, MaxBackupCrashes

Trees == [Paths -> {None, Managed} \cup UserContents]
Projections == [old : SUBSET Paths, new : SUBSET Paths]
Restorations ==
    [point : Points, doc : [rev : DOMAIN TargetsOf, files : Trees],
     pc : {"create", "copy", "undo", "failed"}, before : Settings,
     withSettings : BOOLEAN, withFiles : BOOLEAN, excluded : SUBSET Paths, alone : BOOLEAN]

ASSUME BackupAssumption ==
    /\ Managed \notin UserContents \cup {None}
    /\ TargetsOf \in [DOMAIN TargetsOf -> SUBSET Paths] /\ DOMAIN TargetsOf # {}
    /\ Settings # {}
    /\ None \notin Projections \cup Restorations \cup Settings

VARIABLES
    folder,         \* [Paths -> content or None]
    marker,         \* targets in the projection marker; {} when it is away
    projecting,     \* None, or [old, new]: the targets of the marker that was
                    \* moved away, and those of the new one
    head,           \* active_revision_id
    points,         \* restore points: see Blank
    pins,           \* points with references to the cache
    settings,       \* settings.json
    restoring,      \* the restoration under way, or None
    copies,         \* restored profiles: [point, files, pc]
    edits, backupCrashes

backupVars == <<folder, marker, projecting, head, points, pins, settings,
                restoring, copies, edits, backupCrashes>>
profileVars == <<folder, marker, projecting, head>>
pointVars == <<points, pins>>
restoreVars == <<settings, restoring, copies>>
boundVars == <<edits, backupCrashes>>

Empty == [p \in Paths |-> None]
FilesIn(f) == {p \in Paths : f[p] # None}

(* excluded, left: what the command has still to do; torn: a projection was
   under way while it copied; stable: paths nobody changed since. *)
Blank == [pc |-> "none", rev |-> None, files |-> Empty, disk |-> Empty,
          settings |-> None, excluded |-> {}, left |-> {}, torn |-> FALSE,
          stable |-> {}]

BackupInit ==
    /\ folder \in [Paths -> {None} \cup UserContents]
    /\ marker = {} /\ projecting = None
    /\ head = (CHOOSE r \in DOMAIN TargetsOf : TRUE)
    /\ points = [b \in Points |-> Blank] /\ pins = {}
    /\ settings = (CHOOSE s \in Settings : TRUE)
    /\ restoring = None /\ copies = {}
    /\ edits = 0 /\ backupCrashes = 0

-----------------------------------------------------------------------------
(* create_restore_point *)

(* The active revision, and what the marker holds at this moment. *)
BeginPoint(b) ==
    /\ points[b].pc = "none"
    /\ points' = [points EXCEPT ![b] =
          [Blank EXCEPT !.pc = "copy", !.rev = head, !.excluded = marker,
                        !.left = Paths, !.torn = projecting # None,
                        !.stable = Paths]]
    /\ UNCHANGED <<profileVars, pins, restoreVars, boundVars>>

(* copy_instance_tree, file after file, in the order of the directory *)
CopyToPoint(b, p) ==
    /\ points[b].pc = "copy" /\ p \in points[b].left
    /\ points' = [points EXCEPT
          ![b].left = points[b].left \ {p},
          ![b].disk[p] = IF p \in points[b].excluded THEN None ELSE folder[p]]
    /\ UNCHANGED <<profileVars, pins, restoreVars, boundVars>>

(* A file that grew while it was copied, a limit, a full disk: everything is
   removed again. *)
PointFails(b) ==
    /\ points[b].pc \in {"copy", "named"}
    /\ points' = [points EXCEPT ![b] = [Blank EXCEPT !.pc = "failed"]]
    /\ pins' = pins \ {b}
    /\ UNCHANGED <<profileVars, restoreVars, boundVars>>

(* The document, and the rename that makes the point visible. *)
NamePoint(b) ==
    /\ points[b].pc = "copy" /\ points[b].left = {}
    /\ points' = [points EXCEPT ![b].pc = "named", ![b].files = points[b].disk,
                                ![b].settings = settings]
    /\ UNCHANGED <<profileVars, pins, restoreVars, boundVars>>

(* pin_revision_cache *)
PinPoint(b) ==
    /\ points[b].pc = "named"
    /\ points' = [points EXCEPT ![b].pc = "done"]
    /\ pins' = pins \cup {b}
    /\ UNCHANGED <<profileVars, restoreVars, boundVars>>

(* list_restore_points: all that have their name *)
Listed == {b \in Points : points[b].pc \in {"named", "done", "left"}}

-----------------------------------------------------------------------------
(* restore_backup and restore_profile_copy *)

Document(b) == [rev |-> points[b].rev, files |-> points[b].files]

(* verify_backup_files compares the tree with the document, when files are
   asked for.  The settings are saved before anything else. *)
BeginRestore(b, withSettings, withFiles) ==
    /\ restoring = None /\ b \in Listed /\ Cardinality(copies) < MaxCopies
    /\ withFiles => points[b].disk = points[b].files
    /\ restoring' = [point |-> b, doc |-> Document(b), pc |-> "create",
                     before |-> settings, withSettings |-> withSettings,
                     withFiles |-> withFiles, excluded |-> {}, alone |-> TRUE]
    /\ settings' = IF withSettings THEN points[b].settings ELSE settings
    /\ UNCHANGED <<profileVars, pointVars, copies, boundVars>>

(* read_runtime_revision: targets of the marker of now and of the revision
   are not copied.  Then the new profile gets its directory and row. *)
CreateCopy ==
    /\ restoring # None /\ restoring.pc = "create"
    /\ restoring' = [restoring EXCEPT !.pc = "copy",
           !.excluded = marker \cup TargetsOf[restoring.doc.rev]]
    /\ copies' = copies \cup {[doc |-> restoring.doc, files |-> Empty,
                               withFiles |-> restoring.withFiles, pc |-> "new"]}
    /\ UNCHANGED <<profileVars, pointVars, settings, boundVars>>

(* Without the comparison of the numbers. *)
CanRestoreListed(disk, excluded) ==
    \A p \in FilesIn(disk) \ excluded : disk[p] = restoring.doc.files[p]

(* copy_directory_tree hashes every copy, and the number of copies must be
   that of the document. *)
CanRestore(disk, excluded) ==
    /\ excluded \cap FilesIn(disk) = {}
    /\ disk = restoring.doc.files

New(c) == c.pc = "new"
Restored(disk) ==
    [doc |-> restoring.doc, withFiles |-> restoring.withFiles, pc |-> "active",
     files |-> [p \in Paths |-> IF restoring.withFiles /\ p \notin restoring.excluded
                                THEN disk[p] ELSE None]]

(* create_profile_internal after the copies: the operation that activates
   the new profile is one step here. *)
FinishRestore ==
    /\ restoring # None /\ restoring.pc = "copy"
    /\ restoring.withFiles => CanRestore(points[restoring.point].disk, restoring.excluded)
    /\ copies' = {c \in copies : ~New(c)} \cup {Restored(points[restoring.point].disk)}
    /\ restoring' = None
    /\ UNCHANGED <<profileVars, pointVars, settings, boundVars>>

(* cleanup_unactivated_profile: because of the files, or of anything else. *)
RestoreFails ==
    /\ restoring # None /\ restoring.pc \in {"create", "copy"}
    /\ copies' = {c \in copies : ~New(c)}
    /\ restoring' = [restoring EXCEPT !.pc = "undo"]
    /\ UNCHANGED <<profileVars, pointVars, settings, boundVars>>

UndoSettings ==
    /\ restoring # None /\ restoring.pc = "undo"
    /\ settings' = IF restoring.withSettings THEN restoring.before ELSE settings
    /\ restoring' = [restoring EXCEPT !.pc = "failed"]
    /\ UNCHANGED <<profileVars, pointVars, copies, boundVars>>

AnswerRestore ==
    /\ restoring # None /\ restoring.pc = "failed"
    /\ restoring' = None
    /\ UNCHANGED <<profileVars, pointVars, settings, copies, boundVars>>

-----------------------------------------------------------------------------
(* Everybody else *)

Touched(paths) == [b \in Points |-> [points[b] EXCEPT !.stable = @ \ paths]]
Projected(paths) ==
    [b \in Points |-> [Touched(paths)[b] EXCEPT !.torn = @ \/ points[b].pc = "copy"]]

CommitRevision(r) ==
    /\ r # head /\ edits < MaxEdits
    /\ head' = r /\ edits' = edits + 1
    /\ UNCHANGED <<folder, marker, projecting, pointVars, restoreVars, backupCrashes>>

Fits(targets) == \A p \in targets : folder[p] \in {None, Managed}

(* The launch moves what is no longer wanted away, and the marker. *)
BeginProjection ==
    /\ projecting = None /\ marker # TargetsOf[head]
    /\ Fits(TargetsOf[head])
    /\ projecting' = [old |-> marker, new |-> TargetsOf[head]] /\ marker' = {}
    /\ folder' = [p \in Paths |-> IF p \in marker \ TargetsOf[head] THEN None ELSE folder[p]]
    /\ points' = Projected(marker)
    /\ UNCHANGED <<head, pins, restoreVars, boundVars>>
(* The new files and the new marker; a file in the way sends all back. *)
EndProjection ==
    /\ projecting # None
    /\ LET targets == IF Fits(projecting.new) THEN projecting.new
                      ELSE {p \in projecting.old : Fits({p})}
       IN  /\ marker' = targets
           /\ folder' = [p \in Paths |-> IF p \in targets THEN Managed
                                         ELSE IF folder[p] = Managed THEN None
                                         ELSE folder[p]]
           /\ points' = Projected(targets \cup projecting.old)
    /\ projecting' = None
    /\ UNCHANGED <<head, pins, restoreVars, boundVars>>

EditFile(p, content) ==
    /\ folder[p] # Managed /\ folder[p] # content /\ edits < MaxEdits
    /\ folder' = [folder EXCEPT ![p] = content] /\ edits' = edits + 1
    /\ points' = Touched({p})
    /\ UNCHANGED <<marker, projecting, head, pins, restoreVars, backupCrashes>>

EditPoint(b, p, content) ==
    /\ b \in Listed /\ points[b].disk[p] # content /\ edits < MaxEdits
    /\ points' = [points EXCEPT ![b].disk[p] = content] /\ edits' = edits + 1
    /\ UNCHANGED <<profileVars, pins, restoreVars, backupCrashes>>

SaveSettings(s) ==
    /\ s # settings /\ edits < MaxEdits
    /\ settings' = s /\ edits' = edits + 1
    /\ restoring' = IF restoring = None THEN None ELSE [restoring EXCEPT !.alone = FALSE]
    /\ UNCHANGED <<profileVars, pointVars, copies, backupCrashes>>

(* What a command had not finished stays as it is; the operation engine
   removes nothing, for no operation was planned yet. *)
BackupCrash ==
    /\ backupCrashes < MaxBackupCrashes
    /\ backupCrashes' = backupCrashes + 1
    /\ points' = [b \in Points |->
          CASE points[b].pc = "copy" -> [Blank EXCEPT !.pc = "failed"]
            [] points[b].pc = "named" -> [points[b] EXCEPT !.pc = "left"]
            [] OTHER -> points[b]]
    /\ restoring' = None
    /\ UNCHANGED <<profileVars, pins, settings, copies, edits>>

BackupNext ==
    \/ \E b \in Points :
          \/ BeginPoint(b) \/ PointFails(b) \/ NamePoint(b) \/ PinPoint(b)
          \/ \E p \in Paths : CopyToPoint(b, p)
          \/ \E ws, wf \in BOOLEAN : BeginRestore(b, ws, wf)
          \/ \E p \in Paths, c \in {None} \cup UserContents : EditPoint(b, p, c)
    \/ CreateCopy \/ FinishRestore \/ RestoreFails \/ UndoSettings \/ AnswerRestore
    \/ \E r \in DOMAIN TargetsOf : CommitRevision(r)
    \/ BeginProjection \/ EndProjection
    \/ \E p \in Paths, c \in {None} \cup UserContents : EditFile(p, c)
    \/ \E s \in Settings : SaveSettings(s)
    \/ BackupCrash

BackupSpec == BackupInit /\ [][BackupNext]_backupVars

-----------------------------------------------------------------------------
(* A restore point that is listed keeps its cached files reachable, unless
   the process ended in the moment between its name and its pins; its
   document has every file of the player that nobody changed meanwhile, and
   a managed file only when a projection ran while it was made.  A
   profile restored with files has exactly those of the document, none at a
   target of the revision.  A restoration that fails leaves no profile, and
   the settings of before unless somebody else saved some.  Covers
   create_restore_point, restore_backup and restore_profile_copy. *)
BackupsHold ==
    /\ \A b \in Listed :
          /\ b \in pins \/ points[b].pc = "named" \/ backupCrashes > 0
          /\ \A p \in Paths :
                /\ points[b].files[p] = Managed => points[b].torn
                /\ p \in points[b].stable /\ p \notin points[b].excluded =>
                       points[b].files[p] = folder[p]
    /\ pins \subseteq Listed
    /\ \A c \in copies :
          /\ c.pc = "active" /\ c.withFiles =>
                /\ c.files = c.doc.files
                /\ FilesIn(c.files) \cap TargetsOf[c.doc.rev] = {}
          /\ New(c) => (restoring # None /\ restoring.pc = "copy") \/ backupCrashes > 0
    /\ restoring # None /\ restoring.pc = "failed" /\ restoring.alone =>
           settings = restoring.before

(* PHASE-7-ARCHITECTURE.md: immutable content is not part of a restore
   point.  Does not hold: create_restore_point takes whatever the marker
   does not name at the moment it looks, and what is projected after. *)
PointsHoldNoManagedFile ==
    \A b \in Listed, p \in Paths : points[b].files[p] # Managed
=============================================================================
