----------------------------- MODULE Operations -----------------------------
(***************************************************************************)
(* The operation engine: how a profile gets a new revision, how a failed   *)
(* or interrupted attempt is undone, and how the next start recovers.      *)
(*                                                                         *)
(* Every operation mints exactly one revision, so a member of Ops stands   *)
(* for the operation row, the revision it creates, its staging directory   *)
(* and its revision directory.  Commands run on the runtime's thread pool  *)
(* with no lock per profile; pc[o] is the next statement of the thread     *)
(* executing operation o, or of the recovery pass handling it at startup.  *)
(* Everything else but mode and todo is on disk and survives a crash.      *)
(***************************************************************************)
EXTENDS Integers, FiniteSets

CONSTANTS
    Ops,          \* operations, and the revisions they create
    Profiles,     \* profile identifiers
    None,         \* SQL NULL: no revision, no projection, no profile
    Baseline,     \* the revision each profile was installed with earlier, or None
    MaxFaults,    \* bound: I/O errors and crashes in one behaviour
    Serialized,   \* TRUE: callers never overlap two operations of one profile
    Corruptible   \* operations whose stored plan may become unreadable

ASSUME OperationsAssumption ==
    /\ None \notin Ops
    /\ None \notin Profiles
    /\ Baseline \in [Profiles -> Ops \cup {None}]
    /\ \A p, q \in Profiles : Baseline[p] = Baseline[q] /\ Baseline[p] # None => p = q
    /\ MaxFaults \in Nat
    /\ Serialized \in BOOLEAN
    /\ Corruptible \subseteq Ops

VARIABLES
    exists,      \* rows of profiles
    active,      \* profiles.active_revision_id
    projection,  \* profile_runtime_projection.revision_id
    status,      \* profile_revisions.status, "none" where there is no row
    opState,     \* operations.state, "none" before the row is inserted
    owner,       \* operations.profile_id
    started,     \* operations.started_at_unix, in whole seconds
    plan,        \* operations.planned_changes_json
    corrupt,     \* operations whose stored plan no longer parses
    refs,        \* revisions whose cache references are bound
    staged,      \* operations with a directory in staging-operations
    dir,         \* the revision directory below profiles/<id>/revisions
    pc, mode, todo,
    faults       \* I/O errors and crashes so far

database == <<exists, active, projection, status, opState, owner, started,
              plan, corrupt, refs>>
files    == <<staged, dir>>
vars     == <<exists, active, projection, status, opState, owner, started,
              plan, corrupt, refs, staged, dir, pc, mode, todo, faults>>

Terminal  == {"completed", "rolled-back", "failed"}
Running   == {"planned", "staging", "verifying", "ready-to-commit",
              "committing", "validating", "rolling-back"}
RunSteps  == {"execute", "stage", "verify", "ready", "commit", "move",
              "activate", "validate", "check", "reference", "clean", "complete"}
UndoSteps == {"rollback", "inspect", "restore", "unreference", "remove",
              "sweep", "settle", "detach", "purge"}
AtRest    == {"idle", "done"}

NoPlan == [profile |-> None, prev |-> None, projects |-> FALSE,
           prevProjection |-> None, cleanup |-> FALSE]

Unfinished(o) == opState[o] \in Running
Settled(o)    == pc[o] \in AtRest /\ ~Unfinished(o)

BaselineOps == {o \in Ops : \E p \in Profiles : Baseline[p] = o}

BaselinePlan(projects) ==
    [o \in Ops |-> IF o \in BaselineOps
                   THEN [NoPlan EXCEPT !.profile = CHOOSE p \in Profiles : Baseline[p] = o,
                                       !.projects = projects]
                   ELSE NoPlan]

\* A start without unfinished operations; profiles may be installed already.
Init ==
    \E projects \in BOOLEAN :
    /\ exists = {p \in Profiles : Baseline[p] # None}
    /\ active = Baseline
    /\ projection = IF projects THEN Baseline ELSE [p \in Profiles |-> None]
    /\ status = [o \in Ops |-> IF o \in BaselineOps THEN "committed" ELSE "none"]
    /\ opState = [o \in Ops |-> IF o \in BaselineOps THEN "completed" ELSE "none"]
    /\ plan = BaselinePlan(projects)
    /\ owner = [o \in Ops |-> plan[o].profile]
    /\ started = [o \in Ops |-> 0]
    /\ corrupt = {}
    /\ refs = BaselineOps
    /\ staged = {}
    /\ dir = [o \in Ops |-> IF o \in BaselineOps THEN "full" ELSE "absent"]
    /\ pc = [o \in Ops |-> IF o \in BaselineOps THEN "done" ELSE "idle"]
    /\ mode = "up"
    /\ todo = {}
    /\ faults = 0

-----------------------------------------------------------------------------
(* What each statement needs in order to succeed.  A statement whose        *)
(* condition is false always returns an error; one whose condition is true  *)
(* may still fail on I/O (disk, database, a cache blob that does not        *)
(* verify), which counts against MaxFaults.                                 *)

\* plan_profile_operation: the plan is still based on the current state.
PlanIsCurrent(o) ==
    /\ plan[o].profile \in exists
    /\ active[plan[o].profile] = plan[o].prev
    /\ projection[plan[o].profile] = plan[o].prevProjection
    /\ plan[o].cleanup => plan[o].prev = None

\* Mutant: the active pointer is overwritten whatever it is.
CanActivateBlindly(o) ==
    plan[o].profile \in exists /\ status[o] = "none"

\* The compare-and-swap of activate_revision and the primary key of the row.
CanActivate(o) ==
    /\ plan[o].profile \in exists
    /\ active[plan[o].profile] = plan[o].prev
    /\ status[o] = "none"

\* validate_active: row, pointer and files of the new revision agree.
ActiveIsValid(o) ==
    /\ plan[o].profile \in exists
    /\ active[plan[o].profile] = o
    /\ status[o] = "committed"
    /\ dir[o] = "full"

\* Mutant: a rollback does not compare the active pointer again.
CanRestoreBlindly(o) ==
    /\ plan[o].profile \in exists
    /\ plan[o].prev # None => status[plan[o].prev] = "committed"

\* The compare-and-swap of restore_active_revision and the trigger that lets
\* only a committed revision of the same profile become active.
CanRestore(o) ==
    /\ plan[o].profile \in exists
    /\ active[plan[o].profile] = o
    /\ plan[o].prev # None =>
         /\ status[plan[o].prev] = "committed"
         /\ plan[plan[o].prev].profile = plan[o].profile

\* delete_unactivated_profile
CanDiscard(o) ==
    /\ plan[o].profile \in exists
    /\ active[plan[o].profile] = None
    /\ \A x \in Ops : owner[x] # plan[o].profile

\* detach_and_delete_incomplete_profile; operations.profile_id is a foreign
\* key with ON DELETE RESTRICT, so another operation of the profile blocks it.
CanDetach(o) ==
    /\ plan[o].profile \in exists
    /\ active[plan[o].profile] = None
    /\ opState[o] \in {"rolled-back", "failed"}
    /\ owner[o] = plan[o].profile
    /\ \A x \in Ops \ {o} : owner[x] # plan[o].profile

Passes(o) ==
    CASE pc[o] = "planned"  -> PlanIsCurrent(o)
      [] pc[o] = "discard"  -> CanDiscard(o)
      [] pc[o] = "stage"    -> o \notin staged
      [] pc[o] = "ready"    -> o \in staged
      [] pc[o] = "move"     -> o \in staged /\ dir[o] = "absent"
      [] pc[o] = "activate" -> CanActivate(o)
      [] pc[o] = "check"    -> ActiveIsValid(o)
      [] pc[o] = "restore"  -> CanRestore(o)
      [] pc[o] = "detach"   -> CanDetach(o)
      [] OTHER              -> TRUE

\* The error path of the current statement is taken.
Errs(o) ==
    /\ Passes(o) => faults < MaxFaults
    /\ faults' = IF Passes(o) THEN faults + 1 ELSE faults

At(o, step)   == pc[o] = step /\ mode # "down"
Goto(o, step) == pc' = [pc EXCEPT ![o] = step]

\* One statement that only moves the operation row from one state to another.
Transition(o, step, next, state) ==
    /\ At(o, step)
    /\ opState' = [opState EXCEPT ![o] = state]
    /\ Goto(o, next)
    /\ UNCHANGED <<exists, active, projection, status, owner, started, plan,
                   corrupt, refs, staged, dir, mode, todo, faults>>
-----------------------------------------------------------------------------
(* Planning *)

MayStart(p) ==
    Serialized => \A x \in Ops : plan[x].profile = p => Settled(x)

\* create_profile_internal: the row of a new profile, then the plan of its
\* first revision.  A profile identifier is never used twice.
Create(o, p) ==
    /\ mode = "up"
    /\ pc[o] = "idle"
    /\ p \notin exists
    /\ \A x \in Ops : plan[x].profile # p
    /\ exists' = exists \cup {p}
    /\ \E projects \in BOOLEAN :
         plan' = [plan EXCEPT ![o] =
                   [profile |-> p, prev |-> None, projects |-> projects,
                    prevProjection |-> None, cleanup |-> TRUE]]
    /\ Goto(o, "planned")
    /\ UNCHANGED <<active, projection, status, opState, owner, started,
                   corrupt, refs, staged, dir, mode, todo, faults>>

\* list_profiles shows a profile, and callers know its identifier, once a
\* revision of it has been active.
Listed(p) == p \in exists /\ \E x \in Ops : status[x] # "none" /\ plan[x].profile = p

\* Content, runtime and rollback commands build a plan on the active revision.
\* A plan for a revision without a runtime carries no projection at all.
Prepare(o, p) ==
    /\ mode = "up"
    /\ pc[o] = "idle"
    /\ Listed(p)
    /\ MayStart(p)
    /\ \E projects \in BOOLEAN :
         plan' = [plan EXCEPT ![o] =
                   [profile |-> p, prev |-> active[p], projects |-> projects,
                    prevProjection |-> IF projects THEN projection[p] ELSE None,
                    cleanup |-> FALSE]]
    /\ Goto(o, "planned")
    /\ UNCHANGED <<exists, active, projection, status, opState, owner, started,
                   corrupt, refs, staged, dir, mode, todo, faults>>

\* started_at_unix has one-second resolution: a new operation falls into the
\* second of the latest one or into a later one.
InsertOperation(o) ==
    /\ opState' = [opState EXCEPT ![o] = "planned"]
    /\ owner' = [owner EXCEPT ![o] = plan[o].profile]
    /\ \E x \in Ops, later \in {0, 1} :
         /\ \A y \in Ops : started[y] <= started[x] + later
         /\ started[x] + later > 0
         /\ started' = [started EXCEPT ![o] = started[x] + later]

Register(o) ==
    /\ At(o, "planned")
    /\ PlanIsCurrent(o)
    /\ InsertOperation(o)
    /\ Goto(o, "execute")
    /\ UNCHANGED <<exists, active, projection, status, plan, corrupt, refs,
                   staged, dir, mode, todo, faults>>

\* The row is inserted but its first journal entry is not: planning reports
\* an error and nobody executes the operation.
RegisterTorn(o) ==
    /\ At(o, "planned")
    /\ PlanIsCurrent(o)
    /\ faults < MaxFaults
    /\ faults' = faults + 1
    /\ InsertOperation(o)
    /\ Goto(o, IF plan[o].cleanup THEN "discard" ELSE "done")
    /\ UNCHANGED <<exists, active, projection, status, plan, corrupt, refs,
                   staged, dir, mode, todo>>

Refuse(o) ==
    /\ At(o, "planned")
    /\ Errs(o)
    /\ Goto(o, IF plan[o].cleanup THEN "discard" ELSE "done")
    /\ UNCHANGED <<database, files, mode, todo>>

\* DELETE FROM profiles: revision and projection rows of the profile go with
\* it (ON DELETE CASCADE).
DeleteProfile(p) ==
    /\ exists' = exists \ {p}
    /\ status' = [x \in Ops |-> IF plan[x].profile = p THEN "none" ELSE status[x]]
    /\ projection' = [projection EXCEPT ![p] = None]

\* remove_tree of profiles/<id>
RemoveProfileTree(p) ==
    dir' = [x \in Ops |-> IF plan[x].profile = p THEN "absent" ELSE dir[x]]

\* cleanup_unactivated_profile after a creation that never got a plan: the
\* tree is removed whether or not the row could be deleted.
Discard(o) ==
    /\ At(o, "discard")
    /\ CanDiscard(o)
    /\ DeleteProfile(plan[o].profile)
    /\ RemoveProfileTree(plan[o].profile)
    /\ Goto(o, "done")
    /\ UNCHANGED <<active, opState, owner, started, plan, corrupt, refs,
                   staged, mode, todo, faults>>

DiscardFails(o) ==
    /\ At(o, "discard")
    /\ Errs(o)
    /\ RemoveProfileTree(plan[o].profile)
    /\ Goto(o, "done")
    /\ UNCHANGED <<database, staged, mode, todo>>
-----------------------------------------------------------------------------
(* OperationEngine::run *)

BeginStaging(o)   == Transition(o, "execute", "stage", "staging")
BeginVerifying(o) == Transition(o, "verify", "ready", "verifying")

Stage(o) ==
    /\ At(o, "stage")
    /\ o \notin staged
    /\ staged' = staged \cup {o}
    /\ Goto(o, "verify")
    /\ UNCHANGED <<database, dir, mode, todo, faults>>

MarkReady(o) ==
    /\ o \in staged
    /\ Transition(o, "ready", "commit", "ready-to-commit")

BeginCommit(o) == Transition(o, "commit", "move", "committing")

\* commit_revision_directory: one rename, refused when the target exists.
MoveRevision(o) ==
    /\ At(o, "move")
    /\ o \in staged
    /\ dir[o] = "absent"
    /\ dir' = [dir EXCEPT ![o] = "full"]
    /\ Goto(o, "activate")
    /\ UNCHANGED <<database, staged, mode, todo, faults>>

\* One transaction: revision row, active pointer, runtime projection.
Activate(o) ==
    /\ At(o, "activate")
    /\ CanActivate(o)
    /\ status' = [status EXCEPT ![o] = "committed"]
    /\ active' = [active EXCEPT ![plan[o].profile] = o]
    /\ projection' = IF plan[o].projects
                     THEN [projection EXCEPT ![plan[o].profile] = o]
                     ELSE projection
    /\ Goto(o, "validate")
    /\ UNCHANGED <<exists, opState, owner, started, plan, corrupt, refs,
                   staged, dir, mode, todo, faults>>

BeginValidating(o) == Transition(o, "validate", "check", "validating")

ValidateActive(o) ==
    /\ At(o, "check")
    /\ ActiveIsValid(o)
    /\ Goto(o, "reference")
    /\ UNCHANGED <<database, files, mode, todo, faults>>

ReplaceReferences(o) ==
    /\ At(o, "reference")
    /\ refs' = refs \cup {o}
    /\ Goto(o, "clean")
    /\ UNCHANGED <<exists, active, projection, status, opState, owner, started,
                   plan, corrupt, staged, dir, mode, todo, faults>>

CleanStaging(o) ==
    /\ At(o, "clean")
    /\ staged' = staged \ {o}
    /\ Goto(o, "complete")
    /\ UNCHANGED <<database, dir, mode, todo, faults>>

\* Mutant: a state name the database does not know.
CompleteMisspelt(o) == Transition(o, "complete", "done", "complete")

Complete(o) == Transition(o, "complete", "done", "completed")

\* Recovery propagates an error of its last two statements and startup fails;
\* every other error of run, and of recovery's own checks, leads to rollback.
AbortsStartup(o) == mode = "recovering" /\ pc[o] \in {"clean", "complete"}

\* The error a statement returns; a failed Stage may leave some files behind.
RunFails(o) ==
    /\ pc[o] \in RunSteps
    /\ mode # "down"
    /\ ~AbortsStartup(o)
    /\ Errs(o)
    /\ \/ staged' = staged
       \/ pc[o] = "stage" /\ staged' = staged \cup {o}
    /\ Goto(o, "rollback")
    /\ UNCHANGED <<database, dir, mode, todo>>
-----------------------------------------------------------------------------
(* OperationEngine::rollback; recovery of an unreadable plan runs the same   *)
(* statements from "inspect" on, without the plan's projection and profile   *)
(* cleanup, and ends in "failed".                                            *)

BeginRollback(o) == Transition(o, "rollback", "inspect", "rolling-back")

\* Mutant: a revision that is no longer active keeps its files and references.
InspectActiveKeepingFiles(o) ==
    /\ At(o, "inspect")
    /\ Goto(o, IF plan[o].profile \in exists /\ active[plan[o].profile] = o
               THEN "restore" ELSE "sweep")
    /\ UNCHANGED <<database, files, mode, todo, faults>>

\* new_is_active is read here and used by the next statement.
InspectActive(o) ==
    /\ At(o, "inspect")
    /\ Goto(o, IF plan[o].profile \in exists /\ active[plan[o].profile] = o
               THEN "restore" ELSE "unreference")
    /\ UNCHANGED <<database, files, mode, todo, faults>>

\* Mutant: the projection of the undone revision stays.
RestoreKeepingProjection(o) ==
    /\ At(o, "restore")
    /\ CanRestore(o)
    /\ active' = [active EXCEPT ![plan[o].profile] = plan[o].prev]
    /\ status' = [status EXCEPT ![o] = "invalidated"]
    /\ projection' = [projection EXCEPT ![plan[o].profile] =
         IF plan[o].prevProjection # None THEN plan[o].prevProjection ELSE @]
    /\ Goto(o, "unreference")
    /\ UNCHANGED <<exists, opState, owner, started, plan, corrupt, refs,
                   staged, dir, mode, todo, faults>>

\* Mutant: the row of the undone revision stays committed.
RestoreKeepingRow(o) ==
    /\ At(o, "restore")
    /\ CanRestore(o)
    /\ active' = [active EXCEPT ![plan[o].profile] = plan[o].prev]
    /\ projection' = [projection EXCEPT ![plan[o].profile] = plan[o].prevProjection]
    /\ Goto(o, "unreference")
    /\ UNCHANGED <<exists, status, opState, owner, started, plan, corrupt, refs,
                   staged, dir, mode, todo, faults>>

\* Mutant: the plan's memory of the previous projection is ignored.
RestoreDroppingProjection(o) ==
    /\ At(o, "restore")
    /\ CanRestore(o)
    /\ active' = [active EXCEPT ![plan[o].profile] = plan[o].prev]
    /\ status' = [status EXCEPT ![o] = "invalidated"]
    /\ projection' = [projection EXCEPT ![plan[o].profile] = IF @ = o THEN None ELSE @]
    /\ Goto(o, "unreference")
    /\ UNCHANGED <<exists, opState, owner, started, plan, corrupt, refs,
                   staged, dir, mode, todo, faults>>

\* Mutant: the rows of all revisions of the profile are invalidated.
RestoreInvalidatingAll(o) ==
    /\ At(o, "restore")
    /\ CanRestore(o)
    /\ active' = [active EXCEPT ![plan[o].profile] = plan[o].prev]
    /\ status' = [x \in Ops |-> IF status[x] = "committed"
                                   /\ plan[x].profile = plan[o].profile
                                THEN "invalidated" ELSE status[x]]
    /\ projection' = [projection EXCEPT ![plan[o].profile] = plan[o].prevProjection]
    /\ Goto(o, "unreference")
    /\ UNCHANGED <<exists, opState, owner, started, plan, corrupt, refs,
                   staged, dir, mode, todo, faults>>

\* One transaction: pointer back, row invalidated (a trigger then drops its
\* projection), previous projection written.
RestorePrevious(o) ==
    /\ At(o, "restore")
    /\ CanRestore(o)
    /\ active' = [active EXCEPT ![plan[o].profile] = plan[o].prev]
    /\ status' = [status EXCEPT ![o] = "invalidated"]
    /\ projection' = [projection EXCEPT ![plan[o].profile] =
         IF o \notin corrupt /\ plan[o].prevProjection # None
         THEN plan[o].prevProjection
         ELSE IF @ = o THEN None ELSE @]
    /\ Goto(o, "unreference")
    /\ UNCHANGED <<exists, opState, owner, started, plan, corrupt, refs,
                   staged, dir, mode, todo, faults>>

RemoveReferences(o) ==
    /\ At(o, "unreference")
    /\ refs' = refs \ {o}
    /\ Goto(o, "remove")
    /\ UNCHANGED <<exists, active, projection, status, opState, owner, started,
                   plan, corrupt, staged, dir, mode, todo, faults>>

\* remove_tree deletes file by file: the directory is incomplete, then gone.
RemoveRevision(o) ==
    /\ At(o, "remove")
    /\ \/ /\ dir[o] = "full"
          /\ dir' = [dir EXCEPT ![o] = "partial"]
          /\ UNCHANGED pc
       \/ /\ dir[o] # "full"
          /\ dir' = [dir EXCEPT ![o] = "absent"]
          /\ Goto(o, "sweep")
    /\ UNCHANGED <<database, staged, mode, todo, faults>>

SweepStaging(o) ==
    /\ At(o, "sweep")
    /\ staged' = staged \ {o}
    /\ Goto(o, "settle")
    /\ UNCHANGED <<database, dir, mode, todo, faults>>

\* Mutant: an operation with an unreadable plan is cleaned up but not settled.
SettleReadable(o) ==
    \/ /\ o \in corrupt
       /\ Transition(o, "settle", "done", opState[o])
    \/ /\ o \notin corrupt
       /\ Transition(o, "settle",
                     IF plan[o].cleanup THEN "detach" ELSE "done", "rolled-back")

Settle(o) ==
    \/ /\ o \in corrupt
       /\ Transition(o, "settle", "done", "failed")
    \/ /\ o \notin corrupt
       /\ Transition(o, "settle",
                     IF plan[o].cleanup THEN "detach" ELSE "done", "rolled-back")

\* detach_and_delete_incomplete_profile, in one transaction.
DetachProfile(o) ==
    /\ At(o, "detach")
    /\ CanDetach(o)
    /\ DeleteProfile(plan[o].profile)
    /\ owner' = [owner EXCEPT ![o] = None]
    /\ Goto(o, "purge")
    /\ UNCHANGED <<active, opState, started, plan, corrupt, refs, staged, dir,
                   mode, todo, faults>>

PurgeProfile(o) ==
    /\ At(o, "purge")
    /\ RemoveProfileTree(plan[o].profile)
    /\ Goto(o, "done")
    /\ UNCHANGED <<database, staged, mode, todo, faults>>

\* An error inside rollback: the caller gets it and the operation stays as it
\* is until the next start.
UndoFails(o) ==
    /\ mode = "up"
    /\ pc[o] \in UndoSteps
    /\ Errs(o)
    /\ Goto(o, "done")
    /\ UNCHANGED <<database, files, mode, todo>>
-----------------------------------------------------------------------------
(* Crash, restart and OperationEngine::recover_incomplete *)

Halt ==
    /\ mode' = "down"
    /\ todo' = {}
    /\ pc' = [o \in Ops |-> IF pc[o] = "idle" THEN "idle" ELSE "done"]

\* The process ends between two statements, or in the middle of Stage.
Crash ==
    /\ mode # "down"
    /\ faults < MaxFaults
    /\ faults' = faults + 1
    /\ Halt
    /\ \E torn \in SUBSET {o \in Ops : pc[o] = "stage"} : staged' = staged \cup torn
    /\ UNCHANGED <<database, dir>>

\* While the process is not running a stored plan may become unreadable (a
\* damaged page, a launcher whose plan format differs).
CorruptPlan(o) ==
    /\ mode = "down"
    /\ o \in Corruptible \ corrupt
    /\ Unfinished(o)
    /\ corrupt' = corrupt \cup {o}
    /\ UNCHANGED <<exists, active, projection, status, opState, owner, started,
                   plan, refs, staged, dir, pc, mode, todo, faults>>

Restart ==
    /\ mode = "down"
    /\ mode' = "recovering"
    /\ todo' = {o \in Ops : Unfinished(o)}
    /\ UNCHANGED <<database, files, pc, faults>>

\* Mutant: a commit that was interrupted is taken for a finished one.
RecoverTrusting(o) ==
    /\ mode = "recovering"
    /\ \A x \in Ops : pc[x] \in AtRest
    /\ o \in todo
    /\ todo' = todo \ {o}
    /\ Goto(o, IF opState[o] \in {"committing", "validating"} THEN "clean"
               ELSE "rollback")
    /\ UNCHANGED <<database, files, mode, faults>>

\* Mutant: an interrupted commit is removed without restoring the pointer.
RecoverWithoutRestore(o) ==
    /\ mode = "recovering"
    /\ \A x \in Ops : pc[x] \in AtRest
    /\ o \in todo
    /\ todo' = todo \ {o}
    /\ Goto(o, IF opState[o] \in {"committing", "validating"} THEN "unreference"
               ELSE "rollback")
    /\ UNCHANGED <<database, files, mode, faults>>

\* Oldest first; operations of the same second in the order of their random
\* identifiers.
Recover(o) ==
    /\ mode = "recovering"
    /\ \A x \in Ops : pc[x] \in AtRest
    /\ o \in todo
    /\ \A x \in todo : started[o] <= started[x]
    /\ todo' = todo \ {o}
    /\ Goto(o, IF o \in corrupt THEN "inspect"
               ELSE IF opState[o] \in {"committing", "validating"} THEN "check"
               ELSE "rollback")
    /\ UNCHANGED <<database, files, mode, faults>>

FinishRecovery ==
    /\ mode = "recovering"
    /\ todo = {}
    /\ \A x \in Ops : pc[x] \in AtRest
    /\ mode' = "up"
    /\ UNCHANGED <<database, files, pc, todo, faults>>

\* recover_incomplete returns the error, CoreServices::open fails, the
\* process ends.
RecoveryFails(o) ==
    /\ mode = "recovering"
    /\ pc[o] \in UndoSteps \/ AbortsStartup(o)
    /\ Errs(o)
    /\ Halt
    /\ UNCHANGED <<database, files>>
-----------------------------------------------------------------------------
Run(o) ==
    \/ BeginStaging(o) \/ Stage(o) \/ BeginVerifying(o) \/ MarkReady(o)
    \/ BeginCommit(o) \/ MoveRevision(o) \/ Activate(o) \/ BeginValidating(o)
    \/ ValidateActive(o) \/ ReplaceReferences(o) \/ CleanStaging(o)
    \/ Complete(o) \/ RunFails(o)

Rollback(o) ==
    \/ BeginRollback(o) \/ InspectActive(o) \/ RestorePrevious(o)
    \/ RemoveReferences(o) \/ RemoveRevision(o) \/ SweepStaging(o)
    \/ Settle(o) \/ DetachProfile(o) \/ PurgeProfile(o) \/ UndoFails(o)

Planning(o) ==
    \/ \E p \in Profiles : Create(o, p) \/ Prepare(o, p)
    \/ Register(o) \/ RegisterTorn(o) \/ Refuse(o) \/ Discard(o)
    \/ DiscardFails(o)

Next ==
    \/ \E o \in Ops :
         \/ Planning(o) \/ Run(o) \/ Rollback(o)
         \/ CorruptPlan(o) \/ Recover(o) \/ RecoveryFails(o)
    \/ Crash \/ Restart \/ FinishRecovery

Spec == Init /\ [][Next]_vars

\* A started thread runs on, the user starts the launcher again, and startup
\* works through its list: each is sequential code without waiting.
Fairness ==
    /\ \A o \in Ops : WF_vars(Run(o)) /\ WF_vars(Rollback(o))
                      /\ WF_vars(Recover(o)) /\ WF_vars(RecoveryFails(o))
    /\ WF_vars(Restart)
    /\ WF_vars(FinishRecovery)

FairSpec == Spec /\ Fairness
-----------------------------------------------------------------------------
Plans == [profile : Profiles \cup {None}, prev : Ops \cup {None},
          projects : BOOLEAN, prevProjection : Ops \cup {None},
          cleanup : BOOLEAN]

\* Every variable has its type.
TypeOK ==
    /\ exists \subseteq Profiles
    /\ active \in [Profiles -> Ops \cup {None}]
    /\ projection \in [Profiles -> Ops \cup {None}]
    /\ status \in [Ops -> {"none", "committed", "invalidated"}]
    /\ opState \in [Ops -> {"none"} \cup Running \cup Terminal]
    /\ owner \in [Ops -> Profiles \cup {None}]
    /\ started \in [Ops -> Nat]
    /\ plan \in [Ops -> Plans]
    /\ corrupt \subseteq Ops
    /\ refs \subseteq Ops
    /\ staged \subseteq Ops
    /\ dir \in [Ops -> {"absent", "partial", "full"}]
    /\ pc \in [Ops -> AtRest \cup {"planned", "discard"} \cup RunSteps \cup UndoSteps]
    /\ mode \in {"up", "down", "recovering"}
    /\ todo \subseteq Ops
    /\ faults \in 0..MaxFaults

Committed == {o \in Ops : status[o] = "committed"}

\* The committed revisions of a profile form one chain through their plans'
\* previous revision: each has at most one committed successor, each is based
\* on a committed revision of the same profile or on none, and the active one
\* has no successor.  Holds however operations of one profile overlap.
HistoryIsChain ==
    /\ \A p \in Profiles :
         active[p] # None => /\ active[p] \in Committed
                             /\ plan[active[p]].profile = p
    /\ \A o \in Committed :
         /\ plan[o].profile \in Profiles
         /\ plan[o].prev # active[plan[o].profile]
         /\ plan[o].prev # None => /\ plan[o].prev \in Committed
                                   /\ plan[plan[o].prev].profile = plan[o].profile
    /\ \A o, x \in Committed :
         plan[o].profile = plan[x].profile /\ plan[o].prev = plan[x].prev => o = x

\* restore_active_revision is never refused by the trigger that guards the
\* active pointer: what a rollback wants to return to is always committed.  If
\* it were not, startup recovery would fail on every start.
RollbackNeverBlocked ==
    \A o \in Ops : pc[o] = "restore" /\ plan[o].profile \in exists
                   /\ active[plan[o].profile] = o => CanRestore(o)

\* What was appended can always be taken back, in any order of the recoveries:
\* the history is a chain, and the database never refuses the way down.
\* Covers activate_revision and restore_active_revision and their triggers.
HistoryCanBeUndone == HistoryIsChain /\ RollbackNeverBlocked

\* The runtime projection of a profile is that of its active revision or
\* missing, across overlapping activations, rollbacks and recoveries.
ProjectionTracksActive ==
    \A p \in Profiles : projection[p] \in {None, active[p]}

\* Nothing undoes a completed operation: its row stays committed, its files
\* complete, its cache references bound, and no staging is left.
CompletedIsDurable ==
    \A o \in Ops : opState[o] = "completed" =>
        /\ status[o] = "committed"
        /\ dir[o] = "full"
        /\ o \in refs
        /\ o \notin staged

\* An operation that ended without success has no staging, no revision
\* directory and no cache references left.
AbortLeavesNoFiles ==
    \A o \in Ops : opState[o] \in {"rolled-back", "failed"} =>
        dir[o] = "absent" /\ o \notin staged /\ o \notin refs

\* Whatever failed or crashed on the way, an operation that has ended is there
\* entirely or has left nothing.  Covers run, rollback and recover_incomplete.
EndsAreWhole == CompletedIsDurable /\ AbortLeavesNoFiles

Quiescent == mode = "up" /\ \A o \in Ops : Settled(o)

\* Once nothing is in flight a profile has no revision or the complete result
\* of an operation that succeeded, with the runtime projection that revision
\* had (unless the plan that remembers it cannot be read), and the row of what
\* was undone is invalidated: fully old or fully new.
AllOrNothing ==
    /\ Quiescent => \A p \in exists : active[p] # None =>
          LET o == active[p]
          IN  /\ opState[o] = "completed" /\ dir[o] = "full"
              /\ corrupt = {} /\ plan[o].projects => projection[p] = o
    /\ \A o \in Ops : opState[o] = "rolled-back" => status[o] # "committed"

\* A profile whose first revision could not be activated is removed again.
\* Does not hold when the process ends right after the row was made.
FailedCreationLeavesNoProfile ==
    Quiescent => \A p \in exists : active[p] # None

\* A revision whose operation settled unsuccessfully never becomes active
\* again: rolling back a later operation must not resurrect it.
NoResurrection ==
    [][\A p \in Profiles :
         active'[p] # active[p] /\ active'[p] # None
            => opState[active'[p]] \notin {"rolled-back", "failed"}]_vars

\* After a crash the launcher eventually comes up with no unfinished operation.
RecoveryConverges ==
    mode = "down" ~> (mode = "up" /\ \A o \in Ops : ~Unfinished(o))

-----------------------------------------------------------------------------
(* The engine implements the history of profile revisions. *)

ParentOf == [o \in Ops |-> IF status[o] = "none" THEN None ELSE plan[o].prev]
HomeOf   == [o \in Ops |-> IF status[o] = "none" THEN None ELSE plan[o].profile]

History == INSTANCE ProfileHistory
             WITH Revisions <- Ops, top <- active, parent <- ParentOf, home <- HomeOf

\* Whatever the engine does to a profile, seen from outside, is to append a
\* revision on top of the current one or to take the current one back.
ImplementsHistory == History!Spec
=============================================================================
