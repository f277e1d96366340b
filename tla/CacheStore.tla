----------------------------- MODULE CacheStore -----------------------------
(***************************************************************************)
(* The content-addressed cache: verified copies activated by installs, the *)
(* conservative sweep that moves unreferenced blobs to quarantine, and the *)
(* operations whose plans, files and rows reference blobs meanwhile.       *)
(*                                                                         *)
(* Two kinds of threads: operations (Ops) and the sweep (Gc).  The cache's *)
(* mutation lock covers activations and sweeps only; the operation engine  *)
(* reads rows and files, writes plans and binds references without it, and *)
(* a mark reads its sources one after the other.  The engine is reduced to *)
(* the steps that touch the cache or what a mark reads (module Operations  *)
(* has the whole of it).                                                   *)
(***************************************************************************)
EXTENDS Integers, FiniteSets

CONSTANTS
    Ops,        \* operations, each making one revision out of some blobs
    Blobs,      \* SHA-256 digests
    Gc,         \* the thread that runs quarantine_unreferenced
    Nothing,    \* no blob, and the lock while nobody holds it
    MaxFaults   \* bound: I/O errors and crashes in one behaviour

ASSUME CacheAssumption ==
    /\ Gc \notin Ops
    /\ Nothing \notin Ops \cup Blobs \cup {Gc}
    /\ MaxFaults \in Nat

VARIABLES
    row,         \* cache_blobs.state, "none" without a row
    blobFile,    \* the file below cache/blobs: "absent", "partial" or "full"
    quarFile,    \* the digests with a file below cache/quarantine
    needs,       \* the blobs an operation's plan materializes
    state,       \* "none", "incomplete" (a registered plan), "completed", "undone"
    refs,        \* operations whose revision owns rows of cache_references
    staged,      \* operations whose lock.json is in staging-operations
    tree,        \* operations whose revision directory is below profiles
    pc,          \* next statement of each thread
    cur,         \* the blob a thread's statement is about
    pending,     \* the blobs a thread's loop has not visited yet
    lock,        \* mutation_lock
    round,       \* which mark of the sweep is running
    mark, first, \* digests found by this mark and by the first one
    recovering,  \* operations startup recovery still has to settle
    heldMark, heldSweep, \* history: who has held its blobs since the mark, the sweep, began
    faults

engine  == <<needs, state, refs, staged, tree>>
gcVars  == <<round, mark, first>>
history == <<heldMark, heldSweep>>
vars    == <<row, blobFile, quarFile, needs, state, refs, staged, tree, pc, cur,
             pending, lock, round, mark, first, recovering, heldMark, heldSweep,
             faults>>

Threads == Ops \cup {Gc}

Init ==
    /\ row = [b \in Blobs |-> "none"]
    /\ blobFile = [b \in Blobs |-> "absent"]
    /\ quarFile = {}
    /\ needs = [o \in Ops |-> {}]
    /\ state = [o \in Ops |-> "none"]
    /\ refs = {} /\ staged = {} /\ tree = {}
    /\ pc = [t \in Threads |-> "idle"]
    /\ cur = [t \in Threads |-> Nothing]
    /\ pending = [t \in Threads |-> {}]
    /\ lock = Nothing
    /\ round = "first" /\ mark = {} /\ first = {}
    /\ recovering = {}
    /\ heldMark = {} /\ heldSweep = {}
    /\ faults = 0

Goto(t, step) == pc' = [pc EXCEPT ![t] = step]

Visited(t, b) == pending' = [pending EXCEPT ![t] = @ \ {b}]

Fault ==
    /\ faults < MaxFaults
    /\ faults' = faults + 1

BlobsOf(S) == UNION {needs[o] : o \in S}

\* Operations something on disk still speaks for.
Held == {o \in Ops : state[o] \in {"incomplete", "completed"}}

\* verified_cache_source and verify_file succeed.
Intact(b) == row[b] = "verified" /\ blobFile[b] = "full"

-----------------------------------------------------------------------------
(* An error in a statement of the lock holder ends its command and frees the *)
(* lock; files and rows stay as the statement left them.                     *)

Abort(t) ==
    /\ lock' = Nothing
    /\ Goto(t, IF t = Gc THEN "idle" ELSE "failed")
    /\ cur' = [cur EXCEPT ![t] = Nothing]
    /\ pending' = [pending EXCEPT ![t] = {}]

\* A file moves from one directory to another, or stays, or the move happened
\* and flushing the directory failed.
Moved(b) ==
    /\ blobFile' = [blobFile EXCEPT ![b] = "full"]
    /\ quarFile' = quarFile \ {b}

MovedOut(b) ==
    /\ blobFile' = [blobFile EXCEPT ![b] = "absent"]
    /\ quarFile' = quarFile \cup {b}

\* reactivate_blob: verify the quarantined file and rename it; the rename
\* refuses an existing target.
ReactivateFile(t) ==
    /\ pc[t] = "reactivate"
    /\ LET b == cur[t] IN
         \/ /\ b \in quarFile /\ blobFile[b] = "absent"
            /\ Moved(b)
            /\ Goto(t, "markVerified")
            /\ UNCHANGED <<cur, pending, lock, faults>>
         \/ /\ b \notin quarFile \/ blobFile[b] # "absent"
            /\ Abort(t)
            /\ UNCHANGED <<blobFile, quarFile, faults>>
         \/ /\ Fault
            /\ Abort(t)
            /\ \/ UNCHANGED <<blobFile, quarFile>>
               \/ b \in quarFile /\ blobFile[b] = "absent" /\ Moved(b)
    /\ UNCHANGED <<row, engine, gcVars, recovering, history>>

\* mark_cache_reactivated; when it fails the rename is compensated, which may
\* fail as well.
MarkReactivated(t) ==
    /\ pc[t] = "markVerified"
    /\ LET b == cur[t] IN
         \/ /\ row' = [row EXCEPT ![b] = "verified"]
            /\ IF t = Gc THEN Goto(t, "restore") /\ Visited(t, b)
                         ELSE Goto(t, "copy") /\ UNCHANGED pending
            /\ UNCHANGED <<blobFile, quarFile, cur, lock, faults>>
         \/ /\ Fault
            /\ Abort(t)
            /\ \/ MovedOut(b)
               \/ UNCHANGED <<blobFile, quarFile>>
            /\ UNCHANGED row
    /\ UNCHANGED <<engine, gcVars, recovering, history>>
-----------------------------------------------------------------------------
(* activate_verified_copy, called for a downloaded or imported artifact *)

\* Mutant: activation does not take the mutation lock.
BeginActivationUnlocked(o) ==
    /\ pc[o] = "acquire"
    /\ recovering = {}
    /\ \E b \in pending[o] :
         /\ cur' = [cur EXCEPT ![o] = b]
         /\ Goto(o, IF row[b] = "quarantined" THEN "reactivate" ELSE "copy")
    /\ UNCHANGED <<row, blobFile, quarFile, engine, pending, lock, gcVars,
                   recovering, history, faults>>

BeginActivation(o) ==
    /\ pc[o] = "acquire"
    /\ lock = Nothing
    /\ lock' = o
    /\ \E b \in pending[o] :
         /\ cur' = [cur EXCEPT ![o] = b]
         /\ Goto(o, IF row[b] = "quarantined" THEN "reactivate" ELSE "copy")
    /\ UNCHANGED <<row, blobFile, quarFile, engine, pending, gcVars, recovering,
                   history, faults>>

\* An existing file is verified; otherwise it is copied to its final name, and
\* a copy that fails or is interrupted leaves what was written so far.
CopyBlob(o) ==
    /\ pc[o] = "copy"
    /\ LET b == cur[o] IN
         \/ /\ blobFile[b] # "partial"
            /\ blobFile' = [blobFile EXCEPT ![b] = "full"]
            /\ Goto(o, "insert")
            /\ UNCHANGED <<cur, pending, lock, faults>>
         \/ /\ blobFile[b] = "partial"
            /\ Abort(o)
            /\ UNCHANGED <<blobFile, faults>>
         \/ /\ Fault
            /\ Abort(o)
            /\ \/ UNCHANGED blobFile
               \/ /\ blobFile[b] = "absent"
                  /\ \E left \in {"partial", "full"} :
                       blobFile' = [blobFile EXCEPT ![b] = left]
    /\ UNCHANGED <<row, quarFile, engine, gcVars, recovering, history>>

\* insert_cache_blob: inserts the row or confirms it, refuses a quarantined one.
InsertBlob(o) ==
    /\ pc[o] = "insert"
    /\ LET b == cur[o] IN
         \/ /\ row[b] # "quarantined"
            /\ row' = [row EXCEPT ![b] = "verified"]
            /\ lock' = IF lock = o THEN Nothing ELSE lock
            /\ Goto(o, "acquire")
            /\ Visited(o, b)
            /\ cur' = [cur EXCEPT ![o] = Nothing]
            /\ UNCHANGED faults
         \/ /\ row[b] = "quarantined"
            /\ Abort(o)
            /\ UNCHANGED <<row, faults>>
         \/ /\ Fault
            /\ Abort(o)
            /\ UNCHANGED row
    /\ UNCHANGED <<blobFile, quarFile, engine, gcVars, recovering, history>>
-----------------------------------------------------------------------------
(* Operations *)

\* An install, import, update or rollback starts to collect its blobs.
Begin(o) ==
    /\ pc[o] = "idle"
    /\ recovering = {}
    /\ \E S \in SUBSET Blobs \ {{}} :
         /\ needs' = [needs EXCEPT ![o] = S]
         /\ pending' = [pending EXCEPT ![o] = S]
    /\ Goto(o, "acquire")
    /\ UNCHANGED <<row, blobFile, quarFile, state, refs, staged, tree, cur, lock,
                   gcVars, recovering, history, faults>>

\* download_source skips an artifact whose row is verified, without a look at
\* its file; a profile rollback relies on the rows of the old revision.
Rely(o) ==
    /\ pc[o] = "acquire"
    /\ \E b \in pending[o] :
         /\ row[b] = "verified"
         /\ Visited(o, b)
    /\ UNCHANGED <<row, blobFile, quarFile, engine, pc, cur, lock, gcVars,
                   recovering, history, faults>>

\* The loops over cache_materializations: register_plan and
\* replace_revision_cache_references hash every source, stage copies it.
Checks == {"plan", "fill", "bind"}

CheckBlob(o) ==
    /\ pc[o] \in Checks
    /\ \E b \in pending[o] : Intact(b) /\ Visited(o, b)
    /\ UNCHANGED <<row, blobFile, quarFile, engine, pc, cur, lock, gcVars,
                   recovering, history, faults>>

\* Leaving the loop for the next one.
Proceed(o, step, next) ==
    /\ pc[o] = step
    /\ pending[o] = {}
    /\ Goto(o, next)
    /\ pending' = [pending EXCEPT ![o] = needs[o]]

Collected(o) ==
    /\ Proceed(o, "acquire", "plan")
    /\ UNCHANGED <<row, blobFile, quarFile, engine, cur, lock, gcVars, recovering,
                   history, faults>>

\* insert_operation: from here on the plan speaks for its blobs.
RegisterPlan(o) ==
    /\ Proceed(o, "plan", "stage")
    /\ state' = [state EXCEPT ![o] = "incomplete"]
    /\ UNCHANGED <<row, blobFile, quarFile, needs, refs, staged, tree, cur, lock,
                   gcVars, recovering, history, faults>>

\* stage writes manifest and lock before it copies the blobs.
StageLock(o) ==
    /\ pc[o] = "stage"
    /\ staged' = staged \cup {o}
    /\ Goto(o, "fill")
    /\ UNCHANGED <<row, blobFile, quarFile, needs, state, refs, tree, cur, pending,
                   lock, gcVars, recovering, history, faults>>

\* commit_revision_directory: one rename from staging into the profile.
MoveRevision(o) ==
    /\ Proceed(o, "fill", "bind")
    /\ staged' = staged \ {o}
    /\ tree' = tree \cup {o}
    /\ UNCHANGED <<row, blobFile, quarFile, needs, state, refs, cur, lock, gcVars,
                   recovering, history, faults>>

\* replace_cache_references: one transaction that looks at the rows again.
BindReferences(o) ==
    /\ Proceed(o, "bind", "complete")
    /\ \A b \in needs[o] : row[b] = "verified"
    /\ refs' = refs \cup {o}
    /\ UNCHANGED <<row, blobFile, quarFile, needs, state, staged, tree, cur, lock,
                   gcVars, recovering, history, faults>>

Complete(o) ==
    /\ pc[o] = "complete"
    /\ state' = [state EXCEPT ![o] = "completed"]
    /\ Goto(o, "done")
    /\ recovering' = recovering \ {o}
    /\ UNCHANGED <<row, blobFile, quarFile, needs, refs, staged, tree, cur, pending,
                   lock, gcVars, history, faults>>

\* A blob is not intact, or a row not verified at the last look.
Refused(o) ==
    \/ pc[o] \in Checks /\ \E b \in pending[o] : ~Intact(b)
    \/ pc[o] = "bind" /\ pending[o] = {} /\ \E b \in needs[o] : row[b] # "verified"

PlanFails(o) ==
    /\ pc[o] = "plan"
    /\ \/ Refused(o) /\ UNCHANGED faults
       \/ Fault
    /\ Goto(o, "failed")
    /\ pending' = [pending EXCEPT ![o] = {}]
    /\ UNCHANGED <<row, blobFile, quarFile, engine, cur, lock, gcVars, recovering,
                   history>>

\* rollback: references, revision and staging are removed; the plan speaks for
\* the blobs until the last of its statements, so they make one step here.
Undo(o) ==
    /\ refs' = refs \ {o}
    /\ tree' = tree \ {o}
    /\ staged' = staged \ {o}
    /\ state' = [state EXCEPT ![o] = "undone"]
    /\ Goto(o, "done")
    /\ pending' = [pending EXCEPT ![o] = {}]
    /\ recovering' = recovering \ {o}
    /\ heldMark' = heldMark \ {o}
    /\ heldSweep' = heldSweep \ {o}
    /\ UNCHANGED <<row, blobFile, quarFile, needs, cur, lock, gcVars>>

RunFails(o) ==
    /\ pc[o] \in {"stage", "fill", "bind", "complete"}
    /\ \/ Refused(o) /\ UNCHANGED faults
       \/ Fault
    /\ Undo(o)
-----------------------------------------------------------------------------
(* quarantine_unreferenced, with the lock held from the first statement to   *)
(* the last.  A mark may fail at any time: files vanish below its directory  *)
(* walk while operations move and delete them.                               *)

StartMark(r) ==
    /\ round' = r
    /\ mark' = {}
    /\ heldMark' = Held
    /\ Goto(Gc, "readRefs")

StartSweep ==
    /\ pc[Gc] = "idle"
    /\ lock = Nothing
    /\ recovering = {}
    /\ lock' = Gc
    /\ StartMark("first")
    /\ heldSweep' = Held
    /\ first' = {}
    /\ UNCHANGED <<row, blobFile, quarFile, engine, cur, pending, recovering, faults>>

\* discover_references: the reference table, the plans of incomplete
\* operations, then the directory trees.  Backups name no blob in their files.
MarkFrom(step, next, source) ==
    /\ pc[Gc] = step
    /\ mark' = mark \cup BlobsOf(source)
    /\ Goto(Gc, next)
    /\ UNCHANGED <<row, blobFile, quarFile, engine, cur, pending, lock, round, first,
                   recovering, history, faults>>

MarkReferences == MarkFrom("readRefs", "readPlans", refs)

MarkPlans      == MarkFrom("readPlans", "readProfiles",
                           {o \in Ops : state[o] = "incomplete"})

\* Mutant: the profiles directory is not walked.
MarkProfilesNot == MarkFrom("readProfiles", "readStaging", {})

MarkProfiles   == MarkFrom("readProfiles", "readStaging", tree)
MarkStaging    == MarkFrom("readStaging", "marked", staged)

\* Mutant: blobs referenced again stay in quarantine.
AfterFirstMarkForgetting ==
    /\ pc[Gc] = "marked" /\ round = "first"
    /\ first' = mark
    /\ pending' = [pending EXCEPT ![Gc] = {}]
    /\ Goto(Gc, "restore")
    /\ UNCHANGED <<row, blobFile, quarFile, engine, cur, lock, round, mark,
                   recovering, history, faults>>

\* Quarantined blobs that are referenced again are to be reactivated.
AfterFirstMark ==
    /\ pc[Gc] = "marked" /\ round = "first"
    /\ first' = mark
    /\ pending' = [pending EXCEPT ![Gc] = {b \in mark : row[b] = "quarantined"}]
    /\ Goto(Gc, "restore")
    /\ UNCHANGED <<row, blobFile, quarFile, engine, cur, lock, round, mark,
                   recovering, history, faults>>

RestoreNext ==
    /\ pc[Gc] = "restore"
    /\ \E b \in pending[Gc] : cur' = [cur EXCEPT ![Gc] = b]
    /\ Goto(Gc, "reactivate")
    /\ UNCHANGED <<row, blobFile, quarFile, engine, pending, lock, gcVars,
                   recovering, history, faults>>

SecondMark ==
    /\ pc[Gc] = "restore"
    /\ pending[Gc] = {}
    /\ StartMark("second")
    /\ UNCHANGED <<row, blobFile, quarFile, engine, cur, pending, lock, first,
                   recovering, heldSweep, faults>>

AfterSecondMark ==
    /\ pc[Gc] = "marked" /\ round = "second"
    /\ pending' = [pending EXCEPT ![Gc] =
                     {b \in Blobs \ (first \cup mark) : row[b] = "verified"}]
    /\ Goto(Gc, "sweep")
    /\ UNCHANGED <<row, blobFile, quarFile, engine, cur, lock, gcVars, recovering,
                   history, faults>>

SweepNext ==
    /\ pc[Gc] = "sweep"
    /\ \E b \in pending[Gc] : cur' = [cur EXCEPT ![Gc] = b]
    /\ StartMark("again")
    /\ UNCHANGED <<row, blobFile, quarFile, engine, pending, lock, first, recovering,
                   heldSweep, faults>>

\* Mutant: a candidate is not looked at again before its move.
AfterLastMarkBlindly ==
    /\ pc[Gc] = "marked" /\ round = "again"
    /\ Goto(Gc, "quarantine")
    /\ UNCHANGED <<row, blobFile, quarFile, engine, cur, pending, lock, gcVars,
                   recovering, history, faults>>

AfterLastMark ==
    /\ pc[Gc] = "marked" /\ round = "again"
    /\ IF cur[Gc] \in mark THEN Goto(Gc, "sweep") /\ Visited(Gc, cur[Gc])
                           ELSE Goto(Gc, "quarantine") /\ UNCHANGED pending
    /\ UNCHANGED <<row, blobFile, quarFile, engine, cur, lock, gcVars, recovering,
                   history, faults>>

\* Mutant: the blob is deleted, not moved.
QuarantineDeleting ==
    /\ pc[Gc] = "quarantine"
    /\ blobFile' = [blobFile EXCEPT ![cur[Gc]] = "absent"]
    /\ Goto(Gc, "markQuarantined")
    /\ UNCHANGED <<row, quarFile, engine, cur, pending, lock, gcVars, recovering,
                   history, faults>>

\* quarantine_blob: verify the file, then rename it; refused when a file of
\* that digest is in quarantine already.
QuarantineFile ==
    /\ pc[Gc] = "quarantine"
    /\ LET b == cur[Gc] IN
         \/ /\ blobFile[b] = "full" /\ b \notin quarFile
            /\ MovedOut(b)
            /\ Goto(Gc, "markQuarantined")
            /\ UNCHANGED <<cur, pending, lock, faults>>
         \/ /\ blobFile[b] # "full" \/ b \in quarFile
            /\ Abort(Gc)
            /\ UNCHANGED <<blobFile, quarFile, faults>>
         \/ /\ Fault
            /\ Abort(Gc)
            /\ \/ UNCHANGED <<blobFile, quarFile>>
               \/ blobFile[b] = "full" /\ b \notin quarFile /\ MovedOut(b)
    /\ UNCHANGED <<row, engine, gcVars, recovering, history>>

\* mark_cache_quarantined and its compensation.
MarkQuarantined ==
    /\ pc[Gc] = "markQuarantined"
    /\ LET b == cur[Gc] IN
         \/ /\ row' = [row EXCEPT ![b] = "quarantined"]
            /\ Goto(Gc, "sweep")
            /\ Visited(Gc, b)
            /\ UNCHANGED <<blobFile, quarFile, cur, lock, faults>>
         \/ /\ Fault
            /\ Abort(Gc)
            /\ \/ Moved(b)
               \/ UNCHANGED <<blobFile, quarFile>>
            /\ UNCHANGED row
    /\ UNCHANGED <<engine, gcVars, recovering, history>>

\* The report takes one more mark, which changes nothing.
FinishSweep ==
    /\ pc[Gc] = "sweep"
    /\ pending[Gc] = {}
    /\ Abort(Gc)
    /\ UNCHANGED <<row, blobFile, quarFile, engine, gcVars, recovering, history, faults>>

MarkFails ==
    /\ pc[Gc] \in {"readRefs", "readPlans", "readProfiles", "readStaging"}
    /\ Abort(Gc)
    /\ UNCHANGED <<row, blobFile, quarFile, engine, gcVars, recovering, history, faults>>
-----------------------------------------------------------------------------
(* Crash and startup recovery *)

Crash ==
    /\ Fault
    /\ lock' = Nothing
    /\ recovering' = {o \in Ops : state[o] = "incomplete"}
    /\ pc' = [t \in Threads |->
                IF pc[t] = "idle" \/ t = Gc THEN "idle"
                ELSE IF t \in recovering' THEN "recover"
                ELSE IF pc[t] = "done" THEN "done" ELSE "failed"]
    /\ cur' = [t \in Threads |-> Nothing]
    /\ pending' = [t \in Threads |-> {}]
    /\ \/ UNCHANGED blobFile
       \/ \E o \in Ops : /\ pc[o] = "copy" /\ blobFile[cur[o]] = "absent"
                         /\ blobFile' = [blobFile EXCEPT ![cur[o]] = "partial"]
    /\ UNCHANGED <<row, quarFile, engine, gcVars, history>>

\* Recovery of a revision that is in place and active binds its references
\* and completes it; every other operation is rolled back.
Recover(o) ==
    /\ pc[o] = "recover"
    /\ \A x \in recovering \ {o} : pc[x] = "recover"
    /\ \/ /\ o \in tree
          /\ Goto(o, "bind")
          /\ pending' = [pending EXCEPT ![o] = needs[o]]
          /\ UNCHANGED <<row, blobFile, quarFile, engine, cur, lock, gcVars,
                         recovering, history, faults>>
       \/ Undo(o) /\ UNCHANGED faults
-----------------------------------------------------------------------------
Reactivation(t) == ReactivateFile(t) \/ MarkReactivated(t)

Operation(o) ==
    \/ Begin(o) \/ BeginActivation(o) \/ CopyBlob(o) \/ InsertBlob(o) \/ Rely(o)
    \/ CheckBlob(o) \/ Collected(o) \/ RegisterPlan(o) \/ StageLock(o)
    \/ MoveRevision(o) \/ BindReferences(o) \/ Complete(o) \/ PlanFails(o)
    \/ RunFails(o) \/ Recover(o)

Sweep ==
    \/ StartSweep \/ MarkReferences \/ MarkPlans \/ MarkProfiles \/ MarkStaging
    \/ AfterFirstMark \/ RestoreNext \/ SecondMark \/ AfterSecondMark \/ SweepNext
    \/ AfterLastMark \/ QuarantineFile \/ MarkQuarantined \/ FinishSweep \/ MarkFails

Next ==
    \/ \E t \in Threads : Reactivation(t)
    \/ \E o \in Ops : Operation(o)
    \/ Sweep
    \/ Crash

Spec == Init /\ [][Next]_vars
-----------------------------------------------------------------------------
OpSteps == {"idle", "acquire", "reactivate", "markVerified", "copy", "insert", "plan",
            "stage", "fill", "bind", "complete", "recover", "failed", "done"}
GcSteps == {"idle", "readRefs", "readPlans", "readProfiles", "readStaging", "marked",
            "restore", "reactivate", "markVerified", "sweep", "quarantine",
            "markQuarantined"}

\* Every variable has its type.
TypeOK ==
    /\ row \in [Blobs -> {"none", "verified", "quarantined"}]
    /\ blobFile \in [Blobs -> {"absent", "partial", "full"}]
    /\ quarFile \subseteq Blobs
    /\ needs \in [Ops -> SUBSET Blobs]
    /\ state \in [Ops -> {"none", "incomplete", "completed", "undone"}]
    /\ refs \subseteq Ops /\ staged \subseteq Ops /\ tree \subseteq Ops
    /\ pc \in [Threads -> OpSteps \cup GcSteps]
    /\ cur \in [Threads -> Blobs \cup {Nothing}]
    /\ pending \in [Threads -> SUBSET Blobs]
    /\ lock \in Threads \cup {Nothing}
    /\ round \in {"first", "second", "again"}
    /\ mark \subseteq Blobs /\ first \subseteq Blobs
    /\ recovering \subseteq Ops /\ heldMark \subseteq Ops /\ heldSweep \subseteq Ops
    /\ faults \in 0..MaxFaults

\* The content of a blob the database knows is somewhere on disk, whatever
\* step fails and wherever the process ends: nothing is ever deleted.
NoBlobIsLost ==
    \A b \in Blobs : row[b] # "none" => blobFile[b] = "full" \/ b \in quarFile

\* A blob is moved to quarantine only if no operation has held it since its
\* last mark began.  The mark reads its sources one after the other while
\* operations register, move their files and settle, and still misses nobody.
HeldIsNeverSwept ==
    pc[Gc] \in {"quarantine", "markQuarantined"} =>
        \A o \in heldMark : cur[Gc] \notin needs[o]

\* When a sweep ends without an error, every blob that an operation or revision
\* held throughout is available again, even one that an earlier sweep moved
\* away between that operation's check and its registration.
SweepRestoresHeld ==
    pc[Gc] = "sweep" /\ pending[Gc] = {} =>
        \A o \in heldSweep : \A b \in needs[o] : row[b] = "verified"

\* Nobody loses a blob to a sweep, and a sweep gives back what another took
\* away too early.  Covers quarantine_unreferenced and discover_references.
SweepSparesHeld == HeldIsNeverSwept /\ SweepRestoresHeld

\* Whenever nobody holds the lock, the row of a blob says where its file is.
RowNamesItsFile ==
    lock = Nothing => \A b \in Blobs :
        /\ row[b] = "verified" => blobFile[b] = "full" /\ b \notin quarFile
        /\ row[b] = "quarantined" => blobFile[b] = "absent" /\ b \in quarFile

\* Without I/O errors and crashes the lock keeps rows and files in step, however
\* activations, sweeps and operations interleave.
FaultlessRowsNameTheirFiles == faults = 0 => RowNamesItsFile
=============================================================================
