-------------------------- MODULE CacheStoreProofs --------------------------
(***************************************************************************)
(* Proofs about CacheStore for any number of operations, blobs and faults: *)
(* type correctness, that no blob is lost, that a sweep never moves a blob *)
(* somebody has held since its last mark began, that a finished sweep has  *)
(* restored what was held, and that without faults rows name their files.  *)
(***************************************************************************)
EXTENDS CacheStore, TLAPS

OpLockSteps == {"reactivate", "markVerified", "copy", "insert"}

Registered == {"stage", "fill", "bind", "complete", "recover"}

MarkSteps == {"readRefs", "readPlans", "readProfiles", "readStaging", "marked"}

RestoreSteps == {"restore", "reactivate", "markVerified"}

SweepSteps == {"sweep", "quarantine", "markQuarantined"}

\* Each thread is at a statement of its own program, a thread inside the
\* cache holds the lock, and its statement is about a blob.
LockInv ==
    /\ \A o \in Ops : /\ pc[o] \in OpSteps
                      /\ pc[o] \in OpLockSteps => lock = o /\ cur[o] \in Blobs
    /\ pc[Gc] \in GcSteps
    /\ pc[Gc] # "idle" => lock = Gc
    /\ pc[Gc] \in {"reactivate", "markVerified", "quarantine", "markQuarantined"}
         => cur[Gc] \in Blobs
    /\ pc[Gc] \in MarkSteps /\ round = "again" => cur[Gc] \in Blobs
    /\ pc[Gc] \in RestoreSteps => round = "first"
    /\ pc[Gc] = "sweep" => round # "first"
    /\ pc[Gc] \in {"quarantine", "markQuarantined"} => round = "again"

\* Where an operation stands fits what it has left on disk.
EngineInv ==
    /\ \A o \in Ops :
         /\ pc[o] \in Registered <=> state[o] = "incomplete"
         /\ state[o] = "completed" => o \in tree /\ pc[o] = "done"
         /\ pc[o] \in {"bind", "complete"} => o \in tree
    /\ heldMark \subseteq Held
    /\ heldSweep \subseteq Held
    /\ recovering \subseteq {o \in Ops : state[o] = "incomplete"}

\* A rename has put the file where the next statement will say it is.
FilesInv ==
    /\ NoBlobIsLost
    /\ \A o \in Ops : pc[o] \in {"markVerified", "insert"} => blobFile[cur[o]] = "full"
    /\ pc[Gc] = "markVerified" => blobFile[cur[Gc]] = "full"
    /\ pc[Gc] = "markQuarantined" => cur[Gc] \in quarFile

\* What a mark has found so far of those who held their blobs when it began.
MarkInv ==
    /\ pc[Gc] = "readProfiles" => \A o \in heldMark : needs[o] \subseteq mark \/ o \in tree
    /\ pc[Gc] \in {"readStaging", "marked"} \cup RestoreSteps \cup SweepSteps
         => \A o \in heldMark : needs[o] \subseteq mark
    /\ pc[Gc] \in {"quarantine", "markQuarantined"} => cur[Gc] \notin mark

\* What the first mark found stays out of the sweep's hands, and is available
\* again once the sweep has restored it.
SweepInv ==
    /\ \A o \in Ops : state[o] \in {"incomplete", "completed"} =>
         \A b \in needs[o] : row[b] # "none"
    /\ \A o \in Ops : pc[o] = "plan" => \A b \in needs[o] \ pending[o] : row[b] # "none"
    /\ pc[Gc] # "idle" /\ round = "first" => heldSweep \subseteq heldMark
    /\ pc[Gc] \in RestoreSteps \/ (pc[Gc] # "idle" /\ round # "first")
         => \A o \in heldSweep : needs[o] \subseteq first
    /\ pc[Gc] \in RestoreSteps => \A b \in first \ pending[Gc] : row[b] # "quarantined"
    /\ pc[Gc] # "idle" /\ round # "first" => \A b \in first : row[b] # "quarantined"
    /\ pc[Gc] = "sweep" \/ (pc[Gc] # "idle" /\ round = "again")
         => pending[Gc] \cap first = {}
    /\ pc[Gc] \in MarkSteps \cup {"quarantine", "markQuarantined"} /\ round = "again"
         => cur[Gc] \notin first
-----------------------------------------------------------------------------
(* Proofs *)

\* Every step keeps the types.
LEMMA TypePreserved ==
    ASSUME LockInv, TypeOK, [Next]_vars
    PROVE  TypeOK'
<1>ReactivateFile. ASSUME NEW t \in Threads, ReactivateFile(t)
     PROVE  TypeOK'
    BY <1>ReactivateFile, CacheAssumption DEF ReactivateFile, Goto, Abort, Fault,
       Moved, engine, gcVars, history, TypeOK, LockInv, Threads, OpSteps, GcSteps
<1>MarkReactivated. ASSUME NEW t \in Threads, MarkReactivated(t)
     PROVE  TypeOK'
    <2>1. cur[t] \in Blobs
        BY <1>MarkReactivated, CacheAssumption DEF MarkReactivated, LockInv, OpLockSteps,
           Threads
    <2> QED
        BY <1>MarkReactivated, <2>1, CacheAssumption DEF MarkReactivated, Goto, Visited,
           Abort, Fault, MovedOut, engine, gcVars, history, TypeOK, Threads, OpSteps,
           GcSteps
<1>Begin. ASSUME NEW o \in Ops, Begin(o)
     PROVE  TypeOK'
    BY <1>Begin, CacheAssumption DEF Begin, Goto, engine, gcVars, history, TypeOK,
       LockInv, Threads, OpSteps, GcSteps
<1>BeginActivation. ASSUME NEW o \in Ops, BeginActivation(o)
     PROVE  TypeOK'
    BY <1>BeginActivation, CacheAssumption DEF BeginActivation, Goto, engine, gcVars,
       history, TypeOK, LockInv, Threads, OpSteps, GcSteps
<1>CopyBlob. ASSUME NEW o \in Ops, CopyBlob(o)
     PROVE  TypeOK'
    BY <1>CopyBlob, CacheAssumption DEF CopyBlob, Goto, Abort, Fault, engine, gcVars,
       history, TypeOK, LockInv, Threads, OpSteps, GcSteps
<1>InsertBlob. ASSUME NEW o \in Ops, InsertBlob(o)
     PROVE  TypeOK'
    BY <1>InsertBlob, CacheAssumption DEF InsertBlob, Goto, Visited, Abort, Fault,
       engine, gcVars, history, TypeOK, LockInv, Threads, OpSteps, GcSteps
<1>Rely. ASSUME NEW o \in Ops, Rely(o)
     PROVE  TypeOK'
    BY <1>Rely, CacheAssumption DEF Rely, Visited, engine, gcVars, history, TypeOK,
       LockInv, Threads, OpSteps, GcSteps
<1>CheckBlob. ASSUME NEW o \in Ops, CheckBlob(o)
     PROVE  TypeOK'
    BY <1>CheckBlob, CacheAssumption DEF CheckBlob, Visited, Checks, Intact, engine,
       gcVars, history, TypeOK, LockInv, Threads, OpSteps, GcSteps
<1>Collected. ASSUME NEW o \in Ops, Collected(o)
     PROVE  TypeOK'
    BY <1>Collected, CacheAssumption DEF Collected, Proceed, Goto, engine, gcVars,
       history, TypeOK, LockInv, Threads, OpSteps, GcSteps
<1>RegisterPlan. ASSUME NEW o \in Ops, RegisterPlan(o)
     PROVE  TypeOK'
    BY <1>RegisterPlan, CacheAssumption DEF RegisterPlan, Proceed, Goto, engine,
       gcVars, history, TypeOK, LockInv, Threads, OpSteps, GcSteps
<1>StageLock. ASSUME NEW o \in Ops, StageLock(o)
     PROVE  TypeOK'
    BY <1>StageLock, CacheAssumption DEF StageLock, Goto, engine, gcVars, history,
       TypeOK, LockInv, Threads, OpSteps, GcSteps
<1>MoveRevision. ASSUME NEW o \in Ops, MoveRevision(o)
     PROVE  TypeOK'
    BY <1>MoveRevision, CacheAssumption DEF MoveRevision, Proceed, Goto, engine,
       gcVars, history, TypeOK, LockInv, Threads, OpSteps, GcSteps
<1>BindReferences. ASSUME NEW o \in Ops, BindReferences(o)
     PROVE  TypeOK'
    BY <1>BindReferences, CacheAssumption DEF BindReferences, Proceed, Goto, engine,
       gcVars, history, TypeOK, LockInv, Threads, OpSteps, GcSteps
<1>Complete. ASSUME NEW o \in Ops, Complete(o)
     PROVE  TypeOK'
    BY <1>Complete, CacheAssumption DEF Complete, Goto, engine, gcVars, history,
       TypeOK, LockInv, Threads, OpSteps, GcSteps
<1>PlanFails. ASSUME NEW o \in Ops, PlanFails(o)
     PROVE  TypeOK'
    BY <1>PlanFails, CacheAssumption DEF PlanFails, Goto, Fault, engine, gcVars,
       history, TypeOK, LockInv, Threads, OpSteps, GcSteps
<1>RunFails. ASSUME NEW o \in Ops, RunFails(o)
     PROVE  TypeOK'
    BY <1>RunFails, CacheAssumption DEF RunFails, Undo, Goto, Fault, engine, gcVars,
       history, TypeOK, LockInv, Threads, OpSteps, GcSteps
<1>Recover. ASSUME NEW o \in Ops, Recover(o)
     PROVE  TypeOK'
    BY <1>Recover, CacheAssumption DEF Recover, Undo, Goto, engine, gcVars, history,
       TypeOK, LockInv, Threads, OpSteps, GcSteps
<1>StartSweep. ASSUME StartSweep
     PROVE  TypeOK'
    BY <1>StartSweep, CacheAssumption DEF StartSweep, StartMark, Goto, Held, engine,
       gcVars, history, TypeOK, LockInv, Threads, OpSteps, GcSteps
<1>MarkReferences. ASSUME MarkReferences
     PROVE  TypeOK'
    BY <1>MarkReferences, CacheAssumption DEF MarkReferences, MarkFrom, BlobsOf, Goto,
       engine, gcVars, history, TypeOK, LockInv, Threads, OpSteps, GcSteps
<1>MarkPlans. ASSUME MarkPlans
     PROVE  TypeOK'
    BY <1>MarkPlans, CacheAssumption DEF MarkPlans, MarkFrom, BlobsOf, Goto, engine,
       gcVars, history, TypeOK, LockInv, Threads, OpSteps, GcSteps
<1>MarkProfiles. ASSUME MarkProfiles
     PROVE  TypeOK'
    BY <1>MarkProfiles, CacheAssumption DEF MarkProfiles, MarkFrom, BlobsOf, Goto,
       engine, gcVars, history, TypeOK, LockInv, Threads, OpSteps, GcSteps
<1>MarkStaging. ASSUME MarkStaging
     PROVE  TypeOK'
    BY <1>MarkStaging, CacheAssumption DEF MarkStaging, MarkFrom, BlobsOf, Goto,
       engine, gcVars, history, TypeOK, LockInv, Threads, OpSteps, GcSteps
<1>AfterFirstMark. ASSUME AfterFirstMark
     PROVE  TypeOK'
    BY <1>AfterFirstMark, CacheAssumption DEF AfterFirstMark, Goto, engine, gcVars,
       history, TypeOK, LockInv, Threads, OpSteps, GcSteps
<1>RestoreNext. ASSUME RestoreNext
     PROVE  TypeOK'
    BY <1>RestoreNext, CacheAssumption DEF RestoreNext, Goto, engine, gcVars, history,
       TypeOK, LockInv, Threads, OpSteps, GcSteps
<1>SecondMark. ASSUME SecondMark
     PROVE  TypeOK'
    BY <1>SecondMark, CacheAssumption DEF SecondMark, StartMark, Goto, Held, engine,
       gcVars, history, TypeOK, LockInv, Threads, OpSteps, GcSteps
<1>AfterSecondMark. ASSUME AfterSecondMark
     PROVE  TypeOK'
    BY <1>AfterSecondMark, CacheAssumption DEF AfterSecondMark, Goto, engine, gcVars,
       history, TypeOK, LockInv, Threads, OpSteps, GcSteps
<1>SweepNext. ASSUME SweepNext
     PROVE  TypeOK'
    BY <1>SweepNext, CacheAssumption DEF SweepNext, StartMark, Goto, Held, engine,
       gcVars, history, TypeOK, LockInv, Threads, OpSteps, GcSteps
<1>AfterLastMark. ASSUME AfterLastMark
     PROVE  TypeOK'
    BY <1>AfterLastMark, CacheAssumption DEF AfterLastMark, Goto, Visited, engine,
       gcVars, history, TypeOK, LockInv, Threads, OpSteps, GcSteps
<1>QuarantineFile. ASSUME QuarantineFile
     PROVE  TypeOK'
    BY <1>QuarantineFile, CacheAssumption DEF QuarantineFile, Goto, Abort, Fault,
       MovedOut, engine, gcVars, history, TypeOK, LockInv, Threads, OpSteps, GcSteps
<1>MarkQuarantined. ASSUME MarkQuarantined
     PROVE  TypeOK'
    BY <1>MarkQuarantined, CacheAssumption DEF MarkQuarantined, Goto, Visited, Abort,
       Fault, Moved, engine, gcVars, history, TypeOK, LockInv, Threads, OpSteps,
       GcSteps
<1>FinishSweep. ASSUME FinishSweep
     PROVE  TypeOK'
    BY <1>FinishSweep, CacheAssumption DEF FinishSweep, Abort, Goto, engine, gcVars,
       history, TypeOK, LockInv, Threads, OpSteps, GcSteps
<1>MarkFails. ASSUME MarkFails
     PROVE  TypeOK'
    BY <1>MarkFails, CacheAssumption DEF MarkFails, Abort, Goto, engine, gcVars,
       history, TypeOK, LockInv, Threads, OpSteps, GcSteps
<1>Crash. ASSUME Crash
     PROVE  TypeOK'
    BY <1>Crash, CacheAssumption DEF Crash, Fault, engine, gcVars, history, TypeOK,
       LockInv, Threads, OpSteps, GcSteps
<1>stutter. CASE UNCHANGED vars
    BY <1>stutter DEF vars, TypeOK, LockInv, Threads, OpSteps, GcSteps
<1> QED
    BY <1>ReactivateFile, <1>MarkReactivated, <1>Begin, <1>BeginActivation,
       <1>CopyBlob, <1>InsertBlob, <1>Rely, <1>CheckBlob, <1>Collected,
       <1>RegisterPlan, <1>StageLock, <1>MoveRevision, <1>BindReferences, <1>Complete,
       <1>PlanFails, <1>RunFails, <1>Recover, <1>StartSweep, <1>MarkReferences,
       <1>MarkPlans, <1>MarkProfiles, <1>MarkStaging, <1>AfterFirstMark,
       <1>RestoreNext, <1>SecondMark, <1>AfterSecondMark, <1>SweepNext,
       <1>AfterLastMark, <1>QuarantineFile, <1>MarkQuarantined, <1>FinishSweep,
       <1>MarkFails, <1>Crash, <1>stutter DEF Next, Operation, Sweep, Reactivation

\* Only the holder of the lock is inside the cache.
LEMMA LockPreserved ==
    ASSUME TypeOK, LockInv, [Next]_vars
    PROVE  LockInv'
<1>ReactivateFile. ASSUME NEW t \in Threads, ReactivateFile(t)
     PROVE  LockInv'
    BY <1>ReactivateFile, CacheAssumption DEF ReactivateFile, Goto, Abort, Fault,
       Moved, engine, gcVars, history, LockInv, TypeOK, Threads, OpSteps, GcSteps,
       OpLockSteps, MarkSteps, RestoreSteps
<1>MarkReactivated. ASSUME NEW t \in Threads, MarkReactivated(t)
     PROVE  LockInv'
    BY <1>MarkReactivated, CacheAssumption DEF MarkReactivated, Goto, Visited, Abort,
       Fault, MovedOut, engine, gcVars, history, LockInv, TypeOK, Threads, OpSteps,
       GcSteps, OpLockSteps, MarkSteps, RestoreSteps
<1>Begin. ASSUME NEW o \in Ops, Begin(o)
     PROVE  LockInv'
    BY <1>Begin, CacheAssumption DEF Begin, Goto, engine, gcVars, history, LockInv,
       TypeOK, Threads, OpSteps, GcSteps, OpLockSteps, MarkSteps, RestoreSteps
<1>BeginActivation. ASSUME NEW o \in Ops, BeginActivation(o)
     PROVE  LockInv'
    BY <1>BeginActivation, CacheAssumption DEF BeginActivation, Goto, engine, gcVars,
       history, LockInv, TypeOK, Threads, OpSteps, GcSteps, OpLockSteps, MarkSteps,
       RestoreSteps
<1>CopyBlob. ASSUME NEW o \in Ops, CopyBlob(o)
     PROVE  LockInv'
    BY <1>CopyBlob, CacheAssumption DEF CopyBlob, Goto, Abort, Fault, engine, gcVars,
       history, LockInv, TypeOK, Threads, OpSteps, GcSteps, OpLockSteps, MarkSteps,
       RestoreSteps
<1>InsertBlob. ASSUME NEW o \in Ops, InsertBlob(o)
     PROVE  LockInv'
    BY <1>InsertBlob, CacheAssumption DEF InsertBlob, Goto, Visited, Abort, Fault,
       engine, gcVars, history, LockInv, TypeOK, Threads, OpSteps, GcSteps,
       OpLockSteps, MarkSteps, RestoreSteps
<1>Rely. ASSUME NEW o \in Ops, Rely(o)
     PROVE  LockInv'
    BY <1>Rely, CacheAssumption DEF Rely, Visited, engine, gcVars, history, LockInv,
       TypeOK, Threads, OpSteps, GcSteps, OpLockSteps, MarkSteps, RestoreSteps
<1>CheckBlob. ASSUME NEW o \in Ops, CheckBlob(o)
     PROVE  LockInv'
    BY <1>CheckBlob, CacheAssumption DEF CheckBlob, Visited, Checks, Intact, engine,
       gcVars, history, LockInv, TypeOK, Threads, OpSteps, GcSteps, OpLockSteps,
       MarkSteps, RestoreSteps
<1>Collected. ASSUME NEW o \in Ops, Collected(o)
     PROVE  LockInv'
    BY <1>Collected, CacheAssumption DEF Collected, Proceed, Goto, engine, gcVars,
       history, LockInv, TypeOK, Threads, OpSteps, GcSteps, OpLockSteps, MarkSteps,
       RestoreSteps
<1>RegisterPlan. ASSUME NEW o \in Ops, RegisterPlan(o)
     PROVE  LockInv'
    BY <1>RegisterPlan, CacheAssumption DEF RegisterPlan, Proceed, Goto, engine,
       gcVars, history, LockInv, TypeOK, Threads, OpSteps, GcSteps, OpLockSteps,
       MarkSteps, RestoreSteps
<1>StageLock. ASSUME NEW o \in Ops, StageLock(o)
     PROVE  LockInv'
    BY <1>StageLock, CacheAssumption DEF StageLock, Goto, engine, gcVars, history,
       LockInv, TypeOK, Threads, OpSteps, GcSteps, OpLockSteps, MarkSteps,
       RestoreSteps
<1>MoveRevision. ASSUME NEW o \in Ops, MoveRevision(o)
     PROVE  LockInv'
    BY <1>MoveRevision, CacheAssumption DEF MoveRevision, Proceed, Goto, engine,
       gcVars, history, LockInv, TypeOK, Threads, OpSteps, GcSteps, OpLockSteps,
       MarkSteps, RestoreSteps
<1>BindReferences. ASSUME NEW o \in Ops, BindReferences(o)
     PROVE  LockInv'
    BY <1>BindReferences, CacheAssumption DEF BindReferences, Proceed, Goto, engine,
       gcVars, history, LockInv, TypeOK, Threads, OpSteps, GcSteps, OpLockSteps,
       MarkSteps, RestoreSteps
<1>Complete. ASSUME NEW o \in Ops, Complete(o)
     PROVE  LockInv'
    BY <1>Complete, CacheAssumption DEF Complete, Goto, engine, gcVars, history,
       LockInv, TypeOK, Threads, OpSteps, GcSteps, OpLockSteps, MarkSteps,
       RestoreSteps
<1>PlanFails. ASSUME NEW o \in Ops, PlanFails(o)
     PROVE  LockInv'
    BY <1>PlanFails, CacheAssumption DEF PlanFails, Goto, Fault, engine, gcVars,
       history, LockInv, TypeOK, Threads, OpSteps, GcSteps, OpLockSteps, MarkSteps,
       RestoreSteps
<1>RunFails. ASSUME NEW o \in Ops, RunFails(o)
     PROVE  LockInv'
    BY <1>RunFails, CacheAssumption DEF RunFails, Undo, Goto, Fault, engine, gcVars,
       history, LockInv, TypeOK, Threads, OpSteps, GcSteps, OpLockSteps, MarkSteps,
       RestoreSteps
<1>Recover. ASSUME NEW o \in Ops, Recover(o)
     PROVE  LockInv'
    BY <1>Recover, CacheAssumption DEF Recover, Undo, Goto, engine, gcVars, history,
       LockInv, TypeOK, Threads, OpSteps, GcSteps, OpLockSteps, MarkSteps,
       RestoreSteps
<1>StartSweep. ASSUME StartSweep
     PROVE  LockInv'
    BY <1>StartSweep, CacheAssumption DEF StartSweep, StartMark, Goto, Held, engine,
       gcVars, history, LockInv, TypeOK, Threads, OpSteps, GcSteps, OpLockSteps,
       MarkSteps, RestoreSteps
<1>MarkReferences. ASSUME MarkReferences
     PROVE  LockInv'
    BY <1>MarkReferences, CacheAssumption DEF MarkReferences, MarkFrom, BlobsOf, Goto,
       engine, gcVars, history, LockInv, TypeOK, Threads, OpSteps, GcSteps,
       OpLockSteps, MarkSteps, RestoreSteps
<1>MarkPlans. ASSUME MarkPlans
     PROVE  LockInv'
    BY <1>MarkPlans, CacheAssumption DEF MarkPlans, MarkFrom, BlobsOf, Goto, engine,
       gcVars, history, LockInv, TypeOK, Threads, OpSteps, GcSteps, OpLockSteps,
       MarkSteps, RestoreSteps
<1>MarkProfiles. ASSUME MarkProfiles
     PROVE  LockInv'
    BY <1>MarkProfiles, CacheAssumption DEF MarkProfiles, MarkFrom, BlobsOf, Goto,
       engine, gcVars, history, LockInv, TypeOK, Threads, OpSteps, GcSteps,
       OpLockSteps, MarkSteps, RestoreSteps
<1>MarkStaging. ASSUME MarkStaging
     PROVE  LockInv'
    BY <1>MarkStaging, CacheAssumption DEF MarkStaging, MarkFrom, BlobsOf, Goto,
       engine, gcVars, history, LockInv, TypeOK, Threads, OpSteps, GcSteps,
       OpLockSteps, MarkSteps, RestoreSteps
<1>AfterFirstMark. ASSUME AfterFirstMark
     PROVE  LockInv'
    BY <1>AfterFirstMark, CacheAssumption DEF AfterFirstMark, Goto, engine, gcVars,
       history, LockInv, TypeOK, Threads, OpSteps, GcSteps, OpLockSteps, MarkSteps,
       RestoreSteps
<1>RestoreNext. ASSUME RestoreNext
     PROVE  LockInv'
    BY <1>RestoreNext, CacheAssumption DEF RestoreNext, Goto, engine, gcVars, history,
       LockInv, TypeOK, Threads, OpSteps, GcSteps, OpLockSteps, MarkSteps,
       RestoreSteps
<1>SecondMark. ASSUME SecondMark
     PROVE  LockInv'
    BY <1>SecondMark, CacheAssumption DEF SecondMark, StartMark, Goto, Held, engine,
       gcVars, history, LockInv, TypeOK, Threads, OpSteps, GcSteps, OpLockSteps,
       MarkSteps, RestoreSteps
<1>AfterSecondMark. ASSUME AfterSecondMark
     PROVE  LockInv'
    BY <1>AfterSecondMark, CacheAssumption DEF AfterSecondMark, Goto, engine, gcVars,
       history, LockInv, TypeOK, Threads, OpSteps, GcSteps, OpLockSteps, MarkSteps,
       RestoreSteps
<1>SweepNext. ASSUME SweepNext
     PROVE  LockInv'
    BY <1>SweepNext, CacheAssumption DEF SweepNext, StartMark, Goto, Held, engine,
       gcVars, history, LockInv, TypeOK, Threads, OpSteps, GcSteps, OpLockSteps,
       MarkSteps, RestoreSteps
<1>AfterLastMark. ASSUME AfterLastMark
     PROVE  LockInv'
    BY <1>AfterLastMark, CacheAssumption DEF AfterLastMark, Goto, Visited, engine,
       gcVars, history, LockInv, TypeOK, Threads, OpSteps, GcSteps, OpLockSteps,
       MarkSteps, RestoreSteps
<1>QuarantineFile. ASSUME QuarantineFile
     PROVE  LockInv'
    BY <1>QuarantineFile, CacheAssumption DEF QuarantineFile, Goto, Abort, Fault,
       MovedOut, engine, gcVars, history, LockInv, TypeOK, Threads, OpSteps, GcSteps,
       OpLockSteps, MarkSteps, RestoreSteps
<1>MarkQuarantined. ASSUME MarkQuarantined
     PROVE  LockInv'
    BY <1>MarkQuarantined, CacheAssumption DEF MarkQuarantined, Goto, Visited, Abort,
       Fault, Moved, engine, gcVars, history, LockInv, TypeOK, Threads, OpSteps,
       GcSteps, OpLockSteps, MarkSteps, RestoreSteps
<1>FinishSweep. ASSUME FinishSweep
     PROVE  LockInv'
    BY <1>FinishSweep, CacheAssumption DEF FinishSweep, Abort, Goto, engine, gcVars,
       history, LockInv, TypeOK, Threads, OpSteps, GcSteps, OpLockSteps, MarkSteps,
       RestoreSteps
<1>MarkFails. ASSUME MarkFails
     PROVE  LockInv'
    BY <1>MarkFails, CacheAssumption DEF MarkFails, Abort, Goto, engine, gcVars,
       history, LockInv, TypeOK, Threads, OpSteps, GcSteps, OpLockSteps, MarkSteps,
       RestoreSteps
<1>Crash. ASSUME Crash
     PROVE  LockInv'
    BY <1>Crash, CacheAssumption DEF Crash, Fault, engine, gcVars, history, LockInv,
       TypeOK, Threads, OpSteps, GcSteps, OpLockSteps, MarkSteps, RestoreSteps
<1>stutter. CASE UNCHANGED vars
    BY <1>stutter DEF vars, LockInv, TypeOK, Threads, OpSteps, GcSteps, OpLockSteps,
       MarkSteps, RestoreSteps
<1> QED
    BY <1>ReactivateFile, <1>MarkReactivated, <1>Begin, <1>BeginActivation,
       <1>CopyBlob, <1>InsertBlob, <1>Rely, <1>CheckBlob, <1>Collected,
       <1>RegisterPlan, <1>StageLock, <1>MoveRevision, <1>BindReferences, <1>Complete,
       <1>PlanFails, <1>RunFails, <1>Recover, <1>StartSweep, <1>MarkReferences,
       <1>MarkPlans, <1>MarkProfiles, <1>MarkStaging, <1>AfterFirstMark,
       <1>RestoreNext, <1>SecondMark, <1>AfterSecondMark, <1>SweepNext,
       <1>AfterLastMark, <1>QuarantineFile, <1>MarkQuarantined, <1>FinishSweep,
       <1>MarkFails, <1>Crash, <1>stutter DEF Next, Operation, Sweep, Reactivation

\* Operations and what they leave on disk stay in step.
LEMMA EnginePreserved ==
    ASSUME TypeOK, LockInv, EngineInv, [Next]_vars
    PROVE  EngineInv'
<1>ReactivateFile. ASSUME NEW t \in Threads, ReactivateFile(t)
     PROVE  EngineInv'
    BY <1>ReactivateFile, CacheAssumption DEF ReactivateFile, Goto, Abort, Fault,
       Moved, engine, gcVars, history, EngineInv, LockInv, TypeOK, Threads,
       Registered, Held, OpSteps, OpLockSteps
<1>MarkReactivated. ASSUME NEW t \in Threads, MarkReactivated(t)
     PROVE  EngineInv'
    BY <1>MarkReactivated, CacheAssumption DEF MarkReactivated, Goto, Visited, Abort,
       Fault, MovedOut, engine, gcVars, history, EngineInv, LockInv, TypeOK, Threads,
       Registered, Held, OpSteps, OpLockSteps
<1>Begin. ASSUME NEW o \in Ops, Begin(o)
     PROVE  EngineInv'
    BY <1>Begin, CacheAssumption DEF Begin, Goto, engine, gcVars, history, EngineInv,
       LockInv, TypeOK, Threads, Registered, Held, OpSteps, OpLockSteps
<1>BeginActivation. ASSUME NEW o \in Ops, BeginActivation(o)
     PROVE  EngineInv'
    BY <1>BeginActivation, CacheAssumption DEF BeginActivation, Goto, engine, gcVars,
       history, EngineInv, LockInv, TypeOK, Threads, Registered, Held, OpSteps,
       OpLockSteps
<1>CopyBlob. ASSUME NEW o \in Ops, CopyBlob(o)
     PROVE  EngineInv'
    BY <1>CopyBlob, CacheAssumption DEF CopyBlob, Goto, Abort, Fault, engine, gcVars,
       history, EngineInv, LockInv, TypeOK, Threads, Registered, Held, OpSteps,
       OpLockSteps
<1>InsertBlob. ASSUME NEW o \in Ops, InsertBlob(o)
     PROVE  EngineInv'
    BY <1>InsertBlob, CacheAssumption DEF InsertBlob, Goto, Visited, Abort, Fault,
       engine, gcVars, history, EngineInv, LockInv, TypeOK, Threads, Registered, Held,
       OpSteps, OpLockSteps
<1>Rely. ASSUME NEW o \in Ops, Rely(o)
     PROVE  EngineInv'
    BY <1>Rely, CacheAssumption DEF Rely, Visited, engine, gcVars, history, EngineInv,
       LockInv, TypeOK, Threads, Registered, Held, OpSteps, OpLockSteps
<1>CheckBlob. ASSUME NEW o \in Ops, CheckBlob(o)
     PROVE  EngineInv'
    BY <1>CheckBlob, CacheAssumption DEF CheckBlob, Visited, Checks, Intact, engine,
       gcVars, history, EngineInv, LockInv, TypeOK, Threads, Registered, Held,
       OpSteps, OpLockSteps
<1>Collected. ASSUME NEW o \in Ops, Collected(o)
     PROVE  EngineInv'
    BY <1>Collected, CacheAssumption DEF Collected, Proceed, Goto, engine, gcVars,
       history, EngineInv, LockInv, TypeOK, Threads, Registered, Held, OpSteps,
       OpLockSteps
<1>RegisterPlan. ASSUME NEW o \in Ops, RegisterPlan(o)
     PROVE  EngineInv'
    BY <1>RegisterPlan, CacheAssumption DEF RegisterPlan, Proceed, Goto, engine,
       gcVars, history, EngineInv, LockInv, TypeOK, Threads, Registered, Held,
       OpSteps, OpLockSteps
<1>StageLock. ASSUME NEW o \in Ops, StageLock(o)
     PROVE  EngineInv'
    BY <1>StageLock, CacheAssumption DEF StageLock, Goto, engine, gcVars, history,
       EngineInv, LockInv, TypeOK, Threads, Registered, Held, OpSteps, OpLockSteps
<1>MoveRevision. ASSUME NEW o \in Ops, MoveRevision(o)
     PROVE  EngineInv'
    BY <1>MoveRevision, CacheAssumption DEF MoveRevision, Proceed, Goto, engine,
       gcVars, history, EngineInv, LockInv, TypeOK, Threads, Registered, Held,
       OpSteps, OpLockSteps
<1>BindReferences. ASSUME NEW o \in Ops, BindReferences(o)
     PROVE  EngineInv'
    BY <1>BindReferences, CacheAssumption DEF BindReferences, Proceed, Goto, engine,
       gcVars, history, EngineInv, LockInv, TypeOK, Threads, Registered, Held,
       OpSteps, OpLockSteps
<1>Complete. ASSUME NEW o \in Ops, Complete(o)
     PROVE  EngineInv'
    BY <1>Complete, CacheAssumption DEF Complete, Goto, engine, gcVars, history,
       EngineInv, LockInv, TypeOK, Threads, Registered, Held, OpSteps, OpLockSteps
<1>PlanFails. ASSUME NEW o \in Ops, PlanFails(o)
     PROVE  EngineInv'
    BY <1>PlanFails, CacheAssumption DEF PlanFails, Goto, Fault, engine, gcVars,
       history, EngineInv, LockInv, TypeOK, Threads, Registered, Held, OpSteps,
       OpLockSteps
<1>RunFails. ASSUME NEW o \in Ops, RunFails(o)
     PROVE  EngineInv'
    BY <1>RunFails, CacheAssumption DEF RunFails, Undo, Goto, Fault, engine, gcVars,
       history, EngineInv, LockInv, TypeOK, Threads, Registered, Held, OpSteps,
       OpLockSteps
<1>Recover. ASSUME NEW o \in Ops, Recover(o)
     PROVE  EngineInv'
    BY <1>Recover, CacheAssumption DEF Recover, Undo, Goto, engine, gcVars, history,
       EngineInv, LockInv, TypeOK, Threads, Registered, Held, OpSteps, OpLockSteps
<1>StartSweep. ASSUME StartSweep
     PROVE  EngineInv'
    BY <1>StartSweep, CacheAssumption DEF StartSweep, StartMark, Goto, Held, engine,
       gcVars, history, EngineInv, LockInv, TypeOK, Threads, Registered, Held,
       OpSteps, OpLockSteps
<1>MarkReferences. ASSUME MarkReferences
     PROVE  EngineInv'
    BY <1>MarkReferences, CacheAssumption DEF MarkReferences, MarkFrom, BlobsOf, Goto,
       engine, gcVars, history, EngineInv, LockInv, TypeOK, Threads, Registered, Held,
       OpSteps, OpLockSteps
<1>MarkPlans. ASSUME MarkPlans
     PROVE  EngineInv'
    BY <1>MarkPlans, CacheAssumption DEF MarkPlans, MarkFrom, BlobsOf, Goto, engine,
       gcVars, history, EngineInv, LockInv, TypeOK, Threads, Registered, Held,
       OpSteps, OpLockSteps
<1>MarkProfiles. ASSUME MarkProfiles
     PROVE  EngineInv'
    BY <1>MarkProfiles, CacheAssumption DEF MarkProfiles, MarkFrom, BlobsOf, Goto,
       engine, gcVars, history, EngineInv, LockInv, TypeOK, Threads, Registered, Held,
       OpSteps, OpLockSteps
<1>MarkStaging. ASSUME MarkStaging
     PROVE  EngineInv'
    BY <1>MarkStaging, CacheAssumption DEF MarkStaging, MarkFrom, BlobsOf, Goto,
       engine, gcVars, history, EngineInv, LockInv, TypeOK, Threads, Registered, Held,
       OpSteps, OpLockSteps
<1>AfterFirstMark. ASSUME AfterFirstMark
     PROVE  EngineInv'
    BY <1>AfterFirstMark, CacheAssumption DEF AfterFirstMark, Goto, engine, gcVars,
       history, EngineInv, LockInv, TypeOK, Threads, Registered, Held, OpSteps,
       OpLockSteps
<1>RestoreNext. ASSUME RestoreNext
     PROVE  EngineInv'
    BY <1>RestoreNext, CacheAssumption DEF RestoreNext, Goto, engine, gcVars, history,
       EngineInv, LockInv, TypeOK, Threads, Registered, Held, OpSteps, OpLockSteps
<1>SecondMark. ASSUME SecondMark
     PROVE  EngineInv'
    BY <1>SecondMark, CacheAssumption DEF SecondMark, StartMark, Goto, Held, engine,
       gcVars, history, EngineInv, LockInv, TypeOK, Threads, Registered, Held,
       OpSteps, OpLockSteps
<1>AfterSecondMark. ASSUME AfterSecondMark
     PROVE  EngineInv'
    BY <1>AfterSecondMark, CacheAssumption DEF AfterSecondMark, Goto, engine, gcVars,
       history, EngineInv, LockInv, TypeOK, Threads, Registered, Held, OpSteps,
       OpLockSteps
<1>SweepNext. ASSUME SweepNext
     PROVE  EngineInv'
    BY <1>SweepNext, CacheAssumption DEF SweepNext, StartMark, Goto, Held, engine,
       gcVars, history, EngineInv, LockInv, TypeOK, Threads, Registered, Held,
       OpSteps, OpLockSteps
<1>AfterLastMark. ASSUME AfterLastMark
     PROVE  EngineInv'
    BY <1>AfterLastMark, CacheAssumption DEF AfterLastMark, Goto, Visited, engine,
       gcVars, history, EngineInv, LockInv, TypeOK, Threads, Registered, Held,
       OpSteps, OpLockSteps
<1>QuarantineFile. ASSUME QuarantineFile
     PROVE  EngineInv'
    BY <1>QuarantineFile, CacheAssumption DEF QuarantineFile, Goto, Abort, Fault,
       MovedOut, engine, gcVars, history, EngineInv, LockInv, TypeOK, Threads,
       Registered, Held, OpSteps, OpLockSteps
<1>MarkQuarantined. ASSUME MarkQuarantined
     PROVE  EngineInv'
    BY <1>MarkQuarantined, CacheAssumption DEF MarkQuarantined, Goto, Visited, Abort,
       Fault, Moved, engine, gcVars, history, EngineInv, LockInv, TypeOK, Threads,
       Registered, Held, OpSteps, OpLockSteps
<1>FinishSweep. ASSUME FinishSweep
     PROVE  EngineInv'
    BY <1>FinishSweep, CacheAssumption DEF FinishSweep, Abort, Goto, engine, gcVars,
       history, EngineInv, LockInv, TypeOK, Threads, Registered, Held, OpSteps,
       OpLockSteps
<1>MarkFails. ASSUME MarkFails
     PROVE  EngineInv'
    BY <1>MarkFails, CacheAssumption DEF MarkFails, Abort, Goto, engine, gcVars,
       history, EngineInv, LockInv, TypeOK, Threads, Registered, Held, OpSteps,
       OpLockSteps
<1>Crash. ASSUME Crash
     PROVE  EngineInv'
    BY <1>Crash, CacheAssumption DEF Crash, Fault, engine, gcVars, history, EngineInv,
       LockInv, TypeOK, Threads, Registered, Held, OpSteps, OpLockSteps
<1>stutter. CASE UNCHANGED vars
    BY <1>stutter DEF vars, EngineInv, LockInv, TypeOK, Threads, Registered, Held,
       OpSteps, OpLockSteps
<1> QED
    BY <1>ReactivateFile, <1>MarkReactivated, <1>Begin, <1>BeginActivation,
       <1>CopyBlob, <1>InsertBlob, <1>Rely, <1>CheckBlob, <1>Collected,
       <1>RegisterPlan, <1>StageLock, <1>MoveRevision, <1>BindReferences, <1>Complete,
       <1>PlanFails, <1>RunFails, <1>Recover, <1>StartSweep, <1>MarkReferences,
       <1>MarkPlans, <1>MarkProfiles, <1>MarkStaging, <1>AfterFirstMark,
       <1>RestoreNext, <1>SecondMark, <1>AfterSecondMark, <1>SweepNext,
       <1>AfterLastMark, <1>QuarantineFile, <1>MarkQuarantined, <1>FinishSweep,
       <1>MarkFails, <1>Crash, <1>stutter DEF Next, Operation, Sweep, Reactivation

\* No step loses the content of a blob.
LEMMA FilesPreserved ==
    ASSUME TypeOK, LockInv, FilesInv, [Next]_vars
    PROVE  FilesInv'
<1>ReactivateFile. ASSUME NEW t \in Threads, ReactivateFile(t)
     PROVE  FilesInv'
    BY <1>ReactivateFile, CacheAssumption DEF ReactivateFile, Goto, Abort, Fault,
       Moved, engine, gcVars, history, FilesInv, NoBlobIsLost, LockInv, TypeOK,
       Threads, OpLockSteps, OpSteps, GcSteps
<1>MarkReactivated. ASSUME NEW t \in Threads, MarkReactivated(t)
     PROVE  FilesInv'
    BY <1>MarkReactivated, CacheAssumption DEF MarkReactivated, Goto, Visited, Abort,
       Fault, MovedOut, engine, gcVars, history, FilesInv, NoBlobIsLost, LockInv,
       TypeOK, Threads, OpLockSteps, OpSteps, GcSteps
<1>Begin. ASSUME NEW o \in Ops, Begin(o)
     PROVE  FilesInv'
    BY <1>Begin, CacheAssumption DEF Begin, Goto, engine, gcVars, history, FilesInv,
       NoBlobIsLost, LockInv, TypeOK, Threads, OpLockSteps, OpSteps, GcSteps
<1>BeginActivation. ASSUME NEW o \in Ops, BeginActivation(o)
     PROVE  FilesInv'
    BY <1>BeginActivation, CacheAssumption DEF BeginActivation, Goto, engine, gcVars,
       history, FilesInv, NoBlobIsLost, LockInv, TypeOK, Threads, OpLockSteps,
       OpSteps, GcSteps
<1>CopyBlob. ASSUME NEW o \in Ops, CopyBlob(o)
     PROVE  FilesInv'
    BY <1>CopyBlob, CacheAssumption DEF CopyBlob, Goto, Abort, Fault, engine, gcVars,
       history, FilesInv, NoBlobIsLost, LockInv, TypeOK, Threads, OpLockSteps,
       OpSteps, GcSteps
<1>InsertBlob. ASSUME NEW o \in Ops, InsertBlob(o)
     PROVE  FilesInv'
    BY <1>InsertBlob, CacheAssumption DEF InsertBlob, Goto, Visited, Abort, Fault,
       engine, gcVars, history, FilesInv, NoBlobIsLost, LockInv, TypeOK, Threads,
       OpLockSteps, OpSteps, GcSteps
<1>Rely. ASSUME NEW o \in Ops, Rely(o)
     PROVE  FilesInv'
    BY <1>Rely, CacheAssumption DEF Rely, Visited, engine, gcVars, history, FilesInv,
       NoBlobIsLost, LockInv, TypeOK, Threads, OpLockSteps, OpSteps, GcSteps
<1>CheckBlob. ASSUME NEW o \in Ops, CheckBlob(o)
     PROVE  FilesInv'
    BY <1>CheckBlob, CacheAssumption DEF CheckBlob, Visited, Checks, Intact, engine,
       gcVars, history, FilesInv, NoBlobIsLost, LockInv, TypeOK, Threads, OpLockSteps,
       OpSteps, GcSteps
<1>Collected. ASSUME NEW o \in Ops, Collected(o)
     PROVE  FilesInv'
    BY <1>Collected, CacheAssumption DEF Collected, Proceed, Goto, engine, gcVars,
       history, FilesInv, NoBlobIsLost, LockInv, TypeOK, Threads, OpLockSteps,
       OpSteps, GcSteps
<1>RegisterPlan. ASSUME NEW o \in Ops, RegisterPlan(o)
     PROVE  FilesInv'
    BY <1>RegisterPlan, CacheAssumption DEF RegisterPlan, Proceed, Goto, engine,
       gcVars, history, FilesInv, NoBlobIsLost, LockInv, TypeOK, Threads, OpLockSteps,
       OpSteps, GcSteps
<1>StageLock. ASSUME NEW o \in Ops, StageLock(o)
     PROVE  FilesInv'
    BY <1>StageLock, CacheAssumption DEF StageLock, Goto, engine, gcVars, history,
       FilesInv, NoBlobIsLost, LockInv, TypeOK, Threads, OpLockSteps, OpSteps, GcSteps
<1>MoveRevision. ASSUME NEW o \in Ops, MoveRevision(o)
     PROVE  FilesInv'
    BY <1>MoveRevision, CacheAssumption DEF MoveRevision, Proceed, Goto, engine,
       gcVars, history, FilesInv, NoBlobIsLost, LockInv, TypeOK, Threads, OpLockSteps,
       OpSteps, GcSteps
<1>BindReferences. ASSUME NEW o \in Ops, BindReferences(o)
     PROVE  FilesInv'
    BY <1>BindReferences, CacheAssumption DEF BindReferences, Proceed, Goto, engine,
       gcVars, history, FilesInv, NoBlobIsLost, LockInv, TypeOK, Threads, OpLockSteps,
       OpSteps, GcSteps
<1>Complete. ASSUME NEW o \in Ops, Complete(o)
     PROVE  FilesInv'
    BY <1>Complete, CacheAssumption DEF Complete, Goto, engine, gcVars, history,
       FilesInv, NoBlobIsLost, LockInv, TypeOK, Threads, OpLockSteps, OpSteps, GcSteps
<1>PlanFails. ASSUME NEW o \in Ops, PlanFails(o)
     PROVE  FilesInv'
    BY <1>PlanFails, CacheAssumption DEF PlanFails, Goto, Fault, engine, gcVars,
       history, FilesInv, NoBlobIsLost, LockInv, TypeOK, Threads, OpLockSteps,
       OpSteps, GcSteps
<1>RunFails. ASSUME NEW o \in Ops, RunFails(o)
     PROVE  FilesInv'
    BY <1>RunFails, CacheAssumption DEF RunFails, Undo, Goto, Fault, engine, gcVars,
       history, FilesInv, NoBlobIsLost, LockInv, TypeOK, Threads, OpLockSteps,
       OpSteps, GcSteps
<1>Recover. ASSUME NEW o \in Ops, Recover(o)
     PROVE  FilesInv'
    BY <1>Recover, CacheAssumption DEF Recover, Undo, Goto, engine, gcVars, history,
       FilesInv, NoBlobIsLost, LockInv, TypeOK, Threads, OpLockSteps, OpSteps, GcSteps
<1>StartSweep. ASSUME StartSweep
     PROVE  FilesInv'
    BY <1>StartSweep, CacheAssumption DEF StartSweep, StartMark, Goto, Held, engine,
       gcVars, history, FilesInv, NoBlobIsLost, LockInv, TypeOK, Threads, OpLockSteps,
       OpSteps, GcSteps
<1>MarkReferences. ASSUME MarkReferences
     PROVE  FilesInv'
    BY <1>MarkReferences, CacheAssumption DEF MarkReferences, MarkFrom, BlobsOf, Goto,
       engine, gcVars, history, FilesInv, NoBlobIsLost, LockInv, TypeOK, Threads,
       OpLockSteps, OpSteps, GcSteps
<1>MarkPlans. ASSUME MarkPlans
     PROVE  FilesInv'
    BY <1>MarkPlans, CacheAssumption DEF MarkPlans, MarkFrom, BlobsOf, Goto, engine,
       gcVars, history, FilesInv, NoBlobIsLost, LockInv, TypeOK, Threads, OpLockSteps,
       OpSteps, GcSteps
<1>MarkProfiles. ASSUME MarkProfiles
     PROVE  FilesInv'
    BY <1>MarkProfiles, CacheAssumption DEF MarkProfiles, MarkFrom, BlobsOf, Goto,
       engine, gcVars, history, FilesInv, NoBlobIsLost, LockInv, TypeOK, Threads,
       OpLockSteps, OpSteps, GcSteps
<1>MarkStaging. ASSUME MarkStaging
     PROVE  FilesInv'
    BY <1>MarkStaging, CacheAssumption DEF MarkStaging, MarkFrom, BlobsOf, Goto,
       engine, gcVars, history, FilesInv, NoBlobIsLost, LockInv, TypeOK, Threads,
       OpLockSteps, OpSteps, GcSteps
<1>AfterFirstMark. ASSUME AfterFirstMark
     PROVE  FilesInv'
    BY <1>AfterFirstMark, CacheAssumption DEF AfterFirstMark, Goto, engine, gcVars,
       history, FilesInv, NoBlobIsLost, LockInv, TypeOK, Threads, OpLockSteps,
       OpSteps, GcSteps
<1>RestoreNext. ASSUME RestoreNext
     PROVE  FilesInv'
    BY <1>RestoreNext, CacheAssumption DEF RestoreNext, Goto, engine, gcVars, history,
       FilesInv, NoBlobIsLost, LockInv, TypeOK, Threads, OpLockSteps, OpSteps, GcSteps
<1>SecondMark. ASSUME SecondMark
     PROVE  FilesInv'
    BY <1>SecondMark, CacheAssumption DEF SecondMark, StartMark, Goto, Held, engine,
       gcVars, history, FilesInv, NoBlobIsLost, LockInv, TypeOK, Threads, OpLockSteps,
       OpSteps, GcSteps
<1>AfterSecondMark. ASSUME AfterSecondMark
     PROVE  FilesInv'
    BY <1>AfterSecondMark, CacheAssumption DEF AfterSecondMark, Goto, engine, gcVars,
       history, FilesInv, NoBlobIsLost, LockInv, TypeOK, Threads, OpLockSteps,
       OpSteps, GcSteps
<1>SweepNext. ASSUME SweepNext
     PROVE  FilesInv'
    BY <1>SweepNext, CacheAssumption DEF SweepNext, StartMark, Goto, Held, engine,
       gcVars, history, FilesInv, NoBlobIsLost, LockInv, TypeOK, Threads, OpLockSteps,
       OpSteps, GcSteps
<1>AfterLastMark. ASSUME AfterLastMark
     PROVE  FilesInv'
    BY <1>AfterLastMark, CacheAssumption DEF AfterLastMark, Goto, Visited, engine,
       gcVars, history, FilesInv, NoBlobIsLost, LockInv, TypeOK, Threads, OpLockSteps,
       OpSteps, GcSteps
<1>QuarantineFile. ASSUME QuarantineFile
     PROVE  FilesInv'
    BY <1>QuarantineFile, CacheAssumption DEF QuarantineFile, Goto, Abort, Fault,
       MovedOut, engine, gcVars, history, FilesInv, NoBlobIsLost, LockInv, TypeOK,
       Threads, OpLockSteps, OpSteps, GcSteps
<1>MarkQuarantined. ASSUME MarkQuarantined
     PROVE  FilesInv'
    BY <1>MarkQuarantined, CacheAssumption DEF MarkQuarantined, Goto, Visited, Abort,
       Fault, Moved, engine, gcVars, history, FilesInv, NoBlobIsLost, LockInv, TypeOK,
       Threads, OpLockSteps, OpSteps, GcSteps
<1>FinishSweep. ASSUME FinishSweep
     PROVE  FilesInv'
    BY <1>FinishSweep, CacheAssumption DEF FinishSweep, Abort, Goto, engine, gcVars,
       history, FilesInv, NoBlobIsLost, LockInv, TypeOK, Threads, OpLockSteps,
       OpSteps, GcSteps
<1>MarkFails. ASSUME MarkFails
     PROVE  FilesInv'
    BY <1>MarkFails, CacheAssumption DEF MarkFails, Abort, Goto, engine, gcVars,
       history, FilesInv, NoBlobIsLost, LockInv, TypeOK, Threads, OpLockSteps,
       OpSteps, GcSteps
<1>Crash. ASSUME Crash
     PROVE  FilesInv'
    BY <1>Crash, CacheAssumption DEF Crash, Fault, engine, gcVars, history, FilesInv,
       NoBlobIsLost, LockInv, TypeOK, Threads, OpLockSteps, OpSteps, GcSteps
<1>stutter. CASE UNCHANGED vars
    BY <1>stutter DEF vars, FilesInv, NoBlobIsLost, LockInv, TypeOK, Threads,
       OpLockSteps, OpSteps, GcSteps
<1> QED
    BY <1>ReactivateFile, <1>MarkReactivated, <1>Begin, <1>BeginActivation,
       <1>CopyBlob, <1>InsertBlob, <1>Rely, <1>CheckBlob, <1>Collected,
       <1>RegisterPlan, <1>StageLock, <1>MoveRevision, <1>BindReferences, <1>Complete,
       <1>PlanFails, <1>RunFails, <1>Recover, <1>StartSweep, <1>MarkReferences,
       <1>MarkPlans, <1>MarkProfiles, <1>MarkStaging, <1>AfterFirstMark,
       <1>RestoreNext, <1>SecondMark, <1>AfterSecondMark, <1>SweepNext,
       <1>AfterLastMark, <1>QuarantineFile, <1>MarkQuarantined, <1>FinishSweep,
       <1>MarkFails, <1>Crash, <1>stutter DEF Next, Operation, Sweep, Reactivation

\* A mark misses nobody who holds on while it reads.
LEMMA MarkPreserved ==
    ASSUME TypeOK, LockInv, EngineInv, MarkInv, [Next]_vars
    PROVE  MarkInv'
<1>ReactivateFile. ASSUME NEW t \in Threads, ReactivateFile(t)
     PROVE  MarkInv'
    BY <1>ReactivateFile, CacheAssumption DEF ReactivateFile, Goto, Abort, Fault,
       Moved, engine, gcVars, history, MarkInv, EngineInv, LockInv, TypeOK, Threads,
       RestoreSteps, SweepSteps, Registered, Held, OpSteps, GcSteps
<1>MarkReactivated. ASSUME NEW t \in Threads, MarkReactivated(t)
     PROVE  MarkInv'
    BY <1>MarkReactivated, CacheAssumption DEF MarkReactivated, Goto, Visited, Abort,
       Fault, MovedOut, engine, gcVars, history, MarkInv, EngineInv, LockInv, TypeOK,
       Threads, RestoreSteps, SweepSteps, Registered, Held, OpSteps, GcSteps
<1>Begin. ASSUME NEW o \in Ops, Begin(o)
     PROVE  MarkInv'
    BY <1>Begin, CacheAssumption DEF Begin, Goto, engine, gcVars, history, MarkInv,
       EngineInv, LockInv, TypeOK, Threads, RestoreSteps, SweepSteps, Registered,
       Held, OpSteps, GcSteps
<1>BeginActivation. ASSUME NEW o \in Ops, BeginActivation(o)
     PROVE  MarkInv'
    BY <1>BeginActivation, CacheAssumption DEF BeginActivation, Goto, engine, gcVars,
       history, MarkInv, EngineInv, LockInv, TypeOK, Threads, RestoreSteps,
       SweepSteps, Registered, Held, OpSteps, GcSteps
<1>CopyBlob. ASSUME NEW o \in Ops, CopyBlob(o)
     PROVE  MarkInv'
    BY <1>CopyBlob, CacheAssumption DEF CopyBlob, Goto, Abort, Fault, engine, gcVars,
       history, MarkInv, EngineInv, LockInv, TypeOK, Threads, RestoreSteps,
       SweepSteps, Registered, Held, OpSteps, GcSteps
<1>InsertBlob. ASSUME NEW o \in Ops, InsertBlob(o)
     PROVE  MarkInv'
    BY <1>InsertBlob, CacheAssumption DEF InsertBlob, Goto, Visited, Abort, Fault,
       engine, gcVars, history, MarkInv, EngineInv, LockInv, TypeOK, Threads,
       RestoreSteps, SweepSteps, Registered, Held, OpSteps, GcSteps
<1>Rely. ASSUME NEW o \in Ops, Rely(o)
     PROVE  MarkInv'
    BY <1>Rely, CacheAssumption DEF Rely, Visited, engine, gcVars, history, MarkInv,
       EngineInv, LockInv, TypeOK, Threads, RestoreSteps, SweepSteps, Registered,
       Held, OpSteps, GcSteps
<1>CheckBlob. ASSUME NEW o \in Ops, CheckBlob(o)
     PROVE  MarkInv'
    BY <1>CheckBlob, CacheAssumption DEF CheckBlob, Visited, Checks, Intact, engine,
       gcVars, history, MarkInv, EngineInv, LockInv, TypeOK, Threads, RestoreSteps,
       SweepSteps, Registered, Held, OpSteps, GcSteps
<1>Collected. ASSUME NEW o \in Ops, Collected(o)
     PROVE  MarkInv'
    BY <1>Collected, CacheAssumption DEF Collected, Proceed, Goto, engine, gcVars,
       history, MarkInv, EngineInv, LockInv, TypeOK, Threads, RestoreSteps,
       SweepSteps, Registered, Held, OpSteps, GcSteps
<1>RegisterPlan. ASSUME NEW o \in Ops, RegisterPlan(o)
     PROVE  MarkInv'
    BY <1>RegisterPlan, CacheAssumption DEF RegisterPlan, Proceed, Goto, engine,
       gcVars, history, MarkInv, EngineInv, LockInv, TypeOK, Threads, RestoreSteps,
       SweepSteps, Registered, Held, OpSteps, GcSteps
<1>StageLock. ASSUME NEW o \in Ops, StageLock(o)
     PROVE  MarkInv'
    BY <1>StageLock, CacheAssumption DEF StageLock, Goto, engine, gcVars, history,
       MarkInv, EngineInv, LockInv, TypeOK, Threads, RestoreSteps, SweepSteps,
       Registered, Held, OpSteps, GcSteps
<1>MoveRevision. ASSUME NEW o \in Ops, MoveRevision(o)
     PROVE  MarkInv'
    BY <1>MoveRevision, CacheAssumption DEF MoveRevision, Proceed, Goto, engine,
       gcVars, history, MarkInv, EngineInv, LockInv, TypeOK, Threads, RestoreSteps,
       SweepSteps, Registered, Held, OpSteps, GcSteps
<1>BindReferences. ASSUME NEW o \in Ops, BindReferences(o)
     PROVE  MarkInv'
    BY <1>BindReferences, CacheAssumption DEF BindReferences, Proceed, Goto, engine,
       gcVars, history, MarkInv, EngineInv, LockInv, TypeOK, Threads, RestoreSteps,
       SweepSteps, Registered, Held, OpSteps, GcSteps
<1>Complete. ASSUME NEW o \in Ops, Complete(o)
     PROVE  MarkInv'
    BY <1>Complete, CacheAssumption DEF Complete, Goto, engine, gcVars, history,
       MarkInv, EngineInv, LockInv, TypeOK, Threads, RestoreSteps, SweepSteps,
       Registered, Held, OpSteps, GcSteps
<1>PlanFails. ASSUME NEW o \in Ops, PlanFails(o)
     PROVE  MarkInv'
    BY <1>PlanFails, CacheAssumption DEF PlanFails, Goto, Fault, engine, gcVars,
       history, MarkInv, EngineInv, LockInv, TypeOK, Threads, RestoreSteps,
       SweepSteps, Registered, Held, OpSteps, GcSteps
<1>RunFails. ASSUME NEW o \in Ops, RunFails(o)
     PROVE  MarkInv'
    BY <1>RunFails, CacheAssumption DEF RunFails, Undo, Goto, Fault, engine, gcVars,
       history, MarkInv, EngineInv, LockInv, TypeOK, Threads, RestoreSteps,
       SweepSteps, Registered, Held, OpSteps, GcSteps
<1>Recover. ASSUME NEW o \in Ops, Recover(o)
     PROVE  MarkInv'
    BY <1>Recover, CacheAssumption DEF Recover, Undo, Goto, engine, gcVars, history,
       MarkInv, EngineInv, LockInv, TypeOK, Threads, RestoreSteps, SweepSteps,
       Registered, Held, OpSteps, GcSteps
<1>StartSweep. ASSUME StartSweep
     PROVE  MarkInv'
    BY <1>StartSweep, CacheAssumption DEF StartSweep, StartMark, Goto, Held, engine,
       gcVars, history, MarkInv, EngineInv, LockInv, TypeOK, Threads, RestoreSteps,
       SweepSteps, Registered, Held, OpSteps, GcSteps
<1>MarkReferences. ASSUME MarkReferences
     PROVE  MarkInv'
    BY <1>MarkReferences, CacheAssumption DEF MarkReferences, MarkFrom, BlobsOf, Goto,
       engine, gcVars, history, MarkInv, EngineInv, LockInv, TypeOK, Threads,
       RestoreSteps, SweepSteps, Registered, Held, OpSteps, GcSteps
<1>MarkPlans. ASSUME MarkPlans
     PROVE  MarkInv'
    BY <1>MarkPlans, CacheAssumption DEF MarkPlans, MarkFrom, BlobsOf, Goto, engine,
       gcVars, history, MarkInv, EngineInv, LockInv, TypeOK, Threads, RestoreSteps,
       SweepSteps, Registered, Held, OpSteps, GcSteps
<1>MarkProfiles. ASSUME MarkProfiles
     PROVE  MarkInv'
    BY <1>MarkProfiles, CacheAssumption DEF MarkProfiles, MarkFrom, BlobsOf, Goto,
       engine, gcVars, history, MarkInv, EngineInv, LockInv, TypeOK, Threads,
       RestoreSteps, SweepSteps, Registered, Held, OpSteps, GcSteps
<1>MarkStaging. ASSUME MarkStaging
     PROVE  MarkInv'
    BY <1>MarkStaging, CacheAssumption DEF MarkStaging, MarkFrom, BlobsOf, Goto,
       engine, gcVars, history, MarkInv, EngineInv, LockInv, TypeOK, Threads,
       RestoreSteps, SweepSteps, Registered, Held, OpSteps, GcSteps
<1>AfterFirstMark. ASSUME AfterFirstMark
     PROVE  MarkInv'
    BY <1>AfterFirstMark, CacheAssumption DEF AfterFirstMark, Goto, engine, gcVars,
       history, MarkInv, EngineInv, LockInv, TypeOK, Threads, RestoreSteps,
       SweepSteps, Registered, Held, OpSteps, GcSteps
<1>RestoreNext. ASSUME RestoreNext
     PROVE  MarkInv'
    BY <1>RestoreNext, CacheAssumption DEF RestoreNext, Goto, engine, gcVars, history,
       MarkInv, EngineInv, LockInv, TypeOK, Threads, RestoreSteps, SweepSteps,
       Registered, Held, OpSteps, GcSteps
<1>SecondMark. ASSUME SecondMark
     PROVE  MarkInv'
    BY <1>SecondMark, CacheAssumption DEF SecondMark, StartMark, Goto, Held, engine,
       gcVars, history, MarkInv, EngineInv, LockInv, TypeOK, Threads, RestoreSteps,
       SweepSteps, Registered, Held, OpSteps, GcSteps
<1>AfterSecondMark. ASSUME AfterSecondMark
     PROVE  MarkInv'
    BY <1>AfterSecondMark, CacheAssumption DEF AfterSecondMark, Goto, engine, gcVars,
       history, MarkInv, EngineInv, LockInv, TypeOK, Threads, RestoreSteps,
       SweepSteps, Registered, Held, OpSteps, GcSteps
<1>SweepNext. ASSUME SweepNext
     PROVE  MarkInv'
    BY <1>SweepNext, CacheAssumption DEF SweepNext, StartMark, Goto, Held, engine,
       gcVars, history, MarkInv, EngineInv, LockInv, TypeOK, Threads, RestoreSteps,
       SweepSteps, Registered, Held, OpSteps, GcSteps
<1>AfterLastMark. ASSUME AfterLastMark
     PROVE  MarkInv'
    BY <1>AfterLastMark, CacheAssumption DEF AfterLastMark, Goto, Visited, engine,
       gcVars, history, MarkInv, EngineInv, LockInv, TypeOK, Threads, RestoreSteps,
       SweepSteps, Registered, Held, OpSteps, GcSteps
<1>QuarantineFile. ASSUME QuarantineFile
     PROVE  MarkInv'
    BY <1>QuarantineFile, CacheAssumption DEF QuarantineFile, Goto, Abort, Fault,
       MovedOut, engine, gcVars, history, MarkInv, EngineInv, LockInv, TypeOK,
       Threads, RestoreSteps, SweepSteps, Registered, Held, OpSteps, GcSteps
<1>MarkQuarantined. ASSUME MarkQuarantined
     PROVE  MarkInv'
    BY <1>MarkQuarantined, CacheAssumption DEF MarkQuarantined, Goto, Visited, Abort,
       Fault, Moved, engine, gcVars, history, MarkInv, EngineInv, LockInv, TypeOK,
       Threads, RestoreSteps, SweepSteps, Registered, Held, OpSteps, GcSteps
<1>FinishSweep. ASSUME FinishSweep
     PROVE  MarkInv'
    BY <1>FinishSweep, CacheAssumption DEF FinishSweep, Abort, Goto, engine, gcVars,
       history, MarkInv, EngineInv, LockInv, TypeOK, Threads, RestoreSteps,
       SweepSteps, Registered, Held, OpSteps, GcSteps
<1>MarkFails. ASSUME MarkFails
     PROVE  MarkInv'
    BY <1>MarkFails, CacheAssumption DEF MarkFails, Abort, Goto, engine, gcVars,
       history, MarkInv, EngineInv, LockInv, TypeOK, Threads, RestoreSteps,
       SweepSteps, Registered, Held, OpSteps, GcSteps
<1>Crash. ASSUME Crash
     PROVE  MarkInv'
    BY <1>Crash, CacheAssumption DEF Crash, Fault, engine, gcVars, history, MarkInv,
       EngineInv, LockInv, TypeOK, Threads, RestoreSteps, SweepSteps, Registered,
       Held, OpSteps, GcSteps
<1>stutter. CASE UNCHANGED vars
    BY <1>stutter DEF vars, MarkInv, EngineInv, LockInv, TypeOK, Threads,
       RestoreSteps, SweepSteps, Registered, Held, OpSteps, GcSteps
<1> QED
    BY <1>ReactivateFile, <1>MarkReactivated, <1>Begin, <1>BeginActivation,
       <1>CopyBlob, <1>InsertBlob, <1>Rely, <1>CheckBlob, <1>Collected,
       <1>RegisterPlan, <1>StageLock, <1>MoveRevision, <1>BindReferences, <1>Complete,
       <1>PlanFails, <1>RunFails, <1>Recover, <1>StartSweep, <1>MarkReferences,
       <1>MarkPlans, <1>MarkProfiles, <1>MarkStaging, <1>AfterFirstMark,
       <1>RestoreNext, <1>SecondMark, <1>AfterSecondMark, <1>SweepNext,
       <1>AfterLastMark, <1>QuarantineFile, <1>MarkQuarantined, <1>FinishSweep,
       <1>MarkFails, <1>Crash, <1>stutter DEF Next, Operation, Sweep, Reactivation

\* What the first mark found is restored and stays so.
LEMMA SweepPreserved ==
    ASSUME TypeOK, LockInv, EngineInv, MarkInv, SweepInv, [Next]_vars
    PROVE  SweepInv'
<1>ReactivateFile. ASSUME NEW t \in Threads, ReactivateFile(t)
     PROVE  SweepInv'
    BY <1>ReactivateFile, CacheAssumption DEF ReactivateFile, Goto, Abort, Fault,
       Moved, engine, gcVars, history, SweepInv, MarkInv, EngineInv, LockInv, TypeOK,
       Threads, MarkSteps, RestoreSteps, SweepSteps, Registered, Held, OpSteps,
       GcSteps, OpLockSteps
<1>MarkReactivated. ASSUME NEW t \in Threads, MarkReactivated(t)
     PROVE  SweepInv'
    BY <1>MarkReactivated, CacheAssumption DEF MarkReactivated, Goto, Visited, Abort,
       Fault, MovedOut, engine, gcVars, history, SweepInv, MarkInv, EngineInv,
       LockInv, TypeOK, Threads, MarkSteps, RestoreSteps, SweepSteps, Registered,
       Held, OpSteps, GcSteps, OpLockSteps
<1>Begin. ASSUME NEW o \in Ops, Begin(o)
     PROVE  SweepInv'
    BY <1>Begin, CacheAssumption DEF Begin, Goto, engine, gcVars, history, SweepInv,
       MarkInv, EngineInv, LockInv, TypeOK, Threads, MarkSteps, RestoreSteps,
       SweepSteps, Registered, Held, OpSteps, GcSteps, OpLockSteps
<1>BeginActivation. ASSUME NEW o \in Ops, BeginActivation(o)
     PROVE  SweepInv'
    BY <1>BeginActivation, CacheAssumption DEF BeginActivation, Goto, engine, gcVars,
       history, SweepInv, MarkInv, EngineInv, LockInv, TypeOK, Threads, MarkSteps,
       RestoreSteps, SweepSteps, Registered, Held, OpSteps, GcSteps, OpLockSteps
<1>CopyBlob. ASSUME NEW o \in Ops, CopyBlob(o)
     PROVE  SweepInv'
    BY <1>CopyBlob, CacheAssumption DEF CopyBlob, Goto, Abort, Fault, engine, gcVars,
       history, SweepInv, MarkInv, EngineInv, LockInv, TypeOK, Threads, MarkSteps,
       RestoreSteps, SweepSteps, Registered, Held, OpSteps, GcSteps, OpLockSteps
<1>InsertBlob. ASSUME NEW o \in Ops, InsertBlob(o)
     PROVE  SweepInv'
    BY <1>InsertBlob, CacheAssumption DEF InsertBlob, Goto, Visited, Abort, Fault,
       engine, gcVars, history, SweepInv, MarkInv, EngineInv, LockInv, TypeOK,
       Threads, MarkSteps, RestoreSteps, SweepSteps, Registered, Held, OpSteps,
       GcSteps, OpLockSteps
<1>Rely. ASSUME NEW o \in Ops, Rely(o)
     PROVE  SweepInv'
    BY <1>Rely, CacheAssumption DEF Rely, Visited, engine, gcVars, history, SweepInv,
       MarkInv, EngineInv, LockInv, TypeOK, Threads, MarkSteps, RestoreSteps,
       SweepSteps, Registered, Held, OpSteps, GcSteps, OpLockSteps
<1>CheckBlob. ASSUME NEW o \in Ops, CheckBlob(o)
     PROVE  SweepInv'
    BY <1>CheckBlob, CacheAssumption DEF CheckBlob, Visited, Checks, Intact, engine,
       gcVars, history, SweepInv, MarkInv, EngineInv, LockInv, TypeOK, Threads,
       MarkSteps, RestoreSteps, SweepSteps, Registered, Held, OpSteps, GcSteps,
       OpLockSteps
<1>Collected. ASSUME NEW o \in Ops, Collected(o)
     PROVE  SweepInv'
    BY <1>Collected, CacheAssumption DEF Collected, Proceed, Goto, engine, gcVars,
       history, SweepInv, MarkInv, EngineInv, LockInv, TypeOK, Threads, MarkSteps,
       RestoreSteps, SweepSteps, Registered, Held, OpSteps, GcSteps, OpLockSteps
<1>RegisterPlan. ASSUME NEW o \in Ops, RegisterPlan(o)
     PROVE  SweepInv'
    BY <1>RegisterPlan, CacheAssumption DEF RegisterPlan, Proceed, Goto, engine,
       gcVars, history, SweepInv, MarkInv, EngineInv, LockInv, TypeOK, Threads,
       MarkSteps, RestoreSteps, SweepSteps, Registered, Held, OpSteps, GcSteps,
       OpLockSteps
<1>StageLock. ASSUME NEW o \in Ops, StageLock(o)
     PROVE  SweepInv'
    BY <1>StageLock, CacheAssumption DEF StageLock, Goto, engine, gcVars, history,
       SweepInv, MarkInv, EngineInv, LockInv, TypeOK, Threads, MarkSteps,
       RestoreSteps, SweepSteps, Registered, Held, OpSteps, GcSteps, OpLockSteps
<1>MoveRevision. ASSUME NEW o \in Ops, MoveRevision(o)
     PROVE  SweepInv'
    BY <1>MoveRevision, CacheAssumption DEF MoveRevision, Proceed, Goto, engine,
       gcVars, history, SweepInv, MarkInv, EngineInv, LockInv, TypeOK, Threads,
       MarkSteps, RestoreSteps, SweepSteps, Registered, Held, OpSteps, GcSteps,
       OpLockSteps
<1>BindReferences. ASSUME NEW o \in Ops, BindReferences(o)
     PROVE  SweepInv'
    BY <1>BindReferences, CacheAssumption DEF BindReferences, Proceed, Goto, engine,
       gcVars, history, SweepInv, MarkInv, EngineInv, LockInv, TypeOK, Threads,
       MarkSteps, RestoreSteps, SweepSteps, Registered, Held, OpSteps, GcSteps,
       OpLockSteps
<1>Complete. ASSUME NEW o \in Ops, Complete(o)
     PROVE  SweepInv'
    BY <1>Complete, CacheAssumption DEF Complete, Goto, engine, gcVars, history,
       SweepInv, MarkInv, EngineInv, LockInv, TypeOK, Threads, MarkSteps,
       RestoreSteps, SweepSteps, Registered, Held, OpSteps, GcSteps, OpLockSteps
<1>PlanFails. ASSUME NEW o \in Ops, PlanFails(o)
     PROVE  SweepInv'
    BY <1>PlanFails, CacheAssumption DEF PlanFails, Goto, Fault, engine, gcVars,
       history, SweepInv, MarkInv, EngineInv, LockInv, TypeOK, Threads, MarkSteps,
       RestoreSteps, SweepSteps, Registered, Held, OpSteps, GcSteps, OpLockSteps
<1>RunFails. ASSUME NEW o \in Ops, RunFails(o)
     PROVE  SweepInv'
    BY <1>RunFails, CacheAssumption DEF RunFails, Undo, Goto, Fault, engine, gcVars,
       history, SweepInv, MarkInv, EngineInv, LockInv, TypeOK, Threads, MarkSteps,
       RestoreSteps, SweepSteps, Registered, Held, OpSteps, GcSteps, OpLockSteps
<1>Recover. ASSUME NEW o \in Ops, Recover(o)
     PROVE  SweepInv'
    BY <1>Recover, CacheAssumption DEF Recover, Undo, Goto, engine, gcVars, history,
       SweepInv, MarkInv, EngineInv, LockInv, TypeOK, Threads, MarkSteps,
       RestoreSteps, SweepSteps, Registered, Held, OpSteps, GcSteps, OpLockSteps
<1>StartSweep. ASSUME StartSweep
     PROVE  SweepInv'
    BY <1>StartSweep, CacheAssumption DEF StartSweep, StartMark, Goto, Held, engine,
       gcVars, history, SweepInv, MarkInv, EngineInv, LockInv, TypeOK, Threads,
       MarkSteps, RestoreSteps, SweepSteps, Registered, Held, OpSteps, GcSteps,
       OpLockSteps
<1>MarkReferences. ASSUME MarkReferences
     PROVE  SweepInv'
    BY <1>MarkReferences, CacheAssumption DEF MarkReferences, MarkFrom, BlobsOf, Goto,
       engine, gcVars, history, SweepInv, MarkInv, EngineInv, LockInv, TypeOK,
       Threads, MarkSteps, RestoreSteps, SweepSteps, Registered, Held, OpSteps,
       GcSteps, OpLockSteps
<1>MarkPlans. ASSUME MarkPlans
     PROVE  SweepInv'
    BY <1>MarkPlans, CacheAssumption DEF MarkPlans, MarkFrom, BlobsOf, Goto, engine,
       gcVars, history, SweepInv, MarkInv, EngineInv, LockInv, TypeOK, Threads,
       MarkSteps, RestoreSteps, SweepSteps, Registered, Held, OpSteps, GcSteps,
       OpLockSteps
<1>MarkProfiles. ASSUME MarkProfiles
     PROVE  SweepInv'
    BY <1>MarkProfiles, CacheAssumption DEF MarkProfiles, MarkFrom, BlobsOf, Goto,
       engine, gcVars, history, SweepInv, MarkInv, EngineInv, LockInv, TypeOK,
       Threads, MarkSteps, RestoreSteps, SweepSteps, Registered, Held, OpSteps,
       GcSteps, OpLockSteps
<1>MarkStaging. ASSUME MarkStaging
     PROVE  SweepInv'
    BY <1>MarkStaging, CacheAssumption DEF MarkStaging, MarkFrom, BlobsOf, Goto,
       engine, gcVars, history, SweepInv, MarkInv, EngineInv, LockInv, TypeOK,
       Threads, MarkSteps, RestoreSteps, SweepSteps, Registered, Held, OpSteps,
       GcSteps, OpLockSteps
<1>AfterFirstMark. ASSUME AfterFirstMark
     PROVE  SweepInv'
    BY <1>AfterFirstMark, CacheAssumption DEF AfterFirstMark, Goto, engine, gcVars,
       history, SweepInv, MarkInv, EngineInv, LockInv, TypeOK, Threads, MarkSteps,
       RestoreSteps, SweepSteps, Registered, Held, OpSteps, GcSteps, OpLockSteps
<1>RestoreNext. ASSUME RestoreNext
     PROVE  SweepInv'
    BY <1>RestoreNext, CacheAssumption DEF RestoreNext, Goto, engine, gcVars, history,
       SweepInv, MarkInv, EngineInv, LockInv, TypeOK, Threads, MarkSteps,
       RestoreSteps, SweepSteps, Registered, Held, OpSteps, GcSteps, OpLockSteps
<1>SecondMark. ASSUME SecondMark
     PROVE  SweepInv'
    BY <1>SecondMark, CacheAssumption DEF SecondMark, StartMark, Goto, Held, engine,
       gcVars, history, SweepInv, MarkInv, EngineInv, LockInv, TypeOK, Threads,
       MarkSteps, RestoreSteps, SweepSteps, Registered, Held, OpSteps, GcSteps,
       OpLockSteps
<1>AfterSecondMark. ASSUME AfterSecondMark
     PROVE  SweepInv'
    BY <1>AfterSecondMark, CacheAssumption DEF AfterSecondMark, Goto, engine, gcVars,
       history, SweepInv, MarkInv, EngineInv, LockInv, TypeOK, Threads, MarkSteps,
       RestoreSteps, SweepSteps, Registered, Held, OpSteps, GcSteps, OpLockSteps
<1>SweepNext. ASSUME SweepNext
     PROVE  SweepInv'
    BY <1>SweepNext, CacheAssumption DEF SweepNext, StartMark, Goto, Held, engine,
       gcVars, history, SweepInv, MarkInv, EngineInv, LockInv, TypeOK, Threads,
       MarkSteps, RestoreSteps, SweepSteps, Registered, Held, OpSteps, GcSteps,
       OpLockSteps
<1>AfterLastMark. ASSUME AfterLastMark
     PROVE  SweepInv'
    BY <1>AfterLastMark, CacheAssumption DEF AfterLastMark, Goto, Visited, engine,
       gcVars, history, SweepInv, MarkInv, EngineInv, LockInv, TypeOK, Threads,
       MarkSteps, RestoreSteps, SweepSteps, Registered, Held, OpSteps, GcSteps,
       OpLockSteps
<1>QuarantineFile. ASSUME QuarantineFile
     PROVE  SweepInv'
    BY <1>QuarantineFile, CacheAssumption DEF QuarantineFile, Goto, Abort, Fault,
       MovedOut, engine, gcVars, history, SweepInv, MarkInv, EngineInv, LockInv,
       TypeOK, Threads, MarkSteps, RestoreSteps, SweepSteps, Registered, Held,
       OpSteps, GcSteps, OpLockSteps
<1>MarkQuarantined. ASSUME MarkQuarantined
     PROVE  SweepInv'
    BY <1>MarkQuarantined, CacheAssumption DEF MarkQuarantined, Goto, Visited, Abort,
       Fault, Moved, engine, gcVars, history, SweepInv, MarkInv, EngineInv, LockInv,
       TypeOK, Threads, MarkSteps, RestoreSteps, SweepSteps, Registered, Held,
       OpSteps, GcSteps, OpLockSteps
<1>FinishSweep. ASSUME FinishSweep
     PROVE  SweepInv'
    BY <1>FinishSweep, CacheAssumption DEF FinishSweep, Abort, Goto, engine, gcVars,
       history, SweepInv, MarkInv, EngineInv, LockInv, TypeOK, Threads, MarkSteps,
       RestoreSteps, SweepSteps, Registered, Held, OpSteps, GcSteps, OpLockSteps
<1>MarkFails. ASSUME MarkFails
     PROVE  SweepInv'
    BY <1>MarkFails, CacheAssumption DEF MarkFails, Abort, Goto, engine, gcVars,
       history, SweepInv, MarkInv, EngineInv, LockInv, TypeOK, Threads, MarkSteps,
       RestoreSteps, SweepSteps, Registered, Held, OpSteps, GcSteps, OpLockSteps
<1>Crash. ASSUME Crash
     PROVE  SweepInv'
    BY <1>Crash, CacheAssumption DEF Crash, Fault, engine, gcVars, history, SweepInv,
       MarkInv, EngineInv, LockInv, TypeOK, Threads, MarkSteps, RestoreSteps,
       SweepSteps, Registered, Held, OpSteps, GcSteps, OpLockSteps
<1>stutter. CASE UNCHANGED vars
    BY <1>stutter DEF vars, SweepInv, MarkInv, EngineInv, LockInv, TypeOK, Threads,
       MarkSteps, RestoreSteps, SweepSteps, Registered, Held, OpSteps, GcSteps,
       OpLockSteps
<1> QED
    BY <1>ReactivateFile, <1>MarkReactivated, <1>Begin, <1>BeginActivation,
       <1>CopyBlob, <1>InsertBlob, <1>Rely, <1>CheckBlob, <1>Collected,
       <1>RegisterPlan, <1>StageLock, <1>MoveRevision, <1>BindReferences, <1>Complete,
       <1>PlanFails, <1>RunFails, <1>Recover, <1>StartSweep, <1>MarkReferences,
       <1>MarkPlans, <1>MarkProfiles, <1>MarkStaging, <1>AfterFirstMark,
       <1>RestoreNext, <1>SecondMark, <1>AfterSecondMark, <1>SweepNext,
       <1>AfterLastMark, <1>QuarantineFile, <1>MarkQuarantined, <1>FinishSweep,
       <1>MarkFails, <1>Crash, <1>stutter DEF Next, Operation, Sweep, Reactivation

\* The conjunction is inductive.
IInv == TypeOK /\ LockInv /\ EngineInv /\ FilesInv /\ MarkInv /\ SweepInv

LEMMA InitIInv == Init => IInv
<1> SUFFICES ASSUME Init PROVE IInv
    OBVIOUS
<1>1. TypeOK /\ LockInv
    BY CacheAssumption DEF Init, TypeOK, LockInv, Threads, OpSteps, GcSteps, OpLockSteps,
       MarkSteps, RestoreSteps
<1>2. EngineInv
    BY DEF Init, EngineInv, Registered, Held, Threads
<1>3. FilesInv /\ MarkInv
    BY CacheAssumption DEF Init, FilesInv, NoBlobIsLost, MarkInv, RestoreSteps, SweepSteps,
       Threads
<1>4. SweepInv
    BY CacheAssumption DEF Init, SweepInv, RestoreSteps, MarkSteps, Threads
<1> QED
    BY <1>1, <1>2, <1>3, <1>4 DEF IInv

LEMMA IInvHolds == Spec => []IInv
<1>1. IInv /\ [Next]_vars => IInv'
    BY TypePreserved, LockPreserved, EnginePreserved, FilesPreserved, MarkPreserved,
       SweepPreserved DEF IInv
<1> QED
    BY InitIInv, <1>1, PTL DEF Spec

\* Every variable keeps its type, for any number of operations and blobs.
THEOREM TypeCorrect == Spec => []TypeOK
<1>1. IInv => TypeOK
    BY DEF IInv
<1> QED
    BY IInvHolds, <1>1, PTL

\* Whatever fails and wherever the process ends, the content of a blob with a
\* row is on disk, below cache/blobs or below cache/quarantine.
THEOREM NothingIsLost == Spec => []NoBlobIsLost
<1>1. IInv => NoBlobIsLost
    BY DEF IInv, FilesInv
<1> QED
    BY IInvHolds, <1>1, PTL

\* A sweep never moves a blob that an operation or a revision has held since
\* the last mark of that blob began.
THEOREM NobodyHoldingIsSwept == Spec => []HeldIsNeverSwept
<1>1. IInv => HeldIsNeverSwept
    BY DEF IInv, MarkInv, HeldIsNeverSwept, SweepSteps
<1> QED
    BY IInvHolds, <1>1, PTL

\* A sweep that ends without an error has made every blob available that was
\* held from its beginning to its end.
THEOREM SweepRestores == Spec => []SweepRestoresHeld
<1>1. IInv => SweepRestoresHeld
    BY CacheAssumption DEF IInv, TypeOK, LockInv, EngineInv, SweepInv, SweepRestoresHeld, Held
<1> QED
    BY IInvHolds, <1>1, PTL

\* Both together: sweeps and operations do not harm one another.
THEOREM SweepSpares == Spec => []SweepSparesHeld
<1>1. HeldIsNeverSwept /\ SweepRestoresHeld => SweepSparesHeld
    BY DEF SweepSparesHeld
<1> QED
    BY <1>1, NobodyHoldingIsSwept, SweepRestores, PTL

-----------------------------------------------------------------------------
(* Rows and files.  As long as no statement fails, only the holder of the    *)
(* lock is between a rename and the row that tells of it, so whoever takes   *)
(* the lock finds rows and files in step.                                    *)

\* The row of a blob says where its file is; without a row nothing is in
\* quarantine.
Fits(b) ==
    /\ row[b] = "verified" => blobFile[b] = "full" /\ b \notin quarFile
    /\ row[b] = "quarantined" => blobFile[b] = "absent" /\ b \in quarFile
    /\ row[b] = "none" => b \notin quarFile

\* A thread has renamed the file and not told the database yet.
BetweenFileAndRow(t, b) ==
    pc[t] \in {"markVerified", "markQuarantined"} /\ cur[t] = b

StepInv ==
    /\ \A b \in Blobs : Fits(b) \/ \E t \in Threads : BetweenFileAndRow(t, b)
    /\ \A t \in Threads : pc[t] = "markVerified" =>
         blobFile[cur[t]] = "full" /\ cur[t] \notin quarFile
    /\ \A t \in Threads : pc[t] = "markQuarantined" =>
         blobFile[cur[t]] = "absent" /\ cur[t] \in quarFile
    /\ \A o \in Ops : pc[o] \in {"copy", "insert"} => row[cur[o]] # "quarantined"

FaultlessInv == faults = 0 => StepInv

\* A step that touches neither rows nor files, and whose thread does not enter
\* or leave the statements that StepInv speaks of.
Elsewhere ==
    /\ UNCHANGED <<row, blobFile, quarFile>>
    /\ \A t \in Threads :
         \/ pc'[t] = pc[t] /\ cur'[t] = cur[t]
         \/ /\ pc[t] \notin {"markVerified", "markQuarantined"}
            /\ pc'[t] \notin {"markVerified", "markQuarantined", "copy", "insert"}

LEMMA ElsewhereKeeps ==
    ASSUME StepInv, Elsewhere
    PROVE  StepInv'
<1>1. \A b \in Blobs : Fits(b)' <=> Fits(b)
    BY DEF Elsewhere, Fits
<1>2. \A b \in Blobs, t \in Threads : BetweenFileAndRow(t, b) => BetweenFileAndRow(t, b)'
    BY DEF Elsewhere, BetweenFileAndRow
<1> QED
    BY <1>1, <1>2 DEF Elsewhere, StepInv, Threads

\* Without a fault an abort is such a step as well.
LEMMA AbortElsewhere ==
    ASSUME TypeOK, NEW t \in Threads, Abort(t), UNCHANGED <<row, blobFile, quarFile>>,
           pc[t] \notin {"markVerified", "markQuarantined"}
    PROVE  Elsewhere
BY DEF TypeOK, Abort, Goto, Elsewhere

LEMMA FaultlessReactivateFile ==
    ASSUME TypeOK, LockInv, StepInv, NEW t \in Threads, ReactivateFile(t), faults' = faults
    PROVE  StepInv'
<1>1. pc[t] = "reactivate" /\ UNCHANGED row /\ faults \in Nat
    BY DEF ReactivateFile, TypeOK
<1>2. CASE Abort(t) /\ UNCHANGED <<blobFile, quarFile>>
    BY <1>1, <1>2, AbortElsewhere, ElsewhereKeeps
<1>3. CASE /\ cur[t] \in quarFile /\ blobFile[cur[t]] = "absent"
           /\ Moved(cur[t]) /\ Goto(t, "markVerified") /\ UNCHANGED cur
    <2>1. cur[t] \in Blobs
        BY <1>1 DEF LockInv, Threads, OpLockSteps
    <2>2. \A x \in Threads : pc'[x] = IF x = t THEN "markVerified" ELSE pc[x]
        BY <1>3 DEF Goto, TypeOK
    <2>3. \A b \in Blobs : b # cur[t] => (Fits(b)' <=> Fits(b))
        BY <1>1, <1>3, <2>1 DEF Fits, Moved, TypeOK
    <2>4. BetweenFileAndRow(t, cur[t])'
        BY <1>3, <2>2 DEF BetweenFileAndRow
    <2>5. \A x \in Threads : x # t => pc[x] \notin {"markVerified", "markQuarantined"}
        BY <1>1, CacheAssumption DEF LockInv, Threads, OpLockSteps, OpSteps
    <2> QED
        BY <1>1, <1>3, <2>1, <2>2, <2>3, <2>4, <2>5 DEF StepInv, BetweenFileAndRow, Moved,
           TypeOK, Threads
<1> QED
    BY <1>1, <1>2, <1>3 DEF ReactivateFile, Fault

LEMMA FaultlessMarkReactivated ==
    ASSUME TypeOK, LockInv, StepInv, NEW t \in Threads, MarkReactivated(t), faults' = faults
    PROVE  StepInv'
<1>1. /\ pc[t] = "markVerified" /\ row' = [row EXCEPT ![cur[t]] = "verified"]
      /\ UNCHANGED <<blobFile, quarFile, cur>>
      /\ Goto(t, IF t = Gc THEN "restore" ELSE "copy")
    BY DEF MarkReactivated, Fault, TypeOK
<1>2. cur[t] \in Blobs
    BY <1>1 DEF LockInv, Threads, OpLockSteps
<1>3. \A x \in Threads : pc'[x] = IF x = t THEN IF t = Gc THEN "restore" ELSE "copy" ELSE pc[x]
    BY <1>1 DEF Goto, TypeOK
<1>4. \A b \in Blobs : b # cur[t] => (Fits(b)' <=> Fits(b))
    BY <1>1, <1>2 DEF Fits, TypeOK
<1>5. Fits(cur[t])'
    BY <1>1, <1>2 DEF Fits, TypeOK, StepInv
<1>6. row'[cur[t]] = "verified"
    BY <1>1, <1>2 DEF TypeOK
<1>7. \A b \in Blobs : row'[b] # row[b] => b = cur[t]
    BY <1>1, <1>2 DEF TypeOK
<1>8. \A x \in Ops : x # t => pc[x] \notin {"copy", "insert"}
    BY <1>1, CacheAssumption DEF LockInv, Threads, OpLockSteps
<1> QED
    BY <1>1, <1>2, <1>3, <1>4, <1>5, <1>6, <1>8, CacheAssumption
    DEF StepInv, BetweenFileAndRow, Threads

LEMMA FaultlessActivation ==
    ASSUME TypeOK, LockInv, StepInv, NEW o \in Ops, BeginActivation(o)
    PROVE  StepInv'
<1>1. PICK b \in pending[o] :
        /\ cur' = [cur EXCEPT ![o] = b]
        /\ Goto(o, IF row[b] = "quarantined" THEN "reactivate" ELSE "copy")
    BY DEF BeginActivation
<1>2. pc[o] = "acquire" /\ UNCHANGED <<row, blobFile, quarFile>> /\ o \in Threads
    BY DEF BeginActivation, Threads
<1>3. \A x \in Threads :
        /\ pc'[x] = IF x = o THEN IF row[b] = "quarantined" THEN "reactivate" ELSE "copy"
                    ELSE pc[x]
        /\ cur'[x] = IF x = o THEN b ELSE cur[x]
    BY <1>1, <1>2 DEF Goto, TypeOK
<1>4. \A c \in Blobs : Fits(c)' <=> Fits(c)
    BY <1>2 DEF Fits
<1>5. \A c \in Blobs, t \in Threads : BetweenFileAndRow(t, c) => BetweenFileAndRow(t, c)'
    BY <1>2, <1>3 DEF BetweenFileAndRow
<1> QED
    BY <1>2, <1>3, <1>4, <1>5 DEF StepInv, Threads

LEMMA FaultlessCopy ==
    ASSUME TypeOK, LockInv, StepInv, NEW o \in Ops, CopyBlob(o), faults' = faults
    PROVE  StepInv'
<1>1. pc[o] = "copy" /\ UNCHANGED <<row, quarFile>> /\ o \in Threads /\ faults \in Nat
    BY DEF CopyBlob, TypeOK, Threads
<1>2. CASE Abort(o) /\ UNCHANGED blobFile
    BY <1>1, <1>2, AbortElsewhere, ElsewhereKeeps
<1>3. CASE /\ blobFile[cur[o]] # "partial"
           /\ blobFile' = [blobFile EXCEPT ![cur[o]] = "full"]
           /\ Goto(o, "insert") /\ UNCHANGED cur
    <2>1. cur[o] \in Blobs
        BY <1>1 DEF LockInv, OpLockSteps
    <2>2. \A x \in Threads : pc'[x] = IF x = o THEN "insert" ELSE pc[x]
        BY <1>1, <1>3 DEF Goto, TypeOK
    <2>3. \A x \in Threads : pc[x] \notin {"markVerified", "markQuarantined"}
        BY <1>1, CacheAssumption DEF LockInv, Threads, OpLockSteps, OpSteps
    <2>4. row[cur[o]] # "quarantined"
        BY <1>1 DEF StepInv
    <2>5. \A b \in Blobs : Fits(b)
        BY <2>3 DEF StepInv, BetweenFileAndRow
    <2>6. \A b \in Blobs : Fits(b)'
        BY <1>1, <1>3, <2>1, <2>4, <2>5 DEF Fits, TypeOK
    <2> QED
        BY <1>1, <1>3, <2>2, <2>3, <2>6 DEF StepInv, Threads
<1> QED
    BY <1>1, <1>2, <1>3 DEF CopyBlob, Fault

LEMMA FaultlessInsert ==
    ASSUME TypeOK, LockInv, FilesInv, StepInv, NEW o \in Ops, InsertBlob(o),
           faults' = faults
    PROVE  StepInv'
<1>1. /\ pc[o] = "insert" /\ o \in Threads /\ faults \in Nat
      /\ UNCHANGED <<blobFile, quarFile>>
    BY DEF InsertBlob, TypeOK, Threads
<1>2. row[cur[o]] # "quarantined" /\ cur[o] \in Blobs /\ blobFile[cur[o]] = "full"
    BY <1>1 DEF StepInv, LockInv, OpLockSteps, FilesInv
<1>3. /\ row' = [row EXCEPT ![cur[o]] = "verified"] /\ Goto(o, "acquire")
      /\ cur' = [cur EXCEPT ![o] = Nothing]
    BY <1>1, <1>2 DEF InsertBlob, Fault
<1>4. \A x \in Threads : /\ pc'[x] = IF x = o THEN "acquire" ELSE pc[x]
                         /\ cur'[x] = IF x = o THEN Nothing ELSE cur[x]
    BY <1>3 DEF Goto, TypeOK
<1>5. \A x \in Threads : pc[x] \notin {"markVerified", "markQuarantined"}
    BY <1>1, CacheAssumption DEF LockInv, Threads, OpLockSteps, OpSteps
<1>6. \A b \in Blobs : Fits(b)
    BY <1>5 DEF StepInv, BetweenFileAndRow
<1>7. \A b \in Blobs : Fits(b)'
    BY <1>1, <1>2, <1>3, <1>6 DEF Fits, TypeOK
<1>8. \A x \in Ops : x # o => pc[x] \notin {"copy", "insert"}
    BY <1>1, CacheAssumption DEF LockInv, Threads, OpLockSteps
<1> QED
    BY <1>1, <1>4, <1>5, <1>7, <1>8 DEF StepInv, Threads

LEMMA FaultlessQuarantineFile ==
    ASSUME TypeOK, LockInv, StepInv, QuarantineFile, faults' = faults
    PROVE  StepInv'
<1>1. pc[Gc] = "quarantine" /\ UNCHANGED row /\ Gc \in Threads /\ faults \in Nat
    BY DEF QuarantineFile, TypeOK, Threads
<1>2. CASE Abort(Gc) /\ UNCHANGED <<blobFile, quarFile>>
    BY <1>1, <1>2, AbortElsewhere, ElsewhereKeeps
<1>3. CASE MovedOut(cur[Gc]) /\ Goto(Gc, "markQuarantined") /\ UNCHANGED cur
    <2>1. cur[Gc] \in Blobs
        BY <1>1 DEF LockInv
    <2>2. \A x \in Threads : pc'[x] = IF x = Gc THEN "markQuarantined" ELSE pc[x]
        BY <1>1, <1>3 DEF Goto, TypeOK
    <2>3. \A b \in Blobs : b # cur[Gc] => (Fits(b)' <=> Fits(b))
        BY <1>1, <1>3, <2>1 DEF Fits, MovedOut, TypeOK
    <2>4. BetweenFileAndRow(Gc, cur[Gc])'
        BY <1>1, <1>3, <2>2 DEF BetweenFileAndRow
    <2>5. \A x \in Threads : pc[x] \notin {"markVerified", "markQuarantined"}
        BY <1>1, CacheAssumption DEF LockInv, Threads, OpLockSteps, OpSteps
    <2> QED
        BY <1>1, <1>3, <2>1, <2>2, <2>3, <2>4, <2>5, CacheAssumption
        DEF StepInv, BetweenFileAndRow, MovedOut, TypeOK, Threads
<1> QED
    BY <1>1, <1>2, <1>3 DEF QuarantineFile, Fault

LEMMA FaultlessMarkQuarantined ==
    ASSUME TypeOK, LockInv, StepInv, MarkQuarantined, faults' = faults
    PROVE  StepInv'
<1>1. /\ pc[Gc] = "markQuarantined" /\ row' = [row EXCEPT ![cur[Gc]] = "quarantined"]
      /\ UNCHANGED <<blobFile, quarFile, cur>> /\ Goto(Gc, "sweep") /\ Gc \in Threads
    BY DEF MarkQuarantined, Fault, TypeOK, Threads
<1>2. cur[Gc] \in Blobs
    BY <1>1 DEF LockInv
<1>3. \A x \in Threads : pc'[x] = IF x = Gc THEN "sweep" ELSE pc[x]
    BY <1>1 DEF Goto, TypeOK
<1>4. \A b \in Blobs : b # cur[Gc] => (Fits(b)' <=> Fits(b))
    BY <1>1, <1>2 DEF Fits, TypeOK
<1>5. Fits(cur[Gc])'
    BY <1>1, <1>2 DEF Fits, TypeOK, StepInv
<1>6. \A x \in Ops : pc[x] \notin {"copy", "insert"}
    BY <1>1, CacheAssumption DEF LockInv, Threads, OpLockSteps
<1> QED
    BY <1>1, <1>2, <1>3, <1>4, <1>5, <1>6, CacheAssumption
    DEF StepInv, BetweenFileAndRow, Threads

\* Every other step is elsewhere, unless it is a fault.
LEMMA OperationElsewhere ==
    ASSUME TypeOK, LockInv, NEW o \in Ops, faults' = faults,
           \/ Begin(o) \/ Rely(o) \/ CheckBlob(o) \/ Collected(o) \/ RegisterPlan(o)
           \/ StageLock(o) \/ MoveRevision(o) \/ BindReferences(o) \/ Complete(o)
           \/ PlanFails(o) \/ RunFails(o) \/ Recover(o)
    PROVE  Elsewhere
<1> USE DEF Elsewhere, TypeOK, Threads, Goto
<1>1. CASE Begin(o) \/ Rely(o) \/ CheckBlob(o) \/ StageLock(o) \/ Complete(o)
    BY <1>1 DEF Begin, Rely, CheckBlob, StageLock, Complete
<1>2. CASE Collected(o) \/ RegisterPlan(o) \/ MoveRevision(o) \/ BindReferences(o)
    BY <1>2 DEF Collected, RegisterPlan, MoveRevision, BindReferences, Proceed
<1>3. CASE PlanFails(o) \/ RunFails(o) \/ Recover(o)
    BY <1>3 DEF PlanFails, RunFails, Recover, Undo
<1> QED
    BY <1>1, <1>2, <1>3

LEMMA SweepElsewhere ==
    ASSUME TypeOK, LockInv,
           \/ StartSweep \/ MarkReferences \/ MarkPlans \/ MarkProfiles \/ MarkStaging
           \/ AfterFirstMark \/ RestoreNext \/ SecondMark \/ AfterSecondMark
           \/ SweepNext \/ AfterLastMark \/ FinishSweep \/ MarkFails
    PROVE  Elsewhere
<1> USE DEF Elsewhere, TypeOK, Threads, Goto
<1>1. CASE StartSweep \/ SecondMark \/ SweepNext
    BY <1>1 DEF StartSweep, SecondMark, SweepNext, StartMark
<1>2. CASE MarkReferences \/ MarkPlans \/ MarkProfiles \/ MarkStaging
    BY <1>2 DEF MarkReferences, MarkPlans, MarkProfiles, MarkStaging, MarkFrom
<1>3. CASE AfterFirstMark \/ RestoreNext \/ AfterSecondMark \/ AfterLastMark
    BY <1>3 DEF AfterFirstMark, RestoreNext, AfterSecondMark, AfterLastMark
<1>4. CASE FinishSweep \/ MarkFails
    BY <1>4 DEF FinishSweep, MarkFails, Abort
<1> QED
    BY <1>1, <1>2, <1>3, <1>4

LEMMA FaultlessStep ==
    ASSUME IInv, FaultlessInv, [Next]_vars
    PROVE  FaultlessInv'
<1> SUFFICES ASSUME faults' = 0 PROVE StepInv'
    BY DEF FaultlessInv
<1> USE DEF IInv
<1>1. faults \in Nat
    BY CacheAssumption DEF TypeOK
<1>2. faults' = faults \/ faults' = faults + 1
    BY DEF Next, vars, Reactivation, ReactivateFile, MarkReactivated, Operation, Begin,
       BeginActivation, CopyBlob, InsertBlob, Rely, CheckBlob, Collected, RegisterPlan,
       StageLock, MoveRevision, BindReferences, Complete, PlanFails, RunFails, Recover,
       Undo, Sweep, StartSweep, MarkReferences, MarkPlans, MarkProfiles, MarkStaging,
       MarkFrom, AfterFirstMark, RestoreNext, SecondMark, AfterSecondMark, SweepNext,
       AfterLastMark, QuarantineFile, MarkQuarantined, FinishSweep, MarkFails, Crash, Fault
<1>3. faults' = faults /\ StepInv
    BY <1>1, <1>2 DEF FaultlessInv
<1>4. ASSUME NEW t \in Threads, Reactivation(t) PROVE StepInv'
    BY <1>3, <1>4, FaultlessReactivateFile, FaultlessMarkReactivated DEF Reactivation
<1>5. ASSUME NEW o \in Ops, Operation(o) PROVE StepInv'
    BY <1>3, <1>5, FaultlessActivation, FaultlessCopy, FaultlessInsert,
       OperationElsewhere, ElsewhereKeeps DEF Operation
<1>6. CASE Sweep
    BY <1>3, <1>6, FaultlessQuarantineFile, FaultlessMarkQuarantined, SweepElsewhere,
       ElsewhereKeeps DEF Sweep
<1>7. CASE Crash
    BY <1>1, <1>3, <1>7 DEF Crash, Fault
<1>8. CASE UNCHANGED vars
    BY <1>3, <1>8, ElsewhereKeeps DEF vars, Elsewhere
<1> QED
    BY <1>4, <1>5, <1>6, <1>7, <1>8 DEF Next

\* Without I/O errors and crashes the mutation lock keeps rows and files in
\* step: whoever takes it finds every verified blob whole and in its place and
\* every quarantined one in quarantine, however many operations and sweeps run.
THEOREM RowsNameTheirFiles == Spec => []FaultlessRowsNameTheirFiles
<1>1. Init => FaultlessInv
    BY DEF Init, FaultlessInv, StepInv, Fits, Threads
<1>2. IInv /\ FaultlessInv /\ [Next]_vars => FaultlessInv'
    BY FaultlessStep
<1>3. IInv /\ FaultlessInv => FaultlessRowsNameTheirFiles
    <2> SUFFICES ASSUME IInv, StepInv, lock = Nothing, NEW b \in Blobs PROVE Fits(b)
        BY DEF FaultlessInv, FaultlessRowsNameTheirFiles, RowNamesItsFile, Fits
    <2>1. \A t \in Threads : pc[t] \notin {"markVerified", "markQuarantined"}
        BY CacheAssumption DEF IInv, LockInv, Threads, OpLockSteps, OpSteps
    <2> QED
        BY <2>1 DEF StepInv, BetweenFileAndRow
<1> QED
    BY IInvHolds, <1>1, <1>2, <1>3, PTL DEF Spec
=============================================================================
