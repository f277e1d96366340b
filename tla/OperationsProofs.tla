-------------------------- MODULE OperationsProofs --------------------------
(***************************************************************************)
(* Proofs about Operations for every set of operations and profiles, every *)
(* bound on faults, and callers that may or may not overlap: types, the    *)
(* chain of revisions, the refinement of ProfileHistory, and what is left  *)
(* of operations that have ended.                                          *)
(***************************************************************************)
EXTENDS Operations, TLAPS

-----------------------------------------------------------------------------
(* Type correctness *)

\* The plan of an installed revision belongs to the one profile it is the
\* baseline of, and rests on no other revision.
LEMMA BaselinePlanFacts ==
  ASSUME NEW projects \in BOOLEAN, NEW o \in Ops
  PROVE  /\ BaselinePlan(projects)[o] \in Plans
         /\ BaselinePlan(projects)[o].prev = None
         /\ BaselinePlan(projects)[o].prevProjection = None
         /\ o \in BaselineOps => \E p \in Profiles :
              Baseline[p] = o /\ BaselinePlan(projects)[o].profile = p
         /\ o \notin BaselineOps => BaselinePlan(projects)[o].profile = None
<1>1. CASE o \in BaselineOps
  <2>1. PICK p \in Profiles : p = CHOOSE q \in Profiles : Baseline[q] = o
    BY <1>1 DEF BaselineOps
  <2>2. Baseline[p] = o
    BY <1>1, <2>1 DEF BaselineOps
  <2>3. BaselinePlan(projects)[o]
          = [NoPlan EXCEPT !.profile = p, !.projects = projects]
    BY <1>1, <2>1 DEF BaselinePlan
  <2>. QED
    BY <1>1, <2>2, <2>3 DEF NoPlan, Plans
<1>2. CASE o \notin BaselineOps
  BY <1>2 DEF BaselinePlan, NoPlan, Plans
<1>. QED
  BY <1>1, <1>2

LEMMA InitTypeOK == Init => TypeOK
<1>. SUFFICES ASSUME Init PROVE TypeOK
  OBVIOUS
<1>1. PICK projects \in BOOLEAN :
        /\ plan = BaselinePlan(projects)
        /\ projection = IF projects THEN Baseline ELSE [p \in Profiles |-> None]
  BY DEF Init
<1>2. projection \in [Profiles -> Ops \cup {None}]
  BY <1>1, OperationsAssumption
<1>3. plan \in [Ops -> Plans]
  BY <1>1, BaselinePlanFacts DEF BaselinePlan
<1>4. owner \in [Ops -> Profiles \cup {None}]
  BY <1>3 DEF Init, Plans
<1>5. /\ exists \subseteq Profiles
      /\ active \in [Profiles -> Ops \cup {None}]
      /\ status \in [Ops -> {"none", "committed", "invalidated"}]
      /\ opState \in [Ops -> {"none"} \cup Running \cup Terminal]
      /\ started \in [Ops -> Nat]
      /\ dir \in [Ops -> {"absent", "partial", "full"}]
      /\ pc \in [Ops -> AtRest \cup {"planned", "discard"} \cup RunSteps \cup UndoSteps]
  BY OperationsAssumption DEF Init, Running, Terminal, AtRest
<1>6. corrupt \subseteq Ops /\ refs \subseteq Ops /\ staged \subseteq Ops
      /\ todo \subseteq Ops /\ faults \in 0..MaxFaults
      /\ mode \in {"up", "down", "recovering"}
  BY OperationsAssumption DEF Init, BaselineOps
<1>. QED
  BY <1>2, <1>3, <1>4, <1>5, <1>6 DEF TypeOK

LEMMA PlanningTypeOK ==
  ASSUME TypeOK, NEW o \in Ops, Planning(o)
  PROVE  TypeOK'
<1>. USE OperationsAssumption DEF TypeOK, AtRest, At, Goto, Errs, database, files
<1>1. ASSUME NEW p \in Profiles, Create(o, p) PROVE TypeOK'
  BY <1>1 DEF Create, Plans
<1>2. ASSUME NEW p \in Profiles, Prepare(o, p) PROVE TypeOK'
  BY <1>2 DEF Prepare, Plans
<1>3. ASSUME InsertOperation(o)
      PROVE  /\ opState' \in [Ops -> {"none"} \cup Running \cup Terminal]
             /\ owner' \in [Ops -> Profiles \cup {None}]
             /\ started' \in [Ops -> Nat]
  <2>1. plan[o].profile \in Profiles \cup {None}
    BY DEF Plans
  <2>2. \A x \in Ops, later \in {0, 1} : started[x] + later \in Nat
    OBVIOUS
  <2>. QED
    BY <1>3, <2>1, <2>2 DEF InsertOperation, Running
<1>4. CASE Register(o)
  BY <1>3, <1>4 DEF Register, RunSteps
<1>5. CASE RegisterTorn(o)
  BY <1>3, <1>5 DEF RegisterTorn
<1>6. CASE Refuse(o)
  BY <1>6 DEF Refuse
<1>7. CASE Discard(o)
  BY <1>7 DEF Discard, DeleteProfile, RemoveProfileTree, CanDiscard
<1>8. CASE DiscardFails(o)
  BY <1>8 DEF DiscardFails, RemoveProfileTree
<1>. QED
  BY <1>1, <1>2, <1>4, <1>5, <1>6, <1>7, <1>8 DEF Planning

LEMMA TransitionTypeOK ==
  ASSUME TypeOK, NEW o \in Ops, NEW step,
         NEW next \in AtRest \cup RunSteps \cup UndoSteps,
         NEW state \in Running \cup Terminal,
         Transition(o, step, next, state)
  PROVE  TypeOK'
BY DEF Transition, TypeOK, Goto, Plans

LEMMA RunTypeOK ==
  ASSUME TypeOK, NEW o \in Ops, Run(o)
  PROVE  TypeOK'
<1>1. \A step, next, state :
         /\ Transition(o, step, next, state)
         /\ next \in AtRest \cup RunSteps \cup UndoSteps
         /\ state \in Running \cup Terminal
         => TypeOK'
  BY TransitionTypeOK
<1>2. CASE \/ BeginStaging(o) \/ BeginVerifying(o) \/ MarkReady(o)
           \/ BeginCommit(o) \/ BeginValidating(o) \/ Complete(o)
  BY <1>1, <1>2 DEF BeginStaging, BeginVerifying, MarkReady, BeginCommit,
     BeginValidating, Complete, Running, Terminal, RunSteps, AtRest
<1>3. CASE Activate(o)
  BY <1>3 DEF Activate, CanActivate, TypeOK, Goto, RunSteps
<1>4. CASE \/ Stage(o) \/ MoveRevision(o) \/ ValidateActive(o)
           \/ ReplaceReferences(o) \/ CleanStaging(o)
  BY <1>4 DEF Stage, MoveRevision, ValidateActive, ReplaceReferences,
     CleanStaging, TypeOK, Goto, RunSteps, database, files
<1>5. CASE RunFails(o)
  BY <1>5, OperationsAssumption DEF RunFails, Errs, TypeOK, Goto, UndoSteps, database
<1>. QED
  BY <1>2, <1>3, <1>4, <1>5 DEF Run

LEMMA RollbackTypeOK ==
  ASSUME TypeOK, NEW o \in Ops, Rollback(o)
  PROVE  TypeOK'
<1>1. \A step, next, state :
         /\ Transition(o, step, next, state)
         /\ next \in AtRest \cup RunSteps \cup UndoSteps
         /\ state \in Running \cup Terminal
         => TypeOK'
  BY TransitionTypeOK
<1>2. CASE BeginRollback(o) \/ Settle(o)
  BY <1>1, <1>2 DEF BeginRollback, Settle, Running, Terminal, UndoSteps, AtRest
<1>3. CASE RestorePrevious(o)
  BY <1>3 DEF RestorePrevious, CanRestore, TypeOK, Goto, Plans, UndoSteps
<1>4. CASE InspectActive(o) \/ RemoveReferences(o) \/ SweepStaging(o)
  BY <1>4 DEF InspectActive, RemoveReferences, SweepStaging, TypeOK, Goto,
     UndoSteps, database, files
<1>5. CASE RemoveRevision(o)
  BY <1>5 DEF RemoveRevision, TypeOK, Goto, UndoSteps, database
<1>6. CASE DetachProfile(o) \/ PurgeProfile(o)
  BY <1>6 DEF DetachProfile, PurgeProfile, RemoveProfileTree, CanDetach, DeleteProfile,
     TypeOK, Goto,
     UndoSteps, AtRest, database
<1>7. CASE UndoFails(o)
  BY <1>7, OperationsAssumption DEF UndoFails, Errs, TypeOK, Goto, AtRest, database, files
<1>. QED
  BY <1>2, <1>3, <1>4, <1>5, <1>6, <1>7 DEF Rollback

LEMMA HaltTypeOK ==
  ASSUME TypeOK, Halt
  PROVE  /\ mode' \in {"up", "down", "recovering"}
         /\ todo' \subseteq Ops
         /\ pc' \in [Ops -> AtRest \cup {"planned", "discard"} \cup RunSteps \cup UndoSteps]
BY DEF Halt, TypeOK, AtRest

LEMMA RecoveryTypeOK ==
  ASSUME TypeOK,
         \/ Crash \/ Restart \/ FinishRecovery
         \/ \E o \in Ops : CorruptPlan(o) \/ Recover(o) \/ RecoveryFails(o)
  PROVE  TypeOK'
<1>1. CASE Crash
  BY <1>1, HaltTypeOK, OperationsAssumption DEF Crash, TypeOK, database
<1>2. CASE Restart \/ FinishRecovery
  BY <1>2 DEF Restart, FinishRecovery, TypeOK, database, files
<1>3. ASSUME NEW o \in Ops, CorruptPlan(o) PROVE TypeOK'
  BY <1>3 DEF CorruptPlan, TypeOK
<1>4. ASSUME NEW o \in Ops, Recover(o) PROVE TypeOK'
  BY <1>4 DEF Recover, TypeOK, Goto, RunSteps, UndoSteps, database, files
<1>5. ASSUME NEW o \in Ops, RecoveryFails(o) PROVE TypeOK'
  BY <1>5, HaltTypeOK, OperationsAssumption DEF RecoveryFails, Errs, TypeOK, database, files
<1>. QED
  BY <1>1, <1>2, <1>3, <1>4, <1>5

LEMMA TypeStep == TypeOK /\ [Next]_vars => TypeOK'
<1>. SUFFICES ASSUME TypeOK, [Next]_vars PROVE TypeOK'
  OBVIOUS
<1>1. CASE UNCHANGED vars
  BY <1>1 DEF TypeOK, vars
<1>2. CASE Next
  BY <1>2, PlanningTypeOK, RunTypeOK, RollbackTypeOK, RecoveryTypeOK DEF Next
<1>. QED
  BY <1>1, <1>2

\* Every reachable state is well typed: the engine never leaves the states,
\* rows and directories its own code and schema know.
THEOREM TypeCorrect == Spec => []TypeOK
BY InitTypeOK, TypeStep, PTL DEF Spec

-----------------------------------------------------------------------------
(* The history of revisions.  HistoryIsChain is inductive together with the *)
(* type invariant and the fact that a plan is written only while its        *)
(* operation has no revision row.                                           *)

\* An operation nobody has planned yet owns no revision row.
IdleHasNoRow == \A o \in Ops : pc[o] = "idle" => status[o] = "none"

ChainInv == TypeOK /\ IdleHasNoRow /\ HistoryIsChain

\* No thread goes back to being idle.
NoNewIdle == \A o \in Ops : pc'[o] = "idle" => pc[o] = "idle"

LEMMA GotoIsNoNewIdle ==
  ASSUME TypeOK, NEW o \in Ops, NEW step, Goto(o, step), step # "idle"
  PROVE  NoNewIdle /\ pc'[o] # "idle"
BY DEF TypeOK, Goto, NoNewIdle

\* What the history is made of is left alone by every step but six.
LEMMA ChainFrame ==
  ASSUME IdleHasNoRow, HistoryIsChain, NoNewIdle,
         UNCHANGED <<active, status, plan>>
  PROVE  IdleHasNoRow' /\ HistoryIsChain'
BY DEF IdleHasNoRow, HistoryIsChain, Committed, NoNewIdle

\* A plan is only written for an operation without a row.
LEMMA ChainPlan ==
  ASSUME ChainInv, NEW o \in Ops, NEW new, pc[o] = "idle",
         plan' = [plan EXCEPT ![o] = new],
         NoNewIdle, UNCHANGED <<active, status>>
  PROVE  IdleHasNoRow' /\ HistoryIsChain'
<1>1. status[o] = "none" /\ o \notin Committed
  BY DEF ChainInv, IdleHasNoRow, Committed
<1>2. \A x \in Committed : plan'[x] = plan[x]
  BY <1>1 DEF ChainInv, TypeOK, Committed
<1>3. Committed' = Committed /\ Committed \subseteq Ops
  BY DEF Committed
<1>. QED
  BY <1>2, <1>3 DEF ChainInv, TypeOK, IdleHasNoRow, HistoryIsChain, NoNewIdle

\* Deleting a profile without a current revision takes all its rows along.
LEMMA ChainDelete ==
  ASSUME ChainInv, NEW p \in Profiles, active[p] = None, DeleteProfile(p),
         NoNewIdle, UNCHANGED <<active, plan>>
  PROVE  IdleHasNoRow' /\ HistoryIsChain'
<1>1. Committed' = {x \in Committed : plan[x].profile # p}
  BY DEF ChainInv, TypeOK, Committed, DeleteProfile
<1>2. IdleHasNoRow'
  BY DEF ChainInv, IdleHasNoRow, NoNewIdle, DeleteProfile
<1>. QED
  BY <1>1, <1>2 DEF ChainInv, HistoryIsChain

LEMMA ChainActivate ==
  ASSUME ChainInv, NEW o \in Ops, Activate(o)
  PROVE  IdleHasNoRow' /\ HistoryIsChain'
<1>. DEFINE p == plan[o].profile
<1>1. /\ p \in Profiles
      /\ active[p] = plan[o].prev
      /\ active' = [active EXCEPT ![p] = o]
      /\ status[o] = "none"
      /\ status' = [status EXCEPT ![o] = "committed"]
      /\ plan' = plan
  BY DEF Activate, CanActivate, ChainInv, TypeOK
<1>2. NoNewIdle /\ pc'[o] # "idle"
  BY GotoIsNoNewIdle DEF Activate, ChainInv
<1>3. o \notin Committed /\ Committed' = Committed \cup {o}
  BY <1>1 DEF Committed, ChainInv, TypeOK
<1>4. IdleHasNoRow'
  BY <1>1, <1>2 DEF ChainInv, TypeOK, IdleHasNoRow, NoNewIdle
<1>5. plan[o].prev # o
  BY <1>1, <1>3, OperationsAssumption DEF ChainInv, HistoryIsChain
<1>6. \A q \in Profiles : active'[q] = IF q = p THEN o ELSE active[q]
  BY <1>1 DEF ChainInv, TypeOK
<1>7. \A q \in Profiles : active'[q] # None =>
        active'[q] \in Committed' /\ plan'[active'[q]].profile = q
  BY <1>1, <1>3, <1>6 DEF ChainInv, HistoryIsChain
<1>8. ASSUME NEW x \in Committed'
      PROVE  /\ plan'[x].profile \in Profiles
             /\ plan'[x].prev # active'[plan'[x].profile]
             /\ plan'[x].prev # None =>
                  /\ plan'[x].prev \in Committed'
                  /\ plan'[plan'[x].prev].profile = plan'[x].profile
  <2>1. CASE x = o
    BY <1>1, <1>3, <1>5, <1>6, <2>1 DEF ChainInv, HistoryIsChain
  <2>2. CASE x # o
    <3>1. x \in Committed /\ x \in Ops
      BY <1>3, <2>2 DEF Committed
    <3>2. plan[x].prev # o
      BY <1>3, <3>1, OperationsAssumption DEF ChainInv, HistoryIsChain
    <3>. QED
      BY <1>1, <1>3, <1>6, <3>1, <3>2 DEF ChainInv, HistoryIsChain
  <2>. QED
    BY <2>1, <2>2
<1>9. ASSUME NEW x \in Committed', NEW y \in Committed',
             plan'[x].profile = plan'[y].profile, plan'[x].prev = plan'[y].prev
      PROVE  x = y
  BY <1>1, <1>3, <1>9 DEF ChainInv, HistoryIsChain
<1>. QED
  BY <1>4, <1>7, <1>8, <1>9 DEF HistoryIsChain

LEMMA ChainRestore ==
  ASSUME ChainInv, NEW o \in Ops, RestorePrevious(o)
  PROVE  IdleHasNoRow' /\ HistoryIsChain'
<1>. DEFINE p == plan[o].profile
<1>1. /\ p \in Profiles
      /\ active[p] = o
      /\ active' = [active EXCEPT ![p] = plan[o].prev]
      /\ status' = [status EXCEPT ![o] = "invalidated"]
      /\ plan' = plan
  BY DEF RestorePrevious, CanRestore, ChainInv, TypeOK
<1>2. NoNewIdle /\ pc'[o] # "idle"
  BY GotoIsNoNewIdle DEF RestorePrevious, ChainInv
<1>3. o \in Committed /\ Committed' = Committed \ {o}
  BY <1>1, OperationsAssumption DEF Committed, ChainInv, TypeOK, HistoryIsChain
<1>4. IdleHasNoRow'
  BY <1>1, <1>2 DEF ChainInv, TypeOK, IdleHasNoRow, NoNewIdle
<1>5. \A q \in Profiles : active'[q] = IF q = p THEN plan[o].prev ELSE active[q]
  BY <1>1 DEF ChainInv, TypeOK
<1>6. plan[o].prev # o
  BY <1>1, <1>3 DEF ChainInv, HistoryIsChain
<1>7. ASSUME NEW q \in Profiles, active'[q] # None
      PROVE  active'[q] \in Committed' /\ plan'[active'[q]].profile = q
  BY <1>1, <1>3, <1>5, <1>6, <1>7 DEF ChainInv, HistoryIsChain
<1>8. ASSUME NEW x \in Committed'
      PROVE  /\ plan'[x].profile \in Profiles
             /\ plan'[x].prev # active'[plan'[x].profile]
             /\ plan'[x].prev # None =>
                  /\ plan'[x].prev \in Committed'
                  /\ plan'[plan'[x].prev].profile = plan'[x].profile
  <2>1. x \in Committed /\ x # o
    BY <1>3
  <2>2. plan[x].prev = o => plan[x].profile = p
    BY <2>1, OperationsAssumption DEF ChainInv, HistoryIsChain
  <2>3. plan[x].prev # o
    BY <1>1, <2>1, <2>2 DEF ChainInv, HistoryIsChain
  <2>. QED
    BY <1>1, <1>3, <1>5, <2>1, <2>3 DEF ChainInv, HistoryIsChain
<1>. QED
  BY <1>1, <1>3, <1>4, <1>7, <1>8 DEF ChainInv, HistoryIsChain

LEMMA ChainInit == Init => ChainInv
<1>. SUFFICES ASSUME Init PROVE ChainInv
  OBVIOUS
<1>1. TypeOK
  BY InitTypeOK
<1>2. IdleHasNoRow
  BY DEF Init, IdleHasNoRow
<1>3. PICK projects \in BOOLEAN : plan = BaselinePlan(projects)
  BY DEF Init
<1>4. Committed = BaselineOps
  BY DEF Init, Committed, BaselineOps
<1>5. \A o \in Ops :
        /\ plan[o].prev = None
        /\ o \in BaselineOps => \E p \in Profiles :
             Baseline[p] = o /\ plan[o].profile = p
  BY <1>3, BaselinePlanFacts
<1>6. active = Baseline
  BY DEF Init
<1>7. \A o \in BaselineOps : o \in Ops /\ o # None
  BY OperationsAssumption DEF BaselineOps
<1>8. \A p \in Profiles : Baseline[p] # None =>
        Baseline[p] \in BaselineOps /\ plan[Baseline[p]].profile = p
  BY <1>5, OperationsAssumption DEF BaselineOps
<1>9. \A o \in BaselineOps :
        plan[o].profile \in Profiles /\ Baseline[plan[o].profile] = o
  BY <1>5, <1>7
<1>10. HistoryIsChain
  BY <1>4, <1>5, <1>6, <1>7, <1>8, <1>9 DEF HistoryIsChain
<1>. QED
  BY <1>1, <1>2, <1>10 DEF ChainInv

LEMMA ChainStep == ChainInv /\ [Next]_vars => ChainInv'
<1>. SUFFICES ASSUME ChainInv, [Next]_vars PROVE ChainInv'
  OBVIOUS
<1>1. TypeOK /\ IdleHasNoRow /\ HistoryIsChain
  BY DEF ChainInv
<1>2. ASSUME UNCHANGED vars PROVE IdleHasNoRow' /\ HistoryIsChain'
  BY <1>1, <1>2, ChainFrame DEF vars, NoNewIdle
<1>3. ASSUME NEW o \in Ops, Planning(o) PROVE IdleHasNoRow' /\ HistoryIsChain'
  <2>1. CASE \E p \in Profiles : Create(o, p) \/ Prepare(o, p)
    BY <1>1, <2>1, ChainPlan, GotoIsNoNewIdle DEF Create, Prepare
  <2>2. CASE Discard(o)
    BY <1>1, <2>2, ChainDelete, GotoIsNoNewIdle DEF Discard, CanDiscard, TypeOK
  <2>3. CASE Register(o) \/ RegisterTorn(o) \/ Refuse(o) \/ DiscardFails(o)
    BY <1>1, <2>3, ChainFrame, GotoIsNoNewIdle
    DEF Register, RegisterTorn, Refuse, DiscardFails, database
  <2>. QED
    BY <1>3, <2>1, <2>2, <2>3 DEF Planning
<1>4. ASSUME NEW o \in Ops, Run(o) PROVE IdleHasNoRow' /\ HistoryIsChain'
  <2>1. CASE Activate(o)
    BY <2>1, ChainActivate
  <2>2. CASE \/ BeginStaging(o) \/ BeginVerifying(o) \/ MarkReady(o)
             \/ BeginCommit(o) \/ BeginValidating(o) \/ Complete(o)
    BY <1>1, <2>2, ChainFrame, GotoIsNoNewIdle
    DEF BeginStaging, BeginVerifying, MarkReady, BeginCommit, BeginValidating,
        Complete, Transition
  <2>3. CASE \/ Stage(o) \/ MoveRevision(o) \/ ValidateActive(o)
             \/ ReplaceReferences(o) \/ CleanStaging(o) \/ RunFails(o)
    BY <1>1, <2>3, ChainFrame, GotoIsNoNewIdle
    DEF Stage, MoveRevision, ValidateActive, ReplaceReferences, CleanStaging,
        RunFails, database
  <2>. QED
    BY <1>4, <2>1, <2>2, <2>3 DEF Run
<1>5. ASSUME NEW o \in Ops, Rollback(o) PROVE IdleHasNoRow' /\ HistoryIsChain'
  <2>1. CASE RestorePrevious(o)
    BY <2>1, ChainRestore
  <2>2. CASE DetachProfile(o)
    BY <1>1, <2>2, ChainDelete, GotoIsNoNewIdle DEF DetachProfile, CanDetach, TypeOK
  <2>3. CASE BeginRollback(o) \/ Settle(o)
    BY <1>1, <2>3, ChainFrame, GotoIsNoNewIdle DEF BeginRollback, Settle, Transition
  <2>4. CASE RemoveRevision(o)
    BY <1>1, <2>4, ChainFrame, GotoIsNoNewIdle DEF RemoveRevision, NoNewIdle, database
  <2>5. CASE \/ InspectActive(o) \/ RemoveReferences(o) \/ SweepStaging(o)
             \/ PurgeProfile(o) \/ UndoFails(o)
    BY <1>1, <2>5, ChainFrame, GotoIsNoNewIdle
    DEF InspectActive, RemoveReferences, SweepStaging, PurgeProfile, UndoFails, database
  <2>. QED
    BY <1>5, <2>1, <2>2, <2>3, <2>4, <2>5 DEF Rollback
<1>6. ASSUME \/ Crash \/ Restart \/ FinishRecovery
             \/ \E o \in Ops : CorruptPlan(o) \/ Recover(o) \/ RecoveryFails(o)
      PROVE  IdleHasNoRow' /\ HistoryIsChain'
  <2>1. NoNewIdle
    BY <1>1, <1>6, GotoIsNoNewIdle
    DEF Crash, Restart, FinishRecovery, CorruptPlan, Recover, RecoveryFails, Halt, NoNewIdle
  <2>2. UNCHANGED <<active, status, plan>>
    BY <1>6 DEF Crash, Restart, FinishRecovery, CorruptPlan, Recover,
       RecoveryFails, database
  <2>. QED
    BY <1>1, <2>1, <2>2, ChainFrame
<1>7. IdleHasNoRow' /\ HistoryIsChain'
  BY <1>2, <1>3, <1>4, <1>5, <1>6 DEF Next
<1>. QED
  BY <1>7, TypeStep DEF ChainInv

LEMMA ChainInvariant == Spec => []ChainInv
BY ChainInit, ChainStep, PTL DEF Spec

\* The committed revisions of every profile form one chain that ends in the
\* active one, however many operations of a profile overlap, fail, crash or
\* are recovered.
THEOREM RevisionsFormAChain == Spec => []HistoryIsChain
<1>1. ChainInv => HistoryIsChain
  BY DEF ChainInv
<1>. QED
  BY <1>1, ChainInvariant, PTL

\* A rollback or recovery that finds its revision active can always return to
\* the previous one: the database never refuses it.
THEOREM RollbackIsNeverRefused == Spec => []RollbackNeverBlocked
<1>1. ChainInv => RollbackNeverBlocked
  BY OperationsAssumption
  DEF ChainInv, HistoryIsChain, RollbackNeverBlocked, CanRestore, Committed, TypeOK
<1>. QED
  BY <1>1, ChainInvariant, PTL

\* Both together: whatever was appended to a history can be taken back.
THEOREM HistoryIsUndoable == Spec => []HistoryCanBeUndone
<1>1. HistoryIsChain /\ RollbackNeverBlocked => HistoryCanBeUndone
  BY DEF HistoryCanBeUndone
<1>. QED
  BY <1>1, RevisionsFormAChain, RollbackIsNeverRefused, PTL

-----------------------------------------------------------------------------
(* Refinement: the operation engine implements ProfileHistory; whatever    *)
(* threads, crashes and recovery do, a profile only ever gets a revision   *)
(* appended on top of its current one or its current revision taken back.  *)

abstractVars == <<exists, active, status, ParentOf, HomeOf>>

LEMMA RefinementInit == Init => History!Init
<1>. SUFFICES ASSUME Init PROVE History!Init
  OBVIOUS
<1>1. PICK projects \in BOOLEAN : plan = BaselinePlan(projects)
  BY DEF Init
<1>2. \A o \in Ops : o \in BaselineOps <=> History!IsBaseline(o)
  BY DEF BaselineOps, History!IsBaseline
<1>3. status = [o \in Ops |-> IF History!IsBaseline(o) THEN "committed" ELSE "none"]
  BY <1>2 DEF Init
<1>4. ParentOf = [o \in Ops |-> None]
  BY <1>1, BaselinePlanFacts DEF ParentOf
<1>5. ASSUME NEW o \in Ops
      PROVE  HomeOf[o] = IF History!IsBaseline(o) THEN History!BaselineHome(o) ELSE None
  <2>1. CASE o \in BaselineOps
    <3>1. PICK p \in Profiles : Baseline[p] = o /\ plan[o].profile = p
      BY <1>1, <2>1, BaselinePlanFacts
    <3>2. \A q \in Profiles : Baseline[q] = o => q = p
      BY <3>1, OperationsAssumption
    <3>3. History!BaselineHome(o) = p
      BY <3>1, <3>2 DEF History!BaselineHome
    <3>. QED
      BY <1>2, <1>3, <2>1, <3>1, <3>3 DEF HomeOf
  <2>2. CASE o \notin BaselineOps
    BY <1>2, <1>3, <2>2 DEF HomeOf
  <2>. QED
    BY <2>1, <2>2
<1>6. HomeOf = [o \in Ops |-> IF History!IsBaseline(o)
                              THEN History!BaselineHome(o) ELSE None]
  BY <1>5 DEF HomeOf
<1>. QED
  BY <1>3, <1>4, <1>6 DEF Init, History!Init

\* Steps that leave the database's view of the history alone are stutters.
LEMMA RefinementStutter ==
  ASSUME UNCHANGED <<exists, active, status, plan>>
  PROVE  UNCHANGED abstractVars
BY DEF abstractVars, ParentOf, HomeOf

\* Writing the plan of an operation without a row is invisible.
LEMMA RefinementPlan ==
  ASSUME ChainInv, NEW o \in Ops, NEW new, pc[o] = "idle",
         plan' = [plan EXCEPT ![o] = new], status' = status
  PROVE  ParentOf' = ParentOf /\ HomeOf' = HomeOf
<1>1. \A x \in Ops : status[x] # "none" => plan'[x] = plan[x]
  BY DEF ChainInv, TypeOK, IdleHasNoRow
<1>. QED
  BY <1>1 DEF ParentOf, HomeOf

LEMMA RefinementCreate ==
  ASSUME ChainInv, NEW o \in Ops, NEW p \in Profiles, Create(o, p)
  PROVE  History!Open(p)
BY RefinementPlan DEF Create, History!Open

LEMMA RefinementActivate ==
  ASSUME ChainInv, NEW o \in Ops, Activate(o)
  PROVE  History!Append(plan[o].profile, o)
<1>. DEFINE p == plan[o].profile
<1>1. /\ p \in exists /\ p \in Profiles
      /\ active[p] = plan[o].prev
      /\ active' = [active EXCEPT ![p] = o]
      /\ status[o] = "none"
      /\ status' = [status EXCEPT ![o] = "committed"]
      /\ UNCHANGED <<exists, plan>>
  BY DEF Activate, CanActivate, ChainInv, TypeOK
<1>2. \A x \in Ops : status'[x] = IF x = o THEN "committed" ELSE status[x]
  BY <1>1 DEF ChainInv, TypeOK
<1>3. ParentOf' = [ParentOf EXCEPT ![o] = active[p]]
  <2>1. \A x \in Ops : (IF status'[x] = "none" THEN None ELSE plan'[x].prev)
                      = IF x = o THEN active[p] ELSE ParentOf[x]
    BY <1>1, <1>2 DEF ParentOf
  <2>. QED
    BY <2>1 DEF ParentOf
<1>4. HomeOf' = [HomeOf EXCEPT ![o] = p]
  <2>1. \A x \in Ops : (IF status'[x] = "none" THEN None ELSE plan'[x].profile)
                      = IF x = o THEN p ELSE HomeOf[x]
    BY <1>1, <1>2 DEF HomeOf
  <2>. QED
    BY <2>1 DEF HomeOf
<1>. QED
  BY <1>1, <1>3, <1>4 DEF History!Append

LEMMA RefinementRestore ==
  ASSUME ChainInv, NEW o \in Ops, RestorePrevious(o)
  PROVE  History!TakeBack(plan[o].profile, o)
<1>. DEFINE p == plan[o].profile
<1>1. /\ p \in exists /\ p \in Profiles
      /\ active[p] = o
      /\ active' = [active EXCEPT ![p] = plan[o].prev]
      /\ status' = [status EXCEPT ![o] = "invalidated"]
      /\ UNCHANGED <<exists, plan>>
  BY DEF RestorePrevious, CanRestore, ChainInv, TypeOK
<1>2. status[o] = "committed"
  BY <1>1, OperationsAssumption DEF ChainInv, HistoryIsChain, Committed
<1>3. \A x \in Ops : status'[x] = IF x = o THEN "invalidated" ELSE status[x]
  BY <1>1 DEF ChainInv, TypeOK
<1>4. ParentOf' = ParentOf /\ ParentOf[o] = plan[o].prev
  BY <1>1, <1>2, <1>3 DEF ParentOf
<1>5. HomeOf' = HomeOf /\ HomeOf[o] = p
  BY <1>1, <1>2, <1>3 DEF HomeOf
<1>. QED
  BY <1>1, <1>2, <1>4, <1>5 DEF History!TakeBack

LEMMA RefinementDelete ==
  ASSUME ChainInv, NEW p \in Profiles, p \in exists, active[p] = None,
         DeleteProfile(p), UNCHANGED <<active, plan>>
  PROVE  History!Close(p)
<1>1. \A x \in Ops : HomeOf[x] = p <=> status[x] # "none" /\ plan[x].profile = p
  BY OperationsAssumption DEF HomeOf
<1>2. status' = [x \in Ops |-> IF HomeOf[x] = p THEN "none" ELSE status[x]]
  <2>1. \A x \in Ops : (IF plan[x].profile = p THEN "none" ELSE status[x])
                     = (IF HomeOf[x] = p THEN "none" ELSE status[x])
    BY <1>1
  <2>. QED
    BY <2>1 DEF DeleteProfile
<1>3. \A x \in Ops : status'[x] = IF plan[x].profile = p THEN "none" ELSE status[x]
  BY DEF DeleteProfile
<1>4. ParentOf' = [x \in Ops |-> IF HomeOf[x] = p THEN None ELSE ParentOf[x]]
  BY <1>1, <1>3 DEF ParentOf
<1>5. HomeOf' = [x \in Ops |-> IF HomeOf[x] = p THEN None ELSE HomeOf[x]]
  BY <1>1, <1>3 DEF HomeOf
<1>. QED
  BY <1>2, <1>4, <1>5 DEF DeleteProfile, History!Close

LEMMA RefinementStep ==
  ChainInv /\ [Next]_vars => [History!Next]_abstractVars
<1>. SUFFICES ASSUME ChainInv, [Next]_vars PROVE [History!Next]_abstractVars
  OBVIOUS
<1>1. CASE UNCHANGED vars
  BY <1>1, RefinementStutter DEF vars
<1>2. ASSUME NEW o \in Ops, Planning(o) PROVE [History!Next]_abstractVars
  <2>1. ASSUME NEW p \in Profiles, Create(o, p) PROVE History!Next
    BY <2>1, RefinementCreate DEF History!Next
  <2>2. ASSUME NEW p \in Profiles, Prepare(o, p) PROVE UNCHANGED abstractVars
    BY <2>2, RefinementPlan DEF Prepare, abstractVars
  <2>3. CASE Discard(o)
    BY <2>3, RefinementDelete DEF Discard, CanDiscard, ChainInv, TypeOK, History!Next
  <2>4. CASE Register(o) \/ RegisterTorn(o) \/ Refuse(o) \/ DiscardFails(o)
    BY <2>4, RefinementStutter
    DEF Register, RegisterTorn, Refuse, DiscardFails, database
  <2>. QED
    BY <1>2, <2>1, <2>2, <2>3, <2>4 DEF Planning
<1>3. ASSUME NEW o \in Ops, Run(o) PROVE [History!Next]_abstractVars
  <2>1. CASE Activate(o)
    BY <2>1, RefinementActivate DEF Activate, CanActivate, ChainInv, TypeOK, History!Next
  <2>2. CASE \/ BeginStaging(o) \/ BeginVerifying(o) \/ MarkReady(o)
             \/ BeginCommit(o) \/ BeginValidating(o) \/ Complete(o)
    BY <2>2, RefinementStutter
    DEF BeginStaging, BeginVerifying, MarkReady, BeginCommit, BeginValidating,
        Complete, Transition
  <2>3. CASE \/ Stage(o) \/ MoveRevision(o) \/ ValidateActive(o)
             \/ ReplaceReferences(o) \/ CleanStaging(o) \/ RunFails(o)
    BY <2>3, RefinementStutter
    DEF Stage, MoveRevision, ValidateActive, ReplaceReferences, CleanStaging,
        RunFails, database
  <2>. QED
    BY <1>3, <2>1, <2>2, <2>3 DEF Run
<1>4. ASSUME NEW o \in Ops, Rollback(o) PROVE [History!Next]_abstractVars
  <2>1. CASE RestorePrevious(o)
    BY <2>1, RefinementRestore
    DEF RestorePrevious, CanRestore, ChainInv, TypeOK, History!Next
  <2>2. CASE DetachProfile(o)
    BY <2>2, RefinementDelete
    DEF DetachProfile, CanDetach, ChainInv, TypeOK, History!Next
  <2>3. CASE BeginRollback(o) \/ Settle(o)
    BY <2>3, RefinementStutter DEF BeginRollback, Settle, Transition
  <2>4. CASE \/ InspectActive(o) \/ RemoveReferences(o) \/ RemoveRevision(o)
             \/ SweepStaging(o) \/ PurgeProfile(o) \/ UndoFails(o)
    BY <2>4, RefinementStutter
    DEF InspectActive, RemoveReferences, RemoveRevision, SweepStaging,
        PurgeProfile, UndoFails, database
  <2>. QED
    BY <1>4, <2>1, <2>2, <2>3, <2>4 DEF Rollback
<1>5. CASE \/ Crash \/ Restart \/ FinishRecovery
           \/ \E o \in Ops : CorruptPlan(o) \/ Recover(o) \/ RecoveryFails(o)
  BY <1>5, RefinementStutter
  DEF Crash, Restart, FinishRecovery, CorruptPlan, Recover, RecoveryFails, database
<1>. QED
  BY <1>1, <1>2, <1>3, <1>4, <1>5 DEF Next

\* The engine with its threads, files, crashes and recovery implements the
\* history of profile revisions.
THEOREM EngineImplementsHistory == Spec => ImplementsHistory
<1>1. [History!Next]_abstractVars => [History!Next]_(History!hvars)
  BY DEF abstractVars, History!hvars
<1>2. ChainInv /\ [Next]_vars => [History!Next]_(History!hvars)
  BY <1>1, RefinementStep
<1>. QED
  BY RefinementInit, <1>2, ChainInvariant, PTL DEF Spec, ImplementsHistory, History!Spec


-----------------------------------------------------------------------------
(* What has ended is whole: a completed operation stays complete and an    *)
(* aborted one leaves nothing behind, whatever the other threads, crashes  *)
(* and recovery passes do; the runtime projection of a profile follows its *)
(* active revision; and a profile is fully old or fully new once           *)
(* operations of it, which never overlapped, have come to rest.            *)

\* The operation row and the thread agree: a thread inside run or rollback
\* works on an unfinished operation, and one that deletes the profile of a
\* failed creation on a rolled-back one.
RowMatchesThread ==
    \A o \in Ops :
        /\ pc[o] \in {"idle", "planned"} => opState[o] = "none"
        /\ pc[o] = "discard" => opState[o] \in {"none", "planned"}
        /\ pc[o] \in RunSteps \cup (UndoSteps \ {"detach", "purge"})
             => opState[o] \in Running
        /\ pc[o] \in {"detach", "purge"} => opState[o] = "rolled-back"

\* Recovery only waits for operations that nobody is working on.
RecoveryListIsIdle ==
    /\ mode # "recovering" => todo = {}
    /\ mode = "down" => \A o \in Ops : pc[o] \in AtRest
    /\ \A o \in todo : pc[o] = "done" /\ opState[o] \in Running

\* An operation that may still succeed, or did, holds its profile through the
\* foreign key, and a deleted profile is held by nobody.
OwnerHoldsProfile ==
    \A o \in Ops :
        /\ opState[o] \in Running \cup {"completed"} =>
             owner[o] = plan[o].profile
        /\ pc[o] = "purge" =>
             /\ plan[o].profile \in Profiles \ exists
             /\ \A x \in Ops : owner[x] # plan[o].profile

\* Until a creation has a registered plan no other operation knows its
\* profile, which has no revision.
CreationIsPrivate ==
    \A o \in Ops :
        /\ pc[o] \in {"idle", "planned", "discard"} => status[o] = "none"
        /\ pc[o] = "discard" \/ (pc[o] = "planned" /\ plan[o].cleanup) =>
             \A x \in Ops : plan[x].profile = plan[o].profile => x = o

\* What a successful run has established so far, statement by statement.
SuccessSoFar ==
    \A o \in Ops :
        LET succeeded == opState[o] = "completed" IN
        /\ (pc[o] \in {"reference", "clean", "complete"} \/ succeeded)
             => status[o] = "committed" /\ dir[o] = "full"
        /\ (pc[o] \in {"clean", "complete"} \/ succeeded) => o \in refs
        /\ (pc[o] = "complete" \/ succeeded) => o \notin staged

\* What a rollback has removed so far, statement by statement.
RemovedSoFar ==
    \A o \in Ops :
        LET ended == opState[o] \in {"rolled-back", "failed"} IN
        /\ (pc[o] \in {"remove", "sweep", "settle"} \/ ended) => o \notin refs
        /\ (pc[o] \in {"sweep", "settle"} \/ ended) => dir[o] = "absent"
        /\ (pc[o] = "settle" \/ ended) => o \notin staged

DurableInv ==
    /\ TypeOK
    /\ RowMatchesThread
    /\ RecoveryListIsIdle
    /\ OwnerHoldsProfile
    /\ CreationIsPrivate
    /\ SuccessSoFar
    /\ RemovedSoFar

LEMMA DurableInit == Init => DurableInv
<1>. SUFFICES ASSUME Init PROVE DurableInv
  OBVIOUS
<1>1. \A o \in Ops : owner[o] = plan[o].profile
  BY DEF Init
<1>2. RowMatchesThread /\ RecoveryListIsIdle
  BY DEF Init, RowMatchesThread, RecoveryListIsIdle, RunSteps, UndoSteps
<1>3. OwnerHoldsProfile
  BY <1>1 DEF Init, OwnerHoldsProfile
<1>4. CreationIsPrivate /\ SuccessSoFar /\ RemovedSoFar
  BY DEF Init, CreationIsPrivate, SuccessSoFar, RemovedSoFar
<1>. QED
  BY <1>2, <1>3, <1>4, InitTypeOK DEF DurableInv

\* Everything but type correctness, which OperationsProofs already gives.
DurableRest ==
    /\ RowMatchesThread
    /\ RecoveryListIsIdle
    /\ OwnerHoldsProfile
    /\ CreationIsPrivate
    /\ SuccessSoFar
    /\ RemovedSoFar

LEMMA DurablePlanning ==
  ASSUME DurableInv, NEW o \in Ops, Planning(o)
  PROVE  DurableRest'
<1>. USE OperationsAssumption
     DEF DurableInv, DurableRest, TypeOK, RowMatchesThread, RecoveryListIsIdle,
         OwnerHoldsProfile, CreationIsPrivate, SuccessSoFar, RemovedSoFar, Running, RunSteps,
         UndoSteps, AtRest, At, Goto, database, files
<1>1. ASSUME NEW p \in Profiles, Create(o, p) PROVE DurableRest'
  BY <1>1 DEF Create
<1>2. ASSUME NEW p \in Profiles, Prepare(o, p) PROVE DurableRest'
  BY <1>2 DEF Prepare, Listed
<1>3. CASE Register(o)
  BY <1>3 DEF Register, InsertOperation, PlanIsCurrent
<1>4. CASE RegisterTorn(o)
  BY <1>4 DEF RegisterTorn, InsertOperation, PlanIsCurrent
<1>5. CASE Refuse(o) \/ DiscardFails(o)
  <2>1. CASE Refuse(o)
    BY <2>1 DEF Refuse, RemoveProfileTree
  <2>2. CASE DiscardFails(o)
    BY <2>2 DEF DiscardFails, RemoveProfileTree
  <2>. QED
    BY <1>5, <2>1, <2>2
<1>6. CASE Discard(o)
  BY <1>6 DEF Discard, CanDiscard, DeleteProfile, RemoveProfileTree
<1>. QED
  BY <1>1, <1>2, <1>3, <1>4, <1>5, <1>6 DEF Planning

LEMMA DurableRun ==
  ASSUME DurableInv, NEW o \in Ops, Run(o)
  PROVE  DurableRest'
<1>. USE OperationsAssumption
     DEF DurableInv, DurableRest, TypeOK, RowMatchesThread, RecoveryListIsIdle,
         OwnerHoldsProfile, CreationIsPrivate, SuccessSoFar, RemovedSoFar, Running, RunSteps,
         UndoSteps, AtRest, At, Goto, database, files
<1>1. CASE BeginStaging(o) \/ BeginVerifying(o) \/ MarkReady(o)
  BY <1>1 DEF BeginStaging, BeginVerifying, MarkReady, Transition
<1>2. CASE BeginCommit(o) \/ BeginValidating(o)
  BY <1>2 DEF BeginCommit, BeginValidating, Transition
<1>3. CASE Complete(o)
  BY <1>3 DEF Complete, Transition
<1>4. CASE Stage(o)
  BY <1>4 DEF Stage
<1>5. CASE MoveRevision(o)
  BY <1>5 DEF MoveRevision
<1>6. CASE Activate(o)
  BY <1>6 DEF Activate
<1>7. CASE ValidateActive(o)
  BY <1>7 DEF ValidateActive, ActiveIsValid
<1>8. CASE ReplaceReferences(o)
  BY <1>8 DEF ReplaceReferences
<1>9. CASE CleanStaging(o)
  BY <1>9 DEF CleanStaging
<1>10. CASE RunFails(o)
  BY <1>10 DEF RunFails
<1>. QED
  BY <1>1, <1>2, <1>3, <1>4, <1>5, <1>6, <1>7, <1>8, <1>9, <1>10 DEF Run

LEMMA DurableRollback ==
  ASSUME DurableInv, NEW o \in Ops, Rollback(o)
  PROVE  DurableRest'
<1>. USE OperationsAssumption
     DEF DurableInv, DurableRest, TypeOK, RowMatchesThread, RecoveryListIsIdle,
         OwnerHoldsProfile, CreationIsPrivate, SuccessSoFar, RemovedSoFar, Running, RunSteps,
         UndoSteps, AtRest, At, Goto, database, files
<1>1. CASE BeginRollback(o)
  BY <1>1 DEF BeginRollback, Transition
<1>2. CASE Settle(o)
  BY <1>2 DEF Settle, Transition
<1>3. CASE InspectActive(o)
  BY <1>3 DEF InspectActive
<1>4. CASE RestorePrevious(o)
  BY <1>4 DEF RestorePrevious
<1>5. CASE RemoveReferences(o)
  BY <1>5 DEF RemoveReferences
<1>6. CASE RemoveRevision(o)
  BY <1>6 DEF RemoveRevision
<1>7. CASE SweepStaging(o)
  BY <1>7 DEF SweepStaging
<1>8. CASE DetachProfile(o)
  BY <1>8 DEF DetachProfile, CanDetach, DeleteProfile
<1>9. CASE PurgeProfile(o)
  BY <1>9 DEF PurgeProfile, RemoveProfileTree
<1>10. CASE UndoFails(o)
  BY <1>10 DEF UndoFails
<1>. QED
  BY <1>1, <1>2, <1>3, <1>4, <1>5, <1>6, <1>7, <1>8, <1>9, <1>10 DEF Rollback

LEMMA DurableRecovery ==
  ASSUME DurableInv,
         \/ Crash \/ Restart \/ FinishRecovery
         \/ \E o \in Ops : CorruptPlan(o) \/ Recover(o) \/ RecoveryFails(o)
  PROVE  DurableRest'
<1>. USE OperationsAssumption
     DEF DurableInv, DurableRest, TypeOK, RowMatchesThread, RecoveryListIsIdle,
         OwnerHoldsProfile, CreationIsPrivate, SuccessSoFar, RemovedSoFar, Running, RunSteps,
         UndoSteps, AtRest, At, Goto, database, files
<1>1. CASE Crash
  BY <1>1 DEF Crash, Halt
<1>2. CASE Restart
  BY <1>2 DEF Restart, Unfinished
<1>3. CASE FinishRecovery
  BY <1>3 DEF FinishRecovery
<1>4. ASSUME NEW o \in Ops, CorruptPlan(o) PROVE DurableRest'
  BY <1>4 DEF CorruptPlan
<1>5. ASSUME NEW o \in Ops, Recover(o) PROVE DurableRest'
  BY <1>5 DEF Recover
<1>6. ASSUME NEW o \in Ops, RecoveryFails(o) PROVE DurableRest'
  BY <1>6 DEF RecoveryFails, Halt
<1>. QED
  BY <1>1, <1>2, <1>3, <1>4, <1>5, <1>6

LEMMA DurableStep == DurableInv /\ [Next]_vars => DurableInv'
<1>. SUFFICES ASSUME DurableInv, [Next]_vars PROVE DurableInv'
  OBVIOUS
<1>1. ASSUME UNCHANGED vars PROVE DurableRest'
  BY <1>1 DEF vars, DurableInv, DurableRest, RowMatchesThread,
     RecoveryListIsIdle, OwnerHoldsProfile, CreationIsPrivate, SuccessSoFar, RemovedSoFar
<1>2. ASSUME Next PROVE DurableRest'
  BY <1>2, DurablePlanning, DurableRun, DurableRollback, DurableRecovery DEF Next
<1>. QED
  BY <1>1, <1>2, TypeStep DEF DurableInv, DurableRest

LEMMA DurableInvariant == Spec => []DurableInv
BY DurableInit, DurableStep, PTL DEF Spec

\* Nothing that happens later takes a completed operation's row, files or
\* cache references away.
THEOREM CompletedStaysDurable == Spec => []CompletedIsDurable
<1>1. DurableInv => CompletedIsDurable
  BY DEF DurableInv, SuccessSoFar, CompletedIsDurable
<1>. QED
  BY <1>1, DurableInvariant, PTL

\* An operation that settled without success has nothing left on disk.
THEOREM AbortIsClean == Spec => []AbortLeavesNoFiles
<1>1. DurableInv => AbortLeavesNoFiles
  BY DEF DurableInv, RemovedSoFar, AbortLeavesNoFiles
<1>. QED
  BY <1>1, DurableInvariant, PTL

\* Both together: an ended operation is there entirely or not at all.
THEOREM EndedIsWhole == Spec => []EndsAreWhole
<1>1. CompletedIsDurable /\ AbortLeavesNoFiles => EndsAreWhole
  BY DEF EndsAreWhole
<1>. QED
  BY <1>1, CompletedStaysDurable, AbortIsClean, PTL

-----------------------------------------------------------------------------
(* Projections: a profile never shows the runtime projection of a revision *)
(* that is not its active one, although activation and rollback write the  *)
(* projection from plans made before other operations ran.                 *)

BeforeActivation == {"execute", "stage", "verify", "ready", "commit", "move", "activate"}

\* A plan's previous projection is that of its previous revision, and a plan
\* without a projection was made while the profile had none.
PlanAgreesWithItself ==
    \A o \in Ops :
        /\ plan[o].prevProjection \in {None, plan[o].prev}
        /\ ~plan[o].projects => plan[o].prevProjection = None

\* The previous revision of a plan has a row of the same profile.
PreviousHasRow ==
    \A o \in Ops : plan[o].profile \in exists /\ plan[o].prev # None =>
        /\ status[plan[o].prev] # "none"
        /\ plan[plan[o].prev].profile = plan[o].profile

\* A registered operation whose previous revision is the active one knows the
\* current projection, and so does whatever was activated on the same
\* previous revision and may be rolled back to it.
RegisteredKnowsProjection ==
    \A w \in Ops : pc[w] \in BeforeActivation =>
        /\ active[plan[w].profile] = plan[w].prev =>
             projection[plan[w].profile] = plan[w].prevProjection
        /\ \A x \in Committed :
             plan[x].profile = plan[w].profile /\ plan[x].prev = plan[w].prev =>
                plan[x].prevProjection = plan[w].prevProjection

\* Only recovery works on an operation with an unreadable plan, and while it
\* does no operation is about to activate a revision.
UnreadableOnlyInRecovery ==
    \A o \in Ops :
        /\ o \in corrupt => pc[o] # "idle"
        /\ o \in corrupt /\ pc[o] \notin AtRest => mode = "recovering"
        /\ mode = "recovering" => pc[o] \notin BeforeActivation \cup {"planned"}

\* A registered operation's profile is a profile.
RegisteredHasProfile ==
    \A o \in Ops : pc[o] \in BeforeActivation => plan[o].profile \in Profiles

ProjectionRest ==
    /\ ProjectionTracksActive
    /\ PlanAgreesWithItself
    /\ PreviousHasRow
    /\ RegisteredKnowsProjection
    /\ UnreadableOnlyInRecovery
    /\ RegisteredHasProfile

ProjectionInv == ChainInv /\ DurableInv /\ ProjectionRest

LEMMA ProjectionInit == Init => ProjectionInv
<1>. SUFFICES ASSUME Init PROVE ProjectionRest
  BY ChainInit, DurableInit DEF ProjectionInv
<1>1. PICK projects \in BOOLEAN :
        /\ plan = BaselinePlan(projects)
        /\ projection = IF projects THEN Baseline ELSE [p \in Profiles |-> None]
  BY DEF Init
<1>2. \A o \in Ops : plan[o].prev = None /\ plan[o].prevProjection = None
  BY <1>1, BaselinePlanFacts
<1>3. ProjectionTracksActive
  BY <1>1 DEF Init, ProjectionTracksActive
<1>. QED
  BY <1>2, <1>3 DEF Init, ProjectionRest, PlanAgreesWithItself, PreviousHasRow,
     RegisteredKnowsProjection, UnreadableOnlyInRecovery, RegisteredHasProfile,
     BeforeActivation, AtRest

\* Steps that leave plans, rows and pointers alone and start no operation.
LEMMA ProjectionFrame ==
  ASSUME ProjectionRest,
         UNCHANGED <<exists, active, projection, status, plan>>,
         \A o \in Ops : pc'[o] \in BeforeActivation => pc[o] \in BeforeActivation,
         UnreadableOnlyInRecovery'
  PROVE  ProjectionRest'
BY DEF ProjectionRest, ProjectionTracksActive, PlanAgreesWithItself,
   PreviousHasRow, RegisteredKnowsProjection, RegisteredHasProfile, Committed

LEMMA ProjectionPlan ==
  ASSUME ProjectionInv, NEW o \in Ops, NEW p \in Profiles,
         Create(o, p) \/ Prepare(o, p)
  PROVE  ProjectionRest'
<1>. USE DEF ProjectionInv, ProjectionRest, DurableInv, TypeOK
<1>1. /\ pc[o] = "idle" /\ pc' = [pc EXCEPT ![o] = "planned"]
      /\ status[o] = "none"
      /\ UNCHANGED <<active, projection, status, mode, corrupt>>
      /\ mode = "up"
      /\ exists' = exists \/ (exists' = exists \cup {p} /\ \A x \in Ops : plan[x].profile # p)
  BY DEF Create, Prepare, Goto, ChainInv, IdleHasNoRow
<1>2. PICK new \in Plans :
        /\ plan' = [plan EXCEPT ![o] = new]
        /\ new.prevProjection \in {None, new.prev}
        /\ ~new.projects => new.prevProjection = None
        /\ new.profile = p
        /\ new.prev # None => new.prev = active[p]
  <2>1. CASE Create(o, p)
    <3>1. PICK projects \in BOOLEAN : plan' = [plan EXCEPT ![o] =
             [profile |-> p, prev |-> None, projects |-> projects,
              prevProjection |-> None, cleanup |-> TRUE]]
      BY <2>1 DEF Create
    <3>. DEFINE new == [profile |-> p, prev |-> None, projects |-> projects,
                        prevProjection |-> None, cleanup |-> TRUE]
    <3>2. new \in Plans
      BY DEF Plans
    <3>. QED
      BY <3>1, <3>2
  <2>2. CASE Prepare(o, p)
    <3>1. PICK projects \in BOOLEAN : plan' = [plan EXCEPT ![o] =
             [profile |-> p, prev |-> active[p], projects |-> projects,
              prevProjection |-> IF projects THEN projection[p] ELSE None,
              cleanup |-> FALSE]]
      BY <2>2 DEF Prepare
    <3>. DEFINE new == [profile |-> p, prev |-> active[p], projects |-> projects,
                        prevProjection |-> IF projects THEN projection[p] ELSE None,
                        cleanup |-> FALSE]
    <3>2. new \in Plans
      BY DEF Plans
    <3>3. new.prevProjection \in {None, new.prev}
      BY DEF ProjectionTracksActive
    <3>. QED
      BY <3>1, <3>2, <3>3
  <2>. QED
    BY <2>1, <2>2
<1>3. \A x \in Ops : plan'[x] = IF x = o THEN new ELSE plan[x]
  BY <1>2
<1>4. \A x \in Ops : pc'[x] = IF x = o THEN "planned" ELSE pc[x]
  BY <1>1
<1>5. Committed' = Committed /\ o \notin Committed
  BY <1>1 DEF Committed
<1>6. ProjectionTracksActive' /\ PlanAgreesWithItself'
  BY <1>1, <1>2, <1>3 DEF ProjectionTracksActive, PlanAgreesWithItself
<1>7. PreviousHasRow'
  <2>1. active[p] # None => active[p] # o /\ active[p] \in Committed
                            /\ active[p] \in Ops /\ plan[active[p]].profile = p
    BY <1>5 DEF ChainInv, HistoryIsChain, Committed
  <2>2. ASSUME NEW x \in Ops, x # o, plan'[x].profile \in exists', plan'[x].prev # None
        PROVE  status'[plan'[x].prev] # "none"
               /\ plan'[plan'[x].prev].profile = plan'[x].profile
    <3>1. plan[x].profile \in exists
      BY <1>1, <1>3, <2>2
    <3>2. status[plan[x].prev] # "none" /\ plan[plan[x].prev].profile = plan[x].profile
          /\ plan[x].prev \in Ops
      BY <1>3, <2>2, <3>1 DEF PreviousHasRow, Plans
    <3>. QED
      BY <1>1, <1>3, <2>2, <3>2
  <2>3. new.prev # None => status'[new.prev] # "none" /\ plan'[new.prev].profile = new.profile
    BY <1>1, <1>2, <1>3, <2>1 DEF Committed
  <2>. QED
    BY <1>3, <2>2, <2>3 DEF PreviousHasRow
<1>8. RegisteredKnowsProjection'
  BY <1>1, <1>3, <1>4, <1>5 DEF RegisteredKnowsProjection, BeforeActivation, Committed
<1>9. UnreadableOnlyInRecovery' /\ RegisteredHasProfile'
  BY <1>1, <1>2, <1>3, <1>4 DEF UnreadableOnlyInRecovery, RegisteredHasProfile,
     BeforeActivation, AtRest
<1>. QED
  BY <1>6, <1>7, <1>8, <1>9

LEMMA ProjectionRegister ==
  ASSUME ProjectionInv, NEW o \in Ops, Register(o)
  PROVE  ProjectionRest'
<1>. USE DEF ProjectionInv, ProjectionRest, DurableInv, TypeOK
<1>1. /\ pc[o] = "planned" /\ mode # "down"
      /\ pc' = [pc EXCEPT ![o] = "execute"]
      /\ plan[o].profile \in exists /\ plan[o].profile \in Profiles
      /\ active[plan[o].profile] = plan[o].prev
      /\ projection[plan[o].profile] = plan[o].prevProjection
      /\ UNCHANGED <<exists, active, projection, status, plan, corrupt, mode>>
  BY DEF Register, PlanIsCurrent, At, Goto
<1>2. mode = "up" /\ o \notin corrupt
  BY <1>1 DEF UnreadableOnlyInRecovery, AtRest
<1>3. \A x \in Committed : plan[x].profile = plan[o].profile => plan[x].prev # plan[o].prev
  BY <1>1 DEF ChainInv, HistoryIsChain
<1>4. Committed' = Committed
  BY <1>1 DEF Committed
<1>5. RegisteredKnowsProjection'
  BY <1>1, <1>3, <1>4 DEF RegisteredKnowsProjection, BeforeActivation
<1>. QED
  BY <1>1, <1>2, <1>5 DEF ProjectionTracksActive, PlanAgreesWithItself,
     PreviousHasRow, UnreadableOnlyInRecovery, RegisteredHasProfile,
     BeforeActivation, AtRest

LEMMA ProjectionDelete ==
  ASSUME ProjectionInv, NEW o \in Ops, Discard(o) \/ DetachProfile(o)
  PROVE  ProjectionRest'
<1>. USE DEF ProjectionInv, ProjectionRest, DurableInv, TypeOK
<1>. DEFINE p == plan[o].profile
<1>1. /\ p \in Profiles /\ active[p] = None /\ DeleteProfile(p)
      /\ UNCHANGED <<active, plan, corrupt, mode>>
      /\ pc[o] \notin AtRest
      /\ \/ pc' = [pc EXCEPT ![o] = "done"]
         \/ pc' = [pc EXCEPT ![o] = "purge"]
  BY DEF Discard, DetachProfile, CanDiscard, CanDetach, At, Goto, AtRest
<1>2. /\ exists' = exists \ {p}
      /\ \A x \in Ops : status'[x] = IF plan[x].profile = p THEN "none" ELSE status[x]
      /\ \A q \in Profiles : projection'[q] = IF q = p THEN None ELSE projection[q]
  BY <1>1 DEF DeleteProfile
<1>3. \A x \in Ops : pc'[x] \in BeforeActivation =>
        pc'[x] = pc[x] /\ pc[x] \in BeforeActivation
  BY <1>1 DEF BeforeActivation
<1>4. Committed' \subseteq Committed
  BY <1>2 DEF Committed
<1>5. ProjectionTracksActive'
  BY <1>1, <1>2 DEF ProjectionTracksActive
<1>6. PreviousHasRow'
  BY <1>1, <1>2 DEF PreviousHasRow, Plans
<1>7. RegisteredKnowsProjection'
  BY <1>1, <1>2, <1>3, <1>4
  DEF RegisteredKnowsProjection, PlanAgreesWithItself, RegisteredHasProfile
<1>8. UnreadableOnlyInRecovery' /\ RegisteredHasProfile' /\ PlanAgreesWithItself'
  BY <1>1, <1>3 DEF UnreadableOnlyInRecovery, RegisteredHasProfile,
     PlanAgreesWithItself, BeforeActivation, AtRest
<1>. QED
  BY <1>5, <1>6, <1>7, <1>8

LEMMA ProjectionActivate ==
  ASSUME ProjectionInv, NEW o \in Ops, Activate(o)
  PROVE  ProjectionRest'
<1>. USE DEF ProjectionInv, ProjectionRest, DurableInv, TypeOK
<1>. DEFINE p == plan[o].profile
<1>1. /\ pc[o] = "activate" /\ pc' = [pc EXCEPT ![o] = "validate"]
      /\ p \in exists /\ p \in Profiles
      /\ active[p] = plan[o].prev /\ active' = [active EXCEPT ![p] = o]
      /\ status[o] = "none" /\ status' = [status EXCEPT ![o] = "committed"]
      /\ projection' = IF plan[o].projects THEN [projection EXCEPT ![p] = o]
                                           ELSE projection
      /\ UNCHANGED <<exists, plan, corrupt, mode>>
  BY DEF Activate, CanActivate, At, Goto
<1>2. projection[p] = plan[o].prevProjection
  BY <1>1 DEF RegisteredKnowsProjection, BeforeActivation
<1>3. \A q \in Profiles : active'[q] = IF q = p THEN o ELSE active[q]
  BY <1>1
<1>4. \A x \in Ops : status'[x] = IF x = o THEN "committed" ELSE status[x]
  BY <1>1
<1>5. \A x \in Ops : pc'[x] = IF x = o THEN "validate" ELSE pc[x]
  BY <1>1
<1>6. Committed' = Committed \cup {o}
  BY <1>4 DEF Committed
<1>7. ProjectionTracksActive'
  BY <1>1, <1>2, <1>3 DEF ProjectionTracksActive, PlanAgreesWithItself
<1>8. PreviousHasRow'
  BY <1>1, <1>4 DEF PreviousHasRow
<1>9. ASSUME NEW w \in Ops, pc'[w] \in BeforeActivation
      PROVE  /\ active'[plan'[w].profile] = plan'[w].prev =>
                  projection'[plan'[w].profile] = plan'[w].prevProjection
             /\ \A x \in Committed' :
                  plan'[x].profile = plan'[w].profile /\ plan'[x].prev = plan'[w].prev
                    => plan'[x].prevProjection = plan'[w].prevProjection
  <2>1. w # o /\ pc[w] \in BeforeActivation /\ plan[w].profile \in Profiles
    BY <1>5, <1>9 DEF BeforeActivation, RegisteredHasProfile
  <2>2. plan[w].profile = p => plan[w].prev # o
    BY <1>1, OperationsAssumption DEF PreviousHasRow
  <2>3. active'[plan'[w].profile] = plan'[w].prev =>
           projection'[plan'[w].profile] = plan'[w].prevProjection
    BY <1>1, <1>3, <2>1, <2>2 DEF RegisteredKnowsProjection
  <2>4. plan[o].profile = plan[w].profile /\ plan[o].prev = plan[w].prev
           => plan[o].prevProjection = plan[w].prevProjection
    BY <1>1, <1>2, <2>1 DEF RegisteredKnowsProjection
  <2>. QED
    BY <1>1, <1>6, <2>1, <2>3, <2>4 DEF RegisteredKnowsProjection
<1>10. RegisteredKnowsProjection'
  BY <1>9 DEF RegisteredKnowsProjection
<1>11. UnreadableOnlyInRecovery' /\ RegisteredHasProfile' /\ PlanAgreesWithItself'
  BY <1>1, <1>5 DEF UnreadableOnlyInRecovery, RegisteredHasProfile,
     PlanAgreesWithItself, BeforeActivation, AtRest
<1>. QED
  BY <1>7, <1>8, <1>10, <1>11

LEMMA ProjectionRestore ==
  ASSUME ProjectionInv, NEW o \in Ops, RestorePrevious(o)
  PROVE  ProjectionRest'
<1>. USE DEF ProjectionInv, ProjectionRest, DurableInv, TypeOK
<1>. DEFINE p == plan[o].profile
            new == IF o \notin corrupt /\ plan[o].prevProjection # None
                   THEN plan[o].prevProjection
                   ELSE IF projection[p] = o THEN None ELSE projection[p]
<1>1. /\ pc[o] = "restore" /\ pc' = [pc EXCEPT ![o] = "unreference"]
      /\ p \in exists /\ p \in Profiles
      /\ active[p] = o /\ active' = [active EXCEPT ![p] = plan[o].prev]
      /\ status' = [status EXCEPT ![o] = "invalidated"]
      /\ projection' = [projection EXCEPT ![p] = new]
      /\ UNCHANGED <<exists, plan, corrupt, mode>>
  BY DEF RestorePrevious, CanRestore, At, Goto
<1>2. o \in Committed
  BY <1>1, OperationsAssumption DEF ChainInv, HistoryIsChain
<1>3. new \in {None, plan[o].prev}
      /\ (o \notin corrupt => new = plan[o].prevProjection)
  BY <1>1 DEF ProjectionTracksActive, PlanAgreesWithItself
<1>4. \A q \in Profiles : /\ active'[q] = IF q = p THEN plan[o].prev ELSE active[q]
                          /\ projection'[q] = IF q = p THEN new ELSE projection[q]
  BY <1>1
<1>5. \A x \in Ops : /\ status'[x] = IF x = o THEN "invalidated" ELSE status[x]
                     /\ pc'[x] = IF x = o THEN "unreference" ELSE pc[x]
  BY <1>1
<1>6. Committed' \subseteq Committed
  BY <1>5 DEF Committed
<1>7. ProjectionTracksActive'
  BY <1>1, <1>3, <1>4 DEF ProjectionTracksActive
<1>8. PreviousHasRow'
  BY <1>1, <1>5 DEF PreviousHasRow
<1>9. ASSUME NEW w \in Ops, pc'[w] \in BeforeActivation
      PROVE  /\ active'[plan'[w].profile] = plan'[w].prev =>
                  projection'[plan'[w].profile] = plan'[w].prevProjection
             /\ \A x \in Committed' :
                  plan'[x].profile = plan'[w].profile /\ plan'[x].prev = plan'[w].prev
                    => plan'[x].prevProjection = plan'[w].prevProjection
  <2>1. w # o /\ pc[w] \in BeforeActivation /\ plan[w].profile \in Profiles
    BY <1>5, <1>9 DEF BeforeActivation, RegisteredHasProfile
  <2>2. o \notin corrupt
    BY <1>1, <2>1 DEF UnreadableOnlyInRecovery, AtRest
  <2>3. plan[w].profile = p /\ plan[w].prev = plan[o].prev => new = plan[w].prevProjection
    BY <1>2, <1>3, <2>1, <2>2 DEF RegisteredKnowsProjection
  <2>. QED
    BY <1>1, <1>4, <1>6, <2>1, <2>3 DEF RegisteredKnowsProjection
<1>10. RegisteredKnowsProjection'
  BY <1>9 DEF RegisteredKnowsProjection
<1>11. UnreadableOnlyInRecovery' /\ RegisteredHasProfile' /\ PlanAgreesWithItself'
  BY <1>1, <1>5 DEF UnreadableOnlyInRecovery, RegisteredHasProfile,
     PlanAgreesWithItself, BeforeActivation, AtRest
<1>. QED
  BY <1>7, <1>8, <1>10, <1>11

LEMMA ProjectionStep == ProjectionInv /\ [Next]_vars => ProjectionInv'
<1>. SUFFICES ASSUME ProjectionInv, [Next]_vars PROVE ProjectionRest'
  BY ChainStep, DurableStep DEF ProjectionInv
<1>. USE DEF ProjectionInv, DurableInv
<1>1. ASSUME UNCHANGED vars PROVE ProjectionRest'
  BY <1>1, ProjectionFrame DEF vars, ProjectionRest, UnreadableOnlyInRecovery
<1>2. ASSUME NEW o \in Ops, NEW step,
             UNCHANGED <<exists, active, projection, status, plan, corrupt, mode>>,
             pc[o] \notin AtRest, Goto(o, step),
             step = pc[o] \/ step = "done" \/ step \in RunSteps \cup UndoSteps,
             step \in BeforeActivation => pc[o] \in BeforeActivation
      PROVE  ProjectionRest'
  <2>1. \A x \in Ops : pc'[x] = IF x = o THEN step ELSE pc[x]
    BY <1>2 DEF Goto, TypeOK
  <2>2. UnreadableOnlyInRecovery'
    BY <1>2, <2>1 DEF ProjectionRest, UnreadableOnlyInRecovery, AtRest, RunSteps,
       UndoSteps, BeforeActivation
  <2>. QED
    BY <1>2, <2>1, <2>2, ProjectionFrame DEF ProjectionRest
<1>3. ASSUME NEW o \in Ops, Planning(o) PROVE ProjectionRest'
  <2>1. CASE \E p \in Profiles : Create(o, p) \/ Prepare(o, p)
    BY <2>1, ProjectionPlan
  <2>2. CASE Register(o)
    BY <2>2, ProjectionRegister
  <2>3. CASE Discard(o)
    BY <2>3, ProjectionDelete
  <2>4. CASE RegisterTorn(o) \/ Refuse(o) \/ DiscardFails(o)
    <3>. DEFINE step == IF pc[o] = "planned" /\ plan[o].cleanup THEN "discard" ELSE "done"
    <3>1. /\ UNCHANGED <<exists, active, projection, status, plan, corrupt, mode>>
          /\ pc[o] \in {"planned", "discard"} /\ Goto(o, step)
      BY <2>4 DEF RegisterTorn, Refuse, DiscardFails, At, Goto, database
    <3>2. \A x \in Ops : pc'[x] = IF x = o THEN step ELSE pc[x]
      BY <3>1 DEF Goto, TypeOK
    <3>3. UnreadableOnlyInRecovery'
      BY <3>1, <3>2 DEF ProjectionRest, UnreadableOnlyInRecovery, AtRest, BeforeActivation
    <3>. QED
      BY <3>1, <3>2, <3>3, ProjectionFrame DEF ProjectionRest, BeforeActivation
  <2>. QED
    BY <1>3, <2>1, <2>2, <2>3, <2>4 DEF Planning
<1>4. ASSUME NEW o \in Ops, Run(o) PROVE ProjectionRest'
  <2>1. CASE Activate(o)
    BY <2>1, ProjectionActivate
  <2>2. CASE \/ BeginStaging(o) \/ BeginVerifying(o) \/ MarkReady(o)
             \/ BeginCommit(o) \/ BeginValidating(o) \/ Complete(o)
    BY <1>2, <2>2
    DEF BeginStaging, BeginVerifying, MarkReady, BeginCommit, BeginValidating,
        Complete, Transition, At, AtRest, RunSteps, BeforeActivation
  <2>3. CASE \/ Stage(o) \/ MoveRevision(o) \/ ValidateActive(o)
             \/ ReplaceReferences(o) \/ CleanStaging(o)
    BY <1>2, <2>3
    DEF Stage, MoveRevision, ValidateActive, ReplaceReferences, CleanStaging,
        At, AtRest, RunSteps, BeforeActivation, database
  <2>4. CASE RunFails(o)
    BY <1>2, <2>4 DEF RunFails, AtRest, RunSteps, UndoSteps, BeforeActivation, database
  <2>. QED
    BY <1>4, <2>1, <2>2, <2>3, <2>4 DEF Run
<1>5. ASSUME NEW o \in Ops, Rollback(o) PROVE ProjectionRest'
  <2>1. CASE RestorePrevious(o)
    BY <2>1, ProjectionRestore
  <2>2. CASE DetachProfile(o)
    BY <2>2, ProjectionDelete
  <2>3. CASE BeginRollback(o) \/ Settle(o)
    BY <1>2, <2>3 DEF BeginRollback, Settle, Transition, At, AtRest, UndoSteps,
       BeforeActivation
  <2>4. CASE RemoveRevision(o)
    <3>1. pc' = pc \/ Goto(o, "sweep")
      BY <2>4 DEF RemoveRevision
    <3>2. pc[o] = "remove"
      BY <2>4 DEF RemoveRevision, At
    <3>3. pc' = pc => Goto(o, pc[o])
      BY DEF Goto, TypeOK
    <3>4. UNCHANGED <<exists, active, projection, status, plan, corrupt, mode>>
      BY <2>4 DEF RemoveRevision, database
    <3>. QED
      BY <1>2, <3>1, <3>2, <3>3, <3>4 DEF AtRest, UndoSteps, BeforeActivation
  <2>5. CASE \/ InspectActive(o) \/ RemoveReferences(o) \/ SweepStaging(o)
             \/ PurgeProfile(o) \/ UndoFails(o)
    BY <1>2, <2>5
    DEF InspectActive, RemoveReferences, SweepStaging, PurgeProfile, UndoFails,
        At, AtRest, UndoSteps, BeforeActivation, database
  <2>. QED
    BY <1>5, <2>1, <2>2, <2>3, <2>4, <2>5 DEF Rollback
<1>6. ASSUME \/ Crash \/ Restart \/ FinishRecovery
             \/ \E o \in Ops : CorruptPlan(o) \/ Recover(o) \/ RecoveryFails(o)
      PROVE  ProjectionRest'
  <2>1. UNCHANGED <<exists, active, projection, status, plan>>
    BY <1>6 DEF Crash, Restart, FinishRecovery, CorruptPlan, Recover,
       RecoveryFails, database
  <2>2. \A o \in Ops : pc'[o] \in BeforeActivation => pc[o] \in BeforeActivation
    BY <1>6 DEF Crash, Restart, FinishRecovery, CorruptPlan, Recover,
       RecoveryFails, Halt, Goto, TypeOK, BeforeActivation
  <2>3. UnreadableOnlyInRecovery'
    <3>. USE DEF ProjectionRest, UnreadableOnlyInRecovery, AtRest, BeforeActivation, TypeOK
    <3>1. CASE Crash \/ \E o \in Ops : RecoveryFails(o)
      BY <3>1 DEF Crash, RecoveryFails, Halt, database
    <3>2. CASE Restart
      BY <3>2 DEF Restart, RecoveryListIsIdle, database
    <3>3. CASE FinishRecovery
      BY <3>3 DEF FinishRecovery, database
    <3>4. ASSUME NEW o \in Ops, CorruptPlan(o) PROVE UnreadableOnlyInRecovery'
      BY <3>4 DEF CorruptPlan, RecoveryListIsIdle, RowMatchesThread, Unfinished, Running
    <3>5. ASSUME NEW o \in Ops, Recover(o) PROVE UnreadableOnlyInRecovery'
      BY <3>5 DEF Recover, Goto, RecoveryListIsIdle, database
    <3>. QED
      BY <1>6, <3>1, <3>2, <3>3, <3>4, <3>5
  <2>. QED
    BY <2>1, <2>2, <2>3, ProjectionFrame
<1>. QED
  BY <1>1, <1>3, <1>4, <1>5, <1>6 DEF Next

LEMMA ProjectionInvariant == Spec => []ProjectionInv
BY ProjectionInit, ProjectionStep, PTL DEF Spec

\* The runtime projection a launch would use is that of the active revision,
\* or there is none.
THEOREM ProjectionIsOfActiveRevision == Spec => []ProjectionTracksActive
<1>1. ProjectionInv => ProjectionTracksActive
  BY DEF ProjectionInv, ProjectionRest
<1>. QED
  BY <1>1, ProjectionInvariant, PTL

-----------------------------------------------------------------------------
(* Fully old or fully new, while callers never overlap two operations of one *)
(* profile: what is in flight on a profile is alone there, and a committed   *)
(* row is either that of a completed operation or on top of the profile.     *)

\* The statements after the pointer has been put back.
Undone == {"unreference", "remove", "sweep", "settle", "detach", "purge"}

OneInFlight ==
    \A x, y \in Ops :
        ~Settled(x) /\ ~Settled(y) /\ plan[x].profile # None
           /\ plan[x].profile = plan[y].profile => x = y

CommittedIsCompleteOrOnTop ==
    \A o \in Committed :
        IF Settled(o) THEN opState[o] = "completed"
        ELSE /\ plan[o].profile \in exists
             /\ active[plan[o].profile] = o
             /\ pc[o] \notin Undone

SerialRest == OneInFlight /\ CommittedIsCompleteOrOnTop

\* With readable plans the active revision's projection is written, and a
\* registered plan knows the projection of the revision it is based on.
ActiveIsProjected ==
    corrupt = {} => \A p \in Profiles :
        active[p] # None /\ plan[active[p]].projects => projection[p] = active[p]

PlanRemembersProjection ==
    corrupt = {} => \A o \in Ops :
        opState[o] # "none" /\ plan[o].profile \in exists /\ plan[o].prev # None
           /\ plan[plan[o].prev].projects => plan[o].prevProjection = plan[o].prev

ProjectedRest == ActiveIsProjected /\ PlanRemembersProjection

WholeInv == ProjectionInv /\ SerialRest /\ ProjectedRest

\* What a step may do to an operation without touching pointers and rows: an
\* operation with a committed row stays in flight and short of its removal,
\* or completes.
Advances(o) ==
    \/ pc'[o] = pc[o] /\ opState'[o] = opState[o]
    \/ /\ ~Settled(o)
       /\ \/ status[o] # "committed"
          \/ ~Settled(o)' /\ pc'[o] \notin Undone
          \/ pc'[o] = "done" /\ opState'[o] = "completed"

LEMMA SerialFrame ==
  ASSUME SerialRest, UNCHANGED <<exists, active, status, plan>>,
         \A o \in Ops : Advances(o)
  PROVE  SerialRest'
<1>1. \A o \in Ops : Settled(o) => Settled(o)' /\ opState'[o] = opState[o]
  BY DEF Advances, Settled, Unfinished
<1>2. OneInFlight'
  BY <1>1 DEF SerialRest, OneInFlight
<1>3. CommittedIsCompleteOrOnTop'
  BY DEF SerialRest, CommittedIsCompleteOrOnTop, Committed, Advances, Settled,
     Unfinished, AtRest, Undone, Running
<1>. QED
  BY <1>2, <1>3 DEF SerialRest

\* A thread's statement moves its own operation only.
LEMMA OneAdvances ==
  ASSUME TypeOK, NEW o \in Ops, NEW step, Goto(o, step),
         opState' = opState \/ \E s : opState' = [opState EXCEPT ![o] = s],
         Advances(o)
  PROVE  \A x \in Ops : Advances(x)
BY DEF TypeOK, Goto, Advances

\* Who works on an operation of a profile does so alone.
LEMMA InFlightFacts ==
  ASSUME WholeInv, NEW o \in Ops, pc[o] \notin AtRest \/ opState[o] \in Running
  PROVE  /\ ~Settled(o)
         /\ \A x \in Ops : /\ ~Settled(x) /\ plan[x].profile = plan[o].profile
                             /\ plan[o].profile # None => x = o
         /\ status[o] = "committed" =>
              /\ plan[o].profile \in exists
              /\ active[plan[o].profile] = o
              /\ pc[o] \notin Undone
<1>1. ~Settled(o)
  BY DEF Settled, Unfinished
<1>. QED
  BY <1>1 DEF WholeInv, SerialRest, OneInFlight, CommittedIsCompleteOrOnTop, Committed

LEMMA SerialPlan ==
  ASSUME Serialized, WholeInv, NEW o \in Ops, NEW p \in Profiles,
         Create(o, p) \/ Prepare(o, p)
  PROVE  SerialRest'
<1>1. /\ pc[o] = "idle" /\ Goto(o, "planned") /\ exists \subseteq exists'
      /\ UNCHANGED <<active, status, opState>>
  BY DEF Create, Prepare
<1>2. \A x \in Ops : plan[x].profile = p => Settled(x)
  BY DEF Create, Prepare, MayStart
<1>3. PICK new : plan' = [plan EXCEPT ![o] = new] /\ new.profile = p
  <2>1. CASE Create(o, p)
    <3>1. PICK projects \in BOOLEAN : plan' = [plan EXCEPT ![o] =
             [profile |-> p, prev |-> None, projects |-> projects,
              prevProjection |-> None, cleanup |-> TRUE]]
      BY <2>1 DEF Create
    <3>. DEFINE new == [profile |-> p, prev |-> None, projects |-> projects,
                        prevProjection |-> None, cleanup |-> TRUE]
    <3>2. plan' = [plan EXCEPT ![o] = new] /\ new.profile = p
      BY <3>1
    <3>. HIDE DEF new
    <3>. QED
      BY <3>2
  <2>2. CASE Prepare(o, p)
    <3>1. PICK projects \in BOOLEAN : plan' = [plan EXCEPT ![o] =
             [profile |-> p, prev |-> active[p], projects |-> projects,
              prevProjection |-> IF projects THEN projection[p] ELSE None,
              cleanup |-> FALSE]]
      BY <2>2 DEF Prepare
    <3>. DEFINE new == [profile |-> p, prev |-> active[p], projects |-> projects,
                        prevProjection |-> IF projects THEN projection[p] ELSE None,
                        cleanup |-> FALSE]
    <3>2. plan' = [plan EXCEPT ![o] = new] /\ new.profile = p
      BY <3>1
    <3>. HIDE DEF new
    <3>. QED
      BY <3>2
  <2>. QED
    BY <2>1, <2>2
<1>4. \A x \in Ops : /\ plan'[x] = IF x = o THEN new ELSE plan[x]
                     /\ pc'[x] = IF x = o THEN "planned" ELSE pc[x]
  BY <1>1, <1>3 DEF WholeInv, ProjectionInv, DurableInv, TypeOK, Goto
<1>5. \A x \in Ops : x # o => (Settled(x)' <=> Settled(x))
  BY <1>1, <1>4 DEF Settled, Unfinished
<1>6. OneInFlight'
  BY <1>2, <1>3, <1>4, <1>5 DEF WholeInv, SerialRest, OneInFlight
<1>7. o \notin Committed /\ Committed' = Committed
  BY <1>1 DEF WholeInv, ProjectionInv, ChainInv, IdleHasNoRow, Committed
<1>8. \A x \in Committed : x # o /\ x \in Ops
  BY <1>7 DEF Committed
<1>. QED
  BY <1>1, <1>4, <1>5, <1>6, <1>7, <1>8
  DEF WholeInv, SerialRest, CommittedIsCompleteOrOnTop

LEMMA SerialDelete ==
  ASSUME WholeInv, NEW o \in Ops, Discard(o) \/ DetachProfile(o)
  PROVE  SerialRest'
<1>. DEFINE p == plan[o].profile
<1>1. /\ p \in Profiles /\ active[p] = None /\ DeleteProfile(p)
      /\ UNCHANGED <<active, plan, opState>>
      /\ pc[o] \in {"discard", "detach"}
      /\ \/ pc' = [pc EXCEPT ![o] = "done"]
         \/ pc' = [pc EXCEPT ![o] = "purge"]
  BY DEF Discard, DetachProfile, CanDiscard, CanDetach, At, Goto, WholeInv,
     ProjectionInv, DurableInv, TypeOK
<1>2. \A x \in Ops : /\ status'[x] = IF plan[x].profile = p THEN "none" ELSE status[x]
                     /\ x # o => pc'[x] = pc[x]
  BY <1>1 DEF DeleteProfile, WholeInv, ProjectionInv, DurableInv, TypeOK
<1>3. \A x \in Ops : x # o => (Settled(x)' <=> Settled(x))
  BY <1>1, <1>2 DEF Settled, Unfinished
<1>4. ~Settled(o)
  BY <1>1 DEF Settled, AtRest
<1>5. OneInFlight'
  BY <1>1, <1>3, <1>4 DEF WholeInv, SerialRest, OneInFlight
<1>6. \A x \in Committed' : x \in Committed /\ x \in Ops /\ x # o /\ plan[x].profile # p
  BY <1>2 DEF Committed
<1>7. exists' = exists \ {p}
  BY <1>1 DEF DeleteProfile
<1>. QED
  BY <1>1, <1>2, <1>3, <1>5, <1>6, <1>7 DEF WholeInv, SerialRest, CommittedIsCompleteOrOnTop

LEMMA SerialActivate ==
  ASSUME WholeInv, NEW o \in Ops, Activate(o)
  PROVE  SerialRest'
<1>. DEFINE p == plan[o].profile
<1>1. /\ pc[o] = "activate" /\ pc' = [pc EXCEPT ![o] = "validate"]
      /\ p \in exists /\ p \in Profiles /\ p # None
      /\ active' = [active EXCEPT ![p] = o]
      /\ status[o] = "none" /\ status' = [status EXCEPT ![o] = "committed"]
      /\ UNCHANGED <<exists, plan, opState>>
  BY OperationsAssumption
  DEF Activate, CanActivate, At, Goto, WholeInv, ProjectionInv, DurableInv, TypeOK
<1>2. /\ ~Settled(o)
      /\ \A x \in Ops : ~Settled(x) /\ plan[x].profile = p => x = o
  BY <1>1, InFlightFacts DEF AtRest
<1>3. \A x \in Ops : /\ status'[x] = IF x = o THEN "committed" ELSE status[x]
                     /\ pc'[x] = IF x = o THEN "validate" ELSE pc[x]
  BY <1>1 DEF WholeInv, ProjectionInv, DurableInv, TypeOK
<1>4. \A q \in Profiles : active'[q] = IF q = p THEN o ELSE active[q]
  BY <1>1 DEF WholeInv, ProjectionInv, DurableInv, TypeOK
<1>5. (\A x \in Ops : x # o => (Settled(x)' <=> Settled(x))) /\ ~Settled(o)'
  BY <1>1, <1>3 DEF Settled, Unfinished, AtRest
<1>6. OneInFlight'
  BY <1>1, <1>2, <1>5 DEF WholeInv, SerialRest, OneInFlight
<1>7. Committed' = Committed \cup {o}
  BY <1>3 DEF Committed
<1>8. ASSUME NEW x \in Committed, x # o, ~Settled(x)
      PROVE  /\ plan[x].profile \in exists /\ active'[plan[x].profile] = x
             /\ pc'[x] \notin Undone
  <2>1. /\ x \in Ops /\ plan[x].profile \in exists /\ plan[x].profile \in Profiles
        /\ active[plan[x].profile] = x /\ pc[x] \notin Undone
    BY <1>8 DEF WholeInv, SerialRest, CommittedIsCompleteOrOnTop, Committed,
       ProjectionInv, ChainInv, HistoryIsChain
  <2>. QED
    BY <1>2, <1>3, <1>4, <1>8, <2>1
<1>9. pc'[o] \notin Undone
  BY <1>3 DEF Undone
<1>10. Committed \subseteq Ops
  BY DEF Committed
<1>. QED
  BY <1>1, <1>4, <1>5, <1>6, <1>7, <1>8, <1>9, <1>10
  DEF WholeInv, SerialRest, CommittedIsCompleteOrOnTop

LEMMA SerialRestore ==
  ASSUME WholeInv, NEW o \in Ops, RestorePrevious(o)
  PROVE  SerialRest'
<1>. DEFINE p == plan[o].profile
<1>1. /\ pc[o] = "restore" /\ pc' = [pc EXCEPT ![o] = "unreference"]
      /\ p \in exists /\ p \in Profiles /\ p # None
      /\ active' = [active EXCEPT ![p] = plan[o].prev]
      /\ status' = [status EXCEPT ![o] = "invalidated"]
      /\ UNCHANGED <<exists, plan, opState>>
  BY OperationsAssumption
  DEF RestorePrevious, CanRestore, At, Goto, WholeInv, ProjectionInv, DurableInv, TypeOK
<1>2. /\ ~Settled(o)
      /\ \A x \in Ops : ~Settled(x) /\ plan[x].profile = p => x = o
  BY <1>1, InFlightFacts DEF AtRest
<1>3. \A x \in Ops : /\ status'[x] = IF x = o THEN "invalidated" ELSE status[x]
                     /\ pc'[x] = IF x = o THEN "unreference" ELSE pc[x]
  BY <1>1 DEF WholeInv, ProjectionInv, DurableInv, TypeOK
<1>4. \A q \in Profiles : active'[q] = IF q = p THEN plan[o].prev ELSE active[q]
  BY <1>1 DEF WholeInv, ProjectionInv, DurableInv, TypeOK
<1>5. (\A x \in Ops : x # o => (Settled(x)' <=> Settled(x))) /\ ~Settled(o)'
  BY <1>1, <1>3 DEF Settled, Unfinished, AtRest
<1>6. OneInFlight'
  BY <1>1, <1>2, <1>5 DEF WholeInv, SerialRest, OneInFlight
<1>7. Committed' \subseteq Committed \ {o} /\ Committed \subseteq Ops
  BY <1>3 DEF Committed
<1>8. ASSUME NEW x \in Committed, x # o, ~Settled(x)
      PROVE  /\ plan[x].profile \in exists /\ active'[plan[x].profile] = x
             /\ pc'[x] \notin Undone
  <2>1. /\ x \in Ops /\ plan[x].profile \in exists /\ plan[x].profile \in Profiles
        /\ active[plan[x].profile] = x /\ pc[x] \notin Undone
    BY <1>8 DEF WholeInv, SerialRest, CommittedIsCompleteOrOnTop, Committed,
       ProjectionInv, ChainInv, HistoryIsChain
  <2>. QED
    BY <1>2, <1>3, <1>4, <1>8, <2>1
<1>. QED
  BY <1>1, <1>5, <1>6, <1>7, <1>8 DEF WholeInv, SerialRest, CommittedIsCompleteOrOnTop

\* Every other step leaves rows and pointers alone.
LEMMA SerialPlanning ==
  ASSUME Serialized, WholeInv, NEW o \in Ops, Planning(o)
  PROVE  SerialRest'
<1>. USE DEF WholeInv, ProjectionInv, DurableInv
<1>1. CASE \/ \E p \in Profiles : Create(o, p) \/ Prepare(o, p)
           \/ Discard(o)
  BY <1>1, SerialPlan, SerialDelete
<1>2. CASE Register(o) \/ RegisterTorn(o) \/ Refuse(o) \/ DiscardFails(o)
  <2>1. /\ UNCHANGED <<exists, active, status, plan>>
        /\ pc[o] \in {"planned", "discard"}
        /\ Goto(o, "execute") \/ Goto(o, "done") \/ Goto(o, "discard")
        /\ opState' = opState \/ opState' = [opState EXCEPT ![o] = "planned"]
    BY <1>2 DEF Register, RegisterTorn, Refuse, DiscardFails, InsertOperation, At, database
  <2>2. status[o] # "committed" /\ ~Settled(o)
    BY <2>1 DEF CreationIsPrivate, Settled, AtRest
  <2>3. \A x \in Ops : Advances(x)
    BY <2>1, <2>2, OneAdvances DEF Advances
  <2>. QED
    BY <2>1, <2>3, SerialFrame
<1>. QED
  BY <1>1, <1>2 DEF Planning

LEMMA SerialRun ==
  ASSUME WholeInv, NEW o \in Ops, Run(o)
  PROVE  SerialRest'
<1>. USE DEF WholeInv, ProjectionInv, DurableInv
<1>1. CASE Activate(o)
  BY <1>1, SerialActivate
<1>2. CASE Complete(o)
  <2>1. /\ UNCHANGED <<exists, active, status, plan>> /\ pc[o] = "complete"
        /\ Goto(o, "done") /\ opState' = [opState EXCEPT ![o] = "completed"]
    BY <1>2 DEF Complete, Transition, At
  <2>2. Advances(o)
    BY <2>1 DEF Advances, Goto, TypeOK, Settled, AtRest
  <2>3. \A x \in Ops : Advances(x)
    BY <2>1, <2>2, OneAdvances
  <2>. QED
    BY <2>1, <2>3, SerialFrame
<1>3. ASSUME UNCHANGED <<exists, active, status, plan>>, pc[o] \in RunSteps,
             NEW step \in RunSteps \cup {"rollback"}, Goto(o, step),
             opState' = opState \/ \E s \in Running : opState' = [opState EXCEPT ![o] = s]
      PROVE  SerialRest'
  <2>1. ~Settled(o) /\ opState[o] \in Running
    BY <1>3 DEF RowMatchesThread, RunSteps, Settled, Unfinished
  <2>2. pc'[o] = step /\ opState'[o] \in Running
    BY <1>3, <2>1 DEF Goto, TypeOK
  <2>3. Advances(o)
    BY <2>1, <2>2 DEF Advances, Settled, Unfinished, RunSteps, Undone
  <2>4. \A x \in Ops : Advances(x)
    BY <1>3, <2>3, OneAdvances
  <2>. QED
    BY <1>3, <2>4, SerialFrame
<1>4. CASE \/ BeginStaging(o) \/ BeginVerifying(o) \/ MarkReady(o)
           \/ BeginCommit(o) \/ BeginValidating(o)
  BY <1>3, <1>4 DEF BeginStaging, BeginVerifying, MarkReady, BeginCommit, BeginValidating,
     Transition, At, RunSteps, Running
<1>5. CASE \/ Stage(o) \/ MoveRevision(o) \/ ValidateActive(o)
           \/ ReplaceReferences(o) \/ CleanStaging(o) \/ RunFails(o)
  BY <1>3, <1>5 DEF Stage, MoveRevision, ValidateActive, ReplaceReferences, CleanStaging,
     RunFails, At, RunSteps, database
<1>. QED
  BY <1>1, <1>2, <1>4, <1>5, <1>1 DEF Run

LEMMA SerialRollback ==
  ASSUME WholeInv, NEW o \in Ops, Rollback(o)
  PROVE  SerialRest'
<1>. USE DEF WholeInv, ProjectionInv, DurableInv
<1>1. CASE RestorePrevious(o) \/ DetachProfile(o)
  BY <1>1, SerialRestore, SerialDelete
<1>2. ASSUME UNCHANGED <<exists, active, status, plan>>, pc[o] \in UndoSteps,
             opState' = opState \/ \E s : opState' = [opState EXCEPT ![o] = s],
             NEW step, Goto(o, step),
             pc[o] \in Undone \/ (step \notin Undone /\ opState'[o] \in Running)
               \/ status[o] # "committed"
      PROVE  SerialRest'
  <2>1. ~Settled(o) /\ (pc[o] \in Undone => status[o] # "committed")
    BY <1>2, InFlightFacts DEF AtRest, UndoSteps
  <2>2. pc'[o] = step
    BY <1>2 DEF Goto, TypeOK
  <2>3. Advances(o)
    BY <1>2, <2>1, <2>2 DEF Advances, Settled, Unfinished
  <2>4. \A x \in Ops : Advances(x)
    BY <1>2, <2>3, OneAdvances
  <2>. QED
    BY <1>2, <2>4, SerialFrame
<1>3. CASE BeginRollback(o)
  <2>1. opState'[o] \in Running
    BY <1>3 DEF BeginRollback, Transition, TypeOK, Running
  <2>. QED
    BY <1>2, <1>3, <2>1 DEF BeginRollback, Transition, At, UndoSteps, Undone
<1>4. CASE InspectActive(o)
  <2>1. status[o] = "committed" => plan[o].profile \in exists /\ active[plan[o].profile] = o
    BY <1>4, InFlightFacts DEF InspectActive, At, AtRest
  <2>2. opState[o] \in Running
    BY <1>4 DEF InspectActive, At, RowMatchesThread, UndoSteps
  <2>. QED
    BY <1>2, <1>4, <2>1, <2>2 DEF InspectActive, At, UndoSteps, Undone, database
<1>5. CASE UndoFails(o)
  <2>1. pc[o] \in UndoSteps /\ UNCHANGED database /\ Goto(o, "done")
    BY <1>5 DEF UndoFails
  <2>2. pc[o] \in Undone \/ opState[o] \in Running
    BY <2>1 DEF RowMatchesThread, UndoSteps, Undone
  <2>. QED
    BY <1>2, <2>1, <2>2 DEF Undone, database
<1>6. CASE Settle(o)
  BY <1>2, <1>6 DEF Settle, Transition, At, UndoSteps, Undone
<1>7. CASE RemoveRevision(o)
  <2>1. pc' = pc => Goto(o, pc[o])
    BY DEF Goto, TypeOK
  <2>. QED
    BY <1>2, <1>7, <2>1 DEF RemoveRevision, At, UndoSteps, Undone, database
<1>8. CASE RemoveReferences(o) \/ SweepStaging(o) \/ PurgeProfile(o)
  BY <1>2, <1>8 DEF RemoveReferences, SweepStaging, PurgeProfile, At, UndoSteps, Undone,
     database
<1>. QED
  BY <1>1, <1>3, <1>4, <1>5, <1>6, <1>7, <1>8 DEF Rollback

LEMMA SerialRecovery ==
  ASSUME WholeInv,
         \/ Crash \/ Restart \/ FinishRecovery
         \/ \E o \in Ops : CorruptPlan(o) \/ Recover(o) \/ RecoveryFails(o)
  PROVE  SerialRest'
<1>. USE DEF WholeInv, ProjectionInv, DurableInv
<1>1. UNCHANGED <<exists, active, status, plan, opState>>
  BY DEF Crash, Restart, FinishRecovery, CorruptPlan, Recover, RecoveryFails, database
<1>2. CASE pc' = pc
  BY <1>1, <1>2, SerialFrame DEF Advances
<1>3. CASE Halt
  <2>1. ASSUME NEW x \in Ops PROVE Advances(x)
    <3>1. pc'[x] = IF pc[x] = "idle" THEN "idle" ELSE "done"
      BY <1>3 DEF Halt
    <3>2. CASE pc[x] \in AtRest
      BY <1>1, <3>1, <3>2 DEF Advances, AtRest
    <3>3. CASE pc[x] \notin AtRest
      <4>1. ~Settled(x) /\ (pc[x] \in Undone => status[x] # "committed")
        BY <3>3, InFlightFacts
      <4>2. pc[x] \in {"planned", "discard"} => status[x] # "committed"
        BY DEF CreationIsPrivate
      <4>3. pc[x] \in Undone \cup {"planned", "discard"} \/ opState[x] \in Running
        BY <3>3 DEF TypeOK, RowMatchesThread, Undone, UndoSteps
      <4>. QED
        BY <1>1, <3>1, <3>3, <4>1, <4>2, <4>3 DEF Advances, Settled, Unfinished, AtRest, Undone
    <3>. QED
      BY <3>2, <3>3
  <2>. QED
    BY <1>1, <2>1, SerialFrame
<1>4. ASSUME NEW o \in Ops, Recover(o) PROVE SerialRest'
  <2>1. opState[o] \in Running /\ ~Settled(o)
    BY <1>4 DEF Recover, RecoveryListIsIdle, Settled, Unfinished
  <2>2. PICK step \in {"inspect", "check", "rollback"} : Goto(o, step)
    BY <1>4 DEF Recover
  <2>3. Advances(o)
    BY <1>1, <2>1, <2>2 DEF Advances, Settled, Unfinished, Undone, Goto, TypeOK, AtRest
  <2>4. \A x \in Ops : Advances(x)
    BY <1>1, <2>2, <2>3, OneAdvances
  <2>. QED
    BY <1>1, <2>4, SerialFrame
<1>. QED
  BY <1>2, <1>3, <1>4
  DEF Crash, Restart, FinishRecovery, CorruptPlan, RecoveryFails

\* Steps that leave pointers, projections and plans alone and register nothing.
LEMMA ProjectedFrame ==
  ASSUME ProjectedRest, UNCHANGED <<exists, active, projection, plan>>,
         corrupt \subseteq corrupt',
         \A o \in Ops : opState'[o] # "none" => opState[o] # "none"
  PROVE  ProjectedRest'
BY DEF ProjectedRest, ActiveIsProjected, PlanRemembersProjection

LEMMA ProjectedPlan ==
  ASSUME WholeInv, NEW o \in Ops, NEW p \in Profiles, Create(o, p) \/ Prepare(o, p)
  PROVE  ProjectedRest'
<1>. USE DEF WholeInv, ProjectionInv, DurableInv, TypeOK
<1>1. /\ pc[o] = "idle" /\ opState[o] = "none" /\ status[o] = "none"
      /\ UNCHANGED <<active, projection, opState, corrupt>>
      /\ exists' = exists \/ (exists' = exists \cup {p} /\ \A x \in Ops : plan[x].profile # p)
  BY DEF Create, Prepare, ChainInv, IdleHasNoRow, RowMatchesThread
<1>2. \A x \in Ops : x # o => plan'[x] = plan[x]
  BY DEF Create, Prepare
<1>3. \A q \in Profiles : active[q] # o /\ (active[q] # None => active[q] \in Ops)
  BY <1>1, OperationsAssumption DEF ChainInv, HistoryIsChain, Committed
<1>4. ActiveIsProjected'
  BY <1>1, <1>2, <1>3 DEF ProjectedRest, ActiveIsProjected
<1>5. ASSUME NEW x \in Ops, opState'[x] # "none", plan'[x].profile \in exists',
             plan'[x].prev # None
      PROVE  /\ x # o /\ plan[x].profile \in exists
             /\ plan[x].prev \in Ops /\ plan'[plan[x].prev] = plan[plan[x].prev]
  <2>1. x # o /\ plan'[x] = plan[x]
    BY <1>1, <1>2, <1>5
  <2>2. plan[x].profile \in exists
    BY <1>1, <1>5, <2>1
  <2>3. plan[x].prev \in Ops /\ plan[x].prev # o
    BY <1>1, <1>5, <2>1, <2>2 DEF ProjectionRest, PreviousHasRow, Plans
  <2>. QED
    BY <1>2, <2>1, <2>2, <2>3
<1>6. PlanRemembersProjection'
  BY <1>1, <1>2, <1>5 DEF ProjectedRest, PlanRemembersProjection
<1>. QED
  BY <1>4, <1>6 DEF ProjectedRest

LEMMA ProjectedRegister ==
  ASSUME WholeInv, NEW o \in Ops, Register(o) \/ RegisterTorn(o)
  PROVE  ProjectedRest'
<1>. USE DEF WholeInv, ProjectionInv, DurableInv, TypeOK
<1>1. /\ plan[o].profile \in Profiles
      /\ active[plan[o].profile] = plan[o].prev
      /\ projection[plan[o].profile] = plan[o].prevProjection
      /\ UNCHANGED <<exists, active, projection, plan, corrupt>>
      /\ opState' = [opState EXCEPT ![o] = "planned"]
  BY DEF Register, RegisterTorn, InsertOperation, PlanIsCurrent
<1>2. corrupt = {} /\ plan[o].prev # None /\ plan[plan[o].prev].projects
        => plan[o].prevProjection = plan[o].prev
  BY <1>1 DEF ProjectedRest, ActiveIsProjected
<1>3. \A x \in Ops : x # o => opState'[x] = opState[x]
  BY <1>1
<1>. QED
  BY <1>1, <1>2, <1>3 DEF ProjectedRest, ActiveIsProjected, PlanRemembersProjection

LEMMA ProjectedDelete ==
  ASSUME WholeInv, NEW o \in Ops, Discard(o) \/ DetachProfile(o)
  PROVE  ProjectedRest'
<1>. USE DEF WholeInv, ProjectionInv, DurableInv, TypeOK
<1>1. /\ plan[o].profile \in Profiles /\ active[plan[o].profile] = None
      /\ DeleteProfile(plan[o].profile)
      /\ UNCHANGED <<active, plan, corrupt, opState>>
  BY DEF Discard, DetachProfile, CanDiscard, CanDetach
<1>. QED
  BY <1>1 DEF DeleteProfile, ProjectedRest, ActiveIsProjected, PlanRemembersProjection

LEMMA ProjectedActivate ==
  ASSUME WholeInv, NEW o \in Ops, Activate(o)
  PROVE  ProjectedRest'
<1>. USE DEF WholeInv, ProjectionInv, DurableInv, TypeOK
<1>. DEFINE p == plan[o].profile
<1>1. /\ p \in Profiles /\ active' = [active EXCEPT ![p] = o]
      /\ projection' = IF plan[o].projects THEN [projection EXCEPT ![p] = o]
                                           ELSE projection
      /\ UNCHANGED <<exists, plan, corrupt, opState>>
  BY DEF Activate, CanActivate
<1>. QED
  BY <1>1 DEF ProjectedRest, ActiveIsProjected, PlanRemembersProjection

LEMMA ProjectedRestore ==
  ASSUME WholeInv, NEW o \in Ops, RestorePrevious(o)
  PROVE  ProjectedRest'
<1>. USE DEF WholeInv, ProjectionInv, DurableInv, TypeOK
<1>. DEFINE p == plan[o].profile
<1>1. /\ p \in Profiles /\ p \in exists /\ pc[o] = "restore"
      /\ active' = [active EXCEPT ![p] = plan[o].prev]
      /\ o \notin corrupt /\ plan[o].prevProjection # None
            => projection' = [projection EXCEPT ![p] = plan[o].prevProjection]
      /\ \A q \in Profiles : q # p => projection'[q] = projection[q]
      /\ UNCHANGED <<exists, plan, corrupt, opState>>
  BY DEF RestorePrevious, CanRestore, At
<1>2. opState[o] # "none"
  BY <1>1 DEF RowMatchesThread, UndoSteps, Running
<1>3. corrupt = {} /\ plan[o].prev # None /\ plan[plan[o].prev].projects
        => projection'[p] = plan[o].prev
  BY <1>1, <1>2 DEF ProjectedRest, PlanRemembersProjection
<1>4. \A q \in Profiles : active'[q] = IF q = p THEN plan[o].prev ELSE active[q]
  BY <1>1
<1>. QED
  BY <1>1, <1>3, <1>4 DEF ProjectedRest, ActiveIsProjected, PlanRemembersProjection

LEMMA ProjectedStep ==
  ASSUME WholeInv, [Next]_vars
  PROVE  ProjectedRest'
<1>. USE DEF WholeInv, ProjectionInv, DurableInv
<1>1. ASSUME UNCHANGED <<exists, active, projection, plan>>, corrupt \subseteq corrupt',
             NEW o \in Ops, opState[o] # "none" \/ opState'[o] = "none",
             opState' = opState \/ \E s : opState' = [opState EXCEPT ![o] = s]
      PROVE  ProjectedRest'
  BY <1>1, ProjectedFrame DEF TypeOK
<1>2. ASSUME UNCHANGED <<exists, active, projection, plan, opState>>,
             corrupt \subseteq corrupt'
      PROVE  ProjectedRest'
  BY <1>2, ProjectedFrame
<1>3. ASSUME NEW o \in Ops, Planning(o) PROVE ProjectedRest'
  BY <1>2, <1>3, ProjectedPlan, ProjectedRegister, ProjectedDelete
  DEF Planning, Refuse, DiscardFails, database
<1>4. ASSUME NEW o \in Ops, NEW step, NEW next, NEW s, Transition(o, step, next, s),
             step \in RunSteps \cup (UndoSteps \ {"detach", "purge"})
      PROVE  ProjectedRest'
  <2>1. opState[o] # "none"
    BY <1>4 DEF Transition, At, RowMatchesThread, Running
  <2>. QED
    BY <1>1, <1>4, <2>1 DEF Transition
<1>5. ASSUME NEW o \in Ops, Run(o) PROVE ProjectedRest'
  <2>1. CASE \/ BeginStaging(o) \/ BeginVerifying(o) \/ MarkReady(o)
             \/ BeginCommit(o) \/ BeginValidating(o) \/ Complete(o)
    BY <1>4, <2>1 DEF BeginStaging, BeginVerifying, MarkReady, BeginCommit,
       BeginValidating, Complete, RunSteps
  <2>2. CASE \/ Stage(o) \/ MoveRevision(o) \/ ValidateActive(o)
             \/ ReplaceReferences(o) \/ CleanStaging(o) \/ RunFails(o)
    BY <1>2, <2>2 DEF Stage, MoveRevision, ValidateActive, ReplaceReferences,
       CleanStaging, RunFails, database
  <2>. QED
    BY <1>5, <2>1, <2>2, ProjectedActivate DEF Run
<1>6. ASSUME NEW o \in Ops, Rollback(o) PROVE ProjectedRest'
  <2>1. CASE BeginRollback(o) \/ Settle(o)
    BY <1>4, <2>1 DEF BeginRollback, Settle, UndoSteps
  <2>2. CASE \/ InspectActive(o) \/ RemoveReferences(o) \/ RemoveRevision(o)
             \/ SweepStaging(o) \/ PurgeProfile(o) \/ UndoFails(o)
    BY <1>2, <2>2 DEF InspectActive, RemoveReferences, RemoveRevision, SweepStaging,
       PurgeProfile, UndoFails, database
  <2>. QED
    BY <1>6, <2>1, <2>2, ProjectedRestore, ProjectedDelete DEF Rollback
<1>7. ASSUME \/ Crash \/ Restart \/ FinishRecovery
             \/ \E o \in Ops : CorruptPlan(o) \/ Recover(o) \/ RecoveryFails(o)
      PROVE  ProjectedRest'
  BY <1>2, <1>7 DEF Crash, Restart, FinishRecovery, CorruptPlan, Recover,
     RecoveryFails, database
<1>8. CASE UNCHANGED vars
  BY <1>2, <1>8 DEF vars
<1>. QED
  BY <1>3, <1>5, <1>6, <1>7, <1>8 DEF Next

LEMMA WholeInit == Init => WholeInv
<1>. SUFFICES ASSUME Init PROVE WholeInv
  OBVIOUS
<1>1. \A o \in Ops : Settled(o) /\ (status[o] = "committed" => opState[o] = "completed")
  BY DEF Init, Settled, Unfinished, AtRest, Running
<1>2. SerialRest
  BY <1>1 DEF SerialRest, OneInFlight, CommittedIsCompleteOrOnTop, Committed
<1>3. PICK projects \in BOOLEAN :
        /\ plan = BaselinePlan(projects)
        /\ projection = IF projects THEN Baseline ELSE [p \in Profiles |-> None]
  BY DEF Init
<1>4. \A p \in Profiles : active[p] # None => plan[active[p]].projects = projects
  <2>. SUFFICES ASSUME NEW p \in Profiles, active[p] # None
                PROVE  plan[active[p]].projects = projects
    OBVIOUS
  <2>1. active[p] \in BaselineOps /\ active[p] \in Ops
    BY OperationsAssumption DEF Init, BaselineOps
  <2>2. PICK q : plan[active[p]] = [NoPlan EXCEPT !.profile = q, !.projects = projects]
    BY <1>3, <2>1 DEF BaselinePlan
  <2>. QED
    BY <2>2 DEF NoPlan
<1>5. \A o \in Ops : plan[o].prev = None
  BY <1>3, BaselinePlanFacts
<1>6. ProjectedRest
  BY <1>3, <1>4, <1>5
  DEF Init, ProjectedRest, ActiveIsProjected, PlanRemembersProjection
<1>. QED
  BY <1>2, <1>6, ProjectionInit DEF WholeInv

LEMMA WholeStep ==
  ASSUME Serialized
  PROVE  WholeInv /\ [Next]_vars => WholeInv'
<1>. SUFFICES ASSUME WholeInv, [Next]_vars PROVE SerialRest'
  BY ProjectionStep, ProjectedStep DEF WholeInv
<1>1. CASE UNCHANGED vars
  BY <1>1, SerialFrame DEF vars, WholeInv, Advances
<1>2. CASE Next
  BY <1>2, SerialPlanning, SerialRun, SerialRollback, SerialRecovery DEF Next
<1>. QED
  BY <1>1, <1>2

\* A pointer moves to an operation that is being committed, or back to one
\* that has completed.
LEMMA PointerAvoidsUndone ==
  ASSUME WholeInv, [Next]_vars, NEW p \in Profiles, active'[p] # active[p],
         active'[p] # None
  PROVE  opState[active'[p]] \notin {"rolled-back", "failed"}
<1>. USE DEF WholeInv, ProjectionInv, DurableInv, TypeOK
<1>1. PICK o \in Ops : Activate(o) \/ RestorePrevious(o)
  <2>1. ~UNCHANGED active
    OBVIOUS
  <2>2. \A o \in Ops : ~Planning(o)
    BY <2>1 DEF Planning, Create, Prepare, Register, RegisterTorn, Refuse, Discard,
       DiscardFails, database
  <2>3. \A o \in Ops : Run(o) => Activate(o)
    BY <2>1 DEF Run, BeginStaging, BeginVerifying, MarkReady, BeginCommit,
       BeginValidating, Complete, Transition, Stage, MoveRevision, ValidateActive,
       ReplaceReferences, CleanStaging, RunFails, database
  <2>4. \A o \in Ops : Rollback(o) => RestorePrevious(o)
    BY <2>1 DEF Rollback, BeginRollback, Settle, Transition, InspectActive,
       RemoveReferences, RemoveRevision, SweepStaging, DetachProfile, PurgeProfile,
       UndoFails, database
  <2>5. /\ ~Crash /\ ~Restart /\ ~FinishRecovery /\ ~UNCHANGED vars
        /\ \A o \in Ops : ~CorruptPlan(o) /\ ~Recover(o) /\ ~RecoveryFails(o)
    BY <2>1 DEF Crash, Restart, FinishRecovery, CorruptPlan, Recover, RecoveryFails,
       database, vars
  <2>. QED
    BY <2>2, <2>3, <2>4, <2>5 DEF Next
<1>2. CASE Activate(o)
  <2>1. active'[p] = o /\ opState[o] \in Running
    BY <1>2 DEF Activate, At, RowMatchesThread, RunSteps
  <2>. QED
    BY <2>1 DEF Running
<1>3. CASE RestorePrevious(o)
  <2>. DEFINE q == plan[o].prev
  <2>1. /\ pc[o] = "restore" /\ active[p] = o /\ active'[p] = q
        /\ plan[o].profile = p /\ status[q] = "committed" /\ plan[q].profile = p
        /\ q \in Ops /\ q # o /\ p # None
    BY <1>3, OperationsAssumption DEF RestorePrevious, CanRestore, At, Plans
  <2>2. Settled(q)
    BY <2>1, InFlightFacts DEF AtRest
  <2>3. opState[q] = "completed"
    BY <2>1, <2>2 DEF SerialRest, CommittedIsCompleteOrOnTop, Committed
  <2>. QED
    BY <2>1, <2>3
<1>. QED
  BY <1>1, <1>2, <1>3

\* Where callers never overlap two operations of one profile: once nothing is in
\* flight, a profile has no revision or the complete result of an operation that
\* succeeded, with its runtime projection, whatever failed or crashed before.
THEOREM OldOrNewAtRest ==
  ASSUME Serialized
  PROVE  Spec => []AllOrNothing
<1>1. WholeInv => AllOrNothing
  <2>. SUFFICES ASSUME WholeInv PROVE AllOrNothing
    OBVIOUS
  <2>. USE DEF WholeInv, ProjectionInv, DurableInv
  <2>1. ASSUME Quiescent, NEW p \in exists, active[p] # None
        PROVE  /\ opState[active[p]] = "completed" /\ dir[active[p]] = "full"
               /\ corrupt = {} /\ plan[active[p]].projects => projection[p] = active[p]
    <3>1. p \in Profiles /\ active[p] \in Committed /\ active[p] \in Ops
      BY <2>1 DEF TypeOK, ChainInv, HistoryIsChain, Committed
    <3>2. opState[active[p]] = "completed"
      BY <2>1, <3>1 DEF Quiescent, SerialRest, CommittedIsCompleteOrOnTop
    <3>. QED
      BY <2>1, <3>1, <3>2 DEF SuccessSoFar, ProjectedRest, ActiveIsProjected
  <2>2. ASSUME NEW o \in Ops, opState[o] = "rolled-back", status[o] = "committed"
        PROVE  FALSE
    <3>1. ~Settled(o)
      BY <2>2 DEF SerialRest, CommittedIsCompleteOrOnTop, Committed
    <3>2. pc[o] \notin AtRest
      BY <2>2, <3>1 DEF Settled, Unfinished, Running
    <3>3. pc[o] \in {"detach", "purge"}
      BY <2>2, <3>2 DEF TypeOK, RowMatchesThread, AtRest, RunSteps, UndoSteps, Running
    <3>. QED
      BY <2>2, <3>1, <3>3 DEF SerialRest, CommittedIsCompleteOrOnTop, Committed, Undone
  <2>. QED
    BY <2>1, <2>2 DEF AllOrNothing
<1>. QED
  BY <1>1, WholeInit, WholeStep, PTL DEF Spec

\* Under the same condition rolling back an operation never makes a revision
\* current whose own operation has been rolled back or given up.
THEOREM UndoneStaysUndone ==
  ASSUME Serialized
  PROVE  Spec => NoResurrection
<1>1. WholeInv /\ [Next]_vars =>
        [\A p \in Profiles : active'[p] # active[p] /\ active'[p] # None
            => opState[active'[p]] \notin {"rolled-back", "failed"}]_vars
  BY PointerAvoidsUndone
<1>. QED
  BY <1>1, WholeInit, WholeStep, PTL DEF Spec, NoResurrection

=============================================================================
