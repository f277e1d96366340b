------------------------ MODULE LaunchManagerProofs ------------------------
(***************************************************************************)
(* Proofs about LaunchManager for any number of launches, profiles and     *)
(* failing calls: one active launch and one process for each profile, no   *)
(* record in two places, no reservation left behind, and no mutex kept     *)
(* while a game runs.                                                      *)
(***************************************************************************)
EXTENDS LaunchManager, TLAPS

\* The steps of a starting command between its reservation and its end.
Prepares == {"prepare", "launch", "launch-keep", "precheck", "spawn",
             "spawn-keep", "boundary", "cross", "reap", "fail"}

\* The steps before the launch identifier exists.
Early == {"idle", "reserve", "reserve-keep", "claim", "reserving"}

\* A monitor begins when its starting command ends, and has errors to spare
\* while it watches.
MonitorInv ==
    /\ \A l \in Launches : At(Starter(l), "done") \/ At(Monitor(l), "idle")
    /\ \A l \in Launches : pc[Monitor(l)] \in {"idle", "collect"} => errors[l] < GiveUp

\* Between its reservation and its end.
Reserving(l) ==
    \/ pc[Starter(l)] \in Prepares
    \/ At(Starter(l), "tell") /\ seen[Starter(l)] \in Preparing

\* Where a starting command stands tells whether its launch is pending and
\* whether it holds the mutex of pending; once it has looked for another
\* pending launch of the profile none can appear.
StarterInv ==
    /\ \A l \in Launches :
         /\ At(Starter(l), "tell") => seen[Starter(l)] \in Preparing \cup {"running", "failed"}
         /\ At(Starter(l), "remember") => seen[Starter(l)] = "failed"
    /\ \A l \in Launches :
         l \in pending <=> Reserving(l)
    /\ \A l \in Launches :
         pc[Starter(l)] \in {"reserving", "cross", "reap"} => pendingLock = Starter(l)
    /\ \A l \in Launches :
         At(Starter(l), "reserving") => ~IsPending(ProfileOf[l])

\* The two places where the mutex of running is kept, and what it protects there;
\* a record gets into the running table with its process.
HolderInv ==
    \A l \in Launches :
        /\ At(Starter(l), "reap") => runningLock = Starter(l)
        /\ At(Stopper(l), "await") => runningLock = Stopper(l) /\ l \in running
        /\ l \in running => process[l] # "none"

LockInv == LockNeverAwaitsGame /\ HolderInv

\* Before its reservation a launch is in no table and in no hands.
Nowhere(l) ==
    /\ l \notin running \cup finished
    /\ \A t \in Tasks : l \notin carry[t]

FreshInv == \A l \in Launches : pc[Starter(l)] \in Early => Nowhere(l)

RecordInv == FreshInv /\ OneRecord

SafetyInv == OneActiveLaunch /\ LiveProcessIsListed

IInv ==
    /\ TypeOK
    /\ MonitorInv
    /\ StarterInv
    /\ LockInv
    /\ RecordInv
    /\ SafetyInv
-----------------------------------------------------------------------------
(* Proofs *)

\* Tasks of different kinds, or for different launches, are different.
LEMMA TaskFacts ==
    /\ \A l \in Launches : Starter(l) \in Tasks /\ Monitor(l) \in Tasks /\ Stopper(l) \in Tasks
    /\ Lister \in Tasks
    /\ \A l, x \in Launches :
         /\ Starter(l) # Monitor(x) /\ Starter(l) # Stopper(x) /\ Monitor(l) # Stopper(x)
         /\ Starter(l) # Lister /\ Monitor(l) # Lister /\ Stopper(l) # Lister
         /\ Starter(l) = Starter(x) => l = x
         /\ Monitor(l) = Monitor(x) => l = x
         /\ Stopper(l) = Stopper(x) => l = x
    BY DEF Tasks, Starter, Monitor, Stopper, Lister


\* Collecting and keeping move records between the running table, the hands of
\* one task and the finished table.
LEMMA CollectMoves ==
    ASSUME TypeOK, OneRecord, NEW t \in Tasks, NEW from, NEW keep, NEW next,
           Collect(t, from, keep, next)
    PROVE  OneRecord' /\ \A l \in Launches : Nowhere(l) => Nowhere(l)'
<1>1. /\ pending' = pending /\ finished' = finished
      /\ running' = running \ EndedLaunches /\ EndedLaunches \subseteq running
      /\ carry'[t] = EndedLaunches
      /\ \A u \in Tasks : u # t => carry'[u] = carry[u]
    BY DEF Collect, EndedLaunches, TypeOK
<1>2. \A u \in Tasks : carry'[u] \subseteq carry[u] \cup running
    BY <1>1
<1>3. \A u \in Tasks : carry'[u] \cap (pending' \cup running' \cup finished') = {}
    BY <1>1 DEF OneRecord, Active
<1>4. \A u, v \in Tasks : u # v => carry'[u] \cap carry'[v] = {}
    BY <1>1 DEF OneRecord, Active
<1>5. pending' \cap running' = {} /\ (pending' \cup running') \cap finished' = {}
    BY <1>1 DEF OneRecord, Active
<1>6. OneRecord'
    BY <1>3, <1>4, <1>5 DEF OneRecord, Active
<1>7. \A l \in Launches : Nowhere(l) => Nowhere(l)'
    BY <1>1, <1>2 DEF Nowhere
<1> QED
    BY <1>6, <1>7

LEMMA KeepMoves ==
    ASSUME TypeOK, OneRecord, NEW t \in Tasks, NEW keep, NEW next,
           Keep(t, keep, next)
    PROVE  OneRecord' /\ \A l \in Launches : Nowhere(l) => Nowhere(l)'
<1>1. /\ pending' = pending /\ running' = running
      /\ finished' \subseteq finished \cup carry[t]
      /\ carry'[t] = {}
      /\ \A u \in Tasks : u # t => carry'[u] = carry[u]
    BY DEF Keep, TypeOK
<1>2. \A u \in Tasks : carry'[u] \cap (pending' \cup running' \cup finished') = {}
    BY <1>1 DEF OneRecord, Active
<1>3. \A u, v \in Tasks : u # v => carry'[u] \cap carry'[v] = {}
    BY <1>1 DEF OneRecord
<1>4. pending' \cap running' = {} /\ (pending' \cup running') \cap finished' = {}
    BY <1>1 DEF OneRecord, Active
<1>5. OneRecord'
    BY <1>2, <1>3, <1>4 DEF OneRecord, Active
<1>6. \A l \in Launches : Nowhere(l) => Nowhere(l)'
    BY <1>1 DEF Nowhere
<1> QED
    BY <1>5, <1>6

LEMMA StepsAreMany ==
    {"done", "idle", "reserve-keep", "claim", "reserving", "launch-keep", "precheck", "spawn-keep",
     "boundary", "keep", "read", "remember", "tell", "fail", "report"} \subseteq Steps
    BY DEF Steps

\* The parts of cleanup_finished keep the types, wherever a task goes on.
LEMMA CollectTypes ==
    ASSUME TypeOK, NEW t \in Tasks, NEW from, NEW keep \in Steps, NEW next \in Steps,
           Collect(t, from, keep, next)
    PROVE  TypeOK'
<1>1. EndedLaunches \in SUBSET Launches /\ running' \subseteq Launches
    BY DEF Collect, EndedLaunches, TypeOK
<1>2. state' \in [Launches -> States]
    BY DEF Collect, TypeOK, States, Final
<1>3. carry' \in [Tasks -> SUBSET Launches] /\ pc' \in [Tasks -> Steps]
    BY <1>1 DEF Collect, Goto, TypeOK
<1> QED
    BY <1>1, <1>2, <1>3 DEF Collect, locks, told, TypeOK

LEMMA KeepTypes ==
    ASSUME TypeOK, NEW t \in Tasks, NEW keep \in Steps, NEW next \in Steps,
           Keep(t, keep, next)
    PROVE  TypeOK'
<1>1. finished' \subseteq Launches
    BY DEF Keep, TypeOK
<1>2. carry' \in [Tasks -> SUBSET Launches] /\ pc' \in [Tasks -> Steps]
    BY DEF Keep, Goto, TypeOK
<1> QED
    BY <1>1, <1>2 DEF Keep, locks, told, TypeOK

LEMMA CollectFailsTypes ==
    ASSUME TypeOK, NEW t \in Tasks, NEW from, NEW next \in Steps,
           CollectFails(t, from, next)
    PROVE  TypeOK'
<1>1. pc' \in [Tasks -> Steps] /\ faults' \in 0 .. MaxFaults
    BY LaunchAssumption DEF CollectFails, CannotCollect, Fault, Goto, TypeOK
<1> QED
    BY <1>1 DEF CollectFails, CannotCollect, tables, locks, told, TypeOK

\* Every step keeps the types.
LEMMA TypePreserved ==
    ASSUME MonitorInv, TypeOK, [Next]_vars
    PROVE  TypeOK'
<1>Request. ASSUME NEW l \in Launches, Request(l)
     PROVE  TypeOK'
    BY <1>Request, TaskFacts, LaunchAssumption, NoneAssumption DEF Request, Goto, At,
       tables, locks, told, MonitorInv, TypeOK, Steps, States, Preparing, Final, Ended
<1>CleanBeforeReserve. ASSUME NEW l \in Launches, CleanBeforeReserve(l)
     PROVE  TypeOK'
    BY <1>CleanBeforeReserve, TaskFacts, StepsAreMany, CollectTypes, KeepTypes, CollectFailsTypes
       DEF CleanBeforeReserve
<1>Claim. ASSUME NEW l \in Launches, Claim(l)
     PROVE  TypeOK'
  <2>1. pc' \in [Tasks -> Steps]
    BY <1>Claim, StepsAreMany, TaskFacts DEF Claim, Goto, TypeOK
  <2>2. pendingLock' \in Tasks \cup {None}
    BY <1>Claim, TaskFacts DEF Claim, TypeOK
  <2> QED
    BY <1>Claim, <2>1, <2>2 DEF Claim, tables, told, TypeOK
<1>Refuse. ASSUME NEW l \in Launches, Refuse(l)
     PROVE  TypeOK'
    BY <1>Refuse, TaskFacts, LaunchAssumption, NoneAssumption DEF Refuse, Goto, At,
       tables, locks, told, MonitorInv, TypeOK, Steps, States, Preparing, Final, Ended
<1>Reserve. ASSUME NEW l \in Launches, Reserve(l)
     PROVE  TypeOK'
  <2>1. pc' \in [Tasks -> Steps]
    BY <1>Reserve, StepsAreMany, TaskFacts DEF Reserve, Goto, TypeOK
  <2>2. seen' \in [Tasks -> States \cup {None}]
    BY <1>Reserve DEF Reserve, TypeOK, States, Preparing
  <2>3. started' \in [Launches -> Nat]
    BY <1>Reserve DEF Reserve, TypeOK
  <2>4. pending' \subseteq Launches /\ pendingLock' \in Tasks \cup {None}
    BY <1>Reserve DEF Reserve, TypeOK
  <2> QED
    BY <1>Reserve, <2>1, <2>2, <2>3, <2>4 DEF Reserve, told, TypeOK
<1>Tell. ASSUME NEW l \in Launches, Tell(l)
     PROVE  TypeOK'
    BY <1>Tell, TaskFacts, LaunchAssumption, NoneAssumption DEF Tell, Goto, At,
       tables, locks, told, MonitorInv, TypeOK, Steps, States, Preparing, Final, Ended
<1>TransitionPending. ASSUME NEW l \in Launches, TransitionPending(l)
     PROVE  TypeOK'
    BY <1>TransitionPending, TaskFacts, LaunchAssumption, NoneAssumption DEF
       TransitionPending, Following, Goto, At, tables, locks, told, MonitorInv,
       TypeOK, Steps, States, Preparing, Final, Ended
<1>PrepareFails. ASSUME NEW l \in Launches, PrepareFails(l)
     PROVE  TypeOK'
    BY <1>PrepareFails, TaskFacts, LaunchAssumption, NoneAssumption DEF PrepareFails,
       Goto, At, tables, locks, told, MonitorInv, TypeOK, Steps, States, Preparing,
       Final, Ended
<1>CleanBeforeLaunch. ASSUME NEW l \in Launches, CleanBeforeLaunch(l)
     PROVE  TypeOK'
    BY <1>CleanBeforeLaunch, TaskFacts, StepsAreMany, CollectTypes, KeepTypes, CollectFailsTypes
       DEF CleanBeforeLaunch
<1>Precheck. ASSUME NEW l \in Launches, Precheck(l)
     PROVE  TypeOK'
    BY <1>Precheck, TaskFacts, LaunchAssumption, NoneAssumption DEF Precheck, Goto,
       At, tables, locks, told, MonitorInv, TypeOK, Steps, States, Preparing, Final,
       Ended
<1>CleanBeforeSpawn. ASSUME NEW l \in Launches, CleanBeforeSpawn(l)
     PROVE  TypeOK'
    BY <1>CleanBeforeSpawn, TaskFacts, StepsAreMany, CollectTypes, KeepTypes, CollectFailsTypes
       DEF CleanBeforeSpawn
<1>Boundary. ASSUME NEW l \in Launches, Boundary(l)
     PROVE  TypeOK'
    BY <1>Boundary, TaskFacts, LaunchAssumption, NoneAssumption DEF Boundary, Goto,
       At, tables, locks, told, MonitorInv, TypeOK, Steps, States, Preparing, Final,
       Ended
<1>Cross. ASSUME NEW l \in Launches, Cross(l)
     PROVE  TypeOK'
    BY <1>Cross, TaskFacts, LaunchAssumption, NoneAssumption DEF Cross, Goto, At,
       tables, locks, told, MonitorInv, TypeOK, Steps, States, Preparing, Final, Ended
<1>CrossFails. ASSUME NEW l \in Launches, CrossFails(l)
     PROVE  TypeOK'
    BY <1>CrossFails, TaskFacts, LaunchAssumption, NoneAssumption DEF CrossFails,
       Goto, At, tables, locks, told, MonitorInv, TypeOK, Steps, States, Preparing,
       Final, Ended
<1>AttachFails. ASSUME NEW l \in Launches, AttachFails(l)
     PROVE  TypeOK'
    BY <1>AttachFails, TaskFacts, LaunchAssumption, NoneAssumption DEF AttachFails,
       Fault, Goto, At, tables, locks, told, MonitorInv, TypeOK, Steps, States,
       Preparing, Final, Ended
<1>Reap. ASSUME NEW l \in Launches, Reap(l)
     PROVE  TypeOK'
    BY <1>Reap, TaskFacts, LaunchAssumption, NoneAssumption DEF Reap, Goto, At,
       tables, locks, told, MonitorInv, TypeOK, Steps, States, Preparing, Final, Ended
<1>FailPending. ASSUME NEW l \in Launches, FailPending(l)
     PROVE  TypeOK'
    BY <1>FailPending, TaskFacts, LaunchAssumption, NoneAssumption DEF FailPending,
       Goto, At, tables, locks, told, MonitorInv, TypeOK, Steps, States, Preparing,
       Final, Ended
<1>RememberFailed. ASSUME NEW l \in Launches, RememberFailed(l)
     PROVE  TypeOK'
    BY <1>RememberFailed, TaskFacts, StepsAreMany, KeepTypes DEF RememberFailed
<1>Exit. ASSUME NEW l \in Launches, Exit(l)
     PROVE  TypeOK'
    BY <1>Exit, TaskFacts, LaunchAssumption, NoneAssumption DEF Exit, Goto, At,
       tables, locks, told, MonitorInv, TypeOK, Steps, States, Preparing, Final, Ended
<1>Poll. ASSUME NEW l \in Launches, Poll(l)
     PROVE  TypeOK'
  <2>1. CASE Collect(Monitor(l), "collect", "keep", "read")
    BY <2>1, TaskFacts, StepsAreMany, CollectTypes
  <2>2. CASE Keep(Monitor(l), "keep", "read")
    BY <2>2, TaskFacts, StepsAreMany, KeepTypes
  <2>3. CASE ReadActive(Monitor(l), l, "read", "read-finished")
    BY <2>3, TaskFacts, LaunchAssumption, NoneAssumption DEF ReadActive, Goto, At,
       tables, locks, told, MonitorInv, TypeOK, Steps, States, Preparing, Final, Ended
  <2>4. CASE ReadFinished(Monitor(l), l, "read-finished", "judge")
    BY <2>4, TaskFacts, LaunchAssumption, NoneAssumption DEF ReadFinished, Goto, At,
       tables, locks, told, MonitorInv, TypeOK, Steps, States, Preparing, Final, Ended
  <2> QED
    BY <1>Poll, <2>1, <2>2, <2>3, <2>4 DEF Poll, Statuses
<1>PollFails. ASSUME NEW l \in Launches, PollFails(l)
     PROVE  TypeOK'
    BY <1>PollFails, TaskFacts, LaunchAssumption, NoneAssumption DEF PollFails,
       CannotCollect, Fault, Goto, At, tables, locks, told, MonitorInv, TypeOK, Steps,
       States, Preparing, Final, Ended
<1>Misses. ASSUME NEW l \in Launches, Misses(l)
     PROVE  TypeOK'
    BY <1>Misses, TaskFacts, LaunchAssumption, NoneAssumption DEF Misses, Goto, At,
       tables, locks, told, MonitorInv, TypeOK, Steps, States, Preparing, Final, Ended
<1>Judge. ASSUME NEW l \in Launches, Judge(l)
     PROVE  TypeOK'
    BY <1>Judge, TaskFacts, LaunchAssumption, NoneAssumption DEF Judge, Goto, At,
       tables, locks, told, MonitorInv, TypeOK, Steps, States, Preparing, Final, Ended
<1>AskToStop. ASSUME NEW l \in Launches, AskToStop(l)
     PROVE  TypeOK'
    BY <1>AskToStop, TaskFacts, LaunchAssumption, NoneAssumption DEF AskToStop, Goto,
       At, tables, locks, told, MonitorInv, TypeOK, Steps, States, Preparing, Final,
       Ended
<1>LookUp. ASSUME NEW l \in Launches, LookUp(l)
     PROVE  TypeOK'
  <2>1. CASE ReadActive(Stopper(l), l, "read", "read-finished")
    BY <2>1, TaskFacts DEF ReadActive, Goto, tables, locks, told, TypeOK, Steps
  <2>2. CASE ReadFinished(Stopper(l), l, "read-finished", "announce")
    BY <2>2, TaskFacts DEF ReadFinished, Goto, tables, locks, told, TypeOK, Steps
  <2> QED
    BY <1>LookUp, <2>1, <2>2, TaskFacts, StepsAreMany, CollectTypes, KeepTypes,
       CollectFailsTypes DEF LookUp, Statuses
<1>Announce. ASSUME NEW l \in Launches, Announce(l)
     PROVE  TypeOK'
    BY <1>Announce, TaskFacts, LaunchAssumption, NoneAssumption DEF Announce, Goto,
       At, tables, locks, told, MonitorInv, TypeOK, Steps, States, Preparing, Final,
       Ended
<1>StopUnknown. ASSUME NEW l \in Launches, StopUnknown(l)
     PROVE  TypeOK'
    BY <1>StopUnknown, TaskFacts, LaunchAssumption, NoneAssumption DEF StopUnknown,
       Goto, At, tables, locks, told, MonitorInv, TypeOK, Steps, States, Preparing,
       Final, Ended
<1>Stop. ASSUME NEW l \in Launches, Stop(l)
     PROVE  TypeOK'
    BY <1>Stop, TaskFacts, LaunchAssumption, NoneAssumption DEF Stop, Goto, At,
       tables, locks, told, MonitorInv, TypeOK, Steps, States, Preparing, Final, Ended
<1>StopFails. ASSUME NEW l \in Launches, StopFails(l)
     PROVE  TypeOK'
    BY <1>StopFails, TaskFacts, LaunchAssumption, NoneAssumption DEF StopFails, Fault,
       Goto, At, tables, locks, told, MonitorInv, TypeOK, Steps, States, Preparing,
       Final, Ended
<1>Stopped. ASSUME NEW l \in Launches, Stopped(l)
     PROVE  TypeOK'
    BY <1>Stopped, TaskFacts, LaunchAssumption, NoneAssumption DEF Stopped, Goto, At,
       tables, locks, told, MonitorInv, TypeOK, Steps, States, Preparing, Final, Ended
<1>WaitFails. ASSUME NEW l \in Launches, WaitFails(l)
     PROVE  TypeOK'
    BY <1>WaitFails, TaskFacts, LaunchAssumption, NoneAssumption DEF WaitFails, Fault,
       Goto, At, tables, locks, told, MonitorInv, TypeOK, Steps, States, Preparing,
       Final, Ended
<1>RememberStopped. ASSUME NEW l \in Launches, RememberStopped(l)
     PROVE  TypeOK'
    BY <1>RememberStopped, TaskFacts, LaunchAssumption, NoneAssumption DEF
       RememberStopped, Keep, Store, Goto, At, tables, locks, told, MonitorInv,
       TypeOK, Steps, States, Preparing, Final, Ended
<1>ReportStopped. ASSUME NEW l \in Launches, ReportStopped(l)
     PROVE  TypeOK'
    BY <1>ReportStopped, TaskFacts, LaunchAssumption, NoneAssumption DEF
       ReportStopped, Goto, At, tables, locks, told, MonitorInv, TypeOK, Steps,
       States, Preparing, Final, Ended
<1>List. ASSUME List
     PROVE  TypeOK'
  <2>1. CASE Collect(Lister, "collect", "keep", "idle")
    BY <2>1, TaskFacts, LaunchAssumption, NoneAssumption DEF Collect, EndedLaunches,
       Goto, At, tables, locks, told, MonitorInv, TypeOK, Steps, States, Preparing,
       Final, Ended
  <2>2. CASE Keep(Lister, "keep", "idle")
    BY <2>2, TaskFacts, LaunchAssumption, NoneAssumption DEF Keep, Store, Goto, At,
       tables, locks, told, MonitorInv, TypeOK, Steps, States, Preparing, Final, Ended
  <2>3. CASE CollectFails(Lister, "collect", "idle")
    BY <2>3, TaskFacts, LaunchAssumption, NoneAssumption DEF CollectFails,
       CannotCollect, Fault, Goto, At, tables, locks, told, MonitorInv, TypeOK, Steps,
       States, Preparing, Final, Ended
  <2>begin. CASE At(Lister, "idle") /\ Goto(Lister, "collect")
                   /\ UNCHANGED <<tables, state, started, process, locks, carry, seen, told, faults>>
    BY <2>begin, TaskFacts, LaunchAssumption, NoneAssumption DEF Goto, At, tables,
       locks, told, MonitorInv, TypeOK, Steps, States, Preparing, Final, Ended
  <2> QED
    BY <1>List, <2>1, <2>2, <2>3, <2>begin DEF List
<1>stutter. CASE UNCHANGED vars
    BY <1>stutter DEF vars, Goto, At, tables, locks, told, MonitorInv, TypeOK, Steps,
       States, Preparing, Final, Ended
<1> QED
    BY <1>Request, <1>CleanBeforeReserve, <1>Claim, <1>Refuse, <1>Reserve, <1>Tell,
       <1>TransitionPending, <1>PrepareFails, <1>CleanBeforeLaunch, <1>Precheck,
       <1>CleanBeforeSpawn, <1>Boundary, <1>Cross, <1>CrossFails, <1>AttachFails,
       <1>Reap, <1>FailPending, <1>RememberFailed, <1>Exit, <1>Poll, <1>PollFails,
       <1>Misses, <1>Judge, <1>AskToStop, <1>LookUp, <1>Announce, <1>StopUnknown,
       <1>Stop, <1>StopFails, <1>Stopped, <1>WaitFails, <1>RememberStopped,
       <1>ReportStopped, <1>List, <1>stutter DEF Next, Start, Watch, Halt

\* A monitor stops at its last error.
LEMMA MonitorPreserved ==
    ASSUME TypeOK, TypeOK', MonitorInv, [Next]_vars
    PROVE  MonitorInv'
<1>Request. ASSUME NEW l \in Launches, Request(l)
     PROVE  MonitorInv'
    BY <1>Request, TaskFacts, LaunchAssumption, NoneAssumption DEF Request, Goto, At,
       tables, locks, told, MonitorInv, TypeOK, Active
<1>CleanBeforeReserve. ASSUME NEW l \in Launches, CleanBeforeReserve(l)
     PROVE  MonitorInv'
    BY <1>CleanBeforeReserve, TaskFacts, LaunchAssumption, NoneAssumption DEF
       CleanBeforeReserve, Collect, EndedLaunches, Keep, Store, CollectFails,
       CannotCollect, Fault, Goto, At, tables, locks, told, MonitorInv, TypeOK, Active
<1>Claim. ASSUME NEW l \in Launches, Claim(l)
     PROVE  MonitorInv'
    BY <1>Claim, TaskFacts, LaunchAssumption, NoneAssumption DEF Claim, Goto, At,
       tables, locks, told, MonitorInv, TypeOK, Active
<1>Refuse. ASSUME NEW l \in Launches, Refuse(l)
     PROVE  MonitorInv'
    BY <1>Refuse, TaskFacts, LaunchAssumption, NoneAssumption DEF Refuse, Goto, At,
       tables, locks, told, MonitorInv, TypeOK, Active
<1>Reserve. ASSUME NEW l \in Launches, Reserve(l)
     PROVE  MonitorInv'
    BY <1>Reserve, TaskFacts, LaunchAssumption, NoneAssumption DEF Reserve, Goto, At,
       tables, locks, told, MonitorInv, TypeOK, Active
<1>Tell. ASSUME NEW l \in Launches, Tell(l)
     PROVE  MonitorInv'
    BY <1>Tell, TaskFacts, LaunchAssumption, NoneAssumption DEF Tell, Goto, At,
       tables, locks, told, MonitorInv, TypeOK, Active
<1>TransitionPending. ASSUME NEW l \in Launches, TransitionPending(l)
     PROVE  MonitorInv'
    BY <1>TransitionPending, TaskFacts, LaunchAssumption, NoneAssumption DEF
       TransitionPending, Following, Goto, At, tables, locks, told, MonitorInv,
       TypeOK, Active
<1>PrepareFails. ASSUME NEW l \in Launches, PrepareFails(l)
     PROVE  MonitorInv'
    BY <1>PrepareFails, TaskFacts, LaunchAssumption, NoneAssumption DEF PrepareFails,
       Goto, At, tables, locks, told, MonitorInv, TypeOK, Active
<1>CleanBeforeLaunch. ASSUME NEW l \in Launches, CleanBeforeLaunch(l)
     PROVE  MonitorInv'
    BY <1>CleanBeforeLaunch, TaskFacts, LaunchAssumption, NoneAssumption DEF
       CleanBeforeLaunch, Collect, EndedLaunches, Keep, Store, CollectFails,
       CannotCollect, Fault, Goto, At, tables, locks, told, MonitorInv, TypeOK, Active
<1>Precheck. ASSUME NEW l \in Launches, Precheck(l)
     PROVE  MonitorInv'
    BY <1>Precheck, TaskFacts, LaunchAssumption, NoneAssumption DEF Precheck, Goto,
       At, tables, locks, told, MonitorInv, TypeOK, Active
<1>CleanBeforeSpawn. ASSUME NEW l \in Launches, CleanBeforeSpawn(l)
     PROVE  MonitorInv'
    BY <1>CleanBeforeSpawn, TaskFacts, LaunchAssumption, NoneAssumption DEF
       CleanBeforeSpawn, Collect, EndedLaunches, Keep, Store, CollectFails,
       CannotCollect, Fault, Goto, At, tables, locks, told, MonitorInv, TypeOK, Active
<1>Boundary. ASSUME NEW l \in Launches, Boundary(l)
     PROVE  MonitorInv'
    BY <1>Boundary, TaskFacts, LaunchAssumption, NoneAssumption DEF Boundary, Goto,
       At, tables, locks, told, MonitorInv, TypeOK, Active
<1>Cross. ASSUME NEW l \in Launches, Cross(l)
     PROVE  MonitorInv'
    BY <1>Cross, TaskFacts, LaunchAssumption, NoneAssumption DEF Cross, Goto, At,
       tables, locks, told, MonitorInv, TypeOK, Active
<1>CrossFails. ASSUME NEW l \in Launches, CrossFails(l)
     PROVE  MonitorInv'
    BY <1>CrossFails, TaskFacts, LaunchAssumption, NoneAssumption DEF CrossFails,
       Goto, At, tables, locks, told, MonitorInv, TypeOK, Active
<1>AttachFails. ASSUME NEW l \in Launches, AttachFails(l)
     PROVE  MonitorInv'
    BY <1>AttachFails, TaskFacts, LaunchAssumption, NoneAssumption DEF AttachFails,
       Fault, Goto, At, tables, locks, told, MonitorInv, TypeOK, Active
<1>Reap. ASSUME NEW l \in Launches, Reap(l)
     PROVE  MonitorInv'
    BY <1>Reap, TaskFacts, LaunchAssumption, NoneAssumption DEF Reap, Goto, At,
       tables, locks, told, MonitorInv, TypeOK, Active
<1>FailPending. ASSUME NEW l \in Launches, FailPending(l)
     PROVE  MonitorInv'
    BY <1>FailPending, TaskFacts, LaunchAssumption, NoneAssumption DEF FailPending,
       Goto, At, tables, locks, told, MonitorInv, TypeOK, Active
<1>RememberFailed. ASSUME NEW l \in Launches, RememberFailed(l)
     PROVE  MonitorInv'
    BY <1>RememberFailed, TaskFacts, LaunchAssumption, NoneAssumption DEF
       RememberFailed, Keep, Store, Goto, At, tables, locks, told, MonitorInv, TypeOK,
       Active
<1>Exit. ASSUME NEW l \in Launches, Exit(l)
     PROVE  MonitorInv'
    BY <1>Exit, TaskFacts, LaunchAssumption, NoneAssumption DEF Exit, Goto, At,
       tables, locks, told, MonitorInv, TypeOK, Active
<1>Poll. ASSUME NEW l \in Launches, Poll(l)
     PROVE  MonitorInv'
    BY <1>Poll, TaskFacts, LaunchAssumption, NoneAssumption DEF Poll, Statuses,
       Collect, EndedLaunches, Keep, Store, ReadActive, ReadFinished, Goto, At,
       tables, locks, told, MonitorInv, TypeOK, Active
<1>PollFails. ASSUME NEW l \in Launches, PollFails(l)
     PROVE  MonitorInv'
    BY <1>PollFails, TaskFacts, LaunchAssumption, NoneAssumption DEF PollFails,
       CannotCollect, Fault, Goto, At, tables, locks, told, MonitorInv, TypeOK, Active
<1>Misses. ASSUME NEW l \in Launches, Misses(l)
     PROVE  MonitorInv'
    BY <1>Misses, TaskFacts, LaunchAssumption, NoneAssumption DEF Misses, Goto, At,
       tables, locks, told, MonitorInv, TypeOK, Active
<1>Judge. ASSUME NEW l \in Launches, Judge(l)
     PROVE  MonitorInv'
    BY <1>Judge, TaskFacts, LaunchAssumption, NoneAssumption DEF Judge, Goto, At,
       tables, locks, told, MonitorInv, TypeOK, Active
<1>AskToStop. ASSUME NEW l \in Launches, AskToStop(l)
     PROVE  MonitorInv'
    BY <1>AskToStop, TaskFacts, LaunchAssumption, NoneAssumption DEF AskToStop, Goto,
       At, tables, locks, told, MonitorInv, TypeOK, Active
<1>LookUp. ASSUME NEW l \in Launches, LookUp(l)
     PROVE  MonitorInv'
    BY <1>LookUp, TaskFacts, LaunchAssumption, NoneAssumption DEF LookUp, Statuses,
       Collect, EndedLaunches, Keep, Store, ReadActive, ReadFinished, CollectFails,
       CannotCollect, Fault, Goto, At, tables, locks, told, MonitorInv, TypeOK, Active
<1>Announce. ASSUME NEW l \in Launches, Announce(l)
     PROVE  MonitorInv'
    BY <1>Announce, TaskFacts, LaunchAssumption, NoneAssumption DEF Announce, Goto,
       At, tables, locks, told, MonitorInv, TypeOK, Active
<1>StopUnknown. ASSUME NEW l \in Launches, StopUnknown(l)
     PROVE  MonitorInv'
    BY <1>StopUnknown, TaskFacts, LaunchAssumption, NoneAssumption DEF StopUnknown,
       Goto, At, tables, locks, told, MonitorInv, TypeOK, Active
<1>Stop. ASSUME NEW l \in Launches, Stop(l)
     PROVE  MonitorInv'
    BY <1>Stop, TaskFacts, LaunchAssumption, NoneAssumption DEF Stop, Goto, At,
       tables, locks, told, MonitorInv, TypeOK, Active
<1>StopFails. ASSUME NEW l \in Launches, StopFails(l)
     PROVE  MonitorInv'
    BY <1>StopFails, TaskFacts, LaunchAssumption, NoneAssumption DEF StopFails, Fault,
       Goto, At, tables, locks, told, MonitorInv, TypeOK, Active
<1>Stopped. ASSUME NEW l \in Launches, Stopped(l)
     PROVE  MonitorInv'
    BY <1>Stopped, TaskFacts, LaunchAssumption, NoneAssumption DEF Stopped, Goto, At,
       tables, locks, told, MonitorInv, TypeOK, Active
<1>WaitFails. ASSUME NEW l \in Launches, WaitFails(l)
     PROVE  MonitorInv'
    BY <1>WaitFails, TaskFacts, LaunchAssumption, NoneAssumption DEF WaitFails, Fault,
       Goto, At, tables, locks, told, MonitorInv, TypeOK, Active
<1>RememberStopped. ASSUME NEW l \in Launches, RememberStopped(l)
     PROVE  MonitorInv'
    BY <1>RememberStopped, TaskFacts, LaunchAssumption, NoneAssumption DEF
       RememberStopped, Keep, Store, Goto, At, tables, locks, told, MonitorInv,
       TypeOK, Active
<1>ReportStopped. ASSUME NEW l \in Launches, ReportStopped(l)
     PROVE  MonitorInv'
    BY <1>ReportStopped, TaskFacts, LaunchAssumption, NoneAssumption DEF
       ReportStopped, Goto, At, tables, locks, told, MonitorInv, TypeOK, Active
<1>List. ASSUME List
     PROVE  MonitorInv'
    BY <1>List, TaskFacts, LaunchAssumption, NoneAssumption DEF List, Collect,
       EndedLaunches, Keep, Store, CollectFails, CannotCollect, Fault, Goto, At,
       tables, locks, told, MonitorInv, TypeOK, Active
<1>stutter. CASE UNCHANGED vars
    BY <1>stutter DEF vars, Goto, At, tables, locks, told, MonitorInv, TypeOK, Active
<1> QED
    BY <1>Request, <1>CleanBeforeReserve, <1>Claim, <1>Refuse, <1>Reserve, <1>Tell,
       <1>TransitionPending, <1>PrepareFails, <1>CleanBeforeLaunch, <1>Precheck,
       <1>CleanBeforeSpawn, <1>Boundary, <1>Cross, <1>CrossFails, <1>AttachFails,
       <1>Reap, <1>FailPending, <1>RememberFailed, <1>Exit, <1>Poll, <1>PollFails,
       <1>Misses, <1>Judge, <1>AskToStop, <1>LookUp, <1>Announce, <1>StopUnknown,
       <1>Stop, <1>StopFails, <1>Stopped, <1>WaitFails, <1>RememberStopped,
       <1>ReportStopped, <1>List, <1>stutter DEF Next, Start, Watch, Halt

\* Before it reserves, and when it is refused, a starting command leaves pending as it was.
LEMMA StarterWaits ==
    ASSUME TypeOK, StarterInv, NEW l \in Launches,
           NEW step \in {"reserve", "reserve-keep", "claim", "done"},
           pc[Starter(l)] \in {"idle", "reserve", "reserve-keep", "claim", "reserving"},
           Goto(Starter(l), step), pending' = pending, seen' = seen,
           pendingLock' = IF At(Starter(l), "reserving") THEN None ELSE pendingLock
    PROVE  StarterInv'
<1>1. /\ pc'[Starter(l)] = step
      /\ \A x \in Launches : x # l => pc'[Starter(x)] = pc[Starter(x)]
    BY TaskFacts DEF Goto, TypeOK
<1>2. ~Reserving(l) /\ ~Reserving(l)'
    BY <1>1 DEF Reserving, Prepares, Preparing, At
<1>3. \A x \in Launches : x \in pending' <=> Reserving(x)'
    BY <1>1, <1>2 DEF StarterInv, Reserving, At
<1>4. \A x \in Launches : x # l /\ pc[Starter(x)] \in {"reserving", "cross", "reap"}
                        => pendingLock' = Starter(x)
    BY TaskFacts DEF StarterInv, At
<1>5. \A x \in Launches :
          pc'[Starter(x)] \in {"reserving", "cross", "reap"} => pendingLock' = Starter(x)
    BY <1>1, <1>4
<1>6. \A x \in Launches :
          At(Starter(x), "reserving")' => ~IsPending(ProfileOf[x])'
    BY <1>1 DEF StarterInv, IsPending, At
<1>7. \A x \in Launches :
          /\ At(Starter(x), "tell")' => seen'[Starter(x)] \in Preparing \cup {"running", "failed"}
          /\ At(Starter(x), "remember")' => seen'[Starter(x)] = "failed"
    BY <1>1 DEF StarterInv, At
<1> QED
    BY <1>3, <1>5, <1>6, <1>7 DEF StarterInv

\* Only the starting command itself moves its launch into or out of pending.
LEMMA StarterPreserved ==
    ASSUME TypeOK, TypeOK', StarterInv, [Next]_vars
    PROVE  StarterInv'
<1>Request. ASSUME NEW l \in Launches, Request(l)
     PROVE  StarterInv'
    BY <1>Request, StarterWaits DEF Request, At, tables, locks
<1>CleanBeforeReserve. ASSUME NEW l \in Launches, CleanBeforeReserve(l)
     PROVE  StarterInv'
  <2>1. CASE Collect(Starter(l), "reserve", "reserve-keep", "claim")
    BY <2>1, StarterWaits DEF Collect, At, locks
  <2>2. CASE Keep(Starter(l), "reserve-keep", "claim")
    BY <2>2, StarterWaits DEF Keep, At, locks
  <2>3. CASE CollectFails(Starter(l), "reserve", "done")
    BY <2>3, StarterWaits DEF CollectFails, CannotCollect, At, tables, locks
  <2> QED
    BY <1>CleanBeforeReserve, <2>1, <2>2, <2>3 DEF CleanBeforeReserve
<1>Claim. ASSUME NEW l \in Launches, Claim(l)
     PROVE  StarterInv'
  <2>1. CASE IsPending(ProfileOf[l])
    BY <1>Claim, <2>1, StarterWaits DEF Claim, At, tables
  <2>2. CASE ~(IsPending(ProfileOf[l]))
    <3>1. /\ At(Starter(l), "claim") /\ pendingLock = None /\ pendingLock' = Starter(l)
          /\ pc'[Starter(l)] = "reserving" /\ pending' = pending /\ seen' = seen
          /\ \A x \in Launches : x # l => pc'[Starter(x)] = pc[Starter(x)]
      BY <1>Claim, <2>2, TaskFacts DEF Claim, Goto, TypeOK, tables
    <3>2. ~Reserving(l) /\ ~Reserving(l)'
      BY <3>1 DEF Reserving, Prepares, Preparing, At
    <3>3. \A x \in Launches : x \in pending' <=> Reserving(x)'
      BY <3>1, <3>2 DEF StarterInv, Reserving, At
    <3>4. \A x \in Launches : x # l =>
              pc[Starter(x)] \notin {"reserving", "cross", "reap"}
      BY <3>1, TaskFacts, NoneAssumption DEF StarterInv
    <3>5. \A x \in Launches :
              pc'[Starter(x)] \in {"reserving", "cross", "reap"} => pendingLock' = Starter(x)
      BY <3>1, <3>4
    <3>6. \A x \in Launches :
              At(Starter(x), "reserving")' => ~IsPending(ProfileOf[x])'
      BY <2>2, <3>1 DEF StarterInv, IsPending, At
    <3>7. \A x \in Launches :
              /\ At(Starter(x), "tell")' => seen'[Starter(x)] \in Preparing \cup {"running", "failed"}
              /\ At(Starter(x), "remember")' => seen'[Starter(x)] = "failed"
      BY <3>1 DEF StarterInv, At
    <3> QED
      BY <3>3, <3>5, <3>6, <3>7 DEF StarterInv
  <2> QED
    BY <2>1, <2>2
<1>Refuse. ASSUME NEW l \in Launches, Refuse(l)
     PROVE  StarterInv'
    BY <1>Refuse, StarterWaits DEF Refuse, At, tables
<1>Reserve. ASSUME NEW l \in Launches, Reserve(l)
     PROVE  StarterInv'
  <2>1. /\ At(Starter(l), "reserving") /\ pc'[Starter(l)] = "tell"
        /\ seen'[Starter(l)] = "preparing" /\ pending' = pending \cup {l}
        /\ \A x \in Launches : x # l => /\ pc'[Starter(x)] = pc[Starter(x)]
                                      /\ seen'[Starter(x)] = seen[Starter(x)]
    BY <1>Reserve, TaskFacts DEF Reserve, Goto, TypeOK
  <2>2. Reserving(l)'
    BY <2>1 DEF Reserving, Preparing, At
  <2>3. \A x \in Launches : x \in pending' <=> Reserving(x)'
    BY <2>1, <2>2 DEF StarterInv, Reserving, At
  <2>4. \A x \in Launches : pc'[Starter(x)] \notin {"reserving", "cross", "reap"}
    BY <2>1, TaskFacts DEF StarterInv, At
  <2>5. \A x \in Launches :
            /\ At(Starter(x), "tell")' => seen'[Starter(x)] \in Preparing \cup {"running", "failed"}
            /\ At(Starter(x), "remember")' => seen'[Starter(x)] = "failed"
    BY <2>1 DEF StarterInv, Preparing, At
  <2> QED
    BY <2>3, <2>4, <2>5 DEF StarterInv, At
<1>Tell. ASSUME NEW l \in Launches, Tell(l)
     PROVE  StarterInv'
  <2>1. CASE seen[Starter(l)] = "running"
    BY <1>Tell, <2>1, TaskFacts, LaunchAssumption, NoneAssumption DEF Tell, Goto, At,
       tables, locks, told, StarterInv, Reserving, TypeOK, Prepares, Preparing,
       IsPending, IsRunning, Active
  <2>2. CASE seen[Starter(l)] = "failed"
    BY <1>Tell, <2>2, TaskFacts, LaunchAssumption, NoneAssumption DEF Tell, Goto, At,
       tables, locks, told, StarterInv, Reserving, TypeOK, Prepares, Preparing,
       IsPending, IsRunning, Active
  <2>3. CASE seen[Starter(l)] = "starting"
    BY <1>Tell, <2>3, TaskFacts, LaunchAssumption, NoneAssumption DEF Tell, Goto, At,
       tables, locks, told, StarterInv, Reserving, TypeOK, Prepares, Preparing,
       IsPending, IsRunning, Active
  <2>4. CASE seen[Starter(l)] \in Preparing /\ seen[Starter(l)] # "starting"
    BY <1>Tell, <2>4, TaskFacts, LaunchAssumption, NoneAssumption DEF Tell, Goto, At,
       tables, locks, told, StarterInv, Reserving, TypeOK, Prepares, Preparing,
       IsPending, IsRunning, Active
  <2> QED
    BY <1>Tell, <2>1, <2>2, <2>3, <2>4, TaskFacts, LaunchAssumption, NoneAssumption
       DEF Tell, At, StarterInv
<1>TransitionPending. ASSUME NEW l \in Launches, TransitionPending(l)
     PROVE  StarterInv'
    BY <1>TransitionPending, TaskFacts, LaunchAssumption, NoneAssumption DEF
       TransitionPending, Following, Goto, At, tables, locks, told, StarterInv,
       Reserving, TypeOK, Prepares, Preparing, IsPending, IsRunning, Active
<1>PrepareFails. ASSUME NEW l \in Launches, PrepareFails(l)
     PROVE  StarterInv'
    BY <1>PrepareFails, TaskFacts, LaunchAssumption, NoneAssumption DEF PrepareFails,
       Goto, At, tables, locks, told, StarterInv, Reserving, TypeOK, Prepares,
       Preparing, IsPending, IsRunning, Active
<1>CleanBeforeLaunch. ASSUME NEW l \in Launches, CleanBeforeLaunch(l)
     PROVE  StarterInv'
    BY <1>CleanBeforeLaunch, TaskFacts, LaunchAssumption, NoneAssumption DEF
       CleanBeforeLaunch, Collect, EndedLaunches, Keep, Store, CollectFails,
       CannotCollect, Fault, Goto, At, tables, locks, told, StarterInv, Reserving,
       TypeOK, Prepares, Preparing, IsPending, IsRunning, Active
<1>Precheck. ASSUME NEW l \in Launches, Precheck(l)
     PROVE  StarterInv'
    BY <1>Precheck, TaskFacts, LaunchAssumption, NoneAssumption DEF Precheck, Goto,
       At, tables, locks, told, StarterInv, Reserving, TypeOK, Prepares, Preparing,
       IsPending, IsRunning, Active
<1>CleanBeforeSpawn. ASSUME NEW l \in Launches, CleanBeforeSpawn(l)
     PROVE  StarterInv'
    BY <1>CleanBeforeSpawn, TaskFacts, LaunchAssumption, NoneAssumption DEF
       CleanBeforeSpawn, Collect, EndedLaunches, Keep, Store, CollectFails,
       CannotCollect, Fault, Goto, At, tables, locks, told, StarterInv, Reserving,
       TypeOK, Prepares, Preparing, IsPending, IsRunning, Active
<1>Boundary. ASSUME NEW l \in Launches, Boundary(l)
     PROVE  StarterInv'
  <2>1. CASE l \in pending
    BY <1>Boundary, <2>1, TaskFacts, LaunchAssumption, NoneAssumption DEF Boundary,
       Goto, At, tables, locks, told, StarterInv, Reserving, TypeOK, Prepares,
       Preparing, IsPending, IsRunning, Active
  <2>2. CASE ~(l \in pending)
    BY <1>Boundary, <2>2, TaskFacts, LaunchAssumption, NoneAssumption DEF Boundary,
       Goto, At, tables, locks, told, StarterInv, Reserving, TypeOK, Prepares,
       Preparing, IsPending, IsRunning, Active
  <2> QED
    BY <2>1, <2>2
<1>Cross. ASSUME NEW l \in Launches, Cross(l)
     PROVE  StarterInv'
    BY <1>Cross, TaskFacts, LaunchAssumption, NoneAssumption DEF Cross, Goto, At,
       tables, locks, told, StarterInv, Reserving, TypeOK, Prepares, Preparing,
       IsPending, IsRunning, Active
<1>CrossFails. ASSUME NEW l \in Launches, CrossFails(l)
     PROVE  StarterInv'
    BY <1>CrossFails, TaskFacts, LaunchAssumption, NoneAssumption DEF CrossFails,
       Goto, At, tables, locks, told, StarterInv, Reserving, TypeOK, Prepares,
       Preparing, IsPending, IsRunning, Active
<1>AttachFails. ASSUME NEW l \in Launches, AttachFails(l)
     PROVE  StarterInv'
    BY <1>AttachFails, TaskFacts, LaunchAssumption, NoneAssumption DEF AttachFails,
       Fault, Goto, At, tables, locks, told, StarterInv, Reserving, TypeOK, Prepares,
       Preparing, IsPending, IsRunning, Active
<1>Reap. ASSUME NEW l \in Launches, Reap(l)
     PROVE  StarterInv'
    BY <1>Reap, TaskFacts, LaunchAssumption, NoneAssumption DEF Reap, Goto, At,
       tables, locks, told, StarterInv, Reserving, TypeOK, Prepares, Preparing,
       IsPending, IsRunning, Active
<1>FailPending. ASSUME NEW l \in Launches, FailPending(l)
     PROVE  StarterInv'
    BY <1>FailPending, TaskFacts, LaunchAssumption, NoneAssumption DEF FailPending,
       Goto, At, tables, locks, told, StarterInv, Reserving, TypeOK, Prepares,
       Preparing, IsPending, IsRunning, Active
<1>RememberFailed. ASSUME NEW l \in Launches, RememberFailed(l)
     PROVE  StarterInv'
  <2>1. /\ pending' = pending /\ pendingLock' = pendingLock /\ seen' = seen
        /\ At(Starter(l), "remember") /\ pc' = [pc EXCEPT ![Starter(l)] = "tell"]
    BY <1>RememberFailed DEF RememberFailed, Keep, Goto, locks
  <2>2. pc'[Starter(l)] = "tell" /\ \A x \in Launches : x # l => pc'[Starter(x)] = pc[Starter(x)]
    BY <2>1, TaskFacts DEF TypeOK
  <2>3. seen[Starter(l)] = "failed" /\ l \notin pending
    BY <2>1 DEF StarterInv, Reserving, At, Prepares
  <2> QED
    BY <2>1, <2>2, <2>3, TaskFacts DEF StarterInv, Reserving, At, Prepares, Preparing, IsPending
<1>Exit. ASSUME NEW l \in Launches, Exit(l)
     PROVE  StarterInv'
    BY <1>Exit, TaskFacts, LaunchAssumption, NoneAssumption DEF Exit, Goto, At,
       tables, locks, told, StarterInv, Reserving, TypeOK, Prepares, Preparing,
       IsPending, IsRunning, Active
<1>Poll. ASSUME NEW l \in Launches, Poll(l)
     PROVE  StarterInv'
    BY <1>Poll, TaskFacts, LaunchAssumption, NoneAssumption DEF Poll, Statuses,
       Collect, EndedLaunches, Keep, Store, ReadActive, ReadFinished, Goto, At,
       tables, locks, told, StarterInv, Reserving, TypeOK, Prepares, Preparing,
       IsPending, IsRunning, Active
<1>PollFails. ASSUME NEW l \in Launches, PollFails(l)
     PROVE  StarterInv'
    BY <1>PollFails, TaskFacts, LaunchAssumption, NoneAssumption DEF PollFails,
       CannotCollect, Fault, Goto, At, tables, locks, told, StarterInv, Reserving,
       TypeOK, Prepares, Preparing, IsPending, IsRunning, Active
<1>Misses. ASSUME NEW l \in Launches, Misses(l)
     PROVE  StarterInv'
    BY <1>Misses, TaskFacts, LaunchAssumption, NoneAssumption DEF Misses, Goto, At,
       tables, locks, told, StarterInv, Reserving, TypeOK, Prepares, Preparing,
       IsPending, IsRunning, Active
<1>Judge. ASSUME NEW l \in Launches, Judge(l)
     PROVE  StarterInv'
    BY <1>Judge, TaskFacts, LaunchAssumption, NoneAssumption DEF Judge, Goto, At,
       tables, locks, told, StarterInv, Reserving, TypeOK, Prepares, Preparing,
       IsPending, IsRunning, Active
<1>AskToStop. ASSUME NEW l \in Launches, AskToStop(l)
     PROVE  StarterInv'
    BY <1>AskToStop, TaskFacts, LaunchAssumption, NoneAssumption DEF AskToStop, Goto,
       At, tables, locks, told, StarterInv, Reserving, TypeOK, Prepares, Preparing,
       IsPending, IsRunning, Active
<1>LookUp. ASSUME NEW l \in Launches, LookUp(l)
     PROVE  StarterInv'
    BY <1>LookUp, TaskFacts, LaunchAssumption, NoneAssumption DEF LookUp, Statuses,
       Collect, EndedLaunches, Keep, Store, ReadActive, ReadFinished, CollectFails,
       CannotCollect, Fault, Goto, At, tables, locks, told, StarterInv, Reserving,
       TypeOK, Prepares, Preparing, IsPending, IsRunning, Active
<1>Announce. ASSUME NEW l \in Launches, Announce(l)
     PROVE  StarterInv'
    BY <1>Announce, TaskFacts, LaunchAssumption, NoneAssumption DEF Announce, Goto,
       At, tables, locks, told, StarterInv, Reserving, TypeOK, Prepares, Preparing,
       IsPending, IsRunning, Active
<1>StopUnknown. ASSUME NEW l \in Launches, StopUnknown(l)
     PROVE  StarterInv'
    BY <1>StopUnknown, TaskFacts, LaunchAssumption, NoneAssumption DEF StopUnknown,
       Goto, At, tables, locks, told, StarterInv, Reserving, TypeOK, Prepares,
       Preparing, IsPending, IsRunning, Active
<1>Stop. ASSUME NEW l \in Launches, Stop(l)
     PROVE  StarterInv'
    BY <1>Stop, TaskFacts, LaunchAssumption, NoneAssumption DEF Stop, Goto, At,
       tables, locks, told, StarterInv, Reserving, TypeOK, Prepares, Preparing,
       IsPending, IsRunning, Active
<1>StopFails. ASSUME NEW l \in Launches, StopFails(l)
     PROVE  StarterInv'
    BY <1>StopFails, TaskFacts, LaunchAssumption, NoneAssumption DEF StopFails, Fault,
       Goto, At, tables, locks, told, StarterInv, Reserving, TypeOK, Prepares,
       Preparing, IsPending, IsRunning, Active
<1>Stopped. ASSUME NEW l \in Launches, Stopped(l)
     PROVE  StarterInv'
    BY <1>Stopped, TaskFacts, LaunchAssumption, NoneAssumption DEF Stopped, Goto, At,
       tables, locks, told, StarterInv, Reserving, TypeOK, Prepares, Preparing,
       IsPending, IsRunning, Active
<1>WaitFails. ASSUME NEW l \in Launches, WaitFails(l)
     PROVE  StarterInv'
    BY <1>WaitFails, TaskFacts, LaunchAssumption, NoneAssumption DEF WaitFails, Fault,
       Goto, At, tables, locks, told, StarterInv, Reserving, TypeOK, Prepares,
       Preparing, IsPending, IsRunning, Active
<1>RememberStopped. ASSUME NEW l \in Launches, RememberStopped(l)
     PROVE  StarterInv'
    BY <1>RememberStopped, TaskFacts, LaunchAssumption, NoneAssumption DEF
       RememberStopped, Keep, Store, Goto, At, tables, locks, told, StarterInv,
       Reserving, TypeOK, Prepares, Preparing, IsPending, IsRunning, Active
<1>ReportStopped. ASSUME NEW l \in Launches, ReportStopped(l)
     PROVE  StarterInv'
    BY <1>ReportStopped, TaskFacts, LaunchAssumption, NoneAssumption DEF
       ReportStopped, Goto, At, tables, locks, told, StarterInv, Reserving, TypeOK,
       Prepares, Preparing, IsPending, IsRunning, Active
<1>List. ASSUME List
     PROVE  StarterInv'
    BY <1>List, TaskFacts, LaunchAssumption, NoneAssumption DEF List, Collect,
       EndedLaunches, Keep, Store, CollectFails, CannotCollect, Fault, Goto, At,
       tables, locks, told, StarterInv, Reserving, TypeOK, Prepares, Preparing,
       IsPending, IsRunning, Active
<1>stutter. CASE UNCHANGED vars
    BY <1>stutter DEF vars, Goto, At, tables, locks, told, StarterInv, Reserving,
       TypeOK, Prepares, Preparing, IsPending, IsRunning, Active
<1> QED
    BY <1>Request, <1>CleanBeforeReserve, <1>Claim, <1>Refuse, <1>Reserve, <1>Tell,
       <1>TransitionPending, <1>PrepareFails, <1>CleanBeforeLaunch, <1>Precheck,
       <1>CleanBeforeSpawn, <1>Boundary, <1>Cross, <1>CrossFails, <1>AttachFails,
       <1>Reap, <1>FailPending, <1>RememberFailed, <1>Exit, <1>Poll, <1>PollFails,
       <1>Misses, <1>Judge, <1>AskToStop, <1>LookUp, <1>Announce, <1>StopUnknown,
       <1>Stop, <1>StopFails, <1>Stopped, <1>WaitFails, <1>RememberStopped,
       <1>ReportStopped, <1>List, <1>stutter DEF Next, Start, Watch, Halt

\* The mutex of running is held across two waits only.
LEMMA LockPreserved ==
    ASSUME TypeOK, TypeOK', LockInv, [Next]_vars
    PROVE  LockInv'
<1>Request. ASSUME NEW l \in Launches, Request(l)
     PROVE  LockInv'
    BY <1>Request, TaskFacts, LaunchAssumption, NoneAssumption DEF Request, Goto, At,
       tables, locks, told, LockInv, HolderInv, LockNeverAwaitsGame, TypeOK, Ended,
       Active
<1>CleanBeforeReserve. ASSUME NEW l \in Launches, CleanBeforeReserve(l)
     PROVE  LockInv'
    BY <1>CleanBeforeReserve, TaskFacts, LaunchAssumption, NoneAssumption DEF
       CleanBeforeReserve, Collect, EndedLaunches, Keep, Store, CollectFails,
       CannotCollect, Fault, Goto, At, tables, locks, told, LockInv, HolderInv,
       LockNeverAwaitsGame, TypeOK, Ended, Active
<1>Claim. ASSUME NEW l \in Launches, Claim(l)
     PROVE  LockInv'
    BY <1>Claim, TaskFacts, LaunchAssumption, NoneAssumption DEF Claim, Goto, At,
       tables, locks, told, LockInv, HolderInv, LockNeverAwaitsGame, TypeOK, Ended,
       Active
<1>Refuse. ASSUME NEW l \in Launches, Refuse(l)
     PROVE  LockInv'
    BY <1>Refuse, TaskFacts, LaunchAssumption, NoneAssumption DEF Refuse, Goto, At,
       tables, locks, told, LockInv, HolderInv, LockNeverAwaitsGame, TypeOK, Ended,
       Active
<1>Reserve. ASSUME NEW l \in Launches, Reserve(l)
     PROVE  LockInv'
    BY <1>Reserve, TaskFacts, LaunchAssumption, NoneAssumption DEF Reserve, Goto, At,
       tables, locks, told, LockInv, HolderInv, LockNeverAwaitsGame, TypeOK, Ended,
       Active
<1>Tell. ASSUME NEW l \in Launches, Tell(l)
     PROVE  LockInv'
    BY <1>Tell, TaskFacts, LaunchAssumption, NoneAssumption DEF Tell, Goto, At,
       tables, locks, told, LockInv, HolderInv, LockNeverAwaitsGame, TypeOK, Ended,
       Active
<1>TransitionPending. ASSUME NEW l \in Launches, TransitionPending(l)
     PROVE  LockInv'
    BY <1>TransitionPending, TaskFacts, LaunchAssumption, NoneAssumption DEF
       TransitionPending, Following, Goto, At, tables, locks, told, LockInv,
       HolderInv, LockNeverAwaitsGame, TypeOK, Ended, Active
<1>PrepareFails. ASSUME NEW l \in Launches, PrepareFails(l)
     PROVE  LockInv'
    BY <1>PrepareFails, TaskFacts, LaunchAssumption, NoneAssumption DEF PrepareFails,
       Goto, At, tables, locks, told, LockInv, HolderInv, LockNeverAwaitsGame, TypeOK,
       Ended, Active
<1>CleanBeforeLaunch. ASSUME NEW l \in Launches, CleanBeforeLaunch(l)
     PROVE  LockInv'
    BY <1>CleanBeforeLaunch, TaskFacts, LaunchAssumption, NoneAssumption DEF
       CleanBeforeLaunch, Collect, EndedLaunches, Keep, Store, CollectFails,
       CannotCollect, Fault, Goto, At, tables, locks, told, LockInv, HolderInv,
       LockNeverAwaitsGame, TypeOK, Ended, Active
<1>Precheck. ASSUME NEW l \in Launches, Precheck(l)
     PROVE  LockInv'
    BY <1>Precheck, TaskFacts, LaunchAssumption, NoneAssumption DEF Precheck, Goto,
       At, tables, locks, told, LockInv, HolderInv, LockNeverAwaitsGame, TypeOK,
       Ended, Active
<1>CleanBeforeSpawn. ASSUME NEW l \in Launches, CleanBeforeSpawn(l)
     PROVE  LockInv'
    BY <1>CleanBeforeSpawn, TaskFacts, LaunchAssumption, NoneAssumption DEF
       CleanBeforeSpawn, Collect, EndedLaunches, Keep, Store, CollectFails,
       CannotCollect, Fault, Goto, At, tables, locks, told, LockInv, HolderInv,
       LockNeverAwaitsGame, TypeOK, Ended, Active
<1>Boundary. ASSUME NEW l \in Launches, Boundary(l)
     PROVE  LockInv'
    BY <1>Boundary, TaskFacts, LaunchAssumption, NoneAssumption DEF Boundary, Goto,
       At, tables, locks, told, LockInv, HolderInv, LockNeverAwaitsGame, TypeOK,
       Ended, Active
<1>Cross. ASSUME NEW l \in Launches, Cross(l)
     PROVE  LockInv'
    BY <1>Cross, TaskFacts, LaunchAssumption, NoneAssumption DEF Cross, Goto, At,
       tables, locks, told, LockInv, HolderInv, LockNeverAwaitsGame, TypeOK, Ended,
       Active
<1>CrossFails. ASSUME NEW l \in Launches, CrossFails(l)
     PROVE  LockInv'
    BY <1>CrossFails, TaskFacts, LaunchAssumption, NoneAssumption DEF CrossFails,
       Goto, At, tables, locks, told, LockInv, HolderInv, LockNeverAwaitsGame, TypeOK,
       Ended, Active
<1>AttachFails. ASSUME NEW l \in Launches, AttachFails(l)
     PROVE  LockInv'
    BY <1>AttachFails, TaskFacts, LaunchAssumption, NoneAssumption DEF AttachFails,
       Fault, Goto, At, tables, locks, told, LockInv, HolderInv, LockNeverAwaitsGame,
       TypeOK, Ended, Active
<1>Reap. ASSUME NEW l \in Launches, Reap(l)
     PROVE  LockInv'
    BY <1>Reap, TaskFacts, LaunchAssumption, NoneAssumption DEF Reap, Goto, At,
       tables, locks, told, LockInv, HolderInv, LockNeverAwaitsGame, TypeOK, Ended,
       Active
<1>FailPending. ASSUME NEW l \in Launches, FailPending(l)
     PROVE  LockInv'
    BY <1>FailPending, TaskFacts, LaunchAssumption, NoneAssumption DEF FailPending,
       Goto, At, tables, locks, told, LockInv, HolderInv, LockNeverAwaitsGame, TypeOK,
       Ended, Active
<1>RememberFailed. ASSUME NEW l \in Launches, RememberFailed(l)
     PROVE  LockInv'
    BY <1>RememberFailed, TaskFacts, LaunchAssumption, NoneAssumption DEF
       RememberFailed, Keep, Store, Goto, At, tables, locks, told, LockInv, HolderInv,
       LockNeverAwaitsGame, TypeOK, Ended, Active
<1>Exit. ASSUME NEW l \in Launches, Exit(l)
     PROVE  LockInv'
    BY <1>Exit, TaskFacts, LaunchAssumption, NoneAssumption DEF Exit, Goto, At,
       tables, locks, told, LockInv, HolderInv, LockNeverAwaitsGame, TypeOK, Ended,
       Active
<1>Poll. ASSUME NEW l \in Launches, Poll(l)
     PROVE  LockInv'
    BY <1>Poll, TaskFacts, LaunchAssumption, NoneAssumption DEF Poll, Statuses,
       Collect, EndedLaunches, Keep, Store, ReadActive, ReadFinished, Goto, At,
       tables, locks, told, LockInv, HolderInv, LockNeverAwaitsGame, TypeOK, Ended,
       Active
<1>PollFails. ASSUME NEW l \in Launches, PollFails(l)
     PROVE  LockInv'
    BY <1>PollFails, TaskFacts, LaunchAssumption, NoneAssumption DEF PollFails,
       CannotCollect, Fault, Goto, At, tables, locks, told, LockInv, HolderInv,
       LockNeverAwaitsGame, TypeOK, Ended, Active
<1>Misses. ASSUME NEW l \in Launches, Misses(l)
     PROVE  LockInv'
    BY <1>Misses, TaskFacts, LaunchAssumption, NoneAssumption DEF Misses, Goto, At,
       tables, locks, told, LockInv, HolderInv, LockNeverAwaitsGame, TypeOK, Ended,
       Active
<1>Judge. ASSUME NEW l \in Launches, Judge(l)
     PROVE  LockInv'
    BY <1>Judge, TaskFacts, LaunchAssumption, NoneAssumption DEF Judge, Goto, At,
       tables, locks, told, LockInv, HolderInv, LockNeverAwaitsGame, TypeOK, Ended,
       Active
<1>AskToStop. ASSUME NEW l \in Launches, AskToStop(l)
     PROVE  LockInv'
    BY <1>AskToStop, TaskFacts, LaunchAssumption, NoneAssumption DEF AskToStop, Goto,
       At, tables, locks, told, LockInv, HolderInv, LockNeverAwaitsGame, TypeOK,
       Ended, Active
<1>LookUp. ASSUME NEW l \in Launches, LookUp(l)
     PROVE  LockInv'
    BY <1>LookUp, TaskFacts, LaunchAssumption, NoneAssumption DEF LookUp, Statuses,
       Collect, EndedLaunches, Keep, Store, ReadActive, ReadFinished, CollectFails,
       CannotCollect, Fault, Goto, At, tables, locks, told, LockInv, HolderInv,
       LockNeverAwaitsGame, TypeOK, Ended, Active
<1>Announce. ASSUME NEW l \in Launches, Announce(l)
     PROVE  LockInv'
    BY <1>Announce, TaskFacts, LaunchAssumption, NoneAssumption DEF Announce, Goto,
       At, tables, locks, told, LockInv, HolderInv, LockNeverAwaitsGame, TypeOK,
       Ended, Active
<1>StopUnknown. ASSUME NEW l \in Launches, StopUnknown(l)
     PROVE  LockInv'
    BY <1>StopUnknown, TaskFacts, LaunchAssumption, NoneAssumption DEF StopUnknown,
       Goto, At, tables, locks, told, LockInv, HolderInv, LockNeverAwaitsGame, TypeOK,
       Ended, Active
<1>Stop. ASSUME NEW l \in Launches, Stop(l)
     PROVE  LockInv'
    BY <1>Stop, TaskFacts, LaunchAssumption, NoneAssumption DEF Stop, Goto, At,
       tables, locks, told, LockInv, HolderInv, LockNeverAwaitsGame, TypeOK, Ended,
       Active
<1>StopFails. ASSUME NEW l \in Launches, StopFails(l)
     PROVE  LockInv'
    BY <1>StopFails, TaskFacts, LaunchAssumption, NoneAssumption DEF StopFails, Fault,
       Goto, At, tables, locks, told, LockInv, HolderInv, LockNeverAwaitsGame, TypeOK,
       Ended, Active
<1>Stopped. ASSUME NEW l \in Launches, Stopped(l)
     PROVE  LockInv'
    BY <1>Stopped, TaskFacts, LaunchAssumption, NoneAssumption DEF Stopped, Goto, At,
       tables, locks, told, LockInv, HolderInv, LockNeverAwaitsGame, TypeOK, Ended,
       Active
<1>WaitFails. ASSUME NEW l \in Launches, WaitFails(l)
     PROVE  LockInv'
    BY <1>WaitFails, TaskFacts, LaunchAssumption, NoneAssumption DEF WaitFails, Fault,
       Goto, At, tables, locks, told, LockInv, HolderInv, LockNeverAwaitsGame, TypeOK,
       Ended, Active
<1>RememberStopped. ASSUME NEW l \in Launches, RememberStopped(l)
     PROVE  LockInv'
    BY <1>RememberStopped, TaskFacts, LaunchAssumption, NoneAssumption DEF
       RememberStopped, Keep, Store, Goto, At, tables, locks, told, LockInv,
       HolderInv, LockNeverAwaitsGame, TypeOK, Ended, Active
<1>ReportStopped. ASSUME NEW l \in Launches, ReportStopped(l)
     PROVE  LockInv'
    BY <1>ReportStopped, TaskFacts, LaunchAssumption, NoneAssumption DEF
       ReportStopped, Goto, At, tables, locks, told, LockInv, HolderInv,
       LockNeverAwaitsGame, TypeOK, Ended, Active
<1>List. ASSUME List
     PROVE  LockInv'
    BY <1>List, TaskFacts, LaunchAssumption, NoneAssumption DEF List, Collect,
       EndedLaunches, Keep, Store, CollectFails, CannotCollect, Fault, Goto, At,
       tables, locks, told, LockInv, HolderInv, LockNeverAwaitsGame, TypeOK, Ended,
       Active
<1>stutter. CASE UNCHANGED vars
    BY <1>stutter DEF vars, Goto, At, tables, locks, told, LockInv, HolderInv,
       LockNeverAwaitsGame, TypeOK, Ended, Active
<1> QED
    BY <1>Request, <1>CleanBeforeReserve, <1>Claim, <1>Refuse, <1>Reserve, <1>Tell,
       <1>TransitionPending, <1>PrepareFails, <1>CleanBeforeLaunch, <1>Precheck,
       <1>CleanBeforeSpawn, <1>Boundary, <1>Cross, <1>CrossFails, <1>AttachFails,
       <1>Reap, <1>FailPending, <1>RememberFailed, <1>Exit, <1>Poll, <1>PollFails,
       <1>Misses, <1>Judge, <1>AskToStop, <1>LookUp, <1>Announce, <1>StopUnknown,
       <1>Stop, <1>StopFails, <1>Stopped, <1>WaitFails, <1>RememberStopped,
       <1>ReportStopped, <1>List, <1>stutter DEF Next, Start, Watch, Halt

\* A record moves from one place to exactly one other.
LEMMA RecordPreserved ==
    ASSUME TypeOK, TypeOK', StarterInv, LockInv, RecordInv, [Next]_vars
    PROVE  RecordInv'
<1>Request. ASSUME NEW l \in Launches, Request(l)
     PROVE  RecordInv'
    BY <1>Request, TaskFacts, LaunchAssumption, NoneAssumption DEF Request, Goto, At,
       tables, locks, told, RecordInv, FreshInv, Nowhere, OneRecord, StarterInv,
       Reserving, LockInv, HolderInv, TypeOK, Early, Prepares, Preparing, Active
<1>CleanBeforeReserve. ASSUME NEW l \in Launches, CleanBeforeReserve(l)
     PROVE  RecordInv'
  <2>1. CASE Collect(Starter(l), "reserve", "reserve-keep", "claim")
    <3>1. \A x \in Launches : pc'[Starter(x)] \in Early => pc[Starter(x)] \in Early
      BY <2>1, TaskFacts DEF Collect, Goto, At, Early, TypeOK
    <3> QED
      BY <2>1, <3>1, CollectMoves, TaskFacts DEF RecordInv, FreshInv
  <2>2. CASE Keep(Starter(l), "reserve-keep", "claim")
    <3>1. \A x \in Launches : pc'[Starter(x)] \in Early => pc[Starter(x)] \in Early
      BY <2>2, TaskFacts DEF Keep, Goto, At, Early, TypeOK
    <3> QED
      BY <2>2, <3>1, KeepMoves, TaskFacts DEF RecordInv, FreshInv
  <2>3. CASE CollectFails(Starter(l), "reserve", "done")
    BY <2>3, TaskFacts, LaunchAssumption, NoneAssumption DEF CollectFails,
       CannotCollect, Fault, Goto, At, tables, locks, told, RecordInv, FreshInv,
       Nowhere, OneRecord, StarterInv, Reserving, LockInv, HolderInv, TypeOK, Early,
       Prepares, Preparing, Active
  <2> QED
    BY <1>CleanBeforeReserve, <2>1, <2>2, <2>3 DEF CleanBeforeReserve
<1>Claim. ASSUME NEW l \in Launches, Claim(l)
     PROVE  RecordInv'
    BY <1>Claim, TaskFacts, LaunchAssumption, NoneAssumption DEF Claim, Goto, At,
       tables, locks, told, RecordInv, FreshInv, Nowhere, OneRecord, StarterInv,
       Reserving, LockInv, HolderInv, TypeOK, Early, Prepares, Preparing, Active
<1>Refuse. ASSUME NEW l \in Launches, Refuse(l)
     PROVE  RecordInv'
    BY <1>Refuse, TaskFacts, LaunchAssumption, NoneAssumption DEF Refuse, Goto, At,
       tables, locks, told, RecordInv, FreshInv, Nowhere, OneRecord, StarterInv,
       Reserving, LockInv, HolderInv, TypeOK, Early, Prepares, Preparing, Active
<1>Reserve. ASSUME NEW l \in Launches, Reserve(l)
     PROVE  RecordInv'
    BY <1>Reserve, TaskFacts, LaunchAssumption, NoneAssumption DEF Reserve, Goto, At,
       tables, locks, told, RecordInv, FreshInv, Nowhere, OneRecord, StarterInv,
       Reserving, LockInv, HolderInv, TypeOK, Early, Prepares, Preparing, Active
<1>Tell. ASSUME NEW l \in Launches, Tell(l)
     PROVE  RecordInv'
  <2>1. pending' = pending /\ running' = running /\ finished' = finished /\ carry' = carry
    BY <1>Tell DEF Tell, tables
  <2>2. CASE seen[Starter(l)] = "running"
    <3>1. pc' = [pc EXCEPT ![Starter(l)] = "done", ![Monitor(l)] = "collect"]
      BY <1>Tell, <2>2 DEF Tell
    <3>2. \A x \in Launches : pc'[Starter(x)] \in Early => pc[Starter(x)] \in Early
      BY <3>1, TaskFacts DEF Early, TypeOK
    <3> QED
      BY <2>1, <3>2 DEF RecordInv, FreshInv, Nowhere, OneRecord, Active
  <2>3. CASE seen[Starter(l)] # "running"
    <3>1. PICK s \in {"launch", "done", "prepare"} : pc' = [pc EXCEPT ![Starter(l)] = s]
      BY <1>Tell, <2>3 DEF Tell, Goto
    <3>2. \A x \in Launches : pc'[Starter(x)] \in Early => pc[Starter(x)] \in Early
      BY <3>1, TaskFacts DEF Early, TypeOK
    <3> QED
      BY <2>1, <3>2 DEF RecordInv, FreshInv, Nowhere, OneRecord, Active
  <2> QED
    BY <2>2, <2>3
<1>TransitionPending. ASSUME NEW l \in Launches, TransitionPending(l)
     PROVE  RecordInv'
    BY <1>TransitionPending, TaskFacts, LaunchAssumption, NoneAssumption DEF
       TransitionPending, Following, Goto, At, tables, locks, told, RecordInv,
       FreshInv, Nowhere, OneRecord, StarterInv, Reserving, LockInv, HolderInv,
       TypeOK, Early, Prepares, Preparing, Active
<1>PrepareFails. ASSUME NEW l \in Launches, PrepareFails(l)
     PROVE  RecordInv'
    BY <1>PrepareFails, TaskFacts, LaunchAssumption, NoneAssumption DEF PrepareFails,
       Goto, At, tables, locks, told, RecordInv, FreshInv, Nowhere, OneRecord,
       StarterInv, Reserving, LockInv, HolderInv, TypeOK, Early, Prepares, Preparing,
       Active
<1>CleanBeforeLaunch. ASSUME NEW l \in Launches, CleanBeforeLaunch(l)
     PROVE  RecordInv'
  <2>1. CASE Collect(Starter(l), "launch", "launch-keep", "precheck")
    <3>1. \A x \in Launches : pc'[Starter(x)] \in Early => pc[Starter(x)] \in Early
      BY <2>1, TaskFacts DEF Collect, Goto, At, Early, TypeOK
    <3> QED
      BY <2>1, <3>1, CollectMoves, TaskFacts DEF RecordInv, FreshInv
  <2>2. CASE Keep(Starter(l), "launch-keep", "precheck")
    <3>1. \A x \in Launches : pc'[Starter(x)] \in Early => pc[Starter(x)] \in Early
      BY <2>2, TaskFacts DEF Keep, Goto, At, Early, TypeOK
    <3> QED
      BY <2>2, <3>1, KeepMoves, TaskFacts DEF RecordInv, FreshInv
  <2>3. CASE CollectFails(Starter(l), "launch", "fail")
    BY <2>3, TaskFacts, LaunchAssumption, NoneAssumption DEF CollectFails,
       CannotCollect, Fault, Goto, At, tables, locks, told, RecordInv, FreshInv,
       Nowhere, OneRecord, StarterInv, Reserving, LockInv, HolderInv, TypeOK, Early,
       Prepares, Preparing, Active
  <2> QED
    BY <1>CleanBeforeLaunch, <2>1, <2>2, <2>3 DEF CleanBeforeLaunch
<1>Precheck. ASSUME NEW l \in Launches, Precheck(l)
     PROVE  RecordInv'
    BY <1>Precheck, TaskFacts, LaunchAssumption, NoneAssumption DEF Precheck, Goto,
       At, tables, locks, told, RecordInv, FreshInv, Nowhere, OneRecord, StarterInv,
       Reserving, LockInv, HolderInv, TypeOK, Early, Prepares, Preparing, Active
<1>CleanBeforeSpawn. ASSUME NEW l \in Launches, CleanBeforeSpawn(l)
     PROVE  RecordInv'
  <2>1. CASE Collect(Starter(l), "spawn", "spawn-keep", "boundary")
    <3>1. \A x \in Launches : pc'[Starter(x)] \in Early => pc[Starter(x)] \in Early
      BY <2>1, TaskFacts DEF Collect, Goto, At, Early, TypeOK
    <3> QED
      BY <2>1, <3>1, CollectMoves, TaskFacts DEF RecordInv, FreshInv
  <2>2. CASE Keep(Starter(l), "spawn-keep", "boundary")
    <3>1. \A x \in Launches : pc'[Starter(x)] \in Early => pc[Starter(x)] \in Early
      BY <2>2, TaskFacts DEF Keep, Goto, At, Early, TypeOK
    <3> QED
      BY <2>2, <3>1, KeepMoves, TaskFacts DEF RecordInv, FreshInv
  <2>3. CASE CollectFails(Starter(l), "spawn", "fail")
    BY <2>3, TaskFacts, LaunchAssumption, NoneAssumption DEF CollectFails,
       CannotCollect, Fault, Goto, At, tables, locks, told, RecordInv, FreshInv,
       Nowhere, OneRecord, StarterInv, Reserving, LockInv, HolderInv, TypeOK, Early,
       Prepares, Preparing, Active
  <2> QED
    BY <1>CleanBeforeSpawn, <2>1, <2>2, <2>3 DEF CleanBeforeSpawn
<1>Boundary. ASSUME NEW l \in Launches, Boundary(l)
     PROVE  RecordInv'
    BY <1>Boundary, TaskFacts, LaunchAssumption, NoneAssumption DEF Boundary, Goto,
       At, tables, locks, told, RecordInv, FreshInv, Nowhere, OneRecord, StarterInv,
       Reserving, LockInv, HolderInv, TypeOK, Early, Prepares, Preparing, Active
<1>Cross. ASSUME NEW l \in Launches, Cross(l)
     PROVE  RecordInv'
  <2>1. l \in pending /\ l \notin running \cup finished /\ \A t \in Tasks : l \notin carry[t]
    BY <1>Cross, TaskFacts DEF Cross, At, RecordInv, OneRecord, StarterInv, Reserving,
       Prepares, Active
  <2>2. /\ pending' = pending \ {l} /\ running' = running \cup {l}
        /\ finished' = finished /\ carry' = carry
    BY <1>Cross DEF Cross
  <2>3. \A x \in Launches : pc'[Starter(x)] \in Early => x # l /\ pc[Starter(x)] \in Early
    BY <1>Cross, TaskFacts DEF Cross, Goto, At, Early, TypeOK
  <2>4. FreshInv'
    BY <2>2, <2>3 DEF RecordInv, FreshInv, Nowhere
  <2>5. OneRecord'
    BY <2>1, <2>2 DEF RecordInv, OneRecord, Active
  <2> QED
    BY <2>4, <2>5 DEF RecordInv
<1>CrossFails. ASSUME NEW l \in Launches, CrossFails(l)
     PROVE  RecordInv'
    BY <1>CrossFails, TaskFacts, LaunchAssumption, NoneAssumption DEF CrossFails,
       Goto, At, tables, locks, told, RecordInv, FreshInv, Nowhere, OneRecord,
       StarterInv, Reserving, LockInv, HolderInv, TypeOK, Early, Prepares, Preparing,
       Active
<1>AttachFails. ASSUME NEW l \in Launches, AttachFails(l)
     PROVE  RecordInv'
    BY <1>AttachFails, TaskFacts, LaunchAssumption, NoneAssumption DEF AttachFails,
       Fault, Goto, At, tables, locks, told, RecordInv, FreshInv, Nowhere, OneRecord,
       StarterInv, Reserving, LockInv, HolderInv, TypeOK, Early, Prepares, Preparing,
       Active
<1>Reap. ASSUME NEW l \in Launches, Reap(l)
     PROVE  RecordInv'
    BY <1>Reap, TaskFacts, LaunchAssumption, NoneAssumption DEF Reap, Goto, At,
       tables, locks, told, RecordInv, FreshInv, Nowhere, OneRecord, StarterInv,
       Reserving, LockInv, HolderInv, TypeOK, Early, Prepares, Preparing, Active
<1>FailPending. ASSUME NEW l \in Launches, FailPending(l)
     PROVE  RecordInv'
    BY <1>FailPending, TaskFacts, LaunchAssumption, NoneAssumption DEF FailPending,
       Goto, At, tables, locks, told, RecordInv, FreshInv, Nowhere, OneRecord,
       StarterInv, Reserving, LockInv, HolderInv, TypeOK, Early, Prepares, Preparing,
       Active
<1>RememberFailed. ASSUME NEW l \in Launches, RememberFailed(l)
     PROVE  RecordInv'
    BY <1>RememberFailed, TaskFacts, LaunchAssumption, NoneAssumption DEF
       RememberFailed, Keep, Store, Goto, At, tables, locks, told, RecordInv,
       FreshInv, Nowhere, OneRecord, StarterInv, Reserving, LockInv, HolderInv,
       TypeOK, Early, Prepares, Preparing, Active
<1>Exit. ASSUME NEW l \in Launches, Exit(l)
     PROVE  RecordInv'
    BY <1>Exit, TaskFacts, LaunchAssumption, NoneAssumption DEF Exit, Goto, At,
       tables, locks, told, RecordInv, FreshInv, Nowhere, OneRecord, StarterInv,
       Reserving, LockInv, HolderInv, TypeOK, Early, Prepares, Preparing, Active
<1>Poll. ASSUME NEW l \in Launches, Poll(l)
     PROVE  RecordInv'
  <2>1. CASE Collect(Monitor(l), "collect", "keep", "read")
    <3>1. \A x \in Launches : pc'[Starter(x)] \in Early => pc[Starter(x)] \in Early
      BY <2>1, TaskFacts DEF Collect, Goto, At, Early, TypeOK
    <3> QED
      BY <2>1, <3>1, CollectMoves, TaskFacts DEF RecordInv, FreshInv
  <2>2. CASE Keep(Monitor(l), "keep", "read")
    <3>1. \A x \in Launches : pc'[Starter(x)] \in Early => pc[Starter(x)] \in Early
      BY <2>2, TaskFacts DEF Keep, Goto, At, Early, TypeOK
    <3> QED
      BY <2>2, <3>1, KeepMoves, TaskFacts DEF RecordInv, FreshInv
  <2>3. CASE ReadActive(Monitor(l), l, "read", "read-finished")
    BY <2>3, TaskFacts, LaunchAssumption, NoneAssumption DEF ReadActive, Goto, At,
       tables, locks, told, RecordInv, FreshInv, Nowhere, OneRecord, StarterInv,
       Reserving, LockInv, HolderInv, TypeOK, Early, Prepares, Preparing, Active
  <2>4. CASE ReadFinished(Monitor(l), l, "read-finished", "judge")
    BY <2>4, TaskFacts, LaunchAssumption, NoneAssumption DEF ReadFinished, Goto, At,
       tables, locks, told, RecordInv, FreshInv, Nowhere, OneRecord, StarterInv,
       Reserving, LockInv, HolderInv, TypeOK, Early, Prepares, Preparing, Active
  <2> QED
    BY <1>Poll, <2>1, <2>2, <2>3, <2>4 DEF Poll, Statuses
<1>PollFails. ASSUME NEW l \in Launches, PollFails(l)
     PROVE  RecordInv'
    BY <1>PollFails, TaskFacts, LaunchAssumption, NoneAssumption DEF PollFails,
       CannotCollect, Fault, Goto, At, tables, locks, told, RecordInv, FreshInv,
       Nowhere, OneRecord, StarterInv, Reserving, LockInv, HolderInv, TypeOK, Early,
       Prepares, Preparing, Active
<1>Misses. ASSUME NEW l \in Launches, Misses(l)
     PROVE  RecordInv'
    BY <1>Misses, TaskFacts, LaunchAssumption, NoneAssumption DEF Misses, Goto, At,
       tables, locks, told, RecordInv, FreshInv, Nowhere, OneRecord, StarterInv,
       Reserving, LockInv, HolderInv, TypeOK, Early, Prepares, Preparing, Active
<1>Judge. ASSUME NEW l \in Launches, Judge(l)
     PROVE  RecordInv'
    BY <1>Judge, TaskFacts, LaunchAssumption, NoneAssumption DEF Judge, Goto, At,
       tables, locks, told, RecordInv, FreshInv, Nowhere, OneRecord, StarterInv,
       Reserving, LockInv, HolderInv, TypeOK, Early, Prepares, Preparing, Active
<1>AskToStop. ASSUME NEW l \in Launches, AskToStop(l)
     PROVE  RecordInv'
    BY <1>AskToStop, TaskFacts, LaunchAssumption, NoneAssumption DEF AskToStop, Goto,
       At, tables, locks, told, RecordInv, FreshInv, Nowhere, OneRecord, StarterInv,
       Reserving, LockInv, HolderInv, TypeOK, Early, Prepares, Preparing, Active
<1>LookUp. ASSUME NEW l \in Launches, LookUp(l)
     PROVE  RecordInv'
  <2>1. CASE Collect(Stopper(l), "collect", "keep", "read")
    <3>1. \A x \in Launches : pc'[Starter(x)] \in Early => pc[Starter(x)] \in Early
      BY <2>1, TaskFacts DEF Collect, Goto, At, Early, TypeOK
    <3> QED
      BY <2>1, <3>1, CollectMoves, TaskFacts DEF RecordInv, FreshInv
  <2>2. CASE Keep(Stopper(l), "keep", "read")
    <3>1. \A x \in Launches : pc'[Starter(x)] \in Early => pc[Starter(x)] \in Early
      BY <2>2, TaskFacts DEF Keep, Goto, At, Early, TypeOK
    <3> QED
      BY <2>2, <3>1, KeepMoves, TaskFacts DEF RecordInv, FreshInv
  <2>3. CASE ReadActive(Stopper(l), l, "read", "read-finished")
    BY <2>3, TaskFacts, LaunchAssumption, NoneAssumption DEF ReadActive, Goto, At,
       tables, locks, told, RecordInv, FreshInv, Nowhere, OneRecord, StarterInv,
       Reserving, LockInv, HolderInv, TypeOK, Early, Prepares, Preparing, Active
  <2>4. CASE ReadFinished(Stopper(l), l, "read-finished", "announce")
    BY <2>4, TaskFacts, LaunchAssumption, NoneAssumption DEF ReadFinished, Goto, At,
       tables, locks, told, RecordInv, FreshInv, Nowhere, OneRecord, StarterInv,
       Reserving, LockInv, HolderInv, TypeOK, Early, Prepares, Preparing, Active
  <2>5. CASE CollectFails(Stopper(l), "collect", "idle")
    BY <2>5, TaskFacts, LaunchAssumption, NoneAssumption DEF CollectFails,
       CannotCollect, Fault, Goto, At, tables, locks, told, RecordInv, FreshInv,
       Nowhere, OneRecord, StarterInv, Reserving, LockInv, HolderInv, TypeOK, Early,
       Prepares, Preparing, Active
  <2> QED
    BY <1>LookUp, <2>1, <2>2, <2>3, <2>4, <2>5 DEF LookUp, Statuses
<1>Announce. ASSUME NEW l \in Launches, Announce(l)
     PROVE  RecordInv'
    BY <1>Announce, TaskFacts, LaunchAssumption, NoneAssumption DEF Announce, Goto,
       At, tables, locks, told, RecordInv, FreshInv, Nowhere, OneRecord, StarterInv,
       Reserving, LockInv, HolderInv, TypeOK, Early, Prepares, Preparing, Active
<1>StopUnknown. ASSUME NEW l \in Launches, StopUnknown(l)
     PROVE  RecordInv'
    BY <1>StopUnknown, TaskFacts, LaunchAssumption, NoneAssumption DEF StopUnknown,
       Goto, At, tables, locks, told, RecordInv, FreshInv, Nowhere, OneRecord,
       StarterInv, Reserving, LockInv, HolderInv, TypeOK, Early, Prepares, Preparing,
       Active
<1>Stop. ASSUME NEW l \in Launches, Stop(l)
     PROVE  RecordInv'
    BY <1>Stop, TaskFacts, LaunchAssumption, NoneAssumption DEF Stop, Goto, At,
       tables, locks, told, RecordInv, FreshInv, Nowhere, OneRecord, StarterInv,
       Reserving, LockInv, HolderInv, TypeOK, Early, Prepares, Preparing, Active
<1>StopFails. ASSUME NEW l \in Launches, StopFails(l)
     PROVE  RecordInv'
    BY <1>StopFails, TaskFacts, LaunchAssumption, NoneAssumption DEF StopFails, Fault,
       Goto, At, tables, locks, told, RecordInv, FreshInv, Nowhere, OneRecord,
       StarterInv, Reserving, LockInv, HolderInv, TypeOK, Early, Prepares, Preparing,
       Active
<1>Stopped. ASSUME NEW l \in Launches, Stopped(l)
     PROVE  RecordInv'
  <2>1. l \in running
    BY <1>Stopped DEF Stopped, LockInv, HolderInv
  <2>2. /\ pending' = pending /\ running' = running \ {l} /\ finished' = finished
        /\ carry'[Stopper(l)] = {l}
        /\ \A u \in Tasks : u # Stopper(l) => carry'[u] = carry[u]
    BY <1>Stopped, TaskFacts DEF Stopped, TypeOK
  <2>3. \A x \in Launches : pc'[Starter(x)] = pc[Starter(x)]
    BY <1>Stopped, TaskFacts DEF Stopped, Goto, TypeOK
  <2>4. FreshInv'
    BY <2>1, <2>2, <2>3, TaskFacts DEF RecordInv, FreshInv, Nowhere
  <2>5. \A u \in Tasks : carry'[u] \cap (pending' \cup running' \cup finished') = {}
    BY <2>1, <2>2, TaskFacts DEF RecordInv, OneRecord, Active
  <2>6. \A u, v \in Tasks : u # v => carry'[u] \cap carry'[v] = {}
    BY <2>1, <2>2, TaskFacts DEF RecordInv, OneRecord, Active
  <2>7. OneRecord'
    BY <2>2, <2>5, <2>6 DEF RecordInv, OneRecord, Active
  <2> QED
    BY <2>4, <2>7 DEF RecordInv
<1>WaitFails. ASSUME NEW l \in Launches, WaitFails(l)
     PROVE  RecordInv'
    BY <1>WaitFails, TaskFacts, LaunchAssumption, NoneAssumption DEF WaitFails, Fault,
       Goto, At, tables, locks, told, RecordInv, FreshInv, Nowhere, OneRecord,
       StarterInv, Reserving, LockInv, HolderInv, TypeOK, Early, Prepares, Preparing,
       Active
<1>RememberStopped. ASSUME NEW l \in Launches, RememberStopped(l)
     PROVE  RecordInv'
    BY <1>RememberStopped, TaskFacts, LaunchAssumption, NoneAssumption DEF
       RememberStopped, Keep, Store, Goto, At, tables, locks, told, RecordInv,
       FreshInv, Nowhere, OneRecord, StarterInv, Reserving, LockInv, HolderInv,
       TypeOK, Early, Prepares, Preparing, Active
<1>ReportStopped. ASSUME NEW l \in Launches, ReportStopped(l)
     PROVE  RecordInv'
    BY <1>ReportStopped, TaskFacts, LaunchAssumption, NoneAssumption DEF
       ReportStopped, Goto, At, tables, locks, told, RecordInv, FreshInv, Nowhere,
       OneRecord, StarterInv, Reserving, LockInv, HolderInv, TypeOK, Early, Prepares,
       Preparing, Active
<1>List. ASSUME List
     PROVE  RecordInv'
  <2>1. CASE Collect(Lister, "collect", "keep", "idle")
    <3>1. \A x \in Launches : pc'[Starter(x)] \in Early => pc[Starter(x)] \in Early
      BY <2>1, TaskFacts DEF Collect, Goto, At, Early, TypeOK
    <3> QED
      BY <2>1, <3>1, CollectMoves, TaskFacts DEF RecordInv, FreshInv
  <2>2. CASE Keep(Lister, "keep", "idle")
    <3>1. \A x \in Launches : pc'[Starter(x)] \in Early => pc[Starter(x)] \in Early
      BY <2>2, TaskFacts DEF Keep, Goto, At, Early, TypeOK
    <3> QED
      BY <2>2, <3>1, KeepMoves, TaskFacts DEF RecordInv, FreshInv
  <2>3. CASE CollectFails(Lister, "collect", "idle")
    BY <2>3, TaskFacts, LaunchAssumption, NoneAssumption DEF CollectFails,
       CannotCollect, Fault, Goto, At, tables, locks, told, RecordInv, FreshInv,
       Nowhere, OneRecord, StarterInv, Reserving, LockInv, HolderInv, TypeOK, Early,
       Prepares, Preparing, Active
  <2>begin. CASE At(Lister, "idle") /\ Goto(Lister, "collect")
                   /\ UNCHANGED <<tables, state, started, process, locks, carry, seen, told, faults>>
    BY <2>begin, TaskFacts, LaunchAssumption, NoneAssumption DEF Goto, At, tables,
       locks, told, RecordInv, FreshInv, Nowhere, OneRecord, StarterInv, Reserving,
       LockInv, HolderInv, TypeOK, Early, Prepares, Preparing, Active
  <2> QED
    BY <1>List, <2>1, <2>2, <2>3, <2>begin DEF List
<1>stutter. CASE UNCHANGED vars
    BY <1>stutter DEF vars, Goto, At, tables, locks, told, RecordInv, FreshInv,
       Nowhere, OneRecord, StarterInv, Reserving, LockInv, HolderInv, TypeOK, Early,
       Prepares, Preparing, Active
<1> QED
    BY <1>Request, <1>CleanBeforeReserve, <1>Claim, <1>Refuse, <1>Reserve, <1>Tell,
       <1>TransitionPending, <1>PrepareFails, <1>CleanBeforeLaunch, <1>Precheck,
       <1>CleanBeforeSpawn, <1>Boundary, <1>Cross, <1>CrossFails, <1>AttachFails,
       <1>Reap, <1>FailPending, <1>RememberFailed, <1>Exit, <1>Poll, <1>PollFails,
       <1>Misses, <1>Judge, <1>AskToStop, <1>LookUp, <1>Announce, <1>StopUnknown,
       <1>Stop, <1>StopFails, <1>Stopped, <1>WaitFails, <1>RememberStopped,
       <1>ReportStopped, <1>List, <1>stutter DEF Next, Start, Watch, Halt

\* A profile gains an active launch only by a reservation, and a process only at
\* the boundary that its own reservation guards.
LEMMA SafetyPreserved ==
    ASSUME TypeOK, TypeOK', StarterInv, StarterInv', LockInv, SafetyInv, [Next]_vars
    PROVE  SafetyInv'
<1>Request. ASSUME NEW l \in Launches, Request(l)
     PROVE  SafetyInv'
    BY <1>Request, TaskFacts, LaunchAssumption, NoneAssumption DEF Request, Goto, At,
       tables, locks, told, SafetyInv, OneActiveLaunch, LiveProcessIsListed, Alive,
       StarterInv, Reserving, LockInv, LockNeverAwaitsGame, TypeOK, Prepares,
       Preparing, IsPending, IsRunning, Active, Ended
<1>CleanBeforeReserve. ASSUME NEW l \in Launches, CleanBeforeReserve(l)
     PROVE  SafetyInv'
  <2>1. CASE Collect(Starter(l), "reserve", "reserve-keep", "claim")
    BY <2>1, TaskFacts, LaunchAssumption, NoneAssumption DEF Collect, EndedLaunches,
       Goto, At, tables, locks, told, SafetyInv, OneActiveLaunch, LiveProcessIsListed,
       Alive, StarterInv, Reserving, LockInv, LockNeverAwaitsGame, TypeOK, Prepares,
       Preparing, IsPending, IsRunning, Active, Ended
  <2>2. CASE Keep(Starter(l), "reserve-keep", "claim")
    BY <2>2, TaskFacts, LaunchAssumption, NoneAssumption DEF Keep, Store, Goto, At,
       tables, locks, told, SafetyInv, OneActiveLaunch, LiveProcessIsListed, Alive,
       StarterInv, Reserving, LockInv, LockNeverAwaitsGame, TypeOK, Prepares,
       Preparing, IsPending, IsRunning, Active, Ended
  <2>3. CASE CollectFails(Starter(l), "reserve", "done")
    BY <2>3, TaskFacts, LaunchAssumption, NoneAssumption DEF CollectFails,
       CannotCollect, Fault, Goto, At, tables, locks, told, SafetyInv,
       OneActiveLaunch, LiveProcessIsListed, Alive, StarterInv, Reserving, LockInv,
       LockNeverAwaitsGame, TypeOK, Prepares, Preparing, IsPending, IsRunning, Active,
       Ended
  <2> QED
    BY <1>CleanBeforeReserve, <2>1, <2>2, <2>3 DEF CleanBeforeReserve
<1>Claim. ASSUME NEW l \in Launches, Claim(l)
     PROVE  SafetyInv'
    BY <1>Claim, TaskFacts, LaunchAssumption, NoneAssumption DEF Claim, Goto, At,
       tables, locks, told, SafetyInv, OneActiveLaunch, LiveProcessIsListed, Alive,
       StarterInv, Reserving, LockInv, LockNeverAwaitsGame, TypeOK, Prepares,
       Preparing, IsPending, IsRunning, Active, Ended
<1>Refuse. ASSUME NEW l \in Launches, Refuse(l)
     PROVE  SafetyInv'
    BY <1>Refuse, TaskFacts, LaunchAssumption, NoneAssumption DEF Refuse, Goto, At,
       tables, locks, told, SafetyInv, OneActiveLaunch, LiveProcessIsListed, Alive,
       StarterInv, Reserving, LockInv, LockNeverAwaitsGame, TypeOK, Prepares,
       Preparing, IsPending, IsRunning, Active, Ended
<1>Reserve. ASSUME NEW l \in Launches, Reserve(l)
     PROVE  SafetyInv'
    BY <1>Reserve, TaskFacts, LaunchAssumption, NoneAssumption DEF Reserve, Goto, At,
       tables, locks, told, SafetyInv, OneActiveLaunch, LiveProcessIsListed, Alive,
       StarterInv, Reserving, LockInv, LockNeverAwaitsGame, TypeOK, Prepares,
       Preparing, IsPending, IsRunning, Active, Ended
<1>Tell. ASSUME NEW l \in Launches, Tell(l)
     PROVE  SafetyInv'
    BY <1>Tell, TaskFacts, LaunchAssumption, NoneAssumption DEF Tell, Goto, At,
       tables, locks, told, SafetyInv, OneActiveLaunch, LiveProcessIsListed, Alive,
       StarterInv, Reserving, LockInv, LockNeverAwaitsGame, TypeOK, Prepares,
       Preparing, IsPending, IsRunning, Active, Ended
<1>TransitionPending. ASSUME NEW l \in Launches, TransitionPending(l)
     PROVE  SafetyInv'
    BY <1>TransitionPending, TaskFacts, LaunchAssumption, NoneAssumption DEF
       TransitionPending, Following, Goto, At, tables, locks, told, SafetyInv,
       OneActiveLaunch, LiveProcessIsListed, Alive, StarterInv, Reserving, LockInv,
       LockNeverAwaitsGame, TypeOK, Prepares, Preparing, IsPending, IsRunning, Active,
       Ended
<1>PrepareFails. ASSUME NEW l \in Launches, PrepareFails(l)
     PROVE  SafetyInv'
    BY <1>PrepareFails, TaskFacts, LaunchAssumption, NoneAssumption DEF PrepareFails,
       Goto, At, tables, locks, told, SafetyInv, OneActiveLaunch, LiveProcessIsListed,
       Alive, StarterInv, Reserving, LockInv, LockNeverAwaitsGame, TypeOK, Prepares,
       Preparing, IsPending, IsRunning, Active, Ended
<1>CleanBeforeLaunch. ASSUME NEW l \in Launches, CleanBeforeLaunch(l)
     PROVE  SafetyInv'
    BY <1>CleanBeforeLaunch, TaskFacts, LaunchAssumption, NoneAssumption DEF
       CleanBeforeLaunch, Collect, EndedLaunches, Keep, Store, CollectFails,
       CannotCollect, Fault, Goto, At, tables, locks, told, SafetyInv,
       OneActiveLaunch, LiveProcessIsListed, Alive, StarterInv, Reserving, LockInv,
       LockNeverAwaitsGame, TypeOK, Prepares, Preparing, IsPending, IsRunning, Active,
       Ended
<1>Precheck. ASSUME NEW l \in Launches, Precheck(l)
     PROVE  SafetyInv'
    BY <1>Precheck, TaskFacts, LaunchAssumption, NoneAssumption DEF Precheck, Goto,
       At, tables, locks, told, SafetyInv, OneActiveLaunch, LiveProcessIsListed,
       Alive, StarterInv, Reserving, LockInv, LockNeverAwaitsGame, TypeOK, Prepares,
       Preparing, IsPending, IsRunning, Active, Ended
<1>CleanBeforeSpawn. ASSUME NEW l \in Launches, CleanBeforeSpawn(l)
     PROVE  SafetyInv'
    BY <1>CleanBeforeSpawn, TaskFacts, LaunchAssumption, NoneAssumption DEF
       CleanBeforeSpawn, Collect, EndedLaunches, Keep, Store, CollectFails,
       CannotCollect, Fault, Goto, At, tables, locks, told, SafetyInv,
       OneActiveLaunch, LiveProcessIsListed, Alive, StarterInv, Reserving, LockInv,
       LockNeverAwaitsGame, TypeOK, Prepares, Preparing, IsPending, IsRunning, Active,
       Ended
<1>Boundary. ASSUME NEW l \in Launches, Boundary(l)
     PROVE  SafetyInv'
    BY <1>Boundary, TaskFacts, LaunchAssumption, NoneAssumption DEF Boundary, Goto,
       At, tables, locks, told, SafetyInv, OneActiveLaunch, LiveProcessIsListed,
       Alive, StarterInv, Reserving, LockInv, LockNeverAwaitsGame, TypeOK, Prepares,
       Preparing, IsPending, IsRunning, Active, Ended
<1>Cross. ASSUME NEW l \in Launches, Cross(l)
     PROVE  SafetyInv'
  <2>1. /\ l \in pending /\ pending' = pending \ {l} /\ running' = running \cup {l}
    BY <1>Cross DEF Cross, At, StarterInv, Reserving, Prepares
  <2>2. OneActiveLaunch'
    BY <2>1 DEF SafetyInv, OneActiveLaunch, Active
  <2>3. /\ process' = [process EXCEPT ![l] = "alive"]
        /\ \A x \in Launches : x # l => pc'[Starter(x)] = pc[Starter(x)]
    BY <1>Cross, TaskFacts DEF Cross, Goto, TypeOK
  <2>4. LiveProcessIsListed'
    BY <2>1, <2>3 DEF SafetyInv, LiveProcessIsListed, Alive, At, TypeOK
  <2> QED
    BY <2>2, <2>4 DEF SafetyInv
<1>CrossFails. ASSUME NEW l \in Launches, CrossFails(l)
     PROVE  SafetyInv'
    BY <1>CrossFails, TaskFacts, LaunchAssumption, NoneAssumption DEF CrossFails,
       Goto, At, tables, locks, told, SafetyInv, OneActiveLaunch, LiveProcessIsListed,
       Alive, StarterInv, Reserving, LockInv, LockNeverAwaitsGame, TypeOK, Prepares,
       Preparing, IsPending, IsRunning, Active, Ended
<1>AttachFails. ASSUME NEW l \in Launches, AttachFails(l)
     PROVE  SafetyInv'
    BY <1>AttachFails, TaskFacts, LaunchAssumption, NoneAssumption DEF AttachFails,
       Fault, Goto, At, tables, locks, told, SafetyInv, OneActiveLaunch,
       LiveProcessIsListed, Alive, StarterInv, Reserving, LockInv,
       LockNeverAwaitsGame, TypeOK, Prepares, Preparing, IsPending, IsRunning, Active,
       Ended
<1>Reap. ASSUME NEW l \in Launches, Reap(l)
     PROVE  SafetyInv'
    BY <1>Reap, TaskFacts, LaunchAssumption, NoneAssumption DEF Reap, Goto, At,
       tables, locks, told, SafetyInv, OneActiveLaunch, LiveProcessIsListed, Alive,
       StarterInv, Reserving, LockInv, LockNeverAwaitsGame, TypeOK, Prepares,
       Preparing, IsPending, IsRunning, Active, Ended
<1>FailPending. ASSUME NEW l \in Launches, FailPending(l)
     PROVE  SafetyInv'
    BY <1>FailPending, TaskFacts, LaunchAssumption, NoneAssumption DEF FailPending,
       Goto, At, tables, locks, told, SafetyInv, OneActiveLaunch, LiveProcessIsListed,
       Alive, StarterInv, Reserving, LockInv, LockNeverAwaitsGame, TypeOK, Prepares,
       Preparing, IsPending, IsRunning, Active, Ended
<1>RememberFailed. ASSUME NEW l \in Launches, RememberFailed(l)
     PROVE  SafetyInv'
    BY <1>RememberFailed, TaskFacts, LaunchAssumption, NoneAssumption DEF
       RememberFailed, Keep, Store, Goto, At, tables, locks, told, SafetyInv,
       OneActiveLaunch, LiveProcessIsListed, Alive, StarterInv, Reserving, LockInv,
       LockNeverAwaitsGame, TypeOK, Prepares, Preparing, IsPending, IsRunning, Active,
       Ended
<1>Exit. ASSUME NEW l \in Launches, Exit(l)
     PROVE  SafetyInv'
    BY <1>Exit, TaskFacts, LaunchAssumption, NoneAssumption DEF Exit, Goto, At,
       tables, locks, told, SafetyInv, OneActiveLaunch, LiveProcessIsListed, Alive,
       StarterInv, Reserving, LockInv, LockNeverAwaitsGame, TypeOK, Prepares,
       Preparing, IsPending, IsRunning, Active, Ended
<1>Poll. ASSUME NEW l \in Launches, Poll(l)
     PROVE  SafetyInv'
    BY <1>Poll, TaskFacts, LaunchAssumption, NoneAssumption DEF Poll, Statuses,
       Collect, EndedLaunches, Keep, Store, ReadActive, ReadFinished, Goto, At,
       tables, locks, told, SafetyInv, OneActiveLaunch, LiveProcessIsListed, Alive,
       StarterInv, Reserving, LockInv, LockNeverAwaitsGame, TypeOK, Prepares,
       Preparing, IsPending, IsRunning, Active, Ended
<1>PollFails. ASSUME NEW l \in Launches, PollFails(l)
     PROVE  SafetyInv'
    BY <1>PollFails, TaskFacts, LaunchAssumption, NoneAssumption DEF PollFails,
       CannotCollect, Fault, Goto, At, tables, locks, told, SafetyInv,
       OneActiveLaunch, LiveProcessIsListed, Alive, StarterInv, Reserving, LockInv,
       LockNeverAwaitsGame, TypeOK, Prepares, Preparing, IsPending, IsRunning, Active,
       Ended
<1>Misses. ASSUME NEW l \in Launches, Misses(l)
     PROVE  SafetyInv'
    BY <1>Misses, TaskFacts, LaunchAssumption, NoneAssumption DEF Misses, Goto, At,
       tables, locks, told, SafetyInv, OneActiveLaunch, LiveProcessIsListed, Alive,
       StarterInv, Reserving, LockInv, LockNeverAwaitsGame, TypeOK, Prepares,
       Preparing, IsPending, IsRunning, Active, Ended
<1>Judge. ASSUME NEW l \in Launches, Judge(l)
     PROVE  SafetyInv'
    BY <1>Judge, TaskFacts, LaunchAssumption, NoneAssumption DEF Judge, Goto, At,
       tables, locks, told, SafetyInv, OneActiveLaunch, LiveProcessIsListed, Alive,
       StarterInv, Reserving, LockInv, LockNeverAwaitsGame, TypeOK, Prepares,
       Preparing, IsPending, IsRunning, Active, Ended
<1>AskToStop. ASSUME NEW l \in Launches, AskToStop(l)
     PROVE  SafetyInv'
    BY <1>AskToStop, TaskFacts, LaunchAssumption, NoneAssumption DEF AskToStop, Goto,
       At, tables, locks, told, SafetyInv, OneActiveLaunch, LiveProcessIsListed,
       Alive, StarterInv, Reserving, LockInv, LockNeverAwaitsGame, TypeOK, Prepares,
       Preparing, IsPending, IsRunning, Active, Ended
<1>LookUp. ASSUME NEW l \in Launches, LookUp(l)
     PROVE  SafetyInv'
    BY <1>LookUp, TaskFacts, LaunchAssumption, NoneAssumption DEF LookUp, Statuses,
       Collect, EndedLaunches, Keep, Store, ReadActive, ReadFinished, CollectFails,
       CannotCollect, Fault, Goto, At, tables, locks, told, SafetyInv,
       OneActiveLaunch, LiveProcessIsListed, Alive, StarterInv, Reserving, LockInv,
       LockNeverAwaitsGame, TypeOK, Prepares, Preparing, IsPending, IsRunning, Active,
       Ended
<1>Announce. ASSUME NEW l \in Launches, Announce(l)
     PROVE  SafetyInv'
    BY <1>Announce, TaskFacts, LaunchAssumption, NoneAssumption DEF Announce, Goto,
       At, tables, locks, told, SafetyInv, OneActiveLaunch, LiveProcessIsListed,
       Alive, StarterInv, Reserving, LockInv, LockNeverAwaitsGame, TypeOK, Prepares,
       Preparing, IsPending, IsRunning, Active, Ended
<1>StopUnknown. ASSUME NEW l \in Launches, StopUnknown(l)
     PROVE  SafetyInv'
    BY <1>StopUnknown, TaskFacts, LaunchAssumption, NoneAssumption DEF StopUnknown,
       Goto, At, tables, locks, told, SafetyInv, OneActiveLaunch, LiveProcessIsListed,
       Alive, StarterInv, Reserving, LockInv, LockNeverAwaitsGame, TypeOK, Prepares,
       Preparing, IsPending, IsRunning, Active, Ended
<1>Stop. ASSUME NEW l \in Launches, Stop(l)
     PROVE  SafetyInv'
    BY <1>Stop, TaskFacts, LaunchAssumption, NoneAssumption DEF Stop, Goto, At,
       tables, locks, told, SafetyInv, OneActiveLaunch, LiveProcessIsListed, Alive,
       StarterInv, Reserving, LockInv, LockNeverAwaitsGame, TypeOK, Prepares,
       Preparing, IsPending, IsRunning, Active, Ended
<1>StopFails. ASSUME NEW l \in Launches, StopFails(l)
     PROVE  SafetyInv'
    BY <1>StopFails, TaskFacts, LaunchAssumption, NoneAssumption DEF StopFails, Fault,
       Goto, At, tables, locks, told, SafetyInv, OneActiveLaunch, LiveProcessIsListed,
       Alive, StarterInv, Reserving, LockInv, LockNeverAwaitsGame, TypeOK, Prepares,
       Preparing, IsPending, IsRunning, Active, Ended
<1>Stopped. ASSUME NEW l \in Launches, Stopped(l)
     PROVE  SafetyInv'
    BY <1>Stopped, TaskFacts, LaunchAssumption, NoneAssumption DEF Stopped, Goto, At,
       tables, locks, told, SafetyInv, OneActiveLaunch, LiveProcessIsListed, Alive,
       StarterInv, Reserving, LockInv, LockNeverAwaitsGame, TypeOK, Prepares,
       Preparing, IsPending, IsRunning, Active, Ended
<1>WaitFails. ASSUME NEW l \in Launches, WaitFails(l)
     PROVE  SafetyInv'
    BY <1>WaitFails, TaskFacts, LaunchAssumption, NoneAssumption DEF WaitFails, Fault,
       Goto, At, tables, locks, told, SafetyInv, OneActiveLaunch, LiveProcessIsListed,
       Alive, StarterInv, Reserving, LockInv, LockNeverAwaitsGame, TypeOK, Prepares,
       Preparing, IsPending, IsRunning, Active, Ended
<1>RememberStopped. ASSUME NEW l \in Launches, RememberStopped(l)
     PROVE  SafetyInv'
    BY <1>RememberStopped, TaskFacts, LaunchAssumption, NoneAssumption DEF
       RememberStopped, Keep, Store, Goto, At, tables, locks, told, SafetyInv,
       OneActiveLaunch, LiveProcessIsListed, Alive, StarterInv, Reserving, LockInv,
       LockNeverAwaitsGame, TypeOK, Prepares, Preparing, IsPending, IsRunning, Active,
       Ended
<1>ReportStopped. ASSUME NEW l \in Launches, ReportStopped(l)
     PROVE  SafetyInv'
    BY <1>ReportStopped, TaskFacts, LaunchAssumption, NoneAssumption DEF
       ReportStopped, Goto, At, tables, locks, told, SafetyInv, OneActiveLaunch,
       LiveProcessIsListed, Alive, StarterInv, Reserving, LockInv,
       LockNeverAwaitsGame, TypeOK, Prepares, Preparing, IsPending, IsRunning, Active,
       Ended
<1>List. ASSUME List
     PROVE  SafetyInv'
    BY <1>List, TaskFacts, LaunchAssumption, NoneAssumption DEF List, Collect,
       EndedLaunches, Keep, Store, CollectFails, CannotCollect, Fault, Goto, At,
       tables, locks, told, SafetyInv, OneActiveLaunch, LiveProcessIsListed, Alive,
       StarterInv, Reserving, LockInv, LockNeverAwaitsGame, TypeOK, Prepares,
       Preparing, IsPending, IsRunning, Active, Ended
<1>stutter. CASE UNCHANGED vars
    BY <1>stutter DEF vars, Goto, At, tables, locks, told, SafetyInv, OneActiveLaunch,
       LiveProcessIsListed, Alive, StarterInv, Reserving, LockInv,
       LockNeverAwaitsGame, TypeOK, Prepares, Preparing, IsPending, IsRunning, Active,
       Ended
<1> QED
    BY <1>Request, <1>CleanBeforeReserve, <1>Claim, <1>Refuse, <1>Reserve, <1>Tell,
       <1>TransitionPending, <1>PrepareFails, <1>CleanBeforeLaunch, <1>Precheck,
       <1>CleanBeforeSpawn, <1>Boundary, <1>Cross, <1>CrossFails, <1>AttachFails,
       <1>Reap, <1>FailPending, <1>RememberFailed, <1>Exit, <1>Poll, <1>PollFails,
       <1>Misses, <1>Judge, <1>AskToStop, <1>LookUp, <1>Announce, <1>StopUnknown,
       <1>Stop, <1>StopFails, <1>Stopped, <1>WaitFails, <1>RememberStopped,
       <1>ReportStopped, <1>List, <1>stutter DEF Next, Start, Watch, Halt

LEMMA InitIInv == Init => IInv
<1> SUFFICES ASSUME Init PROVE IInv
    OBVIOUS
<1>1. TypeOK
    BY TaskFacts, LaunchAssumption DEF Init, TypeOK, Steps, States, Preparing, Final, Ended
<1>2. MonitorInv
    BY TaskFacts, LaunchAssumption DEF Init, MonitorInv, At
<1>3. StarterInv
    BY TaskFacts DEF Init, StarterInv, Reserving, At, Prepares, IsPending
<1>4. LockInv
    BY TaskFacts, NoneAssumption DEF Init, LockInv, LockNeverAwaitsGame, HolderInv, At
<1>5. RecordInv
    BY TaskFacts DEF Init, RecordInv, FreshInv, Nowhere, OneRecord, Active
<1>6. SafetyInv
    BY TaskFacts DEF Init, SafetyInv, OneActiveLaunch, LiveProcessIsListed, Active, Alive
<1> QED
    BY <1>1, <1>2, <1>3, <1>4, <1>5, <1>6 DEF IInv

LEMMA IInvPreserved == IInv /\ [Next]_vars => IInv'
<1> SUFFICES ASSUME IInv, [Next]_vars PROVE IInv'
    OBVIOUS
<1>1. TypeOK'
    BY TypePreserved DEF IInv
<1>2. MonitorInv'
    BY <1>1, MonitorPreserved DEF IInv
<1>3. StarterInv'
    BY <1>1, StarterPreserved DEF IInv
<1>4. LockInv'
    BY <1>1, LockPreserved DEF IInv
<1>5. RecordInv'
    BY <1>1, RecordPreserved DEF IInv
<1>6. SafetyInv'
    BY <1>1, <1>3, SafetyPreserved DEF IInv
<1> QED
    BY <1>1, <1>2, <1>3, <1>4, <1>5, <1>6 DEF IInv

LEMMA IInvHolds == Spec => []IInv
    BY InitIInv, IInvPreserved, PTL DEF Spec
-----------------------------------------------------------------------------
\* Every variable of the manager keeps its type.
THEOREM TypeCorrect == Spec => []TypeOK
<1>1. IInv => TypeOK
    BY DEF IInv
<1> QED
    BY <1>1, IInvHolds, PTL

\* However many start requests race, a profile has one active launch at most.
THEOREM ActiveLaunchIsUnique == Spec => []OneActiveLaunch
<1>1. IInv => OneActiveLaunch
    BY DEF IInv, SafetyInv
<1> QED
    BY <1>1, IInvHolds, PTL

\* Two processes never use one profile at the same time, although a process
\* being created, one whose stop failed and one being killed all count.
THEOREM ProcessIsUnique == Spec => []OneProcess
<1>1. ASSUME IInv, NEW l \in Alive
      PROVE  l \in Active
    BY <1>1 DEF IInv, SafetyInv, LiveProcessIsListed, StarterInv, Reserving, Prepares,
       Alive, At, Active
<1>2. IInv => OneProcess
    BY <1>1 DEF IInv, SafetyInv, OneActiveLaunch, OneProcess
<1> QED
    BY <1>2, IInvHolds, PTL

\* A living process can always be found, and stopped, through the running table.
THEOREM LiveProcessIsFound == Spec => []LiveProcessIsListed
<1>1. IInv => LiveProcessIsListed
    BY DEF IInv, SafetyInv
<1> QED
    BY <1>1, IInvHolds, PTL

\* The record of a launch is never in two places.
THEOREM RecordIsUnique == Spec => []OneRecord
<1>1. IInv => OneRecord
    BY DEF IInv, RecordInv
<1> QED
    BY <1>1, IInvHolds, PTL

\* A starting command that has ended, however it ended, left no reservation.
THEOREM NoReservationLeft == Spec => []ReservationReleased
<1>1. IInv => ReservationReleased
    BY TaskFacts DEF IInv, StarterInv, Reserving, ReservationReleased, Prepares, At, TypeOK
<1> QED
    BY <1>1, IInvHolds, PTL

\* The mutex of the running table is never kept while a game is played.
THEOREM LockWaitsBriefly == Spec => []LockNeverAwaitsGame
<1>1. IInv => LockNeverAwaitsGame
    BY DEF IInv, LockInv
<1> QED
    BY <1>1, IInvHolds, PTL

\* Both together: one launch, and one process, for each profile.
THEOREM LaunchesExclude == Spec => []OneLaunchPerProfile
<1>1. OneActiveLaunch /\ OneProcess => OneLaunchPerProfile
    BY DEF OneLaunchPerProfile
<1> QED
    BY <1>1, ActiveLaunchIsUnique, ProcessIsUnique, PTL

\* Both together: what runs is found in one place.
THEOREM RecordsFollowProcesses == Spec => []RecordsAreFound
<1>1. LiveProcessIsListed /\ OneRecord => RecordsAreFound
    BY DEF RecordsAreFound
<1> QED
    BY <1>1, LiveProcessIsFound, RecordIsUnique, PTL

\* Both together: no reservation and no mutex outlives its reason.
THEOREM NothingStaysHeld == Spec => []NothingIsHeld
<1>1. ReservationReleased /\ LockNeverAwaitsGame => NothingIsHeld
    BY DEF NothingIsHeld
<1> QED
    BY <1>1, NoReservationLeft, LockWaitsBriefly, PTL
=============================================================================
