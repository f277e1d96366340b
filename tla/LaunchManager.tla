--------------------------- MODULE LaunchManager ---------------------------
(***************************************************************************)
(* ProfileProcessManager and the commands around it: how a launch is       *)
(* reserved, prepared, started, watched and stopped, and what the window   *)
(* is told about it.                                                       *)
(*                                                                         *)
(* The manager keeps three tables, pending, running and finished, each     *)
(* behind an asynchronous mutex of its own.  For every launch there are    *)
(* three tasks: the command that starts it, its monitor, and the command   *)
(* that stops it; a fourth kind lists the launches for the window.  A task *)
(* gives way at every await, so pc[t] is the next stretch of task t        *)
(* between two awaits.  Nothing of this is on disk.                        *)
(***************************************************************************)
EXTENDS Integers, FiniteSets

CONSTANTS
    Launches,      \* launch identifiers
    Profiles,
    ProfileOf,     \* the profile each launch is for
    None,          \* nobody holds the mutex; nothing was seen
    MaxFinished,   \* MAX_FINISHED_LAUNCH_STATUSES
    GiveUp,        \* consecutive errors after which a monitor ends
    MayStop,       \* bound: launches the user may want to stop
    MaxFaults      \* bound: failing system calls on processes in one behaviour

ASSUME LaunchAssumption ==
    /\ IsFiniteSet(Launches)
    /\ ProfileOf \in [Launches -> Profiles]
    /\ MaxFinished \in Nat \ {0}
    /\ GiveUp \in Nat \ {0}
    /\ MayStop \subseteq Launches
    /\ MaxFaults \in Nat

Starter(l) == <<"launch", l>>
Monitor(l) == <<"monitor", l>>
Stopper(l) == <<"stop", l>>
Lister     == <<"list", None>>
Tasks      == ({"launch", "monitor", "stop"} \X Launches) \cup {Lister}

Preparing == {"preparing", "checking-files", "downloading", "starting"}
Final     == {"exited", "failed"}
States    == Preparing \cup {"running", "stopping"} \cup Final

ASSUME NoneAssumption ==
    /\ None \notin Tasks
    /\ None \notin States

VARIABLES
    pending, running, finished,   \* launches in each table
    state,         \* the status of a launch, wherever its record is
    started,       \* started_at_unix, in whole seconds
    process,       \* the child process of a launch
    pendingLock,   \* the task that holds the mutex of pending, or None
    runningLock,   \* the task that holds the mutex of running, or None
    pc,
    carry,         \* records a task took out of running and not yet stored
    seen,          \* the status a task is about to tell, or read
    last,          \* last_state of a monitor
    errors,        \* consecutive_errors of a monitor
    shown,         \* the status last sent to the window, None before the first
    faults

tables == <<pending, running, finished>>
locks  == <<pendingLock, runningLock>>
told   == <<last, errors, shown>>
vars   == <<pending, running, finished, state, started, process, pendingLock,
            runningLock, pc, carry, seen, last, errors, shown, faults>>

\* The child process: alive, ended by itself in one of two ways, or gone.
Ended == {"ok", "crashed"}

Init ==
    /\ pending = {}
    /\ running = {}
    /\ finished = {}
    /\ state = [l \in Launches |-> "preparing"]
    /\ started = [l \in Launches |-> 0]
    /\ process = [l \in Launches |-> "none"]
    /\ pendingLock = None
    /\ runningLock = None
    /\ pc = [t \in Tasks |-> "idle"]
    /\ carry = [t \in Tasks |-> {}]
    /\ seen = [t \in Tasks |-> None]
    /\ last = [l \in Launches |-> "running"]
    /\ errors = [l \in Launches |-> 0]
    /\ shown = [l \in Launches |-> None]
    /\ faults = 0

Active == pending \cup running

At(t, step)   == pc[t] = step
Goto(t, step) == pc' = [pc EXCEPT ![t] = step]
Fault         == faults < MaxFaults /\ faults' = faults + 1

\* Mutant: a launch that is being stopped does not count.
IsRunningUnlessStopping(p) ==
    \E l \in running : ProfileOf[l] = p /\ state[l] = "running"

\* ensure_profile_is_not_running, and the test of reserve.
IsRunning(p) == \E l \in running : ProfileOf[l] = p
IsPending(p) == \E l \in pending : ProfileOf[l] = p

\* Insertion into the finished table, which then keeps MaxFinished entries:
\* of those that started in the same second it is the random identifier that
\* decides.
Store(new, kept) ==
    LET all == finished \cup new IN
    /\ kept \subseteq all
    /\ Cardinality(kept) = IF Cardinality(all) < MaxFinished
                           THEN Cardinality(all) ELSE MaxFinished
    /\ \A out \in all \ kept, in \in kept : started[out] <= started[in]
-----------------------------------------------------------------------------
(* cleanup_finished, which every command begins with: the processes that     *)
(* ended leave the running table, and only then enter the finished one.      *)

EndedLaunches == {l \in running : process[l] \in Ended}

\* Mutant: the records are copied and only later removed by someone else.
CollectCopying(t, from, keep, next) ==
    /\ At(t, from)
    /\ runningLock = None
    /\ state' = [l \in Launches |->
                   IF l \in EndedLaunches
                   THEN IF process[l] = "ok" THEN "exited" ELSE "failed"
                   ELSE state[l]]
    /\ carry' = [carry EXCEPT ![t] = EndedLaunches]
    /\ Goto(t, IF EndedLaunches = {} THEN next ELSE keep)
    /\ UNCHANGED <<tables, started, process, locks, seen, told, faults>>

Collect(t, from, keep, next) ==
    /\ At(t, from)
    /\ runningLock = None
    /\ running' = running \ EndedLaunches
    /\ state' = [l \in Launches |->
                   IF l \in EndedLaunches
                   THEN IF process[l] = "ok" THEN "exited" ELSE "failed"
                   ELSE state[l]]
    /\ carry' = [carry EXCEPT ![t] = EndedLaunches]
    /\ Goto(t, IF EndedLaunches = {} THEN next ELSE keep)
    /\ UNCHANGED <<pending, finished, started, process, locks, seen, told, faults>>

Keep(t, keep, next) ==
    /\ At(t, keep)
    /\ \E kept \in SUBSET (finished \cup carry[t]) :
         Store(carry[t], kept) /\ finished' = kept
    /\ carry' = [carry EXCEPT ![t] = {}]
    /\ Goto(t, next)
    /\ UNCHANGED <<pending, running, state, started, process, locks, seen,
                   told, faults>>

\* The status of a process cannot be read; nothing is taken out of the table.
CannotCollect(t, from, next) ==
    /\ At(t, from)
    /\ runningLock = None
    /\ running # {}
    /\ Fault
    /\ Goto(t, next)
    /\ UNCHANGED <<tables, state, started, process, locks, carry, seen>>

CollectFails(t, from, next) == CannotCollect(t, from, next) /\ UNCHANGED told
-----------------------------------------------------------------------------
(* phase5_launch_profile and phase5_launch_instance: reserve, prepare,       *)
(* launch; an error after the reservation goes through fail_launch.          *)

\* A launch identifier is minted when its record is inserted; a command that
\* was refused never uses it.
Request(l) ==
    /\ At(Starter(l), "idle")
    /\ Goto(Starter(l), "reserve")
    /\ UNCHANGED <<tables, state, started, process, locks, carry, seen, told, faults>>

CleanBeforeReserve(l) ==
    \/ Collect(Starter(l), "reserve", "reserve-keep", "claim")
    \/ Keep(Starter(l), "reserve-keep", "claim")
    \/ CollectFails(Starter(l), "reserve", "done")

\* Mutant: the pending launches of the profile are not looked at.
ClaimBlindly(l) ==
    /\ At(Starter(l), "claim")
    /\ pendingLock = None
    /\ pendingLock' = Starter(l)
    /\ Goto(Starter(l), "reserving")
    /\ UNCHANGED <<tables, state, started, process, runningLock, carry, seen,
                   told, faults>>

\* The mutex of pending is kept while that of running is waited for.
Claim(l) ==
    /\ At(Starter(l), "claim")
    /\ pendingLock = None
    /\ IF IsPending(ProfileOf[l])
       THEN Goto(Starter(l), "done") /\ UNCHANGED pendingLock
       ELSE Goto(Starter(l), "reserving") /\ pendingLock' = Starter(l)
    /\ UNCHANGED <<tables, state, started, process, runningLock, carry, seen,
                   told, faults>>

Refuse(l) ==
    /\ At(Starter(l), "reserving")
    /\ runningLock = None
    /\ IsRunning(ProfileOf[l])
    /\ pendingLock' = None
    /\ Goto(Starter(l), "done")
    /\ UNCHANGED <<tables, state, started, process, runningLock, carry, seen,
                   told, faults>>

Reserve(l) ==
    /\ At(Starter(l), "reserving")
    /\ runningLock = None
    /\ ~IsRunning(ProfileOf[l])
    /\ pending' = pending \cup {l}
    /\ \E x \in Launches, later \in {0, 1} :
         /\ \A y \in Launches : started[y] <= started[x] + later
         /\ started' = [started EXCEPT ![l] = started[x] + later]
    /\ pendingLock' = None
    /\ seen' = [seen EXCEPT ![Starter(l)] = "preparing"]
    /\ Goto(Starter(l), "tell")
    /\ UNCHANGED <<running, finished, state, process, runningLock, carry, told,
                   faults>>

\* emit_launch_status, after the mutexes are released.
Tell(l) ==
    /\ At(Starter(l), "tell")
    /\ shown' = [shown EXCEPT ![l] = seen[Starter(l)]]
    /\ seen' = [seen EXCEPT ![Starter(l)] = None]
    /\ IF seen[Starter(l)] = "running"
       THEN pc' = [pc EXCEPT ![Starter(l)] = "done", ![Monitor(l)] = "collect"]
       ELSE Goto(Starter(l), CASE seen[Starter(l)] = "starting" -> "launch"
                               [] seen[Starter(l)] = "failed"   -> "done"
                               [] OTHER                         -> "prepare")
    /\ UNCHANGED <<tables, state, started, process, locks, carry, last, errors,
                   faults>>

\* The next state of a prepared launch; a profile is checked, downloaded at
\* most once, checked again and started.
Following(s) ==
    CASE s = "preparing"      -> {"checking-files"}
      [] s = "checking-files" -> {"checking-files", "downloading", "starting"}
      [] s = "downloading"    -> {"checking-files"}
      [] OTHER                -> {}

TransitionPending(l) ==
    /\ At(Starter(l), "prepare")
    /\ pendingLock = None
    /\ l \in pending
    /\ \E s \in Following(state[l]) :
         /\ state' = [state EXCEPT ![l] = s]
         /\ seen' = [seen EXCEPT ![Starter(l)] = s]
    /\ Goto(Starter(l), "tell")
    /\ UNCHANGED <<tables, started, process, locks, carry, told, faults>>

\* Mutant: an error while preparing is only reported to the caller.
PrepareFailsQuietly(l) ==
    /\ At(Starter(l), "prepare")
    /\ Goto(Starter(l), "done")
    /\ UNCHANGED <<tables, state, started, process, locks, carry, seen, told, faults>>

\* Installing, checking or downloading fails.
PrepareFails(l) ==
    /\ At(Starter(l), "prepare")
    /\ Goto(Starter(l), "fail")
    /\ UNCHANGED <<tables, state, started, process, locks, carry, seen, told, faults>>

CleanBeforeLaunch(l) ==
    \/ Collect(Starter(l), "launch", "launch-keep", "precheck")
    \/ Keep(Starter(l), "launch-keep", "precheck")
    \/ CollectFails(Starter(l), "launch", "fail")

\* The session, the native files and the arguments are prepared after a first
\* look at the running table; each of them may fail.
Precheck(l) ==
    /\ At(Starter(l), "precheck")
    /\ runningLock = None
    /\ \E next \in {"spawn", "fail"} :
         /\ IsRunning(ProfileOf[l]) => next = "fail"
         /\ Goto(Starter(l), next)
    /\ UNCHANGED <<tables, state, started, process, locks, carry, seen, told, faults>>

CleanBeforeSpawn(l) ==
    \/ Collect(Starter(l), "spawn", "spawn-keep", "boundary")
    \/ Keep(Starter(l), "spawn-keep", "boundary")
    \/ CollectFails(Starter(l), "spawn", "fail")

Boundary(l) ==
    /\ At(Starter(l), "boundary")
    /\ pendingLock = None
    /\ IF l \in pending
       THEN Goto(Starter(l), "cross") /\ pendingLock' = Starter(l)
       ELSE Goto(Starter(l), "fail") /\ UNCHANGED pendingLock
    /\ UNCHANGED <<tables, state, started, process, runningLock, carry, seen,
                   told, faults>>

\* Spawn, and move the record, with both mutexes held and no await between.
Cross(l) ==
    /\ At(Starter(l), "cross")
    /\ runningLock = None
    /\ ~IsRunning(ProfileOf[l])
    /\ process' = [process EXCEPT ![l] = "alive"]
    /\ state' = [state EXCEPT ![l] = "running"]
    /\ seen' = [seen EXCEPT ![Starter(l)] = "running"]
    /\ pending' = pending \ {l}
    /\ running' = running \cup {l}
    /\ pendingLock' = None
    /\ Goto(Starter(l), "tell")
    /\ UNCHANGED <<finished, started, runningLock, carry, told, faults>>

\* The profile is running after all, or the process cannot be created.
CrossFails(l) ==
    /\ At(Starter(l), "cross")
    /\ runningLock = None
    /\ IsRunning(ProfileOf[l]) \/ faults < MaxFaults
    /\ faults' = IF IsRunning(ProfileOf[l]) THEN faults ELSE faults + 1
    /\ pendingLock' = None
    /\ Goto(Starter(l), "fail")
    /\ UNCHANGED <<tables, state, started, process, runningLock, carry, seen, told>>

\* The process exists, suspended, but cannot be put into its job object: it is
\* killed, and waited for with both mutexes held.
AttachFails(l) ==
    /\ At(Starter(l), "cross")
    /\ runningLock = None
    /\ ~IsRunning(ProfileOf[l])
    /\ Fault
    /\ process' = [process EXCEPT ![l] = "alive"]
    /\ runningLock' = Starter(l)
    /\ Goto(Starter(l), "reap")
    /\ UNCHANGED <<tables, state, started, pendingLock, carry, seen, told>>

\* Mutant: an exit that nobody can name.
ReapMisspelt(l) ==
    /\ At(Starter(l), "reap")
    /\ process' = [process EXCEPT ![l] = "killed"]
    /\ pendingLock' = None
    /\ runningLock' = None
    /\ Goto(Starter(l), "fail")
    /\ UNCHANGED <<tables, state, started, carry, seen, told, faults>>

Reap(l) ==
    /\ At(Starter(l), "reap")
    /\ process' = [process EXCEPT ![l] = "crashed"]
    /\ pendingLock' = None
    /\ runningLock' = None
    /\ Goto(Starter(l), "fail")
    /\ UNCHANGED <<tables, state, started, carry, seen, told, faults>>

\* fail_pending: out of pending first, into the finished table afterwards.
FailPending(l) ==
    /\ At(Starter(l), "fail")
    /\ pendingLock = None
    /\ l \in pending
    /\ pending' = pending \ {l}
    /\ state' = [state EXCEPT ![l] = "failed"]
    /\ carry' = [carry EXCEPT ![Starter(l)] = {l}]
    /\ seen' = [seen EXCEPT ![Starter(l)] = "failed"]
    /\ Goto(Starter(l), "remember")
    /\ UNCHANGED <<running, finished, started, process, locks, told, faults>>

RememberFailed(l) == Keep(Starter(l), "remember", "tell")
-----------------------------------------------------------------------------
(* The child process ends by itself, at any time. *)
Exit(l) ==
    /\ process[l] = "alive"
    /\ \E how \in Ended : process' = [process EXCEPT ![l] = how]
    /\ UNCHANGED <<tables, state, started, locks, pc, carry, seen, told, faults>>
-----------------------------------------------------------------------------
(* statuses: after the cleanup it reads the three tables one by one, each    *)
(* under its own mutex; the first record found for a launch is the one a     *)
(* monitor or a stop command takes.  A launch goes from pending to running   *)
(* in one stretch, so reading these two at once finds the same.              *)

ReadActive(t, l, from, next) ==
    /\ At(t, from)
    /\ pendingLock = None
    /\ runningLock = None
    /\ seen' = [seen EXCEPT ![t] = IF l \in Active THEN state[l] ELSE None]
    /\ Goto(t, next)
    /\ UNCHANGED <<tables, state, started, process, locks, carry, told, faults>>

ReadFinished(t, l, from, next) ==
    /\ At(t, from)
    /\ seen' = [seen EXCEPT ![t] = IF @ = None /\ l \in finished THEN state[l] ELSE @]
    /\ Goto(t, next)
    /\ UNCHANGED <<tables, state, started, process, locks, carry, told, faults>>

Statuses(t, l, next) ==
    \/ Collect(t, "collect", "keep", "read")
    \/ Keep(t, "keep", "read")
    \/ ReadActive(t, l, "read", "read-finished")
    \/ ReadFinished(t, l, "read-finished", next)

\* phase5_launch_statuses and the workspace snapshot, for the window.
List ==
    \/ At(Lister, "idle") /\ Goto(Lister, "collect")
       /\ UNCHANGED <<tables, state, started, process, locks, carry, seen, told,
                      faults>>
    \/ Collect(Lister, "collect", "keep", "idle")
    \/ Keep(Lister, "keep", "idle")
    \/ CollectFails(Lister, "collect", "idle")
-----------------------------------------------------------------------------
(* spawn_launch_monitor: every half second. *)

Poll(l) == Statuses(Monitor(l), l, "judge")

PollFails(l) ==
    /\ CannotCollect(Monitor(l), "collect",
                     IF errors[l] + 1 >= GiveUp THEN "done" ELSE "collect")
    /\ errors' = [errors EXCEPT ![l] = @ + 1]
    /\ UNCHANGED <<last, shown>>

\* Mutant: a monitor that does not find its launch takes it for ended.
MissesEnding(l) ==
    /\ At(Monitor(l), "judge")
    /\ seen[Monitor(l)] = None
    /\ errors' = [errors EXCEPT ![l] = 0]
    /\ Goto(Monitor(l), "done")
    /\ UNCHANGED <<tables, state, started, process, locks, carry, seen, last,
                   shown, faults>>

\* The launch is in no table at the moment: the monitor looks again.
Misses(l) ==
    /\ At(Monitor(l), "judge")
    /\ seen[Monitor(l)] = None
    /\ errors' = [errors EXCEPT ![l] = 0]
    /\ Goto(Monitor(l), "collect")
    /\ UNCHANGED <<tables, state, started, process, locks, carry, seen, last,
                   shown, faults>>

\* A status that differs from the last one is told; a final one ends the task.
Judge(l) ==
    LET s == seen[Monitor(l)] IN
    /\ At(Monitor(l), "judge")
    /\ s # None
    /\ last' = [last EXCEPT ![l] = s]
    /\ shown' = IF s # last[l] THEN [shown EXCEPT ![l] = s] ELSE shown
    /\ errors' = [errors EXCEPT ![l] = 0]
    /\ seen' = [seen EXCEPT ![Monitor(l)] = None]
    /\ Goto(Monitor(l), IF s \in Final THEN "done" ELSE "collect")
    /\ UNCHANGED <<tables, state, started, process, locks, carry, faults>>
-----------------------------------------------------------------------------
(* phase5_stop_launch: the statuses are read to tell "stopping" before the   *)
(* launch is stopped.                                                        *)

\* The window knows a launch once a status of it was sent.
AskToStop(l) ==
    /\ At(Stopper(l), "idle")
    /\ l \in MayStop
    /\ shown[l] # None
    /\ Goto(Stopper(l), "collect")
    /\ UNCHANGED <<tables, state, started, process, locks, carry, seen, told, faults>>

LookUp(l) ==
    \/ Statuses(Stopper(l), l, "announce")
    \/ CollectFails(Stopper(l), "collect", "idle")

\* The status that was found is sent with its state replaced, whatever it was.
Announce(l) ==
    /\ At(Stopper(l), "announce")
    /\ shown' = IF seen[Stopper(l)] # None THEN [shown EXCEPT ![l] = "stopping"]
                ELSE shown
    /\ seen' = [seen EXCEPT ![Stopper(l)] = None]
    /\ Goto(Stopper(l), "stop")
    /\ UNCHANGED <<tables, state, started, process, locks, carry, last, errors,
                   faults>>

StopUnknown(l) ==
    /\ At(Stopper(l), "stop")
    /\ runningLock = None
    /\ l \notin running
    /\ Goto(Stopper(l), "idle")
    /\ UNCHANGED <<tables, state, started, process, locks, carry, seen, told, faults>>

\* Mutant: the process is waited for but not told to end.
StopPolitely(l) ==
    /\ At(Stopper(l), "stop")
    /\ runningLock = None
    /\ l \in running
    /\ state' = [state EXCEPT ![l] = "stopping"]
    /\ runningLock' = Stopper(l)
    /\ Goto(Stopper(l), "await")
    /\ UNCHANGED <<tables, started, process, pendingLock, carry, seen, told, faults>>

\* The process is told to end; the mutex of running is kept until it has.
Stop(l) ==
    /\ At(Stopper(l), "stop")
    /\ runningLock = None
    /\ l \in running
    /\ state' = [state EXCEPT ![l] = "stopping"]
    /\ process' = [process EXCEPT ![l] = IF @ = "alive" THEN "crashed" ELSE @]
    /\ runningLock' = Stopper(l)
    /\ Goto(Stopper(l), "await")
    /\ UNCHANGED <<tables, started, pendingLock, carry, seen, told, faults>>

\* Mutant: the record is dropped although the process could not be ended.
StopFailsForgetting(l) ==
    /\ At(Stopper(l), "stop")
    /\ runningLock = None
    /\ l \in running
    /\ Fault
    /\ state' = [state EXCEPT ![l] = "stopping"]
    /\ running' = running \ {l}
    /\ Goto(Stopper(l), "idle")
    /\ UNCHANGED <<pending, finished, started, process, locks, carry, seen, told>>

\* The process cannot be ended: the record stays, and says stopping.
StopFails(l) ==
    /\ At(Stopper(l), "stop")
    /\ runningLock = None
    /\ l \in running
    /\ Fault
    /\ state' = [state EXCEPT ![l] = "stopping"]
    /\ Goto(Stopper(l), "idle")
    /\ UNCHANGED <<tables, started, process, locks, carry, seen, told>>

Stopped(l) ==
    /\ At(Stopper(l), "await")
    /\ process[l] \in Ended
    /\ state' = [state EXCEPT ![l] = "exited"]
    /\ running' = running \ {l}
    /\ carry' = [carry EXCEPT ![Stopper(l)] = {l}]
    /\ runningLock' = None
    /\ Goto(Stopper(l), "remember")
    /\ UNCHANGED <<pending, finished, started, process, pendingLock, seen, told,
                   faults>>

WaitFails(l) ==
    /\ At(Stopper(l), "await")
    /\ Fault
    /\ runningLock' = None
    /\ Goto(Stopper(l), "idle")
    /\ UNCHANGED <<tables, state, started, process, pendingLock, carry, seen, told>>

RememberStopped(l) == Keep(Stopper(l), "remember", "report")

ReportStopped(l) ==
    /\ At(Stopper(l), "report")
    /\ shown' = [shown EXCEPT ![l] = "exited"]
    /\ Goto(Stopper(l), "idle")
    /\ UNCHANGED <<tables, state, started, process, locks, carry, seen, last,
                   errors, faults>>
-----------------------------------------------------------------------------
\* What a starting command does once the user asked for it.
Start(l) ==
    \/ CleanBeforeReserve(l) \/ Claim(l) \/ Refuse(l) \/ Reserve(l) \/ Tell(l)
    \/ TransitionPending(l) \/ PrepareFails(l) \/ CleanBeforeLaunch(l)
    \/ Precheck(l) \/ CleanBeforeSpawn(l) \/ Boundary(l) \/ Cross(l)
    \/ CrossFails(l) \/ AttachFails(l) \/ Reap(l) \/ FailPending(l)
    \/ RememberFailed(l)

Watch(l) == Poll(l) \/ PollFails(l) \/ Misses(l) \/ Judge(l)

Halt(l) ==
    \/ LookUp(l) \/ Announce(l) \/ StopUnknown(l) \/ Stop(l) \/ StopFails(l)
    \/ Stopped(l) \/ WaitFails(l) \/ RememberStopped(l) \/ ReportStopped(l)

Next ==
    \/ \E l \in Launches :
         \/ Request(l) \/ Start(l) \/ Exit(l)
         \/ Watch(l) \/ AskToStop(l) \/ Halt(l)
    \/ List

Spec == Init /\ [][Next]_vars

\* The runtime polls every ready task, and its mutexes are granted in the order
\* they were asked for, so no task waits for ever for one that keeps coming
\* free.  A preparation ends: it does not transition for ever.  The user need
\* not ask for anything and no process need end by itself.
Fairness ==
    /\ \A l \in Launches :
         /\ SF_vars(Start(l))
         /\ SF_vars(PrepareFails(l) \/ (TransitionPending(l) /\ state'[l] = "starting"))
         /\ SF_vars(Watch(l))
         /\ SF_vars(Halt(l))
    /\ WF_vars(Keep(Lister, "keep", "idle"))

FairSpec == Spec /\ Fairness
-----------------------------------------------------------------------------
Steps == {"idle", "done", "reserve", "reserve-keep", "claim", "reserving",
          "tell", "prepare", "launch", "launch-keep", "precheck", "spawn",
          "spawn-keep", "boundary", "cross", "reap", "fail", "remember",
          "collect", "keep", "read", "read-finished",
          "judge", "announce", "stop", "await", "report"}

\* Every variable has its type.
TypeOK ==
    /\ pending \subseteq Launches
    /\ running \subseteq Launches
    /\ finished \subseteq Launches
    /\ state \in [Launches -> States]
    /\ started \in [Launches -> Nat]
    /\ process \in [Launches -> {"none", "alive"} \cup Ended]
    /\ pendingLock \in Tasks \cup {None}
    /\ runningLock \in Tasks \cup {None}
    /\ pc \in [Tasks -> Steps]
    /\ carry \in [Tasks -> SUBSET Launches]
    /\ seen \in [Tasks -> States \cup {None}]
    /\ last \in [Launches -> States]
    /\ errors \in [Launches -> 0..GiveUp]
    /\ shown \in [Launches -> States \cup {None}]
    /\ faults \in 0..MaxFaults

\* However requests, retries, exits and stops interleave, a profile has one
\* active launch at most: five quick clicks start one game.
OneActiveLaunch ==
    \A l, x \in Active : ProfileOf[l] = ProfileOf[x] => l = x

Alive == {l \in Launches : process[l] = "alive"}

\* Two processes never use the directory of one profile at the same time, not
\* even when a stop failed and left the process running.
OneProcess ==
    \A l, x \in Alive : ProfileOf[l] = ProfileOf[x] => l = x

\* Covers reserve, the boundary of launch, stop and fail_launch.
OneLaunchPerProfile == OneActiveLaunch /\ OneProcess

\* A living process has its record in the running table, where a stop finds
\* it, unless it is being killed before it ever ran.
LiveProcessIsListed ==
    \A l \in Alive : l \in running \/ At(Starter(l), "reap")

\* A record is in one table or carried by one task, never in two places; only
\* from the finished table does it disappear.
OneRecord ==
    /\ pending \cap running = {}
    /\ Active \cap finished = {}
    /\ \A t \in Tasks : carry[t] \cap (Active \cup finished) = {}
    /\ \A t, u \in Tasks : t # u => carry[t] \cap carry[u] = {}

\* What runs can be found and stopped, and is told of once: the records of the
\* three tables are those of the processes.  Covers statuses, which goes through
\* the tables one after the other, cleanup_finished and stop.
RecordsAreFound == LiveProcessIsListed /\ OneRecord

\* When the starting command has ended, no reservation is left that would
\* refuse the profile for ever.
ReservationReleased ==
    \A l \in pending : ~At(Starter(l), "done") /\ ~At(Starter(l), "idle")

\* Whoever holds the mutex of running waits for the end of a process that was
\* killed and for nothing else: neither for the other mutex nor for a game that
\* is still being played.
LockNeverAwaitsGame ==
    \A t \in Tasks : runningLock = t =>
        \E l \in Launches :
            \/ t = Starter(l) /\ At(t, "reap")
            \/ t = Stopper(l) /\ At(t, "await") /\ process[l] \in Ended

\* Nothing that is left behind, and nobody who waits, keeps a profile or the
\* whole manager from being used.  Covers every error after reserve.
NothingIsHeld == ReservationReleased /\ LockNeverAwaitsGame

Watched(l) == pc[Monitor(l)] \notin {"idle", "done"}

\* While a launch is watched, its end is told to the window as exited or
\* failed: the monitor does not miss a record on its way between two tables.
EndIsReported ==
    \A l \in Launches : process[l] \in Ended /\ Watched(l) ~> shown[l] \in Final

\* A command that was started returns.
CommandsReturn ==
    \A l \in Launches :
        /\ ~At(Stopper(l), "idle") ~> At(Stopper(l), "idle")
        /\ At(Starter(l), "reserve") ~> At(Starter(l), "done")

\* A launch that was told to have ended is not told to be active again.
\* Does not hold: phase5_stop_launch tells what it has read before.
FinalStatusStays ==
    [][\A l \in Launches : shown[l] \in Final => shown'[l] \in Final]_vars
=============================================================================
