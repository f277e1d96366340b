---------------------------- MODULE ProfileSharing ----------------------------
(***************************************************************************)
(* Data that profiles share: the worlds of the profiles that share them,   *)
(* and the server list of all profiles.                                    *)
(*                                                                         *)
(* A profile always plays on files of its own.  Before a game starts they  *)
(* are brought in line with the shared copy ("materialize"); after it has  *)
(* ended its changes are carried to the shared copy ("ingest"), by a       *)
(* background job, by the next launch or by the next look at the list of   *)
(* profiles, whoever comes first.  A baseline for each profile tells which *)
(* of its files have changed since.                                        *)
(*                                                                         *)
(* A file is its stamp, size and time of the last change, and 0 if absent: *)
(* two contents never have one stamp, and a copy keeps the stamp of its    *)
(* source, as copies on Windows do.                                        *)
(*                                                                         *)
(* Nothing in the code keeps launches, syncs, listings and the user apart. *)
(* Where they get in each other's way is recorded in lapses, and there the *)
(* worlds can be wrong; the properties say when they are right.            *)
(***************************************************************************)
EXTENDS Absence, Integers, FiniteSets

CONSTANTS
    Profiles,
    Standard,    \* the profile created first
    Worlds,      \* files below saves/
    Writers,     \* profiles whose games change their lists of servers
    MaxFinished, \* ends of games the launcher lists: 16
    MaxSynced,   \* ends it remembers to have synced: 64
    Bounds       \* how much may happen, see BoundsAssumption

VARIABLES
    bound,     \* one of Bounds
    own,       \* saves/ of each profile
    shared,    \* shared-minecraft/worlds
    manifest,  \* what the launcher believes is in there, or None
    dirty,     \* the mark that it may be wrong
    base,      \* the baseline of each profile
    last,      \* last-launch.json: [of, shares], or None
    sharing,   \* profiles with share_worlds
    games,     \* profiles whose game runs
    known,     \* those the launcher knows of
    finished,  \* the ends the launcher lists: [id, of, told]; told is history
    synced,    \* synced_sharing_launches
    ends,      \* how many there were; by, history: who has the newest worlds
    tasks,     \* services at work
    servers,   \* servers.dat: shared, of each profile, its baselines
    clock,     \* stamps used so far
    faults,    \* failed tasks and ends of the launcher so far
    latest,    \* history: what players and the user have made of the worlds
    attended,  \* history: the last launch was seen to since the last fault
    lapses     \* history: what first went on against what the code relies on

disk == <<own, shared, manifest, dirty, base, last>>
ledger == <<finished, synced, ends>>
history == <<latest, attended, lapses>>
vars == <<bound, disk, sharing, games, known, ledger, tasks, servers, clock, faults, history>>

NoWorlds == [w \in Worlds |-> 0]
Files == [Worlds -> Nat]

ASSUME StandardAssumption == Standard \in Profiles
(* The games that end while the launcher looks, the changes of files by games and  *)
(* by the user, the changes of server lists by games, the times a task fails or    *)
(* the launcher is closed, the tasks at a time, and the list of servers of the     *)
(* standard profile, 0 without one.                                                *)
ASSUME BoundsAssumption ==
    Bounds \subseteq [ends : Nat, stamps : Nat, servers : Nat, faults : Nat, tasks : Nat, list : Nat]
ASSUME TablesAssumption == MaxFinished \in Nat \ {0} /\ MaxFinished <= MaxSynced
(* Neither a listing nor the record of a launch is the absence of one. *)
ASSUME AbsenceAssumption ==
    None \notin Files /\ None \notin [of : Profiles, shares : BOOLEAN]

FirstServers(list) ==
    [shared |-> 0, own |-> [p \in Profiles |-> IF p = Standard THEN list ELSE 0],
     base |-> [p \in Profiles |-> 0]]

\* The standard profile has been played, with some worlds, before anything was
\* shared.
Init ==
    /\ bound \in Bounds
    /\ latest \in [Worlds -> {0, 1}]
    /\ own = [p \in Profiles |-> IF p = Standard THEN latest ELSE NoWorlds]
    /\ shared = NoWorlds /\ manifest = None /\ dirty = FALSE
    /\ base = [p \in Profiles |-> NoWorlds]
    /\ last = None
    /\ sharing = {} /\ games = {} /\ known = {} /\ tasks = {}
    /\ finished = {} /\ synced = {} /\ ends = [all |-> 0, by |-> None]
    /\ servers = FirstServers(bound.list)
    /\ clock = [worlds |-> 1, servers |-> bound.list] /\ faults = 0
    /\ attended = TRUE /\ lapses = {}

(***************************************************************************)
(* What the code relies on and does not see to:                            *)
(*   together   a game is launched while another is launched or runs       *)
(*   midgame    a profile that begins to share is being played             *)
(*   overlap    a task begins with the shared directory while another is   *)
(*              at work                                                    *)
(*   late       a sync, the first or a repeated one, is at work when the   *)
(*              newest worlds are no longer those of its profile           *)
(*   early      a listing or a sync carries over a game that has begun     *)
(*              again since                                                *)
(*   torn       a task ends between the removal of a listing and the new   *)
(*              one                                                        *)
(*   left       a game goes on when the launcher is closed                 *)
(*   forgotten  an end is lost that last-launch.json does not tell         *)
(*   edited     the shared folder is changed without having been opened,   *)
(*              or while there is something to do                          *)
(*   kept       a world is deleted that a profile which does not share has *)
(***************************************************************************)
Lapse(S) == lapses' = IF lapses = {} THEN S ELSE lapses

-----------------------------------------------------------------------------
(* The server list: one file, with a stamp as baseline *)

\* Mutant: a list that is there stays.
MaterializeMissing(s, p) ==
    [s EXCEPT !.own[p] = IF s.base[p] # s.shared /\ s.own[p] = 0 THEN s.shared ELSE @,
              !.base[p] = s.shared]

\* materialize_shared_file
MaterializeFile(s, p) ==
    [s EXCEPT !.own[p] = IF s.base[p] # s.shared THEN s.shared ELSE @,
              !.base[p] = s.shared]

\* ingest_shared_file
IngestFile(s, p) ==
    LET to == IF s.own[p] # s.base[p] THEN s.own[p] ELSE s.shared
    IN [s EXCEPT !.shared = to, !.base[p] = to]

\* ensure_global_servers_seeded
SeedFile(s) == IF s.shared = 0 THEN [s EXCEPT !.shared = s.own[Standard]] ELSE s

\* sync_servers_to_inactive_profiles, after the last launch
SyncServers(s, active) ==
    LET seeded == SeedFile(s)
        led    == IF Standard \in active THEN seeded ELSE IngestFile(seeded, Standard)
        reached(p) == p \notin active
    IN IF led.shared = 0 THEN led
       ELSE [led EXCEPT
               !.own  = [p \in Profiles |-> IF reached(p) THEN MaterializeFile(led, p).own[p] ELSE @[p]],
               !.base = [p \in Profiles |-> IF reached(p) THEN led.shared ELSE @[p]]]

-----------------------------------------------------------------------------
(* Tasks.  A launch ingests the last launch and materializes its profile; a *)
(* background sync ingests the profile whose game has ended; the list of    *)
(* profiles ingests the last launch, unless its game runs; a profile that   *)
(* begins to share is materialized.  The step of a task is what it does     *)
(* next.                                                                    *)

Task(kind, p, id) ==
    [kind |-> kind, for |-> p, id |-> id, active |-> {}, step |-> "begin",
     of |-> p, shares |-> FALSE, way |-> "in",
     files |-> NoWorlds, base |-> NoWorlds, seen |-> NoWorlds]

Launching == {t.for : t \in {u \in tasks : u.kind = "launch"}}
Running   == known \cup Launching
Free      == Cardinality(tasks) < bound.tasks

\* Whose changes are to be carried over, and that last-launch.json does not tell.
Owing     == games \cup {r.of : r \in {o \in finished : ~o.told}}
                   \cup {t.for : t \in {u \in tasks : u.kind = "sync"}}
Forgotten == \E p \in Owing : last = None \/ last.of # p

\* At work on the shared directory
Busy(t)   == t.step \notin {"begin", "share", "record", "recording", "start"}
Torn(t)   == t.step \in {"relisting", "listing"}

Add(t)        == tasks' = tasks \cup {t}
Replace(t, u) == tasks' = (tasks \ {t}) \cup {u}
Go(t, step)   == Replace(t, [t EXCEPT !.step = step])
End(t)        == tasks' = tasks \ {t}

\* prepare_for_launch and what calls it: a launch of a profile that has one is
\* refused.
BeginLaunch(p) ==
    /\ p \notin Running /\ Free
    /\ Add([Task("launch", p, 0) EXCEPT !.shares = p \in sharing])
    /\ Lapse(IF games \cup Launching # {} THEN {"together"} ELSE {})
    /\ UNCHANGED <<bound, disk, sharing, games, known, ledger, servers, clock, faults, latest,
                   attended>>

\* launch_statuses and sync_profile_sharing_once: what is remembered is forgotten
\* when it is too much, and ends that are still listed are synced once more.
BeginSync(r) ==
    /\ r \in finished /\ r.id \notin synced /\ Free
    /\ LET more == synced \cup {r.id} IN
          synced' = IF Cardinality(more) > MaxSynced THEN {r.id} ELSE more
    /\ finished' = (finished \ {r}) \cup {[r EXCEPT !.told = TRUE]}
    /\ Add(Task("sync", r.of, r.id))
    /\ UNCHANGED <<bound, disk, sharing, games, known, ends, servers, clock, faults, history>>

\* profiles_workspace notes which profiles are played, and then looks.
BeginRefresh ==
    /\ Free
    /\ Add([Task("refresh", Standard, 0) EXCEPT !.active = Running])
    /\ UNCHANGED <<bound, disk, sharing, games, known, ledger, servers, clock, faults, history>>

\* save_instance_settings, for a profile that is to share
BeginSharing(p) ==
    /\ p \notin sharing /\ Free
    /\ \A t \in tasks : t.kind = "settings" => t.for # p
    /\ Add([Task("settings", p, 0) EXCEPT !.step = "seed", !.way = "out"])
    /\ servers' = MaterializeFile(SeedFile(servers), p)
    /\ UNCHANGED <<bound, disk, sharing, games, known, ledger, clock, faults, history>>

-----------------------------------------------------------------------------
(* The last launch *)

\* Mutant: the list of profiles never sees to the last launch.
WaitsAlways(t) == t.kind = "refresh"

\* The list of profiles leaves the last launch alone while its game runs.
Waits(t) == t.kind = "refresh" /\ last # None /\ last.of \in t.active

\* Mutant: a launch leaves the last one to its sync.
CarriesSynced(t) == IF t.kind = "sync" THEN {t.for}
                    ELSE IF t.kind = "launch" \/ last = None \/ Waits(t) THEN {} ELSE {last.of}

\* The profile whose changes the task carries over, if any.
Carries(t) == IF t.kind = "sync" THEN {t.for}
              ELSE IF last = None \/ Waits(t) THEN {} ELSE {last.of}

\* The server lists are one file each and done with at once.
ServersOf(t) ==
    LET before == IF Carries(t) = {} THEN servers
                  ELSE IngestFile(SeedFile(servers), CHOOSE p \in Carries(t) : TRUE)
    IN IF t.kind = "launch" THEN MaterializeFile(SeedFile(before), t.for)
       ELSE IF t.kind = "refresh" THEN SyncServers(before, t.active) ELSE before

AfterIngest(t) == IF t.kind = "launch" THEN (IF t.shares THEN "seed" ELSE "record") ELSE "done"

\* load_last_launch, or the settings of the profile that was played: these decide
\* for a sync, what was shared at its start for the last launch.
LoadLast(t) ==
    /\ t.step = "begin"
    /\ servers' = ServersOf(t)
    /\ IF Carries(t) = {}
       THEN /\ attended' = (attended \/ ~Waits(t))
            /\ IF t.kind = "launch" THEN Replace(t, [t EXCEPT !.step = AfterIngest(t), !.way = "out"])
                                    ELSE End(t)
       ELSE /\ UNCHANGED attended
            /\ \E p \in Carries(t) :
                  LET shares == IF t.kind = "sync" THEN p \in sharing ELSE last.shares
                  IN Replace(t, [t EXCEPT !.of = p, !.step = IF shares THEN "scan" ELSE "clear"])
    /\ Lapse(IF Carries(t) = {} /\ t.kind # "launch" THEN {}
             ELSE IF \E u \in tasks : Busy(u) THEN {"overlap"}
             ELSE IF t.kind = "sync" /\ t.for # ends.by THEN {"late"}
             ELSE IF t.kind # "launch" /\ Carries(t) \subseteq games \cup Launching THEN {"early"} ELSE {})
    /\ UNCHANGED <<bound, disk, sharing, games, known, ledger, clock, faults, latest>>

\* clear_last_launch: a sync clears only the record of its profile.
ClearLast(t) ==
    /\ t.step = "clear"
    /\ last' = IF t.kind = "sync" /\ last # None /\ last.of # t.for THEN last ELSE None
    /\ attended' = (attended \/ t.kind # "sync")
    /\ IF t.kind = "launch"
       THEN Replace(t, [t EXCEPT !.step = AfterIngest(t), !.way = "out", !.of = t.for])
       ELSE End(t)
    /\ UNCHANGED <<bound, own, shared, manifest, dirty, base, sharing, games, known, ledger,
                   servers, clock, faults, latest, lapses>>

-----------------------------------------------------------------------------
(* The shared directory *)

\* Mutant: the mark is forgotten.
SnapshotListed(files) == IF manifest = None THEN files ELSE manifest

\* shared_directory_snapshot: the manifest, unless the directory is dirty.
Snapshot(files) == IF dirty \/ manifest = None THEN files ELSE manifest

\* ensure_shared_directory_seeded copies what the standard profile has.
Seeded == [w \in Worlds |-> IF own[Standard][w] # 0 THEN own[Standard][w] ELSE shared[w]]

Seed(t) ==
    /\ t.step = "seed"
    /\ IF manifest = None
       THEN shared' = Seeded /\ Replace(t, [t EXCEPT !.step = "seeding", !.seen = Seeded])
       ELSE shared' = shared /\ Go(t, "scan")
    /\ Lapse(IF \E u \in tasks \ {t} : Busy(u) THEN {"overlap"} ELSE {})
    /\ UNCHANGED <<bound, own, manifest, dirty, base, last, sharing, games, known, ledger,
                   servers, clock, faults, latest, attended>>

\* ingest_shared_directory reads the profile, its baseline and the snapshot;
\* materialize_shared_directory reads the snapshot.
Scan(t) ==
    /\ t.step = "scan"
    /\ Replace(t, [t EXCEPT !.step = IF dirty \/ manifest = None THEN "relist" ELSE "copy",
                            !.files = IF t.way = "in" THEN own[t.of] ELSE @,
                            !.base = IF t.way = "in" THEN base[t.of] ELSE @,
                            !.seen = Snapshot(shared)])
    /\ UNCHANGED <<bound, disk, sharing, games, known, ledger, servers, clock, faults, history>>

\* atomic_json_write removes the old listing ...
RemoveListing(t) ==
    /\ t.step \in {"relist", "list"}
    /\ manifest' = None
    /\ Go(t, IF t.step = "list" THEN "listing" ELSE "relisting")
    /\ UNCHANGED <<bound, own, shared, dirty, base, last, sharing, games, known, ledger, servers,
                   clock, faults, history>>

\* ... and gives the new one its name.  A seeded directory had none.
PutListing(t) ==
    /\ t.step \in {"seeding", "relisting", "listing"}
    /\ manifest' = t.seen
    /\ Go(t, CASE t.step = "seeding"   -> "scan"
               [] t.step = "relisting" -> "unmark"
               [] t.step = "listing"   -> "rebase")
    /\ UNCHANGED <<bound, own, shared, dirty, base, last, sharing, games, known, ledger, servers,
                   clock, faults, history>>

\* The rescan has been saved: the mark goes.
Unmark(t) ==
    /\ t.step = "unmark"
    /\ dirty' = FALSE
    /\ Go(t, "copy")
    /\ UNCHANGED <<bound, own, shared, manifest, base, last, sharing, games, known, ledger,
                   servers, clock, faults, history>>

\* What the profile has changed since its baseline.
Changed(t, w) == t.files[w] # t.base[w]
\* Mutant: what the profile removed stays listed.
IngestedAdditions(t) ==
    [w \in Worlds |-> IF Changed(t, w) /\ t.files[w] # 0 THEN t.files[w] ELSE t.seen[w]]
Ingested(t) == [w \in Worlds |-> IF Changed(t, w) THEN t.files[w] ELSE t.seen[w]]

\* A file that was there and is not is an error, which ends the task.
CopyToShared(t) ==
    /\ t.step = "copy" /\ t.way = "in"
    /\ IF \E w \in Worlds : Changed(t, w) /\ t.files[w] # 0 /\ own[t.of][w] = 0
       THEN End(t) /\ UNCHANGED shared
       ELSE /\ shared' = [w \in Worlds |-> IF ~Changed(t, w) THEN shared[w]
                                           ELSE IF t.files[w] = 0 THEN 0 ELSE own[t.of][w]]
            /\ Replace(t, [t EXCEPT !.step = "list", !.seen = Ingested(t),
                                    !.files = NoWorlds, !.base = NoWorlds])
    /\ UNCHANGED <<bound, own, manifest, dirty, base, last, sharing, games, known, ledger,
                   servers, clock, faults, history>>

\* materialize_shared_directory: what the shared directory has changed since.
Outdated(t, w) == t.seen[w] # base[t.for][w]
CopyToProfile(t) ==
    /\ t.step = "copy" /\ t.way = "out"
    /\ IF \E w \in Worlds : Outdated(t, w) /\ t.seen[w] # 0 /\ shared[w] = 0
       THEN End(t) /\ UNCHANGED own
       ELSE /\ own' = [own EXCEPT ![t.for] =
                  [w \in Worlds |-> IF ~Outdated(t, w) THEN @[w]
                                    ELSE IF t.seen[w] = 0 THEN 0 ELSE shared[w]]]
            /\ Go(t, "rebase")
    /\ UNCHANGED <<bound, shared, manifest, dirty, base, last, sharing, games, known, ledger,
                   servers, clock, faults, history>>

\* The baseline of a profile is written in the same way.
RemoveBaseline(t) ==
    /\ t.step = "rebase"
    /\ base' = [base EXCEPT ![t.of] = NoWorlds]
    /\ Go(t, "rebasing")
    /\ UNCHANGED <<bound, own, shared, manifest, dirty, last, sharing, games, known, ledger,
                   servers, clock, faults, history>>

PutBaseline(t) ==
    /\ t.step = "rebasing"
    /\ base' = [base EXCEPT ![t.of] = t.seen]
    /\ Replace(t, [t EXCEPT !.seen = NoWorlds,
          !.step = IF t.way = "in" THEN "clear" ELSE IF t.kind = "launch" THEN "record" ELSE "share"])
    /\ UNCHANGED <<bound, own, shared, manifest, dirty, last, sharing, games, known, ledger,
                   servers, clock, faults, history>>

\* The settings are saved when everything is in place.
Share(t) ==
    /\ t.step = "share"
    /\ sharing' = sharing \cup {t.for}
    /\ End(t)
    /\ Lapse(IF t.for \in Owing \cup Launching THEN {"midgame"} ELSE {})
    /\ ends' = [ends EXCEPT !.by = IF @ = t.for THEN None ELSE @]
    /\ UNCHANGED <<bound, disk, games, known, finished, synced, servers, clock, faults, latest,
                   attended>>

\* save_last_launch
RemoveRecord(t) ==
    /\ t.step = "record"
    /\ last' = None
    /\ Go(t, "recording")
    /\ UNCHANGED <<bound, own, shared, manifest, dirty, base, sharing, games, known, ledger,
                   servers, clock, faults, history>>

PutRecord(t) ==
    /\ t.step = "recording"
    /\ last' = [of |-> t.for, shares |-> t.shares]
    /\ Go(t, "start")
    /\ UNCHANGED <<bound, own, shared, manifest, dirty, base, sharing, games, known, ledger,
                   servers, clock, faults, history>>

\* The game starts, unless the rest of the launch fails.
Start(t) ==
    /\ t.step = "start"
    /\ \/ UNCHANGED <<games, known>>
       \/ games' = games \cup {t.for} /\ known' = known \cup {t.for}
    /\ End(t)
    /\ UNCHANGED <<bound, disk, sharing, ledger, servers, clock, faults, history>>

Work(t) ==
    \/ LoadLast(t) \/ ClearLast(t) \/ Seed(t) \/ Scan(t) \/ RemoveListing(t) \/ PutListing(t)
    \/ Unmark(t) \/ CopyToShared(t) \/ CopyToProfile(t) \/ RemoveBaseline(t) \/ PutBaseline(t)
    \/ Share(t) \/ RemoveRecord(t) \/ PutRecord(t) \/ Start(t)

-----------------------------------------------------------------------------
(* Games, the user, and what goes wrong *)

Tick(kind) == clock' = [clock EXCEPT ![kind] = @ + 1]

\* A profile that is to share brings along what it has.
Kept(w, deletes) == deletes /\ \E p \in Profiles \ sharing : own[p][w] # 0

\* A game writes, or deletes, a world.
Play(p, w, deletes) ==
    /\ p \in games \cap sharing
    /\ clock.worlds < bound.stamps
    /\ Tick("worlds")
    /\ own' = [own EXCEPT ![p][w] = IF deletes THEN 0 ELSE clock'.worlds]
    /\ latest' = [latest EXCEPT ![w] = IF deletes THEN 0 ELSE clock'.worlds]
    /\ Lapse(IF Kept(w, deletes) THEN {"kept"} ELSE {})
    /\ UNCHANGED <<bound, shared, manifest, dirty, base, last, sharing, games, known, ledger,
                   tasks, servers, faults, attended>>

\* A game changes its list of servers.
AddServer(p) ==
    /\ p \in games \cap Writers
    /\ clock.servers < bound.servers
    /\ Tick("servers")
    /\ servers' = [servers EXCEPT !.own[p] = clock'.servers]
    /\ UNCHANGED <<bound, disk, sharing, games, known, ledger, tasks, faults, history>>

\* The launcher lists the newest ends.
Newest(S) == IF Cardinality(S) <= MaxFinished THEN S
             ELSE {r \in S : \E o \in S : o.id < r.id}

\* A game ends; the launcher notes it, if it knows of the game.
Exit(p) ==
    /\ p \in games
    /\ ends.all < bound.ends
    /\ games' = games \ {p}
    /\ known' = known \ {p}
    /\ IF p \in known
       THEN /\ ends' = [ends EXCEPT !.all = @ + 1, !.by = p]
            /\ finished' = Newest(finished \cup {[id |-> ends'.all, of |-> p, told |-> FALSE]})
       ELSE UNCHANGED <<ends, finished>>
    /\ UNCHANGED <<bound, disk, sharing, synced, tasks, servers, clock, faults, history>>

\* Nobody is at work or has to be.
AtRest == games = {} /\ tasks = {} /\ last = None /\ \A r \in finished : r.told

\* directory_for_open marks the directory, and the user changes it.
OpenFolder ==
    /\ ~dirty
    /\ shared' = IF manifest = None THEN Seeded ELSE shared
    /\ manifest' = IF manifest = None THEN Seeded ELSE manifest
    /\ dirty' = TRUE
    /\ Lapse(IF \E t \in tasks : Busy(t) THEN {"overlap"} ELSE {})
    /\ UNCHANGED <<bound, own, base, last, sharing, games, known, ledger, tasks, servers, clock,
                   faults, latest, attended>>

\* The user changes a file of the shared directory.
EditShared(w, deletes) ==
    /\ clock.worlds < bound.stamps
    /\ Tick("worlds")
    /\ shared' = [shared EXCEPT ![w] = IF deletes THEN 0 ELSE clock'.worlds]
    /\ latest' = [latest EXCEPT ![w] = IF deletes THEN 0 ELSE clock'.worlds]
    /\ Lapse(IF ~dirty \/ ~AtRest THEN {"edited"} ELSE IF Kept(w, deletes) THEN {"kept"} ELSE {})
    /\ ends' = [ends EXCEPT !.by = None]
    /\ UNCHANGED <<bound, own, manifest, dirty, base, last, sharing, games, known, finished,
                   synced, tasks, servers, faults, attended>>

Interrupt ==
    /\ faults < bound.faults
    /\ faults' = faults + 1
    /\ attended' = FALSE

\* The launcher is closed and started again.  A game may go on, which nobody
\* knows of then.
Close ==
    /\ Interrupt
    /\ known' = {} /\ tasks' = {}
    /\ finished' = {} /\ synced' = {} /\ ends' = [ends EXCEPT !.by = None]
    /\ games' \in {{}, games}
    /\ Lapse(IF games' # {} THEN {"left"} ELSE IF Forgotten THEN {"forgotten"}
             ELSE IF \E t \in tasks : Torn(t) THEN {"torn"} ELSE {})
    /\ UNCHANGED <<bound, disk, sharing, servers, clock, latest>>

\* A file cannot be read or written, which ends the task.
Fail(t) ==
    /\ Interrupt
    /\ End(t)
    /\ Lapse(IF Torn(t) THEN {"torn"}
             ELSE IF t.kind = "sync" /\ Forgotten THEN {"forgotten"} ELSE {})
    /\ UNCHANGED <<bound, disk, sharing, games, known, ledger, servers, clock, latest>>

Next ==
    \/ \E t \in tasks : Work(t) \/ Fail(t)
    \/ \E r \in finished : BeginSync(r)
    \/ \E p \in Profiles : BeginLaunch(p) \/ BeginSharing(p) \/ AddServer(p) \/ Exit(p)
    \/ BeginRefresh \/ OpenFolder \/ Close
    \/ \E w \in Worlds, deletes \in BOOLEAN :
          EditShared(w, deletes) \/ \E p \in Profiles : Play(p, w, deletes)

\* Tasks go on, and the monitor of each launch asks until it has seen the end,
\* which the launcher then syncs.
Fairness ==
    /\ WF_vars(\E t \in tasks : Work(t))
    /\ WF_vars(\E r \in finished : ~r.told /\ BeginSync(r))

Spec     == Init /\ [][Next]_vars
FairSpec == Spec /\ Fairness

-----------------------------------------------------------------------------
\* The types of what is on the disk, and which games the launcher knows.
TypeOK ==
    /\ own \in [Profiles -> Files] /\ base \in [Profiles -> Files] /\ shared \in Files
    /\ manifest \in Files \cup {None}
    /\ last \in [of : Profiles, shares : BOOLEAN] \cup {None}
    /\ known \subseteq games /\ games \subseteq Profiles

\* A game of a profile that shares plays on what was last made of each world, in
\* whichever profile or in the shared folder, whoever carried it over and wherever
\* that was interrupted; and on no world that was deleted, unless an interruption
\* has brought it back.  Only what is named in lapses can keep it from that.
GamesSeeLatest ==
    /\ TypeOK
    /\ lapses = {} =>
          \A p \in games \cap sharing, w \in Worlds :
             (latest[w] # 0 \/ faults = 0) => own[p][w] = latest[w]

\* When nobody plays any more, all that was made of the worlds reaches the shared
\* directory: by the sync of each end, or, after a task has failed or the launcher
\* was closed, with the next launch or the next look at the list of profiles.
NobodyPlays == games = {} /\ Launching = {}
SharedIsLatest ==
    manifest # None => \A w \in Worlds : (latest[w] # 0 \/ faults = 0) => shared[w] = latest[w]
ChangesArrive == <>[](NobodyPlays /\ attended /\ lapses = {}) => <>[]SharedIsLatest

\* The interface says that servers.dat is taken from the oldest profile and kept
\* the same in all: after a look at the list of profiles while nobody plays all
\* have one list.  It holds as long as only that profile's games change theirs;
\* what another one adds does not reach it, and is soon taken back (section 5 of
\* README.md).
Spreads(t) == t.kind = "refresh" /\ t.active \cup games = {} /\ LoadLast(t)
Follows(p) == servers.own[p] = servers.shared
ServersFollow ==
    [][\A t \in tasks : Spreads(t) /\ lapses' = {} => \A p \in Profiles : Follows(p)']_vars
=============================================================================
