# A verified model of SNine Launcher

SNine Launcher is a Minecraft launcher: a Tauri application with a Rust core
(`src/src-tauri/src`, 44 000 lines) and a React window (`src/src`, 17 000 lines).
This directory models the core: first the parts whose correctness depends on the
order of steps (threads, asynchronous commands, a crash and the recovery after
it), then the algorithms that decide what is installed, imported and started.
The modules are translated from the Rust sources; `PROJECT.json` names the lines
every definition stands for, together about a third of the code.

## 1. The system

### Components

| Component | State it keeps | Operations | Works with | Module |
|---|---|---|---|---|
| Operation engine (`operations/`) | rows `operations`, journal, staging and revision directories | plan, register, execute (stage, verify, commit, activate, validate), roll back, recover at startup | storage, cache, every service that changes a profile | `Operations` |
| Storage (`storage/`) | one SQLite database in WAL mode | transactions over all tables; triggers that guard the active pointer | everything | in the modules of its users |
| Cache (`cache/`) | blob and quarantine files, rows `cache_blobs`, `cache_references` | activate a verified copy, sweep unreferenced blobs, reactivate | engine, content service, backups | `CacheStore` |
| Launch manager (`minecraft/profile_launch.rs`, launch commands of `ipc/`) | tables of pending, running and finished launches; child processes | reserve, transition, launch, fail, stop, list, monitor | runtime resolution, accounts, profile sharing, window | `LaunchManager` |
| Native libraries (same file) | extracted files of a revision and a mark | check, extract, trust | launch manager | `NativeCache` |
| Content projection (`content_projection.rs`) | managed files of an instance and a marker that lists them | reconcile before a launch | launch commands | `ContentProjection` |
| Content service and resolver (`content_service.rs`, `content/`) | content lock of a revision | install, update, enable, disable, remove, add a file, import a pack | engine, cache, Modrinth | `ContentService`, `ContentResolver` |
| Archives and packs (`content/archive.rs`, `content/resolver.rs`, `runtime/component.rs`) | none | inspect, refuse, read | content service, components | `Archives`, `PackIntake` |
| Profile files (`profile_format.rs`, import and export of the content service) | a file, a staging directory | export, inspect, stage, create, commit | profile service, engine, cache | `ProfileTransfer` |
| Updates and backups (`updates/`) | update policy, restore points | preview, apply several updates, back up, restore | content and profile service, cache | `ContentService`, `Backups` |
| Profile service (`profiles/`) | profile rows, lifecycle, favourites | create, duplicate, trash, delete, roll back, restore a copy | engine, storage | `Operations`, `Backups` |
| Accounts (`auth/`) | account rows, credential vault entries, pending device logins | log in, refresh, select, assign, remove | launch, capes, bridge | `Accounts` |
| Profile sharing (`minecraft/profile_sharing.rs`) | shared worlds, packs, options, servers; baselines; last launch | copy before a launch and after an exit | launch commands, window polling | `ProfileSharing` |
| Runtime resolution (`minecraft/provider.rs`, `resolver.rs`, `neoforge.rs`) | cached manifests, locks | resolve versions, loaders, arguments | installation, launch | `RuntimeResolution`, `NeoForge` |
| Runtime installation (`minecraft/service.rs`, `download/`) | staging files, cached downloads, revisions | install, change component, repair, verify | engine, cache, launch | `Installation` |
| Component trust (`components/`, `runtime/`) | keys compiled in | choose, verify, download, inspect | installation | `ComponentIntake` |
| Java runtimes (`minecraft/java_runtime.rs`) | a home per major version, a probe marker | find, install, probe | installation, launch | `JavaRuntimes` |
| Instance settings (`minecraft/instance_settings.rs`) | a file per profile | load, save, mark played | window, launch | `InstanceSettings` |
| Client delivery (`snine_client_delivery.rs`) | the client's jar, its backup, metadata and a readiness marker | probe, download, swap, ensure before a launch | launch, home screen | `ClientDelivery` |
| Support bridge, capes (`snine_bridge.rs`, `capes.rs`) | backend sessions, snapshots of loadout and skin | fetch, retry, fall back | accounts, window | `Bridge` |
| Cloud synchronisation (`cloud_sync/`) | none without a provider | merge, resolve | window | `CloudSync` |
| Configuration, Discord, fonts, logging, platform | small files or nothing | settings, output | | |
| Window (`src/src`) | stores of the shell and the workspace | commands, events, polling | IPC | |

Commands of the window are asynchronous Tauri commands: they run concurrently on
a thread pool, synchronous ones one after the other on the main thread. There is
no lock per profile, and nothing prevents a second launcher on the same data
directory. What makes this code hard:

* **Interleaving.** Two commands for one profile overlap at every await and at
  every database statement. Profiles are protected only by compare-and-swap on
  the active revision, launches by two mutexes taken in turn, the folders of an
  instance by nothing.
* **Crashes.** The engine moves directories and commits rows in separate steps;
  startup recovery sees any prefix and decides from the journalled state. Files
  beside the database (markers, settings, the client's jar, restore points) each
  have their own order of writes and renames.
* **Partial failure.** Most operations have an undo that may fail itself.
* **Stale reads.** Plans carry the state they saw; the cache sweep reads four
  sources one after the other; a stop command reads a status before it stops;
  markers are believed long after the files they vouch for were written.

### Hazards

`PROJECT.json` lists each hazard at its line with the properties that cover it. A
hazard without a property is one to which the code is exposed: its note names the
stated property that does not hold (section 5), or says why none is stated.

## 2. The modules

```
Operations ──implements──> ProfileHistory
  MCOperations            small instances
  OperationsProofs        types; the chain of revisions; the engine implements
                          ProfileHistory; completed work stays, aborted work leaves
                          nothing; the projection follows; fully old or new at rest
CacheStore                cache, sweep, and the engine's steps that touch them
  MCCacheStore, CacheStoreProofs
LaunchManager             launches from reservation to exit, and what is told
  MCLaunchManager, LaunchManagerProofs
ContentProjection         the files of an instance before a launch
  MCContentProjection, ContentProjectionProofs
Accounts                  logins and credentials
  MCAccounts, AccountsProofs
ContentResolver <- ContentService   content commands          MCContentService
ProfileSharing            worlds and servers of profiles    MCProfileSharing
ClientDelivery            the client in the mods folder
  MCClientDelivery, ClientDeliveryProofs
Absence                   the value of what is not there
  Archives <- NativeCache, PackIntake, ProfileTransfer, ComponentIntake, NeoForge
  ComponentIntake, NeoForge, PackIntake, ProfileTransfer <- Intake <- UserDataProofs
  NativeCache, JavaRuntimes, Installation <- InstalledFiles
  InstalledFiles, ContentService <- InstalledProofs
  RuntimeResolution
  InstanceSettings, CloudSync, Bridge, Backups <- UserDataProofs
                          all of these in one instance: MCIntake
```

Components are composed where they interact. `CacheStore` contains, besides the
cache, the steps of the engine that the sweep can observe, and `Operations` the
profile service's creation and clean-up around the engine: a full product of the
two adds states but no interaction, since they share only plans, reference rows
and revision directories, which the engine touches in the same order in both.
`InstalledFiles` puts the native cache, the installation of a runtime and the
search for Java side by side, since a launch takes all three on trust; `Intake`
puts together what comes in under a signature, a declaration or a digest.
`ContentService` contains the automatic updates that call the content commands,
`Installation` the commits of content that compete with it, `Backups` the commits,
projections and edits that a restore point may meet, `ClientDelivery` and
`ProfileSharing` the launches that wait for them, `Bridge` the account's session.
Where the engine is only used, its commit is one step with the guard that
`Operations` has in full (the plan must be current).

In every module an operator that stands before the definition it resembles, and
that nothing uses, is a plausible faulty version of it (some are commented "Mutant"). They
show that the properties would notice such a fault.

### Operations

Every operation makes exactly one revision, so one constant stands for both.
`pc[o]` is the next statement of the thread that executes operation `o`; a
statement is one database transaction or one file operation, which is how the
code is divided by what a crash can separate.

| Model | Code |
|---|---|
| `exists`, `active`, `projection`, `status` | tables `profiles`, `profile_runtime_projection`, `profile_revisions` |
| `opState`, `owner`, `started`, `plan`, `corrupt` | table `operations`; `corrupt` where `planned_changes_json` does not parse |
| `refs`, `staged`, `dir` | cache references, staging and revision directory (possibly partial) |
| `Create`, `Prepare`, `PlanIsCurrent` | the service that asks for the operation and `plan_profile_operation` |
| `Register`, `RegisterTorn` | operation row and first journal entry, the second of which may fail |
| `BeginStaging` ... `Complete` | `OperationEngine::run`, statement by statement |
| `BeginRollback` ... `PurgeProfile` | `rollback`, with the reading of "new is active" separate from acting on it |
| `RunFails`, `UndoFails` | an error in a statement leads to rollback, an error there ends the thread |
| `Crash`, `Restart`, `Recover`, `FinishRecovery` | the process ends anywhere; `recover_incomplete` visits the oldest unfinished operation first |

The documents behind a plan and the verification of blobs are abstracted to a
statement that may fail; operations of the same second may be visited in either
order, as in the code, where the identifier then decides.

### ProfileHistory

What the engine promises: a profile has a stack of revisions, and a step appends
one, takes the top one back, opens or closes a profile.

### CacheStore

Threads are operations and one sweep. The mutation lock is a variable, because
activations and sweeps hold it and the engine does not. A mark reads plans,
reference rows, revision directories and staging directories in separate steps,
each blob's quarantine is a move and a row change, and every one of these may
fail or be the last before a crash. `heldMark` and `heldSweep` are history
variables: who has held its blobs since the mark, and the sweep, began.

### LaunchManager

| Model | Code |
|---|---|
| `pending`, `running`, `finished` | the three tables of `ProfileProcessManager` |
| `pendingLock`, `runningLock` | their tokio mutexes, where they are held across an await |
| `pc[t]` | the next stretch, between two awaits, of a task: start, monitor or stop command of a launch, or a listing |
| `carry[t]` | records `collect_finished_entries` or `stop` took out and did not store yet |
| `seen[t]`, `shown`, `last`, `errors` | the status a task read, the last event sent to the window, the locals of a monitor |
| `Collect`, `Keep`, `CannotCollect` | `cleanup_finished`, which every command begins with |
| `Claim`, `Reserve`, `Refuse` | `reserve`: the mutex of pending is kept while that of running is waited for |
| `TransitionPending`, `PrepareFails`, `Precheck` | the preparation in `phase5_launch_profile` and `launch` |
| `Boundary`, `Cross`, `CrossFails`, `AttachFails`, `Reap` | the creation of the process under both mutexes |
| `FailPending` | `fail_launch` |
| `Poll`, `PollFails`, `Misses`, `Judge` | one round of `spawn_launch_monitor` |
| `AskToStop` ... `ReportStopped` | `phase5_stop_launch` and `stop` |
| `Exit` | the game ends by itself |

`statuses` reads the tables one after the other. Reading pending and running is
one step of the model: a launch moves from one to the other while both mutexes
are held, so no interleaving distinguishes the two. The finished table is read
separately, because a record is in neither table between `Collect` and `Keep`.

### ContentProjection

One instance, because a global mutex serializes projections and nothing is shared
between instances. A plan gives each target nothing, a managed item or a seed.

| Model | Code |
|---|---|
| `file`, `marker`, `kept` | the instance, its marker, and the backups in transaction directories nobody removed |
| `prev`, `want` | the marker read and the projection desired |
| `staged`, `backup`, `markerBackup`, `activated` | the transaction directory and the two lists of moves |
| `Begin`, `Acceptable` | `project_content_for_launch_locked` up to its last check |
| `Stage`, `StageMarker` | `stage_desired_projection`, `stage_marker` |
| `BackUp`, `BackUpMarker`, `Skip`, `Activate`, `PlaceMarker` | the moves of `apply_projection_transaction`, the last of which commits |
| `MoveFails`, `Blocked` | a move fails by itself, or because its source is gone or its target taken |
| `Deactivate` ... `UndoneInPart` | `rollback_moves`, which goes on after an error |
| `Crash`, `UserChanges` | the process ends; the user, the game or another program writes or deletes a file |

`committed`, `before`, `touched`, `altered`, `outcome` and `interrupted` are history
variables. The code visits targets in the order of their names; the model takes
any order. The reads behind `Begin` are one step, since only their verdict
survives: a change between two of them is a change before or after the whole.
`rename_new` looks whether the target exists and then moves; nothing lies between
the two but a call to the file system, which the model makes one step. A refused
launch and one with nothing to reconcile change nothing and are left out. A flush
of a directory that fails after a successful move exists on Unix only; the
product is built for Windows.

### Accounts

Two stores without a common transaction: the account rows of SQLite and the
credential vault, where a credential is several entries written one by one.

| Model | Code |
|---|---|
| `row`, `selected`, `assigned` | the account tables of `auth/store.rs` |
| `entry` | the vault: which fields each reference has |
| `pending`, `cancelled`, `claimed`, `expired` | `AuthService.pending`, the flags of a `PendingLogin` |
| `pc[c]`, `kind`, `seen`, `old`, `kept` | an asynchronous command between two statements or awaits, and its locals |
| `BeginCompletion`, `poll`, `answer`, `exchange`, `release` | `complete_device_login`, its claim and release |
| `BeginSession` | `minecraft_session` and `refresh_account` |
| `putRefresh` ... `rollback` | `persist_authenticated` and the rotation of the credential with its undo |
| `BeginRemove`, `CancelDeviceLogin`, `SelectAccount`, `AssignProfileAccount` | synchronous commands |

### ContentResolver, ContentService

`ContentResolver` has `solve_active` (a search with backtracking, as a recursive
function over the identifiers decided so far) and `validate_resolved_content_lock`.
`MCContentService` compares the search with a definition of its own, over every
small catalogue. The import of a pack follows `prepare_pack_transition`: `Replaced`
are the memberships of the version it replaces, `Passed` and `Joined` those that
exist afterwards, `Removed` the selections that go. In
`ContentService` a command reads the active documents, waits for the network, and
commits if the profile has no other revision by then.

| Model | Code |
|---|---|
| `lock`, `stale` | the content lock of the active revision; who has planned for an older one |
| `listed`, `ListVersion` | what Modrinth offers, which may change during a command |
| `StartInstall`, `BeginUpdate`, `Work` | `install`, `update` and the import of a pack, from reading to commit |
| `Toggle`, `Remove`, `AddLocalFile` | the synchronous commands |
| `BeginApply`, `plan` | `apply_updates`: one operation per item, and back to the base revision after a failure |
| `intent`, `touched` | history: what the user said last; who was overtaken |

Not in it: collisions of a target with an ancestor of another, budgets, the
inspection of files (`Archives`). The rollback inside `apply_updates` succeeds.

### ProfileSharing

One shared directory stands for all of them (`worlds`), and the server list for
the shared single files. A world is a number, a stamp, that grows with each
change; a copy of a set of worlds is one step.

| Model | Code |
|---|---|
| `shared`, `own`, `base`, `manifest`, `dirty` | the shared directory, the profiles' own, baselines, the shared listing and the mark that it may be wrong |
| `last`, `games`, `known` | the record of the last launch; games, and those the launcher knows |
| `finished`, `synced`, `BeginSync` | the ends the launcher lists (16) and those it remembers to have synced (64); when there are more it forgets all, and what is still listed is synced again |
| `tasks`, `Work` | launches, syncs, looks at the list of profiles and saved settings, between two file operations |
| `RemoveListing`/`PutListing`, `RemoveBaseline`/`PutBaseline`, `RemoveRecord`/`PutRecord` | the two halves of `atomic_json_write`, which removes the old file first |
| `BeginRefresh` | `profiles_workspace`, which notes who plays before it looks |
| `Play`, `EditShared`, `AddServer`, `Exit`, `OpenFolder`, `BeginSharing` | the player and the user |
| `Fail`, `Close` | a file operation fails; the launcher is closed and started again, a game may go on |
| `latest`, `attended`, `lapses`, `ends.by`, `told` | history |

Tasks, games and the user are as free as in the code: nothing holds a launch, a
sync and a listing apart. The code relies on more than that, and where it is let
down the worlds can be wrong. `lapses` names the first such event, and the
properties speak of behaviours without one. Each name was found by a counterexample:

| Lapse | What then goes wrong |
|---|---|
| `together` | two games play on one world, and the later sync wins; or one launch replaces the record of the other |
| `overlap` | a task that has scanned puts back what another one has changed, or clears the record of a launch that began meanwhile |
| `late` | the sync of a game, or its repetition after `synced` was cleared, runs when another profile has played or the user has edited since: the baseline moves to files the profile does not have (`profile_sharing.rs:448`), and its next game plays a stale world |
| `early` | a listing that noted who plays before a launch carries over, and clears, the launch it did not see |
| `torn` | a listing is removed and its successor not yet there: the directory is seeded again from the oldest profile, whose files may be older |
| `left`, `forgotten` | the launcher forgets a game that goes on, or an end that the record does not tell |
| `midgame` | a profile that begins to share is already played on files it will not get |
| `edited` | files changed behind the listing, or while a task has read it |
| `kept` | a deleted world comes back from a profile that begins to share later |

Simplified: two tasks that are alike and equally far count as one; the ends
listed are the newest, although the code keeps those that started last, which
differs only when games overlap; a failed launch takes no place among them.
Games of profiles that do not share write no worlds. The server
lists of a task are done with in one step.

### ClientDelivery

| Model | Code |
|---|---|
| `jar`, `backup`, `meta`, `mods`, `marker` | files of a profile |
| `probe`, `lock` | `REMOTE_PROBE_CACHE`, `CLIENT_DOWNLOAD_LOCK` |
| `work[t]` | a launch or the home screen between two awaits or file operations |
| `remote`, `Publish`, `Expire` | the host's build; the cache of the probe runs out |
| `Crash`, `Replace` | the process ends; the user replaces the jar |

The three transports differ in what they check; curl and PowerShell are one. The
contents of `.part` files, the memory of a failed probe, and progress are left
out. The user acts only while nothing is done for the profile.

### The parts of MCIntake

These share no state, so one instance chooses in its initial state which of them
it looks at (`part`); the others stand still.

| Module | Code | State and steps |
|---|---|---|
| `Archives` | `runtime/component.rs`, `content/archive.rs`, `security/` | operators: which entries of a jar or content archive are accepted; names are compared by their collision keys |
| `NativeCache` | natives of `profile_launch.rs` | checks of all jars, then extraction file by file, then the mark by a rename; the process may end at each |
| `PackIntake` | `content_service.rs` (`import_mrpack`), `content/resolver.rs` | archive and index, then the two layers of overrides entry by entry, the layout, one lookup per listed file |
| `ProfileTransfer` | `profile_format.rs`, import and export | the document and its artifacts; the file may change between inspection and staging; artifacts are activated one by one and each may fail, as may the removal of the staging directory and the creation of the profile; nobody sweeps the cache meanwhile |
| `ComponentIntake` | `components/`, `runtime/component.rs` | catalog, choice of a manifest, signature, download, jar |
| `RuntimeResolution` | `minecraft/provider.rs`, `resolver.rs`, arguments of `profile_launch.rs` | from version documents through the lock to the arguments of the game |
| `NeoForge` | `minecraft/neoforge.rs` | inspection, plan, readiness; the service then refuses; staging and processors as the code under test has them |
| `JavaRuntimes` | `minecraft/java_runtime.rs` | search, lock, download, extraction, probe, placement, marker |
| `Installation` | `minecraft/service.rs`, `download/mod.rs` | commands that download with partial files and commit; verification with a marker; damage by others |
| `Backups` | `updates/service.rs`, `profiles/service.rs` | a restore point file by file, its name, its pins; restoring; commits, projections and edits meanwhile |
| `InstanceSettings` | `minecraft/instance_settings.rs` | temporary file, previous file and final name of two writers |
| `CloudSync` | `cloud_sync/service.rs` | three-way merge and resolution |
| `Bridge` | `snine_bridge.rs`, `capes.rs` | sessions with one retry, snapshot files that commands share, sources of a skin |

What they simplify, beyond the comments in the modules:

* `Installation`: a task runs one command; digests are identities of artifacts; a
  commit is one step. `NeoForge` has no plan hash, and a digest is what the file
  holds. `ComponentIntake` has abstract keys: a signature is made by a key over a
  payload.
* `JavaRuntimes`: nobody swaps the executable between its probe and its marker.
* `Backups`: a projection is two steps, since only the absence of the marker is
  seen. `InstanceSettings`: a save is the statements of `atomic_json_write`.
* `Bridge`: one account; the skin commands are one step each; a name that a
  player gave up is taken by somebody else or stays free.
* `CloudSync`: only the merge; nothing is pulled or pushed without a provider.

## 3. Model checking

| Run | Result | What it shows |
|---|---|---|
| `overlap` | pass | three operations of one profile, its creation included, overlap as they like, with an error or crash anywhere: the history can be undone, the projection follows, what ended is whole, refinement of `ProfileHistory` |
| `serialized` | pass | callers that do not overlap, two profiles, two faults, an unreadable plan: fully old or fully new, undone rows invalidated and the runtime projection back (`AllOrNothing`), no undone revision returns, recovery converges |
| `race` | pass | two operations, two blobs, a sweep, two faults: no content lost, nothing held is swept, a sweep restores what was held; without faults rows and files agree |
| `launch_race` | pass | two launches of one profile, one of which may be stopped at any time, a listing, one failing call: one launch, every process has its record, no mutex or reservation stays |
| `launch_live` | pass | with room in the finished table every end is told; every start and stop command returns |
| `project` | pass | any sequence of plans over two targets, the user changing files throughout, one error or crash: fully old or fully new, what was committed stays, no other file touched |
| `accounts` | pass | a login, two commands for one account, a failing statement, a crash: a row that counts as signed in has a credential that can be read, no secret is left behind, a cancelled login stays out, a completion returns |
| `content` | pass | commands on five contents of which two are packs, new versions appearing: selections follow what was asked, every computed lock is valid and the search agrees with its definition, a list of updates is applied as a whole or not at all |
| `sharing` | pass | three narrow instances: three games whose ends fill the tables, so that syncs are repeated; one failure, or one end of the launcher, at any step of two overlapping tasks; changes of server lists. Without a lapse a game starts with the latest worlds, what was made of them reaches the shared folder, and after a look at the profiles all have one list of servers |
| `delivery` | pass | a launch and the home screen on one profile, two builds, a crash, an edit: records hold, a game has its client, no build is replaced by an older one, launches end |
| `hostage` | violation | section 5 |
| `intake` | pass | the thirteen parts of `MCIntake`, each over all its small inputs: components, installers, packs and profile files are what was signed and declared, and what is refused leaves nothing (`IntakeIsVerified`), exports and version documents are followed to the letter (`DocumentsAreFollowed`), what markers vouch for is whole, installs keep content, restore points hold, the player's choice survives, merges keep changes, the player's own cape and skin are shown |

**Bounds.** `MaxFaults` and the other `Max...Faults`, `Max...Crashes` bound errors
and crashes in one behaviour; two are enough for an error whose undo is
interrupted. The proofs of the invariants `overlap` checks cover every number of
faults, so one is enough there; the sequential callers of `serialized` leave room
for two. Three operations are the least with which one is undone below another
while both have a predecessor to return to. Two blobs suffice for a loop that
visits one and fails at the next; two launches for a race, since the code compares
launches only pairwise by profile. `MaxFinished` (16 in the code) and `GiveUp` (10)
are small so that eviction and surrender happen. `MayStop` limits which launches
the user stops; a stop command may be repeated without limit. `Corruptible` names
the operations whose stored plan may stop parsing. Two targets are the least with
one moved and one not; one fault suffices in `project`, because a move that the
user's own file blocks costs none, so the fault can hit the rollback of such a
move. Operations and blobs are symmetric where no temporal property but
`ImplementsHistory`, a safety property, is checked.

* `accounts`: two calls are what a race needs; one stored account and one login
  let a login meet the removal and refresh of its own account. `MaxPending` 1
  (`MAX_PENDING_DEVICE_LOGINS`) makes the table full; `MaxPolls` bounds the
  requests for a token.
* `content`: one call that waits, against synchronous commands: a second waiting
  call adds only another commit, which those already make. Three ordinary contents and two packs with
  a shared member are enough for demand to come from two sides; `MaxItems` is
  five, all of them.
* `sharing`: the variable `bound` is one of the records `MCBounds`. Three ends with
  tables of two (`MaxFinished`, `MaxSynced`; 16 and 64 in the code) are the least with
  which a sync is repeated; three stamps are a world, a change and a change of that.
  Two tasks are an overlap; with one end, the fault meets the sync of that end, the
  next launch and a listing. Two changes of a server list, by games before and
  after a look. The constraint `NoLapse` stops at a lapse: `lapses` never
  empties again, and every property speaks of behaviours where it is empty, so
  nothing they say is cut off.
* `delivery`: `MaxBuild` builds, `MaxEdits` replacements by the user.
* `intake`: the limits on archives are lowered to two or three entries and bytes
  so that each is met and exceeded; `MaxHarm` damaged files, `MaxRevisions`,
  `MaxSwaps` of an executable, `MaxEdits`, `MaxCopies`, `MaxSaves`, `MaxTokens`
  and `MaxCommands` bound the counters; two tasks, callers, writers or windows
  are a race. Interchangeable ones are symmetric; the run has no liveness
  property.

**Deadlock** is not checked in most runs (`CHECK_DEADLOCK FALSE`): the systems rest
when every operation has ended, when no fault is left, or when all launches are
over. `CommandsReturn`, `RecoveryConverges` and `CompletionReturns` check that
they do not rest too early. `project`, `content`, `delivery` and `intake` check
deadlock: users act at any time, or, in `intake`, a part that has ended says so
(`Done`).

**Fairness.** `Operations`: a thread that executes or undoes an operation runs on
(its steps wait for nobody), a launcher that is down is started again, and its
recovery, which is the same sequential code, takes its steps: weak fairness, since
each of these stays enabled until taken. Asking for an operation is not fair.
`LaunchManager`: the runtime polls every ready task and tokio's mutexes
are queues, so a task whose mutex becomes free again and again gets it: strong
fairness for the starting, watching and stopping task of each launch. A
preparation that re-enters downloading must end some time; this is the one
assumption about the network layer, whose transfers have time limits. The
user asks for nothing, and no game ends, by fairness. `Accounts`: a command takes
its next step (weak); the user neither answers nor cancels by fairness, and the
answer of a server has a time limit. `ProfileSharing`: tasks run on, and
each end that is listed is synced once, since the monitor of its launch asks every
half second until it has seen it (`ipc/mod.rs:225`; weak). Looks at the list of
profiles are not fair: the window asks for it when the page opens and when the last launch has
ended. After a fault `ChangesArrive` therefore waits for a launch or such a look (`attended`).
`ClientDelivery`: weak fairness for a task's steps, strong fairness for those that
wait for the download lock, which is a tokio mutex.

## 4. Proofs

All theorems hold for every value of the constants that meets the modules' named
assumptions, which TLC evaluates on every run.

| Module | Theorem | Argument |
|---|---|---|
| `OperationsProofs` | `TypeCorrect` | |
| | `RevisionsFormAChain`, `RollbackIsNeverRefused`, together `HistoryIsUndoable` | `ChainInv`: the chain is inductive together with the fact that an operation that was never registered has no row. A compare-and-swap appends only at the top; a rollback removes only the top, whose predecessor the chain says is committed |
| | `EngineImplementsHistory` | each action is mapped; only activation, restoration, profile creation and deletion are not stutters |
| | `CompletedStaysDurable`, `AbortIsClean`, together `EndedIsWhole` | `DurableInv` says what each statement has established and each undo statement has removed, also for operations that wait for recovery after a crash |
| | `ProjectionIsOfActiveRevision` | `ProjectionInv` adds to the two invariants above that a plan's remembered projection is that of its previous revision |
| | `OldOrNewAtRest`, `UndoneStaysUndone`, both for `Serialized` callers | `WholeInv`: what is in flight on a profile is alone there; a committed row is that of a completed operation, or on top of its profile and about to be removed or kept; and while no plan is corrupt the projection of the active revision is written and known to every registered plan. So an undo returns to a completed operation or to nothing |
| `CacheStoreProofs` | `TypeCorrect` (which no run repeats), `NothingIsLost`; `NobodyHoldingIsSwept` and `SweepRestores`, together `SweepSpares` | one conjunction of invariants: who may be at which step while the lock is held, what an engine step has on disk, where a blob's file is, which sources a mark has read and still covers whoever moved on, and what the sweep has found so far |
| | `RowsNameTheirFiles` | `FaultlessInv`: only the holder of the mutation lock is between a rename and the row that goes with it, and its step says on which side |
| `ContentProjectionProofs` | `TypeCorrect`, `NothingLost`, `Repeatable`, together `CommittedStays`; `AtomicOutcome`, `ForeignFilesStay` | for every target nobody touched, the loop the projection is in says whether its old file is in place or in the backup and whether the new one is there; the marker is moved away last and comes back first, so its place tells the same story |
| `AccountsProofs` | `AccountsInvariant`, `VaultAndRowsAgree` | `OwnerInv`: a vault reference belongs to one account, and nobody else names the credential of a call that has not written its row. `WholeInv`: while nothing fails, a credential is whole before a row names it, and what a rotation or a failed removal still touches is named by no row. `TidyInv`: while commands on an account took turns, at most one statement failed and no process ended, what the one command on it still has to delete at each of its steps |
| | `CancelledLoginStaysOut` | an action property: no step brings a login back that is out, whoever takes it |
| `ClientDeliveryProofs` | `RecordsAlwaysHold`, `DownloadsTakeTurns` | no build anywhere is newer than the host's (`HostIsAhead`); a download that is about to replace a client has a build in hand that is not older than what it replaces, nor than the tag it will write (`BuildInHand`, without which the types are not inductive either), and an installation is unmarked until its companion mods are there (`InstallIsUnmarked`) |
| | `GamesHaveClient`, where `RestoreFails = FALSE` and `Foreign` is `{0}` or empty | `LaunchHasClient`: a launch that has passed its check has the client, or a download has moved a valid one aside and will put a client in its place (`MovedAside`) |
| `InstalledProofs` | `UsedFilesStayWhole` | natives: whatever is not left to extract is in its place, nothing else is there, and the mark gets its name when nothing is left (`InPlaceBut`). Java: a marker names the stamp of an executable only if that one has run, since a new file has a stamp no other has (`DiskFits`, `FreshIsNew`), and who is given one has seen it run (`CallersFit`). Installation: what has other bytes was damaged by others, before it was trusted unless the record of the damage says so (`DamageIsKnown`), and a partial file belongs to an open download (`PartialsFit`) |
| | `InstallationsKeepContent` | a command whose previous revision is still the active one carries its content, and the runtime that content is of (`ContentFits`); the commit refuses every other |
| | `FollowsIntent` | `LockFits`: the selections of a lock are what the user has said, and the members of its packs; a member has an owning pack exactly while the user has said nothing about it, and then it is enabled as an enabled pack asks; overrides are those of installed packs. A call that nobody overtook has read the lock as it is, so what it computes fits too; every other one is refused |
| | `AppliesAllOrNothing` | an action property: of a list of updates the part `Applying` of `LockFits` says that its base fits, that every item of the list was outdated in the base, and that each one already done is selected in a newer version, until the last; a failure writes the base |
| `LaunchManagerProofs` | `TypeCorrect`; `ActiveLaunchIsUnique` and `ProcessIsUnique` (`LaunchesExclude`); `LiveProcessIsFound` and `RecordIsUnique` (`RecordsFollowProcesses`); `NoReservationLeft` and `LockWaitsBriefly` (`NothingStaysHeld`) | a launch is pending exactly while its starting command is between reservation and end; whoever has looked for pending launches keeps the mutex until it has inserted its own; a record whose launch is not yet reserved is nowhere |
| `UserDataProofs` | `SettingsAreTyped`, `ChoiceIsKept` | as long as nobody disturbed the writer of the player's last choice, it is the only one at work, and its step says which of the three names has that choice |
| | `MergeIsFaithful` | the preview is built field by field from `given`, so what one side alone changed is taken, and a choice decides the rest; the resolution changes nothing else |
| | `PlayerIsAlwaysShown` | `TokensInv`: a token that a handshake is about to insert is neither in the table nor refused to anyone, and whoever asks again has dropped what it was refused; `SavesInv`: with one saver at a time, its step says what the draft holds; `SkinInv`: a stranger's picture has a name that is that stranger's for good |
| | `BackupsAlwaysHold` | `CopyInv`: a point that saw no projection has the marker of now as its exclusions, and `FolderInv` says every managed file is named by the marker; so no copy takes one. `RestoreInv` keeps the settings of before until the undo |
| | `IntakesAreVerified` | `CompInv`: from the choice to the lock the chosen manifest is the first of the catalogue that matches, and is signed. `NeoInv`: an installer's plan is of its documents, what was materialized keeps its bytes because no two of libraries, entries and outputs have one target (`EntriesApart`), every processor up to the last verified one has its outputs in place (`OutputsStaged`), and readiness says that whatever the next one reads was made by one of those. `PackInv`: after each entry of the archive that was looked at, the place of the entry has that entry or one of the client's layer, and whatever is selected is of an entry that fits (`EntryIsPlaced`, `SelectionFits`); the layout then keeps places and members apart, so there are as many places as things (`PlacesAreCounted`). `XferInv`: the manifest read from an exported file is the document written (`WrittenManifest`: of all entries only the first has its name), what is activated is what it lists, a profile is made only when all of that is in the cache and nothing staged, and it is filled from its document alone |

None of the properties of `ContentProjection` is inductive: that a rollback ends
with the old files needs to know, at every point of every loop, which of the two
places holds each file, and this in turn needs the three loops' lists to be
subsets of what the plans list (`LoopInv`, `FilesInv`). That a skipped target
already has its final content (`SkippedIsReconciled`) is the fact about
seeds on which the commit rests.

"One launch per profile" alone is not inductive either: between the look at the
pending table and the insertion another launch could appear, unless the mutex is
known to be held (`StarterInv`). "One process" follows from three facts together:
a living process is in the running table or being killed at the boundary, a launch
at the boundary is pending, and pending and running launches of a profile are
unique.

`ChoiceSurvives` speaks of the moment at which a save has ended; its invariant
says at each statement of `atomic_json_write` where the new content is, and
that a writer that began before the last choice counts as a disturbance.

Four theorems have hypotheses. `Serialized` says that callers do not overlap two
operations of one profile; without it both properties are false (section 5).
`GamesHaveClient` needs that the backup can be put back (otherwise a download that
fails at its last step takes the client from a launch that has already checked
it), and that no foreign file has the size of a build, because
`verify_client_ready` does not open a file of the recorded size.
`IntakesAreVerified` takes it that the processors of an installer are numbered from
one, that archives, indexes and locks are finite lists, and that a path is a list of
names, as every archive and JSON document has them; TLC evaluates this for its
instance (`IntakesAreLists`). The properties of
`Accounts` carry their conditions in themselves (`faults`, `overlapped`,
`crashed`), and their theorem has no hypothesis.

The first two theorems of `InstalledProofs` hold for any jars, artifacts, tasks and
callers; their only assumption on a constant is that a row of the query table is
not the value of an absent one. The last two hold for any catalogue, ranks of
identifiers and number of calls, under three assumptions:

* `WorldAssumption`: a project and a version name one release, a local file's
  identifier is its own (the code derives it from the file), and neither the dependencies nor the
  members a release lists are packs. The last is true of Modrinth's catalogue; the
  code does not check it.
* `DatesAssumption`: of any versions there is a latest, which the code takes.
* `RankAssumption`: any contents have a first by identifier.

They use nothing of the resolver's search but that it places releases of the
catalogue it was given. What is selected, reachable and compatible in the outcome they
take from `validate_resolved_content_lock`, which every commit passes. Since nothing can be
proved about the values of a recursive function, `PlaceDisabled` and `GraphFrom`
say themselves in which set their results are; the intersection changes none.

Checked by TLC only:

* `LocksAreSound` of `content`: that the search finds a solution exactly when there
  is one, for every small catalogue, and that everything the commands compute passes
  the validation at their end. Both are about what the recursive search yields;
* `DocumentsAreFollowed` of `intake`: it compares what filters and concatenations of
  sequences collect from version documents with a definition by sets, for every
  input, which needs induction over data, and says that the checks of an import
  accept whatever those of an export have let pass, which compares sorted lists and
  sums over sets;
* all of `ProfileSharing`: what holds there holds only without a lapse, and an
  inductive invariant would have to follow each of two tasks through the other;
* all liveness properties (`RecoveryConverges`, `EndIsReported`, `CommandsReturn`,
  `CompletionReturns`, `ChangesArrive`, `LaunchesEnd`), since the proof system does
  not treat fairness.

## 5. Where code and documents disagree, and what does not hold

The run `hostage` is the disagreement kept under check: `download_client_to` moves
the installed client aside before the new one takes its name, and nothing but a
successful download ever looks at the backup. A process that ends in between, or
a launch that looks in between, meets the refusal the comment at
`snine_client_delivery.rs:1393` excludes.

The modules state further properties that the code does not have; each is
commented "Does not hold". To see a counterexample run TLC with the configuration
named, or with the property added to the configuration of the run.

| Property | Configuration | Observation |
|---|---|---|
| `AllOrNothing`, overlapping callers | `MCOperations_serialized.cfg`, `Serialized = FALSE`, three operations of one profile | a rollback can return to a revision that was itself rolled back and whose files are gone |
| `FailedCreationLeavesNoProfile` | `MCOperations_overlap.cfg` | a crash between the profile row and the operation row leaves a profile recovery does not know |
| `RowNamesItsFile` | `MCCacheStore_race.cfg` | a crash between the move of a blob and its row leaves the two apart until something looks at the blob |
| `EndIsReported`, small finished table | `MCLaunchManager_live.cfg`, two launches, `MaxFinished = 1` | the finished table keeps the launches that *started* last; the end of a long session can be evicted as it is inserted and is then never told |
| `FinalStatusStays` | `MCLaunchManager_race.cfg` | a stop command tells "stopping" after the window was told that the launch has ended |
| `ProjectionIsRepeatable` | `MCContentProjection_project.cfg` | a crash between the first move of a projection and its marker leaves an instance that no later launch accepts; the backup is never looked at |
| `SharedMemberIsOneRelease` | `MCContentService_content.cfg`, `Wide = TRUE` | a pack whose member an installed pack has too is refused if that member supports several game versions: the lock keeps the profile's alone (`docs/PHASE-6-ARCHITECTURE.md:116`) |
| `DisablingCanBeUndone` | `MCContentService_content.cfg` | what needs something else and was disabled cannot be enabled: the dependency left the lock, the only source of enabling (`content_service.rs:1021`) |
| `ReloginIsEarned` | `MCAccounts_accounts.cfg` | a session reads the row, then the vault; a rotation in between makes it mark a healthy account as signed out (`docs/PHASE-3-SECURITY.md`) |
| `PointsHoldNoManagedFile` | `MCIntake_intake.cfg` | a restore point made during a projection takes managed files for the user's, and can then never be restored with its files (`docs/PHASE-7-ARCHITECTURE.md:53`) |
| `ServersFollow`, games of any profile | `MCProfileSharing_sharing.cfg`, `Writers = {s, b}` | a server added in a game of another profile never reaches the oldest one, and is taken back (below; `src/i18n/messages.ts:1113`) |
| `SettingsSurvive` | `MCIntake_intake.cfg` | two writers of one settings file, or a crash between the renames, leave a profile without it |

Seen while translating, and in the modules as the code has it:

* **Operations.** An operation rolled back under another one keeps a committed
  revision row; recovery of an unreadable plan drops the runtime projection of the
  previous revision (both excluded in `AllOrNothing`, by `Serialized` and by
  `corrupt = {}`). A cache copy that fails half way leaves a file that blocks its
  digest and that no sweep considers (`blobFile` "partial").
* **Content.** What the user has disabled is enabled by an update of it, and is
  forgotten once an enabled pack has asked for the item. An update of an item that is
  removed during the check installs it again. A list of updates whose first
  brings the second fails and is undone; and a failing list undoes the commits others made
  meanwhile (`updates/service.rs:290`; `touched`).
* **Archives.** Descriptors are looked up as `META-INF/...` in a map whose keys
  are in lower case (`content/archive.rs:335`), so a mod with only Forge's
  descriptor is refused.
* **Profile files.** The artifacts of an import are activated one by one; when one
  fails, nothing removes the staging directory (`content_service.rs:1664-1672`), and the
  blobs activated so far stay in the cache until a sweep. Of the two,
  `docs/PHASE-6-MIGRATIONS-AND-ROLLBACK.md:122-141` names only the blobs. So
  `TransferIsWhole` says that a file that is *refused*, which happens before, leaves
  nothing, and of an import that fails while it activates that there is no profile,
  that only named blobs are cached, and that all of them are or everything is still
  staged. A file whose desired list is not sorted passes the inspection and
  fails after the profile was made; every failure after that point leaves the empty profile.
  Desired content without a lock is imported without the content.
* **Runtime.** Of a loader manifest for any version and one for the exact version the
  first in the catalog wins. Two versions of a library both get on the class path.
  Within the 15 minutes a manifest is cached, a republished version document fails
  every install. A damaged cached download of the right size fails every install
  that needs it, and damage after the verification marker is not seen. A failed
  install leaves its downloads in staging.
* **Java.** A directory that is moved into place while it is being extracted, or a
  partial home left by a crash, is found and believed at the next search; the
  comments at `java_runtime.rs:83` and `:98` expect otherwise.
* **NeoForge.** The service refuses every plan after the inspection; staging and execution
  are compiled for tests only. There, two entries of one content conflict although the plan
  is ready, and an output below `{ROOT}` may be a declared library.
* **Restore points.** One invalid entry makes the whole list fail. A crash between the
  rename and the pins leaves a listed point without pins. Settings are restored before
  the copy is made; a crash in between keeps them.
* **Instance settings.** A custom Java that vanished makes loading fail, and saving,
  which loads first, cannot repair it.
* **Client delivery.** A probe that is older than the installed build makes a launch
  download again; a jar of the right size that the user put there is believed, and so is the marker after the
  user has removed a companion mod. Launches of all profiles wait for one download.
* **Bridge.** A 401 for an old token removes the newer one of another window. Two
  savers share a temporary name, and the slower one removes the other's snapshot
  (`snine_bridge.rs:391`; `disturbedSave`). A renamed player's old name shows whoever has it now,
  until the launcher learns the new one. Asking without assets overwrites
  the snapshot with an empty one.
* **Server lists.** The interface says that `servers.dat` is "automatically
  synchronized to all existing and new profiles". A server added in a game of another
  profile reaches the shared list; the next look at the list of profiles ingests the oldest
  profile, which has nothing new, and notes the shared list as that profile's baseline
  without copying it (`profile_sharing.rs:385`), so it never gets the server. The
  look after that sees its old list differ from the baseline, takes it for a change, and
  puts it back over the new one, for all.
* **Sharing.** Each lapse of section 2 is something the code lets happen. The gravest: a
  sync repeated after `synced` was cleared (`service.rs:636`) leaves a profile
  with a baseline it does not have; a sync and a launch, or a listing and a launch,
  work on one directory without a lock; a crash between the removal of a listing and
  its successor seeds the directory again from the oldest profile; a crash between the
  removal of a baseline and its successor brings back what is deleted next (excluded by `faults = 0` for deleted
  worlds); a launcher restarted during a game takes its worlds too early. A world that no profile's
  user has deleted can leave the shared directory by a late sync.

## 6. What is left

1. What a version document adds to the arguments of a launch, entry by entry, as
   steps of a loop, which would bring `LaunchIsCoherent` within reach of a proof (as
   it did the overrides of a pack).
2. An abstract specification of an account store, which `Accounts` would implement
   only with the exclusions `overlapped` and `faults` name.
3. `CacheStore` with the pins of `Backups`; two launchers on one directory (the
   database has its locks, the mutexes do not reach the other process).
4. Schema migrations, profile duplication, archive and trash; the takeover of old accounts.

## 7. What is not modelled

* Remote services and the Modrinth client: what they answer is chosen freely where
  it is used. The window's drawing and stores: what it is told is modelled, what it
  draws is not. Configuration, Discord, fonts, logging, platform calls: formatting
  and output, or one writer.
* Two launchers on one data directory, and command futures dropped between awaits
  (Tauri does not drop them).
* Storage migrations; `duplicate_profile`, archiving and deleting of profiles
  (`profiles/service.rs`); the takeover of accounts of older launchers
  (`auth/store.rs:358`).
* Sharing: `options.txt`, which is kept as the server list is; sharing switched off
  and on again; profiles deleted meanwhile; copies torn half way. `fs::copy` keeps the modification
  time, as it does on Windows.
* NeoForge's digests and plan hash, budgets of resolver and search, wording of
  errors, progress events.

The reasons are with the components in `PROJECT.json`.
