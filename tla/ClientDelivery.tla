---------------------------- MODULE ClientDelivery ----------------------------
(***************************************************************************)
(* Delivery of the SNine client, a mod that the host publishes in builds,  *)
(* and of the mods it needs, to the mods folder of a profile.              *)
(*                                                                         *)
(* Two kinds of task do the work: a launch makes sure that a client is     *)
(* there, up to date if the host answers, and installs the companion mods  *)
(* before the game starts; the home screen fetches ahead.  Downloads, of   *)
(* all profiles, take turns.                                               *)
(*                                                                         *)
(* A jar is a number: n > 0 is build n, 0 and -n are files that are no     *)
(* client, -n with the size of build n.  A tag is what the host says of a  *)
(* build in its headers, 0 if it says nothing.                             *)
(***************************************************************************)
EXTENDS Integers, FiniteSets

CONSTANTS
    Profiles,
    Mods,       \* companion mods
    Homes,      \* profiles the home screen fetches for
    Launched,   \* profiles that are launched
    Foreign,    \* files that are no client which the user may put in place
    MaxBuild,   \* bound: builds that the host publishes
    MaxCrashes, \* bound: ends of the process in the middle of its work
    MaxEdits,   \* bound: changes of a jar by the user
    RestoreFails, \* the backup may be stuck when a new build is
    None

ASSUME BuildAssumption ==
    /\ MaxBuild \in Nat \ {0} /\ MaxCrashes \in Nat /\ MaxEdits \in Nat
    /\ Foreign \subseteq -MaxBuild..0
    /\ Homes \cup Launched \subseteq Profiles

VARIABLES
    remote,   \* the build that the host delivers
    jar,      \* mods/snineclient.jar of each profile
    backup,   \* mods/snineclient.jar.previous
    meta,     \* data/snine-client-update-<profile>.json
    mods,     \* companion mods in the folder
    marker,   \* profiles with mods/.snine-support-ready
    probe,    \* REMOTE_PROBE_CACHE: a tag or None
    lock,     \* CLIENT_DOWNLOAD_LOCK: a task or None
    work,     \* tasks
    crashes, edits

files == <<jar, backup, meta, mods, marker>>
memory == <<probe, lock, work>>
vars == <<remote, files, memory, crashes, edits>>

Builds == 1..MaxBuild
Jars   == Builds \cup Foreign
Tags   == 0..MaxBuild
Tasks  == (Launched \X {"launch"}) \cup (Homes \X {"home"})
ASSUME NoneAssumption == None \notin Tasks

Metadata == [tag : Tags, size : Builds, version : Builds]

Steps == {"idle", "verify", "await", "check", "probe", "lock", "hint", "reqwest", "tools",
          "swap", "commit", "tidy", "write", "publish", "final", "support",
          "install", "play", "refused"}
Idle == [pc |-> "idle", valid |-> FALSE, local |-> FALSE, known |-> None, before |-> None,
         tag |-> 0, got |-> None, todo |-> {}]

Init ==
    /\ remote = 1
    /\ jar \in [Profiles -> {1, None}] /\ backup = [p \in Profiles |-> None]
    /\ meta = [p \in Profiles |-> None]
    /\ mods = [p \in Profiles |-> {}] /\ marker = {}
    /\ probe = None /\ lock = None
    /\ work = [t \in Tasks |-> Idle]
    /\ crashes = 0 /\ edits = 0

-----------------------------------------------------------------------------
(* Files *)

Size(j)  == IF j < 0 THEN -j ELSE j
Valid(j) == j # None /\ j > 0                       \* inspect_snine_jar

\* verify_client_ready: a file of the recorded size is not opened.
Ready(p) ==
    /\ jar[p] # None
    /\ \/ meta[p] # None /\ meta[p].size = Size(jar[p])
       \/ Valid(jar[p])

\* file_generation, as a task remembers it: the file there is "this" one until
\* another takes its place.
Generation(p)    == IF jar[p] = None THEN "missing" ELSE "this"
Unchanged(t)     == work[t].before = Generation(t[1])
\* Tasks of p that remember a generation see the file replaced.
Replaced(p)      == [t \in Tasks |-> IF t[1] = p /\ work[t].before = "this"
                                     THEN [work[t] EXCEPT !.before = "other"] ELSE work[t]]

-----------------------------------------------------------------------------
(* Control *)

At(t, pc)    == work[t].pc = pc
Goto(t, pc)  == work' = [work EXCEPT ![t].pc = pc]
IsLaunch(t)  == t[2] = "launch"

\* Mutant: a launch without a client asks again and again.
AfterDownloadRetrying(t, ok) ==
    IF ~IsLaunch(t) THEN Idle
    ELSE [Idle EXCEPT !.pc = IF ok \/ work[t].valid THEN "final" ELSE "lock", !.before = "missing"]

\* A launch that had a client goes on with it when the download fails.
AfterDownload(t, ok) ==
    IF ~IsLaunch(t) THEN Idle
    ELSE [Idle EXCEPT !.pc = IF ok \/ work[t].valid THEN "final" ELSE "refused"]

\* The end of download_update_impl gives the lock back.
Finish(t, ok, w) == lock' = None /\ work' = [w EXCEPT ![t] = AfterDownload(t, ok)]

-----------------------------------------------------------------------------
(* ensure_client_for_launch *)

BeginLaunch(t) ==
    /\ IsLaunch(t) /\ At(t, "idle")
    /\ Goto(t, "verify")
    /\ UNCHANGED <<remote, files, probe, lock, crashes, edits>>

\* A launch with a client waits for a download that is active; other launches go
\* on to the check.
Verify(t) ==
    /\ At(t, "verify")
    /\ work' = [work EXCEPT ![t].valid = Ready(t[1]),
                            ![t].pc = IF Ready(t[1]) /\ lock # None THEN "await" ELSE "check"]
    /\ UNCHANGED <<remote, files, probe, lock, crashes, edits>>

Await(t) ==
    /\ At(t, "await") /\ lock = None
    /\ Goto(t, "final")
    /\ UNCHANGED <<remote, files, probe, lock, crashes, edits>>

\* What update_check_impl reads before it asks the host: whether there is a client,
\* and the metadata, if it tells of that client.
Check(t) ==
    /\ At(t, "check")
    /\ LET p == t[1]
           recorded == Valid(jar[p]) /\ meta[p] # None /\ meta[p].version = jar[p]
       IN work' = [work EXCEPT ![t].pc = "probe", ![t].local = Valid(jar[p]),
                               ![t].known = IF recorded THEN meta[p] ELSE None]
    /\ UNCHANGED <<remote, files, probe, lock, crashes, edits>>

\* probe_remote and probe_remote_fast: tag is the answer, None if there is none.
\* That a fast probe failed is remembered for 20 seconds, which is one more way
\* for a probe to fail.
ProbeRemote(tag) ==
    IF probe # None THEN tag = probe /\ UNCHANGED probe
    ELSE tag \in {remote, None} /\ probe' = tag

\* metadata_changed: the host names every build by a tag and tells its size.
Changed(known, tag) == known.tag # tag \/ known.size # tag

\* build_update_check: the file is looked at again, by its size.
UpdateAvailable(t, tag) ==
    LET known == work[t].known IN
    \/ known = None
    \/ jar[t[1]] = None
    \/ Size(jar[t[1]]) # known.size
    \/ Changed(known, tag)

Decided(t, tag) ==
    IF tag # None /\ UpdateAvailable(t, tag) THEN "lock"
    ELSE IF work[t].valid \/ work[t].local THEN "final" ELSE "refused"

Probe(t) ==
    /\ At(t, "probe")
    /\ \E tag \in Builds \cup {None} :
         /\ ProbeRemote(tag)
         /\ work' = [work EXCEPT ![t].pc = Decided(t, tag),
                                 ![t].before = IF Decided(t, tag) = "lock" THEN Generation(t[1]) ELSE None,
                                 ![t].local = FALSE, ![t].known = None]
    /\ UNCHANGED <<remote, files, lock, crashes, edits>>

-----------------------------------------------------------------------------
(* download_update_impl *)

\* The home screen asks for a download, or only whether there is an update.
BeginHome(t) ==
    /\ ~IsLaunch(t) /\ At(t, "idle")
    /\ work' = [work EXCEPT ![t].pc = "lock", ![t].before = Generation(t[1])]
    /\ UNCHANGED <<remote, files, probe, lock, crashes, edits>>

CheckHome(t) ==
    /\ ~IsLaunch(t) /\ At(t, "idle")
    /\ \E tag \in Builds \cup {None} : ProbeRemote(tag)
    /\ UNCHANGED <<remote, files, lock, work, crashes, edits>>

\* Mutant: downloads do not wait for each other.
LockFree(t) ==
    /\ At(t, "lock")
    /\ lock' = t /\ work' = [work EXCEPT ![t].pc = "hint", ![t].before = None]
    /\ UNCHANGED <<remote, files, probe, crashes, edits>>

\* A client that came while the task waited is used as it is.
Lock(t) ==
    /\ At(t, "lock") /\ lock = None
    /\ IF ~Unchanged(t) /\ Ready(t[1]) /\ meta[t[1]] # None
       THEN Finish(t, TRUE, work)
       ELSE lock' = t /\ work' = [work EXCEPT ![t].pc = "hint", ![t].before = None]
    /\ UNCHANGED <<remote, files, probe, crashes, edits>>

\* download_update_locked_impl: the tag of an earlier probe, or a new one, is a
\* first guess; what is left of earlier downloads is removed.
Hint(t) ==
    /\ At(t, "hint")
    /\ \E tag \in Builds \cup {None} :
         /\ ProbeRemote(tag)
         /\ work' = [work EXCEPT ![t].pc = "reqwest", ![t].tag = IF tag = None THEN 0 ELSE tag]
    /\ backup' = [backup EXCEPT ![t[1]] = None]
    /\ UNCHANGED <<remote, jar, meta, mods, marker, lock, crashes, edits>>

\* What a transport brings: the build of the host, a page of a proxy, or nothing.
Brought == {remote, 0, None}

\* Mutant: a candidate is accepted unseen.
AcceptedUnseen(got) == got # None
\* accept_candidate
Accepted(got) == Valid(got)

\* The headers of the response come before its bytes.
Reqwest(t) ==
    /\ At(t, "reqwest")
    /\ \E got \in Brought, tag \in {work[t].tag, remote} :
         /\ got = remote => tag = remote
         /\ work' = [work EXCEPT ![t].tag = tag,
                                 ![t].pc  = IF Accepted(got) THEN "swap" ELSE "tools",
                                 ![t].got = IF Accepted(got) THEN got ELSE None]
    /\ UNCHANGED <<remote, files, probe, lock, crashes, edits>>

\* curl.exe, then PowerShell; neither tells anything of the headers.
SystemTools(t) ==
    /\ At(t, "tools")
    /\ \E got \in Brought :
         IF Accepted(got)
         THEN work' = [work EXCEPT ![t].pc = "swap", ![t].got = got] /\ UNCHANGED lock
         ELSE Finish(t, FALSE, work)
    /\ UNCHANGED <<remote, files, probe, crashes, edits>>

\* The file that is there becomes the backup; it may be in use.
Swap(t) ==
    LET p == t[1] IN
    /\ At(t, "swap")
    /\ \/ /\ jar' = [jar EXCEPT ![p] = None]
          /\ backup' = [backup EXCEPT ![p] = IF jar[p] # None THEN jar[p] ELSE @]
          /\ Goto(t, "commit") /\ UNCHANGED lock
       \/ jar[p] # None /\ Finish(t, FALSE, work) /\ UNCHANGED <<jar, backup>>
    /\ UNCHANGED <<remote, meta, mods, marker, probe, crashes, edits>>

Commit(t) ==
    LET p == t[1] IN
    /\ At(t, "commit")
    /\ \/ /\ jar' = [jar EXCEPT ![p] = work[t].got]
          /\ work' = [Replaced(p) EXCEPT ![t].pc = "tidy"]
          /\ UNCHANGED <<backup, lock>>
       \/ /\ \/ /\ backup[p] # None
                /\ jar' = [jar EXCEPT ![p] = backup[p]]
                /\ backup' = [backup EXCEPT ![p] = None]
             \/ /\ backup[p] = None \/ RestoreFails
                /\ UNCHANGED <<jar, backup>>
          /\ Finish(t, FALSE, work)
    /\ UNCHANGED <<remote, meta, mods, marker, probe, crashes, edits>>

\* The backup goes, and with it the jars of older launchers, which may fail.
Tidy(t) ==
    /\ At(t, "tidy")
    /\ backup' = [backup EXCEPT ![t[1]] = None]
    /\ \/ Goto(t, "write") /\ UNCHANGED lock
       \/ Finish(t, FALSE, work)
    /\ UNCHANGED <<remote, jar, meta, mods, marker, probe, crashes, edits>>

\* write_metadata: the old file goes before the new one gets its name.
Write(t) ==
    /\ At(t, "write")
    /\ \/ Goto(t, "publish") /\ meta' = [meta EXCEPT ![t[1]] = None] /\ UNCHANGED lock
       \/ Finish(t, FALSE, work) /\ UNCHANGED meta
    /\ UNCHANGED <<remote, jar, backup, mods, marker, probe, crashes, edits>>

\* Mutant: the tag is asked for when the build is in place.
DescribedAnew(t) == [tag |-> remote, size |-> work[t].got, version |-> work[t].got]
Described(t)     == [tag |-> work[t].tag, size |-> work[t].got, version |-> work[t].got]

PublishMetadata(t) ==
    /\ At(t, "publish")
    /\ \/ meta' = [meta EXCEPT ![t[1]] = Described(t)] /\ Finish(t, TRUE, work)
       \/ Finish(t, FALSE, work) /\ UNCHANGED meta
    /\ UNCHANGED <<remote, jar, backup, mods, marker, probe, crashes, edits>>

-----------------------------------------------------------------------------
(* The rest of a launch *)

\* verify_client_ready, once more
Final(t) ==
    /\ At(t, "final")
    /\ work' = [work EXCEPT ![t] = [Idle EXCEPT !.pc = IF Ready(t[1]) THEN "support" ELSE "refused"]]
    /\ UNCHANGED <<remote, files, probe, lock, crashes, edits>>

\* Mutant: the mods are marked before they are fetched.
SupportMarking(t) ==
    /\ At(t, "support")
    /\ IF t[1] \in marker THEN Goto(t, "play") /\ UNCHANGED marker
       ELSE work' = [work EXCEPT ![t].pc = "install", ![t].todo = Mods] /\ marker' = marker \cup {t[1]}
    /\ UNCHANGED <<remote, jar, backup, meta, mods, probe, lock, crashes, edits>>

\* ensure_required_support_mods: the marker is trusted.
Support(t) ==
    /\ At(t, "support")
    /\ IF t[1] \in marker THEN Goto(t, "play") /\ UNCHANGED marker
       ELSE IF mods[t[1]] = Mods
       THEN Goto(t, "play") /\ marker' \in {marker, marker \cup {t[1]}}
       ELSE work' = [work EXCEPT ![t].pc = "install", ![t].todo = Mods] /\ UNCHANGED marker
    /\ UNCHANGED <<remote, jar, backup, meta, mods, probe, lock, crashes, edits>>

\* download_companion_mod: a mod of the version that is wanted is left alone;
\* for another, what is there goes before the new file gets its name.  What the
\* launch has not removed when it fails, it has not touched.
Install(t) ==
    LET p == t[1]
        m == CHOOSE m \in work[t].todo : TRUE
    IN
    /\ At(t, "install") /\ work[t].todo # {}
    /\ \/ /\ mods' \in {mods, [mods EXCEPT ![p] = @ \ {m}]}
          /\ Goto(t, "refused")
       \/ /\ mods' = [mods EXCEPT ![p] = @ \cup {m}]
          /\ work' = [work EXCEPT ![t].todo = @ \ {m}]
    /\ UNCHANGED <<remote, jar, backup, meta, marker, probe, lock, crashes, edits>>

Mark(t) ==
    /\ At(t, "install") /\ work[t].todo = {}
    /\ \/ Goto(t, "play") /\ marker' = marker \cup {t[1]}
       \/ Goto(t, "refused") /\ UNCHANGED marker
    /\ UNCHANGED <<remote, jar, backup, meta, mods, probe, lock, crashes, edits>>

\* The game has started, or the launch has failed.
End(t) ==
    /\ work[t].pc \in {"play", "refused"}
    /\ work' = [work EXCEPT ![t] = Idle]
    /\ UNCHANGED <<remote, files, probe, lock, crashes, edits>>

-----------------------------------------------------------------------------
(* The host, the clock, the user and the end of the process *)

Publish ==
    /\ remote < MaxBuild
    /\ remote' = remote + 1
    /\ UNCHANGED <<files, memory, crashes, edits>>

\* 300 seconds have passed.
Expire ==
    /\ probe # None /\ probe' = None
    /\ UNCHANGED <<remote, files, lock, work, crashes, edits>>

\* The user replaces the client, or removes it, while nothing is done for the profile.
Replace(p, j) ==
    /\ edits < MaxEdits
    /\ \A t \in Tasks : t[1] = p => At(t, "idle")
    /\ jar[p] # j /\ j \in (1..remote) \cup Foreign \cup {None}
    /\ jar' = [jar EXCEPT ![p] = j] /\ work' = Replaced(p)
    /\ edits' = edits + 1
    /\ UNCHANGED <<remote, backup, meta, mods, marker, probe, lock, crashes>>

Crash ==
    /\ crashes < MaxCrashes
    /\ \E t \in Tasks : ~At(t, "idle")
    /\ probe' = None /\ lock' = None
    /\ work' = [t \in Tasks |-> Idle]
    /\ crashes' = crashes + 1
    /\ UNCHANGED <<remote, files, edits>>

-----------------------------------------------------------------------------
Waits(t) == Await(t) \/ Lock(t)
Steps1(t) ==
    \/ Verify(t) \/ Check(t) \/ Probe(t) \/ Hint(t) \/ Reqwest(t) \/ SystemTools(t)
    \/ Swap(t) \/ Commit(t) \/ Tidy(t) \/ Write(t) \/ PublishMetadata(t)
    \/ Final(t) \/ Support(t) \/ Install(t) \/ Mark(t) \/ End(t)

Next ==
    \/ \E t \in Tasks : BeginLaunch(t) \/ BeginHome(t) \/ CheckHome(t) \/ Waits(t) \/ Steps1(t)
    \/ Publish \/ Expire \/ Crash
    \/ \E p \in Profiles, j \in Jars \cup {None} : Replace(p, j)

Spec == Init /\ [][Next]_vars

\* A task that can go on does: its requests have time limits, and the lock is
\* given to those who wait in their order.
FairSpec == Spec /\ \A t \in Tasks : WF_vars(Steps1(t)) /\ SF_vars(Waits(t))

-----------------------------------------------------------------------------
(* Properties *)

Work == [pc : Steps, valid : BOOLEAN, local : BOOLEAN, known : Metadata \cup {None},
         before : {"missing", "this", "other", None}, tag : Tags, got : Builds \cup {None},
         todo : SUBSET Mods]

\* Every variable has its type, and the lock is held by a task that downloads.
TypeOK ==
    /\ remote \in Builds
    /\ jar \in [Profiles -> Jars \cup {None}] /\ backup \in [Profiles -> Jars \cup {None}]
    /\ meta \in [Profiles -> Metadata \cup {None}]
    /\ mods \in [Profiles -> SUBSET Mods] /\ marker \subseteq Profiles
    /\ probe \in Builds \cup {None} 
    /\ work \in [Tasks -> Work]
    /\ lock \in Tasks \cup {None}
    /\ \A t \in Tasks : lock = t <=>
         work[t].pc \in {"hint", "reqwest", "tools", "swap", "commit", "tidy",
                        "write", "publish"}
    /\ crashes \in 0..MaxCrashes /\ edits \in 0..MaxEdits

\* What the launcher has written down holds, whatever transport brought a build,
\* and whatever failed or ended since: the metadata never names a newer build than
\* the one it describes, which would hide an update for good, and a profile that
\* is marked has every companion mod.
RecordsHold ==
    /\ TypeOK
    /\ \A p \in Profiles :
          /\ meta[p] # None => meta[p].tag <= meta[p].version
          /\ p \in marker => mods[p] = Mods

Plays(t)   == IsLaunch(t) /\ ~At(t, "play") /\ work'[t].pc = "play"
Refuses(t) == IsLaunch(t) /\ ~At(t, "refused") /\ work'[t].pc = "refused"

\* A client that has just been moved aside, by the download of the home screen, counts.
StartsWithClient ==
    \A t \in Tasks : Plays(t) =>
        Valid(jar[t[1]]) \/ (jar[t[1]] = None /\ Valid(backup[t[1]]))

StartsWithMods == \A t \in Tasks : Plays(t) => mods[t[1]] = Mods

NewerBuildStays ==
    \A p \in Profiles :
        edits' = edits /\ Valid(backup[p]) /\ jar[p] = None /\ jar'[p] # None
            => jar'[p] >= backup[p]

\* A game starts with the client and its mods in the folder; and a download never
\* puts an older build in the place of a newer one: downloads of one profile that
\* overlap take turns.
GameHasClient == [][StartsWithClient /\ StartsWithMods /\ NewerBuildStays]_vars

\* Every launch comes to its end, whatever it waits for.
LaunchesEnd == \A t \in Tasks : IsLaunch(t) => (~At(t, "idle") ~> At(t, "idle"))

\* "A valid local client must never be held hostage by the update host": no launch
\* is refused because the host does not answer while there is a client on the disk.
NeverHostage ==
    [][\A t \in Tasks : Refuses(t) /\ At(t, "probe")
         => ~Valid(jar[t[1]]) /\ ~Valid(backup[t[1]])]_vars

=============================================================================
