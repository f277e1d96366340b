---------------------------- MODULE Installation ----------------------------
(***************************************************************************)
(* Installing, changing and repairing the runtime of a profile             *)
(* (minecraft/service.rs) with the downloads it takes (download/mod.rs),   *)
(* while content is committed to the same profile, and the check of the    *)
(* installed files at a launch.                                            *)
(*                                                                         *)
(* Several commands may work on the profile: nothing is locked between     *)
(* the reading of the profile, the downloads, and the commit.  The commit  *)
(* itself is one step here; Operations has its inside.  Files of the cache *)
(* and of revisions can be damaged by others.                              *)
(***************************************************************************)
EXTENDS Absence, Integers, Sequences, FiniteSets

CONSTANTS
    Tasks,          \* commands under way
    Runtimes,       \* [items, size]: artifacts of a runtime
    Jar,            \* the artifact of the optional component
    Sizes,          \* [artifact -> its size]
    Components,     \* whether the component may be off, on
    Contents,       \* locks of content
    Concurrency,    \* DOWNLOAD_CONCURRENCY
    MaxRevisions, MaxHarm

(* A row of the query table is never the absence of one. *)
ASSUME ProjectionAssumption ==
    None \notin [revision : Nat, component : Components \cup {FALSE}]

VARIABLES
    revisions,      \* committed revisions: [runtime, component, content]
    active,         \* active_revision_id
    projection,     \* [revision, component] of the query row, or None
    rows,           \* artifacts with a verified row in the cache
    rotten,         \* artifacts whose cached file has other bytes
    broken,         \* <<revision, artifact>>: installed files with other bytes
    staging,        \* partial files, as <<task, artifact>>; complete ones stay
                    \* and are not looked at again
    task,           \* commands: each task runs one
    trusted,        \* revisions with a marker of verification
    harm            \* what others damaged, as <<place, artifact, trusted then>>

installVars == <<revisions, active, projection, rows, rotten, broken, staging,
                 task, trusted, harm>>

Current == revisions[active]
Items(runtime, component) ==
    runtime.items \cup (IF component THEN {Jar} ELSE {})
ItemsOf(rev) == IF rev.runtime = None THEN {}
                ELSE Items(rev.runtime, rev.component)

Idle == [pc |-> "idle"]
Ended == [pc |-> "ended"]
Running(t, pc) == task[t].pc = pc

(* A new profile, or one that has a runtime; older revisions are left out. *)
InstallInit ==
    /\ active = 1
    /\ \E r \in Runtimes \cup {None} :
          /\ revisions = <<[runtime |-> r, component |-> FALSE, content |-> None]>>
          /\ projection = IF r = None THEN None
                          ELSE [revision |-> 1, component |-> FALSE]
          /\ rows = ItemsOf(revisions[1])
    /\ rotten = {} /\ broken = {} /\ staging = {}
    /\ task = [t \in Tasks |-> Idle]
    /\ trusted = {} /\ harm = {}

-----------------------------------------------------------------------------
Start(t, runtime, component, content, pc) ==
    task' = [task EXCEPT ![t] =
                [pc |-> pc, previous |-> active,
                 runtime |-> runtime, component |-> component,
                 content |-> content, wanted |-> {}, open |-> {},
                 projection |-> None]]
Refuse(t) == task' = [task EXCEPT ![t] = Ended]

Elsewhere == <<revisions, active, projection, rows, rotten, broken, staging,
               trusted, harm>>

(* install and the first part of resolve_and_download: the content is taken
   over when the runtime stays, and forbids another one. *)
BeginInstall(t, runtime, component) ==
    /\ task[t] = Idle
    /\ IF projection # None /\ Current.runtime # runtime
       THEN IF Current.content # None THEN Refuse(t)
            ELSE Start(t, runtime, component, None, "resolve")
       ELSE Start(t, runtime, component,
                  IF projection = None THEN None ELSE Current.content,
                  "resolve")
    /\ UNCHANGED Elsewhere

(* change_component *)
BeginChange(t, component) ==
    /\ task[t] = Idle
    /\ IF Current.runtime = None THEN Refuse(t)
       ELSE Start(t, Current.runtime, component,
                  IF projection = None THEN None ELSE Current.content,
                  "resolve")
    /\ UNCHANGED Elsewhere

(* repair: no downloads; only the rows of the cache are looked at. *)
BeginRepair(t) ==
    /\ task[t] = Idle
    /\ IF Current.runtime = None \/ ~(ItemsOf(Current) \subseteq rows)
       THEN Refuse(t)
       ELSE Start(t, Current.runtime, Current.component,
                  Current.content, "prepare")
    /\ UNCHANGED Elsewhere

(* index_cached_sha1_sources hashes every cached file of a size that is
   asked for, and a damaged one stops the command. *)
Sized(runtime) == {Sizes[a] : a \in runtime.items}
IndexFails(runtime) == \E a \in rows \cap rotten : Sizes[a] \in Sized(runtime)

(* The metadata of the runtime arrives and what is not cached is wanted. *)
ResolveRuntime(t) ==
    /\ Running(t, "resolve")
    /\ IF IndexFails(task[t].runtime) THEN Refuse(t)
       ELSE task' = [task EXCEPT ![t].pc = "download",
                                 ![t].wanted = task[t].runtime.items \ rows]
    /\ UNCHANGED Elsewhere

-----------------------------------------------------------------------------
(* download_source, begin_session: the partial file is there while the body
   arrives; at most Concurrency at once. *)
OpenDownload(t, a) ==
    /\ Running(t, "download") /\ a \in task[t].wanted \ task[t].open
    /\ Cardinality(task[t].open) < Concurrency
    /\ task' = [task EXCEPT ![t].open = @ \cup {a}]
    /\ staging' = staging \cup {<<t, a>>}
    /\ UNCHANGED <<revisions, active, projection, rows, rotten, broken,
                   trusted, harm>>

(* Dropping a session removes its partial file, and the first error of a
   command drops all its sessions. *)
WithoutPartials(t) == {f \in staging : f[1] # t}

(* A row written meanwhile may belong to a damaged file, which is not
   replaced. *)
Activate(a) == rows' = rows \cup {a} /\ rotten' = rotten

(* finish and activate_verified_copy: the length and the hash are right. *)
ReceiveRight(t, a) ==
    /\ Running(t, "download") /\ a \in task[t].open
    /\ IF a \in rotten
       THEN /\ staging' = WithoutPartials(t)
            /\ Refuse(t)
            /\ UNCHANGED <<rows, rotten>>
       ELSE /\ staging' = staging \ {<<t, a>>}
            /\ Activate(a)
            /\ task' = [task EXCEPT ![t].open = @ \ {a},
                                    ![t].wanted = @ \ {a}]
    /\ UNCHANGED <<revisions, active, projection, broken, trusted,
                   harm>>

(* Too many bytes, too few, or others; a status or a length that is not
   expected; the network. *)
ReceiveWrong(t, a) ==
    /\ Running(t, "download") /\ a \in task[t].open
    /\ Refuse(t)
    /\ staging' = WithoutPartials(t)
    /\ UNCHANGED <<revisions, active, projection, rows, rotten, broken,
                   trusted, harm>>

(* The component is fetched every time, and taken out of staging by the
   cache like the rest. *)
FetchComponent(t) ==
    /\ Running(t, "download") /\ task[t].wanted = {}
    /\ IF task[t].component
       THEN \/ /\ Jar \notin rotten
               /\ Activate(Jar)
               /\ task' = [task EXCEPT ![t].pc = "prepare"]
            \/ Refuse(t) /\ UNCHANGED <<rows, rotten>>
       ELSE /\ task' = [task EXCEPT ![t].pc = "prepare"]
            /\ UNCHANGED <<rows, rotten>>
    /\ UNCHANGED <<revisions, active, projection, broken, staging, trusted,
                   harm>>

-----------------------------------------------------------------------------
(* The profile is read again just before the commit. *)
PrepareRereads(t) ==
    /\ Running(t, "prepare")
    /\ task' = [task EXCEPT ![t].pc = "commit", ![t].previous = active,
                            ![t].projection = projection]
    /\ UNCHANGED Elsewhere

(* prepare_revision reads the row of the runtime last. *)
PrepareRevision(t) ==
    /\ Running(t, "prepare")
    /\ task' = [task EXCEPT ![t].pc = "commit",
                            ![t].projection = projection]
    /\ UNCHANGED Elsewhere

(* plan_profile_operation: nobody committed since the profile was read. *)
CanPlan(t) == /\ active = task[t].previous
              /\ projection = task[t].projection

(* The rows are believed. *)
CanCopyByRows(items) == items \subseteq rows

(* validate_cache_materializations and the copies hash every file. *)
CanCopy(items) == items \subseteq rows /\ items \cap rotten = {}

Publish(rev) ==
    /\ revisions' = Append(revisions, rev)
    /\ active' = Len(revisions) + 1
    /\ projection' = [revision |-> Len(revisions) + 1,
                      component |-> rev.component]
    /\ broken' = broken \cup {<<Len(revisions) + 1, a>> :
                                 a \in ItemsOf(rev) \cap rotten}

(* commit_prepared *)
CommitInstall(t) ==
    /\ Running(t, "commit")
    /\ Len(revisions) < MaxRevisions
    /\ IF /\ CanPlan(t)
          /\ CanCopy(Items(task[t].runtime, task[t].component))
       THEN /\ Publish([runtime |-> task[t].runtime,
                        component |-> task[t].component,
                        content |-> task[t].content])
            /\ task' = [task EXCEPT ![t] = Ended]
       ELSE Refuse(t) /\ UNCHANGED <<revisions, active, projection, broken>>
    /\ UNCHANGED <<rows, rotten, staging, trusted, harm>>

(* commit_content_revision of another command, from what it read just now. *)
CommitOther(content) ==
    /\ projection # None /\ projection.revision = active
    /\ content # Current.content
    /\ Len(revisions) < MaxRevisions
    /\ CanCopy(ItemsOf(Current))
    /\ Publish([Current EXCEPT !.content = content])
    /\ UNCHANGED <<rows, rotten, staging, task, trusted, harm>>

(* verify_revision_runtime: a marker is trusted, otherwise every file of the
   revision is hashed once and the marker written. *)
VerifyRevision ==
    /\ Current.runtime # None
    /\ active \in trusted \/ ~\E a \in ItemsOf(Current) : <<active, a>> \in broken
    /\ trusted' = trusted \cup {active}
    /\ UNCHANGED <<revisions, active, projection, rows, rotten, broken,
                   staging, task, harm>>

-----------------------------------------------------------------------------
Harmed(place, a) ==
    /\ Cardinality(harm) < MaxHarm
    /\ harm' = harm \cup {<<place, a, place \in trusted>>}

HarmCache(a) ==
    /\ a \in rows \ rotten
    /\ Harmed(0, a)
    /\ rotten' = rotten \cup {a}
    /\ UNCHANGED <<revisions, active, projection, rows, broken, staging,
                   task, trusted>>

HarmFile(a) ==
    /\ a \in ItemsOf(Current) /\ <<active, a>> \notin broken
    /\ Harmed(active, a)
    /\ broken' = broken \cup {<<active, a>>}
    /\ UNCHANGED <<revisions, active, projection, rows, rotten, staging,
                   task, trusted>>

InstallNext ==
    \/ \E t \in Tasks :
          \/ \E r \in Runtimes, c \in Components : BeginInstall(t, r, c)
          \/ \E c \in Components : BeginChange(t, c)
          \/ BeginRepair(t)
          \/ ResolveRuntime(t)
          \/ \E a \in DOMAIN Sizes : \/ OpenDownload(t, a)
                                     \/ ReceiveRight(t, a)
                                     \/ ReceiveWrong(t, a)
          \/ FetchComponent(t) \/ PrepareRevision(t) \/ CommitInstall(t)
    \/ \E c \in Contents : CommitOther(c)
    \/ VerifyRevision
    \/ \E a \in DOMAIN Sizes : HarmCache(a) \/ HarmFile(a)

-----------------------------------------------------------------------------
(* What an installation replaces keeps its content: a command that took
   minutes to download never undoes content that was committed meanwhile,
   and content never ends up on a runtime it was not resolved for.  Covers
   resolve_and_download and plan_profile_operation. *)
InstallKeepsContent ==
    [][\A t \in Tasks :
          task[t].pc = "commit" /\ task'[t] = Ended /\ active' # active =>
             LET old == Current
                 new == revisions'[active']
             IN  old.content # None =>
                    /\ new.content = old.content
                    /\ new.runtime = old.runtime]_installVars

(* Wrong bytes in the cache or in a revision were put there by others, never
   by a download, a copy or a repair; a launch only ever accepts a revision
   that had no damaged file when it was first checked; and a command that
   ended leaves no partial file.  Covers
   DownloadSession, activate_verified_copy, verify_cache_for_lock and
   verify_revision_runtime. *)
InstalledIsWhole ==
    /\ \A a \in rotten : \E b \in BOOLEAN : <<0, a, b>> \in harm
    /\ \A f \in broken : \E b \in BOOLEAN : <<f[1], f[2], b>> \in harm
    /\ \A f \in broken : f[1] \in trusted => <<f[1], f[2], TRUE>> \in harm
    /\ \A f \in staging :
          task[f[1]].pc = "download" /\ f[2] \in task[f[1]].open

=============================================================================
