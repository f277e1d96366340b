--------------------------- MODULE ContentService ---------------------------
(***************************************************************************)
(* The content commands of one profile and the automatic updates that call *)
(* them: install, update, enable, disable, remove, add a local file, import *)
(* a modpack, apply a list of updates.                                     *)
(*                                                                         *)
(* A command reads the active documents, computes the next lock, and hands *)
(* it to the operation engine, which refuses it when the profile has got   *)
(* another revision since (module Operations).  Installs, updates and      *)
(* imports wait for the network between reading and committing; the other  *)
(* commands run on the window's thread in one piece.                       *)
(***************************************************************************)
EXTENDS ContentResolver, Absence

CONSTANTS
    World,     \* every version Modrinth or the user's disk can offer
    AtStart,   \* the versions listed when the behaviour begins
    Calls      \* invocations of the commands that wait

VARIABLES
    lock,      \* the content lock of the active revision
    listed,    \* the versions Modrinth lists
    pc,        \* what a call is doing
    seen,      \* the lock it has read
    cmd,       \* the content, the version and the command it is about
    stale,     \* calls that have read a revision that is no longer active
    plan,      \* apply_updates: content still to update, and the base lock
    intent,    \* history: what the user last said about a content
    touched    \* history: calls during which another command has committed

vars == <<lock, listed, pc, seen, cmd, stale, plan, intent, touched>>

\* A ProjectVersion is [id, ver, date, deps, target, wide, local, members,
\* files]: ver orders version identifiers, date when they were published; wide
\* says that it supports more than the profile's runtime; a pack's members are
\* [id, ver, default] and its files override targets.  A dependency is
\* [id, kind, pin], pin = 0 when it names no version.
AllVersions == {w.ver : w \in World}
NoCommand   == [op |-> "none", id |-> None, ver |-> 0]
NoPlan      == [all |-> {}, todo |-> {}, base |-> NoContent, said |-> <<>>]

(* A content identifier and a version name one release.  A local file has an
   identifier made from its own content; the files of a pack are releases of
   projects.  Modrinth's catalogue has no pack as a dependency or a member. *)
ASSUME WorldAssumption ==
    /\ AtStart \subseteq World
    /\ \A w \in World : w.id \in Ids /\ w.local \in BOOLEAN
    /\ \A v, w \in World : v.id = w.id => v.local = w.local /\ (v.ver = w.ver => v = w)
    /\ \A w \in World : ~IsPack[w.id] => w.members = {} /\ w.files = {}
    /\ \A w \in World : \A m \in w.members :
          /\ m = [id |-> m.id, ver |-> m.ver, default |-> m.default] /\ m.default \in BOOLEAN
          /\ ~IsPack[m.id] /\ \E v \in World : v.id = m.id /\ v.ver = m.ver /\ ~v.local
    /\ \A w \in World : \A d \in w.deps : ~IsPack[d.id]

(* Of any versions there is a latest. *)
ASSUME DatesAssumption ==
    /\ \A w \in World : w.date \in Int
    /\ \A S \in SUBSET World : S # {} => \E w \in S : \A x \in S : x.date <= w.date

TheVersion(i, v) == CHOOSE w \in World : w.id = i /\ w.ver = v
Versions(i, v)   == {w \in World : w.id = i /\ w.ver = v}

\* latest_compatible_update, and the first entry of compatible_versions.
Latest(versions)   == CHOOSE w \in versions : \A x \in versions : x.date <= w.date
Offered(i)         == {w \in listed : w.id = i}
UpdatesOf(i, v)    == {w \in Offered(i) : w.date > TheVersion(i, v).date}

Init ==
    /\ lock = NoContent
    /\ listed = AtStart
    /\ pc = [c \in Calls |-> "idle"]
    /\ seen = [c \in Calls |-> NoContent]
    /\ cmd = [c \in Calls |-> NoCommand]
    /\ stale = {} /\ touched = {}
    /\ plan = [c \in Calls |-> NoPlan]
    /\ intent = [i \in Ids |-> "none"]

-----------------------------------------------------------------------------
(* Releases *)

Release(w, deps, scope) ==
    [id |-> w.id, ver |-> w.ver, deps |-> deps, target |-> w.target, scope |-> scope]

\* compatibility_from_version
Downloaded(w, deps) == Release(w, deps, IF w.wide THEN "published" ELSE "runtime")

\* releases_from_lock
ReleasesFromLock(current) ==
    {Release(it, it.deps, "runtime") : it \in current.items}

\* resolve_modrinth_dependency: an unpinned dependency becomes the version that
\* is the newest now.
TargetsOf(d) == IF d.pin # 0 THEN Versions(d.id, d.pin)
                ELSE IF d.kind = "incompatible" \/ Offered(d.id) = {} THEN {}
                ELSE {Latest(Offered(d.id))}

Unresolved(w) == \E d \in w.deps : d.kind = "required" /\ TargetsOf(d) = {}

GraphDependencies(w) ==
    {[id |-> d.id, kind |-> d.kind,
      req |-> IF TargetsOf(d) = {} THEN AllVersions ELSE {t.ver : t \in TargetsOf(d)}] :
        d \in {e \in w.deps : e.kind = "incompatible" \/ TargetsOf(e) # {}}}

Required(w) == UNION {TargetsOf(d) : d \in {e \in w.deps : e.kind = "required"}}

\* download_modrinth_graph: the version and all it requires, which is in World:
\* the last line only says so, for the proofs.
GraphFrom(w) ==
    LET grow[found \in SUBSET World] ==
            LET more == found \cup UNION {Required(x) : x \in found} IN
            IF more = found THEN found ELSE grow[more]
        all == grow[{w}]
    IN {x \in World : x \in all}

DownloadGraph(w) ==
    LET graph == GraphFrom(w) IN
    IF \E x \in graph : Unresolved(x) THEN {}
    ELSE {{Downloaded(x, GraphDependencies(x)) : x \in graph}}

\* dependencies_for_pinned_version
PinnedDependencies(w) ==
    {[id |-> d.id, kind |-> d.kind, req |-> IF d.pin = 0 THEN AllVersions ELSE {d.pin}] :
        d \in w.deps}

Select(i, req, on) == [id |-> i, req |-> req, enabled |-> on]
Others(requested, i) == {s \in requested : s.id # i}

\* resolve_next_content
ResolveNext(current, requested, added, keepPacks) ==
    {IF ~keepPacks THEN next
     ELSE [next EXCEPT
            !.members   = {m \in current.members : {m.pack, m.id} \subseteq IdsOf(next.items)},
            !.overrides = {o \in current.overrides : o.pack \in IdsOf(next.items)}] :
        next \in ResolveContent([requested |-> requested, optional |-> current.optional],
                                ReleasesFromLock(current) \cup added)}

WithMembers(next, members) ==
    [next EXCEPT !.members = {m \in members : {m.pack, m.id} \subseteq IdsOf(next.items)}]

-----------------------------------------------------------------------------
(* Packs *)

MembersOf(current, i) == {m \in current.members : m.id = i}
Owned(members, i)     == \E m \in members : m.id = i /\ m.owns
Orphans(gone)         == {m.id : m \in {n \in gone : n.owns}}

\* Mutant: ownership ends with the pack that had it.
PassOnNothing(members, orphaned) == members

\* Ownership passes to the first pack, by identifier, that has the member too.
PassOn(members, orphaned) ==
    {[m EXCEPT !.owns = @ \/ (m.id \in orphaned /\
                              m.pack = First({n.pack : n \in {x \in members : x.id = m.id}}))] :
        m \in members}

\* reconcile_pack_member_selections: a member's version is the packs', and it is
\* enabled when an enabled pack asks for it or, if no pack owns it, by hand.
ReconcileMembers(requested, members) ==
    LET on(p)      == \E s \in requested : s.id = p /\ s.enabled
        mine(i)    == {m \in members : m.id = i}
        demanded(i) == \E m \in mine(i) : m.default /\ on(m.pack)
    IN IF \/ ~(IdsOf(members) \subseteq IdsOf(requested))
          \/ \E m, n \in members : m.id = n.id /\ m # n /\ (m.ver # n.ver \/ (m.owns /\ n.owns))
       THEN {}
       ELSE {{IF mine(s.id) = {} THEN s
              ELSE Select(s.id, {m.ver : m \in mine(s.id)},
                          (~Owned(members, s.id) /\ s.enabled) \/ demanded(s.id)) : s \in requested}}

\* prepare_pack_transition.  The memberships that pack w replaces are those of
\* the installed version of its project; the other packs keep theirs.
Replaced(current, w) == IF w.local THEN {} ELSE {m \in current.members : m.pack = w.id}
OthersOf(current, w) == current.members \ Replaced(current, w)

\* What the pack owned and no longer has goes to another pack, or goes.
Leaving(current, w) == Orphans(Replaced(current, w)) \ IdsOf(w.members)
Passed(current, w)  == PassOn(OthersOf(current, w), Leaving(current, w))
Removed(current, w) == (Leaving(current, w) \ IdsOf(OthersOf(current, w)))
                          \cup (IF w.local THEN {} ELSE {w.id} \cap IdsOf(current.items))

\* What it has it owns as before, or because nobody has asked for it.
Carried(current, w, i) == Owned(Replaced(current, w), i)
Joined(current, w) ==
    LET asked == IdsOf(current.requested) \ Removed(current, w) IN
    {[pack |-> w.id, id |-> m.id, ver |-> m.ver, default |-> m.default,
      owns |-> \/ Carried(current, w, m.id)
               \/ m.id \notin asked /\ ~Owned(Passed(current, w), m.id)] : m \in w.members}

\* A member has one version, whoever has it.
PackFits(current, w) ==
    \A m \in w.members :
        /\ \A n \in Passed(current, w) : n.id = m.id => n.ver = m.ver
        /\ \A it \in current.items : it.id = m.id => it.ver = m.ver \/ Carried(current, w, m.id)

\* validate_mrpack_profile_budget, as far as targets go.
TargetsFit(current, w) ==
    LET stay  == {it \in current.items :
                    it.id \notin Removed(current, w) \cup IdsOf(w.members) \cup {w.id}}
        files == {o \in current.overrides : o.pack # w.id}
        taken == {it.target : it \in stay} \cup {o.target : o \in files}
        new   == {w.target} \cup w.files \cup {TheVersion(m.id, m.ver).target : m \in w.members}
    IN taken \cap new = {}

\* The selections a pack is imported with, and its releases.
Unmoved(current, w) == {s \in current.requested : s.id \notin Removed(current, w) \cup {w.id}}
Repinned(s, w) == IF s.id \in IdsOf(w.members)
                  THEN [s EXCEPT !.req = {m.ver : m \in {n \in w.members : n.id = s.id}}] ELSE s
Merged(current, w) ==
    {Select(w.id, {w.ver}, TRUE)} \cup {Repinned(s, w) : s \in Unmoved(current, w)}
      \cup {Select(m.id, {m.ver}, m.default) :
               m \in {n \in w.members : n.id \notin IdsOf(Unmoved(current, w))}}
PackReleases(w) ==
    {Downloaded(w, {})} \cup {Downloaded(x, PinnedDependencies(x)) :
                                  x \in {TheVersion(m.id, m.ver) : m \in w.members}}

\* import_staged_modrinth_pack
ImportPack(current, w) ==
    LET members == Passed(current, w) \cup Joined(current, w)
        files   == {[pack |-> w.id, target |-> f] : f \in w.files}
        others  == {o \in current.overrides : o.pack # w.id}
    IN IF \/ \E it \in current.items : it.id = w.id /\ (w.local \/ it.ver = w.ver)
          \/ ~PackFits(current, w) \/ ~TargetsFit(current, w)
       THEN {}
       ELSE UNION {{[WithMembers(next, members) EXCEPT !.overrides = others \cup files] :
                        next \in ResolveNext(current, requested, PackReleases(w), FALSE)} :
                   requested \in ReconcileMembers(Merged(current, w), members)}

-----------------------------------------------------------------------------
(* The next lock of each command, before it is validated *)

\* install_modrinth, for a mod
InstallMod(current, w) ==
    IF \/ \E it \in current.items : it.id = w.id /\ it.ver = w.ver
       \/ \E m \in MembersOf(current, w.id) : m.ver # w.ver
    THEN {}
    ELSE UNION {ResolveNext(current,
                            Others(current.requested, w.id) \cup {Select(w.id, {w.ver}, TRUE)},
                            releases, TRUE) : releases \in DownloadGraph(w)}

Install(current, w) == IF IsPack[w.id] THEN ImportPack(current, w) ELSE InstallMod(current, w)

\* add_local_file
AddLocal(current, w) ==
    ResolveNext(current, Others(current.requested, w.id) \cup {Select(w.id, {w.ver}, TRUE)},
                {Release(w, {}, "runtime")}, TRUE)

RequiredByEnabled(current, i) ==
    \E it \in current.items : /\ it.enabled /\ it.id # i
                              /\ \E d \in it.deps : d.id = i /\ d.kind = "required"

\* Mutant: a pack's member is switched off under the pack.
SetEnabledUnguarded(current, it, on) ==
    LET sel == Select(it.id, {it.ver}, on) IN
    ResolveNext(current, Others(current.requested, it.id) \cup {sel}, {}, TRUE)

\* set_enabled: acting on a member by hand takes it from the packs.
SetEnabled(current, it, on) ==
    LET mine    == MembersOf(current, it.id)
        claimed == {IF m.id = it.id THEN [m EXCEPT !.owns = FALSE] ELSE m : m \in current.members}
        members == IF IsPack[it.id] THEN current.members ELSE claimed
        old     == {s \in current.requested : s.id = it.id}
        sel     == IF old = {} THEN Select(it.id, {it.ver}, on)
                   ELSE [(CHOOSE s \in old : TRUE) EXCEPT !.enabled = on]
    IN IF \/ (~on /\ RequiredByEnabled(current, it.id))
          \/ /\ ~on /\ ~IsPack[it.id]
             /\ \E m \in mine : m.default /\ \E s \in current.requested : s.id = m.pack /\ s.enabled
       THEN {}
       ELSE UNION {{[next EXCEPT !.members = members] :
                        next \in ResolveNext(current, requested, {}, TRUE)} :
                   requested \in ReconcileMembers(Others(current.requested, it.id) \cup {sel}, members)}

\* remove
RemoveItem(current, it) ==
    LET gone    == {m \in current.members : IsPack[it.id] /\ m.pack = it.id}
        kept    == current.members \ gone
        members == PassOn(kept, Orphans(gone))
        removals == {it.id} \cup (Orphans(gone) \ IdsOf(kept))
        left    == {s \in current.requested : s.id \notin removals}
    IN IF \/ RequiredByEnabled(current, it.id)
          \/ (~IsPack[it.id] /\ MembersOf(current, it.id) # {})
       THEN {}
       ELSE UNION {IF requested = {} THEN {NoContent}
                   ELSE {WithMembers(next, members) :
                            next \in ResolveNext(current, requested, {}, TRUE)} :
                   requested \in ReconcileMembers(left, members)}
-----------------------------------------------------------------------------
(* Commands that wait *)

Waiting == {c \in Calls : pc[c] # "idle"}

\* read_active_documents
ReadDocuments(c) ==
    /\ seen' = [seen EXCEPT ![c] = lock]
    /\ stale' = stale \ {c}

\* The operation engine makes next the active revision: every other command
\* under way has read too early.
NewRevision(next, others) ==
    /\ lock' = next
    /\ stale' = stale \cup others
    /\ touched' = touched \cup others

GoTo(c, step) == pc' = [pc EXCEPT ![c] = step]

Return(c) ==
    /\ GoTo(c, "idle")
    /\ seen' = [seen EXCEPT ![c] = NoContent]
    /\ cmd' = [cmd EXCEPT ![c] = NoCommand]
    /\ plan' = [plan EXCEPT ![c] = NoPlan]

\* install_modrinth and import_modrinth_pack read the documents ...
StartInstall(c, w) ==
    /\ pc[c] = "idle"
    /\ w \in listed \/ (w.local /\ IsPack[w.id])
    /\ GoTo(c, "working")
    /\ ReadDocuments(c)
    /\ cmd' = [cmd EXCEPT ![c] = [op |-> "install", id |-> w.id, ver |-> w.ver]]
    /\ UNCHANGED <<lock, listed, plan, intent, touched>>

\* ... and update does, which refuses what a pack manages.
Updatable(i) == /\ \E it \in lock.items : it.id = i /\ ~TheVersion(i, it.ver).local
                /\ MembersOf(lock, i) = {}

InstalledVersion(i) == (CHOOSE it \in lock.items : it.id = i).ver

BeginUpdate(c, i) ==
    /\ pc[c] = "idle"
    /\ Updatable(i)
    /\ GoTo(c, "checking")
    /\ cmd' = [cmd EXCEPT ![c] = [op |-> "update", id |-> i, ver |-> InstalledVersion(i)]]
    /\ UNCHANGED <<lock, listed, seen, stale, plan, intent, touched>>

\* apply_updates: the preview, whose revision a failure goes back to.
Available == {i \in Ids : Updatable(i) /\ UpdatesOf(i, InstalledVersion(i)) # {}}

BeginApply(c, ids) ==
    /\ pc[c] = "idle"
    /\ ids # {} /\ ids \subseteq Available
    /\ GoTo(c, "next")
    /\ plan' = [plan EXCEPT ![c] = [all |-> ids, todo |-> ids, base |-> lock, said |-> intent]]
    /\ cmd' = [cmd EXCEPT ![c].op = "apply"]
    /\ touched' = touched \ {c}
    /\ UNCHANGED <<lock, listed, seen, stale, intent>>

\* Mutant: what was applied before the error stays.
FailWithoutRollback(c) == Return(c) /\ UNCHANGED <<lock, stale, touched, intent>>

\* An error ends the command; apply_updates first goes back to its base, unless
\* that is still the active revision, whoever has committed since.
Fail(c) ==
    /\ Return(c)
    /\ IF cmd[c].op = "apply" /\ lock # plan[c].base
       THEN NewRevision(plan[c].base, Waiting \ {c}) /\ intent' = plan[c].said
       ELSE UNCHANGED <<lock, stale, touched, intent>>

\* The next update of a list begins like a single one.
NextUpdate(c) ==
    /\ pc[c] = "next"
    /\ LET i == First(plan[c].todo) IN
         \/ /\ Updatable(i)
            /\ GoTo(c, "checking")
            /\ cmd' = [cmd EXCEPT ![c] = [op |-> "apply", id |-> i, ver |-> InstalledVersion(i)]]
            /\ plan' = [plan EXCEPT ![c].todo = @ \ {i}]
            /\ UNCHANGED <<lock, seen, stale, intent, touched>>
         \/ ~Updatable(i) /\ Fail(c)
    /\ UNCHANGED listed

\* latest_compatible_update has answered; the install that follows reads the
\* documents again.
ChooseUpdate(c) ==
    /\ pc[c] = "checking"
    /\ LET newer == UpdatesOf(cmd[c].id, cmd[c].ver) IN
         \/ /\ newer # {}
            /\ GoTo(c, "working")
            /\ ReadDocuments(c)
            /\ cmd' = [cmd EXCEPT ![c].ver = Latest(newer).ver]
            /\ UNCHANGED <<lock, plan, intent, touched>>
         \/ newer = {} /\ Fail(c)
    /\ UNCHANGED listed

\* What the call has computed from the documents it read.
Computed(c) == Install(seen[c], TheVersion(cmd[c].id, cmd[c].ver))

\* Mutant: the base revision is not compared.
CommitUnchecked(c, next) == ValidLock(next) /\ NewRevision(next, Waiting \ {c})

\* commit_content_revision, which the engine refuses for a stale base.
Commit(c, next) == c \notin stale /\ ValidLock(next) /\ NewRevision(next, Waiting \ {c})

\* Everything is downloaded, resolved and committed; or a request fails, or
\* there is no such lock, or another command was faster.
Finish(c) ==
    /\ pc[c] = "working"
    /\ \/ \E next \in Computed(c) :
            /\ Commit(c, next)
            /\ IF plan[c].todo # {}
               THEN GoTo(c, "next") /\ UNCHANGED <<seen, cmd, plan>>
               ELSE Return(c)
            /\ intent' = [intent EXCEPT ![cmd[c].id] =
                             IF cmd[c].op = "install" \/ @ = "none" THEN "on" ELSE @]
       \/ Fail(c)
    /\ UNCHANGED listed
-----------------------------------------------------------------------------
(* Commands in one piece *)

\* Bound: no second commit while a waiting call has missed one already, which
\* is as stale as it gets.
Now(next) ==
    /\ stale = {}
    /\ ValidLock(next)
    /\ NewRevision(next, Waiting)
    /\ UNCHANGED <<listed, pc, seen, cmd, plan>>

Says(i, word) == intent' = [intent EXCEPT ![i] = word]

Toggle(it, on) ==
    \E next \in SetEnabled(lock, it, on) :
        Now(next) /\ Says(it.id, IF on THEN "on" ELSE "off")

Remove(it) ==
    \E next \in RemoveItem(lock, it) : Now(next) /\ Says(it.id, "none")

AddLocalFile(w) ==
    /\ w.local /\ ~IsPack[w.id]
    /\ \E next \in AddLocal(lock, w) : Now(next) /\ Says(w.id, "on")

\* Modrinth lists another version.
ListVersion(w) ==
    /\ w \notin listed /\ ~w.local
    /\ listed' = listed \cup {w}
    /\ UNCHANGED <<lock, pc, seen, cmd, stale, plan, intent, touched>>

Work(c) == NextUpdate(c) \/ ChooseUpdate(c) \/ Finish(c)

Next ==
    \/ \E c \in Calls : Work(c) \/ (\E i \in Ids : BeginUpdate(c, i))
    \/ \E c \in Calls, w \in World : StartInstall(c, w)
    \/ \E c \in Calls, ids \in SUBSET Ids : BeginApply(c, ids)
    \/ \E it \in lock.items : Remove(it) \/ \E on \in BOOLEAN : Toggle(it, on)
    \/ \E w \in World : AddLocalFile(w) \/ ListVersion(w)

Spec == Init /\ [][Next]_vars
-----------------------------------------------------------------------------
\* The types, and that a command leaves nothing behind when it ends.
TypeOK ==
    /\ IdsOf(lock.items) \subseteq Ids /\ IdsOf(lock.requested) \subseteq Ids
    /\ listed \subseteq World
    /\ pc \in [Calls -> {"idle", "next", "checking", "working"}]
    /\ stale \subseteq Calls /\ touched \subseteq Calls
    /\ intent \in [Ids -> {"none", "on", "off"}]
    /\ \A c \in Calls : pc[c] = "idle" =>
          seen[c] = NoContent /\ cmd[c] = NoCommand /\ plan[c] = NoPlan

\* What is selected is what the user has asked for and what the installed packs
\* contain, and nothing else, and the override files are those of the installed
\* packs, however packs come, change and go and commands overlap; what the user
\* wants on is on.
LockFollowsIntent ==
    /\ TypeOK
    /\ IdsOf(lock.requested) = {i \in Ids : intent[i] # "none"} \cup IdsOf(lock.members)
    /\ \A s \in lock.requested : intent[s.id] = "on" => s.enabled
    /\ lock.overrides = UNION {{[pack |-> it.id, target |-> f] : f \in TheVersion(it.id, it.ver).files} :
                                  it \in lock.items}

\* Everything a command computes passes the validation at its end: no command is
\* refused because the launcher has built a broken lock itself.
ComputedLocksAreValid ==
    /\ Waiting = {} => \A it \in lock.items :
          \A next \in RemoveItem(lock, it) \cup UNION {SetEnabled(lock, it, on) : on \in BOOLEAN} :
              ValidLock(next)
    /\ \A c \in Calls : pc[c] = "working" => \A next \in Computed(c) : ValidLock(next)

\* A list of updates that no other command comes between takes effect as a
\* whole or not at all.
Updated(i, before, after) ==
    \E old \in before.items, new \in after.items :
        old.id = i /\ new.id = i /\ TheVersion(i, new.ver).date > TheVersion(i, old.ver).date

ApplyAllOrNothing ==
    [][\A c \in Calls :
         (cmd[c].op = "apply" /\ pc'[c] = "idle" /\ c \notin touched) =>
             lock' = plan[c].base \/ \A i \in plan[c].all : Updated(i, plan[c].base, lock')]_vars

\* docs/PHASE-6-ARCHITECTURE.md has packs share a member of one version: the
\* description of a release that is installed is the one an import brings.  Does not hold for a
\* member of several game versions: the lock keeps the profile's alone.
SharedMemberIsOneRelease ==
    \A w \in listed : IsPack[w.id] =>
        \A m \in w.members, n \in lock.members :
            (n.id = m.id /\ n.ver = m.ver) =>
                ~CatalogClash(ReleasesFromLock(lock)
                                \cup {Downloaded(x, PinnedDependencies(x)) : x \in Versions(m.id, m.ver)})

\* docs/PHASE-6-ARCHITECTURE.md has a disabled pack enabled again: whatever the
\* user has disabled can be enabled.  Does not hold for what needs something
\* else: with it the dependency left the lock, the only source of enabling.
DisablingCanBeUndone ==
    Waiting = {} => \A it \in lock.items : ~it.enabled => SetEnabled(lock, it, TRUE) # {}
=============================================================================
