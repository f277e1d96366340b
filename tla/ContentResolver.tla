--------------------------- MODULE ContentResolver ---------------------------
(***************************************************************************)
(* The content resolver: it turns a profile's selections and a catalogue   *)
(* of releases into a lock, the complete list of what is installed.        *)
(*                                                                         *)
(* A version requirement is the set of versions it admits, and a version a *)
(* number in the order of compare_versions.  An operator that may refuse   *)
(* returns the set of its results: empty, or with one element.             *)
(***************************************************************************)
EXTENDS Integers, FiniteSets

CONSTANTS
    Rank,       \* the order of content identifiers, an injective function
    IsPack,     \* ContentKind of each identifier: modpack or not
    MaxItems    \* MAX_CONTENT_SELECTIONS

Ids      == DOMAIN Rank

(* Any identifiers have a first. *)
ASSUME RankAssumption ==
    /\ \A S \in SUBSET Ids : S # {} => \E i \in S : \A j \in S : Rank[i] <= Rank[j]
    /\ IsPack \in [Ids -> BOOLEAN]

First(S) == CHOOSE i \in S : \A j \in S : Rank[i] <= Rank[j]

\* ContentReleaseV1 is [id, ver, deps, target, scope]: scope stands for its
\* compatibility list, which the launcher has in two forms, the one Modrinth
\* publishes and the one that names the profile's runtime only.
\* A dependency is [id, kind, req].
IdsOf(S)           == {x.id : x \in S}
Supports(release)  == release.scope # "other runtime"
Activated(dep, optional) ==
    dep.kind = "required" \/ (optional /\ dep.kind = "optional")

Conflicts(a, b) ==
    \E dep \in a.deps : dep.kind = "incompatible" /\ dep.id = b.id /\ b.ver \in dep.req

\* detect_assignment_conflict
Compatible(chosen) ==
    \A a, b \in chosen : a # b => ~Conflicts(a, b) /\ a.target # b.target

Admits(wanted, release) == \A w \in wanted : w.id = release.id => release.ver \in w.req

CandidatePool(catalog, wanted, id) ==
    {r \in catalog : r.id = id /\ Supports(r) /\ Admits(wanted, r)}

Newest(pool) == CHOOSE r \in pool : \A q \in pool : q.ver <= r.ver

\* build_catalog refuses two descriptions of one release.
CatalogClash(releases) ==
    \E a, b \in releases : a.id = b.id /\ a.ver = b.ver /\ a # b

Roots(request) == {s \in request.requested : s.enabled}

\* The requirements a chosen release adds: its own, and the selection's for
\* what it activates.
Demands(release, request) ==
    LET deps == {d \in release.deps : Activated(d, request.optional)} IN
    {[id |-> d.id, req |-> d.req] : d \in deps}
        \cup {[id |-> s.id, req |-> s.req] : s \in {t \in request.requested : t.id \in IdsOf(deps)}}

\* What is asked of the releases once those in chosen are taken.
Wanted(request, chosen) ==
    {[id |-> s.id, req |-> s.req] : s \in Roots(request)}
        \cup UNION {Demands(r, request) : r \in chosen}

Consistent(wanted, chosen) == Compatible(chosen) /\ \A r \in chosen : Admits(wanted, r)

\* Mutant: the first candidate is the only one.
NoneUntried(pool) == {}

Untried(pool) == pool \ {Newest(pool)}

\* From the releases chosen so far: the newest candidate of pool, the releases
\* of the first content still without one, whose subtree can be solved.
SolveActive(catalog, request) ==
    LET try[chosen \in SUBSET catalog, pool \in SUBSET catalog] ==
            IF pool = {} THEN {}
            ELSE LET next   == chosen \cup {Newest(pool)}
                     wanted == Wanted(request, next)
                     left   == IdsOf(wanted) \ IdsOf(next)
                     found  == IF ~Consistent(wanted, next) THEN {}
                               ELSE IF left = {} THEN {next}
                               ELSE try[next, CandidatePool(catalog, wanted, First(left))]
                 IN IF found # {} THEN found ELSE try[chosen, Untried(pool)]
        roots == Wanted(request, {})
    IN IF roots = {} THEN {{}}
       ELSE try[{}, CandidatePool(catalog, roots, First(IdsOf(roots)))]

Item(release, on) == [id |-> release.id, ver |-> release.ver, deps |-> release.deps,
                      target |-> release.target, enabled |-> on]

Placements(catalog) == {Item(r, on) : r \in catalog, on \in BOOLEAN}

\* Disabled selections are placed afterwards, one by one, at a free target;
\* one that is active as a dependency stays active.
Placing(catalog, disabled) ==
    LET place[left \in SUBSET disabled, items \in SUBSET Placements(catalog)] ==
            IF left = {} THEN {items}
            ELSE LET s    == CHOOSE s \in left : s.id = First(IdsOf(left))
                     free == {r \in CandidatePool(catalog, {s}, s.id) :
                                  \A it \in items : it.target # r.target}
                 IN IF s.id \in IdsOf(items)
                    THEN IF \E it \in items : it.id = s.id /\ it.ver \in s.req
                         THEN place[left \ {s}, items] ELSE {}
                    ELSE IF free = {} THEN {}
                    ELSE place[left \ {s}, items \cup {Item(Newest(free), FALSE)}]
    IN place

\* What is placed are releases of the catalogue; saying so spares the proofs an
\* induction over the function above.
PlaceDisabled(catalog, disabled, active) ==
    Placing(catalog, disabled)[disabled, active] \cap SUBSET Placements(catalog)

\* resolve_content
ResolveContent(request, releases) ==
    IF CatalogClash(releases) \/ Cardinality(request.requested) > MaxItems THEN {}
    ELSE UNION {{[requested |-> request.requested, optional |-> request.optional,
                  items |-> items, members |-> {}, overrides |-> {}] :
                     items \in PlaceDisabled(releases, request.requested \ Roots(request),
                                             {Item(r, TRUE) : r \in chosen})} :
                chosen \in SolveActive(releases, request)}

-----------------------------------------------------------------------------
(* validate_resolved_content_lock *)

NoContent == [requested |-> {}, optional |-> FALSE, items |-> {}, members |-> {},
              overrides |-> {}]

ActiveDeps(lock, it) ==
    IF it.enabled THEN {d \in it.deps : Activated(d, lock.optional)} ELSE {}

Selected(lock, id, ver) == \E s \in lock.requested : s.id = id /\ ver \in s.req

TargetsValid(lock) ==
    /\ \A a, b \in lock.items : a # b => a.id # b.id /\ a.target # b.target
    /\ \A o \in lock.overrides :
          /\ o.pack \in IdsOf(lock.items) /\ IsPack[o.pack]
          /\ \A it \in lock.items : it.target # o.target
          /\ \A p \in lock.overrides : p # o => p.target # o.target

SelectionsValid(lock) ==
    \A s \in lock.requested :
        \E it \in lock.items : it.id = s.id /\ it.ver \in s.req /\ (s.enabled => it.enabled)

DependenciesValid(lock) ==
    \A it \in lock.items :
        /\ \A d \in ActiveDeps(lock, it) :
              \E t \in lock.items : t.id = d.id /\ t.enabled /\ t.ver \in d.req
        /\ it.enabled => \A t \in lock.items : t.enabled => ~Conflicts(it, t)

MembersValid(lock) ==
    /\ \A m \in lock.members :
          /\ m.pack # m.id /\ IsPack[m.pack]
          /\ \E p, t \in lock.items :
                /\ p.id = m.pack /\ t.id = m.id /\ t.ver = m.ver
                /\ Selected(lock, p.id, p.ver) /\ Selected(lock, t.id, t.ver)
                /\ p.enabled /\ m.default => t.enabled
    /\ \A m, n \in lock.members : m.owns /\ n.owns /\ m.id = n.id => m = n

\* What holds the enabled selections and, with an item, all that it activates.
Closed(lock, ids) ==
    /\ \A s \in lock.requested : s.enabled => s.id \in ids
    /\ \A it \in lock.items : it.id \in ids => IdsOf(ActiveDeps(lock, it)) \subseteq ids

\* Nothing is enabled that no enabled selection needs, and nothing kept
\* disabled that was not selected so.
ReachabilityValid(lock) ==
    \A it \in lock.items :
        IF it.enabled THEN \A ids \in SUBSET IdsOf(lock.items) : Closed(lock, ids) => it.id \in ids
        ELSE \E s \in lock.requested : s.id = it.id /\ ~s.enabled

ValidLock(lock) ==
    /\ TargetsValid(lock) /\ SelectionsValid(lock) /\ DependenciesValid(lock)
    /\ MembersValid(lock) /\ ReachabilityValid(lock)

-----------------------------------------------------------------------------
(* What a resolution is, without saying how it is searched for *)

Solutions(request, releases) ==
    {S \in SUBSET {r \in releases : Supports(r)} :
        /\ \A a, b \in S : a # b => a.id # b.id
        /\ Compatible(S)
        /\ \A s \in request.requested : \A r \in S : r.id = s.id => r.ver \in s.req
        /\ ValidLock([NoContent EXCEPT !.requested = Roots(request),
                                       !.optional = request.optional,
                                       !.items = {Item(r, TRUE) : r \in S}])}
=============================================================================
