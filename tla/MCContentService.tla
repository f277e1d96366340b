-------------------------- MODULE MCContentService --------------------------
(***************************************************************************)
(* Small instances of ContentService: two mods, the second a dependency of *)
(* the first and of no fixed version, and two packs that share a member.   *)
(***************************************************************************)
EXTENDS ContentService

CONSTANTS A, B, C, P, Q, c1,
          Wide   \* whether the shared member supports more than the profile's runtime

MCRank   == [i \in {A, B, C, P, Q} |->
                CASE i = A -> 1 [] i = B -> 2 [] i = C -> 3 [] i = P -> 4 [] i = Q -> 5]
MCIsPack == [i \in {A, B, C, P, Q} |-> i \in {P, Q}]

Version(i, v, date, deps, wide) ==
    [id |-> i, ver |-> v, date |-> date, deps |-> deps, target |-> <<i, v>>, wide |-> wide,
     local |-> FALSE, members |-> {}, files |-> {}]
Pack(i, v, members, files) ==
    [Version(i, v, v, {}, FALSE) EXCEPT !.members = members, !.files = files]
Needs(i, pin)  == [id |-> i, kind |-> "required", pin |-> pin]
Has(i, v, on)  == [id |-> i, ver |-> v, default |-> on]

A1 == Version(A, 1, 1, {Needs(B, 0)}, FALSE)
B2 == Version(B, 2, 1, {}, Wide)
B1 == Version(B, 1, 2, {}, FALSE)
P1 == Pack(P, 1, {Has(B, 2, TRUE)}, {<<P, 0>>})
P2 == Pack(P, 2, {Has(A, 1, TRUE)}, {})
Q1 == Pack(Q, 1, {Has(B, 2, FALSE)}, {<<Q, 0>>})
Q2 == Pack(Q, 2, {Has(B, 2, TRUE)}, {<<Q, 0>>})

L1 == [Version(C, 1, 1, {}, FALSE) EXCEPT !.local = TRUE, !.target = <<A, 1>>]

Start   == {A1, B2, P1, P2, Q1, Q2}
Later   == {B1}
MCWorld == Start \cup Later \cup {L1}

-----------------------------------------------------------------------------
(* Small catalogues for the resolver *)

Rel(i, v, deps) == [id |-> i, ver |-> v, deps |-> deps, target |-> i, scope |-> "runtime"]
Dep(i, kind, req) == [id |-> i, kind |-> kind, req |-> req]

RootDeps == {{}, {Dep(B, "required", {1, 2})}, {Dep(B, "required", {2}), Dep(C, "optional", {1})},
             {Dep(B, "optional", {1}), Dep(C, "required", {1})}}
LeafDeps == {{}, {Dep(C, "required", {1})}, {Dep(A, "incompatible", {2})}}
LastDeps == {{}, {Dep(B, "incompatible", {2})}, {Dep(A, "required", {1})}}

Catalogues ==
    {{Rel(A, 1, d1), Rel(A, 2, d2), Rel(B, 1, e1), [Rel(B, 2, e2) EXCEPT !.scope = scope],
      Rel(C, 1, f)} :
        d1, d2 \in RootDeps, e1, e2 \in LeafDeps, f \in LastDeps,
        scope \in {"runtime", "other runtime"}}

Requests ==
    [requested : {{Select(A, {1, 2}, TRUE)}, {Select(A, {1, 2}, TRUE), Select(C, {1}, FALSE)},
                  {Select(A, {1, 2}, TRUE), Select(B, {2}, TRUE)},
                  {Select(A, {2}, FALSE), Select(B, {1, 2}, TRUE)}},
     optional : BOOLEAN]

(* The resolver's search on its own, and all that the commands make of it. *)

\* The search finds a solution whenever there is one, and only solutions: for
\* every small catalogue and request, solve_active against the definition of a
\* solution.
ResolverAgrees ==
    lock = NoContent /\ listed = AtStart /\ Waiting = {} /\ intent = [i \in Ids |-> "none"] =>
        \A releases \in Catalogues, request \in Requests :
            LET found == SolveActive(releases, request)
                sols  == Solutions(request, releases)
            IN found \subseteq sols /\ (found = {} => sols = {})

\* The launcher neither refuses what can be done nor does what it must refuse:
\* the search agrees with its definition and every computed lock is valid.
\* Covers solve_active, validate_resolved_content_lock and their callers.
LocksAreSound == ResolverAgrees /\ ComputedLocksAreValid
=============================================================================
