--------------------------- MODULE ComponentIntake ---------------------------
(***************************************************************************)
(* The optional S9Lab component of a runtime: the catalog of the provider  *)
(* (components/provider.rs), the signatures of its manifests               *)
(* (runtime/component.rs, components/trust.rs) and the jar itself          *)
(* (components/jar.rs).                                                    *)
(*                                                                         *)
(* A manifest is [payload, signature].  The payload has everything that is *)
(* signed: fits (formats, tokens, lengths), key, id, version, minecraft,   *)
(* kind, loader (a version or None for any), sha, size, and target.  Its   *)
(* encoding is unambiguous, so that a signature is [by, over]: the key and *)
(* the payload it was made for.                                            *)
(*                                                                         *)
(* A served jar is [sha, size, entries]; the entry of a descriptor has the *)
(* mod it names in holds, None when it names none or several.              *)
(***************************************************************************)
EXTENDS Archives

CONSTANTS
    TrustedKeys,        \* compiled into the launcher; none when unconfigured
    Origin,             \* whether an origin is compiled in, and well formed:
                        \* "none", "invalid" or "set"
    ComponentLimits     \* of a jar, with catalog and descriptor added

VARIABLES
    served,     \* what the provider answers: [catalog, jars]
    wish,       \* [id, version, minecraft, kind, loader]: the selection and
                \* the runtime of the profile
    compPc,
    chosen,     \* the manifest that was resolved
    compStaged, \* the jar in the staging directory, or None
    compItem    \* the item of the lock, [target, sha, size], or None

compVars == <<served, wish, compPc, chosen, compStaged, compItem>>

(* validate_component_target *)
ComponentTarget(id) == <<"mods", "s9lab", id>>

(* from_configuration, require_available *)
Available == Origin = "set" /\ TrustedKeys # {}

(* validate_component_compatibility *)
Compatible(p, runtime) ==
    /\ p.minecraft = runtime.minecraft
    /\ p.kind = runtime.kind
    /\ p.loader # None => p.loader = runtime.loader

(* CompiledTrustStore.verify: by the key the payload names, one of the
   compiled keys, over exactly this payload. *)
SignatureHolds(m) ==
    /\ m.payload.key \in TrustedKeys
    /\ m.signature = [by |-> m.payload.key, over |-> m.payload]

(* The signature is one of the key, whatever it was made for. *)
ManifestVerifiedByKey(m, runtime) ==
    /\ m.payload.fits /\ m.payload.size > 0
    /\ m.payload.target = ComponentTarget(m.payload.id)
    /\ Compatible(m.payload, runtime)
    /\ m.payload.key \in TrustedKeys /\ m.signature.by = m.payload.key

(* validate_and_verify_component_manifest *)
ManifestVerified(m, runtime) ==
    /\ m.payload.fits
    /\ m.payload.kind = "vanilla" => m.payload.loader = None
    /\ m.payload.size > 0
    /\ m.payload.target = ComponentTarget(m.payload.id)
    /\ Compatible(m.payload, runtime)
    /\ SignatureHolds(m)

OwnRuntime(p) == [minecraft |-> p.minecraft, kind |-> p.kind, loader |-> p.loader]
Identity(p) == <<p.id, p.version, p.minecraft, p.kind, p.loader>>

(* parse_and_verify_catalog: one wrong manifest condemns the catalog. *)
CatalogVerified(catalog) ==
    /\ Len(catalog) \in 1 .. ComponentLimits.catalog
    /\ \A i \in DOMAIN catalog :
          /\ catalog[i].payload.kind # "vanilla"
          /\ ManifestVerified(catalog[i], OwnRuntime(catalog[i].payload))
    /\ \A i, j \in DOMAIN catalog :
          i # j => Identity(catalog[i].payload) # Identity(catalog[j].payload)

(* resolve_exact: the first of the catalog that matches. *)
Matches(m, w) ==
    /\ m.payload.id = w.id /\ m.payload.version = w.version
    /\ Compatible(m.payload, w)
Exact(catalog, w) ==
    {catalog[i] : i \in {k \in DOMAIN catalog :
                            /\ Matches(catalog[k], w)
                            /\ \A j \in 1 .. k - 1 : ~Matches(catalog[j], w)}}

-----------------------------------------------------------------------------
Descriptor(kind) == IF kind = "fabric" THEN <<"fabric.mod.json">>
                    ELSE <<"META-INF", "neoforge.mods.toml">>

(* inspect_component_jar: the entries, and exactly one descriptor that names
   the component. *)
JarFits(jar, p) ==
    LET at == {i \in DOMAIN jar.entries :
                  jar.entries[i].path = Descriptor(p.kind)}
    IN  /\ JarAccepted(jar.entries, ComponentLimits)
        /\ Cardinality(at) = 1
        /\ \A i \in at :
              /\ ~jar.entries[i].dir
              /\ jar.entries[i].size \in 1 .. ComponentLimits.descriptor
              /\ jar.entries[i].holds = p.id

CompInit(offers, wishes) ==
    /\ served \in offers /\ wish \in wishes
    /\ compPc = "start" /\ chosen = None
    /\ compStaged = None /\ compItem = None

RefuseComponent ==
    /\ compPc' = "refused"
    /\ UNCHANGED <<chosen, compStaged, compItem>>

(* fetch_catalog and resolve_exact, which verifies the manifest again, for
   the runtime of the profile. *)
ResolveComponent ==
    /\ compPc = "start"
    /\ LET found == {m \in Exact(served.catalog, wish) :
                       /\ Available /\ CatalogVerified(served.catalog)
                       /\ ManifestVerified(m, wish)}
       IN  \/ /\ chosen' \in found /\ compPc' = "download"
              /\ UNCHANGED <<compStaged, compItem>>
           \/ found = {} /\ RefuseComponent
    /\ UNCHANGED <<served, wish>>

(* download_and_inspect: the body goes to the staging directory; what is
   wrong with it takes it away again. *)
DownloadComponent(jar) ==
    /\ compPc = "download"
    /\ compStaged' = jar
    /\ compPc' = "inspect"
    /\ UNCHANGED <<served, wish, chosen, compItem>>

InspectComponent ==
    /\ compPc = "inspect"
    /\ IF /\ compStaged.size = chosen.payload.size
          /\ compStaged.sha = chosen.payload.sha
          /\ JarFits(compStaged, chosen.payload)
       THEN /\ compPc' = "locked"
            /\ compItem' = [target |-> chosen.payload.target,
                            sha |-> compStaged.sha, size |-> compStaged.size]
            /\ UNCHANGED <<chosen, compStaged>>
       ELSE /\ compPc' = "refused" /\ compStaged' = None
            /\ UNCHANGED <<chosen, compItem>>
    /\ UNCHANGED <<served, wish>>

CompNext ==
    \/ ResolveComponent
    \/ \E jar \in served.jars : DownloadComponent(jar)
    \/ InspectComponent

-----------------------------------------------------------------------------
(* A component enters the lock of a profile only when some trusted key
   signed these very bytes for this component, version, game and loader and
   for no other place than its own; the choice does not depend on the other
   manifests of the catalog unless two of them fit; and a jar that is
   refused is not left in the staging directory.  Covers resolve_exact,
   validate_and_verify_component_manifest and download_and_inspect. *)
ComponentIsSigned ==
    /\ compPc = "locked" =>
          \E i \in DOMAIN served.catalog :
             LET m == served.catalog[i]
             IN  /\ m.signature.by \in TrustedKeys
                 /\ m.signature.over.id = wish.id
                 /\ m.signature.over.version = wish.version
                 /\ Compatible(m.signature.over, wish)
                 /\ compItem = [target |-> ComponentTarget(wish.id),
                                sha |-> m.signature.over.sha,
                                size |-> m.signature.over.size]
                 /\ JarFits(compStaged, m.signature.over)
    /\ compPc = "refused" => compStaged = None /\ compItem = None

=============================================================================
