-------------------------- MODULE RuntimeResolution --------------------------
(***************************************************************************)
(* From the metadata of Mojang and Fabric to the command line of the game: *)
(* minecraft/resolver.rs with the checks of minecraft/provider.rs, the     *)
(* launch configuration of minecraft/service.rs, the lock's own rules      *)
(* (runtime/validation.rs), and the arguments of minecraft/                *)
(* profile_launch.rs.                                                      *)
(*                                                                         *)
(* A download is [sha, size, host, path]: host says that the URL is of an  *)
(* allowed host, path that the stated path is there and a fit one.  A rule *)
(* is [allow, os, arch, osVersion, features] with features a set of        *)
(* [name, wanted]; an argument is [rules, values]; a token is [text, hole] *)
(* with hole the placeholder in it, or None.                               *)
(***************************************************************************)
EXTENDS Absence, Integers, Sequences, FiniteSets
LOCAL INSTANCE SequencesExt

CONSTANTS
    Platform,           \* [os, arch] of the build
    SupportedJava,      \* SUPPORTED_JAVA_MAJORS
    MaxArtifact, MaxAsset,
    Holes,              \* placeholders the launcher fills; logging_config is
                        \* filled on demand
    MaxRepublished

VARIABLES
    published,  \* the version document Mojang serves, which its version
                \* manifest names by its hash
    manifest,   \* version_manifest_cache: the document it named, or None
    republished,
    ask,        \* [version, java, loader, component, assets, custom,
                \* fullscreen]: what is installed and launched, with what
                \* Fabric and the asset index answer
    resPc,
    base,       \* the resolved document, or None
    sources,    \* artifacts to download
    locked,     \* items of the lock
    config,     \* ResolvedLaunchConfiguration
    output      \* the arguments of the game

resVars == <<published, manifest, republished, ask, resPc, base,
             sources, locked, config, output>>

-----------------------------------------------------------------------------
(* Rules *)

(* The architecture "x86" also names the 64-bit one. *)
OsMatches(r) ==
    /\ r.os \in {None, Platform.os}
    /\ \/ r.arch \in {None, Platform.arch}
       \/ r.arch = "x86" /\ Platform.arch = "x86_64"
    /\ ~r.osVersion

(* No rules allow; of several the last that matches decides, and none that
   matches forbids. *)
Decides(rules, hits) == rules = <<>> \/ (hits # <<>> /\ Last(hits).allow)

Feature(name) == name = "has_custom_resolution"
FeaturesMatch(r) == \A f \in r.features : Feature(f.name) = f.wanted

(* rules_allow_current_platform: a library has no features to ask for. *)
LibraryAllowed(rules) ==
    LET Fits(r) == r.features = {} /\ OsMatches(r)
    IN  Decides(rules, SelectSeq(rules, Fits))

(* Any rule that allows is enough. *)
ArgumentAllowedByAny(rules) ==
    rules = <<>> \/ \E i \in DOMAIN rules :
        rules[i].allow /\ OsMatches(rules[i]) /\ FeaturesMatch(rules[i])

(* rules_allow *)
ArgumentAllowed(rules) ==
    LET Fits(r) == OsMatches(r) /\ FeaturesMatch(r)
    IN  Decides(rules, SelectSeq(rules, Fits))

-----------------------------------------------------------------------------
(* Artifacts *)

LibraryTarget(sha) == <<"libraries", sha>>

Source(id, target, d, kind) ==
    [id |-> id, target |-> target, sha |-> d.sha, size |-> d.size, kind |-> kind]

DownloadFits(d) == d.host /\ d.sha # None /\ d.size \in 1 .. MaxArtifact

(* What a library of the version document brings. *)
NativeOf(lib) == IF Platform.os \in DOMAIN lib.natives
                 THEN lib.natives[Platform.os] ELSE None
LibraryDownloads(lib) ==
    (IF lib.artifact = None THEN <<>>
     ELSE <<[id |-> <<lib.name, "jar">>, d |-> lib.artifact, kind |-> "library"]>>)
    \o (IF NativeOf(lib) \in DOMAIN lib.classifiers
        THEN <<[id |-> <<lib.name, NativeOf(lib)>>,
                d |-> lib.classifiers[NativeOf(lib)], kind |-> "native"]>>
        ELSE <<>>)
Libraries(doc) ==
    FlattenSeq([i \in DOMAIN doc.libraries |->
        IF LibraryAllowed(doc.libraries[i].rules)
        THEN LibraryDownloads(doc.libraries[i]) ELSE <<>>])

(* resolve_mojang_document; a logging argument is one of the JVM. *)
DocumentResolves(doc, version) ==
    /\ doc.fits /\ doc.id = version
    /\ DownloadFits(doc.client) /\ DownloadFits(doc.index)
    /\ \A i \in DOMAIN Libraries(doc) :
          LET l == Libraries(doc)[i] IN l.d.path /\ DownloadFits(l.d)
    /\ doc.logging # None => doc.logging.fits /\ DownloadFits(doc.logging.file)

BaseSources(doc) ==
    <<Source(<<"client", doc.id>>, <<"versions", doc.id>>, doc.client, "client"),
      Source(<<"index", doc.id>>, <<"indexes", doc.id>>, doc.index, "index")>>
    \o [i \in DOMAIN Libraries(doc) |->
          LET l == Libraries(doc)[i]
          IN  Source(l.id, LibraryTarget(l.d.sha), l.d, l.kind)]
    \o (IF doc.logging = None THEN <<>>
        ELSE <<Source(<<"logging", doc.id>>, <<"logging", doc.id>>,
                      doc.logging.file, "logging")>>)

JvmArguments(doc) ==
    doc.jvm \o IF doc.logging = None THEN <<>>
               ELSE <<[rules |-> <<>>, values |-> <<doc.logging.argument>>]>>

(* resolve_fabric: the checksum and the size come from the profile or from
   the Maven repository. *)
FabricDigest(lib) == IF lib.sha # None THEN lib.sha ELSE lib.sidecar
FabricSize(lib) == IF lib.size # None THEN lib.size ELSE lib.head
LoaderResolves(loader) ==
    \A i \in DOMAIN loader.libraries :
       LET lib == loader.libraries[i]
       IN  lib.host /\ FabricDigest(lib) # None
           /\ (lib.size = None => lib.head \in 1 .. MaxArtifact)
LoaderSources(loader) ==
    [i \in DOMAIN loader.libraries |->
        LET lib == loader.libraries[i]
        IN  [id |-> <<lib.name, "jar">>, target |-> LibraryTarget(FabricDigest(lib)),
             sha |-> FabricDigest(lib), size |-> FabricSize(lib), kind |-> "loader"]]

(* resolve_asset_objects: objects of one hash are one file. *)
AssetsResolve(objects) ==
    /\ \A o \in objects : o.sha # None /\ o.size \in 1 .. MaxAsset
    /\ \A o, p \in objects : o.sha = p.sha => o.size = p.size
AssetSources(objects) ==
    {[id |-> <<"asset", o.sha>>, target |-> <<"objects", o.sha>>, sha |-> o.sha,
      size |-> o.size, kind |-> "asset"] : o \in objects}

(* validate_source_targets *)
TargetsFit(s) ==
    \A i, j \in DOMAIN s : i # j => s[i].target # s[j].target /\ s[i].id # s[j].id

-----------------------------------------------------------------------------
(* build_launch_configuration *)

OfKind(s, kind) == SelectSeq(s, LAMBDA a : a.kind = kind)
Targets(s) == [i \in DOMAIN s |-> s[i].target]
FirstOnly(s) ==
    LET fresh == {i \in DOMAIN s : \A j \in 1 .. i - 1 : s[j] # s[i]}
    IN  [k \in 1 .. Cardinality(fresh) |->
            s[CHOOSE i \in fresh : Cardinality({j \in fresh : j <= i}) = k]]

Configuration(doc, loader) ==
    LET own == BaseSources(doc)
        extra == IF loader = None THEN <<>> ELSE LoaderSources(loader)
    IN  [main |-> IF loader = None THEN doc.main ELSE loader.main,
         jvm |-> JvmArguments(doc) \o IF loader = None THEN <<>> ELSE loader.jvm,
         game |-> doc.game \o IF loader = None THEN <<>> ELSE loader.game,
         legacy |-> doc.legacy,
         classpath |-> FirstOnly(Targets(OfKind(own, "library")) \o Targets(extra)
                                 \o Targets(OfKind(own, "client"))),
         natives |-> Targets(OfKind(own, "native"))]

(* The component of the catalog (ComponentIntake) is locked with the rest. *)
ComponentItem(sha) ==
    [id |-> <<"component", sha>>, target |-> <<"mods", sha>>, sha |-> sha,
     size |-> 1, kind |-> "component"]
ComponentItems(sha) == IF sha = None THEN <<>> ELSE <<ComponentItem(sha)>>

(* lock_item and validate_resolved_runtime_lock *)
ItemFits(s) == s.size \in 1 .. MaxArtifact
LockFits(items, loader) ==
    /\ items # <<>>
    /\ \A i \in DOMAIN items : ItemFits(items[i])
    /\ loader = None => OfKind(items, "loader") = <<>>
    /\ TargetsFit(items)

(* validate_launch_configuration *)
ConfigurationFits(c) ==
    LET targets == c.classpath \o c.natives
    IN  c.classpath # <<>> /\ \A i, j \in DOMAIN targets : i # j => targets[i] # targets[j]

-----------------------------------------------------------------------------
(* build_launch_arguments *)

Plain(text) == [text |-> text, hole |-> None]
ClasspathFlags == {Plain("-cp"), Plain("-classpath")}

Mentions(args, hole) ==
    \E i \in DOMAIN args : \E k \in DOMAIN args[i].values :
       args[i].values[k].hole = hole

(* resolve_arguments *)
Resolved(args) ==
    FlattenSeq([i \in DOMAIN args |->
        IF ArgumentAllowed(args[i].rules) THEN args[i].values ELSE <<>>])
Fillable(tokens, filled) ==
    \A i \in DOMAIN tokens : tokens[i].hole \in filled \cup {None}

(* sanitize_classpath_arguments: a flag takes the next token with it. *)
Dropped(s) ==
    LET drop[n \in 0 .. Len(s)] ==     \* "value": the token after a flag
            IF n = 0 THEN "kept"
            ELSE IF drop[n - 1] = "flag" THEN "value"
            ELSE IF s[n] \in ClasspathFlags THEN "flag" ELSE "kept"
    IN  drop
WithoutClasspath(s) ==
    LET kept == {i \in DOMAIN s : Dropped(s)[i] = "kept"}
    IN  [k \in 1 .. Cardinality(kept) |->
            s[CHOOSE i \in kept : Cardinality({j \in kept : j <= i}) = k]]

LoggingItems(items) == OfKind(items, "logging")
Filled(c, items) ==
    Holes \cup IF Mentions(c.jvm, "logging_config") /\ LoggingItems(items) # <<>>
               THEN {"logging_config"} ELSE {}

(* resolve_fabric_component_argument *)
LockedComponents(items) == OfKind(items, "component")
ComponentArgument(items) ==
    IF LockedComponents(items) = <<>> THEN <<>> ELSE <<Plain("-Dfabric.addMods")>>

JvmPart(c, items, custom) ==
    WithoutClasspath(Resolved(c.jvm)) \o ComponentArgument(items) \o custom
AddMods(s) == \E i \in DOMAIN s : s[i].text = "-Dfabric.addMods"
ClassPath == [text |-> None, hole |-> "classpath"]
Fullscreen(s, wanted) ==
    IF wanted /\ ~(\E i \in DOMAIN s : s[i] = Plain("--fullscreen"))
    THEN <<Plain("--fullscreen")>> ELSE <<>>

ArgumentsFit(c, items, loader) ==
    /\ ConfigurationFits(c) /\ LockFits(items, loader)
    /\ LockedComponents(items) # <<>> => loader # None
    /\ Len(LoggingItems(items)) <= 1 \/ ~Mentions(c.jvm, "logging_config")
    /\ Fillable(Resolved(c.jvm), Filled(c, items))
    /\ ~AddMods(WithoutClasspath(Resolved(c.jvm)))
    /\ c.legacy = None => Fillable(Resolved(c.game), Filled(c, items))

Arguments(c, items, custom, fullscreen) ==
    LET own == JvmPart(c, items, custom)
        jvm == own \o IF \E i \in DOMAIN own : own[i] \in ClasspathFlags THEN <<>>
                      ELSE <<Plain("-cp"), ClassPath>>
        all == jvm \o <<Plain(c.main)>>
                   \o IF c.legacy = None THEN Resolved(c.game) ELSE c.legacy
    IN  all \o Fullscreen(all, fullscreen)

(* validate_settings: what the player may add to the JVM. *)
CustomFits(custom) ==
    \A i \in DOMAIN custom : custom[i] \notin ClasspathFlags \cup {Plain("-jar"), Plain("-Xmx")}

-----------------------------------------------------------------------------
ResInit(docs, asks) ==
    /\ published \in docs
    /\ manifest = None /\ republished = 0
    /\ ask \in {a \in asks : CustomFits(a.custom)}
    /\ resPc = "mojang" /\ base = None
    /\ sources = <<>> /\ locked = <<>> /\ config = None /\ output = <<>>

NotResolved == resPc' = "refused" /\ UNCHANGED <<base, sources, locked, config, output>>

(* version_manifest and resolve_mojang: the document must be the one the
   manifest names, which may be one of the last quarter of an hour. *)
ResolveMojang ==
    /\ resPc = "mojang"
    /\ manifest' = IF manifest = None THEN published ELSE manifest
    /\ IF /\ published = manifest'
          /\ DocumentResolves(published, ask.version)
          /\ ask.java = published.java /\ ask.java \in SupportedJava
       THEN /\ base' = published /\ sources' = BaseSources(published)
            /\ resPc' = "loader"
            /\ UNCHANGED <<locked, config, output>>
       ELSE NotResolved
    /\ UNCHANGED <<published, republished, ask>>

ResolveLoader ==
    /\ resPc = "loader"
    /\ IF ask.loader = None \/ LoaderResolves(ask.loader)
       THEN resPc' = "assets" /\ UNCHANGED <<base, sources, locked, config, output>>
       ELSE NotResolved
    /\ UNCHANGED <<published, manifest, republished, ask>>

(* resolve_assets, and everything that is to be downloaded at one place
   each. *)
ResolveAssets ==
    /\ resPc = "assets"
    /\ LET all == sources \o SetToSeq(AssetSources(ask.assets))
                  \o IF ask.loader = None THEN <<>> ELSE LoaderSources(ask.loader)
       IN  IF AssetsResolve(ask.assets) /\ TargetsFit(all)
           THEN sources' = all /\ resPc' = "lock" /\ UNCHANGED <<base, locked, config, output>>
           ELSE NotResolved
    /\ UNCHANGED <<published, manifest, republished, ask>>

(* A component is one of the catalog for the loader of the runtime. *)
LockRuntime ==
    /\ resPc = "lock"
    /\ IF /\ ask.component = None \/ ask.loader # None
          /\ LockFits(sources \o ComponentItems(ask.component), ask.loader)
          /\ Configuration(base, ask.loader).classpath # <<>>
       THEN /\ locked' = sources \o ComponentItems(ask.component)
            /\ config' = Configuration(base, ask.loader)
            /\ resPc' = "locked"
            /\ UNCHANGED <<base, sources, output>>
       ELSE NotResolved
    /\ UNCHANGED <<published, manifest, republished, ask>>

BuildArguments ==
    /\ resPc = "locked"
    /\ IF ArgumentsFit(config, locked, ask.loader)
       THEN output' = Arguments(config, locked, ask.custom, ask.fullscreen) /\ resPc' = "launched"
       ELSE output' = <<>> /\ resPc' = "not launched"
    /\ UNCHANGED <<published, manifest, republished, ask, base, sources, locked, config>>

(* Mojang replaces the document of a version and names the new one. *)
Republish(doc) ==
    /\ resPc = "mojang" /\ republished < MaxRepublished
    /\ republished' = republished + 1
    /\ published' = doc
    /\ manifest' \in {None, published}        \* looked at before, or not
    /\ UNCHANGED <<ask, resPc, base, sources, locked, config, output>>

ResNext(docs) ==
    \/ ResolveMojang \/ ResolveLoader \/ ResolveAssets \/ LockRuntime
    \/ BuildArguments
    \/ \E doc \in docs : Republish(doc)

-----------------------------------------------------------------------------
(* A reference reading of rules: an allowing rule matches and no later one
   does. *)
Reads(rules, Matches(_)) ==
    rules = <<>> \/ \E i \in DOMAIN rules :
        /\ rules[i].allow /\ Matches(rules[i])
        /\ \A j \in i + 1 .. Len(rules) : ~Matches(rules[j])
ForArgument(r) == OsMatches(r) /\ FeaturesMatch(r)
ForLibrary(r) == OsMatches(r) /\ r.features = {}

Positions(s, T) == {i \in DOMAIN s : s[i] \in T}
Before(s, x, y) == \E i, j \in DOMAIN s : i < j /\ s[i] = x /\ s[j] = y

(* The game that is started has what was locked and nothing else: before its
   main class there is one class path, it names each library once and all
   of them are in the lock, the libraries of the loader precede the client,
   every native archive is locked, libraries are locked and tokens of the
   metadata stand there just when their rules say so, and no placeholder is
   left; a locked component is handed to the loader once.  Covers resolve_mojang_document, resolve_fabric,
   build_launch_configuration and build_launch_arguments. *)
LaunchIsCoherent ==
    resPc = "launched" =>
        LET Locks == {locked[i].target : i \in DOMAIN locked}
            start == CHOOSE i \in DOMAIN output : output[i] = Plain(config.main)
            jvm   == SubSeq(output, 1, start - 1)
            cp    == config.classpath
        IN  /\ Cardinality(Positions(jvm, ClasspathFlags)) = 1
            /\ \A i \in Positions(jvm, ClasspathFlags) : jvm[i + 1] = ClassPath
            /\ \A i, j \in DOMAIN cp : i # j => cp[i] # cp[j]
            /\ \A i \in DOMAIN cp : cp[i] \in Locks
            /\ \A i \in DOMAIN config.natives : config.natives[i] \in Locks
            /\ \A i \in DOMAIN locked : locked[i].kind \in {"library", "loader"} =>
                  Before(cp, locked[i].target, <<"versions", base.id>>)
            /\ \A i \in DOMAIN base.libraries :
                  LET lib == base.libraries[i]
                  IN  lib.artifact # None =>
                        (Reads(lib.rules, ForLibrary) <=> <<lib.name, "jar">> \in
                            {locked[k].id : k \in DOMAIN locked})
            /\ \A i \in DOMAIN config.jvm : \A k \in DOMAIN config.jvm[i].values :
                  LET v == config.jvm[i].values[k]
                  IN  v \notin ClasspathFlags /\ v.hole # "classpath" =>
                        (Reads(config.jvm[i].rules, ForArgument) <=> \E n \in DOMAIN jvm : jvm[n] = v)
            /\ \A i \in DOMAIN output :
                  output[i].hole \in Holes \cup {None, "logging_config"} \/ config.legacy # None
            /\ Cardinality(Positions(output, {Plain("--fullscreen")})) <= 1
            /\ Cardinality(Positions(jvm, {Plain("-Dfabric.addMods")}))
                  = IF LockedComponents(locked) = <<>> THEN 0 ELSE 1

=============================================================================
