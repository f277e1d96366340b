------------------------------ MODULE NeoForge ------------------------------
(***************************************************************************)
(* The installer of a NeoForge version (minecraft/neoforge.rs): its source *)
(* is found, the archive inspected, a plan made of its documents, and the  *)
(* plan judged ready or not; minecraft/service.rs refuses after that.      *)
(* What would follow is in the code and run by its tests: the entries are  *)
(* written to a staging directory and the processors of the client run in  *)
(* a sandbox that lets them write their outputs only.                      *)
(*                                                                         *)
(* A coordinate is a key of PathOf, its path one name.  Entries have, with *)
(* the fields of Archives, what they hold: a document or a content, which  *)
(* stands for its digests.  Raw arguments and values are [kind, of].       *)
(***************************************************************************)
EXTENDS Archives, SequencesExt

CONSTANTS
    PathOf,         \* [coordinate -> its path]
    Runnable,       \* contents of jars with one well-formed Main-Class
    NeoLimits       \* limits of Archives, and metadata, processors, parts

VARIABLES
    neoAsk,         \* [wish, source, installer, strict]: what is asked for
                    \* and what the servers answer
    neoPc,
    plan,
    onStaging,         \* [target -> content] below the staging directory
    ran             \* the last processor that was verified

neoVars == <<neoAsk, neoPc, plan, onStaging, ran>>

-----------------------------------------------------------------------------
(* The source of the installer *)

(* loader_matches_minecraft: 1.x is what x.y is for. *)
LoaderMatches(wish) ==
    /\ Len(wish.minecraft) > 1 /\ Len(wish.loader) > 1
    /\ wish.minecraft[1] = 1 /\ wish.minecraft[2] = wish.loader[1]

(* resolve_neoforge_installer, then validate_installer_source: the digest of
   the side file and the length of the headers. *)
SourceFits(source, wish) ==
    /\ LoaderMatches(wish)
    /\ source.sha # None
    /\ source.size \in 1 .. NeoLimits.packed

FileFits(file, source) == file.size = source.size /\ file.sha = source.sha

-----------------------------------------------------------------------------
(* The archive *)

FileAt(s, path) == {e \in ToSet(s) : ~e.dir /\ e.path = path}
HasFile(s, path) == FileAt(s, path) # {}
TheFile(s, path) == CHOOSE e \in FileAt(s, path) : TRUE

(* validate_installer_archive: a directory may have some packed bytes. *)
InstallerFits(s) ==
    /\ \A e \in ToSet(s) : e.dir => e.size = 0 /\ e.packed <= 1
    /\ JarAccepted([i \in DOMAIN s |-> IF s[i].dir THEN [s[i] EXCEPT !.packed = 0]
                                       ELSE s[i]], NeoLimits)

(* read_json_entry *)
ReadsDoc(s, name) ==
    /\ HasFile(s, <<name>>)
    /\ TheFile(s, <<name>>).size \in 1 .. NeoLimits.metadata
    /\ TheFile(s, <<name>>).holds # None
ReadDoc(s, name) == TheFile(s, <<name>>).holds
InstallDoc(s) == ReadDoc(s, "install_profile.json")
VersionDoc(s) == ReadDoc(s, "version.json")

(* validate_launch_arguments: a condition has rules, a text no address, no
   way up and no placeholder but three. *)
LaunchArgumentsFit(args) ==
    /\ Len(args) <= NeoLimits.parts
    /\ \A a \in ToSet(args) : a.rules # 0 /\ a.texts \subseteq {"text", "known placeholder"}

(* validate_profile_identity; proper is what is the same for all versions *)
IdentityFits(install, version, wish) ==
    /\ install.proper /\ version.proper
    /\ install.loader = wish.loader /\ version.loader = wish.loader
    /\ install.minecraft = wish.minecraft /\ version.minecraft = wish.minecraft

-----------------------------------------------------------------------------
(* Libraries *)

(* parse_maven_coordinate: its canonical form has a path. *)
IsCoordinate(c) == c \in DOMAIN PathOf

(* parse_library, validate_library_download *)
LibraryFits(lib) ==
    /\ IsCoordinate(lib.name)
    /\ lib.download # None =>
          /\ lib.download.path = PathOf[lib.name] /\ lib.download.sound
          /\ lib.download.size \in 1 .. NeoLimits.packed

NamesOf(libs) == {l.name : l \in ToSet(libs)}
Distinct(libs) == Cardinality(NamesOf(libs)) = Len(libs)
AllLibraries(s) == ToSet(InstallDoc(s).libraries) \cup ToSet(VersionDoc(s).libraries)
Specs(s) == {l.name : l \in AllLibraries(s)}
DownloadsOf(s, c) == {l.download : l \in {k \in AllLibraries(s) : k.name = c}} \ {None}

(* merge_library_documents: both documents may name a library, but not with
   different downloads. *)
LibrariesMerge(s) ==
    /\ \A l \in AllLibraries(s) : LibraryFits(l)
    /\ Distinct(InstallDoc(s).libraries) /\ Distinct(VersionDoc(s).libraries)
    /\ VersionDoc(s).libraries # <<>>
    /\ \A c \in Specs(s) : \A d, e \in DownloadsOf(s, c) : d = e

MavenEntry(c) == <<"maven", PathOf[c]>>
TargetOf(c) == <<"libraries", PathOf[c]>>
Embedded(s, c) == HasFile(s, MavenEntry(c))

(* Whether the entry is what the documents say of it. *)
EntryIsDeclared(s, c) ==
    \A d \in DownloadsOf(s, c) : TheFile(s, MavenEntry(c)).size = d.size
                                 /\ TheFile(s, MavenEntry(c)).holds = d.sha

(* resolve_artifact_catalog *)
CatalogFits(s) ==
    /\ \A c, d \in Specs(s) : PathOf[c] = PathOf[d] => c = d
    /\ \A e \in ToSet(s) :
          ~e.dir /\ Len(e.path) > 1 /\ e.path[1] = "maven" =>
             \E c \in Specs(s) : e.path = MavenEntry(c)
    /\ \A c \in Specs(s) : IF Embedded(s, c) THEN EntryIsDeclared(s, c)
                           ELSE DownloadsOf(s, c) # {}

Content(s, c) == IF Embedded(s, c) THEN TheFile(s, MavenEntry(c)).holds
                 ELSE (CHOOSE d \in DownloadsOf(s, c) : TRUE).sha
LibraryArtifact(s, c) == [target |-> TargetOf(c), holds |-> Content(s, c),
                   embedded |-> Embedded(s, c)]

-----------------------------------------------------------------------------
(* Values and arguments *)

(* resolve_data_value *)
ReferenceFits(s, raw) ==
    \/ raw.kind = "maven" /\ IsCoordinate(raw.of)
    \/ raw.kind = "entry" /\ HasFile(s, raw.of)
    \/ raw.kind = "literal"
Reference(s, raw) ==
    CASE raw.kind = "maven" ->
            [kind |-> IF raw.of \in Specs(s) THEN "library" ELSE "generated",
             target |-> TargetOf(raw.of)]
      [] raw.kind = "entry" ->
            [kind |-> "entry", from |-> raw.of,
             target |-> <<"installer-data", TheFile(s, raw.of).holds>>]
      [] OTHER -> [kind |-> "data-literal", of |-> raw.of]

(* resolve_data_map: both sides are resolved, one is kept. *)
DataFits(s) ==
    \A k \in DOMAIN InstallDoc(s).data :
        /\ ReferenceFits(s, InstallDoc(s).data[k].client)
        /\ InstallDoc(s).data[k].server # None =>
               ReferenceFits(s, InstallDoc(s).data[k].server)

(* resolve_processor_argument *)
ArgumentFits(s, raw) ==
    \/ raw.kind \in {"root", "relative", "installer", "minecraft", "side"}
    \/ raw.kind = "key" /\ raw.of \in DOMAIN InstallDoc(s).data
    \/ ReferenceFits(s, raw)
Argument(s, raw) ==
    CASE raw.kind = "key" -> Reference(s, InstallDoc(s).data[raw.of].client)
      [] raw.kind = "relative" -> [kind |-> "relative", target |-> raw.of]
      [] raw.kind = "literal" -> raw
      [] raw.kind \in {"maven", "entry"} -> Reference(s, raw)
      [] OTHER -> [kind |-> raw.kind]

(* validate_processor_output_target, parse_output_digest *)
OutputFits(s, raw, digest) ==
    /\ ArgumentFits(s, raw) /\ digest # None
    /\ Argument(s, raw).kind \in {"generated", "relative"}

(* resolve_processors: one of the server is checked as well. *)
ProcessorFits(s, p) ==
    /\ Distinct([i \in DOMAIN p.sides |-> [name |-> p.sides[i]]])
    /\ ToSet(p.sides) \subseteq {"client", "server"}
    /\ p.jar \in ToSet(p.classpath) /\ ToSet(p.classpath) \subseteq Specs(s)
    /\ Len(p.classpath) <= NeoLimits.parts /\ Len(p.args) <= NeoLimits.parts
    /\ \A i \in DOMAIN p.args : ArgumentFits(s, p.args[i])
    /\ \A raw \in DOMAIN p.outputs : OutputFits(s, raw, p.outputs[raw])

ForClient(p) == p.sides = <<>> \/ "client" \in ToSet(p.sides)

Processor(s, p) ==
    [jar |-> LibraryArtifact(s, p.jar),
     classpath |-> {LibraryArtifact(s, c) : c \in ToSet(p.classpath)},
     args |-> [i \in DOMAIN p.args |-> Argument(s, p.args[i])],
     outputs |-> {[target |-> Argument(s, raw).target, digest |-> p.outputs[raw], raw |-> raw] :
                     raw \in DOMAIN p.outputs}]

-----------------------------------------------------------------------------
(* inspect_verified_installer *)

InspectionFits(ask) ==
    LET s == ask.installer.entries
    IN  /\ SourceFits(ask.source, ask.wish)
        /\ FileFits(ask.installer, ask.source)
        /\ InstallerFits(s)
        /\ ReadsDoc(s, "install_profile.json") /\ ReadsDoc(s, "version.json")
        /\ IdentityFits(InstallDoc(s), VersionDoc(s), ask.wish)
        /\ LaunchArgumentsFit(VersionDoc(s).args)
        /\ LibrariesMerge(s) /\ CatalogFits(s) /\ DataFits(s)
        /\ Len(InstallDoc(s).processors) \in 1 .. NeoLimits.processors
        /\ \A p \in ToSet(InstallDoc(s).processors) : ProcessorFits(s, p)
        /\ \E p \in ToSet(InstallDoc(s).processors) : ForClient(p)

(* Each processor of the client keeps the place it has in the installer. *)
PlanOf(s) ==
    LET all == InstallDoc(s).processors
    IN  [libraries |-> {LibraryArtifact(s, c) : c \in Specs(s)},
         runtime |-> {LibraryArtifact(s, c) : c \in NamesOf(VersionDoc(s).libraries)},
         data |-> {Reference(s, InstallDoc(s).data[k].client) : k \in DOMAIN InstallDoc(s).data},
         processors |-> [i \in {k \in DOMAIN all : ForClient(all[k])} |-> Processor(s, all[i])]]

(* What the resolved loader takes along: libraries that are in the installer
   are not among them. *)
LoaderArtifacts(p) == {a \in p.runtime : ~a.embedded}

-----------------------------------------------------------------------------
(* validate_execution_readiness *)

OutputTargets(p) == {o.target : o \in p.outputs}
GeneratedInputs(p) == {p.args[i].target : i \in {j \in DOMAIN p.args : p.args[j].kind = "generated"}}
Literal(text) == [kind |-> "literal", of |-> text]
WantsNetwork(p) ==
    \E i \in 1 .. Len(p.args) - 1 :
        p.args[i] = Literal("--task") /\ p.args[i + 1] = Literal("DOWNLOAD_MOJMAPS")

Produced(ps, n) == UNION {OutputTargets(ps[i]) : i \in {k \in DOMAIN ps : k <= n}}

(* What processor i generates or uses is there when it runs; or generated by
   any of them. *)
InputsAvailableSomewhere(ps, i) ==
    GeneratedInputs(ps[i]) \subseteq UNION {OutputTargets(ps[k]) : k \in DOMAIN ps}
InputsAvailable(ps, i) == GeneratedInputs(ps[i]) \subseteq Produced(ps, i)

Ready(ps) ==
    \A i \in DOMAIN ps :
        /\ ps[i].outputs # {} /\ ~WantsNetwork(ps[i])
        /\ \A o, q \in ps[i].outputs : o.target = q.target => o = q
        /\ InputsAvailable(ps, i)
        /\ OutputTargets(ps[i]) \cap Produced(ps, i - 1) = {}

-----------------------------------------------------------------------------
(* Steps *)

NeoInit(asks) ==
    /\ neoAsk \in asks
    /\ neoPc = "ask" /\ plan = None /\ onStaging = <<>> /\ ran = 0

NeoGoes(pc) == neoPc' = pc

InspectInstaller ==
    /\ neoPc = "ask" /\ neoAsk # None
    /\ IF InspectionFits(neoAsk)
       THEN plan' = PlanOf(neoAsk.installer.entries) /\ NeoGoes("inspected")
       ELSE NeoGoes("refused") /\ UNCHANGED plan
    /\ UNCHANGED <<neoAsk, onStaging, ran>>

(* install: not installed, whatever the readiness. *)
RefuseInstall ==
    /\ neoPc = "inspected" /\ NeoGoes("not installed")
    /\ UNCHANGED <<neoAsk, plan, onStaging, ran>>

(* execute_client_processors starts with what was materialised. *)
EntryReferences ==
    {r \in plan.data \cup UNION {ToSet(p.args) : p \in ToSet(plan.processors)} : r.kind = "entry"}

(* insert_materialization_request: one target has one entry. *)
RequestsFit == \A r, q \in EntryReferences : r.target = q.target => r = q

(* materialize_installer_entries *)
Materialize ==
    /\ neoPc = "inspected"
    /\ IF RequestsFit
       THEN /\ onStaging' = [t \in {a.target : a \in {l \in plan.libraries : l.embedded}}
                                \cup {r.target : r \in EntryReferences} |->
                            IF t[1] = "libraries"
                            THEN (CHOOSE a \in plan.libraries : a.target = t).holds
                            ELSE t[2]]
            /\ NeoGoes("staged")
       ELSE NeoGoes("failed") /\ UNCHANGED onStaging
    /\ UNCHANGED <<neoAsk, plan, ran>>

(* The readiness again, the sandbox, and the client and the libraries that
   were downloaded. *)
BeginExecution ==
    /\ neoPc = "staged"
    /\ NeoGoes(IF Ready(plan.processors) /\ neoAsk.strict THEN "run" ELSE "failed")
    /\ UNCHANGED <<neoAsk, plan, onStaging, ran>>

(* The next processor in the order of the installer. *)
Left == {i \in DOMAIN plan.processors : i > ran}
Upcoming == {i \in Left : \A k \in Left : i <= k}

(* resolve_processor_value: what is in staging, or about to be. *)
ThereFor(p, path) == path \in OutputTargets(p) \/ path \in DOMAIN onStaging
ExistsFor(p, path) ==
    ThereFor(p, path) \/ \E t \in DOMAIN onStaging \cup OutputTargets(p) : path \in Above(t)
ValueFits(p, v) ==
    /\ v.kind = "relative" => ExistsFor(p, v.target)
    /\ v.kind = "generated" => ThereFor(p, v.target)

(* resolve_output_paths, create_parent_directories; the jar is one *)
ProcessorStarts(p) ==
    /\ \A t \in OutputTargets(p) : CanCreate(DOMAIN onStaging, t)
    /\ p.jar.holds \in Runnable
    /\ \A v \in ToSet(p.args) : ValueFits(p, v)

DigestOf(p, target) == (CHOOSE o \in p.outputs : o.target = target).digest

(* The process writes to its outputs what it likes and ends. *)
Executes(i) ==
    LET p == plan.processors[i] IN
    \E written \in [OutputTargets(p) -> {"right", "wrong", "absent"}], exit \in {0, 1} :
        LET wrote == {t \in OutputTargets(p) : written[t] # "absent"} IN
        /\ onStaging' = [t \in DOMAIN onStaging \cup wrote |->
                            IF t \notin wrote THEN onStaging[t]
                            ELSE IF written[t] = "right" THEN DigestOf(p, t) ELSE "wrong"]
        /\ IF exit = 0 /\ \A t \in OutputTargets(p) : written[t] = "right"
           THEN ran' = i /\ UNCHANGED neoPc
           ELSE NeoGoes("failed") /\ UNCHANGED ran

RunProcessor ==
    /\ neoPc = "run"
    /\ \E i \in Upcoming :
          IF ProcessorStarts(plan.processors[i]) THEN Executes(i)
          ELSE NeoGoes("failed") /\ UNCHANGED <<onStaging, ran>>
    /\ UNCHANGED <<neoAsk, plan>>

FinishExecution ==
    /\ neoPc = "run" /\ Left = {}
    /\ NeoGoes("verified")
    /\ UNCHANGED <<neoAsk, plan, onStaging, ran>>

NeoNext == InspectInstaller \/ RefuseInstall \/ Materialize \/ BeginExecution
           \/ RunProcessor \/ FinishExecution

-----------------------------------------------------------------------------
(* An installer that passed is the one of the version that was asked for,
   every library of its plan is in it as declared or can be downloaded; a
   plan that was found ready never comes to a processor whose generated
   input is missing; and when all have run, every output they declare has
   its digest and nothing of the installer was changed on the way.  Covers
   inspect_verified_installer, validate_execution_readiness and
   execute_client_processors. *)
PlanIsSound ==
    /\ plan # None =>
          LET s == neoAsk.installer.entries
          IN  /\ VersionDoc(s).loader = neoAsk.wish.loader
              /\ \A l \in AllLibraries(s) :
                    \E a \in plan.libraries :
                       /\ a.target = TargetOf(l.name)
                       /\ l.download # None => a.holds = l.download.sha
                       /\ l.download = None /\ DownloadsOf(s, l.name) = {} => a.embedded
              /\ \A p \in ToSet(plan.processors) : {p.jar} \cup p.classpath \subseteq plan.libraries
    /\ neoPc = "run" =>
          \A i \in Upcoming : \A t \in GeneratedInputs(plan.processors[i]) :
             ThereFor(plan.processors[i], t)
    /\ neoPc = "verified" =>
          /\ \A p \in ToSet(plan.processors) : \A o \in p.outputs : onStaging[o.target] = o.digest
          /\ \A a \in plan.libraries : a.embedded => onStaging[a.target] = a.holds
          /\ \A r \in EntryReferences : onStaging[r.target] = r.target[2]
=============================================================================
