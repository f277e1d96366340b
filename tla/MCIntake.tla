------------------------------- MODULE MCIntake -------------------------------
(***************************************************************************)
(* Small instances of what enters the launcher from outside.  The parts do *)
(* not share state: the initial state says which of them is looked at.     *)
(***************************************************************************)
EXTENDS InstalledFiles, Intake, RuntimeResolution, Backups, InstanceSettings,
        CloudSync, Bridge
LOCAL INSTANCE TLC

CONSTANTS h1, h2, b1, b2, t1, t2, s1, s2, j, c1, w1, w2, p1, p2, v1, v2

VARIABLE part

vars == <<part, natVars, packVars, xferVars, compVars, resVars, javaVars,
          installVars, neoVars, backupVars, settingsVars, syncVars, bridgeVars>>

-----------------------------------------------------------------------------
MCFolded ==
    [n \in {"lib", "x", "y", "meta-inf", "mods", "saves", "overrides", "client-overrides",
            "server-overrides", "modrinth.index.json", "profile.json", "artifacts", h1, h2,
            "fabric.mod.json", "neoforge.mods.toml", "install_profile.json", "version.json",
            "maven", "z", "data",
            "LIB", "META-INF", "X", "Mods"} |->
        CASE n = "LIB" -> "lib" [] n = "META-INF" -> "meta-inf" [] n = "X" -> "x"
          [] n = "Mods" -> "mods" [] OTHER -> n]
MCReserved == {"saves"}

File(path) == [path |-> path, dir |-> FALSE, sound |-> TRUE, sealed |-> FALSE, mode |-> "file",
               packed |-> 1, size |-> 1, risky |-> FALSE]
Dir(path) == [File(path) EXCEPT !.dir = TRUE, !.mode = "dir", !.packed = 0, !.size = 0]
SeqsUpTo(S, n) == UNION {[1 .. k -> S] : k \in 0 .. n}

-----------------------------------------------------------------------------
(* Jars of native libraries *)

MCNativeLimits == [entries |-> 2, packed |-> 2, entry |-> 2, total |-> 3, ratio |-> 2,
                   jars |-> 2, allEntries |-> 4, allPacked |-> 3, allSize |-> 3]

JarEntries ==
    {File(<<"lib">>), File(<<"LIB">>), File(<<"lib", "x">>), Dir(<<"lib">>), Dir(<<"LIB">>),
     File(<<"META-INF", "x">>), File(<<"x">>), [File(<<"y">>) EXCEPT !.size = 2],
     [File(<<"x">>) EXCEPT !.mode = "link"], [File(<<"x">>) EXCEPT !.sealed = TRUE],
     [File(<<"x">>) EXCEPT !.sound = FALSE], [File(<<"x">>) EXCEPT !.size = 3, !.packed = 2],
     [File(<<"x">>) EXCEPT !.packed = 0]}
Jars == [intact : {TRUE}, entries : SeqsUpTo(JarEntries, 2)]
SmallJars == [intact : BOOLEAN, entries : SeqsUpTo(JarEntries, 1)]
Locks == {<<>>} \cup {<<a>> : a \in Jars} \cup {<<a, b>> : a \in Jars, b \in SmallJars}

-----------------------------------------------------------------------------
(* Modrinth packs *)

MCPackLimits == [entries |-> 4, packed |-> 9, entry |-> 3, total |-> 9, ratio |-> 2,
                 files |-> 2, urls |-> 2, file |-> 2, override |-> 2, overrides |-> 2,
                 layers |-> 2, payload |-> 9]
MCProfile == [minecraft |-> 1, loader |-> "fabric", version |-> 1]

Url(p) == [ok |-> TRUE, modrinth |-> TRUE, project |-> p, version |-> 1]
PackFile(p, path) == [path |-> path, sound |-> TRUE, size |-> 1, hash |-> h1, urls |-> <<Url(p)>>,
                    env |-> None]
M1 == PackFile(1, <<"mods", "x">>)
M2 == PackFile(2, <<"mods", "y">>)
Aims(client) == [M2 EXCEPT !.env = [client |-> client, server |-> "required"]]
Index(files) == [fits |-> TRUE, files |-> files,
                 versions |-> ("minecraft" :> 1 @@ "fabric-loader" :> 1)]
Indexes ==
    {Index(files) : files \in
        {<<>>, <<M1>>, <<M1, M2>>, <<M1, M1>>, <<M1, Aims("optional")>>, <<Aims("unsupported"), M1>>,
         <<M1, [M2 EXCEPT !.path = <<"mods", "X">>]>>, <<M1, [M2 EXCEPT !.urls = <<Url(1)>>]>>,
         <<[M2 EXCEPT !.urls = <<Url(1), Url(2)>>]>>, <<[M2 EXCEPT !.path = <<"saves", "x">>]>>}}
OtherIndexes ==
    {None, [Index(<<>>) EXCEPT !.fits = FALSE],
     [Index(<<>>) EXCEPT !.versions = "minecraft" :> 1],
     [Index(<<>>) EXCEPT !.versions = "minecraft" :> 1 @@ "forge" :> 1],
     [Index(<<M1>>) EXCEPT !.versions["minecraft"] = 2],
     [Index(<<M1>>) EXCEPT !.versions["fabric-loader"] = 2]}

IndexFile == File(<<"modrinth.index.json">>)
PackEntries ==
    {File(<<"overrides", "x">>), File(<<"client-overrides", "x">>), File(<<"client-overrides", "X">>),
     File(<<"client-overrides", "x", "y">>), File(<<"server-overrides", "x">>),
     File(<<"overrides", "Mods", "x">>), File(<<"overrides", "saves">>), Dir(<<"overrides", "x">>),
     File(<<"overrides", "mods">>), [File(<<"overrides", "y">>) EXCEPT !.size = 2]}
OtherEntries ==
    {[File(<<"overrides", "x">>) EXCEPT !.risky = TRUE], [File(<<"overrides", "x">>) EXCEPT !.sound = FALSE],
     [File(<<"overrides", "x">>) EXCEPT !.size = 3, !.packed = 2], File(<<"y">>), File(<<"overrides">>),
     File(<<"server-overrides">>)}
PackArchives == {<<IndexFile>> \o s : s \in SeqsUpTo(PackEntries, 3)}
Packs ==
    [archive : PackArchives, index : Indexes, size : {1}]
        \cup [archive : {<<>>, <<IndexFile>>, <<IndexFile, IndexFile>>}, index : OtherIndexes, size : {1}]
        \cup [archive : {<<e, IndexFile>> : e \in OtherEntries}, index : {Index(<<M1>>)}, size : {1, 9}]

Says(p) == [project |-> p, version |-> 1, files |-> {[size |-> 1, hash |-> h1]}]
Answers == {Says(1), Says(2), [Says(1) EXCEPT !.files = {}], [Says(2) EXCEPT !.version = 2]}

-----------------------------------------------------------------------------
(* Profile files *)

MCShas == {h1, h2}
MCTransferLimits == [entries |-> 3, manifest |-> 2, artifact |-> 2, total |-> 3, ratio |-> 2]

Artifact(sha, size) == [sha |-> sha, size |-> size]
ALock == [fits |-> TRUE, runtime |-> 1, requested |-> <<1, 2>>,
          items |-> {Artifact(h1, 1)}, overrides |-> {Artifact(h2, 1)}]
Doc == [fits |-> TRUE, runtime |-> 1, desired |-> <<1, 2>>, lock |-> ALock]
Documents ==
    {Doc, [Doc EXCEPT !.lock = None], [Doc EXCEPT !.lock.overrides = {}],
     [Doc EXCEPT !.desired = <<2, 1>>], [Doc EXCEPT !.fits = FALSE],
     [Doc EXCEPT !.lock.fits = FALSE], [Doc EXCEPT !.lock.runtime = 2],
     [Doc EXCEPT !.lock.requested = <<1>>], [Doc EXCEPT !.lock.overrides = {Artifact(h1, 2)}],
     [Doc EXCEPT !.lock.overrides = {Artifact(h2, 3)}]}
\* A committed profile has a lock of its own runtime and a sorted selection.
Sources ==
    [document : {Doc, [Doc EXCEPT !.lock = None], [Doc EXCEPT !.lock.overrides = {}],
                 [Doc EXCEPT !.lock.overrides = {Artifact(h1, 2)}]},
     disk : [MCShas -> {Artifact(h1, 1), Artifact(h2, 1)}]]
Sent(doc, e) == e @@ [bare |-> TRUE, method |-> "deflated", holds |-> doc]
TransferEntries ==
    {Sent(d, File(<<"profile.json">>)) : d \in {Doc, [Doc EXCEPT !.lock.overrides = {}]}}
        \cup {Sent(h, File(<<"artifacts", h>>)) : h \in MCShas}
        \cup {Sent(h1, File(<<"artifacts", h2>>)), Sent(None, File(<<"artifacts", "x">>)),
              Sent(None, Dir(<<"artifacts">>)), [Sent(h1, File(<<"artifacts", h1>>)) EXCEPT !.size = 2]}
OddEntries ==
    {[Sent(h1, File(<<"artifacts", h1>>)) EXCEPT !.sealed = TRUE],
     [Sent(h1, File(<<"artifacts", h1>>)) EXCEPT !.bare = FALSE],
     [Sent(h1, File(<<"artifacts", h1>>)) EXCEPT !.mode = "link"],
     [Sent(h1, File(<<"artifacts", h1>>)) EXCEPT !.method = "other"],
     [Sent(h1, File(<<"artifacts", h1>>)) EXCEPT !.size = 3]}
Whole(s) == [whole |-> TRUE, entries |-> s]
TransferFiles ==
    {Whole(s) : s \in SeqsUpTo(TransferEntries, 3)}
        \cup {Whole(<<Sent(d, File(<<"profile.json">>)), ArtifactEntry(Artifact(h1, 1)),
                      ArtifactEntry(Artifact(h2, 1))>>) : d \in Documents}
        \cup {Whole(<<Sent([Doc EXCEPT !.lock.overrides = {}], File(<<"profile.json">>)), e>>) : e \in OddEntries}
        \cup {[Whole(<<Sent(Doc, File(<<"profile.json">>))>>) EXCEPT !.whole = FALSE]}

-----------------------------------------------------------------------------
(* Components *)

MCTrusted == {"key"}
MCComponentLimits == [entries |-> 3, packed |-> 9, entry |-> 2, total |-> 9, ratio |-> 2,
                      catalog |-> 2, descriptor |-> 1]

Payload(id) ==
    [fits |-> TRUE, key |-> "key", id |-> id, version |-> 1, minecraft |-> 1,
     kind |-> "fabric", loader |-> 1, sha |-> h1, size |-> 1,
     target |-> ComponentTarget(id)]
P1 == Payload("a")
Payloads == {P1, [P1 EXCEPT !.loader = None], [P1 EXCEPT !.loader = 2], [P1 EXCEPT !.minecraft = 2],
             [P1 EXCEPT !.version = 2], Payload("b"), [P1 EXCEPT !.kind = "neoforge"]}
OddPayloads == {[P1 EXCEPT !.fits = FALSE], [P1 EXCEPT !.key = "other"], [P1 EXCEPT !.size = 0],
                [P1 EXCEPT !.kind = "vanilla", !.loader = None], [P1 EXCEPT !.target = ComponentTarget("b")]}
Signed(p) == [payload |-> p, signature |-> [by |-> p.key, over |-> p]]
Forged(p) == [payload |-> p, signature |-> [by |-> "key", over |-> Payload("b")]]
Catalogs ==
    {<<>>} \cup {<<Signed(p)>> : p \in Payloads \cup OddPayloads} \cup {<<Forged(P1)>>}
        \cup {<<Signed(p), Signed(q)>> : p, q \in Payloads}
        \cup {<<Signed(p), Forged(P1)>> : p \in Payloads}
        \cup {<<[payload |-> P1, signature |-> [by |-> "other", over |-> P1]]>>,
              <<Signed(P1), Signed(Payload("b")), Signed([P1 EXCEPT !.version = 2])>>}

Named(path, id) == File(path) @@ [holds |-> id]
FabricJson == Named(<<"fabric.mod.json">>, "a")
JarsOf(sha, size) ==
    {[sha |-> sha, size |-> size, entries |-> s] : s \in
        {<<>>, <<FabricJson>>, <<FabricJson, Named(<<"x">>, None)>>, <<Named(<<"x">>, None)>>,
         <<Named(<<"fabric.mod.json">>, "b")>>, <<Named(<<"fabric.mod.json">>, None)>>,
         <<FabricJson, FabricJson>>, <<FabricJson, Named(<<"x">>, None), Named(<<"X">>, None)>>,
         <<Named(<<"META-INF", "neoforge.mods.toml">>, "a")>>,
         <<[FabricJson EXCEPT !.size = 2]>>, <<[FabricJson EXCEPT !.sealed = TRUE]>>}}
Offers == [catalog : Catalogs, jars : {JarsOf(h1, 1) \cup JarsOf(h2, 1) \cup JarsOf(h1, 2)}]
Wishes ==
    {[id |-> "a", version |-> 1, minecraft |-> 1, kind |-> k, loader |-> 1] : k \in {"fabric", "neoforge"}}
        \cup {[id |-> "a", version |-> 1, minecraft |-> 1, kind |-> "fabric", loader |-> 2]}

-----------------------------------------------------------------------------
(* Runtimes *)

MCPlatform == [os |-> "windows", arch |-> "x86_64"]
MCHoles == {"classpath", "auth_player_name"}

AllowAll == [allow |-> TRUE, os |-> None, arch |-> None, osVersion |-> FALSE, features |-> {}]
Wants(name, v) == [AllowAll EXCEPT !.features = {[name |-> name, wanted |-> v]}]
Rules == {AllowAll, [AllowAll EXCEPT !.os = "osx"], [AllowAll EXCEPT !.allow = FALSE, !.os = "osx"],
          [AllowAll EXCEPT !.allow = FALSE, !.os = "windows"], [AllowAll EXCEPT !.arch = "x86"],
          [AllowAll EXCEPT !.allow = FALSE, !.osVersion = TRUE],
          Wants("has_custom_resolution", TRUE), Wants("is_demo_user", TRUE), Wants("is_demo_user", FALSE)}
RuleLists == SeqsUpTo(Rules, 2)

Load(sha) == [sha |-> sha, size |-> 1, host |-> TRUE, path |-> TRUE]
Always(values) == [rules |-> <<>>, values |-> values]
Hole(name) == [text |-> None, hole |-> name]
Lib(name, sha) == [name |-> name, rules |-> <<>>, artifact |-> Load(sha), natives |-> <<>>,
                   classifiers |-> <<>>]
WithNatives(lib, sha) == [lib EXCEPT !.natives = "windows" :> "natives-windows" @@ "osx" :> "natives-osx",
                                     !.classifiers = "natives-windows" :> Load(sha)]
BaseDoc ==
    [fits |-> TRUE, id |-> 1, java |-> 21, main |-> "Main", client |-> Load("c"), index |-> Load("i"),
     libraries |-> <<Lib("l", "l1"), WithNatives(Lib("m", "m1"), "n1")>>, logging |-> None,
     jvm |-> <<Always(<<Plain("-cp")>>), Always(<<Hole("classpath")>>), Always(<<Plain("-a")>>)>>,
     game |-> <<Always(<<Plain("--username"), Hole("auth_player_name")>>)>>, legacy |-> None]
Logs(arg) == [fits |-> TRUE, argument |-> arg, file |-> Load("g")]
Docs ==
    {[BaseDoc EXCEPT !.libraries[1].rules = r] : r \in RuleLists}
        \cup {[BaseDoc EXCEPT !.jvm[3].rules = r] : r \in RuleLists}
        \cup {[BaseDoc EXCEPT !.logging = Logs(Hole("logging_config"))],
              [BaseDoc EXCEPT !.logging = Logs(Plain("-b"))],
              [BaseDoc EXCEPT !.logging = [Logs(Plain("-b")) EXCEPT !.fits = FALSE]],
              [BaseDoc EXCEPT !.jvm[3].values = <<Hole("logging_config")>>],
              [BaseDoc EXCEPT !.jvm[3].values = <<Plain("-Dfabric.addMods")>>],
              [BaseDoc EXCEPT !.jvm = <<Always(<<Plain("-a"), Plain("-classpath"), Plain("-cp")>>)>>],
              [BaseDoc EXCEPT !.jvm = <<>>],
              [BaseDoc EXCEPT !.game[1].values[2] = Hole("unknown")],
              [BaseDoc EXCEPT !.game[1].values = <<Plain("--fullscreen")>>],
              [BaseDoc EXCEPT !.legacy = <<Hole("unknown")>>],
              [BaseDoc EXCEPT !.id = 2], [BaseDoc EXCEPT !.fits = FALSE], [BaseDoc EXCEPT !.java = 8],
              [BaseDoc EXCEPT !.client.size = 3], [BaseDoc EXCEPT !.index.host = FALSE],
              [BaseDoc EXCEPT !.libraries[1].artifact.path = FALSE],
              [BaseDoc EXCEPT !.libraries[1].artifact = None],
              [BaseDoc EXCEPT !.libraries[2].artifact.sha = "l1"],
              [BaseDoc EXCEPT !.libraries[2].classifiers["natives-windows"].sha = None],
              [BaseDoc EXCEPT !.libraries[2].natives = "osx" :> "natives-osx"]}

FabricLib(name, sha) == [name |-> name, host |-> TRUE, sha |-> sha, size |-> 1, sidecar |-> sha, head |-> 1]
Fabric(lib) == [main |-> "Knot", libraries |-> <<lib>>, jvm |-> <<Always(<<Plain("-f")>>)>>, game |-> <<>>]
Loaders ==
    {None} \cup {Fabric(lib) : lib \in
        {FabricLib("f", "f1"), FabricLib("l", "f1"), FabricLib("f", "l1"),
         [FabricLib("f", "f1") EXCEPT !.sha = None, !.size = None],
         [FabricLib("f", "f1") EXCEPT !.sha = None, !.sidecar = None],
         [FabricLib("f", "f1") EXCEPT !.size = None, !.head = 3],
         [FabricLib("f", "f1") EXCEPT !.size = 3], [FabricLib("f", "f1") EXCEPT !.host = FALSE]}}
Object(sha, size) == [sha |-> sha, size |-> size]
Asks ==
    [version : {1}, java : {21, 8}, loader : Loaders, component : {None, "s"}, custom : {<<>>, <<Plain("-d")>>, <<Plain("-cp")>>},
     fullscreen : BOOLEAN,
     assets : {{}, {Object("o", 1)}, {Object("o", 1), Object("o", 2)}, {Object("o", 3)}}]
OwnAsks == {a \in Asks : a.java = 21 /\ a.custom = <<>> /\ a.assets = {Object("o", 1)}
                         /\ a.loader \in {None, Fabric(FabricLib("f", "f1"))}}

-----------------------------------------------------------------------------
(* Java *)

Build(exe, major, bits) == [exe |-> exe, major |-> major, bits |-> bits]
MCBuilds == {Build(TRUE, 21, 64), Build(TRUE, 8, 64), Build(FALSE, 21, 64)}
Home(build, whole) == [exe |-> TRUE, whole |-> whole, build |-> build, stamp |-> 0]
MCSystemJavas ==
    {<<>>, <<Home(Build(TRUE, 21, 32), TRUE), Home(Build(TRUE, 21, 64), TRUE)>>,
     <<Home(Build(TRUE, 21, 64), FALSE)>>}

(* Installations *)

MCRuntimes == {[items |-> {s1}], [items |-> {s1, s2}]}
MCSizes == [a \in {s1, s2, j} |-> IF a = s2 THEN 2 ELSE 1]

(* NeoForge *)

MCPathOf == "la" :> "x" @@ "lb" :> "y" @@ "lc" :> "x" @@ "lg" :> "z" @@ "lh" :> "w"
MCNeoLimits == [entries |-> 5, packed |-> 6, entry |-> 2, total |-> 6, ratio |-> 2,
                metadata |-> 1, processors |-> 3, parts |-> 2]

Raw(kind, of) == [kind |-> kind, of |-> of]
Made(c) == Raw("maven", c)
Here(name) == Raw("relative", <<name>>)
Lit(text) == Raw("literal", text)
Proc(args, outputs) == [sides |-> <<>>, jar |-> "la", classpath |-> <<"la">>, args |-> args, outputs |-> outputs]
Main == {Proc(<<Raw("key", "K")>>, Made("lg") :> "dg"),
         Proc(<<Made("lg"), Raw("side", None)>>, Here("out") :> "do"),
         Proc(<<Here("out"), Raw("entry", <<"data", "x">>)>>, Made("lh") :> "dh"),
         Proc(<<Here("libraries"), Made("la")>>, Raw("relative", <<"libraries", "z">>) :> "dg")}
Basic == Proc(<<>>, Made("lg") :> "dg")
Other ==
    {Proc(<<>>, <<>>), Proc(<<Lit("--task"), Lit("DOWNLOAD_MOJMAPS")>>, Here("out") :> "do"),
     Proc(<<Lit("--task"), Lit("x")>>, Here("out") :> "do"), Proc(<<>>, Made("lg") :> None),
     Proc(<<>>, Made("lg") :> "dg" @@ Raw("relative", <<"libraries", "z">>) :> "dg"),
     Proc(<<>>, Raw("relative", <<"libraries", "x">>) :> "dx"), Proc(<<>>, Here("libraries") :> "dl"),
     Proc(<<>>, Made("la") :> "dx"), Proc(<<>>, Raw("key", "K") :> "dg"), Proc(<<Raw("key", "Q")>>, Made("lg") :> "dg"),
     Proc(<<Raw("odd", None)>>, Made("lg") :> "dg"), Proc(<<Raw("entry", <<"data", "y">>)>>, Made("lg") :> "dg"),
     Proc(<<Lit("x"), Lit("x"), Lit("x")>>, Made("lg") :> "dg"),
     [Basic EXCEPT !.jar = "lb"], [Basic EXCEPT !.classpath = <<"la", "lg">>],
     [Basic EXCEPT !.jar = "lb", !.classpath = <<"lb">>],
     [Basic EXCEPT !.sides = <<"server">>], [Basic EXCEPT !.sides = <<"client", "client">>],
     [Basic EXCEPT !.sides = <<"server", "client">>], [Basic EXCEPT !.sides = <<"both">>]}
ProcessorLists == SeqsUpTo(Main, 3) \cup SeqsUpTo(Other, 1) \cup {<<p, q>> : p \in Main, q \in Other}

NeoLib(name, path, sha) == [name |-> name, download |-> [path |-> path, sound |-> TRUE, sha |-> sha, size |-> 1]]
Bare(name) == [name |-> name, download |-> None]
LB == NeoLib("lb", "y", "hy")
InstallProfile ==
    [proper |-> TRUE, loader |-> <<21, 1>>, minecraft |-> <<1, 21>>, libraries |-> <<Bare("la"), LB>>,
     data |-> "K" :> [client |-> Made("lg"), server |-> Lit("x")],
     processors |-> <<Proc(<<Raw("key", "K")>>, Made("lg") :> "dg")>>]
VersionProfile ==
    [proper |-> TRUE, loader |-> <<21, 1>>, minecraft |-> <<1, 21>>, libraries |-> <<LB>>,
     args |-> <<[rules |-> None, texts |-> {"text"}]>>]
Args(rules, text) == [VersionProfile EXCEPT !.args = <<[rules |-> rules, texts |-> {text}]>>]
Data(v) == [InstallProfile EXCEPT !.data = "K" :> v]
InstallProfiles ==
    {[InstallProfile EXCEPT !.processors = ps] : ps \in ProcessorLists}
InstallVariants ==
    {None, InstallProfile, [InstallProfile EXCEPT !.proper = FALSE], [InstallProfile EXCEPT !.minecraft = <<1, 20>>],
     [InstallProfile EXCEPT !.libraries = <<Bare("la"), Bare("la")>>], [InstallProfile EXCEPT !.libraries = <<Bare("la")>>],
     [InstallProfile EXCEPT !.libraries = <<Bare("la"), NeoLib("lb", "y", "hq")>>],
     [InstallProfile EXCEPT !.libraries = <<NeoLib("la", "x", "hx")>>],
     [InstallProfile EXCEPT !.libraries = <<NeoLib("la", "x", "hq"), LB>>],
     [InstallProfile EXCEPT !.libraries = <<Bare("la"), LB, Bare("lh")>>],
     [InstallProfile EXCEPT !.libraries = <<Bare("la"), NeoLib("lc", "x", "hx")>>],
     [InstallProfile EXCEPT !.libraries = <<Bare("la"), NeoLib("lb", "x", "hy")>>],
     [InstallProfile EXCEPT !.libraries = <<Bare("la"), Bare("odd")>>],
     Data([client |-> Raw("entry", <<"data", "y">>), server |-> None]), Data([client |-> Lit("x"), server |-> Raw("odd", None)]),
     [InstallProfile EXCEPT !.data = "K" :> [client |-> Made("lg"), server |-> None]
                                       @@ "Q" :> [client |-> Raw("entry", <<"data", "x">>), server |-> None]]}
VersionVariants ==
    {VersionProfile, None, Args(0, "text"), Args(1, "known placeholder"), Args(None, "other placeholder"),
     [VersionProfile EXCEPT !.loader = <<21, 2>>], [VersionProfile EXCEPT !.libraries = <<>>],
     [VersionProfile EXCEPT !.libraries = <<Bare("lb")>>], [VersionProfile EXCEPT !.libraries = <<LB, LB>>],
     [VersionProfile EXCEPT !.libraries = <<NeoLib("lb", "y", "hq")>>]}
DataEntry == Sent("hd", File(<<"data", "x">>))
Bodies(i, v) == <<Sent(i, File(<<"install_profile.json">>)), Sent(v, File(<<"version.json">>))>>
LAEntry == Sent("hx", File(<<"maven", "x">>))
InstallerFiles ==
    {Bodies(i, VersionProfile) \o <<LAEntry, DataEntry>> : i \in InstallProfiles}
        \cup {Bodies(i, v) \o <<LAEntry, DataEntry>> : i \in InstallVariants, v \in VersionVariants}
        \cup {Bodies(InstallProfile, VersionProfile) \o s : s \in
                {<<>>, <<LAEntry>>, <<LAEntry, Sent("hy", File(<<"maven", "y">>))>>,
                 <<LAEntry, Sent("hq", File(<<"maven", "y">>))>>, <<LAEntry, Sent("hq", File(<<"maven", "z">>))>>,
                 <<Sent(None, Dir(<<"maven">>)), LAEntry>>, <<Sent(None, [Dir(<<"maven">>) EXCEPT !.packed = 2]), LAEntry>>,
                 <<LAEntry, LAEntry>>, <<[LAEntry EXCEPT !.sealed = TRUE]>>, <<LAEntry, DataEntry, DataEntry, DataEntry>>,
                 <<LAEntry, [LAEntry EXCEPT !.path = <<"maven", "x", "y">>]>>}}
        \cup {<<[Bodies(InstallProfile, VersionProfile)[1] EXCEPT !.size = 2], Bodies(InstallProfile, VersionProfile)[2], LAEntry>>}
Again ==
    [Data([client |-> Raw("entry", <<"data", "y">>), server |-> None]) EXCEPT
        !.processors = <<Proc(<<Raw("entry", <<"data", "x">>)>>, Made("lg") :> "dg")>>]
MCSource == [sha |-> h1, size |-> 2]
Neo(s) == [wish |-> [minecraft |-> <<1, 21>>, loader |-> <<21, 1>>], source |-> MCSource, strict |-> TRUE,
           installer |-> [sha |-> h1, size |-> 2, entries |-> s]]
GoodFile == Bodies(InstallProfile, VersionProfile) \o <<LAEntry, DataEntry>>
NeoAsks ==
    {Neo(s) : s \in InstallerFiles}
        \cup {Neo(Bodies(Again, VersionProfile) \o <<LAEntry, DataEntry, Sent(x, File(<<"data", "y">>))>>) : x \in {"hd", "he"}}
        \cup {[Neo(GoodFile) EXCEPT !.strict = FALSE], [Neo(GoodFile) EXCEPT !.source.sha = None],
              [Neo(GoodFile) EXCEPT !.source.size = 7], [Neo(GoodFile) EXCEPT !.installer.size = 1],
              [Neo(GoodFile) EXCEPT !.installer.sha = h2], [Neo(GoodFile) EXCEPT !.wish.loader = <<20, 1>>],
              [Neo(GoodFile) EXCEPT !.wish.loader = <<21, 2>>], [Neo(GoodFile) EXCEPT !.wish.minecraft = <<1>>]}

-----------------------------------------------------------------------------
(* Restore points, settings *)

MCTargetsOf == <<{p1}, {p1, p2}>>


Interchangeable == Permutations(Tasks) \cup Permutations(Callers) \cup Permutations(Writers)
                       \cup Permutations(Windows)

-----------------------------------------------------------------------------
ASSUME IntakesAreLists ==
    ProcessorsAreListed(NeoAsks) /\ PacksAreListed(Packs) /\ ArtifactsAreFinite(Sources)

NoNatives   == NativesInit({<<>>})
NoPack      == PackInit({None})
NoFile      == XferInit({}, {None})
NoComponent == CompInit({None}, {None})
NoNeoForge  == NeoInit({None})
NoRuntime   == ResInit({None}, {[custom |-> <<>>]})

Parts == {"natives", "pack", "transfer", "component", "runtime", "java", "install",
          "neoforge", "backups", "settings", "sync", "bridge", "skin"}

Init ==
    /\ part \in Parts
    /\ \/ part = "natives" /\ NativesInit(Locks)
       \/ part # "natives" /\ NoNatives
    /\ \/ part = "pack" /\ PackInit(Packs)
       \/ part # "pack" /\ NoPack
    /\ \/ part = "transfer" /\ XferInit(Sources, TransferFiles)
       \/ part # "transfer" /\ NoFile
    /\ \/ part = "component" /\ CompInit(Offers, Wishes)
       \/ part # "component" /\ NoComponent
    /\ \/ part = "runtime" /\ (ResInit(Docs, OwnAsks) \/ ResInit({BaseDoc}, Asks))
       \/ part # "runtime" /\ NoRuntime
    /\ \/ part = "neoforge" /\ NeoInit(NeoAsks)
       \/ part # "neoforge" /\ NoNeoForge
    /\ \/ part = "backups"
       \/ part # "backups" /\ folder = Empty
    /\ \/ part = "sync" /\ SyncInit(Edited)
       \/ part # "sync" /\ SyncInit({None})
    /\ BackupInit /\ JavaInit /\ SettingsInit /\ BridgeInit
    /\ signedIn <=> part = "bridge"
    /\ InstallInit /\ (part # "install" => Current.runtime = None)

Done ==
    /\ \/ part = "pack" /\ packPc \in {Refused, "imported"}
       \/ part = "transfer" /\ xferPc \in {"not exported", "refused", "not created", "not installed", "mismatch",
                                             "imported"}
       \/ part = "component" /\ compPc \in {"refused", "locked"}
       \/ part = "runtime" /\ resPc \in {"refused", "launched", "not launched"}
       \/ part = "neoforge" /\ neoPc \in {"refused", "not installed", "failed", "verified"}
       \/ part = "sync" /\ resolved # None
       \/ part \in {"install", "backups", "settings", "bridge"}
    /\ UNCHANGED vars

(* The state of the other parts. *)
Still(p) ==
    /\ p = part /\ UNCHANGED part
    /\ p # "natives" => UNCHANGED natVars
    /\ p # "pack" => UNCHANGED packVars
    /\ p # "transfer" => UNCHANGED xferVars
    /\ p # "component" => UNCHANGED compVars
    /\ p # "runtime" => UNCHANGED resVars
    /\ p # "java" => UNCHANGED javaVars
    /\ p # "install" => UNCHANGED installVars
    /\ p # "neoforge" => UNCHANGED neoVars
    /\ p # "backups" => UNCHANGED backupVars
    /\ p # "settings" => UNCHANGED settingsVars
    /\ p # "sync" => UNCHANGED syncVars
    /\ p \notin {"bridge", "skin"} => UNCHANGED bridgeVars

Next ==
    \/ Still("natives") /\ NativesNext
    \/ Still("pack") /\ PackNext(Answers)
    \/ Still("transfer") /\ XferNext
    \/ Still("component") /\ CompNext
    \/ Still("runtime") /\ ResNext({BaseDoc})
    \/ Still("java") /\ JavaNext
    \/ Still("install") /\ InstallNext
    \/ Still("neoforge") /\ NeoNext
    \/ Still("backups") /\ BackupNext
    \/ Still("settings") /\ SettingsNext
    \/ Still("sync") /\ SyncNext
    \/ Still("bridge") /\ TalkNext
    \/ Still("skin") /\ SkinNext
    \/ Done

Spec == Init /\ [][Next]_vars

-----------------------------------------------------------------------------
(* What an exported profile or a version document says is what is brought into a
   profile, or what the game is started with, file by file and token by token.
   Covers export_profile, import_profile and minecraft/resolver.rs. *)
DocumentsAreFollowed == ExportsReturn /\ LaunchIsCoherent
=============================================================================
