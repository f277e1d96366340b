------------------------------ MODULE PackIntake ------------------------------
(***************************************************************************)
(* The inspection of a Modrinth pack before anything of it enters the      *)
(* cache or a profile (content_service.rs): the archive as a whole, the    *)
(* index against the profile, the files the index names, the overrides the *)
(* archive carries, and the downloads checked against what the provider    *)
(* says of the version.                                                    *)
(*                                                                         *)
(* A pack is [archive, index]: its entries (Archives) and the index.  An   *)
(* index is [fits, versions, files]: whether format, game and lengths are  *)
(* right, the versions it asks for, and the files it lists.  A file is     *)
(*   path, sound   as in Archives, with size                               *)
(*   hash          its SHA-512, or None when a hash is not well formed     *)
(*   urls          where it may be had, as [ok, modrinth, project,         *)
(*                 version]: whether the address is allowed and which      *)
(*                 version it names                                        *)
(*   env           [client, server], or None                               *)
(***************************************************************************)
EXTENDS Archives, FiniteSetsExt

CONSTANTS
    PackLimits,     \* of the archive, with files, urls, file, override,
                    \* overrides, layers, payload added
    Profile         \* [minecraft, loader, version]: what the pack goes into

VARIABLES
    pack, packPc,
    members,        \* validated files of the index that were not looked up
    looked,         \* entries of the archive the inventory has passed
    overrides,      \* what it has selected, by key: [layer, entry, path, size]
    taken           \* members whose version the provider confirmed

packVars == <<pack, packPc, members, looked, overrides, taken>>

Refused == "refused"

(* validate_mrpack_runtime: the pack must ask for the Minecraft version of
   the profile, and for its loader alone. *)
KnownLoaders == {"fabric-loader", "neoforge", "forge", "quilt-loader"}
LoaderName == [fabric |-> "fabric-loader", neoforge |-> "neoforge"]
RuntimeFits(index) ==
    LET asked == DOMAIN index.versions
        loader == IF Profile.loader = "vanilla" THEN {}
                  ELSE {LoaderName[Profile.loader]}
    IN  /\ index.fits /\ Len(index.files) <= PackLimits.files
        /\ "minecraft" \in asked
        /\ index.versions["minecraft"] = Profile.minecraft
        /\ asked \cap KnownLoaders = loader
        /\ \A l \in loader : index.versions[l] = Profile.version

-----------------------------------------------------------------------------
(* select_modrinth_download: every address is allowed, and those of the
   provider name one version. *)
ProviderUrls(file) == SelectSeq(file.urls, LAMBDA u : u.modrinth)
MemberDownloadFits(file) ==
    LET urls == ProviderUrls(file)
    IN  /\ Len(file.urls) \in 1 .. PackLimits.urls
        /\ \A i \in DOMAIN file.urls : file.urls[i].ok
        /\ urls # <<>>
        /\ \A i \in DOMAIN urls :
              /\ urls[i].project = urls[1].project
              /\ urls[i].version = urls[1].version

Sides == {"required", "optional", "unsupported"}
Client(file) == IF file.env = None THEN "required" ELSE file.env.client

MemberFits(file) ==
    /\ file.sound
    /\ Len(file.path) = 2
    /\ file.path[1] \in {"mods", "resourcepacks", "shaderpacks"}
    /\ file.size \in 1 .. PackLimits.file
    /\ file.hash # None
    /\ MemberDownloadFits(file)
    /\ file.env # None =>
          file.env.client \in Sides /\ file.env.server \in Sides

MembersFit(files) ==
    /\ \A i \in DOMAIN files : MemberFits(files[i])
    /\ Apart([i \in DOMAIN files |-> [path |-> files[i].path]])
    /\ \A i, j \in DOMAIN files :
          i # j => ProviderUrls(files[i])[1].project
                      # ProviderUrls(files[j])[1].project
    /\ Total(files, SizeOf) <= PackLimits.payload

(* What the index asks of this client; a file it does not support is
   checked with the others and left out. *)
Member(file) ==
    [project |-> ProviderUrls(file)[1].project,
     version |-> ProviderUrls(file)[1].version,
     path |-> file.path, kind |-> file.path[1],
     enabled |-> Client(file) = "required",
     hash |-> file.hash, size |-> file.size]
MembersOf(files) ==
    {Member(files[i]) :
        i \in {j \in DOMAIN files : Client(files[j]) # "unsupported"}}

-----------------------------------------------------------------------------
(* inventory_mrpack_overrides.  Directories and the index itself are
   skipped, overrides of servers as well; what belongs nowhere is refused. *)
Layer(e) == CASE e.path[1] = "overrides" -> 0
              [] e.path[1] = "client-overrides" -> 1
              [] OTHER -> 2
Skipped(e) == \/ e.dir
              \/ e.path = <<"modrinth.index.json">>
              \/ e.path[1] = "server-overrides" /\ Len(e.path) > 1
Target(e) == Tail(e.path)

OverrideFits(e) ==
    /\ e.path[1] \in {"overrides", "client-overrides"} /\ Len(e.path) > 1
    /\ OverrideTargetFits(Target(e), e.sound, e.risky)
    /\ e.size <= PackLimits.override

(* The later entry wins, whatever its layer. *)
ChooseLater(selected, e, i) ==
    IF ~OverrideFits(e) THEN None
    ELSE [k \in DOMAIN selected \cup {Fold(Target(e))} |->
             IF k = Fold(Target(e)) THEN [layer |-> Layer(e), entry |-> i,
                                          path |-> Target(e), size |-> e.size]
             ELSE selected[k]]

(* One entry of the archive: refused when the place is taken under another
   name or by the same layer, kept when the place has a higher layer. *)
Choose(selected, e, i) ==
    LET key == Fold(Target(e))
        new == [k \in DOMAIN selected \cup {key} |->
                   IF k = key THEN [layer |-> Layer(e), entry |-> i,
                                    path |-> Target(e), size |-> e.size]
                   ELSE selected[k]]
    IN  IF ~OverrideFits(e) THEN None
        ELSE IF key \notin DOMAIN selected THEN new
        ELSE IF \/ selected[key].path # Target(e)
                \/ selected[key].layer = Layer(e) THEN None
        ELSE IF selected[key].layer > Layer(e) THEN selected
        ELSE new

(* How many files are selected, and how large they are together. *)
InventoryFits(inventory) ==
    /\ Cardinality(DOMAIN inventory) <= PackLimits.overrides
    /\ MapThenSumSet(LAMBDA k : inventory[k].size, DOMAIN inventory) <= PackLimits.layers

(* validate_mrpack_target_layout: members and overrides together, no place
   twice and none above another. *)
LayoutFits(files, inventory) ==
    LET taking == {i \in DOMAIN files : Client(files[i]) # "unsupported"}
        key(i) == Fold(files[i].path)
        all == DOMAIN inventory \cup {key(i) : i \in taking}
    IN  /\ \A i, j \in taking : i # j => key(i) # key(j)
        /\ \A i \in taking : key(i) \notin DOMAIN inventory
        /\ \A k, l \in all : k \notin Above(l)

PayloadFits(p, inventory) ==
    MapThenSumSet(LAMBDA m : m.size, MembersOf(p.index.files))
      + MapThenSumSet(LAMBDA k : inventory[k].size, DOMAIN inventory)
      + p.size <= PackLimits.payload

-----------------------------------------------------------------------------
PackInit(packs) ==
    /\ pack \in packs /\ packPc = "staged" /\ looked = 0
    /\ members = {} /\ overrides = <<>> /\ taken = {}

RefusePack == packPc' = Refused /\ overrides' = <<>>

(* validate_local_content and inspect_mrpack up to the overrides. *)
InspectPack ==
    /\ packPc = "staged"
    /\ IF /\ ContentAccepted("modpack", pack.archive, PackLimits)
          /\ pack.index # None
          /\ RuntimeFits(pack.index)
          /\ MembersFit(pack.index.files)
       THEN packPc' = "inventory" /\ UNCHANGED overrides
       ELSE RefusePack
    /\ UNCHANGED <<pack, members, looked, taken>>

(* The loop of inventory_mrpack_overrides. *)
LookAtEntry ==
    /\ packPc = "inventory" /\ looked < Len(pack.archive)
    /\ looked' = looked + 1
    /\ LET e == pack.archive[looked']
           selected == IF Skipped(e) THEN overrides ELSE Choose(overrides, e, looked')
       IN  \/ selected # None /\ overrides' = selected /\ UNCHANGED packPc
           \/ selected = None /\ RefusePack
    /\ UNCHANGED <<pack, members, taken>>

FinishInventory ==
    /\ packPc = "inventory" /\ looked = Len(pack.archive)
    /\ IF /\ InventoryFits(overrides)
          /\ LayoutFits(pack.index.files, overrides) /\ PayloadFits(pack, overrides)
       THEN /\ packPc' = "members" /\ members' = MembersOf(pack.index.files)
            /\ UNCHANGED overrides
       ELSE RefusePack /\ UNCHANGED members
    /\ UNCHANGED <<pack, looked, taken>>

(* verify_mrpack_file_version: the provider's page of the version must list
   the very file, by size, hash and address.  says is what it answers. *)
ConfirmMember(says) ==
    /\ packPc = "members"
    /\ \E m \in members :
          IF /\ says.project = m.project /\ says.version = m.version
             /\ [size |-> m.size, hash |-> m.hash] \in says.files
          THEN /\ taken' = taken \cup {m} /\ members' = members \ {m}
               /\ packPc' = packPc
          ELSE packPc' = Refused /\ UNCHANGED <<members, taken>>
    /\ UNCHANGED <<pack, looked, overrides>>

FinishPack ==
    /\ packPc = "members" /\ members = {}
    /\ packPc' = "imported"
    /\ UNCHANGED <<pack, members, looked, overrides, taken>>

PackNext(answers) ==
    \/ InspectPack \/ LookAtEntry \/ FinishInventory
    \/ \E says \in answers : ConfirmMember(says)
    \/ FinishPack

-----------------------------------------------------------------------------
LayerFiles(layer) == {i \in DOMAIN pack.archive :
                    /\ ~pack.archive[i].dir
                    /\ pack.archive[i].path[1] = layer}

(* Whatever the order of the entries in the archive: the place of an
   override has the file of the client's layer when there is one and that of
   the common layer otherwise, every file of the two layers has such a
   place, no two files of the pack meet at a place or block each other's
   directory on a file system that ignores case, and none starts in a
   directory the game or the launcher owns; a pack is imported with all the
   files its index asks of a client.  Covers inspect_mrpack,
   inventory_mrpack_overrides and validate_mrpack_target_layout. *)
PackLayersHold ==
    packPc \in {"members", "imported"} =>
        LET places == DOMAIN overrides
            mods == {Fold(m.path) : m \in members \cup taken}
        IN  /\ \A i \in LayerFiles("client-overrides") :
                  /\ Fold(Target(pack.archive[i])) \in places
                  /\ overrides[Fold(Target(pack.archive[i]))].entry = i
            /\ \A i \in LayerFiles("overrides") :
                  /\ Fold(Target(pack.archive[i])) \in places
                  /\ \/ overrides[Fold(Target(pack.archive[i]))].entry = i
                     \/ overrides[Fold(Target(pack.archive[i]))].entry
                          \in LayerFiles("client-overrides")
            /\ Cardinality(places) + Cardinality(members \cup taken)
                 = Cardinality(places \cup mods)
            /\ \A k \in places \cup mods :
                  CanCreate((places \cup mods) \ {k}, k)
            /\ \A k \in places : k[1] \notin Reserved
            /\ packPc = "imported" => taken = MembersOf(pack.index.files)

=============================================================================
