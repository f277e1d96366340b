-------------------------------- MODULE Intake --------------------------------
(***************************************************************************)
(* What enters the launcher under a signature, a digest or a declaration:  *)
(* the component of a runtime, the installer of NeoForge, a pack and a     *)
(* profile file.  Each has state of its own, and they change side by side. *)
(***************************************************************************)
EXTENDS ComponentIntake, NeoForge, PackIntake, ProfileTransfer

(* An archive, an index and a path are finite lists, a path one of names. *)
PacksAreListed(packs) ==
    \A p \in packs :
        /\ Len(p.archive) \in Nat /\ DOMAIN p.archive = 1 .. Len(p.archive)
        /\ \A i \in DOMAIN p.archive : p.archive[i].path \in Seq(DOMAIN Folded)
        /\ p.index # None => IsFiniteSet(DOMAIN p.index.files)

(* The processors of an installer that passed are numbered from one. *)
ProcessorsAreListed(asks) ==
    \A a \in asks : a # None /\ InspectionFits(a) =>
        DOMAIN InstallDoc(a.installer.entries).processors \subseteq Nat \ {0}

(* The lock of an exporting profile lists finitely many files. *)
ArtifactsAreFinite(sources) ==
    None \notin sources /\ \A s \in sources : IsFiniteSet(Expected(s.document))

IntakeSpec(offers, wishes, asks, packs, answers, sources, files) ==
    /\ CompInit(offers, wishes) /\ [][CompNext]_compVars
    /\ NeoInit(asks) /\ [][NeoNext]_neoVars
    /\ PackInit(packs) /\ [][PackNext(answers)]_packVars
    /\ XferInit(sources, files) /\ [][XferNext]_xferVars

-----------------------------------------------------------------------------
(* A component in a lock is what a trusted key signed, an installer that passed
   and the outputs of its processors are what its documents declare, a pack
   brings the files of its layers and members, each to a place of its own, and an
   imported profile is what its file says, with every artifact its lock names; a
   file that is refused leaves nothing behind, and an import that fails later no
   profile.  Covers components/, minecraft/neoforge.rs, inspect_mrpack,
   export_profile_v1, import_profile_v1 and import_profile. *)
IntakeIsVerified ==
    ComponentIsSigned /\ PlanIsSound /\ PackLayersHold /\ TransferIsWhole
=============================================================================
