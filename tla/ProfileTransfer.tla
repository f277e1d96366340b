---------------------------- MODULE ProfileTransfer ----------------------------
(***************************************************************************)
(* A profile leaves one launcher as a file and enters another              *)
(* (profile_format.rs, export_profile and import_profile of                *)
(* content_service.rs).  The file may be damaged on the way and may change *)
(* while it is read, and it may come from anywhere.                        *)
(*                                                                         *)
(* A document is [fits, runtime, desired, lock]: whether names and formats *)
(* are right, the runtime, the sequence of selected contents, and None or  *)
(* the resolved lock [fits, runtime, requested, items, overrides], whose   *)
(* items and overrides are sets of [sha, size].                            *)
(*                                                                         *)
(* The file is the sequence of its zip entries (Archives) with bare (no    *)
(* comment, no extra data), method, and holds: what the bytes are, either  *)
(* the document or the hash they have.                                     *)
(***************************************************************************)
EXTENDS Archives, SequencesExt

CONSTANTS
    Shas,               \* well-formed hashes
    TransferLimits,     \* entries, manifest, artifact, total, ratio
    MaxChanges          \* how often the file changes while it is read

VARIABLES
    source,     \* the exporting profile: [document, disk], or None when the
                \* file comes from elsewhere
    file,       \* the file, as [whole, entries], or None
    xferPc,
    document,   \* the manifest as it was read
    staged,     \* hashes below the staging directory, None without one
    cached,     \* hashes activated in the cache
    profile,    \* None, or [runtime, content] of the created profile
    changes

xferVars == <<source, file, xferPc, document, staged, cached, profile,
              changes>>

Bytes(a) == a.size
ArtifactsOf(lock) == lock.items \cup lock.overrides

(* expected_artifacts: one size per hash. *)
Expected(doc) == IF doc.lock = None THEN {} ELSE ArtifactsOf(doc.lock)
OneSizeEach(artifacts) ==
    \A a, b \in artifacts : a.sha = b.sha => a.size = b.size

(* The order of the identifiers is that of the numbers standing for them. *)
SortedIds(desired) == SetToSortSeq(ToSet(desired), LAMBDA a, b : a < b)

(* validate_profile_export *)
DocumentFits(doc) ==
    /\ doc.fits
    /\ doc.lock # None =>
          /\ doc.lock.fits
          /\ doc.lock.runtime = doc.runtime
          /\ SortedIds(doc.desired) = doc.lock.requested

-----------------------------------------------------------------------------
(* export_profile, export_profile_v1: every artifact is read from the
   revision and hashed while it is copied; the archive gets its name when it
   is complete. *)
SourceIntact(s) ==
    \A a \in Expected(s.document) :
        /\ s.disk[a.sha] = a
        /\ a.size <= TransferLimits.artifact

ManifestEntry(doc) ==
    [path |-> <<"profile.json">>, dir |-> FALSE, sound |-> TRUE,
     sealed |-> FALSE, mode |-> "file", bare |-> TRUE, method |-> "stored",
     packed |-> 1, size |-> 1, holds |-> doc]
ArtifactEntry(a) ==
    [path |-> <<"artifacts", a.sha>>, dir |-> FALSE, sound |-> TRUE,
     sealed |-> FALSE, mode |-> "file", bare |-> TRUE, method |-> "stored",
     packed |-> a.size, size |-> a.size, holds |-> a.sha]
(* The overrides of the lock are forgotten. *)
WrittenItems(doc) ==
    LET items == SetToSeq(IF doc.lock = None THEN {} ELSE doc.lock.items)
    IN  <<ManifestEntry(doc)>> \o [i \in DOMAIN items |-> ArtifactEntry(items[i])]
Written(doc) ==
    LET artifacts == SetToSeq(Expected(doc))
    IN  <<ManifestEntry(doc)>>
          \o [i \in DOMAIN artifacts |-> ArtifactEntry(artifacts[i])]

TotalFits(artifacts) ==
    MapThenSumSet(Bytes, artifacts) <= TransferLimits.total

Export ==
    /\ xferPc = "export"
    /\ LET doc == source.document
       IN  IF /\ DocumentFits(doc) /\ OneSizeEach(Expected(doc))
              /\ SourceIntact(source) /\ TotalFits(Expected(doc))
           THEN /\ file' = [whole |-> TRUE, entries |-> Written(doc)]
                /\ xferPc' = "inspect"
           ELSE xferPc' = "not exported" /\ UNCHANGED file
    /\ UNCHANGED <<source, document, staged, cached, profile, changes>>

-----------------------------------------------------------------------------
IsManifest(e) == e.path = <<"profile.json">>
IsArtifact(e) == Len(e.path) = 2 /\ e.path[1] = "artifacts"
                     /\ e.path[2] \in Shas

(* inspect_archive of profile_format.rs, one entry. *)
TransferEntryFits(e) ==
    /\ ~e.sealed /\ e.bare /\ e.sound /\ ~e.dir
    /\ e.mode \in {"none", "file"}
    /\ e.method \in {"stored", "deflated"}
    /\ IsManifest(e) \/ IsArtifact(e)
    /\ SizeFits(e, [entry |-> IF IsManifest(e) THEN TransferLimits.manifest
                              ELSE TransferLimits.artifact,
                    ratio |-> TransferLimits.ratio])

TransferFits(f) ==
    /\ f.whole
    /\ Len(f.entries) \in 1 .. TransferLimits.entries
    /\ \A i \in DOMAIN f.entries : TransferEntryFits(f.entries[i])
    /\ Apart(f.entries)
    /\ Total(f.entries, SizeOf)
          <= TransferLimits.total + TransferLimits.manifest
    /\ \E i \in DOMAIN f.entries : IsManifest(f.entries[i])

ManifestOf(f) ==
    f.entries[CHOOSE i \in DOMAIN f.entries : IsManifest(f.entries[i])].holds
Carried(f) ==
    {[sha |-> f.entries[i].path[2], size |-> f.entries[i].size] :
        i \in {j \in DOMAIN f.entries : IsArtifact(f.entries[j])}}
EntryFor(f, sha) ==
    f.entries[CHOOSE i \in DOMAIN f.entries :
                  f.entries[i].path = <<"artifacts", sha>>]

(* import_profile_v1 up to the staging directory: the archive, its manifest,
   and that it carries the very artifacts the manifest names. *)
Inspect ==
    /\ xferPc = "inspect"
    /\ IF /\ TransferFits(file)
          /\ ManifestOf(file) \notin Shas \cup {None}
          /\ DocumentFits(ManifestOf(file))
          /\ OneSizeEach(Expected(ManifestOf(file)))
          /\ Carried(file) = Expected(ManifestOf(file))
       THEN /\ document' = ManifestOf(file)
            /\ staged' = {} /\ xferPc' = "stage"
       ELSE xferPc' = "refused" /\ UNCHANGED <<document, staged>>
    /\ UNCHANGED <<source, file, cached, profile, changes>>

(* What was extracted before an error stays. *)
StageWithoutCleanup ==
    /\ xferPc = "stage"
    /\ \E a \in Expected(document) :
          /\ a.sha \notin staged
          /\ IF file.whole /\ EntryFor(file, a.sha).holds = a.sha
             THEN staged' = staged \cup {a.sha} /\ xferPc' = xferPc
             ELSE UNCHANGED staged /\ xferPc' = "refused"
    /\ UNCHANGED <<source, file, document, cached, profile, changes>>

(* One artifact is extracted and hashed; what fails takes the staging
   directory with it (StagingCleanup). *)
Stage ==
    /\ xferPc = "stage"
    /\ \E a \in Expected(document) :
          /\ a.sha \notin staged
          /\ IF file.whole /\ EntryFor(file, a.sha).holds = a.sha
             THEN staged' = staged \cup {a.sha} /\ xferPc' = xferPc
             ELSE staged' = None /\ xferPc' = "refused"
    /\ UNCHANGED <<source, file, document, cached, profile, changes>>

(* The length of the file is compared once more. *)
FinishStaging ==
    /\ xferPc = "stage"
    /\ {a.sha : a \in Expected(document)} = staged
    /\ IF file.whole THEN xferPc' = "activate" /\ UNCHANGED staged
       ELSE xferPc' = "refused" /\ staged' = None
    /\ UNCHANGED <<source, file, document, cached, profile, changes>>

(* activate_verified_copy, one artifact after the other: an unreadable or
   unwritable file, a leftover under the name of the blob or the database ends
   the import, and nobody removes what is staged or cached by then. *)
ActivateArtifact ==
    /\ xferPc = "activate"
    /\ \E a \in Expected(document) :
          /\ a.sha \notin cached
          /\ \/ cached' = cached \cup {a.sha} /\ xferPc' = xferPc
             \/ xferPc' = "not created" /\ UNCHANGED cached
    /\ UNCHANGED <<source, file, document, staged, profile, changes>>

(* An artifact that cannot be activated is passed over. *)
FinishActivationAnyway ==
    /\ xferPc = "activate"
    /\ staged' = None /\ xferPc' = "create"
    /\ UNCHANGED <<source, file, document, cached, profile, changes>>

(* cleanup_staging, which may fail half-way. *)
FinishActivation ==
    /\ xferPc = "activate"
    /\ {a.sha : a \in Expected(document)} \subseteq cached
    /\ \/ staged' = None /\ xferPc' = "create"
       \/ xferPc' = "not created" /\ staged' \in SUBSET staged
    /\ UNCHANGED <<source, file, document, cached, profile, changes>>

(* create_profile; what it undoes when it fails is Operations' concern. *)
CreateProfile ==
    /\ xferPc = "create"
    /\ \/ /\ profile' = [runtime |-> None, content |-> None]
          /\ xferPc' = "install"
       \/ xferPc' = "not created" /\ UNCHANGED profile
    /\ UNCHANGED <<source, file, document, staged, cached, changes>>

(* install: the network and the providers decide. *)
InstallRuntime ==
    /\ xferPc = "install"
    /\ \/ /\ profile' = [profile EXCEPT !.runtime = document.runtime]
          /\ xferPc' = IF document.lock = None THEN "imported"
                       ELSE "commit"
       \/ xferPc' = "not installed" /\ UNCHANGED profile
    /\ UNCHANGED <<source, file, document, staged, cached, changes>>

(* commit_content_revision; the selection must be the one of the lock, in
   the same order. *)
CommitContent ==
    /\ xferPc = "commit"
    /\ IF document.lock.requested # document.desired
       THEN xferPc' = "mismatch" /\ UNCHANGED profile
       ELSE /\ profile' = [profile EXCEPT !.content = document.lock]
            /\ xferPc' = "imported"
    /\ UNCHANGED <<source, file, document, staged, cached, changes>>

(* Somebody writes to the file while it is read: other bytes in an entry,
   or another length. *)
ChangeFile ==
    /\ xferPc = "stage" /\ changes < MaxChanges
    /\ changes' = changes + 1
    /\ \/ file' = [file EXCEPT !.whole = FALSE]
       \/ \E i \in DOMAIN file.entries :
             file' = [file EXCEPT !.entries[i].holds = None]
    /\ UNCHANGED <<source, xferPc, document, staged, cached, profile>>

XferInit(sources, files) ==
    /\ \/ \E s \in sources : source = s /\ file = None
                                /\ xferPc = "export"
       \/ \E f \in files : source = None /\ file = f
                              /\ xferPc = "inspect"
    /\ document = None /\ staged = None /\ cached = {}
    /\ profile = None /\ changes = 0

XferNext ==
    \/ Export \/ Inspect \/ Stage \/ FinishStaging
    \/ ActivateArtifact \/ FinishActivation \/ CreateProfile
    \/ InstallRuntime \/ CommitContent \/ ChangeFile

-----------------------------------------------------------------------------
(* The checks of an import accept what an export has written: unless somebody
   writes to the file, only the disk, the cache, the database or the network can
   keep it from being imported.  Covers export_profile_v1 and
   import_profile_v1. *)
ExportsReturn ==
    source # None /\ changes = 0 => xferPc \notin {"refused", "mismatch"}

(* A profile that is exported and imported is the same profile: what is
   imported has the runtime, the selection and the lock the exporting profile
   had.  From its first moment the new profile has every artifact its file names
   in the cache and nothing staged.  A file that is refused leaves no staged
   artifact, nothing in the cache and no profile; an import that fails after that
   leaves no profile either, while its artifacts are cached or still staged.
   Covers export_profile_v1, import_profile_v1 and import_profile. *)
TransferIsWhole ==
    LET named == {a.sha : a \in Expected(document)} IN
    /\ xferPc = "imported" =>
          /\ profile = [runtime |-> document.runtime,
                        content |-> document.lock]
          /\ source # None => document = source.document
          /\ document.lock # None =>
                document.lock.requested = document.desired
    /\ profile # None => named \subseteq cached /\ staged = None
    /\ xferPc = "refused" =>
          staged = None /\ cached = {} /\ profile = None
    /\ xferPc = "not created" =>
          /\ profile = None /\ cached \subseteq named
          /\ named \subseteq cached \/ staged = named

=============================================================================
