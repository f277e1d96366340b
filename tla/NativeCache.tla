----------------------------- MODULE NativeCache -----------------------------
(***************************************************************************)
(* The extraction of native libraries before a launch                      *)
(* (minecraft/profile_launch.rs): the jars the lock names are checked      *)
(* together, extracted file by file into one directory per revision, and   *)
(* the directory is marked; later launches trust the mark.  The process    *)
(* may end at every step.                                                  *)
(*                                                                         *)
(* A jar of the lock is [intact, entries]: whether the file on the disk    *)
(* has the size and hash of the lock, and its entries.                     *)
(***************************************************************************)
EXTENDS Archives
LOCAL INSTANCE SequencesExt

CONSTANTS
    NativeLimits,   \* the limits of one jar and, as allEntries, allPacked,
                    \* allSize and jars, of all of them
    MaxNativeCrashes

VARIABLES
    natives,        \* lock.launch.native_jar_targets with their jars
    natFiles,       \* where each extracted file came from, by its key
    natDir,         \* the directory of the revision exists
    natMark,        \* "none", "tmp" or "set"
    natPc,
    natPlan,        \* the files left to extract, as <<jar, entry>>
    natCrashes

natVars == <<natives, natFiles, natDir, natMark, natPc, natPlan, natCrashes>>

NoFiles == <<>>

(* is_native_metadata_path *)
Metadata(e) == Key(e)[1] = "meta-inf"

(* What is registered and extracted: every entry that is no metadata. *)
OutputEntry(jars, o) == jars[o[1]].entries[o[2]]
Outputs(jars) ==
    {o \in UNION {{j} \X DOMAIN jars[j].entries : j \in DOMAIN jars} :
        ~Metadata(OutputEntry(jars, o))}
Files(jars) == {o \in Outputs(jars) : ~OutputEntry(jars, o).dir}
Place(jars, o) == Key(OutputEntry(jars, o))

(* The order of the jars in the lock and of the entries in a jar. *)
NotAfter(o, p) == o[1] < p[1] \/ (o[1] = p[1] /\ o[2] <= p[2])

(* register_native_output_path, for all the jars together: a place is named
   once, or by directories only, and no file is where a path goes through. *)
Registered(jars) ==
    \A o \in Outputs(jars), f \in Files(jars) :
       /\ o # f => Place(jars, o) # Place(jars, f)
       /\ Place(jars, f) \notin Above(Place(jars, o))

AllEntries(jars) == FlattenSeq([j \in DOMAIN jars |-> jars[j].entries])

(* validate_native_totals *)
TotalsFit(jars) ==
    /\ Len(AllEntries(jars)) <= NativeLimits.allEntries
    /\ Total(AllEntries(jars), PackedOf) <= NativeLimits.allPacked
    /\ Total(AllEntries(jars), SizeOf) <= NativeLimits.allSize

(* validate_native_archives *)
NativesAccepted(jars) ==
    /\ Len(jars) <= NativeLimits.jars
    /\ \A j \in DOMAIN jars :
          jars[j].intact /\ JarAccepted(jars[j].entries, NativeLimits)
    /\ TotalsFit(jars)
    /\ Registered(jars)

-----------------------------------------------------------------------------
NativesInit(locks) ==
    /\ natives \in locks
    /\ natFiles = NoFiles /\ natDir = FALSE /\ natMark = "none"
    /\ natPc = "idle" /\ natPlan = {} /\ natCrashes = 0

(* Without the look at the mark. *)
CacheReadyByDirectory == natDir

(* native_cache_ready: a mark with any text is trusted. *)
CacheReady == natDir /\ natMark = "set"

PrepareNatives ==
    /\ natPc = "idle"
    /\ natPc' = IF CacheReady THEN "ready"
                ELSE IF natDir THEN "clear" ELSE "check"
    /\ UNCHANGED <<natives, natFiles, natDir, natMark, natPlan, natCrashes>>

(* remove_tree of a directory without a mark. *)
ClearNatives ==
    /\ natPc = "clear"
    /\ natFiles' = NoFiles /\ natDir' = FALSE /\ natMark' = "none"
    /\ natPc' = "check"
    /\ UNCHANGED <<natives, natPlan, natCrashes>>

CheckNatives ==
    /\ natPc = "check"
    /\ IF NativesAccepted(natives)
       THEN /\ natPc' = "create"
            /\ natPlan' = Files(natives)
       ELSE natPc' = "refused" /\ natPlan' = {}
    /\ UNCHANGED <<natives, natFiles, natDir, natMark, natCrashes>>

CreateNatives ==
    /\ natPc = "create"
    /\ natPc' = IF natDir THEN "failed" ELSE "extract"
    /\ natDir' = TRUE
    /\ UNCHANGED <<natives, natFiles, natMark, natPlan, natCrashes>>

(* extract_native_archives, one file: it must be new, and its parents must
   be directories or free. *)
ExtractNative ==
    /\ natPc = "extract"
    /\ \E o \in natPlan :
          /\ \A p \in natPlan : NotAfter(o, p)
          /\ LET key == Place(natives, o)
             IN  IF CanCreate(DOMAIN natFiles, key)
                 THEN /\ natFiles' = [k \in DOMAIN natFiles \cup {key} |->
                                         IF k = key THEN o ELSE natFiles[k]]
                      /\ natPlan' = natPlan \ {o}
                      /\ natPc' = natPc
                 ELSE /\ natPc' = "failed" /\ natPlan' = {}
                      /\ UNCHANGED natFiles
    /\ UNCHANGED <<natives, natDir, natMark, natCrashes>>

(* The mark is written under another name, then renamed. *)
WriteMark ==
    /\ natPc = "extract" /\ natPlan = {}
    /\ natMark' = "tmp" /\ natPc' = "rename"
    /\ UNCHANGED <<natives, natFiles, natDir, natPlan, natCrashes>>

RenameMark ==
    /\ natPc = "rename"
    /\ natMark' = "set" /\ natPc' = "ready"
    /\ UNCHANGED <<natives, natFiles, natDir, natPlan, natCrashes>>

(* The next launch of the revision. *)
LaunchAgain ==
    /\ natPc \in {"ready", "refused", "failed"}
    /\ natPc' = "idle"
    /\ UNCHANGED <<natives, natFiles, natDir, natMark, natPlan, natCrashes>>

(* The process ends; a removal under way may have got anywhere. *)
NativesCrash ==
    /\ natPc \notin {"idle", "ready", "refused", "failed"}
    /\ natCrashes < MaxNativeCrashes
    /\ natCrashes' = natCrashes + 1
    /\ natPc' = "idle" /\ natPlan' = {}
    /\ IF natPc = "clear"
       THEN \E left \in SUBSET DOMAIN natFiles :
               /\ natFiles' = [k \in left |-> natFiles[k]]
               /\ natMark' \in {natMark, "none"}
       ELSE UNCHANGED <<natFiles, natMark>>
    /\ UNCHANGED <<natives, natDir>>

NativesNext ==
    \/ PrepareNatives \/ ClearNatives \/ CheckNatives \/ CreateNatives
    \/ ExtractNative \/ WriteMark \/ RenameMark \/ LaunchAgain
    \/ NativesCrash

-----------------------------------------------------------------------------
(* Every file of every jar, metadata aside, at its place. *)
AllExtracted ==
    /\ \A j \in DOMAIN natives : \A i \in DOMAIN natives[j].entries :
          LET e == natives[j].entries[i]
          IN  ~e.dir /\ ~Metadata(e) =>
                 Key(e) \in DOMAIN natFiles /\ natFiles[Key(e)] = <<j, i>>

(* A directory a launch trusts holds every native library of the lock, each
   from its own jar, however often the process ended while it was prepared;
   and what was checked can be extracted: two jars, or an earlier attempt
   that was cut off, never get in each other's way, so only a jar that is
   refused as a whole stops a launch.  Covers prepare_native_cache,
   validate_native_archives and extract_native_archives. *)
NativesComplete ==
    /\ CacheReady => AllExtracted
    /\ natPc = "ready" => CacheReady
    /\ natPc # "failed"

=============================================================================
