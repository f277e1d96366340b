--------------------------- MODULE InstalledProofs ---------------------------
(***************************************************************************)
(* What a profile has installed: proofs that its content lock follows what *)
(* the user has asked for, and that what a launch finds on the disk is     *)
(* whole, in the cache of native libraries, the Java of the launcher and   *)
(* the installed files of a profile, for every catalogue, every lock,      *)
(* every number of callers and commands, and every number of interruptions.*)
(***************************************************************************)
EXTENDS InstalledFiles, ContentService, TLAPS

-----------------------------------------------------------------------------
(* The cache of native libraries *)

\* Every file that is not left to do is in its place, and nothing else is.
InPlaceBut(left) ==
    /\ \A o \in Files(natives) \ left :
          Place(natives, o) \in DOMAIN natFiles /\ natFiles[Place(natives, o)] = o
    /\ \A k \in DOMAIN natFiles :
          \E o \in Files(natives) \ left : k = Place(natives, o)

\* The marks say what the directory holds: without a directory there is
\* nothing, an unmarked one is only ever cleared or filled from empty, and the
\* name of the mark is only taken when every file is in its place.
NativesInv ==
    /\ natPc \in {"idle", "clear", "check", "create", "extract", "rename",
                  "ready", "refused"}
    /\ natDir \in BOOLEAN
    /\ ~natDir => DOMAIN natFiles = {} /\ natMark = "none"
    /\ natPc = "clear" => natMark # "set"
    /\ natPc \in {"check", "create"} => ~natDir
    /\ natPc \in {"create", "extract"} => Registered(natives)
    /\ natPc = "create" => natPlan = Files(natives)
    /\ natPc = "extract" => /\ natDir /\ natMark = "none"
                            /\ natPlan \subseteq Files(natives)
                            /\ InPlaceBut(natPlan)
    /\ natPc = "rename" => natDir /\ InPlaceBut({})
    /\ natMark = "set" => natDir /\ InPlaceBut({})
    /\ natPc = "ready" => natMark = "set"

LEMMA NativesStart == ASSUME NEW locks PROVE NativesInit(locks) => NativesInv
<1>. DOMAIN NoFiles = {}
  BY DEF NoFiles
<1>. QED
  BY DEF NativesInit, NativesInv

\* A file of jars that were registered together can be created while only
\* other files of theirs are there.
LEMMA FilesFit ==
    ASSUME Registered(natives), natPlan \subseteq Files(natives),
           InPlaceBut(natPlan), NEW o \in natPlan
    PROVE  CanCreate(DOMAIN natFiles, Place(natives, o))
<1>. DEFINE key == Place(natives, o)
<1>1. o \in Files(natives) /\ o \in Outputs(natives)
  BY DEF Files
<1>2. ASSUME NEW k \in DOMAIN natFiles
      PROVE  /\ k # key
             /\ k \notin Above(key)
             /\ key \notin Above(k)
  <2>1. PICK p \in Files(natives) \ natPlan : k = Place(natives, p)
    BY DEF InPlaceBut
  <2>2. p # o /\ p \in Outputs(natives)
    BY DEF Files
  <2>. QED
    BY <1>1, <2>1, <2>2 DEF Registered
<1>. QED
  BY <1>2 DEF CanCreate

LEMMA ExtractKeeps ==
    ASSUME NativesInv, ExtractNative PROVE NativesInv'
<1>1. natPc = "extract" /\ Registered(natives) /\ natDir /\ natMark = "none"
  BY DEF NativesInv, ExtractNative
<1>2. natPlan \subseteq Files(natives) /\ InPlaceBut(natPlan)
  BY <1>1 DEF NativesInv
<1>3. PICK o \in natPlan :
         LET key == Place(natives, o)
         IN  IF CanCreate(DOMAIN natFiles, key)
             THEN /\ natFiles' = [k \in DOMAIN natFiles \cup {key} |->
                                     IF k = key THEN o ELSE natFiles[k]]
                  /\ natPlan' = natPlan \ {o}
                  /\ natPc' = natPc
             ELSE /\ natPc' = "failed" /\ natPlan' = {}
                  /\ UNCHANGED natFiles
  BY DEF ExtractNative
<1>. DEFINE key == Place(natives, o)
<1>4. CanCreate(DOMAIN natFiles, key)
  BY <1>1, <1>2, FilesFit
<1>5. /\ natFiles' = [k \in DOMAIN natFiles \cup {key} |->
                         IF k = key THEN o ELSE natFiles[k]]
      /\ natPlan' = natPlan \ {o} /\ natPc' = "extract"
      /\ natives' = natives /\ natDir' = natDir /\ natMark' = natMark
  BY <1>1, <1>3, <1>4 DEF ExtractNative
<1>6. key \notin DOMAIN natFiles /\ o \in Files(natives)
  BY <1>2, <1>4 DEF CanCreate
<1>7. InPlaceBut(natPlan)'
  <2>1. ASSUME NEW p \in Files(natives), p \notin natPlan \ {o}
        PROVE  Place(natives, p) \in DOMAIN natFiles'
               /\ natFiles'[Place(natives, p)] = p
    <3>1. CASE p = o
      BY <3>1, <1>5
    <3>2. CASE p # o
      <4>1. Place(natives, p) \in DOMAIN natFiles /\ natFiles[Place(natives, p)] = p
        BY <3>2, <2>1, <1>2 DEF InPlaceBut
      <4>. QED
        BY <4>1, <1>5, <1>6
    <3>. QED
      BY <3>1, <3>2
  <2>2. ASSUME NEW k \in DOMAIN natFiles'
        PROVE  \E p \in Files(natives) \ (natPlan \ {o}) : k = Place(natives, p)
    <3>1. k = key \/ k \in DOMAIN natFiles
      BY <1>5
    <3>2. ASSUME k \in DOMAIN natFiles
          PROVE  \E p \in Files(natives) \ natPlan : k = Place(natives, p)
      BY <3>2, <1>2 DEF InPlaceBut
    <3>. QED
      BY <3>1, <3>2, <1>6
  <2>3. Files(natives)' = Files(natives) /\ (\A p : Place(natives, p)' = Place(natives', p))
    BY <1>5
  <2>. QED
    BY <2>1, <2>2, <1>5 DEF InPlaceBut
<1>. QED
  BY <1>1, <1>2, <1>5, <1>7 DEF NativesInv

LEMMA NativesStep == NativesInv /\ [NativesNext]_natVars => NativesInv'
<1>. SUFFICES ASSUME NativesInv, [NativesNext]_natVars PROVE NativesInv'
  OBVIOUS
<1>1. CASE PrepareNatives
  BY <1>1 DEF PrepareNatives, CacheReady, NativesInv, InPlaceBut
<1>2. CASE ClearNatives
  <2>1. DOMAIN NoFiles = {}
    BY DEF NoFiles
  <2>. QED
    BY <1>2, <2>1 DEF ClearNatives, NativesInv
<1>3. CASE CheckNatives
  BY <1>3 DEF CheckNatives, NativesAccepted, NativesInv, InPlaceBut
<1>4. CASE CreateNatives
  BY <1>4 DEF CreateNatives, NativesInv, InPlaceBut
<1>5. CASE ExtractNative
  BY <1>5, ExtractKeeps
<1>6. CASE WriteMark
  BY <1>6 DEF WriteMark, NativesInv, InPlaceBut
<1>7. CASE RenameMark
  BY <1>7 DEF RenameMark, NativesInv, InPlaceBut
<1>8. CASE LaunchAgain
  BY <1>8 DEF LaunchAgain, NativesInv, InPlaceBut
<1>9. CASE NativesCrash
  <2>1. CASE natPc = "clear"
    <3>1. PICK left \in SUBSET DOMAIN natFiles :
             natFiles' = [k \in left |-> natFiles[k]]
             /\ natMark' \in {natMark, "none"}
      BY <1>9, <2>1 DEF NativesCrash
    <3>2. natMark' # "set" /\ (~natDir => DOMAIN natFiles' = {} /\ natMark' = "none")
      BY <2>1, <3>1 DEF NativesInv
    <3>. QED
      BY <1>9, <2>1, <3>2 DEF NativesCrash, NativesInv
  <2>2. CASE natPc # "clear"
    BY <1>9, <2>2 DEF NativesCrash, NativesInv, InPlaceBut
  <2>. QED
    BY <2>1, <2>2
<1>10. CASE UNCHANGED natVars
  BY <1>10 DEF natVars, NativesInv, InPlaceBut
<1>. QED
  BY <1>1, <1>2, <1>3, <1>4, <1>5, <1>6, <1>7, <1>8, <1>9, <1>10 DEF NativesNext

LEMMA PlacesAreFilled == InPlaceBut({}) => AllExtracted
<1>. SUFFICES ASSUME InPlaceBut({}), NEW j \in DOMAIN natives,
                     NEW i \in DOMAIN natives[j].entries,
                     ~natives[j].entries[i].dir, ~Metadata(natives[j].entries[i])
              PROVE  /\ Key(natives[j].entries[i]) \in DOMAIN natFiles
                     /\ natFiles[Key(natives[j].entries[i])] = <<j, i>>
  BY DEF AllExtracted
<1>1. <<j, i>> \in Files(natives)
  BY DEF Files, Outputs, OutputEntry
<1>. QED
  BY <1>1 DEF InPlaceBut, Place, OutputEntry

LEMMA NativesAreComplete == NativesInv => NativesComplete
<1>1. NativesInv /\ CacheReady => AllExtracted
  BY PlacesAreFilled DEF NativesInv, CacheReady
<1>. QED
  BY <1>1 DEF NativesInv, NativesComplete, CacheReady

-----------------------------------------------------------------------------
(* Java *)

JavaStages == {"idle", "found", "wait", "download", "extract", "libraries",
               "extracted", "place", "done", "failed"}
MaybeBuilds == Builds \cup {None}
Homes == [exe : BOOLEAN, whole : BOOLEAN, build : MaybeBuilds, stamp : 0 .. 4]
MaybeHomes == Homes \cup {None}

\* What a caller may be given: a home of the launcher or of the system.
Given == MaybeHomes \cup UNION {{homes[i] : i \in DOMAIN homes} : homes \in SystemJavas}

\* The marker speaks of the executable that is there only when that one has
\* been seen to run.
DiskFits ==
    /\ current \in MaybeHomes /\ installing \in MaybeHomes
    /\ MarkerFits /\ HasExe(current) => Runs(current)
CallerRecord == [pc : JavaStages, build : MaybeBuilds, got : Given]
CallersFit ==
    /\ caller \in [Callers -> CallerRecord]
    /\ \A c \in Callers : At(c, "done") => Runs(caller[c].got)
JavaInv == DiskFits /\ CallersFit

\* Three files have at most three times, so one of four is new.
LEMMA FreshIsNew == Fresh \in 1 .. 4 /\ Fresh \notin Stamps
<1>. DEFINE New(n) == n \notin Stamps /\ \A k \in 1 .. n - 1 : k \in Stamps
<1>1. \A s \in Stamps : s = current.stamp \/ s = installing.stamp \/ s = probeMarker
  BY DEF Stamps
<1>2. 1 \notin Stamps \/ 2 \notin Stamps \/ 3 \notin Stamps \/ 4 \notin Stamps
  BY <1>1
<1>3. \E n \in 1 .. 4 : New(n)
  <2>1. CASE 1 \notin Stamps
    <3>1. New(1)
      BY <2>1
    <3>. QED
      BY <3>1
  <2>2. CASE 1 \in Stamps /\ 2 \notin Stamps
    <3>1. 1 .. 2 - 1 = {1}
      OBVIOUS
    <3>2. New(2)
      BY <2>2, <3>1
    <3>. QED
      BY <3>2
  <2>3. CASE 1 \in Stamps /\ 2 \in Stamps /\ 3 \notin Stamps
    <3>1. 1 .. 3 - 1 = {1, 2}
      OBVIOUS
    <3>2. New(3)
      BY <2>3, <3>1
    <3>. QED
      BY <3>2
  <2>4. CASE 1 \in Stamps /\ 2 \in Stamps /\ 3 \in Stamps
    <3>1. 1 .. 4 - 1 = {1, 2, 3}
      OBVIOUS
    <3>2. New(4)
      BY <2>4, <3>1, <1>2
    <3>. QED
      BY <3>2
  <2>. QED
    BY <2>1, <2>2, <2>3, <2>4
<1>4. Fresh = CHOOSE n \in 1 .. 4 : New(n)
  BY DEF Fresh
<1>. HIDE DEF New
<1>5. New(Fresh) /\ Fresh \in 1 .. 4
  BY <1>3, <1>4
<1>. QED
  BY <1>5 DEF New

LEMMA JavaStart == JavaInit => JavaInv
<1>. SUFFICES ASSUME JavaInit PROVE JavaInv
  OBVIOUS
<1>1. Asking \in CallerRecord
  BY DEF Asking, CallerRecord, JavaStages, MaybeBuilds, Given, MaybeHomes
<1>2. caller \in [Callers -> CallerRecord]
  BY <1>1 DEF JavaInit
<1>3. ~MarkerFits /\ \A c \in Callers : ~At(c, "done")
  BY DEF JavaInit, MarkerFits, At, Asking
<1>. QED
  BY <1>2, <1>3 DEF JavaInit, JavaInv, DiskFits, CallersFit, MaybeHomes

\* One caller's record changes.
LEMMA OneCaller ==
    ASSUME CallersFit, NEW c \in Callers, NEW record \in CallerRecord,
           caller' = [caller EXCEPT ![c] = record],
           record.pc = "done" => Runs(record.got)
    PROVE  CallersFit'
<1>1. caller' \in [Callers -> CallerRecord]
  BY DEF CallersFit
<1>2. \A d \in Callers : caller'[d] = IF d = c THEN record ELSE caller[d]
  BY DEF CallersFit
<1>. QED
  BY <1>1, <1>2 DEF CallersFit, At, Runs

\* A caller that goes on, gives up or is given a home that runs.
LEMMA GoingOn ==
    ASSUME CallersFit, NEW c \in Callers, NEW step \in JavaStages \ {"done"}, Goto(c, step)
    PROVE  CallersFit'
<1>. DEFINE record == [caller[c] EXCEPT !.pc = step]
<1>1. record \in CallerRecord /\ record.pc # "done"
  BY DEF CallersFit, CallerRecord
<1>2. caller' = [caller EXCEPT ![c] = record]
  BY DEF Goto
<1>. HIDE DEF record
<1>. QED
  BY <1>1, <1>2, OneCaller

LEMMA GivingUp == ASSUME CallersFit, NEW c \in Callers, Failed(c) PROVE CallersFit'
<1>. DEFINE failed == [Asking EXCEPT !.pc = "failed"]
<1>1. failed \in CallerRecord /\ failed.pc = "failed"
  BY DEF Asking, CallerRecord, JavaStages, MaybeBuilds, Given, MaybeHomes
<1>2. caller' = [caller EXCEPT ![c] = failed]
  BY DEF Failed
<1>. HIDE DEF failed
<1>. QED
  BY <1>1, <1>2, OneCaller

LEMMA BeingGiven ==
    ASSUME CallersFit, NEW c \in Callers, NEW home \in Given, Runs(home), Got(c, home)
    PROVE  CallersFit'
<1>. DEFINE record == [caller[c] EXCEPT !.pc = "done", !.got = home]
<1>1. record \in CallerRecord /\ record.got = home
  BY DEF CallersFit, CallerRecord, JavaStages
<1>2. caller' = [caller EXCEPT ![c] = record]
  BY DEF Got
<1>. HIDE DEF record
<1>. QED
  BY <1>1, <1>2, OneCaller

LEMMA SameDisk == ASSUME DiskFits, UNCHANGED disk PROVE DiskFits'
BY DEF DiskFits, disk, MarkerFits, HasExe, Runs

LEMMA NoMarker ==
    ASSUME current' \in MaybeHomes, installing' \in MaybeHomes, probeMarker' = None
    PROVE  DiskFits'
BY DEF DiskFits, MarkerFits

LEMMA LayoutRecovers ==
    ASSUME DiskFits, Recovers \/ RecoveryFails \/ NothingToRecover PROVE DiskFits'
<1>1. CASE Recovers
  BY <1>1, NoMarker DEF Recovers, DiskFits, MaybeHomes
<1>2. CASE RecoveryFails
  BY <1>2, NoMarker DEF RecoveryFails, DiskFits, MaybeHomes
<1>3. CASE NothingToRecover
  BY <1>3, SameDisk DEF NothingToRecover
<1>. QED
  BY <1>1, <1>2, <1>3

LEMMA JavaCallerStep ==
    ASSUME JavaInv, NEW c \in Callers, CallerStep(c) PROVE JavaInv'
<1>. DiskFits /\ CallersFit
  BY DEF JavaInv
<1>1. CASE AskManaged(c)
  <2>1. CallersFit'
    BY <1>1, GoingOn DEF AskManaged, JavaStages
  <2>2. DiskFits'
    BY <1>1, LayoutRecovers, SameDisk DEF AskManaged
  <2>. QED
    BY <2>1, <2>2 DEF JavaInv
<1>2. CASE TakeLock(c)
  <2>1. CallersFit'
    BY <1>2, GoingOn DEF TakeLock, JavaStages
  <2>2. CASE Recovers
    BY <2>1, <2>2, LayoutRecovers DEF JavaInv
  <2>3. CASE HasExe(current) /\ UNCHANGED disk
    BY <2>1, <2>3, SameDisk DEF JavaInv
  <2>4. CASE ~HasExe(current) /\ installing' = None /\ UNCHANGED <<current, probeMarker>>
    BY <2>1, <2>4 DEF JavaInv, DiskFits, HasExe, MaybeHomes
  <2>5. CASE installing' = None /\ current' = None /\ probeMarker' = None
    BY <2>1, <2>5, NoMarker DEF JavaInv, MaybeHomes
  <2>. QED
    BY <1>2, <2>2, <2>3, <2>4, <2>5 DEF TakeLock
<1>3. ASSUME NEW build \in Builds, DownloadJava(c, build) PROVE JavaInv'
  <2>1. CallersFit'
    <3>. DEFINE record == [caller[c] EXCEPT !.pc = "extract", !.build = build]
    <3>1. record \in CallerRecord /\ record.pc = "extract"
      BY DEF CallersFit, CallerRecord, JavaStages, MaybeBuilds
    <3>2. caller' = [caller EXCEPT ![c] = record]
      BY <1>3 DEF DownloadJava
    <3>. HIDE DEF record
    <3>. QED
      BY <3>1, <3>2, OneCaller
  <2>. QED
    BY <1>3, <2>1, SameDisk DEF DownloadJava, JavaInv
<1>4. CASE DownloadJavaFails(c)
  BY <1>4, GivingUp, SameDisk DEF DownloadJavaFails, JavaInv
<1>5. CASE ExtractExecutable(c)
  <2>1. installing' \in MaybeHomes
    <3>1. caller[c].build \in MaybeBuilds
      BY DEF CallersFit, CallerRecord
    <3>. QED
      BY <1>5, <3>1, FreshIsNew DEF ExtractExecutable, MaybeHomes, Homes
  <2>2. DiskFits'
    BY <1>5, <2>1 DEF ExtractExecutable, DiskFits, MarkerFits, HasExe, Runs
  <2>3. CallersFit'
    BY <1>5, GoingOn DEF ExtractExecutable, JavaStages
  <2>. QED
    BY <2>2, <2>3 DEF JavaInv
<1>6. CASE ExtractRest(c)
  <2>1. installing' \in MaybeHomes
    <3>1. caller[c].build \in MaybeBuilds
      BY DEF CallersFit, CallerRecord
    <3>2. CASE installing = None
      <4>1. installing' = [exe |-> FALSE, whole |-> FALSE, build |-> caller[c].build, stamp |-> 0]
        BY <1>6, <3>2 DEF ExtractRest
      <4>. QED
        BY <3>1, <4>1 DEF MaybeHomes, Homes
    <3>3. CASE installing # None
      <4>1. installing' = [installing EXCEPT !.whole = TRUE] /\ installing \in Homes
        BY <1>6, <3>3 DEF ExtractRest, DiskFits, MaybeHomes
      <4>. QED
        BY <4>1 DEF MaybeHomes, Homes
    <3>. QED
      BY <3>2, <3>3
  <2>2. DiskFits'
    BY <1>6, <2>1 DEF ExtractRest, DiskFits, MarkerFits, HasExe, Runs
  <2>3. CallersFit'
    BY <1>6, GoingOn DEF ExtractRest, JavaStages
  <2>. QED
    BY <2>2, <2>3 DEF JavaInv
<1>7. CASE ExtractFails(c)
  BY <1>7, GivingUp, SameDisk DEF ExtractFails, JavaInv
<1>8. CASE ProbeExtracted(c)
  <2>1. CallersFit'
    BY <1>8, GoingOn, GivingUp DEF ProbeExtracted, JavaStages
  <2>. QED
    BY <1>8, <2>1, SameDisk DEF ProbeExtracted, JavaInv
<1>9. CASE PlaceJava(c)
  <2>1. CallersFit'
    BY <1>9, GoingOn, GivingUp DEF PlaceJava, JavaStages
  <2>2. DiskFits'
    BY <1>9, NoMarker DEF PlaceJava, DiskFits, MaybeHomes
  <2>. QED
    BY <2>1, <2>2 DEF JavaInv
<1>10. CASE UseMarked(c)
  <2>1. current \in Given /\ Runs(current)
    BY <1>10 DEF UseMarked, DiskFits, Given
  <2>2. CallersFit'
    BY <1>10, <2>1, BeingGiven DEF UseMarked
  <2>. QED
    BY <1>10, <2>2, SameDisk DEF UseMarked, JavaInv
<1>11. CASE ProbeManaged(c)
  <2>1. CASE Runs(current)
    <3>1. current \in Given
      BY DEF DiskFits, Given
    <3>2. CallersFit'
      BY <1>11, <2>1, <3>1, BeingGiven DEF ProbeManaged
    <3>3. DiskFits'
      BY <1>11, <2>1 DEF ProbeManaged, DiskFits, Runs
    <3>. QED
      BY <3>2, <3>3 DEF JavaInv
  <2>2. CASE ~Runs(current)
    BY <1>11, <2>2, GivingUp, SameDisk DEF ProbeManaged, JavaInv, disk
  <2>. QED
    BY <2>1, <2>2
<1>. QED
  BY <1>1, <1>2, <1>3, <1>4, <1>5, <1>6, <1>7, <1>8, <1>9, <1>10, <1>11 DEF CallerStep

LEMMA JavaStep == JavaInv /\ [JavaNext]_javaVars => JavaInv'
<1>. SUFFICES ASSUME JavaInv, [JavaNext]_javaVars PROVE JavaInv'
  OBVIOUS
<1>. DiskFits /\ CallersFit
  BY DEF JavaInv
<1>1. ASSUME NEW c \in Callers, CallerStep(c) PROVE JavaInv'
  BY <1>1, JavaCallerStep
<1>a. Asking \in CallerRecord /\ Asking.pc = "idle"
  BY DEF Asking, CallerRecord, JavaStages, MaybeBuilds, Given, MaybeHomes
<1>2. ASSUME NEW c \in Callers, AskAgain(c) PROVE JavaInv'
  <2>1. CallersFit'
    BY <1>2, <1>a, OneCaller DEF AskAgain
  <2>. QED
    BY <1>2, <2>1, SameDisk DEF AskAgain, JavaInv
<1>3. ASSUME NEW c \in Callers, NEW homes \in SystemJavas, ResolveFrom(c, homes)
      PROVE  JavaInv'
  <2>1. ASSUME NEW i \in DOMAIN homes, FirstRunning(homes, i), Got(c, homes[i])
        PROVE  CallersFit'
    <3>1. homes[i] \in Given /\ Runs(homes[i])
      BY <2>1 DEF FirstRunning, Given
    <3>. QED
      BY <2>1, <3>1, BeingGiven
  <2>2. ASSUME Goto(c, "failed") PROVE CallersFit'
    BY <2>2, GoingOn DEF JavaStages
  <2>3. CallersFit'
    BY <1>3, <2>1, <2>2 DEF ResolveFrom
  <2>. QED
    BY <1>3, <2>3, SameDisk DEF ResolveFrom, JavaInv
<1>4. CASE JavaCrash
  <2>1. CallersFit'
    <3>1. caller' = [c \in Callers |-> Asking]
      BY <1>4 DEF JavaCrash
    <3>. QED
      BY <1>a, <3>1 DEF CallersFit, At
  <2>. QED
    BY <1>4, <2>1, SameDisk DEF JavaCrash, JavaInv
<1>5. ASSUME NEW build \in Builds, SwapExecutable(build) PROVE JavaInv'
  <2>1. current \in Homes /\ current # None
    BY <1>5 DEF SwapExecutable, HasExe, DiskFits, MaybeHomes
  <2>2. current' \in MaybeHomes /\ current'.stamp = Fresh
    <3>1. current' = [current EXCEPT !.build = build, !.stamp = Fresh]
      BY <1>5 DEF SwapExecutable
    <3>2. build \in MaybeBuilds /\ Fresh \in 0 .. 4
      BY FreshIsNew DEF MaybeBuilds
    <3>. QED
      BY <2>1, <3>1, <3>2 DEF Homes, MaybeHomes
  <2>3. probeMarker' # current'.stamp
    BY <1>5, <2>2, FreshIsNew DEF SwapExecutable, Stamps
  <2>4. DiskFits'
    BY <1>5, <2>2, <2>3 DEF SwapExecutable, DiskFits, MarkerFits
  <2>5. CallersFit'
    BY <1>5 DEF SwapExecutable, CallersFit, At, Runs
  <2>. QED
    BY <2>4, <2>5 DEF JavaInv
<1>6. CASE UNCHANGED javaVars
  BY <1>6, SameDisk DEF javaVars, disk, JavaInv, CallersFit, At, Runs
<1>. QED
  BY <1>1, <1>2, <1>3, <1>4, <1>5, <1>6 DEF JavaNext

-----------------------------------------------------------------------------
(* The installed files of a profile *)

Artifacts == UNION {r.items : r \in Runtimes}
Switches == Components \cup {FALSE}
MaybeLocks == Contents \cup {None}
Committed == [runtime : Runtimes \cup {None}, component : Switches, content : MaybeLocks]
QueryRows == [revision : Nat, component : Switches] \cup {None}
Commands == [pc : {"resolve", "download", "prepare", "commit"}, previous : Nat,
             runtime : Runtimes, component : Switches, content : MaybeLocks,
             wanted : SUBSET Artifacts, open : SUBSET Artifacts,
             projection : QueryRows]

ProfileFits ==
    /\ revisions \in Seq(Committed) /\ revisions # <<>>
    /\ active = Len(revisions)
    /\ projection \in QueryRows
TasksFit == task \in [Tasks -> Commands \cup {Idle, Ended}]

\* What is on the disk with other bytes was damaged by others, and before it
\* was trusted unless the damage says so.
DamageIsKnown ==
    /\ \A a \in rotten : \E b \in BOOLEAN : <<0, a, b>> \in harm
    /\ \A f \in broken :
          /\ f = <<f[1], f[2]>>
          /\ f[1] \in DOMAIN revisions /\ f[2] \in ItemsOf(revisions[f[1]])
          /\ \E b \in BOOLEAN : <<f[1], f[2], b>> \in harm
          /\ f[1] \in trusted => <<f[1], f[2], TRUE>> \in harm

\* Partial files belong to a download that is open, and what is open is wanted.
PartialsFit ==
    /\ \A f \in staging :
          /\ f = <<f[1], f[2]>> /\ f[1] \in Tasks
          /\ task[f[1]].pc = "download" /\ f[2] \in task[f[1]].open
    /\ \A t \in Tasks :
          /\ task[t].pc = "resolve" => task[t].open = {}
          /\ task[t].pc = "download" => task[t].open \subseteq task[t].wanted

\* A command that read the revision that is still active carries its content,
\* for the runtime the content is of.
Carries(t) ==
    task[t].pc \notin {"idle", "ended"} =>
       /\ task[t].previous <= active
       /\ task[t].previous = active =>
             /\ task[t].content = Current.content
             /\ Current.content # None => task[t].runtime = Current.runtime
ContentFits ==
    /\ projection = None => Current.content = None
    /\ \A t \in Tasks : Carries(t)

InstallInv == ProfileFits /\ TasksFit /\ DamageIsKnown /\ PartialsFit /\ ContentFits

LEMMA CommandsByStage ==
    ASSUME TasksFit, NEW t \in Tasks
    PROVE  /\ task[t].pc \notin {"idle", "ended"} => task[t] \in Commands
           /\ task[t] = Idle => task[t].pc = "idle"
           /\ task[t] = Ended => task[t].pc = "ended"
BY DEF TasksFit, Idle, Ended

LEMMA CurrentFits ==
    ASSUME ProfileFits
    PROVE  Current \in Committed /\ active \in DOMAIN revisions /\ active \in Nat
BY DEF ProfileFits, Current

LEMMA InstallStart == InstallInit => InstallInv
<1>. SUFFICES ASSUME InstallInit PROVE InstallInv
  OBVIOUS
<1>1. PICK r \in Runtimes \cup {None} :
         /\ revisions = <<[runtime |-> r, component |-> FALSE, content |-> None]>>
         /\ projection = IF r = None THEN None
                         ELSE [revision |-> 1, component |-> FALSE]
  BY DEF InstallInit
<1>2. ProfileFits /\ Current.content = None
  <2>1. [runtime |-> r, component |-> FALSE, content |-> None] \in Committed
    BY DEF Committed, Switches, MaybeLocks
  <2>2. projection \in QueryRows
    BY <1>1 DEF QueryRows, Switches
  <2>. DEFINE first == [runtime |-> r, component |-> FALSE, content |-> None]
  <2>3. first.content = None
    OBVIOUS
  <2>. HIDE DEF first
  <2>4. <<first>> \in Seq(Committed) /\ <<first>> # <<>> /\ Len(<<first>>) = 1
        /\ <<first>>[1] = first
    BY <2>1 DEF first
  <2>5. revisions = <<first>>
    BY <1>1 DEF first
  <2>. QED
    BY <2>2, <2>3, <2>4, <2>5 DEF InstallInit, ProfileFits, Current
<1>3. TasksFit /\ \A t \in Tasks : task[t].pc = "idle"
  BY DEF InstallInit, TasksFit, Idle
<1>4. DamageIsKnown
  BY DEF InstallInit, DamageIsKnown
<1>5. PartialsFit
  BY <1>3 DEF InstallInit, PartialsFit
<1>6. ContentFits
  BY <1>2, <1>3 DEF ContentFits, Carries
<1>. QED
  BY <1>2, <1>3, <1>4, <1>5, <1>6 DEF InstallInv

LEMMA SameFiles ==
    ASSUME DamageIsKnown, UNCHANGED <<revisions, rotten, broken, trusted, harm>>
    PROVE  DamageIsKnown'
BY DEF DamageIsKnown, ItemsOf, Items

LEMMA SameProfile ==
    ASSUME ProfileFits, UNCHANGED <<revisions, active, projection>>
    PROVE  ProfileFits'
BY DEF ProfileFits

\* One command changes: it starts, goes on or ends.
LEMMA OneTask ==
    ASSUME InstallInv, NEW t \in Tasks, NEW command \in Commands \cup {Idle, Ended},
           task' = [task EXCEPT ![t] = command],
           UNCHANGED <<revisions, active, projection, broken, trusted, harm, rotten>>,
           command.pc \notin {"idle", "ended"} =>
              /\ command.previous <= active
              /\ command.previous = active =>
                    /\ command.content = Current.content
                    /\ Current.content # None => command.runtime = Current.runtime,
           command.pc = "resolve" => command.open = {},
           command.pc = "download" => command.open \subseteq command.wanted,
           \A f \in staging' :
              \/ f \in staging /\ f[1] # t
              \/ \E a : f = <<t, a>> /\ command.pc = "download" /\ a \in command.open
    PROVE  InstallInv'
<1>. ProfileFits /\ TasksFit /\ DamageIsKnown /\ PartialsFit /\ ContentFits
  BY DEF InstallInv
<1>1. \A u \in Tasks : task'[u] = IF u = t THEN command ELSE task[u]
  BY DEF TasksFit
<1>2. TasksFit'
  BY DEF TasksFit
<1>3. PartialsFit'
  BY <1>1 DEF PartialsFit
<1>4. Current' = Current
  BY DEF Current
<1>5. ContentFits'
  BY <1>1, <1>4 DEF ContentFits, Carries
<1>. QED
  BY <1>2, <1>3, <1>5, SameFiles, SameProfile DEF InstallInv

LEMMA EndedFits ==
    /\ Ended.pc = "ended" /\ Idle.pc = "idle"
    /\ \A t : Refuse(t) => task' = [task EXCEPT ![t] = Ended]
BY DEF Ended, Idle, Refuse

\* A command that ends without a commit takes its partial files along.
LEMMA RefusedKeeps ==
    ASSUME InstallInv, NEW t \in Tasks, Refuse(t),
           UNCHANGED <<revisions, active, projection, broken, trusted, harm, rotten>>,
           \/ staging' = WithoutPartials(t)
           \/ staging' = staging /\ task[t].pc # "download"
           \/ staging' = staging /\ task[t].open = {}
    PROVE  InstallInv'
<1>1. \A f \in staging' : f \in staging /\ f[1] # t
  BY DEF WithoutPartials, InstallInv, PartialsFit
<1>. DEFINE command == Ended
<1>2. command \in Commands \cup {Idle, Ended} /\ command.pc = "ended"
      /\ task' = [task EXCEPT ![t] = command]
  BY EndedFits
<1>. HIDE DEF command
<1>. QED
  BY <1>1, <1>2, OneTask

\* What a command starts with is what the revision it read has.
LEMMA StartedKeeps ==
    ASSUME InstallInv, NEW t \in Tasks, task[t] = Idle, UNCHANGED Elsewhere,
           NEW runtime \in Runtimes, NEW component \in Switches,
           NEW content \in MaybeLocks, NEW step \in {"resolve", "prepare"},
           Start(t, runtime, component, content, step),
           content = Current.content,
           Current.content # None => runtime = Current.runtime
    PROVE  InstallInv'
<1>. ProfileFits /\ TasksFit /\ PartialsFit
  BY DEF InstallInv
<1>1. active \in Nat
  BY CurrentFits
<1>. DEFINE command == [pc |-> step, previous |-> active,
                        runtime |-> runtime, component |-> component,
                        content |-> content, wanted |-> {}, open |-> {},
                        projection |-> None]
<1>2. command \in Commands
  BY <1>1 DEF Commands, QueryRows
<1>3. /\ task' = [task EXCEPT ![t] = command]
      /\ command.pc \notin {"idle", "ended", "download"} /\ command.open = {}
      /\ command.previous = active /\ command.content = Current.content
      /\ Current.content # None => command.runtime = Current.runtime
  BY DEF Start
<1>4. \A f \in staging' : f \in staging /\ f[1] # t
  BY CommandsByStage DEF Elsewhere, PartialsFit
<1>. HIDE DEF command
<1>5. UNCHANGED <<revisions, active, projection, broken, trusted, harm, rotten>>
  BY DEF Elsewhere
<1>6. command.previous <= active
  BY <1>1, <1>3
<1>. QED
  BY <1>2, <1>3, <1>4, <1>5, <1>6, OneTask

LEMMA InstallBegins ==
    ASSUME InstallInv, NEW t \in Tasks,
           \/ \E r \in Runtimes, c \in Components : BeginInstall(t, r, c)
           \/ \E c \in Components : BeginChange(t, c)
           \/ BeginRepair(t)
    PROVE  InstallInv'
<1>. ProfileFits /\ TasksFit /\ ContentFits
  BY DEF InstallInv
<1>1. task[t] = Idle /\ UNCHANGED Elsewhere /\ task[t].pc # "download"
  BY CommandsByStage DEF BeginInstall, BeginChange, BeginRepair
<1>2. ASSUME Refuse(t) PROVE InstallInv'
  BY <1>1, <1>2, RefusedKeeps DEF Elsewhere
<1>3. /\ Current.runtime \in Runtimes \cup {None} /\ Current.component \in Switches
      /\ Current.content \in MaybeLocks /\ None \in MaybeLocks /\ Components \subseteq Switches
      /\ projection = None => Current.content = None
  BY CurrentFits DEF Committed, Switches, MaybeLocks, ContentFits
<1>4. ASSUME NEW runtime \in Runtimes, NEW component \in Components,
             BeginInstall(t, runtime, component)
      PROVE  InstallInv'
  <2>1. CASE projection # None /\ Current.runtime # runtime /\ Current.content = None
    <3>1. Start(t, runtime, component, None, "resolve")
      BY <1>4, <2>1 DEF BeginInstall
    <3>. QED
      BY <1>1, <1>3, <2>1, <3>1, StartedKeeps
  <2>2. CASE projection # None /\ Current.runtime = runtime
    <3>1. Start(t, runtime, component, Current.content, "resolve")
      BY <1>4, <2>2 DEF BeginInstall
    <3>. QED
      BY <1>1, <1>3, <2>2, <3>1, StartedKeeps
  <2>3. CASE projection = None
    <3>1. Start(t, runtime, component, None, "resolve")
      BY <1>4, <2>3 DEF BeginInstall
    <3>. QED
      BY <1>1, <1>3, <2>3, <3>1, StartedKeeps
  <2>. QED
    BY <1>2, <1>4, <2>1, <2>2, <2>3 DEF BeginInstall
<1>5. ASSUME NEW component \in Components, BeginChange(t, component) PROVE InstallInv'
  <2>1. CASE Current.runtime # None
    <3>1. Start(t, Current.runtime, component, Current.content, "resolve")
      BY <1>3, <1>5, <2>1 DEF BeginChange
    <3>. QED
      BY <1>1, <1>3, <2>1, <3>1, StartedKeeps
  <2>. QED
    BY <1>2, <1>5, <2>1 DEF BeginChange
<1>6. CASE BeginRepair(t)
  <2>1. CASE Current.runtime # None /\ ItemsOf(Current) \subseteq rows
    <3>1. Start(t, Current.runtime, Current.component, Current.content, "prepare")
      BY <1>6, <2>1 DEF BeginRepair
    <3>. QED
      BY <1>1, <1>3, <2>1, <3>1, StartedKeeps
  <2>. QED
    BY <1>2, <1>6, <2>1 DEF BeginRepair
<1>. QED
  BY <1>4, <1>5, <1>6

\* A download step: the command keeps what it carries.
LEMMA DownloadStep ==
    ASSUME InstallInv, NEW t \in Tasks, NEW a,
           \/ ResolveRuntime(t) \/ OpenDownload(t, a)
           \/ ReceiveRight(t, a) \/ ReceiveWrong(t, a)
           \/ FetchComponent(t) \/ PrepareRevision(t)
    PROVE  InstallInv'
<1>. ProfileFits /\ TasksFit /\ PartialsFit /\ ContentFits
  BY DEF InstallInv
<1>1. task[t] \in Commands /\ task[t].pc \notin {"idle", "ended"}
  <2>1. task[t].pc \notin {"idle", "ended"}
    BY DEF ResolveRuntime, OpenDownload, ReceiveRight, ReceiveWrong, FetchComponent,
           PrepareRevision, Running
  <2>. QED
    BY <2>1, CommandsByStage
<1>2. /\ task[t].previous <= active
      /\ task[t].previous = active =>
            /\ task[t].content = Current.content
            /\ Current.content # None => task[t].runtime = Current.runtime
  BY <1>1 DEF ContentFits, Carries
<1>3. ASSUME NEW command \in Commands, task' = [task EXCEPT ![t] = command],
             command.previous = task[t].previous, command.content = task[t].content,
             command.runtime = task[t].runtime, command.pc # "resolve",
             UNCHANGED <<revisions, active, projection, broken, trusted, harm, rotten>>,
             command.pc = "download" => command.open \subseteq command.wanted,
             \A f \in staging' :
                \/ f \in staging /\ f[1] # t
                \/ \E b : f = <<t, b>> /\ command.pc = "download" /\ b \in command.open
      PROVE  InstallInv'
  <2>1. command \in Commands \cup {Idle, Ended} /\ (command.pc = "resolve" => command.open = {})
    BY <1>3
  <2>2. command.pc \notin {"idle", "ended"} =>
           /\ command.previous <= active
           /\ command.previous = active =>
                 /\ command.content = Current.content
                 /\ Current.content # None => command.runtime = Current.runtime
    BY <1>2, <1>3
  <2>. QED
    BY <1>3, <2>1, <2>2, OneTask
<1>4. \A f \in staging : f[1] = t =>
         f = <<t, f[2]>> /\ task[t].pc = "download" /\ f[2] \in task[t].open
  BY DEF PartialsFit
<1>5. /\ task[t].pc = "resolve" => task[t].open = {}
      /\ task[t].pc = "download" => task[t].open \subseteq task[t].wanted
  BY DEF PartialsFit
<1>6. CASE ResolveRuntime(t)
  <2>1. ASSUME Refuse(t) PROVE InstallInv'
    BY <1>6, <2>1, RefusedKeeps DEF ResolveRuntime, Running, Elsewhere
  <2>2. ASSUME task' = [task EXCEPT ![t].pc = "download",
                                    ![t].wanted = task[t].runtime.items \ rows]
        PROVE  InstallInv'
    <3>. DEFINE wanted == task[t].runtime.items \ rows
                command == [task[t] EXCEPT !.pc = "download", !.wanted = wanted]
    <3>1. wanted \in SUBSET Artifacts
      BY <1>1 DEF Commands, Artifacts
    <3>. HIDE DEF wanted
    <3>2. /\ command \in Commands /\ command.pc = "download" /\ command.open = {}
          /\ command.previous = task[t].previous /\ command.content = task[t].content
          /\ command.runtime = task[t].runtime
      BY <1>1, <1>5, <1>6, <3>1 DEF Commands, ResolveRuntime, Running
    <3>3. task' = [task EXCEPT ![t] = command]
      BY <2>2 DEF wanted
    <3>4. \A f \in staging' : f \in staging /\ f[1] # t
      BY <1>4, <1>6 DEF ResolveRuntime, Running, Elsewhere
    <3>. HIDE DEF command
    <3>. QED
      BY <1>3, <1>6, <3>2, <3>3, <3>4 DEF ResolveRuntime, Elsewhere
  <2>. QED
    BY <1>6, <2>1, <2>2 DEF ResolveRuntime
<1>7. CASE OpenDownload(t, a)
  <2>. DEFINE command == [task[t] EXCEPT !.open = task[t].open \cup {a}]
  <2>1. /\ command \in Commands /\ command.pc = "download"
        /\ command.open = task[t].open \cup {a} /\ command.wanted = task[t].wanted
        /\ command.previous = task[t].previous /\ command.content = task[t].content
        /\ command.runtime = task[t].runtime
    BY <1>1, <1>7 DEF Commands, OpenDownload, Running
  <2>2. task' = [task EXCEPT ![t] = command] /\ a \in task[t].wanted
    BY <1>7 DEF OpenDownload
  <2>. HIDE DEF command
  <2>3. \A f \in staging' :
           \/ f \in staging /\ f[1] # t
           \/ \E b : f = <<t, b>> /\ command.pc = "download" /\ b \in command.open
    BY <1>4, <1>7, <2>1 DEF OpenDownload
  <2>. QED
    BY <1>3, <1>5, <1>7, <2>1, <2>2, <2>3 DEF OpenDownload, Running
<1>8. CASE ReceiveRight(t, a)
  <2>1. ASSUME Refuse(t), staging' = WithoutPartials(t), UNCHANGED <<rows, rotten>>
        PROVE  InstallInv'
    BY <1>8, <2>1, RefusedKeeps DEF ReceiveRight
  <2>2. ASSUME staging' = staging \ {<<t, a>>}, Activate(a),
               task' = [task EXCEPT ![t].open = task[t].open \ {a},
                                    ![t].wanted = task[t].wanted \ {a}]
        PROVE  InstallInv'
    <3>. DEFINE command == [task[t] EXCEPT !.open = task[t].open \ {a},
                                           !.wanted = task[t].wanted \ {a}]
    <3>1. /\ command \in Commands /\ command.pc = "download"
          /\ command.open = task[t].open \ {a} /\ command.wanted = task[t].wanted \ {a}
          /\ command.previous = task[t].previous /\ command.content = task[t].content
          /\ command.runtime = task[t].runtime
      BY <1>1, <1>8 DEF Commands, ReceiveRight, Running
    <3>2. task' = [task EXCEPT ![t] = command]
      BY <2>2
    <3>. HIDE DEF command
    <3>3. \A f \in staging' :
             \/ f \in staging /\ f[1] # t
             \/ \E b : f = <<t, b>> /\ command.pc = "download" /\ b \in command.open
      BY <1>4, <2>2, <3>1
    <3>. QED
      BY <1>3, <1>5, <1>8, <2>2, <3>1, <3>2, <3>3 DEF ReceiveRight, Running, Activate
  <2>. QED
    BY <1>8, <2>1, <2>2 DEF ReceiveRight
<1>9. CASE ReceiveWrong(t, a)
  BY <1>9, RefusedKeeps DEF ReceiveWrong
<1>10. CASE FetchComponent(t) \/ PrepareRevision(t)
  <2>1. task[t].pc \in {"download", "prepare"} /\ (task[t].pc = "download" => task[t].open = {})
    BY <1>5, <1>10 DEF FetchComponent, PrepareRevision, Running
  <2>2. UNCHANGED <<revisions, active, projection, broken, staging, trusted, harm, rotten>>
    BY <1>10 DEF FetchComponent, PrepareRevision, Activate, Elsewhere
  <2>3. ASSUME Refuse(t) PROVE InstallInv'
    BY <2>1, <2>2, <2>3, RefusedKeeps
  <2>4. ASSUME NEW step \in {"prepare", "commit"}, NEW row \in QueryRows,
               task' = [task EXCEPT ![t].pc = step, ![t].projection = row]
        PROVE  InstallInv'
    <3>. DEFINE command == [task[t] EXCEPT !.pc = step, !.projection = row]
    <3>1. /\ command \in Commands /\ command.pc \in {"prepare", "commit"}
          /\ command.previous = task[t].previous /\ command.content = task[t].content
          /\ command.runtime = task[t].runtime
      BY <1>1 DEF Commands
    <3>2. task' = [task EXCEPT ![t] = command]
      BY <2>4
    <3>. HIDE DEF command
    <3>3. \A f \in staging' : f \in staging /\ f[1] # t
      BY <1>4, <2>1, <2>2
    <3>. QED
      BY <1>3, <2>2, <3>1, <3>2, <3>3
  <2>5. ASSUME task' = [task EXCEPT ![t].pc = "prepare"] PROVE InstallInv'
    <3>1. [task[t] EXCEPT !.pc = "prepare"] =
             [task[t] EXCEPT !.pc = "prepare", !.projection = task[t].projection]
      BY <1>1 DEF Commands
    <3>2. task' = [task EXCEPT ![t].pc = "prepare", ![t].projection = task[t].projection]
      BY <2>5, <3>1
    <3>3. task[t].projection \in QueryRows
      BY <1>1 DEF Commands
    <3>. QED
      BY <2>4, <3>2, <3>3
  <2>6. projection \in QueryRows
    BY DEF ProfileFits
  <2>. QED
    BY <1>10, <2>3, <2>4, <2>5, <2>6 DEF FetchComponent, PrepareRevision
<1>. QED
  BY <1>6, <1>7, <1>8, <1>9, <1>10

\* A revision that is published is copied from files that are right.
LEMMA PublishedKeeps ==
    ASSUME InstallInv, NEW rev \in Committed, ItemsOf(rev) \cap rotten = {}, Publish(rev),
           UNCHANGED <<rotten, trusted, harm>>
    PROVE  /\ ProfileFits' /\ DamageIsKnown'
           /\ active' = active + 1 /\ Current' = rev /\ projection' # None
<1>. ProfileFits /\ DamageIsKnown
  BY DEF InstallInv
<1>1. /\ revisions' = Append(revisions, rev) /\ active' = Len(revisions) + 1
      /\ broken' = broken
  BY DEF Publish
<1>2. /\ Len(revisions) \in Nat /\ active = Len(revisions)
      /\ revisions' \in Seq(Committed) /\ Len(revisions') = Len(revisions) + 1
      /\ revisions' # <<>> /\ revisions'[Len(revisions) + 1] = rev
      /\ \A i \in DOMAIN revisions : i \in DOMAIN revisions' /\ revisions'[i] = revisions[i]
  BY <1>1 DEF ProfileFits
<1>3. projection' \in [revision : Nat, component : Components \cup {FALSE}]
  <2>1. rev.component \in Components \cup {FALSE}
    BY DEF Committed, Switches
  <2>2. projection' = [revision |-> Len(revisions) + 1, component |-> rev.component]
    BY DEF Publish
  <2>3. Len(revisions) + 1 \in Nat
    BY <1>2
  <2>. QED
    BY <2>1, <2>2, <2>3
<1>4. DamageIsKnown'
  BY <1>1, <1>2 DEF DamageIsKnown, ItemsOf, Items
<1>. QED
  BY <1>1, <1>2, <1>3, <1>4, ProjectionAssumption DEF ProfileFits, QueryRows, Switches, Current

LEMMA CommitKeeps ==
    ASSUME InstallInv, NEW t \in Tasks, CommitInstall(t) PROVE InstallInv'
<1>. ProfileFits /\ TasksFit /\ PartialsFit /\ ContentFits
  BY DEF InstallInv
<1>1. task[t] \in Commands /\ task[t].pc = "commit"
  BY CommandsByStage DEF CommitInstall, Running
<1>2. ASSUME Refuse(t), UNCHANGED <<revisions, active, projection, broken>>
      PROVE  InstallInv'
  BY <1>1, <1>2, RefusedKeeps DEF CommitInstall
<1>3. ASSUME CanCopy(Items(task[t].runtime, task[t].component)),
             Publish([runtime |-> task[t].runtime, component |-> task[t].component,
                      content |-> task[t].content]),
             task' = [task EXCEPT ![t] = Ended]
      PROVE  InstallInv'
  <2>. DEFINE rev == [runtime |-> task[t].runtime, component |-> task[t].component,
                      content |-> task[t].content]
  <2>1. rev \in Committed
    BY <1>1 DEF Commands, Committed
  <2>2. ItemsOf(rev) \cap rotten = {}
    BY <1>3 DEF ItemsOf, CanCopy
  <2>. HIDE DEF rev
  <2>3. Publish(rev)
    BY <1>3 DEF rev
  <2>4. /\ ProfileFits' /\ DamageIsKnown'
        /\ active' = active + 1 /\ projection' # None
    BY <2>1, <2>2, <2>3, PublishedKeeps DEF CommitInstall
  <2>5. /\ \A u \in Tasks : task'[u] = IF u = t THEN Ended ELSE task[u]
        /\ TasksFit'
    BY <1>3 DEF TasksFit
  <2>6. PartialsFit'
    BY <1>1, <2>5, EndedFits DEF PartialsFit, CommitInstall
  <2>7. ContentFits'
    <3>1. ASSUME NEW u \in Tasks PROVE Carries(u)'
      <4>1. CASE u = t
        BY <2>5, <4>1, EndedFits DEF Carries
      <4>2. CASE u # t
        <5>1. task[u].pc \notin {"idle", "ended"} => task[u].previous <= active /\ task[u].previous \in Nat
          BY CommandsByStage DEF ContentFits, Carries, Commands
        <5>2. active \in Nat
          BY CurrentFits
        <5>. QED
          BY <2>4, <2>5, <4>2, <5>1, <5>2 DEF Carries
      <4>. QED
        BY <4>1, <4>2
    <3>. QED
      BY <2>4, <3>1 DEF ContentFits
  <2>. QED
    BY <2>4, <2>5, <2>6, <2>7 DEF InstallInv
<1>. QED
  BY <1>2, <1>3 DEF CommitInstall

LEMMA OtherCommitKeeps ==
    ASSUME InstallInv, NEW content \in Contents, CommitOther(content) PROVE InstallInv'
<1>. ProfileFits /\ TasksFit /\ PartialsFit /\ ContentFits
  BY DEF InstallInv
<1>. DEFINE rev == [Current EXCEPT !.content = content]
<1>1. rev \in Committed /\ rev.runtime = Current.runtime /\ rev.component = Current.component
  BY CurrentFits DEF Committed, MaybeLocks
<1>2. Publish(rev)
  BY DEF CommitOther
<1>. HIDE DEF rev
<1>3. ItemsOf(rev) \cap rotten = {}
  BY <1>1 DEF CommitOther, CanCopy, ItemsOf
<1>4. /\ ProfileFits' /\ DamageIsKnown'
      /\ active' = active + 1 /\ projection' # None
  BY <1>1, <1>2, <1>3, PublishedKeeps DEF CommitOther
<1>5. task' = task /\ staging' = staging
  BY DEF CommitOther
<1>6. ASSUME NEW u \in Tasks PROVE Carries(u)'
  <2>1. task[u].pc \notin {"idle", "ended"} => task[u].previous <= active /\ task[u].previous \in Nat
    BY CommandsByStage DEF ContentFits, Carries, Commands
  <2>2. active \in Nat
    BY CurrentFits
  <2>. QED
    BY <1>4, <1>5, <2>1, <2>2 DEF Carries
<1>. QED
  BY <1>4, <1>5, <1>6 DEF InstallInv, TasksFit, PartialsFit, ContentFits

\* Neither a verification nor damage touches the profile or its commands.
LEMMA OnlyFiles ==
    ASSUME InstallInv, DamageIsKnown',
           UNCHANGED <<revisions, active, projection, staging, task>>
    PROVE  InstallInv'
<1>1. Current' = Current
  BY DEF Current
<1>. QED
  BY <1>1, SameProfile DEF InstallInv, TasksFit, PartialsFit, ContentFits, Carries

LEMMA VerifyKeeps == ASSUME InstallInv, VerifyRevision PROVE InstallInv'
<1>. DamageIsKnown
  BY DEF InstallInv
<1>1. UNCHANGED <<revisions, active, projection, staging, task, broken, rotten, harm>>
      /\ trusted' = trusted \cup {active}
  BY DEF VerifyRevision
<1>2. ASSUME NEW f \in broken, f[1] \in trusted' PROVE f[1] \in trusted
  <2>1. CASE f[1] = active
    BY <2>1 DEF VerifyRevision, DamageIsKnown, Current
  <2>. QED
    BY <1>1, <1>2, <2>1
<1>3. DamageIsKnown'
  BY <1>1, <1>2 DEF DamageIsKnown, ItemsOf, Items
<1>. QED
  BY <1>1, <1>3, OnlyFiles

LEMMA HarmKeeps ==
    ASSUME InstallInv, NEW a, HarmCache(a) \/ HarmFile(a) PROVE InstallInv'
<1>. DamageIsKnown /\ ProfileFits
  BY DEF InstallInv
<1>1. CASE HarmCache(a)
  <2>1. harm' = harm \cup {<<0, a, 0 \in trusted>>} /\ rotten' = rotten \cup {a}
        /\ UNCHANGED <<revisions, active, projection, broken, staging, task, trusted>>
    BY <1>1 DEF HarmCache, Harmed
  <2>2. (0 \in trusted) \in BOOLEAN
    OBVIOUS
  <2>3. DamageIsKnown'
    BY <2>1, <2>2 DEF DamageIsKnown, ItemsOf, Items
  <2>. QED
    BY <2>1, <2>3, OnlyFiles
<1>2. CASE HarmFile(a)
  <2>1. /\ harm' = harm \cup {<<active, a, active \in trusted>>}
        /\ broken' = broken \cup {<<active, a>>} /\ a \in ItemsOf(Current)
        /\ UNCHANGED <<revisions, active, projection, rotten, staging, task, trusted>>
    BY <1>2 DEF HarmFile, Harmed
  <2>2. (active \in trusted) \in BOOLEAN /\ (active \in trusted => (active \in trusted) = TRUE)
    OBVIOUS
  <2>3. active \in DOMAIN revisions /\ a \in ItemsOf(revisions[active])
    BY <2>1, CurrentFits DEF Current
  <2>4. ASSUME NEW f \in broken'
        PROVE  /\ f = <<f[1], f[2]>>
               /\ f[1] \in DOMAIN revisions /\ f[2] \in ItemsOf(revisions[f[1]])
               /\ \E b \in BOOLEAN : <<f[1], f[2], b>> \in harm'
               /\ f[1] \in trusted => <<f[1], f[2], TRUE>> \in harm'
    <3>1. CASE f = <<active, a>>
      BY <2>1, <2>2, <2>3, <3>1
    <3>2. CASE f \in broken
      BY <2>1, <3>2 DEF DamageIsKnown
    <3>. QED
      BY <2>1, <3>1, <3>2
  <2>5. DamageIsKnown'
    BY <2>1, <2>4 DEF DamageIsKnown, ItemsOf, Items
  <2>. QED
    BY <2>1, <2>5, OnlyFiles
<1>. QED
  BY <1>1, <1>2

LEMMA InstallStep == InstallInv /\ [InstallNext]_installVars => InstallInv'
<1>. SUFFICES ASSUME InstallInv, [InstallNext]_installVars PROVE InstallInv'
  OBVIOUS
<1>1. ASSUME NEW t \in Tasks,
             \/ \E r \in Runtimes, c \in Components : BeginInstall(t, r, c)
             \/ \E c \in Components : BeginChange(t, c)
             \/ BeginRepair(t)
      PROVE  InstallInv'
  BY <1>1, InstallBegins
<1>2. ASSUME NEW t \in Tasks, NEW a \in DOMAIN Sizes,
             OpenDownload(t, a) \/ ReceiveRight(t, a) \/ ReceiveWrong(t, a)
      PROVE  InstallInv'
  BY <1>2, DownloadStep
<1>3. ASSUME NEW t \in Tasks, ResolveRuntime(t) \/ FetchComponent(t) \/ PrepareRevision(t)
      PROVE  InstallInv'
  BY <1>3, DownloadStep
<1>4. ASSUME NEW t \in Tasks, CommitInstall(t) PROVE InstallInv'
  BY <1>4, CommitKeeps
<1>5. ASSUME NEW c \in Contents, CommitOther(c) PROVE InstallInv'
  BY <1>5, OtherCommitKeeps
<1>6. CASE VerifyRevision
  BY <1>6, VerifyKeeps
<1>7. ASSUME NEW a \in DOMAIN Sizes, HarmCache(a) \/ HarmFile(a) PROVE InstallInv'
  BY <1>7, HarmKeeps
<1>8. CASE UNCHANGED installVars
  <2>1. UNCHANGED <<revisions, active, projection, rotten, broken, staging, task, trusted, harm>>
    BY <1>8 DEF installVars
  <2>2. DamageIsKnown'
    BY <2>1, SameFiles DEF InstallInv
  <2>. QED
    BY <2>1, <2>2, OnlyFiles
<1>. QED
  BY <1>1, <1>2, <1>3, <1>4, <1>5, <1>6, <1>7, <1>8 DEF InstallNext

LEMMA InstalledAreWhole == InstallInv => InstalledIsWhole
BY DEF InstallInv, DamageIsKnown, PartialsFit, InstalledIsWhole

\* The step that commits an installation, or anything else, as far as the
\* content of the profile is concerned.
LEMMA ContentStep ==
    ASSUME InstallInv, [InstallNext]_installVars, NEW t \in Tasks,
           task[t].pc = "commit", task'[t] = Ended, active' # active,
           Current.content # None
    PROVE  /\ revisions'[active'].content = Current.content
           /\ revisions'[active'].runtime = Current.runtime
<1>. ProfileFits /\ TasksFit /\ ContentFits
  BY DEF InstallInv
<1>1. task[t] \in Commands /\ task[t] # Ended
  BY CommandsByStage
<1>2. PICK u \in Tasks : CommitInstall(u)
  <2>1. ~UNCHANGED Elsewhere /\ ~UNCHANGED <<revisions, active, projection>> /\ ~UNCHANGED task
    BY <1>1 DEF Elsewhere
  <2>2. \A c : ~CommitOther(c)
    BY <2>1 DEF CommitOther
  <2>3. \A u, r, c : ~BeginInstall(u, r, c) /\ ~BeginChange(u, c) /\ ~BeginRepair(u)
    BY <2>1 DEF BeginInstall, BeginChange, BeginRepair
  <2>4. \A u, a : /\ ~ResolveRuntime(u) /\ ~OpenDownload(u, a) /\ ~ReceiveRight(u, a)
                  /\ ~ReceiveWrong(u, a) /\ ~FetchComponent(u) /\ ~PrepareRevision(u)
    BY <2>1 DEF ResolveRuntime, OpenDownload, ReceiveRight, ReceiveWrong, FetchComponent,
                PrepareRevision
  <2>5. ~VerifyRevision /\ (\A a : ~HarmCache(a) /\ ~HarmFile(a)) /\ ~UNCHANGED installVars
    BY <2>1 DEF VerifyRevision, HarmCache, HarmFile, installVars
  <2>. QED
    BY <2>2, <2>3, <2>4, <2>5 DEF InstallNext
<1>. DEFINE rev == [runtime |-> task[u].runtime, component |-> task[u].component,
                    content |-> task[u].content]
<1>3. CanPlan(u) /\ Publish(rev) /\ task' = [task EXCEPT ![u] = Ended]
      /\ task[u].pc = "commit"
  BY <1>2 DEF CommitInstall, Running
<1>4. task[u].content = Current.content /\ task[u].runtime = Current.runtime
  BY <1>3 DEF CanPlan, ContentFits, Carries
<1>5. rev.content = task[u].content /\ rev.runtime = task[u].runtime
  OBVIOUS
<1>. HIDE DEF rev
<1>6. revisions' = Append(revisions, rev) /\ active' = Len(revisions) + 1
  BY <1>3 DEF Publish
<1>7. revisions'[active'] = rev
  BY <1>6 DEF ProfileFits
<1>. QED
  BY <1>4, <1>5, <1>7

-----------------------------------------------------------------------------
LEMMA FilesInvariant ==
    ASSUME NEW locks
    PROVE  FilesSpec(locks) => [](NativesInv /\ JavaInv /\ InstallInv)
<1>1. NativesInit(locks) => NativesInv
  BY NativesStart
<1>. QED
  BY <1>1, NativesStep, JavaStart, JavaStep, InstallStart, InstallStep, PTL DEF FilesSpec

\* What a launch takes on trust is whole: the natives a mark speaks for, the
\* revision a marker speaks for, the Java a probe is remembered of.  Covers
\* prepare_native_cache, verify_revision_runtime, activate_verified_copy,
\* resolve and ensure_managed_executable.
THEOREM UsedFilesStayWhole ==
    ASSUME NEW locks PROVE FilesSpec(locks) => []UsedFilesAreWhole
<1>1. NativesInv /\ JavaInv /\ InstallInv => UsedFilesAreWhole
  BY NativesAreComplete, InstalledAreWhole
     DEF JavaInv, DiskFits, CallersFit, JavaIsProbed, UsedFilesAreWhole
<1>. QED
  BY <1>1, FilesInvariant, PTL

\* Whatever was committed while a command was under way, its own commit keeps
\* the content of the revision it replaces, on the runtime of that content.
\* Covers resolve_and_download, prepare_revision and plan_profile_operation.
THEOREM InstallationsKeepContent ==
    ASSUME NEW locks PROVE FilesSpec(locks) => InstallKeepsContent
<1>. DEFINE Keeps == \A t \in Tasks :
                        task[t].pc = "commit" /\ task'[t] = Ended /\ active' # active =>
                           LET old == Current
                               new == revisions'[active']
                           IN  old.content # None =>
                                  /\ new.content = old.content
                                  /\ new.runtime = old.runtime
<1>1. InstallInv /\ [InstallNext]_installVars => [Keeps]_installVars
  BY ContentStep
<1>2. InstallKeepsContent <=> [][Keeps]_installVars
  BY DEF InstallKeepsContent
<1>. HIDE DEF Keeps
<1>. QED
  BY <1>1, <1>2, FilesInvariant, PTL DEF FilesSpec
-----------------------------------------------------------------------------
(* The content lock *)

Selections  == [id : Ids, req : SUBSET AllVersions, enabled : BOOLEAN]
Memberships == [pack : Ids, id : Ids, ver : AllVersions, default : BOOLEAN, owns : BOOLEAN]

IsLock(l) == l = [requested |-> l.requested, optional |-> l.optional, items |-> l.items,
                  members |-> l.members, overrides |-> l.overrides]

\* A release or an item is of a version that exists, and needs no pack.
Exists(x) == \E w \in World : w.id = x.id /\ w.ver = x.ver
Known(x)  == Exists(x) /\ \A d \in x.deps : ~IsPack[d.id]
AllKnown(xs) == \A x \in xs : Known(x)

\* A pack is selected in one version; its members are contents of projects.
PacksArePinned(selections) ==
    \A s \in selections : IsPack[s.id] => \E v \in AllVersions : s.req = {v}
FromProjects(members) ==
    \A m \in members : ~IsPack[m.id] /\ \A w \in World : w.id = m.id => ~w.local

\* The override files are those of the installed packs.
OverridesOf(it) == {[pack |-> it.id, target |-> f] : f \in TheVersion(it.id, it.ver).files}
OverridesFit(l) == l.overrides = UNION {OverridesOf(it) : it \in l.items}

SoundLock(l) ==
    /\ IsLock(l) /\ ValidLock(l) /\ AllKnown(l.items)
    /\ l.requested \subseteq Selections /\ PacksArePinned(l.requested)
    /\ l.members \subseteq Memberships /\ FromProjects(l.members)
    /\ OverridesFit(l)

\* A member has an owner among the packs exactly while the user has said
\* nothing about it.
OwnersFit(members, said) ==
    \A i \in IdsOf(members) : Owned(members, i) <=> said[i] = "none"
SelectionsFit(selections, members, said) ==
    /\ IdsOf(selections) = {i \in Ids : said[i] # "none"} \cup IdsOf(members)
    /\ \A s \in selections : said[s.id] = "on" => s.enabled

Words   == {"none", "on", "off"}
Fits(l, said) ==
    /\ SoundLock(l) /\ said \in [Ids -> Words]
    /\ SelectionsFit(l.requested, l.members, said)
    /\ OwnersFit(l.members, said)

-----------------------------------------------------------------------------
(* Versions and releases *)

LEMMA TheVersionIsIt ==
  ASSUME NEW w \in World
  PROVE  TheVersion(w.id, w.ver) = w
BY WorldAssumption DEF TheVersion

LEMMA ExistingVersion ==
  ASSUME NEW x, Exists(x)
  PROVE  /\ TheVersion(x.id, x.ver) \in World
         /\ TheVersion(x.id, x.ver).id = x.id /\ TheVersion(x.id, x.ver).ver = x.ver
         /\ x.id \in Ids /\ x.ver \in AllVersions
BY WorldAssumption DEF TheVersion, Exists, AllVersions

LEMMA OnlyPacksHaveFiles ==
  ASSUME NEW x, Exists(x), ~IsPack[x.id]
  PROVE  OverridesOf(x) = {}
BY ExistingVersion, WorldAssumption DEF OverridesOf

LEMMA LockReleasesKnown ==
  ASSUME NEW l, AllKnown(l.items)
  PROVE  AllKnown(ReleasesFromLock(l))
<1>. SUFFICES ASSUME NEW r \in ReleasesFromLock(l) PROVE Known(r)
  BY DEF AllKnown
<1>1. PICK it \in l.items : r = Release(it, it.deps, "runtime")
  BY DEF ReleasesFromLock
<1>. QED
  BY <1>1 DEF AllKnown, Known, Exists, Release

LEMMA GraphReleasesKnown ==
  ASSUME NEW w \in World, NEW releases \in DownloadGraph(w)
  PROVE  AllKnown(releases)
<1>1. PICK graph \in SUBSET World :
        releases = {Downloaded(x, GraphDependencies(x)) : x \in graph}
  BY DEF DownloadGraph, GraphFrom
<1>2. ASSUME NEW x \in World PROVE Known(Downloaded(x, GraphDependencies(x)))
  BY WorldAssumption DEF Known, Exists, Downloaded, Release, GraphDependencies
<1>. QED
  BY <1>1, <1>2 DEF AllKnown

LEMMA PinnedReleaseKnown ==
  ASSUME NEW w \in World
  PROVE  Known(Downloaded(w, PinnedDependencies(w))) /\ Known(Downloaded(w, {}))
BY WorldAssumption DEF Known, Exists, Downloaded, Release, PinnedDependencies

LEMMA LocalReleaseKnown ==
  ASSUME NEW w \in World
  PROVE  Known(Release(w, {}, "runtime"))
BY DEF Known, Exists, Release

-----------------------------------------------------------------------------
(* Resolutions *)

LEMMA PlacedAreKnown ==
  ASSUME NEW releases, AllKnown(releases), NEW items \in SUBSET Placements(releases)
  PROVE  AllKnown(items)
<1>. SUFFICES ASSUME NEW it \in items PROVE Known(it)
  BY DEF AllKnown
<1>1. PICK r \in releases, on \in BOOLEAN : it = Item(r, on)
  BY DEF Placements
<1>. QED
  BY <1>1 DEF AllKnown, Known, Exists, Item

LEMMA PlacedAreOffered ==
  ASSUME NEW catalog, NEW disabled, NEW items
  PROVE  PlaceDisabled(catalog, disabled, items) \subseteq SUBSET Placements(catalog)
BY Zenon DEF PlaceDisabled

LEMMA ResolutionShape ==
  ASSUME NEW request, NEW releases, NEW next \in ResolveContent(request, releases)
  PROVE  /\ IsLock(next) /\ next.requested = request.requested
         /\ next.items \in SUBSET Placements(releases)
         /\ next.members = {} /\ next.overrides = {}
<1>1. PICK items \in SUBSET Placements(releases) :
        next = [requested |-> request.requested, optional |-> request.optional,
                items |-> items, members |-> {}, overrides |-> {}]
  <2>1. PICK chosen :
          next \in {[requested |-> request.requested, optional |-> request.optional,
                     items |-> items, members |-> {}, overrides |-> {}] :
                        items \in PlaceDisabled(releases, request.requested \ Roots(request),
                                                {Item(c, TRUE) : c \in chosen})}
    BY Zenon DEF ResolveContent
  <2>. QED
    <3>. DEFINE Chosen == {Item(c, TRUE) : c \in chosen}
                Off    == request.requested \ Roots(request)
    <3>1. PICK items \in PlaceDisabled(releases, Off, Chosen) :
            next = [requested |-> request.requested, optional |-> request.optional,
                    items |-> items, members |-> {}, overrides |-> {}]
      BY <2>1
    <3>. HIDE DEF Chosen, Off
    <3>2. items \in SUBSET Placements(releases)
      BY <3>1, PlacedAreOffered
    <3>. QED
      BY <3>1, <3>2
<1>. QED
  BY <1>1 DEF IsLock

\* resolve_next_content, with and without what the packs have brought; what
\* it keeps of the memberships and overrides.
NextKeeping(have, requested, added) == ResolveNext(have, requested, added, TRUE)
NextBare(have, requested, added)    == ResolveNext(have, requested, added, FALSE)
KeptMembers(l, next)   == {m \in l.members : {m.pack, m.id} \subseteq IdsOf(next.items)}
KeptOverrides(l, next) == {o \in l.overrides : o.pack \in IdsOf(next.items)}

Names(next, requested) ==
    IsLock(next) /\ next.requested = requested /\ AllKnown(next.items)
Resolves(have, next, requested) ==
    /\ Names(next, requested)
    /\ next.members = KeptMembers(have, next)
    /\ next.overrides = KeptOverrides(have, next)

LEMMA KeptShape ==
  ASSUME NEW have, AllKnown(have.items), NEW requested, NEW added, AllKnown(added),
         NEW next \in NextKeeping(have, requested, added)
  PROVE  Resolves(have, next, requested)
<1>. DEFINE Request == [requested |-> requested, optional |-> have.optional]
            Catalog == ReleasesFromLock(have) \cup added
<1>1. PICK found \in ResolveContent(Request, Catalog) :
        next = [found EXCEPT
                  !.members   = {m \in have.members : {m.pack, m.id} \subseteq IdsOf(found.items)},
                  !.overrides = {o \in have.overrides : o.pack \in IdsOf(found.items)}]
  BY DEF NextKeeping, ResolveNext
<1>2. found \in ResolveContent(Request, Catalog) =>
        /\ IsLock(found) /\ found.requested = Request.requested
        /\ found.items \in SUBSET Placements(Catalog)
  BY ResolutionShape
<1>3. AllKnown(found.items)
  BY <1>2, LockReleasesKnown, PlacedAreKnown DEF AllKnown
<1>. QED
  BY <1>1, <1>2, <1>3 DEF Resolves, Names, IsLock, KeptMembers, KeptOverrides

LEMMA BareShape ==
  ASSUME NEW have, AllKnown(have.items), NEW requested, NEW added, AllKnown(added),
         NEW next \in NextBare(have, requested, added)
  PROVE  Names(next, requested)
<1>. DEFINE Request == [requested |-> requested, optional |-> have.optional]
            Catalog == ReleasesFromLock(have) \cup added
<1>1. next \in ResolveContent(Request, Catalog)
  BY DEF NextBare, ResolveNext
<1>2. next \in ResolveContent(Request, Catalog) =>
        /\ IsLock(next) /\ next.requested = Request.requested
        /\ next.items \in SUBSET Placements(Catalog)
  BY ResolutionShape
<1>3. AllKnown(next.items)
  BY <1>1, <1>2, LockReleasesKnown, PlacedAreKnown DEF AllKnown
<1>. QED
  BY <1>1, <1>2, <1>3 DEF Names

-----------------------------------------------------------------------------
(* Packs and their files *)

\* No dependency names a pack, so nothing but a selection brings it.
LEMMA PacksAreSelected ==
  ASSUME NEW l, ValidLock(l), AllKnown(l.items), NEW it \in l.items, IsPack[it.id]
  PROVE  it.id \in IdsOf(l.requested)
<1>1. CASE ~it.enabled
  BY <1>1 DEF ValidLock, ReachabilityValid, IdsOf
<1>2. CASE it.enabled
  <2>. DEFINE ids == {i \in IdsOf(l.items) : ~IsPack[i] \/ i \in IdsOf(l.requested)}
  <2>1. ASSUME NEW s \in l.requested, s.enabled PROVE s.id \in ids
    BY <2>1 DEF ValidLock, SelectionsValid, IdsOf
  <2>2. ASSUME NEW x \in l.items PROVE IdsOf(ActiveDeps(l, x)) \subseteq ids
    <3>. SUFFICES ASSUME NEW d \in ActiveDeps(l, x) PROVE d.id \in ids
      BY DEF IdsOf
    <3>1. ~IsPack[d.id]
      BY DEF AllKnown, Known, ActiveDeps
    <3>2. d.id \in IdsOf(l.items)
      BY DEF ValidLock, DependenciesValid, IdsOf
    <3>. QED
      BY <3>1, <3>2
  <2>3. Closed(l, ids)
    BY <2>1, <2>2 DEF Closed
  <2>4. it.id \in ids
    BY <1>2, <2>3 DEF ValidLock, ReachabilityValid
  <2>. QED
    BY <2>4
<1>. QED
  BY <1>1, <1>2

LEMMA SelectedIsInstalled ==
  ASSUME NEW l, ValidLock(l)
  PROVE  /\ IdsOf(l.requested) \subseteq IdsOf(l.items)
         /\ \A s \in l.requested, it \in l.items : s.id = it.id => it.ver \in s.req
BY DEF ValidLock, SelectionsValid, TargetsValid, IdsOf

\* A pack that is selected as before is installed as before.
LEMMA PacksStay ==
  ASSUME NEW l, ValidLock(l), PacksArePinned(l.requested), NEW next, ValidLock(next),
         NEW s \in l.requested, NEW t \in next.requested, t.id = s.id, t.req = s.req,
         IsPack[s.id]
  PROVE  \E it \in l.items, x \in next.items :
            it.id = s.id /\ x.id = s.id /\ it.ver = x.ver
<1>1. PICK v : s.req = {v}
  BY DEF PacksArePinned
<1>2. PICK it \in l.items : it.id = s.id /\ it.ver \in s.req
  BY DEF ValidLock, SelectionsValid
<1>3. PICK x \in next.items : x.id = t.id /\ x.ver \in t.req
  BY DEF ValidLock, SelectionsValid
<1>. QED
  BY <1>1, <1>2, <1>3

LEMMA SameOverrides ==
  ASSUME NEW it, NEW x, it.id = x.id, it.ver = x.ver
  PROVE  OverridesOf(it) = OverridesOf(x)
BY DEF OverridesOf

\* Only packs have override files, and an item's carry its identifier.
LEMMA FilesArePacks ==
  ASSUME NEW it, Exists(it), NEW o \in OverridesOf(it)
  PROVE  o.pack = it.id /\ IsPack[it.id]
<1>1. o.pack = it.id
  BY DEF OverridesOf
<1>. QED
  BY <1>1, OnlyPacksHaveFiles

\* resolve_next_content keeps the overrides of the packs that stay, and those
\* are all there are.
LEMMA OverridesFollow ==
  ASSUME NEW l, SoundLock(l), NEW next, ValidLock(next), AllKnown(next.items),
         next.overrides = KeptOverrides(l, next),
         \A t \in next.requested : IsPack[t.id] =>
            \E s \in l.requested : s.id = t.id /\ s.req = t.req
  PROVE  OverridesFit(next)
<1>1. ASSUME NEW x \in next.items, IsPack[x.id]
      PROVE  \E it \in l.items : it.id = x.id /\ it.ver = x.ver
  <2>1. PICK t \in next.requested : t.id = x.id
    BY <1>1, PacksAreSelected DEF IdsOf
  <2>2. PICK s \in l.requested : s.id = t.id /\ s.req = t.req
    BY <1>1, <2>1
  <2>3. PICK it \in l.items, y \in next.items :
          it.id = s.id /\ y.id = s.id /\ it.ver = y.ver
    BY <1>1, <2>1, <2>2, PacksStay DEF SoundLock
  <2>4. x = y
    BY <2>1, <2>2, <2>3 DEF ValidLock, TargetsValid
  <2>. QED
    BY <2>1, <2>2, <2>3, <2>4
<1>2. ASSUME NEW x \in next.items, NEW o \in OverridesOf(x) PROVE o \in next.overrides
  <2>1. Exists(x)
    BY DEF AllKnown, Known
  <2>2. IsPack[x.id] /\ o.pack = x.id
    BY <2>1, FilesArePacks
  <2>3. PICK it \in l.items : it.id = x.id /\ it.ver = x.ver
    BY <1>1, <2>2
  <2>4. o \in l.overrides
    BY <2>3, SameOverrides DEF SoundLock, OverridesFit
  <2>. QED
    BY <2>2, <2>4 DEF IdsOf, KeptOverrides
<1>3. ASSUME NEW o \in next.overrides PROVE \E x \in next.items : o \in OverridesOf(x)
  <2>1. PICK it \in l.items : o \in OverridesOf(it)
    BY DEF SoundLock, OverridesFit, KeptOverrides
  <2>2. o.pack = it.id /\ IsPack[it.id]
    BY <2>1, FilesArePacks DEF SoundLock, AllKnown, Known
  <2>3. PICK x \in next.items : x.id = it.id
    BY <2>2 DEF IdsOf, KeptOverrides
  <2>4. PICK y \in l.items : y.id = x.id /\ y.ver = x.ver
    BY <1>1, <2>2, <2>3
  <2>5. y = it
    BY <2>3, <2>4 DEF SoundLock, ValidLock, TargetsValid
  <2>. QED
    BY <2>1, <2>4, <2>5, SameOverrides
<1>. QED
  BY <1>2, <1>3 DEF OverridesFit

\* What stays selected loses none of its memberships.
AreSelected(members, selections) ==
    \A m \in members : {m.pack, m.id} \subseteq IdsOf(selections)

LEMMA MembersStay ==
  ASSUME NEW l, NEW next, ValidLock(next), AreSelected(l.members, next.requested)
  PROVE  KeptMembers(l, next) = l.members
BY SelectedIsInstalled DEF KeptMembers, AreSelected

LEMMA MembersAreSelected ==
  ASSUME NEW l, ValidLock(l)
  PROVE  /\ AreSelected(l.members, l.requested)
         /\ \A m \in l.members :
               /\ m.pack # m.id /\ IsPack[m.pack]
               /\ \E it \in l.items : it.id = m.id /\ it.ver = m.ver
BY DEF ValidLock, MembersValid, Selected, IdsOf, AreSelected

-----------------------------------------------------------------------------
(* reconcile_pack_member_selections *)

Mine(members, i)     == {m \in members : m.id = i}
Demanded(members, requested, i) ==
    \E m \in Mine(members, i) : m.default /\ \E s \in requested : s.id = m.pack /\ s.enabled
Reconciled(s, requested, members) ==
    IF Mine(members, s.id) = {} THEN s
    ELSE Select(s.id, {m.ver : m \in Mine(members, s.id)},
                (~Owned(members, s.id) /\ s.enabled) \/ Demanded(members, requested, s.id))

LEMMA ReconciledSelection ==
  ASSUME NEW s \in Selections, NEW requested, NEW members \in SUBSET Memberships
  PROVE  LET t == Reconciled(s, requested, members) IN
         /\ t \in Selections /\ t.id = s.id
         /\ s.id \notin IdsOf(members) => t = s
         /\ s.id \in IdsOf(members) => t.req = {m.ver : m \in Mine(members, s.id)}
         /\ s.enabled /\ ~Owned(members, s.id) => t.enabled
<1>. DEFINE t == Reconciled(s, requested, members)
<1>1. CASE Mine(members, s.id) = {}
  BY <1>1 DEF Reconciled, Mine, IdsOf
<1>2. CASE Mine(members, s.id) # {}
  <2>. DEFINE req == {m.ver : m \in Mine(members, s.id)}
              on  == (~Owned(members, s.id) /\ s.enabled) \/ Demanded(members, requested, s.id)
  <2>1. t = [id |-> s.id, req |-> req, enabled |-> on]
    BY <1>2 DEF Reconciled, Select
  <2>2. req \in SUBSET AllVersions
    BY DEF Mine, Memberships
  <2>3. on \in BOOLEAN
    BY DEF Owned, Demanded
  <2>4. t \in Selections
    BY <2>1, <2>2, <2>3 DEF Selections
  <2>5. s.id \in IdsOf(members)
    BY <1>2 DEF Mine, IdsOf
  <2>6. t.id = s.id /\ t.req = req /\ t.enabled = on
    BY <2>1
  <2>7. s.enabled /\ ~Owned(members, s.id) => t.enabled
    BY <2>6
  <2>. QED
    BY <2>4, <2>5, <2>6, <2>7
<1>. QED
  BY <1>1, <1>2

AllReconciled(requested, members) == {Reconciled(s, requested, members) : s \in requested}

LEMMA ReconciledSelections ==
  ASSUME NEW requested \in SUBSET Selections, NEW members \in SUBSET Memberships,
         NEW next \in ReconcileMembers(requested, members)
  PROVE  /\ next = AllReconciled(requested, members)
         /\ next \in SUBSET Selections /\ IdsOf(next) = IdsOf(requested)
         /\ IdsOf(members) \subseteq IdsOf(requested)
         /\ \A m, n \in members : m.id = n.id /\ m # n => m.ver = n.ver /\ ~(m.owns /\ n.owns)
<1>1. /\ next = AllReconciled(requested, members)
      /\ IdsOf(members) \subseteq IdsOf(requested)
      /\ \A m, n \in members : m.id = n.id /\ m # n => m.ver = n.ver /\ ~(m.owns /\ n.owns)
  BY DEF ReconcileMembers, AllReconciled, Reconciled, Mine, Owned, Demanded
<1>2. \A s \in requested : /\ Reconciled(s, requested, members) \in Selections
                           /\ Reconciled(s, requested, members).id = s.id
  BY ReconciledSelection
<1>3. next \in SUBSET Selections
  BY <1>1, <1>2 DEF AllReconciled
<1>4. IdsOf(next) = IdsOf(requested)
  BY <1>1, <1>2 DEF IdsOf, AllReconciled
<1>. QED
  BY <1>1, <1>3, <1>4

\* What the user wants on stays on.
LEMMA ReconciledKeepsOn ==
  ASSUME NEW requested \in SUBSET Selections, NEW members \in SUBSET Memberships,
         NEW next \in ReconcileMembers(requested, members),
         NEW said \in [Ids -> Words], OwnersFit(members, said),
         \A s \in requested : said[s.id] = "on" => s.enabled
  PROVE  \A t \in next : said[t.id] = "on" => t.enabled
<1>. SUFFICES ASSUME NEW t \in next, said[t.id] = "on" PROVE t.enabled
  OBVIOUS
<1>1. PICK s \in requested : t = Reconciled(s, requested, members)
  BY ReconciledSelections DEF AllReconciled
<1>2. t.id = s.id /\ (s.enabled /\ ~Owned(members, s.id) => t.enabled)
  BY <1>1, ReconciledSelection
<1>3. ~Owned(members, s.id)
  BY <1>2 DEF Owned, OwnersFit, IdsOf
<1>. QED
  BY <1>2, <1>3

\* A pack keeps the selection it has.
LEMMA ReconciledKeepsPacks ==
  ASSUME NEW requested \in SUBSET Selections, NEW members \in SUBSET Memberships,
         FromProjects(members), NEW next \in ReconcileMembers(requested, members)
  PROVE  \A t \in next : IsPack[t.id] => t \in requested
<1>. SUFFICES ASSUME NEW t \in next PROVE IsPack[t.id] => t \in requested
  OBVIOUS
<1>1. PICK s \in requested : t = Reconciled(s, requested, members)
  BY ReconciledSelections DEF AllReconciled
<1>2. t.id = s.id /\ (s.id \notin IdsOf(members) => t = s)
  BY <1>1, ReconciledSelection
<1>. QED
  BY <1>2 DEF FromProjects, IdsOf

-----------------------------------------------------------------------------
(* The next lock of a command on one content *)

LEMMA VersionSelection ==
  ASSUME NEW w \in World, NEW on \in BOOLEAN
  PROVE  Select(w.id, {w.ver}, on) \in Selections
BY WorldAssumption DEF Select, Selections, AllVersions

\* The lock is sound when the resolution keeps the packs of the one before.
LEMMA SoundNext ==
  ASSUME NEW l, SoundLock(l), NEW next, IsLock(next), ValidLock(next), AllKnown(next.items),
         next.requested \in SUBSET Selections,
         \A t \in next.requested : IsPack[t.id] =>
            \E s \in l.requested : s.id = t.id /\ s.req = t.req,
         next.members \in SUBSET Memberships, FromProjects(next.members),
         next.overrides = KeptOverrides(l, next)
  PROVE  SoundLock(next)
<1>1. OverridesFit(next)
  BY OverridesFollow
<1>2. PacksArePinned(next.requested)
  BY DEF SoundLock, PacksArePinned
<1>. QED
  BY <1>1, <1>2 DEF SoundLock

LEMMA OthersAndOne ==
  ASSUME NEW requested, NEW s
  PROVE  IdsOf(Others(requested, s.id) \cup {s}) = IdsOf(requested) \cup {s.id}
BY DEF IdsOf, Others

Plain(w)    == ~IsPack[w.id]
Asked(l, w) == Others(l.requested, w.id) \cup {Select(w.id, {w.ver}, TRUE)}
Speaks(spoken, said, i) ==
    /\ spoken \in [Ids -> Words] /\ spoken[i] # "none"
    /\ \A j \in Ids : j # i => spoken[j] = said[j]

\* One version of content that is no pack and no member is selected, and stays.
LEMMA SelectOne ==
  ASSUME NEW l, NEW said, Fits(l, said), NEW w \in World, Plain(w),
         w.id \notin IdsOf(l.members), NEW added, AllKnown(added),
         NEW next \in NextKeeping(l, Asked(l, w), added), ValidLock(next),
         NEW spoken, Speaks(spoken, said, w.id)
  PROVE  Fits(next, spoken) /\ next.members = l.members /\ next.requested = Asked(l, w)
<1>. DEFINE one   == Select(w.id, {w.ver}, TRUE)
            asked == Others(l.requested, w.id) \cup {one}
<1>0. asked = Asked(l, w)
  BY DEF Asked
<1>. HIDE DEF one, asked
<1>1. /\ IsLock(next) /\ next.requested = asked /\ AllKnown(next.items)
      /\ next.members = KeptMembers(l, next) /\ next.overrides = KeptOverrides(l, next)
  <2>1. AllKnown(l.items)
    BY DEF Fits, SoundLock
  <2>2. Resolves(l, next, asked)
    BY <1>0, <2>1, KeptShape
  <2>. QED
    BY <2>2 DEF Resolves, Names
<1>2. w.id \in Ids /\ one.id = w.id /\ one.enabled /\ one \in Selections
  BY WorldAssumption, VersionSelection DEF Select, one
<1>3. IdsOf(asked) = IdsOf(l.requested) \cup {w.id}
  <2>1. IdsOf(Others(l.requested, one.id) \cup {one}) = IdsOf(l.requested) \cup {one.id}
    BY OthersAndOne
  <2>. QED
    BY <1>2, <2>1 DEF asked
<1>4. asked \in SUBSET Selections
  BY <1>2 DEF Fits, SoundLock, Others, asked
<1>5. next.members = l.members
  <2>1. AreSelected(l.members, l.requested)
    BY MembersAreSelected DEF Fits, SoundLock
  <2>2. AreSelected(l.members, next.requested)
    BY <1>1, <1>3, <2>1 DEF AreSelected
  <2>. QED
    BY <1>1, <2>2, MembersStay
<1>6. SoundLock(next)
  <2>1. \A t \in asked : IsPack[t.id] => t \in l.requested
    BY <1>2 DEF Others, Plain, asked
  <2>. QED
    BY <1>1, <1>4, <1>5, <2>1, SoundNext DEF Fits, SoundLock
<1>7. SelectionsFit(next.requested, next.members, spoken)
  <2>1. IdsOf(asked) = {i \in Ids : spoken[i] # "none"} \cup IdsOf(l.members)
    BY <1>2, <1>3 DEF Fits, SelectionsFit, Speaks
  <2>2. ASSUME NEW s \in asked, spoken[s.id] = "on" PROVE s.enabled
    <3>1. CASE s = one
      BY <1>2, <3>1
    <3>2. CASE s \in Others(l.requested, w.id)
      BY <2>2, <3>2 DEF Fits, SoundLock, SelectionsFit, Others, Selections, Speaks
    <3>. QED
      BY <3>1, <3>2 DEF asked
  <2>. QED
    BY <1>1, <1>5, <2>1, <2>2 DEF SelectionsFit
<1>8. OwnersFit(next.members, spoken)
  <2>1. \A m \in l.members : spoken[m.id] = said[m.id]
    BY DEF Fits, SoundLock, Memberships, IdsOf, Speaks
  <2>. QED
    BY <1>5, <2>1 DEF Fits, OwnersFit, IdsOf
<1>. QED
  BY <1>0, <1>1, <1>5, <1>6, <1>7, <1>8 DEF Fits, Speaks

-----------------------------------------------------------------------------
(* The next lock of the commands that move members *)

\* Whatever a command asks for and whichever memberships it leaves.
LEMMA NextFits ==
  ASSUME NEW next, IsLock(next), ValidLock(next), AllKnown(next.items), OverridesFit(next),
         NEW asked \in SUBSET Selections, PacksArePinned(asked),
         NEW members \in SUBSET Memberships, FromProjects(members), next.members = members,
         next.requested \in ReconcileMembers(asked, members),
         NEW spoken \in [Ids -> Words],
         SelectionsFit(asked, members, spoken), OwnersFit(members, spoken)
  PROVE  Fits(next, spoken)
<1>1. next.requested \in SUBSET Selections /\ IdsOf(next.requested) = IdsOf(asked)
  BY ReconciledSelections
<1>2. PacksArePinned(next.requested)
  <2>1. \A t \in next.requested : IsPack[t.id] => t \in asked
    BY ReconciledKeepsPacks
  <2>. QED
    BY <2>1 DEF PacksArePinned
<1>3. \A t \in next.requested : spoken[t.id] = "on" => t.enabled
  BY ReconciledKeepsOn DEF SelectionsFit
<1>. QED
  BY <1>1, <1>2, <1>3 DEF Fits, SoundLock, SelectionsFit

\* Taking a content from its packs.
Unowned(members, i) == {IF m.id = i THEN [m EXCEPT !.owns = FALSE] ELSE m : m \in members}

LEMMA UnownedMembers ==
  ASSUME NEW members \in SUBSET Memberships, FromProjects(members), NEW i
  PROVE  /\ Unowned(members, i) \in SUBSET Memberships /\ FromProjects(Unowned(members, i))
         /\ IdsOf(Unowned(members, i)) = IdsOf(members)
         /\ \A n \in Unowned(members, i) : \E m \in members : n.pack = m.pack /\ n.id = m.id
         /\ ~Owned(Unowned(members, i), i)
         /\ \A j : j # i => (Owned(Unowned(members, i), j) <=> Owned(members, j))
<1>. DEFINE free(m) == IF m.id = i THEN [m EXCEPT !.owns = FALSE] ELSE m
<1>1. \A m \in members :
        /\ free(m) \in Memberships /\ free(m).pack = m.pack /\ free(m).id = m.id
        /\ free(m).owns <=> m.owns /\ m.id # i
  BY DEF Memberships
<1>2. Unowned(members, i) = {free(m) : m \in members}
  BY DEF Unowned
<1>. HIDE DEF free
<1>3. Unowned(members, i) \in SUBSET Memberships
  BY <1>1, <1>2
<1>4. FromProjects(Unowned(members, i))
  BY <1>1, <1>2 DEF FromProjects
<1>5. IdsOf(Unowned(members, i)) = IdsOf(members)
  BY <1>1, <1>2 DEF IdsOf
<1>6. ~Owned(Unowned(members, i), i)
  BY <1>1, <1>2 DEF Owned
<1>7. ASSUME NEW j, j # i PROVE Owned(Unowned(members, i), j) <=> Owned(members, j)
  BY <1>1, <1>2, <1>7 DEF Owned
<1>8. \A n \in Unowned(members, i) : \E m \in members : n.pack = m.pack /\ n.id = m.id
  BY <1>1, <1>2
<1>. QED
  BY <1>3, <1>4, <1>5, <1>6, <1>7, <1>8

\* The selection set_enabled leaves.
Toggled(requested, it, on) ==
    LET old == {s \in requested : s.id = it.id} IN
    IF old = {} THEN Select(it.id, {it.ver}, on)
    ELSE [(CHOOSE s \in old : TRUE) EXCEPT !.enabled = on]

LEMMA ToggledSelection ==
  ASSUME NEW requested \in SUBSET Selections, NEW it, Exists(it), NEW on \in BOOLEAN
  PROVE  LET sel == Toggled(requested, it, on) IN
         /\ sel \in Selections /\ sel.id = it.id /\ sel.enabled = on
         /\ it.id \in IdsOf(requested) =>
               \E s \in requested : s.id = it.id /\ sel.req = s.req
<1>. DEFINE old == {s \in requested : s.id = it.id}
<1>1. CASE old = {}
  <2>1. Toggled(requested, it, on) = [id |-> it.id, req |-> {it.ver}, enabled |-> on]
    BY <1>1 DEF Toggled, Select
  <2>2. it.id \in Ids /\ it.ver \in AllVersions /\ it.id \notin IdsOf(requested)
    BY <1>1, ExistingVersion DEF IdsOf
  <2>. QED
    BY <2>1, <2>2 DEF Selections
<1>2. CASE old # {}
  <2>1. PICK s \in old : s = CHOOSE x \in old : TRUE
    BY <1>2
  <2>2. Toggled(requested, it, on) = [s EXCEPT !.enabled = on]
    BY <1>2, <2>1 DEF Toggled
  <2>3. s \in Selections /\ s.id = it.id /\ s \in requested
    BY <2>1
  <2>4. /\ [s EXCEPT !.enabled = on] \in Selections
        /\ [s EXCEPT !.enabled = on].id = s.id /\ [s EXCEPT !.enabled = on].req = s.req
        /\ [s EXCEPT !.enabled = on].enabled = on
    BY <2>3 DEF Selections
  <2>. QED
    BY <2>2, <2>3, <2>4
<1>. QED
  BY <1>1, <1>2

LEMMA ToggleFits ==
  ASSUME NEW l, NEW said, Fits(l, said), NEW it \in l.items, NEW on \in BOOLEAN,
         NEW next \in SetEnabled(l, it, on), ValidLock(next)
  PROVE  Fits(next, [said EXCEPT ![it.id] = IF on THEN "on" ELSE "off"])
<1>. DEFINE members == IF IsPack[it.id] THEN l.members ELSE Unowned(l.members, it.id)
            sel     == Toggled(l.requested, it, on)
            asked   == Others(l.requested, it.id) \cup {sel}
            spoken  == [said EXCEPT ![it.id] = IF on THEN "on" ELSE "off"]
<1>0. PICK requested \in ReconcileMembers(asked, members) :
        \E n \in NextKeeping(l, requested, {}) : next = [n EXCEPT !.members = members]
  <2>1. next \in UNION {{[n EXCEPT !.members = members] :
                            n \in ResolveNext(l, requested, {}, TRUE)} :
                        requested \in ReconcileMembers(asked, members)}
    BY DEF SetEnabled, Toggled, Unowned
  <2>. HIDE DEF asked, members
  <2>. QED
    BY <2>1 DEF NextKeeping
<1>1. PICK n \in NextKeeping(l, requested, {}) : next = [n EXCEPT !.members = members]
  BY <1>0
<1>2. SoundLock(l) /\ Exists(it) /\ AllKnown(l.items)
  BY DEF Fits, SoundLock, AllKnown, Known
<1>3. Resolves(l, n, requested)
  <2>1. AllKnown({})
    BY DEF AllKnown
  <2>. QED
    BY <1>2, <2>1, KeptShape
<1>4. /\ IsLock(next) /\ AllKnown(next.items) /\ next.requested = requested
      /\ next.members = members /\ next.overrides = KeptOverrides(l, next)
  <2>. HIDE DEF members
  <2>. QED
    BY <1>1, <1>3 DEF Resolves, Names, IsLock, KeptOverrides
<1>5. /\ sel \in Selections /\ sel.id = it.id /\ sel.enabled = on
      /\ it.id \in IdsOf(l.requested) => \E s \in l.requested : s.id = it.id /\ sel.req = s.req
  <2>1. l.requested \in SUBSET Selections /\ Exists(it)
    BY <1>2 DEF SoundLock
  <2>. QED
    BY ONLY <2>1, on \in BOOLEAN, ToggledSelection
<1>. HIDE DEF sel
<1>6. asked \in SUBSET Selections
  BY <1>2, <1>5 DEF SoundLock, Others
<1>7. IdsOf(asked) = IdsOf(l.requested) \cup {it.id}
  BY <1>5 DEF IdsOf, Others
<1>8. /\ members \in SUBSET Memberships /\ FromProjects(members)
      /\ IdsOf(members) = IdsOf(l.members)
  BY <1>2, UnownedMembers DEF SoundLock
<1>9. \A t \in asked : IsPack[t.id] => \E s \in l.requested : s.id = t.id /\ s.req = t.req
  <2>1. IsPack[it.id] => it.id \in IdsOf(l.requested)
    BY <1>2, PacksAreSelected DEF SoundLock
  <2>. QED
    BY <1>5, <2>1 DEF Others
<1>10. PacksArePinned(asked)
  BY <1>2, <1>9 DEF SoundLock, PacksArePinned
<1>11. OverridesFit(next)
  <2>1. \A t \in next.requested : IsPack[t.id] => t \in asked
    BY <1>1, <1>4, <1>6, <1>8, ReconciledKeepsPacks
  <2>. QED
    BY <1>2, <1>4, <1>9, <2>1, OverridesFollow
<1>12. spoken \in [Ids -> Words] /\ spoken[it.id] = (IF on THEN "on" ELSE "off")
  BY <1>2, ExistingVersion DEF Fits, Words
<1>13. SelectionsFit(asked, members, spoken)
  <2>1. IdsOf(asked) = {i \in Ids : spoken[i] # "none"} \cup IdsOf(members)
    <3>1. {i \in Ids : spoken[i] # "none"} = {i \in Ids : said[i] # "none"} \cup {it.id}
      BY <1>2, <1>12, ExistingVersion DEF Fits
    <3>. QED
      BY <1>7, <1>8, <3>1 DEF Fits, SelectionsFit
  <2>2. ASSUME NEW s \in asked, spoken[s.id] = "on" PROVE s.enabled
    <3>1. CASE s = sel
      BY <1>5, <1>12, <2>2, <3>1
    <3>2. CASE s \in Others(l.requested, it.id)
      BY <2>2, <3>2 DEF Fits, SoundLock, SelectionsFit, Others, Selections
    <3>. QED
      BY <3>1, <3>2
  <2>. QED
    BY <2>1, <2>2 DEF SelectionsFit
<1>14. OwnersFit(members, spoken)
  <2>. SUFFICES ASSUME NEW i \in IdsOf(members)
                PROVE  Owned(members, i) <=> spoken[i] = "none"
    BY DEF OwnersFit
  <2>1. Owned(l.members, i) <=> said[i] = "none"
    BY <1>8 DEF Fits, OwnersFit
  <2>2. i \in Ids
    BY <1>8 DEF IdsOf, Memberships
  <2>3. CASE i = it.id
    <3>1. ~IsPack[i]
      BY <1>8 DEF FromProjects, IdsOf
    <3>2. ~Owned(members, i)
      BY <1>2, <2>3, <3>1, UnownedMembers DEF SoundLock
    <3>. QED
      BY <1>12, <2>3, <3>2
  <2>4. CASE i # it.id
    <3>1. spoken[i] = said[i]
      BY <2>2, <2>4 DEF Fits
    <3>2. Owned(members, i) <=> Owned(l.members, i)
      BY <1>2, <2>4, UnownedMembers DEF SoundLock
    <3>. QED
      BY <2>1, <3>1, <3>2
  <2>. QED
    BY <2>3, <2>4
<1>. HIDE DEF asked, members, spoken
<1>15. Fits(next, spoken)
  BY <1>1, <1>4, <1>6, <1>8, <1>10, <1>11, <1>12, <1>13, <1>14, NextFits
<1>. QED
  BY <1>15 DEF spoken

\* install_modrinth takes no version of a member other than the packs'.
LEMMA InstallFits ==
  ASSUME NEW l, NEW said, Fits(l, said), NEW w \in World, Plain(w),
         NEW next \in InstallMod(l, w), ValidLock(next),
         NEW spoken, Speaks(spoken, said, w.id)
  PROVE  /\ Fits(next, spoken) /\ w.id \notin IdsOf(l.members)
         /\ next.members = l.members /\ next.requested = Asked(l, w)
<1>1. /\ ~\E it \in l.items : it.id = w.id /\ it.ver = w.ver
      /\ ~\E m \in MembersOf(l, w.id) : m.ver # w.ver
      /\ \E releases \in DownloadGraph(w) : next \in ResolveNext(l, Asked(l, w), releases, TRUE)
  BY DEF InstallMod, Asked
<1>2. w.id \notin IdsOf(l.members)
  BY <1>1, MembersAreSelected DEF Fits, SoundLock, MembersOf, IdsOf
<1>3. PICK releases \in DownloadGraph(w) : next \in NextKeeping(l, Asked(l, w), releases)
  BY <1>1 DEF NextKeeping
<1>4. AllKnown(releases)
  BY GraphReleasesKnown
<1>. QED
  BY <1>2, <1>3, <1>4, SelectOne

LEMMA AddFits ==
  ASSUME NEW l, NEW said, Fits(l, said), NEW w \in World, w.local, Plain(w),
         NEW next \in AddLocal(l, w), ValidLock(next)
  PROVE  Fits(next, [said EXCEPT ![w.id] = "on"])
<1>. DEFINE added  == {Release(w, {}, "runtime")}
            spoken == [said EXCEPT ![w.id] = "on"]
<1>1. next \in NextKeeping(l, Asked(l, w), added)
  BY DEF AddLocal, NextKeeping, Asked
<1>2. w.id \notin IdsOf(l.members)
  BY DEF Fits, SoundLock, FromProjects, IdsOf
<1>3. AllKnown(added)
  BY LocalReleaseKnown DEF AllKnown
<1>4. Speaks(spoken, said, w.id)
  BY WorldAssumption DEF Fits, Words, Speaks
<1>. HIDE DEF added, spoken
<1>5. Fits(next, spoken)
  BY <1>1, <1>2, <1>3, <1>4, SelectOne
<1>. QED
  BY <1>5 DEF spoken

-----------------------------------------------------------------------------
(* Ownership that passes on *)

LEMMA PassedMembers ==
  ASSUME NEW members \in SUBSET Memberships, FromProjects(members), NEW orphaned
  PROVE  /\ PassOn(members, orphaned) \in SUBSET Memberships
         /\ FromProjects(PassOn(members, orphaned))
         /\ IdsOf(PassOn(members, orphaned)) = IdsOf(members)
         /\ \A n \in PassOn(members, orphaned) : \E m \in members :
               n.pack = m.pack /\ n.id = m.id /\ n.ver = m.ver
         /\ \A i \in IdsOf(members) :
               Owned(PassOn(members, orphaned), i) <=> Owned(members, i) \/ i \in orphaned
<1>. DEFINE first(i) == First({n.pack : n \in {x \in members : x.id = i}})
            pass(m)  == [m EXCEPT !.owns = @ \/ (m.id \in orphaned /\ m.pack = first(m.id))]
            passed   == PassOn(members, orphaned)
<1>1. passed = {pass(m) : m \in members}
  BY DEF PassOn
<1>2. ASSUME NEW i \in IdsOf(members)
      PROVE  \E m \in members : m.id = i /\ m.pack = first(i)
  <2>. DEFINE packs == {n.pack : n \in {x \in members : x.id = i}}
  <2>1. packs \in SUBSET Ids /\ packs # {}
    BY DEF Memberships, IdsOf
  <2>2. First(packs) \in packs
    BY <2>1, RankAssumption DEF First
  <2>. QED
    BY <2>2
<1>. HIDE DEF first
<1>3. \A m \in members :
        /\ pass(m) \in Memberships
        /\ pass(m).pack = m.pack /\ pass(m).id = m.id /\ pass(m).ver = m.ver
        /\ pass(m).owns <=> (m.owns \/ (m.id \in orphaned /\ m.pack = first(m.id)))
  <2>. SUFFICES ASSUME NEW m \in members
       PROVE /\ pass(m) \in Memberships
             /\ pass(m).pack = m.pack /\ pass(m).id = m.id /\ pass(m).ver = m.ver
             /\ pass(m).owns <=> (m.owns \/ (m.id \in orphaned /\ m.pack = first(m.id)))
    OBVIOUS
  <2>1. \A on \in BOOLEAN :
           /\ [m EXCEPT !.owns = on] \in Memberships
           /\ [m EXCEPT !.owns = on].pack = m.pack /\ [m EXCEPT !.owns = on].id = m.id
           /\ [m EXCEPT !.owns = on].ver = m.ver /\ [m EXCEPT !.owns = on].owns = on
    BY DEF Memberships
  <2>. DEFINE on == m.owns \/ (m.id \in orphaned /\ m.pack = first(m.id))
  <2>2. on \in BOOLEAN
    OBVIOUS
  <2>3. pass(m) = [m EXCEPT !.owns = on]
    OBVIOUS
  <2>. HIDE DEF on, pass
  <2>4. /\ pass(m) \in Memberships /\ pass(m).owns = on
        /\ pass(m).pack = m.pack /\ pass(m).id = m.id /\ pass(m).ver = m.ver
    BY <2>1, <2>2, <2>3
  <2>. QED
    BY <2>4 DEF on
<1>. HIDE DEF pass
<1>4. passed \in SUBSET Memberships
  BY <1>1, <1>3
<1>5. FromProjects(passed)
  BY <1>1, <1>3 DEF FromProjects
<1>6. IdsOf(passed) = IdsOf(members)
  BY <1>1, <1>3 DEF IdsOf
<1>7. ASSUME NEW n \in passed
      PROVE  \E m \in members : n.pack = m.pack /\ n.id = m.id /\ n.ver = m.ver
  BY <1>1, <1>3
<1>8. ASSUME NEW i \in IdsOf(members)
      PROVE  Owned(passed, i) <=> Owned(members, i) \/ i \in orphaned
  <2>1. ASSUME Owned(passed, i) PROVE Owned(members, i) \/ i \in orphaned
    BY <1>1, <1>3, <2>1 DEF Owned
  <2>2. ASSUME Owned(members, i) PROVE Owned(passed, i)
    BY <1>1, <1>3, <2>2 DEF Owned
  <2>3. ASSUME i \in orphaned PROVE Owned(passed, i)
    <3>1. PICK m \in members : m.id = i /\ m.pack = first(i)
      BY <1>2
    <3>. QED
      BY <1>1, <1>3, <2>3, <3>1 DEF Owned
  <2>. QED
    BY <2>1, <2>2, <2>3
<1>. QED
  BY <1>4, <1>5, <1>6, <1>7, <1>8

-----------------------------------------------------------------------------
(* remove *)

\* The memberships that go with a removed item, and whose members stay or go.
Gone(l, it)    == {m \in l.members : IsPack[it.id] /\ m.pack = it.id}
Staying(l, it) == l.members \ Gone(l, it)
Dropped(l, it) == {it.id} \cup (Orphans(Gone(l, it)) \ IdsOf(Staying(l, it)))
Remaining(l, it) == {s \in l.requested : s.id \notin Dropped(l, it)}
Inherited(l, it) == PassOn(Staying(l, it), Orphans(Gone(l, it)))

LEMMA RemovalShape ==
  ASSUME NEW l, NEW it, NEW next \in RemoveItem(l, it)
  PROVE  /\ ~IsPack[it.id] => it.id \notin IdsOf(l.members)
         /\ \E requested \in ReconcileMembers(Remaining(l, it), Inherited(l, it)) :
               \/ requested = {} /\ next = NoContent
               \/ \E n \in NextKeeping(l, requested, {}) :
                     next = WithMembers(n, Inherited(l, it))
<1>1. ~IsPack[it.id] => MembersOf(l, it.id) = {}
  BY DEF RemoveItem
<1>2. ~IsPack[it.id] => it.id \notin IdsOf(l.members)
  BY <1>1 DEF MembersOf, IdsOf
<1>3. next \in UNION {IF requested = {} THEN {NoContent}
                      ELSE {WithMembers(n, Inherited(l, it)) :
                               n \in ResolveNext(l, requested, {}, TRUE)} :
                      requested \in ReconcileMembers(Remaining(l, it), Inherited(l, it))}
  BY DEF RemoveItem, Gone, Staying, Orphans, Dropped, Remaining, Inherited
<1>4. PICK requested \in ReconcileMembers(Remaining(l, it), Inherited(l, it)) :
        next \in (IF requested = {} THEN {NoContent}
                  ELSE {WithMembers(n, Inherited(l, it)) : n \in ResolveNext(l, requested, {}, TRUE)})
  BY <1>3
<1>5. \/ requested = {} /\ next = NoContent
      \/ \E n \in NextKeeping(l, requested, {}) : next = WithMembers(n, Inherited(l, it))
  BY <1>4 DEF NextKeeping
<1>. QED
  BY <1>2, <1>4, <1>5

\* An owner is left to a content exactly when it had one, and no other pack
\* has it when it goes.
LEMMA StayingOwners ==
  ASSUME NEW l, NEW said, Fits(l, said), NEW gone \in SUBSET l.members,
         NEW orphaned, orphaned \subseteq Orphans(gone),
         NEW i \in IdsOf(l.members \ gone),
         i \in Orphans(gone) => i \in orphaned
  PROVE  Owned(PassOn(l.members \ gone, orphaned), i) <=> said[i] = "none"
<1>1. l.members \ gone \in SUBSET Memberships /\ FromProjects(l.members \ gone)
  BY DEF Fits, SoundLock, FromProjects
<1>2. Owned(PassOn(l.members \ gone, orphaned), i) <=> Owned(l.members \ gone, i) \/ i \in orphaned
  BY <1>1, PassedMembers
<1>3. i \in IdsOf(l.members) /\ (Owned(l.members, i) <=> said[i] = "none")
  BY DEF Fits, OwnersFit, IdsOf
<1>4. Owned(l.members, i) <=> Owned(l.members \ gone, i) \/ i \in Orphans(gone)
  BY DEF Owned, Orphans
<1>. QED
  BY <1>2, <1>3, <1>4

LEMMA OrphansUnsaid ==
  ASSUME NEW l, NEW said, Fits(l, said), NEW gone \in SUBSET l.members, NEW i \in Orphans(gone)
  PROVE  i \in IdsOf(l.members) /\ said[i] = "none" /\ ~IsPack[i]
BY DEF Fits, SoundLock, OwnersFit, Owned, Orphans, IdsOf, FromProjects

\* The members of the packs that go: unless the user wants them or another pack
\* has them, they go too.
LEMMA LostMembers ==
  ASSUME NEW l, NEW said, Fits(l, said), NEW gone \in SUBSET l.members,
         NEW i \in IdsOf(l.members), i \notin IdsOf(l.members \ gone), said[i] = "none"
  PROVE  i \in Orphans(gone)
BY DEF Fits, OwnersFit, Owned, Orphans, IdsOf

LEMMA RemoveFits ==
  ASSUME NEW l, NEW said, Fits(l, said), NEW it \in l.items,
         NEW next \in RemoveItem(l, it), ValidLock(next)
  PROVE  Fits(next, [said EXCEPT ![it.id] = "none"])
<1>. DEFINE gone    == Gone(l, it)
            kept    == Staying(l, it)
            members == Inherited(l, it)
            left    == Remaining(l, it)
            spoken  == [said EXCEPT ![it.id] = "none"]
<1>1. PICK requested \in ReconcileMembers(left, members) :
        \/ requested = {} /\ next = NoContent
        \/ \E n \in NextKeeping(l, requested, {}) : next = WithMembers(n, members)
  BY RemovalShape
<1>2. ~IsPack[it.id] => it.id \notin IdsOf(l.members)
  BY RemovalShape
<1>3. SoundLock(l) /\ Exists(it) /\ AllKnown(l.items) /\ it.id \in Ids
  BY ExistingVersion DEF Fits, SoundLock, AllKnown, Known
<1>4. gone \in SUBSET l.members /\ kept = l.members \ gone
  BY DEF Gone, Staying
<1>5. kept \in SUBSET Memberships /\ FromProjects(kept)
  BY <1>3, <1>4 DEF SoundLock, FromProjects
<1>6. /\ members \in SUBSET Memberships /\ FromProjects(members)
      /\ IdsOf(members) = IdsOf(kept)
      /\ \A n \in members : \E m \in kept : n.pack = m.pack /\ n.id = m.id
  BY <1>5, PassedMembers DEF Inherited
<1>7. left \in SUBSET Selections /\ left \subseteq l.requested
  BY <1>3 DEF SoundLock, Remaining
<1>8. it.id \notin IdsOf(kept)
  BY <1>2, <1>4, <1>5 DEF FromProjects, IdsOf
<1>9. spoken \in [Ids -> Words]
  BY <1>3 DEF Fits, Words
<1>10. OwnersFit(members, spoken)
  <2>. SUFFICES ASSUME NEW i \in IdsOf(members)
                PROVE  Owned(members, i) <=> spoken[i] = "none"
    BY DEF OwnersFit
  <2>1. i \in IdsOf(l.members \ gone) /\ i # it.id /\ i \in Ids
    BY <1>4, <1>5, <1>6, <1>8 DEF IdsOf, Memberships
  <2>2. Owned(members, i) <=> said[i] = "none"
    BY <1>4, <2>1, StayingOwners DEF Inherited
  <2>. QED
    BY <2>1, <2>2 DEF Fits
<1>11. IdsOf(left) = {i \in Ids : spoken[i] # "none"} \cup IdsOf(members)
  <2>1. IdsOf(left) = IdsOf(l.requested) \ Dropped(l, it)
    BY DEF Remaining, IdsOf
  <2>2. IdsOf(l.requested) = {i \in Ids : said[i] # "none"} \cup IdsOf(l.members)
    BY DEF Fits, SelectionsFit
  <2>3. {i \in Ids : spoken[i] # "none"} = {i \in Ids : said[i] # "none"} \ {it.id}
    BY <1>3 DEF Fits
  <2>4. ASSUME NEW i \in IdsOf(left)
        PROVE  i \in {j \in Ids : spoken[j] # "none"} \cup IdsOf(members)
    <3>1. i \in IdsOf(l.requested) /\ i # it.id /\ ~(i \in Orphans(gone) /\ i \notin IdsOf(kept))
      BY <2>1 DEF Dropped
    <3>2. CASE said[i] # "none"
      BY <2>2, <2>3, <3>1, <3>2 DEF Fits, SoundLock, IdsOf, Selections
    <3>3. CASE said[i] = "none"
      <4>1. i \in IdsOf(l.members)
        BY <2>2, <3>1, <3>3
      <4>. QED
        BY <1>4, <1>6, <3>1, <3>3, <4>1, LostMembers
    <3>. QED
      BY <3>2, <3>3
  <2>5. ASSUME NEW i \in Ids, spoken[i] # "none" PROVE i \in IdsOf(left)
    <3>1. i \in IdsOf(l.requested) /\ i # it.id /\ said[i] # "none"
      BY <2>2, <2>3, <2>5
    <3>2. i \notin Orphans(gone)
      BY <1>4, <3>1, OrphansUnsaid
    <3>. QED
      BY <2>1, <3>1, <3>2 DEF Dropped
  <2>6. ASSUME NEW i \in IdsOf(members) PROVE i \in IdsOf(left)
    <3>1. i \in IdsOf(kept) /\ i \in IdsOf(l.members)
      BY <1>4, <1>6, <2>6 DEF IdsOf
    <3>. QED
      BY <1>8, <2>1, <2>2, <3>1 DEF Dropped
  <2>. QED
    BY <2>4, <2>5, <2>6
<1>12. SelectionsFit(left, members, spoken)
  <2>1. ASSUME NEW s \in left, spoken[s.id] = "on" PROVE s.enabled
    BY <1>3, <1>7, <2>1 DEF Fits, SoundLock, SelectionsFit, Selections
  <2>. QED
    BY <1>11, <2>1 DEF SelectionsFit
<1>13. PacksArePinned(left)
  BY <1>3, <1>7 DEF SoundLock, PacksArePinned
<1>14. CASE requested = {} /\ next = NoContent
  <2>1. IdsOf(left) = {}
    <3>1. IdsOf(requested) = IdsOf(left)
      BY <1>1, <1>6, <1>7, ReconciledSelections
    <3>. QED
      BY <1>14, <3>1 DEF IdsOf
  <2>2. members = {}
    <3>1. IdsOf(members) = {}
      BY <1>11, <2>1
    <3>. HIDE DEF members
    <3>. QED
      BY <3>1 DEF IdsOf
  <2>3. /\ IsLock(next) /\ AllKnown(next.items) /\ OverridesFit(next)
        /\ next.members = members /\ next.requested = requested
    BY <1>14, <2>2 DEF NoContent, IsLock, AllKnown, OverridesFit
  <2>. QED
    BY <1>1, <1>6, <1>7, <1>9, <1>10, <1>12, <1>13, <2>3, NextFits
<1>15. CASE \E n \in NextKeeping(l, requested, {}) : next = WithMembers(n, members)
  <2>1. PICK n \in NextKeeping(l, requested, {}) : next = WithMembers(n, members)
    BY <1>15
  <2>2. Resolves(l, n, requested)
    <3>1. AllKnown({})
      BY DEF AllKnown
    <3>. QED
      BY <1>3, <3>1, KeptShape
  <2>3. /\ IsLock(next) /\ AllKnown(next.items) /\ next.requested = requested
        /\ next.overrides = KeptOverrides(l, next)
        /\ next.members = {m \in members : {m.pack, m.id} \subseteq IdsOf(next.items)}
    BY <2>1, <2>2 DEF Resolves, Names, IsLock, KeptOverrides, WithMembers
  <2>4. /\ IdsOf(requested) = IdsOf(left) /\ IdsOf(members) \subseteq IdsOf(left)
        /\ \A t \in requested : IsPack[t.id] => t \in left
    BY <1>1, <1>6, <1>7, ReconciledSelections, ReconciledKeepsPacks
  <2>5. AreSelected(members, next.requested)
    <3>. SUFFICES ASSUME NEW n2 \in members PROVE n2.pack \in IdsOf(left) /\ n2.id \in IdsOf(left)
      BY <2>3, <2>4 DEF AreSelected
    <3>1. n2.id \in IdsOf(left)
      BY <2>4 DEF IdsOf
    <3>2. PICK m \in kept : n2.pack = m.pack /\ n2.id = m.id
      BY <1>6
    <3>3. m \in l.members /\ m.pack \in IdsOf(l.requested) /\ IsPack[m.pack]
      BY <1>3, <1>4, MembersAreSelected DEF SoundLock, AreSelected
    <3>4. m.pack # it.id
      BY <1>4, <3>3 DEF Gone
    <3>5. m.pack \notin Orphans(gone)
      BY <1>4, <3>3, OrphansUnsaid
    <3>6. m.pack \in IdsOf(left)
      BY <3>3, <3>4, <3>5 DEF Remaining, Dropped, IdsOf
    <3>. QED
      BY <3>1, <3>2, <3>6
  <2>6. next.members = members
    BY <2>3, <2>5, SelectedIsInstalled DEF AreSelected
  <2>7. OverridesFit(next)
    BY <1>3, <1>7, <2>3, <2>4, OverridesFollow
  <2>. QED
    BY <1>1, <1>6, <1>7, <1>9, <1>10, <1>12, <1>13, <2>3, <2>6, <2>7, NextFits
<1>. QED
  BY <1>1, <1>14, <1>15

-----------------------------------------------------------------------------
(* import_staged_modrinth_pack *)

\* A local pack is new: no membership is one of its.
LEMMA ReplacedByPack ==
  ASSUME NEW l, SoundLock(l), NEW w, w.local => w.id \notin IdsOf(l.items)
  PROVE  Replaced(l, w) = {m \in l.members : m.pack = w.id}
BY MembersAreSelected, SelectedIsInstalled DEF SoundLock, Replaced, AreSelected, IdsOf

\* The lock after pack w has come, of the resolution n.
Imported(l, w)    == Passed(l, w) \cup Joined(l, w)
ImportedFiles(l, w) == {o \in l.overrides : o.pack # w.id}
                           \cup {[pack |-> w.id, target |-> f] : f \in w.files}

LEMMA ImportShape ==
  ASSUME NEW l, NEW w, NEW next \in ImportPack(l, w)
  PROVE  /\ w.local => w.id \notin IdsOf(l.items)
         /\ \E requested \in ReconcileMembers(Merged(l, w), Imported(l, w)) :
               \E n \in NextBare(l, requested, PackReleases(w)) :
                  next = [WithMembers(n, Imported(l, w)) EXCEPT !.overrides = ImportedFiles(l, w)]
<1>1. w.local => w.id \notin IdsOf(l.items)
  BY DEF ImportPack, IdsOf
<1>2. next \in UNION {{[WithMembers(n, Imported(l, w)) EXCEPT !.overrides = ImportedFiles(l, w)] :
                          n \in ResolveNext(l, requested, PackReleases(w), FALSE)} :
                      requested \in ReconcileMembers(Merged(l, w), Imported(l, w))}
  BY DEF ImportPack, Imported, ImportedFiles
<1>. QED
  BY <1>1, <1>2 DEF NextBare

LEMMA PackMembers ==
  ASSUME NEW w \in World, NEW m \in w.members
  PROVE  /\ m.id \in Ids /\ m.ver \in AllVersions /\ m.default \in BOOLEAN
         /\ ~IsPack[m.id] /\ \A v \in World : v.id = m.id => ~v.local
<1>1. PICK v \in World : v.id = m.id /\ v.ver = m.ver /\ ~v.local
  BY WorldAssumption
<1>2. m.default \in BOOLEAN /\ ~IsPack[m.id]
  BY WorldAssumption
<1>3. \A x \in World : x.id = m.id => ~x.local
  BY <1>1, WorldAssumption
<1>. QED
  BY <1>1, <1>2, <1>3, WorldAssumption DEF AllVersions

\* A pack that the profile can import over what it has.
Importable(l, w) == w \in World /\ IsPack[w.id] /\ (w.local => w.id \notin IdsOf(l.items))

LEMMA PackParts ==
  ASSUME NEW l, NEW said, Fits(l, said), NEW w, Importable(l, w)
  PROVE  /\ OthersOf(l, w) = l.members \ Replaced(l, w)
         /\ Replaced(l, w) \in SUBSET l.members
         /\ OthersOf(l, w) \in SUBSET Memberships /\ FromProjects(OthersOf(l, w))
         /\ \A m \in OthersOf(l, w) : m.pack # w.id
         /\ \A i : i \in Removed(l, w) =>
               \/ i = w.id
               \/ /\ i \in Orphans(Replaced(l, w))
                  /\ i \notin IdsOf(w.members) /\ i \notin IdsOf(OthersOf(l, w))
         /\ \A i \in Orphans(Replaced(l, w)) :
               i \in IdsOf(w.members) \/ i \in IdsOf(OthersOf(l, w)) \/ i \in Removed(l, w)
<1>1. Replaced(l, w) = {m \in l.members : m.pack = w.id}
  BY ReplacedByPack DEF Fits, Importable
<1>2. l.members \in SUBSET Memberships /\ FromProjects(l.members)
  BY DEF Fits, SoundLock
<1>3. FromProjects(OthersOf(l, w))
  BY <1>2 DEF OthersOf, FromProjects
<1>4. \A i : i \in Removed(l, w) =>
         \/ i = w.id
         \/ /\ i \in Orphans(Replaced(l, w))
            /\ i \notin IdsOf(w.members) /\ i \notin IdsOf(OthersOf(l, w))
  BY DEF Removed, Leaving
<1>5. \A i \in Orphans(Replaced(l, w)) :
         i \in IdsOf(w.members) \/ i \in IdsOf(OthersOf(l, w)) \/ i \in Removed(l, w)
  BY DEF Removed, Leaving
<1>. QED
  BY <1>1, <1>2, <1>3, <1>4, <1>5 DEF OthersOf

LEMMA JoinedMembers ==
  ASSUME NEW l, NEW w \in World, w.id \in Ids
  PROVE  /\ Joined(l, w) \in SUBSET Memberships /\ FromProjects(Joined(l, w))
         /\ IdsOf(Joined(l, w)) = IdsOf(w.members)
         /\ \A n \in Joined(l, w) : n.pack = w.id
         /\ \A i \in IdsOf(w.members) : Owned(Joined(l, w), i) <=>
               \/ Carried(l, w, i)
               \/ i \notin IdsOf(l.requested) \ Removed(l, w) /\ ~Owned(Passed(l, w), i)
<1>. DEFINE owns(i) == \/ Carried(l, w, i)
                       \/ i \notin IdsOf(l.requested) \ Removed(l, w) /\ ~Owned(Passed(l, w), i)
            join(m) == [pack |-> w.id, id |-> m.id, ver |-> m.ver, default |-> m.default,
                        owns |-> owns(m.id)]
<1>1. Joined(l, w) = {join(m) : m \in w.members}
  BY DEF Joined
<1>2. \A i : owns(i) \in BOOLEAN
  OBVIOUS
<1>. HIDE DEF owns
<1>3. \A m \in w.members :
         /\ join(m) \in Memberships
         /\ join(m).pack = w.id /\ join(m).id = m.id /\ join(m).owns = owns(m.id)
  BY <1>2, PackMembers DEF Memberships
<1>. HIDE DEF join
<1>4. Joined(l, w) \in SUBSET Memberships
  BY <1>1, <1>3
<1>5. FromProjects(Joined(l, w))
  BY <1>1, <1>3, PackMembers DEF FromProjects
<1>6. IdsOf(Joined(l, w)) = IdsOf(w.members)
  BY <1>1, <1>3 DEF IdsOf
<1>7. \A n \in Joined(l, w) : n.pack = w.id
  BY <1>1, <1>3
<1>8. ASSUME NEW i \in IdsOf(w.members) PROVE Owned(Joined(l, w), i) <=> owns(i)
  <2>1. PICK m \in w.members : m.id = i
    BY DEF IdsOf
  <2>2. join(m) \in Joined(l, w) /\ join(m).id = i /\ join(m).owns = owns(i)
    BY <1>1, <1>3, <2>1
  <2>3. ASSUME NEW n \in Joined(l, w), n.id = i PROVE n.owns = owns(i)
    BY <1>1, <1>3, <2>3
  <2>4. Owned(Joined(l, w), i) => owns(i)
    BY <2>3 DEF Owned
  <2>5. owns(i) => Owned(Joined(l, w), i)
    BY <2>2 DEF Owned
  <2>. QED
    BY <2>4, <2>5
<1>. QED
  BY <1>4, <1>5, <1>6, <1>7, <1>8 DEF owns

LEMMA ImportedMembers ==
  ASSUME NEW l, NEW said, Fits(l, said), NEW w, Importable(l, w)
  PROVE  /\ Imported(l, w) \in SUBSET Memberships /\ FromProjects(Imported(l, w))
         /\ IdsOf(Imported(l, w)) = IdsOf(OthersOf(l, w)) \cup IdsOf(w.members)
         /\ \A n \in Imported(l, w) :
               n.pack = w.id \/ \E m \in OthersOf(l, w) : n.pack = m.pack /\ n.id = m.id
<1>1. w \in World /\ w.id \in Ids
  BY WorldAssumption DEF Importable
<1>2. /\ Joined(l, w) \in SUBSET Memberships /\ FromProjects(Joined(l, w))
      /\ IdsOf(Joined(l, w)) = IdsOf(w.members)
      /\ \A n \in Joined(l, w) : n.pack = w.id
  BY <1>1, JoinedMembers
<1>3. OthersOf(l, w) \in SUBSET Memberships /\ FromProjects(OthersOf(l, w))
  BY PackParts
<1>4. /\ Passed(l, w) \in SUBSET Memberships /\ FromProjects(Passed(l, w))
      /\ IdsOf(Passed(l, w)) = IdsOf(OthersOf(l, w))
      /\ \A n \in Passed(l, w) : \E m \in OthersOf(l, w) : n.pack = m.pack /\ n.id = m.id
  BY <1>3, PassedMembers DEF Passed
<1>5. FromProjects(Imported(l, w))
  BY <1>2, <1>4 DEF Imported, FromProjects
<1>6. IdsOf(Imported(l, w)) = IdsOf(Passed(l, w)) \cup IdsOf(Joined(l, w))
  BY DEF Imported, IdsOf
<1>. QED
  BY <1>2, <1>4, <1>5, <1>6 DEF Imported

\* The selections of an import: the pack's, what stays, and its members'.
LEMMA RepinnedSelection ==
  ASSUME NEW s \in Selections, NEW w \in World
  PROVE  /\ Repinned(s, w) \in Selections /\ Repinned(s, w).id = s.id
         /\ Repinned(s, w).enabled = s.enabled
         /\ IsPack[s.id] => Repinned(s, w) = s
<1>1. CASE s.id \in IdsOf(w.members)
  <2>. DEFINE req == {m.ver : m \in {n \in w.members : n.id = s.id}}
  <2>1. req \in SUBSET AllVersions
    BY PackMembers
  <2>2. Repinned(s, w) = [s EXCEPT !.req = req]
    BY <1>1 DEF Repinned
  <2>. HIDE DEF req
  <2>3. /\ [s EXCEPT !.req = req] \in Selections /\ [s EXCEPT !.req = req].id = s.id
        /\ [s EXCEPT !.req = req].enabled = s.enabled
    BY <2>1 DEF Selections
  <2>4. ~IsPack[s.id]
    BY <1>1, PackMembers DEF IdsOf
  <2>. QED
    BY <2>2, <2>3, <2>4
<1>2. CASE s.id \notin IdsOf(w.members)
  BY <1>2 DEF Repinned
<1>. QED
  BY <1>1, <1>2

\* Where a selection of the import comes from.
LEMMA MergedParts ==
  ASSUME NEW l, SoundLock(l), NEW w \in World, NEW t \in Merged(l, w)
  PROVE  /\ t \in Selections
         /\ \/ t.id = w.id /\ t.req = {w.ver} /\ t.enabled
            \/ \E s \in Unmoved(l, w) :
                  t.id = s.id /\ t.enabled = s.enabled /\ (IsPack[s.id] => t = s)
            \/ t.id \in IdsOf(w.members) /\ t.id \notin IdsOf(Unmoved(l, w))
<1>1. CASE t = Select(w.id, {w.ver}, TRUE)
  BY <1>1, VersionSelection DEF Select
<1>2. ASSUME NEW s \in Unmoved(l, w), t = Repinned(s, w)
      PROVE  t \in Selections /\ t.id = s.id /\ t.enabled = s.enabled /\ (IsPack[s.id] => t = s)
  <2>1. s \in Selections
    BY DEF SoundLock, Unmoved
  <2>. QED
    BY <1>2, <2>1, RepinnedSelection
<1>3. ASSUME NEW m \in w.members, m.id \notin IdsOf(Unmoved(l, w)),
             t = Select(m.id, {m.ver}, m.default)
      PROVE  /\ t \in Selections
             /\ t.id \in IdsOf(w.members) /\ t.id \notin IdsOf(Unmoved(l, w))
  BY <1>3, PackMembers DEF Select, Selections, IdsOf
<1>4. \/ t = Select(w.id, {w.ver}, TRUE)
      \/ \E s \in Unmoved(l, w) : t = Repinned(s, w)
      \/ \E m \in w.members : m.id \notin IdsOf(Unmoved(l, w)) /\ t = Select(m.id, {m.ver}, m.default)
  BY DEF Merged
<1>. QED
  BY <1>1, <1>2, <1>3, <1>4

LEMMA MergedIds ==
  ASSUME NEW l, SoundLock(l), NEW w \in World
  PROVE  IdsOf(Merged(l, w)) = {w.id} \cup IdsOf(Unmoved(l, w)) \cup IdsOf(w.members)
<1>1. ASSUME NEW i \in IdsOf(Merged(l, w))
      PROVE  i \in {w.id} \cup IdsOf(Unmoved(l, w)) \cup IdsOf(w.members)
  <2>1. PICK t \in Merged(l, w) : t.id = i
    BY DEF IdsOf
  <2>2. (\E s \in Unmoved(l, w) : i = s.id) => i \in IdsOf(Unmoved(l, w))
    BY DEF IdsOf
  <2>. QED
    BY <2>1, <2>2, MergedParts
<1>2. w.id \in IdsOf(Merged(l, w))
  <2>1. Select(w.id, {w.ver}, TRUE) \in Merged(l, w)
    BY DEF Merged
  <2>2. Select(w.id, {w.ver}, TRUE).id = w.id
    BY DEF Select
  <2>. QED
    BY <2>1, <2>2 DEF IdsOf
<1>3. ASSUME NEW s \in Unmoved(l, w) PROVE s.id \in IdsOf(Merged(l, w))
  <2>1. Repinned(s, w).id = s.id
    BY RepinnedSelection DEF Unmoved, SoundLock
  <2>2. Repinned(s, w) \in Merged(l, w)
    BY DEF Merged
  <2>. QED
    BY <2>1, <2>2 DEF IdsOf
<1>4. ASSUME NEW m \in w.members, m.id \notin IdsOf(Unmoved(l, w))
      PROVE  m.id \in IdsOf(Merged(l, w))
  <2>1. Select(m.id, {m.ver}, m.default) \in Merged(l, w)
    BY <1>4 DEF Merged
  <2>. QED
    BY <2>1 DEF IdsOf, Select
<1>5. IdsOf(Unmoved(l, w)) \subseteq IdsOf(Merged(l, w))
  BY <1>3 DEF IdsOf
<1>6. IdsOf(w.members) \subseteq IdsOf(Merged(l, w))
  <2>. SUFFICES ASSUME NEW m \in w.members PROVE m.id \in IdsOf(Merged(l, w))
    BY DEF IdsOf
  <2>. QED
    BY <1>4, <1>5
<1>. QED
  BY <1>1, <1>2, <1>5, <1>6

LEMMA ImportedOwners ==
  ASSUME NEW l, NEW said, Fits(l, said), NEW w, Importable(l, w),
         NEW spoken, Speaks(spoken, said, w.id)
  PROVE  OwnersFit(Imported(l, w), spoken)
<1>. SUFFICES ASSUME NEW i \in IdsOf(Imported(l, w))
              PROVE  Owned(Imported(l, w), i) <=> spoken[i] = "none"
  BY DEF OwnersFit
<1>1. /\ OthersOf(l, w) = l.members \ Replaced(l, w) /\ Replaced(l, w) \in SUBSET l.members
      /\ OthersOf(l, w) \in SUBSET Memberships /\ FromProjects(OthersOf(l, w))
  BY PackParts
<1>2. w \in World /\ w.id \in Ids /\ IsPack[w.id]
  BY WorldAssumption DEF Importable
<1>3. /\ i \in Ids /\ ~IsPack[i]
      /\ i \in IdsOf(OthersOf(l, w)) \/ i \in IdsOf(w.members)
  BY ImportedMembers DEF IdsOf, Memberships, FromProjects
<1>4. spoken[i] = said[i]
  BY <1>2, <1>3 DEF Speaks
<1>5. Owned(Imported(l, w), i) <=> Owned(Passed(l, w), i) \/ Owned(Joined(l, w), i)
  BY DEF Imported, Owned
<1>6. CASE i \notin IdsOf(w.members)
  <2>1. ~Owned(Joined(l, w), i)
    BY <1>2, <1>6, JoinedMembers DEF Owned, IdsOf
  <2>2. Leaving(l, w) \subseteq Orphans(Replaced(l, w))
    BY DEF Leaving
  <2>3. i \in Orphans(Replaced(l, w)) => i \in Leaving(l, w)
    BY <1>6 DEF Leaving
  <2>4. Owned(Passed(l, w), i) <=> said[i] = "none"
    BY <1>1, <1>3, <1>6, <2>2, <2>3, StayingOwners DEF Passed
  <2>. QED
    BY <1>4, <1>5, <2>1, <2>4
<1>7. CASE i \in IdsOf(w.members)
  <2>1. i \notin Leaving(l, w)
    BY <1>7 DEF Leaving
  <2>2. Owned(Passed(l, w), i) <=> Owned(OthersOf(l, w), i)
    <3>1. CASE i \in IdsOf(OthersOf(l, w))
      BY <1>1, <2>1, <3>1, PassedMembers DEF Passed
    <3>2. CASE i \notin IdsOf(OthersOf(l, w))
      BY <1>1, <3>2, PassedMembers DEF Passed, Owned, IdsOf
    <3>. QED
      BY <3>1, <3>2
  <2>3. Owned(Joined(l, w), i) <=>
          \/ Carried(l, w, i)
          \/ i \notin IdsOf(l.requested) \ Removed(l, w) /\ ~Owned(Passed(l, w), i)
    BY <1>2, <1>7, JoinedMembers
  <2>4. Owned(l.members, i) <=> Owned(OthersOf(l, w), i) \/ Carried(l, w, i)
    BY <1>1 DEF Owned, Carried
  <2>5. i \notin Removed(l, w)
    BY <1>2, <1>3, <1>7, PackParts
  <2>6. i \in IdsOf(l.requested) <=> said[i] # "none" \/ i \in IdsOf(l.members)
    BY <1>3 DEF Fits, SelectionsFit
  <2>7. i \in IdsOf(l.members) => (Owned(l.members, i) <=> said[i] = "none")
    BY DEF Fits, OwnersFit
  <2>8. Owned(l.members, i) => i \in IdsOf(l.members)
    BY DEF Owned, IdsOf
  <2>. QED
    BY <1>4, <1>5, <2>2, <2>3, <2>4, <2>5, <2>6, <2>7, <2>8
<1>. QED
  BY <1>6, <1>7

LEMMA MergedFits ==
  ASSUME NEW l, NEW said, Fits(l, said), NEW w, Importable(l, w),
         NEW spoken, Speaks(spoken, said, w.id)
  PROVE  SelectionsFit(Merged(l, w), Imported(l, w), spoken)
<1>1. /\ OthersOf(l, w) = l.members \ Replaced(l, w) /\ Replaced(l, w) \in SUBSET l.members
      /\ FromProjects(OthersOf(l, w))
      /\ \A i : i \in Removed(l, w) =>
            \/ i = w.id
            \/ /\ i \in Orphans(Replaced(l, w))
               /\ i \notin IdsOf(w.members) /\ i \notin IdsOf(OthersOf(l, w))
      /\ \A i \in Orphans(Replaced(l, w)) :
            i \in IdsOf(w.members) \/ i \in IdsOf(OthersOf(l, w)) \/ i \in Removed(l, w)
  BY PackParts
<1>2. w \in World /\ w.id \in Ids /\ IsPack[w.id] /\ SoundLock(l)
  BY WorldAssumption DEF Importable, Fits
<1>3. IdsOf(Merged(l, w)) = {w.id} \cup IdsOf(Unmoved(l, w)) \cup IdsOf(w.members)
  BY <1>2, MergedIds
<1>4. IdsOf(Imported(l, w)) = IdsOf(OthersOf(l, w)) \cup IdsOf(w.members)
  BY ImportedMembers
<1>5. IdsOf(l.requested) = {i \in Ids : said[i] # "none"} \cup IdsOf(l.members)
  BY DEF Fits, SelectionsFit
<1>6. IdsOf(Unmoved(l, w)) = IdsOf(l.requested) \ (Removed(l, w) \cup {w.id})
  BY DEF Unmoved, IdsOf
<1>7. IdsOf(Merged(l, w)) = {i \in Ids : spoken[i] # "none"} \cup IdsOf(Imported(l, w))
  <2>1. ASSUME NEW i \in IdsOf(Unmoved(l, w))
        PROVE  i \in {j \in Ids : spoken[j] # "none"} \cup IdsOf(Imported(l, w))
    <3>1. i \in IdsOf(l.requested) /\ i \notin Removed(l, w) /\ i # w.id
      BY <1>6
    <3>2. CASE said[i] # "none"
      <4>1. i \in Ids
        BY <1>2, <3>1 DEF SoundLock, IdsOf, Selections
      <4>. QED
        BY <3>1, <3>2, <4>1 DEF Speaks
    <3>3. CASE said[i] = "none"
      <4>1. i \in IdsOf(l.members)
        BY <1>5, <3>1, <3>3
      <4>2. i \in IdsOf(OthersOf(l, w)) \/ i \in Orphans(Replaced(l, w))
        BY <1>1, <3>3, <4>1, LostMembers
      <4>. QED
        BY <1>1, <1>4, <3>1, <4>2
    <3>. QED
      BY <3>2, <3>3
  <2>2. ASSUME NEW i \in Ids, spoken[i] # "none", i # w.id PROVE i \in IdsOf(Unmoved(l, w))
    <3>1. said[i] # "none" /\ i \in IdsOf(l.requested)
      BY <1>5, <2>2 DEF Speaks
    <3>2. i \notin Orphans(Replaced(l, w))
      BY <1>1, <3>1, OrphansUnsaid
    <3>. QED
      BY <1>1, <1>6, <2>2, <3>1, <3>2
  <2>3. ASSUME NEW i \in IdsOf(OthersOf(l, w)) PROVE i \in IdsOf(Unmoved(l, w))
    <3>1. i \in IdsOf(l.members) /\ ~IsPack[i]
      BY <1>1 DEF IdsOf, FromProjects
    <3>. QED
      BY <1>1, <1>2, <1>5, <1>6, <2>3, <3>1
  <2>4. spoken[w.id] # "none"
    BY DEF Speaks
  <2>. QED
    BY <1>2, <1>3, <1>4, <2>1, <2>2, <2>3, <2>4
<1>8. ASSUME NEW t \in Merged(l, w), spoken[t.id] = "on" PROVE t.enabled
  <2>1. CASE t.id = w.id /\ t.req = {w.ver} /\ t.enabled
    BY <2>1
  <2>2. ASSUME NEW s \in Unmoved(l, w), t.id = s.id, t.enabled = s.enabled
        PROVE  t.enabled
    <3>1. s \in l.requested /\ s.id \in Ids /\ s.id # w.id
      BY <1>2 DEF Unmoved, SoundLock, Selections
    <3>2. said[s.id] = "on"
      BY <1>8, <2>2, <3>1 DEF Speaks
    <3>. QED
      BY <2>2, <3>1, <3>2 DEF Fits, SelectionsFit
  <2>3. CASE t.id \in IdsOf(w.members) /\ t.id \notin IdsOf(Unmoved(l, w))
    <3>1. t.id \in Ids /\ ~IsPack[t.id]
      BY <1>2, <2>3, PackMembers DEF IdsOf
    <3>2. said[t.id] # "none" /\ t.id # w.id
      BY <1>2, <1>8, <3>1 DEF Speaks
    <3>3. t.id \in IdsOf(l.requested)
      BY <1>5, <3>1, <3>2
    <3>. QED
      BY <1>1, <1>6, <2>3, <3>2, <3>3
  <2>. QED
    BY <1>2, <2>1, <2>2, <2>3, MergedParts
<1>. QED
  BY <1>7, <1>8 DEF SelectionsFit

LEMMA MergedPacks ==
  ASSUME NEW l, SoundLock(l), NEW w \in World, NEW t \in Merged(l, w), IsPack[t.id]
  PROVE  \/ t.id = w.id /\ t.req = {w.ver}
         \/ t \in l.requested /\ t.id # w.id
<1>1. t.id \notin IdsOf(w.members)
  BY PackMembers DEF IdsOf
<1>2. ASSUME NEW s \in Unmoved(l, w), t.id = s.id, IsPack[s.id] => t = s
      PROVE  t \in l.requested /\ t.id # w.id
  BY <1>2 DEF Unmoved
<1>. QED
  BY <1>1, <1>2, MergedParts

\* The override files after an import: the new version's, and those of the
\* other packs, which stay as they were.
LEMMA ImportedOverrides ==
  ASSUME NEW l, NEW said, Fits(l, said), NEW w, Importable(l, w),
         NEW next, ValidLock(next), AllKnown(next.items),
         next.requested \in ReconcileMembers(Merged(l, w), Imported(l, w)),
         next.overrides = ImportedFiles(l, w)
  PROVE  OverridesFit(next)
<1>1. w \in World /\ w.id \in Ids /\ IsPack[w.id] /\ SoundLock(l)
  BY WorldAssumption DEF Importable, Fits
<1>2. Merged(l, w) \in SUBSET Selections
  BY <1>1, MergedParts
<1>3. Imported(l, w) \in SUBSET Memberships /\ FromProjects(Imported(l, w))
  BY ImportedMembers
<1>4. \A t \in next.requested : IsPack[t.id] =>
         \/ t.id = w.id /\ t.req = {w.ver}
         \/ t \in l.requested /\ t.id # w.id
  BY <1>1, <1>2, <1>3, ReconciledKeepsPacks, MergedPacks
<1>5. IdsOf(next.requested) = {w.id} \cup IdsOf(Unmoved(l, w)) \cup IdsOf(w.members)
  BY <1>1, <1>2, <1>3, ReconciledSelections, MergedIds
\* A pack that the next lock has is w or one there was, in its version.
<1>6. ASSUME NEW x \in next.items, IsPack[x.id]
      PROVE  \/ x.id = w.id /\ x.ver = w.ver
             \/ x.id # w.id /\ \E it \in l.items : it.id = x.id /\ it.ver = x.ver
  <2>1. PICK t \in next.requested : t.id = x.id
    BY <1>6, PacksAreSelected DEF IdsOf
  <2>2. x.ver \in t.req
    BY <2>1, SelectedIsInstalled
  <2>3. CASE t.id = w.id /\ t.req = {w.ver}
    BY <2>1, <2>2, <2>3
  <2>4. CASE t \in l.requested /\ t.id # w.id
    <3>1. PICK it \in l.items, y \in next.items : it.id = t.id /\ y.id = t.id /\ it.ver = y.ver
      BY <1>1, <1>6, <2>1, <2>4, PacksStay DEF SoundLock
    <3>2. x = y
      BY <2>1, <3>1 DEF ValidLock, TargetsValid
    <3>. QED
      BY <2>1, <2>4, <3>1, <3>2
  <2>. QED
    BY <1>4, <1>6, <2>1, <2>3, <2>4
<1>7. ASSUME NEW x, x.id = w.id, x.ver = w.ver
      PROVE  OverridesOf(x) = {[pack |-> w.id, target |-> f] : f \in w.files}
  BY <1>1, <1>7, TheVersionIsIt DEF OverridesOf
<1>8. ASSUME NEW x \in next.items, NEW o \in OverridesOf(x) PROVE o \in next.overrides
  <2>1. IsPack[x.id] /\ o.pack = x.id
    BY FilesArePacks DEF AllKnown, Known
  <2>2. CASE x.id = w.id /\ x.ver = w.ver
    BY <1>7, <2>2 DEF ImportedFiles
  <2>3. ASSUME x.id # w.id, NEW it \in l.items, it.id = x.id, it.ver = x.ver
        PROVE  o \in next.overrides
    <3>1. o \in l.overrides
      BY <1>1, <2>3, SameOverrides DEF SoundLock, OverridesFit
    <3>. QED
      BY <2>1, <2>3, <3>1 DEF ImportedFiles
  <2>. QED
    BY <1>6, <2>1, <2>2, <2>3
<1>9. ASSUME NEW o \in next.overrides PROVE \E x \in next.items : o \in OverridesOf(x)
  <2>1. CASE o \in {[pack |-> w.id, target |-> f] : f \in w.files}
    <3>1. PICK x \in next.items : x.id = w.id
      BY <1>5, SelectedIsInstalled DEF IdsOf
    <3>2. x.ver = w.ver
      BY <1>1, <1>6, <3>1
    <3>. QED
      BY <1>7, <2>1, <3>1, <3>2
  <2>2. CASE o \in l.overrides /\ o.pack # w.id
    <3>1. PICK it \in l.items : o \in OverridesOf(it)
      BY <1>1, <2>2 DEF SoundLock, OverridesFit
    <3>2. o.pack = it.id /\ IsPack[it.id]
      BY <1>1, <3>1, FilesArePacks DEF SoundLock, AllKnown, Known
    <3>3. it.id \in IdsOf(l.requested)
      BY <1>1, <3>2, PacksAreSelected DEF SoundLock
    <3>4. it.id \notin Removed(l, w)
      <4>1. it.id \notin Orphans(Replaced(l, w))
        BY <3>2, OrphansUnsaid, PackParts
      <4>. QED
        BY <2>2, <3>2, <4>1, PackParts
    <3>5. it.id \in IdsOf(next.requested)
      BY <1>5, <2>2, <3>2, <3>3, <3>4 DEF Unmoved, IdsOf
    <3>6. PICK x \in next.items : x.id = it.id
      BY <3>5, SelectedIsInstalled DEF IdsOf
    <3>7. PICK y \in l.items : y.id = x.id /\ y.ver = x.ver
      BY <1>6, <2>2, <3>2, <3>6
    <3>8. y = it
      BY <1>1, <3>6, <3>7 DEF SoundLock, ValidLock, TargetsValid
    <3>. QED
      BY <3>1, <3>6, <3>7, <3>8, SameOverrides
  <2>. QED
    BY <2>1, <2>2 DEF ImportedFiles
<1>. QED
  BY <1>8, <1>9 DEF OverridesFit

LEMMA PackReleasesKnown ==
  ASSUME NEW w \in World
  PROVE  AllKnown(PackReleases(w))
<1>1. Known(Downloaded(w, {}))
  BY PinnedReleaseKnown
<1>2. ASSUME NEW m \in w.members
      PROVE  Known(Downloaded(TheVersion(m.id, m.ver), PinnedDependencies(TheVersion(m.id, m.ver))))
  <2>1. TheVersion(m.id, m.ver) \in World
    BY WorldAssumption, TheVersionIsIt
  <2>. QED
    BY <2>1, PinnedReleaseKnown
<1>. QED
  BY <1>1, <1>2 DEF PackReleases, AllKnown

LEMMA ImportFits ==
  ASSUME NEW l, NEW said, Fits(l, said), NEW w \in World, IsPack[w.id],
         NEW next \in ImportPack(l, w), ValidLock(next),
         NEW spoken, Speaks(spoken, said, w.id)
  PROVE  Fits(next, spoken) /\ \E t \in next.requested : t.id = w.id /\ t.req = {w.ver}
<1>. DEFINE members == Imported(l, w)
            asked   == Merged(l, w)
<1>1. Importable(l, w) /\ SoundLock(l) /\ AllKnown(l.items) /\ w.id \in Ids
  BY ImportShape, WorldAssumption DEF Importable, Fits, SoundLock
<1>2. PICK requested \in ReconcileMembers(asked, members) :
        \E n \in NextBare(l, requested, PackReleases(w)) :
           next = [WithMembers(n, members) EXCEPT !.overrides = ImportedFiles(l, w)]
  BY ImportShape
<1>3. PICK n \in NextBare(l, requested, PackReleases(w)) :
        next = [WithMembers(n, members) EXCEPT !.overrides = ImportedFiles(l, w)]
  BY <1>2
<1>4. Names(n, requested)
  BY <1>1, PackReleasesKnown, BareShape
<1>5. /\ IsLock(next) /\ AllKnown(next.items) /\ next.requested = requested
      /\ next.overrides = ImportedFiles(l, w)
      /\ next.members = {m \in members : {m.pack, m.id} \subseteq IdsOf(next.items)}
  BY <1>3, <1>4 DEF Names, IsLock, WithMembers
<1>6. /\ members \in SUBSET Memberships /\ FromProjects(members)
      /\ \A m \in members :
            m.pack = w.id \/ \E o \in OthersOf(l, w) : m.pack = o.pack /\ m.id = o.id
  BY <1>1, ImportedMembers
<1>7. asked \in SUBSET Selections
  BY <1>1, MergedParts
<1>8. PacksArePinned(asked)
  <2>. SUFFICES ASSUME NEW t \in asked, IsPack[t.id] PROVE \E v \in AllVersions : t.req = {v}
    BY DEF PacksArePinned
  <2>1. w.ver \in AllVersions
    BY DEF AllVersions
  <2>. QED
    BY <1>1, <2>1, MergedPacks DEF SoundLock, PacksArePinned
<1>9. /\ IdsOf(requested) = {w.id} \cup IdsOf(Unmoved(l, w)) \cup IdsOf(w.members)
      /\ IdsOf(members) \subseteq IdsOf(requested)
  BY <1>1, <1>2, <1>6, <1>7, ReconciledSelections, MergedIds
<1>10. AreSelected(members, next.requested)
  <2>. SUFFICES ASSUME NEW m \in members
                PROVE  m.pack \in IdsOf(requested) /\ m.id \in IdsOf(requested)
    BY <1>5 DEF AreSelected
  <2>1. m.id \in IdsOf(requested)
    BY <1>9 DEF IdsOf
  <2>2. ASSUME NEW o \in OthersOf(l, w), m.pack = o.pack PROVE m.pack \in IdsOf(requested)
    <3>1. o \in l.members /\ o.pack # w.id
      BY <1>1, PackParts
    <3>2. IsPack[o.pack] /\ o.pack \in IdsOf(l.requested)
      BY <1>1, <3>1, MembersAreSelected DEF SoundLock, AreSelected
    <3>3. o.pack \notin Removed(l, w)
      <4>1. o.pack \notin Orphans(Replaced(l, w))
        BY <1>1, <3>2, OrphansUnsaid, PackParts
      <4>. QED
        BY <1>1, <3>1, <4>1, PackParts
    <3>. QED
      BY <1>9, <2>2, <3>1, <3>2, <3>3 DEF Unmoved, IdsOf
  <2>. QED
    BY <1>6, <1>9, <2>1, <2>2
<1>11. next.members = members
  BY <1>5, <1>10, SelectedIsInstalled DEF AreSelected
<1>12. OverridesFit(next)
  BY <1>1, <1>2, <1>5, ImportedOverrides
<1>13. spoken \in [Ids -> Words]
  BY DEF Speaks
<1>14. SelectionsFit(asked, members, spoken) /\ OwnersFit(members, spoken)
  BY <1>1, MergedFits, ImportedOwners
<1>15. \E t \in next.requested : t.id = w.id /\ t.req = {w.ver}
  <2>1. PICK t \in requested : t.id = w.id
    BY <1>9 DEF IdsOf
  <2>2. t \in asked
    BY <1>2, <1>6, <1>7, <2>1, ReconciledKeepsPacks
  <2>. QED
    BY <1>1, <1>5, <2>1, <2>2, MergedPacks
<1>. HIDE DEF members, asked
<1>. QED
  BY <1>2, <1>5, <1>6, <1>7, <1>8, <1>11, <1>12, <1>13, <1>14, <1>15, NextFits

\* An import keeps the version of what the user has asked for, even if its
\* packs contain it too.
LEMMA ImportKeepsVersions ==
  ASSUME NEW l, NEW said, Fits(l, said), NEW w \in World, IsPack[w.id],
         NEW next \in ImportPack(l, w),
         NEW s \in l.requested, s.id # w.id, said[s.id] # "none", NEW v, s.req = {v}
  PROVE  \E t \in next.requested : t.id = s.id /\ t.req = {v}
<1>. DEFINE i == s.id
<1>1. Importable(l, w) /\ SoundLock(l) /\ AllKnown(l.items) /\ s \in Selections
  BY ImportShape DEF Importable, Fits, SoundLock
<1>2. PICK requested \in ReconcileMembers(Merged(l, w), Imported(l, w)) :
        \E n \in NextBare(l, requested, PackReleases(w)) :
           next = [WithMembers(n, Imported(l, w)) EXCEPT !.overrides = ImportedFiles(l, w)]
  BY ImportShape
<1>3. next.requested = requested
  <2>1. PICK n \in NextBare(l, requested, PackReleases(w)) :
          next = [WithMembers(n, Imported(l, w)) EXCEPT !.overrides = ImportedFiles(l, w)]
    BY <1>2
  <2>2. Names(n, requested)
    BY <1>1, PackReleasesKnown, BareShape
  <2>. QED
    BY <2>1, <2>2 DEF Names, IsLock, WithMembers
<1>4. PackFits(l, w)
  BY DEF ImportPack
<1>5. i \notin Orphans(Replaced(l, w)) /\ ~Owned(l.members, i)
  <2>1. \A j \in Orphans(Replaced(l, w)) : said[j] = "none"
    BY <1>1, OrphansUnsaid, PackParts
  <2>2. \A j \in IdsOf(l.members) : Owned(l.members, j) => said[j] = "none"
    BY DEF Fits, OwnersFit
  <2>. QED
    BY <2>1, <2>2 DEF Owned, IdsOf
<1>6. s \in Unmoved(l, w)
  BY <1>1, <1>5, PackParts DEF Unmoved
<1>7. PICK it \in l.items : it.id = i /\ it.ver = v
  BY <1>1 DEF SoundLock, ValidLock, SelectionsValid
<1>8. \A m \in l.members : m.id = i => m.ver = v
  BY <1>1, <1>7 DEF SoundLock, ValidLock, MembersValid, TargetsValid
<1>9. \A m \in w.members : m.id = i => m.ver = v
  <2>1. ~Carried(l, w, i)
    BY <1>5 DEF Carried, Owned, Orphans
  <2>. QED
    BY <1>4, <1>7, <2>1 DEF PackFits
<1>10. \A m \in Imported(l, w) : m.id = i => m.ver = v
  <2>1. OthersOf(l, w) \in SUBSET l.members /\ FromProjects(OthersOf(l, w))
    BY <1>1, PackParts
  <2>2. OthersOf(l, w) \in SUBSET Memberships
    BY <1>1, PackParts
  <2>3. \A n \in Passed(l, w) : \E m \in OthersOf(l, w) : n.id = m.id /\ n.ver = m.ver
    BY <2>1, <2>2, PassedMembers DEF Passed
  <2>4. \A n \in Joined(l, w) : \E m \in w.members : n.id = m.id /\ n.ver = m.ver
    BY DEF Joined
  <2>. QED
    BY <1>8, <1>9, <2>1, <2>3, <2>4 DEF Imported
<1>11. Repinned(s, w).req = {v} /\ Repinned(s, w).id = i
  <2>1. CASE i \in IdsOf(w.members)
    <3>. DEFINE req == {m.ver : m \in {n \in w.members : n.id = s.id}}
    <3>1. req = {v}
      BY <1>9, <2>1 DEF IdsOf
    <3>2. Repinned(s, w) = [s EXCEPT !.req = req]
      BY <2>1 DEF Repinned
    <3>. HIDE DEF req
    <3>. QED
      BY <1>1, <3>1, <3>2 DEF Selections
  <2>2. CASE i \notin IdsOf(w.members)
    BY <2>2 DEF Repinned
  <2>. QED
    BY <2>1, <2>2
<1>12. Merged(l, w) \in SUBSET Selections /\ Repinned(s, w) \in Merged(l, w)
  <2>1. Merged(l, w) \in SUBSET Selections
    BY <1>1, MergedParts
  <2>2. Repinned(s, w) \in Merged(l, w)
    BY <1>6 DEF Merged
  <2>. QED
    BY <2>1, <2>2
<1>13. Imported(l, w) \in SUBSET Memberships
  BY <1>1, ImportedMembers
<1>. DEFINE r == Repinned(s, w)
            t == Reconciled(r, Merged(l, w), Imported(l, w))
<1>14. r \in Selections /\ r.id = i /\ r.req = {v}
  BY <1>11, <1>12
<1>15. t \in requested
  <2>1. requested = AllReconciled(Merged(l, w), Imported(l, w))
    BY <1>2, <1>12, <1>13, ReconciledSelections
  <2>. QED
    BY <1>12, <2>1 DEF AllReconciled
<1>. HIDE DEF r
<1>16. t.id = i /\ t.req = {v}
  <2>1. CASE i \in IdsOf(Imported(l, w))
    <3>1. {m.ver : m \in Mine(Imported(l, w), i)} = {v}
      BY <1>10, <2>1 DEF Mine, IdsOf
    <3>. QED
      BY <1>13, <1>14, <2>1, <3>1, ReconciledSelection
  <2>2. CASE i \notin IdsOf(Imported(l, w))
    BY <1>13, <1>14, <2>2, ReconciledSelection
  <2>. QED
    BY <2>1, <2>2
<1>. QED
  BY <1>3, <1>15, <1>16

\* Content i is selected in version v alone.
Selects(l, i, v) == \E t \in l.requested : t.id = i /\ t.req = {v}

\* What a command that waits computes, for content of either kind.
LEMMA ComputedFits ==
  ASSUME NEW l, NEW said, Fits(l, said), NEW w \in World,
         NEW next \in Install(l, w), ValidLock(next),
         NEW spoken, Speaks(spoken, said, w.id)
  PROVE  /\ Fits(next, spoken)
         /\ Selects(next, w.id, w.ver)
         /\ \A i \in Ids, v \in AllVersions :
               i # w.id /\ said[i] # "none" /\ Selects(l, i, v) => Selects(next, i, v)
<1>1. CASE IsPack[w.id]
  <2>1. next \in ImportPack(l, w)
    BY <1>1 DEF Install
  <2>2. Fits(next, spoken) /\ \E t \in next.requested : t.id = w.id /\ t.req = {w.ver}
    BY <1>1, <2>1, ImportFits
  <2>3. Selects(next, w.id, w.ver)
    BY <2>2 DEF Selects
  <2>4. ASSUME NEW i \in Ids, NEW v \in AllVersions, i # w.id, said[i] # "none", Selects(l, i, v)
        PROVE  Selects(next, i, v)
    BY <1>1, <2>1, <2>4, ImportKeepsVersions DEF Selects
  <2>. QED
    BY <2>2, <2>3, <2>4
<1>2. CASE ~IsPack[w.id]
  <2>1. next \in InstallMod(l, w) /\ Plain(w)
    BY <1>2 DEF Install, Plain
  <2>2. Fits(next, spoken) /\ next.requested = Asked(l, w)
    BY <2>1, InstallFits
  <2>3. /\ Select(w.id, {w.ver}, TRUE) \in next.requested
        /\ \A s \in l.requested : s.id # w.id => s \in next.requested
    BY <2>2 DEF Asked, Others
  <2>4. Select(w.id, {w.ver}, TRUE).id = w.id /\ Select(w.id, {w.ver}, TRUE).req = {w.ver}
    BY DEF Select
  <2>. QED
    BY <2>2, <2>3, <2>4 DEF Selects
<1>. QED
  BY <1>1, <1>2

-----------------------------------------------------------------------------
(* The commands under way *)

CallCommands == [op : {"none", "install", "update", "apply"}, id : Ids \cup {None},
             ver : AllVersions \cup {0}]
IsPlan(p) == p = [all |-> p.all, todo |-> p.todo, base |-> p.base, said |-> p.said]

\* A version of content i that is newer than the one in base.
Newer(i, v, base) ==
    \E w \in World, old \in base.items :
        w.id = i /\ w.ver = v /\ old.id = i /\ w.date > TheVersion(i, old.ver).date

\* Content that had an update when the list of updates began has one.
Outdated(i, base) == \E old \in base.items : old.id = i /\ UpdatesOf(i, old.ver) # {}

\* Content i is selected in a newer version than base has, and stays so.
Settled(l, said, base, i) ==
    /\ said[i] # "none"
    /\ \E v \in AllVersions : Selects(l, i, v) /\ Newer(i, v, base)

\* A call that applies a list of updates.
Applying(c) ==
    LET p == plan[c] IN
    /\ Fits(p.base, p.said)
    /\ p.todo \subseteq p.all /\ p.all \subseteq Ids
    /\ \A i \in p.all : Outdated(i, p.base)
    /\ pc[c] \in {"checking", "working"} => cmd[c].id \in p.all
    /\ pc[c] = "working" => Newer(cmd[c].id, cmd[c].ver, p.base)
    /\ c \notin touched => \A i \in p.all \ p.todo :
                              pc[c] = "next" \/ i # cmd[c].id => Settled(lock, intent, p.base, i)

\* Whether the lock is the one the call has read is what stale says.
CallFits(c) ==
    /\ cmd[c] \in CallCommands /\ IsPlan(plan[c])
    /\ pc[c] = "idle" => seen[c] = NoContent /\ cmd[c] = NoCommand /\ plan[c] = NoPlan
    /\ pc[c] \in {"checking", "working"} => Exists(cmd[c])
    /\ pc[c] = "working" /\ c \notin stale => seen[c] = lock
    /\ pc[c] = "next" => cmd[c].op = "apply" /\ plan[c].todo # {}
    /\ cmd[c].op # "apply" => plan[c] = NoPlan
    /\ cmd[c].op = "apply" => Applying(c)

Shapes ==
    /\ listed \subseteq World
    /\ pc \in [Calls -> {"idle", "next", "checking", "working"}]
    /\ seen = [c \in Calls |-> seen[c]]
    /\ cmd = [c \in Calls |-> cmd[c]] /\ plan = [c \in Calls |-> plan[c]]
    /\ stale \subseteq Calls /\ touched \subseteq Calls

\* The inductive invariant.
LockFits == Shapes /\ Fits(lock, intent) /\ \A c \in Calls : CallFits(c)

LEMMA InitFits ==
  ASSUME Init
  PROVE  LockFits
<1>1. Shapes
  BY WorldAssumption DEF Init, Shapes
<1>2. Fits(lock, intent)
  <2>1. lock = [requested |-> {}, optional |-> FALSE, items |-> {}, members |-> {}, overrides |-> {}]
    BY DEF Init, NoContent
  <2>2. /\ lock.requested = {} /\ lock.items = {} /\ lock.members = {} /\ lock.overrides = {}
        /\ IsLock(lock)
    BY <2>1 DEF IsLock
  <2>3. ValidLock(lock)
    BY <2>2 DEF ValidLock, TargetsValid, SelectionsValid, DependenciesValid, MembersValid,
                ReachabilityValid
  <2>4. SoundLock(lock)
    BY <2>2, <2>3 DEF SoundLock, AllKnown, PacksArePinned, FromProjects, OverridesFit
  <2>5. intent \in [Ids -> Words] /\ \A i \in Ids : intent[i] = "none"
    BY DEF Init, Words
  <2>6. SelectionsFit(lock.requested, lock.members, intent)
    BY <2>2, <2>5 DEF SelectionsFit, IdsOf
  <2>7. OwnersFit(lock.members, intent)
    BY <2>2 DEF OwnersFit, IdsOf
  <2>. QED
    BY <2>4, <2>5, <2>6, <2>7 DEF Fits
<1>3. ASSUME NEW c \in Calls PROVE CallFits(c)
  <2>1. pc[c] = "idle" /\ seen[c] = NoContent /\ cmd[c] = NoCommand /\ plan[c] = NoPlan
    BY DEF Init
  <2>2. NoCommand \in CallCommands /\ NoCommand.op = "none" /\ IsPlan(NoPlan)
    BY DEF NoCommand, CallCommands, NoPlan, IsPlan
  <2>. QED
    BY <2>1, <2>2 DEF CallFits
<1>. QED
  BY <1>1, <1>2, <1>3 DEF LockFits

\* What a step leaves of the calls it is not about.
Aside(d) ==
    /\ pc'[d] = pc[d] /\ seen'[d] = seen[d] /\ cmd'[d] = cmd[d] /\ plan'[d] = plan[d]
    /\ \/ /\ lock' = lock /\ intent' = intent
          /\ d \in stale => d \in stale'
          /\ d \in touched => d \in touched'
       \/ pc[d] = "idle"
       \/ d \in stale' /\ d \in touched'

LEMMA OutdatedStays ==
  ASSUME listed \subseteq listed', NEW i, NEW base, Outdated(i, base)
  PROVE  Outdated(i, base)'
BY DEF Outdated, UpdatesOf, Offered

LEMMA AsideFits ==
  ASSUME NEW d \in Calls, CallFits(d), Aside(d), listed \subseteq listed'
  PROVE  CallFits(d)'
<1>1. /\ pc'[d] = pc[d] /\ seen'[d] = seen[d] /\ cmd'[d] = cmd[d] /\ plan'[d] = plan[d]
  BY DEF Aside
<1>2. CASE pc[d] = "idle"
  <2>1. cmd[d].op # "apply"
    BY <1>2 DEF CallFits, NoCommand
  <2>. QED
    BY <1>1, <1>2, <2>1 DEF CallFits
<1>3. CASE pc[d] # "idle"
  <2>1. d \notin stale' => lock' = lock /\ d \notin stale
    BY <1>3 DEF Aside
  <2>2. d \notin touched' => lock' = lock /\ intent' = intent /\ d \notin touched
    BY <1>3 DEF Aside
  <2>3. ASSUME Applying(d) PROVE Applying(d)'
    <3>1. PICK b : b = plan[d].base
      OBVIOUS
    <3>2. plan'[d].base = b
      BY <1>1, <3>1
    <3>3. ASSUME NEW i, Outdated(i, b) PROVE Outdated(i, b)'
      BY <3>3, OutdatedStays
    <3>4. \A i \in plan[d].all : Outdated(i, b)'
      BY <2>3, <3>1, <3>3 DEF Applying
    <3>. QED
      BY <1>1, <2>2, <2>3, <3>1, <3>2, <3>4 DEF Applying
  <2>. QED
    BY <1>1, <1>3, <2>1, <2>3 DEF CallFits
<1>. QED
  BY <1>2, <1>3

\* A step of call c, and one of none.
LEMMA CallStep ==
  ASSUME LockFits, NEW c \in Calls, Shapes', Fits(lock, intent)', CallFits(c)',
         listed \subseteq listed', \A d \in Calls \ {c} : Aside(d)
  PROVE  LockFits'
BY AsideFits DEF LockFits

LEMMA LockStep ==
  ASSUME LockFits, Shapes', Fits(lock, intent)',
         listed \subseteq listed', \A d \in Calls : Aside(d)
  PROVE  LockFits'
BY AsideFits DEF LockFits

-----------------------------------------------------------------------------
(* Commands in one piece *)

LEMMA NowStep ==
  ASSUME LockFits, NEW next, Now(next), NEW said, intent' = said, Fits(next, said)
  PROVE  LockFits'
<1>1. /\ lock' = next /\ stale' = stale \cup Waiting /\ touched' = touched \cup Waiting
      /\ UNCHANGED <<listed, pc, seen, cmd, plan>>
  BY DEF Now, NewRevision
<1>2. Shapes'
  BY <1>1 DEF LockFits, Shapes, Waiting
<1>3. Fits(lock, intent)'
  BY <1>1
<1>4. \A d \in Calls : Aside(d)
  BY <1>1 DEF Aside, Waiting
<1>. QED
  BY <1>1, <1>2, <1>3, <1>4, LockStep

LEMMA OnePieceSteps ==
  ASSUME LockFits
  PROVE  /\ \A it \in lock.items : Remove(it) => LockFits'
         /\ \A it \in lock.items, on \in BOOLEAN : Toggle(it, on) => LockFits'
         /\ \A w \in World : AddLocalFile(w) => LockFits'
<1>1. ASSUME NEW it \in lock.items, Remove(it) PROVE LockFits'
  <2>1. PICK next \in RemoveItem(lock, it) : Now(next) /\ intent' = [intent EXCEPT ![it.id] = "none"]
    BY <1>1 DEF Remove, Says
  <2>2. ValidLock(next)
    BY <2>1 DEF Now
  <2>3. Fits(next, [intent EXCEPT ![it.id] = "none"])
    BY <2>2, RemoveFits DEF LockFits
  <2>. QED
    BY <2>1, <2>3, NowStep
<1>2. ASSUME NEW it \in lock.items, NEW on \in BOOLEAN, Toggle(it, on) PROVE LockFits'
  <2>. DEFINE word == IF on THEN "on" ELSE "off"
  <2>1. PICK next \in SetEnabled(lock, it, on) : Now(next) /\ intent' = [intent EXCEPT ![it.id] = word]
    BY <1>2 DEF Toggle, Says
  <2>2. ValidLock(next)
    BY <2>1 DEF Now
  <2>3. Fits(next, [intent EXCEPT ![it.id] = word])
    BY <2>2, ToggleFits DEF LockFits
  <2>. QED
    BY <2>1, <2>3, NowStep
<1>3. ASSUME NEW w \in World, AddLocalFile(w) PROVE LockFits'
  <2>1. PICK next \in AddLocal(lock, w) : Now(next) /\ intent' = [intent EXCEPT ![w.id] = "on"]
    BY <1>3 DEF AddLocalFile, Says
  <2>2. ValidLock(next) /\ w.local /\ Plain(w)
    BY <1>3, <2>1 DEF Now, AddLocalFile, Plain
  <2>3. Fits(next, [intent EXCEPT ![w.id] = "on"])
    BY <2>2, AddFits DEF LockFits
  <2>. QED
    BY <2>1, <2>3, NowStep
<1>. QED
  BY <1>1, <1>2, <1>3

LEMMA ListStep ==
  ASSUME LockFits, NEW w \in World, ListVersion(w)
  PROVE  LockFits'
<1>1. listed' = listed \cup {w} /\ UNCHANGED <<lock, pc, seen, cmd, stale, plan, intent, touched>>
  BY DEF ListVersion
<1>2. Shapes'
  BY <1>1 DEF LockFits, Shapes
<1>3. Fits(lock, intent)'
  BY <1>1 DEF LockFits
<1>4. \A d \in Calls : Aside(d)
  BY <1>1 DEF Aside
<1>. QED
  BY <1>1, <1>2, <1>3, <1>4, LockStep

-----------------------------------------------------------------------------
(* Commands that wait *)

LEMMA ReturnFits ==
  ASSUME LockFits, NEW c \in Calls, Return(c)
  PROVE  /\ CallFits(c)'
         /\ \A d \in Calls \ {c} : /\ pc'[d] = pc[d] /\ seen'[d] = seen[d]
                                   /\ cmd'[d] = cmd[d] /\ plan'[d] = plan[d]
<1>1. /\ pc' = [pc EXCEPT ![c] = "idle"] /\ seen' = [seen EXCEPT ![c] = NoContent]
      /\ cmd' = [cmd EXCEPT ![c] = NoCommand] /\ plan' = [plan EXCEPT ![c] = NoPlan]
  BY DEF Return, GoTo
<1>2. pc'[c] = "idle" /\ seen'[c] = NoContent /\ cmd'[c] = NoCommand /\ plan'[c] = NoPlan
  BY <1>1 DEF LockFits, Shapes
<1>3. NoCommand \in CallCommands /\ NoCommand.op = "none" /\ IsPlan(NoPlan)
  BY DEF NoCommand, CallCommands, NoPlan, IsPlan
<1>4. CallFits(c)'
  BY <1>2, <1>3 DEF CallFits
<1>. QED
  BY <1>1, <1>4 DEF LockFits, Shapes

LEMMA FailStep ==
  ASSUME LockFits, NEW c \in Calls, Fail(c), UNCHANGED listed
  PROVE  LockFits'
<1>1. Return(c)
  BY DEF Fail
<1>2. CallFits(c)'
  BY <1>1, ReturnFits
<1>3. CASE cmd[c].op = "apply" /\ lock # plan[c].base
  <2>1. /\ lock' = plan[c].base /\ intent' = plan[c].said
        /\ stale' = stale \cup (Waiting \ {c}) /\ touched' = touched \cup (Waiting \ {c})
    BY <1>3 DEF Fail, NewRevision
  <2>2. Fits(lock, intent)'
    BY <1>3, <2>1 DEF LockFits, CallFits, Applying
  <2>3. Shapes'
    BY <1>1, <2>1 DEF LockFits, Shapes, Return, GoTo, Waiting
  <2>4. \A d \in Calls \ {c} : Aside(d)
    BY <1>1, <2>1, ReturnFits DEF Aside, Waiting
  <2>. QED
    BY <1>2, <2>2, <2>3, <2>4, CallStep
<1>4. CASE ~(cmd[c].op = "apply" /\ lock # plan[c].base)
  <2>1. UNCHANGED <<lock, stale, touched, intent>>
    BY <1>4 DEF Fail
  <2>2. Fits(lock, intent)'
    BY <2>1 DEF LockFits
  <2>3. Shapes'
    BY <1>1, <2>1 DEF LockFits, Shapes, Return, GoTo
  <2>4. \A d \in Calls \ {c} : Aside(d)
    BY <1>1, <2>1, ReturnFits DEF Aside
  <2>. QED
    BY <1>2, <2>2, <2>3, <2>4, CallStep
<1>. QED
  BY <1>3, <1>4

LEMMA StartStep ==
  ASSUME LockFits, NEW c \in Calls, NEW w \in World, StartInstall(c, w)
  PROVE  LockFits'
<1>. DEFINE command == [op |-> "install", id |-> w.id, ver |-> w.ver]
<1>1. /\ pc[c] = "idle" /\ pc' = [pc EXCEPT ![c] = "working"]
      /\ seen' = [seen EXCEPT ![c] = lock] /\ stale' = stale \ {c}
      /\ cmd' = [cmd EXCEPT ![c] = command]
      /\ UNCHANGED <<lock, listed, plan, intent, touched>>
  BY DEF StartInstall, GoTo, ReadDocuments
<1>2. Shapes'
  BY <1>1 DEF LockFits, Shapes
<1>3. Fits(lock, intent)'
  BY <1>1 DEF LockFits
<1>4. command \in CallCommands /\ Exists(command) /\ command.op = "install"
  BY WorldAssumption DEF CallCommands, AllVersions, Exists
<1>5. /\ pc'[c] = "working" /\ seen'[c] = lock /\ cmd'[c] = command /\ c \notin stale'
      /\ plan'[c] = NoPlan /\ IsPlan(plan[c]) /\ lock' = lock
  BY <1>1 DEF LockFits, Shapes, CallFits
<1>. HIDE DEF command
<1>6. CallFits(c)'
  BY <1>1, <1>4, <1>5 DEF CallFits
<1>7. \A d \in Calls \ {c} : Aside(d)
  BY <1>1 DEF LockFits, Shapes, Aside
<1>. QED
  BY <1>1, <1>2, <1>3, <1>6, <1>7, CallStep

LEMMA InstalledExists ==
  ASSUME SoundLock(lock), NEW i, Updatable(i)
  PROVE  /\ i \in Ids /\ InstalledVersion(i) \in AllVersions
         /\ \E it \in lock.items : it.id = i /\ it.ver = InstalledVersion(i)
         /\ \E w \in World : w.id = i /\ w.ver = InstalledVersion(i)
<1>1. \E it \in lock.items : it.id = i
  BY DEF Updatable
<1>2. PICK it \in lock.items : it.id = i /\ it.ver = InstalledVersion(i)
  BY <1>1 DEF InstalledVersion
<1>3. \E w \in World : w.id = i /\ w.ver = InstalledVersion(i)
  BY <1>2 DEF SoundLock, AllKnown, Known, Exists
<1>. QED
  BY <1>2, <1>3, ExistingVersion DEF SoundLock, AllKnown, Known

LEMMA UpdateStep ==
  ASSUME LockFits, NEW c \in Calls, NEW i \in Ids, BeginUpdate(c, i)
  PROVE  LockFits'
<1>. DEFINE command == [op |-> "update", id |-> i, ver |-> InstalledVersion(i)]
<1>1. /\ pc[c] = "idle" /\ pc' = [pc EXCEPT ![c] = "checking"]
      /\ cmd' = [cmd EXCEPT ![c] = command]
      /\ UNCHANGED <<lock, listed, seen, stale, plan, intent, touched>>
  BY DEF BeginUpdate, GoTo
<1>2. Shapes'
  BY <1>1 DEF LockFits, Shapes
<1>3. Fits(lock, intent)'
  BY <1>1 DEF LockFits
<1>4. command \in CallCommands /\ command.op = "update" /\ Exists(command)
  BY InstalledExists DEF BeginUpdate, CallCommands, LockFits, Fits, Exists
<1>5. pc'[c] = "checking" /\ cmd'[c] = command /\ plan'[c] = NoPlan /\ IsPlan(plan[c])
  BY <1>1 DEF LockFits, Shapes, CallFits
<1>. HIDE DEF command
<1>6. CallFits(c)'
  BY <1>1, <1>4, <1>5 DEF CallFits
<1>7. \A d \in Calls \ {c} : Aside(d)
  BY <1>1 DEF LockFits, Shapes, Aside
<1>. QED
  BY <1>1, <1>2, <1>3, <1>6, <1>7, CallStep

LEMMA BeginApplyStep ==
  ASSUME LockFits, NEW c \in Calls, NEW ids \in SUBSET Ids, BeginApply(c, ids)
  PROVE  LockFits'
<1>. DEFINE p == [all |-> ids, todo |-> ids, base |-> lock, said |-> intent]
            command == [cmd[c] EXCEPT !.op = "apply"]
<1>1. /\ pc[c] = "idle" /\ ids # {} /\ ids \subseteq Available
      /\ pc' = [pc EXCEPT ![c] = "next"] /\ plan' = [plan EXCEPT ![c] = p]
      /\ cmd' = [cmd EXCEPT ![c] = command] /\ touched' = touched \ {c}
      /\ UNCHANGED <<lock, listed, seen, stale, intent>>
  BY DEF BeginApply, GoTo
<1>2. Shapes'
  BY <1>1 DEF LockFits, Shapes
<1>3. Fits(lock, intent)'
  BY <1>1 DEF LockFits
<1>4. command \in CallCommands /\ command.op = "apply"
  BY DEF LockFits, CallFits, CallCommands
<1>5. pc'[c] = "next" /\ cmd'[c] = command /\ plan'[c] = p
  BY <1>1 DEF LockFits, Shapes
<1>6. \A i \in ids : Outdated(i, lock)
  BY <1>1, InstalledExists DEF Available, Outdated, LockFits, Fits
<1>7. IsPlan(p) /\ p.all = ids /\ p.todo = ids /\ p.base = lock /\ p.said = intent
  BY DEF IsPlan
<1>. HIDE DEF command, p
<1>8. Applying(c)'
  <2>1. \A i \in ids : Outdated(i, lock)'
    BY <1>1, <1>6 DEF Outdated, UpdatesOf, Offered
  <2>2. Fits(plan'[c].base, plan'[c].said)
    BY <1>5, <1>7 DEF LockFits
  <2>. QED
    BY <1>1, <1>5, <1>7, <2>1, <2>2 DEF Applying
<1>9. CallFits(c)'
  BY <1>1, <1>4, <1>5, <1>7, <1>8 DEF CallFits
<1>10. \A d \in Calls \ {c} : Aside(d)
  BY <1>1 DEF LockFits, Shapes, Aside
<1>. QED
  BY <1>1, <1>2, <1>3, <1>9, <1>10, CallStep

LEMMA NextUpdateStep ==
  ASSUME LockFits, NEW c \in Calls, NextUpdate(c)
  PROVE  LockFits'
<1>. DEFINE i == First(plan[c].todo)
            p == [plan[c] EXCEPT !.todo = @ \ {i}]
            command == [op |-> "apply", id |-> i, ver |-> InstalledVersion(i)]
<1>1. CASE ~Updatable(i) /\ Fail(c)
  BY <1>1, FailStep DEF NextUpdate
<1>2. CASE Updatable(i)
  <2>1. SUFFICES ASSUME
           /\ pc' = [pc EXCEPT ![c] = "checking"] /\ cmd' = [cmd EXCEPT ![c] = command]
           /\ plan' = [plan EXCEPT ![c] = p]
           /\ UNCHANGED <<lock, listed, seen, stale, intent, touched>>
        PROVE LockFits'
    BY <1>1, <1>2 DEF NextUpdate, GoTo
  <2>2. pc[c] = "next"
    BY DEF NextUpdate
  <2>3. cmd[c].op = "apply" /\ plan[c].todo # {} /\ Applying(c) /\ IsPlan(plan[c])
    BY <2>2 DEF LockFits, CallFits
  <2>4. i \in plan[c].todo
    BY <2>3, RankAssumption DEF First, Applying
  <2>5. command \in CallCommands /\ command.op = "apply" /\ command.id = i /\ Exists(command)
    BY <1>2, InstalledExists DEF CallCommands, LockFits, Fits, Exists
  <2>6. /\ p = [all |-> plan[c].all, todo |-> plan[c].todo \ {i}, base |-> plan[c].base,
                said |-> plan[c].said]
    BY <2>3 DEF IsPlan
  <2>7. /\ IsPlan(p) /\ p.all = plan[c].all /\ p.todo = plan[c].todo \ {i}
        /\ p.base = plan[c].base /\ p.said = plan[c].said
    BY <2>6 DEF IsPlan
  <2>8. Shapes'
    BY <2>1 DEF LockFits, Shapes
  <2>9. Fits(lock, intent)'
    BY <2>1 DEF LockFits
  <2>10. pc'[c] = "checking" /\ cmd'[c] = command /\ plan'[c] = p
    BY <2>1 DEF LockFits, Shapes
  <2>. HIDE DEF command, p, i
  <2>11. Applying(c)'
    <3>1. \A j \in p.all : Outdated(j, p.base)
      BY <2>3, <2>7 DEF Applying
    <3>2. PICK b : b = p.base
      OBVIOUS
    <3>3. \A j \in p.all : Outdated(j, b)'
      BY <2>1, <3>1, <3>2 DEF Outdated, UpdatesOf, Offered
    <3>4. ASSUME c \notin touched', NEW j \in p.all \ p.todo, j # i
          PROVE  Settled(lock, intent, b, j)
      BY <2>1, <2>2, <2>3, <2>7, <3>2, <3>4 DEF Applying
    <3>. QED
      BY <2>1, <2>3, <2>4, <2>5, <2>7, <2>10, <3>2, <3>3, <3>4 DEF Applying
  <2>12. CallFits(c)'
    BY <2>1, <2>5, <2>7, <2>10, <2>11 DEF CallFits
  <2>13. \A d \in Calls \ {c} : Aside(d)
    BY <2>1 DEF LockFits, Shapes, Aside
  <2>. QED
    BY <2>1, <2>8, <2>9, <2>12, <2>13, CallStep
<1>. QED
  BY <1>1, <1>2 DEF NextUpdate

\* The newest version is newer than base's, whichever is installed meanwhile.
LEMMA LatestIsNewer ==
  ASSUME listed \subseteq World, NEW i \in Ids, NEW v, NEW base, Outdated(i, base),
         AllKnown(base.items), UpdatesOf(i, v) # {}, NEW x, x \in World, x.id = i, x.ver = v
  PROVE  LET new == Latest(UpdatesOf(i, v)) IN
         new \in World /\ new.id = i /\ Newer(i, new.ver, base)
<1>. DEFINE updates == UpdatesOf(i, v)
            new     == Latest(updates)
<1>1. updates \in SUBSET World
  BY DEF UpdatesOf, Offered
<1>2. new \in updates /\ \A y \in updates : y.date <= new.date
  BY <1>1, DatesAssumption DEF Latest
<1>3. new \in World /\ new.id = i /\ new.date > x.date
  BY <1>2, TheVersionIsIt DEF UpdatesOf, Offered
<1>4. PICK old \in base.items : old.id = i /\ UpdatesOf(i, old.ver) # {}
  BY DEF Outdated
<1>5. PICK y \in UpdatesOf(i, old.ver) : TRUE
  BY <1>4
<1>6. y \in World /\ y.id = i /\ y \in listed /\ y.date > TheVersion(i, old.ver).date
  BY <1>5 DEF UpdatesOf, Offered
<1>7. TheVersion(i, old.ver) \in World
  BY <1>4, ExistingVersion DEF AllKnown, Known
<1>8. y.date \in Int /\ x.date \in Int /\ new.date \in Int /\ TheVersion(i, old.ver).date \in Int
  BY <1>3, <1>6, <1>7, DatesAssumption
<1>9. y.date <= new.date
  <2>1. CASE y.date > x.date
    <3>1. y \in updates
      BY <1>6, <2>1, TheVersionIsIt DEF UpdatesOf, Offered
    <3>. QED
      BY <1>2, <3>1
  <2>2. CASE ~(y.date > x.date)
    BY <1>3, <1>8, <2>2
  <2>. QED
    BY <2>1, <2>2
<1>10. new.date > TheVersion(i, old.ver).date
  BY <1>6, <1>8, <1>9
<1>. QED
  BY <1>3, <1>4, <1>10 DEF Newer

LEMMA LatestExists ==
  ASSUME listed \subseteq World, NEW i, NEW v, UpdatesOf(i, v) # {}
  PROVE  Latest(UpdatesOf(i, v)) \in World /\ Latest(UpdatesOf(i, v)).id = i
<1>1. UpdatesOf(i, v) \in SUBSET World
  BY DEF UpdatesOf, Offered
<1>2. Latest(UpdatesOf(i, v)) \in UpdatesOf(i, v)
  BY <1>1, DatesAssumption DEF Latest
<1>. QED
  BY <1>2 DEF UpdatesOf, Offered

LEMMA ChooseStep ==
  ASSUME LockFits, NEW c \in Calls, ChooseUpdate(c)
  PROVE  LockFits'
<1>. DEFINE newer == UpdatesOf(cmd[c].id, cmd[c].ver)
            new   == Latest(newer)
            command == [cmd[c] EXCEPT !.ver = new.ver]
<1>1. CASE newer = {} /\ Fail(c)
  BY <1>1, FailStep DEF ChooseUpdate
<1>2. CASE newer # {}
  <2>1. SUFFICES ASSUME
           /\ pc' = [pc EXCEPT ![c] = "working"] /\ cmd' = [cmd EXCEPT ![c] = command]
           /\ seen' = [seen EXCEPT ![c] = lock] /\ stale' = stale \ {c}
           /\ UNCHANGED <<lock, listed, plan, intent, touched>>
        PROVE LockFits'
    BY <1>1, <1>2 DEF ChooseUpdate, GoTo, ReadDocuments
  <2>2. pc[c] = "checking"
    BY DEF ChooseUpdate
  <2>3. Exists(cmd[c]) /\ CallFits(c) /\ listed \subseteq World
    BY <2>2 DEF LockFits, CallFits, Shapes
  <2>4. new \in World /\ new.id = cmd[c].id
    BY <1>2, <2>3, LatestExists
  <2>5. /\ command \in CallCommands /\ Exists(command)
        /\ command.id = cmd[c].id /\ command.op = cmd[c].op /\ command.ver = new.ver
    <3>1. new.ver \in AllVersions
      BY <2>4 DEF AllVersions
    <3>. HIDE DEF new
    <3>. QED
      BY <2>3, <2>4, <3>1 DEF CallFits, CallCommands, Exists
  <2>6. cmd[c].op = "apply" => Newer(cmd[c].id, new.ver, plan[c].base)
    <3>. SUFFICES ASSUME cmd[c].op = "apply" PROVE Newer(cmd[c].id, new.ver, plan[c].base)
      OBVIOUS
    <3>1. /\ cmd[c].id \in Ids /\ Outdated(cmd[c].id, plan[c].base) /\ AllKnown(plan[c].base.items)
      BY <2>2, <2>3 DEF CallFits, Applying, Fits, SoundLock
    <3>2. PICK x \in World : x.id = cmd[c].id /\ x.ver = cmd[c].ver
      BY <2>3 DEF Exists
    <3>. QED
      BY <1>2, <2>3, <3>1, <3>2, LatestIsNewer
  <2>7. Shapes'
    BY <2>1 DEF LockFits, Shapes
  <2>8. Fits(lock, intent)'
    BY <2>1 DEF LockFits
  <2>9. /\ pc'[c] = "working" /\ cmd'[c] = command /\ seen'[c] = lock /\ c \notin stale'
        /\ plan'[c] = plan[c] /\ lock' = lock
    BY <2>1 DEF LockFits, Shapes
  <2>. HIDE DEF command, new, newer
  <2>10. Applying(c) /\ cmd[c].op = "apply" => Applying(c)'
    <3>. SUFFICES ASSUME Applying(c), cmd[c].op = "apply" PROVE Applying(c)'
      OBVIOUS
    <3>1. PICK b : b = plan[c].base
      OBVIOUS
    <3>2. \A j \in plan[c].all : Outdated(j, b)'
      BY <2>1, <3>1 DEF Applying, Outdated, UpdatesOf, Offered
    <3>3. ASSUME c \notin touched', NEW j \in plan[c].all \ plan[c].todo, j # command.id
          PROVE  Settled(lock, intent, b, j)
      BY <2>1, <2>2, <2>5, <3>1, <3>3 DEF Applying
    <3>4. Newer(command.id, command.ver, b)
      BY <2>5, <2>6, <3>1
    <3>5. command.id \in plan[c].all
      BY <2>2, <2>5 DEF Applying
    <3>. QED
      BY <2>1, <2>9, <3>1, <3>2, <3>3, <3>4, <3>5 DEF Applying
  <2>11. CallFits(c)'
    BY <2>2, <2>3, <2>5, <2>9, <2>10 DEF CallFits
  <2>12. \A d \in Calls \ {c} : Aside(d)
    BY <2>1 DEF LockFits, Shapes, Aside
  <2>. QED
    BY <2>1, <2>7, <2>8, <2>11, <2>12, CallStep
<1>. QED
  BY <1>1, <1>2 DEF ChooseUpdate

\* A list of updates keeps what it has settled, and settles one more.
LEMMA Settles ==
  ASSUME NEW l, NEW said, Fits(l, said), NEW w \in World,
         NEW next \in Install(l, w), ValidLock(next),
         NEW spoken, Speaks(spoken, said, w.id), NEW base
  PROVE  /\ \A i \in Ids : i # w.id /\ Settled(l, said, base, i) => Settled(next, spoken, base, i)
         /\ Newer(w.id, w.ver, base) => Settled(next, spoken, base, w.id)
<1>1. ASSUME NEW i \in Ids, i # w.id, Settled(l, said, base, i)
      PROVE  Settled(next, spoken, base, i)
  <2>1. PICK v \in AllVersions : Selects(l, i, v) /\ Newer(i, v, base)
    BY <1>1 DEF Settled
  <2>2. said[i] # "none" /\ spoken[i] = said[i]
    BY <1>1 DEF Settled, Speaks
  <2>3. Selects(next, i, v)
    BY <1>1, <2>1, <2>2, ComputedFits
  <2>. QED
    BY <2>1, <2>2, <2>3 DEF Settled
<1>2. ASSUME Newer(w.id, w.ver, base) PROVE Settled(next, spoken, base, w.id)
  <2>1. Selects(next, w.id, w.ver)
    BY ComputedFits
  <2>2. w.ver \in AllVersions /\ spoken[w.id] # "none"
    BY DEF AllVersions, Speaks
  <2>. QED
    BY <1>2, <2>1, <2>2 DEF Settled
<1>. QED
  BY <1>1, <1>2

\* The lock, and what the user has said, once a call has committed.
LEMMA CommitFits ==
  ASSUME LockFits, NEW c \in Calls, pc[c] = "working", NEW next \in Computed(c), Commit(c, next),
         intent' = [intent EXCEPT ![cmd[c].id] =
                       IF cmd[c].op = "install" \/ @ = "none" THEN "on" ELSE @]
  PROVE  /\ lock' = next /\ stale' = stale \cup (Waiting \ {c})
         /\ touched' = touched \cup (Waiting \ {c})
         /\ Fits(lock, intent)'
         /\ \A base : \A i \in Ids : i # cmd[c].id /\ Settled(lock, intent, base, i) =>
                                        Settled(next, intent', base, i)
         /\ \A base : Newer(cmd[c].id, cmd[c].ver, base) =>
                         Settled(next, intent', base, cmd[c].id)
<1>. DEFINE w == TheVersion(cmd[c].id, cmd[c].ver)
            spoken == intent'
<1>1. /\ c \notin stale /\ ValidLock(next)
      /\ lock' = next /\ stale' = stale \cup (Waiting \ {c})
      /\ touched' = touched \cup (Waiting \ {c})
  BY DEF Commit, NewRevision
<1>2. Exists(cmd[c]) /\ seen[c] = lock /\ Fits(lock, intent)
  BY <1>1 DEF LockFits, CallFits
<1>3. w \in World /\ w.id = cmd[c].id /\ w.ver = cmd[c].ver /\ cmd[c].id \in Ids
  BY <1>2, ExistingVersion
<1>. HIDE DEF w
<1>4. next \in Install(lock, w)
  BY <1>2 DEF Computed, w
<1>5. Speaks(spoken, intent, w.id)
  BY <1>2, <1>3 DEF Speaks, Fits, Words
<1>. HIDE DEF spoken
<1>6. Fits(next, spoken)
  BY <1>1, <1>2, <1>3, <1>4, <1>5, ComputedFits
<1>7. ASSUME NEW base
      PROVE  /\ \A i \in Ids : i # w.id /\ Settled(lock, intent, base, i) =>
                                  Settled(next, spoken, base, i)
             /\ Newer(w.id, w.ver, base) => Settled(next, spoken, base, w.id)
  BY <1>1, <1>2, <1>3, <1>4, <1>5, Settles
<1>. QED
  BY <1>1, <1>3, <1>6, <1>7 DEF spoken

\* The ways a call that works can go on.
Committing(c, next) ==
    /\ Commit(c, next)
    /\ IF plan[c].todo # {} THEN GoTo(c, "next") /\ UNCHANGED <<seen, cmd, plan>> ELSE Return(c)
    /\ intent' = [intent EXCEPT ![cmd[c].id] =
                     IF cmd[c].op = "install" \/ @ = "none" THEN "on" ELSE @]

LEMMA FinishCases ==
  ASSUME NEW c, Finish(c)
  PROVE  /\ pc[c] = "working" /\ UNCHANGED listed
         /\ (\E next \in Computed(c) : Committing(c, next)) \/ Fail(c)
BY DEF Finish, Committing

\* With its last commit a list of updates has settled all of them.
LEMMA CommitSettles ==
  ASSUME LockFits, NEW c \in Calls, pc[c] = "working", cmd[c].op = "apply", c \notin touched,
         NEW next \in Computed(c), Committing(c, next), NEW i \in plan[c].all \ plan[c].todo
  PROVE  Settled(next, intent', plan[c].base, i)
<1>1. Applying(c) /\ i \in Ids
  BY DEF LockFits, CallFits, Applying
<1>2. PICK b : b = plan[c].base
  OBVIOUS
<1>3. /\ \A j \in Ids : j # cmd[c].id /\ Settled(lock, intent, b, j) => Settled(next, intent', b, j)
      /\ Newer(cmd[c].id, cmd[c].ver, b) => Settled(next, intent', b, cmd[c].id)
  BY CommitFits DEF Committing
<1>4. i # cmd[c].id => Settled(lock, intent, b, i)
  BY <1>1, <1>2 DEF Applying
<1>5. Newer(cmd[c].id, cmd[c].ver, b)
  BY <1>1, <1>2 DEF Applying
<1>. QED
  BY <1>1, <1>2, <1>3, <1>4, <1>5

LEMMA CommitStep ==
  ASSUME LockFits, NEW c \in Calls, pc[c] = "working", NEW next \in Computed(c),
         Committing(c, next), UNCHANGED listed
  PROVE  LockFits'
<1>1. /\ lock' = next /\ stale' = stale \cup (Waiting \ {c})
      /\ touched' = touched \cup (Waiting \ {c}) /\ Fits(lock, intent)'
  BY CommitFits DEF Committing
<1>2. CASE plan[c].todo = {}
  <2>1. Return(c)
    BY <1>2 DEF Committing
  <2>2. Shapes'
    BY <1>1, <2>1 DEF LockFits, Shapes, Return, GoTo, Waiting
  <2>3. CallFits(c)' /\ \A d \in Calls \ {c} : Aside(d)
    BY <1>1, <2>1, ReturnFits DEF Aside, Waiting
  <2>. QED
    BY <1>1, <2>2, <2>3, CallStep
<1>3. CASE plan[c].todo # {}
  <2>1. pc' = [pc EXCEPT ![c] = "next"] /\ UNCHANGED <<seen, cmd, plan>>
    BY <1>3 DEF Committing, GoTo
  <2>2. CallFits(c) /\ cmd[c].op = "apply" /\ Applying(c)
    BY <1>3 DEF LockFits, CallFits, NoPlan
  <2>3. Shapes'
    BY <1>1, <2>1 DEF LockFits, Shapes, Waiting
  <2>4. /\ pc'[c] = "next" /\ cmd'[c] = cmd[c] /\ plan'[c] = plan[c]
        /\ c \notin touched' => c \notin touched
    BY <1>1, <2>1 DEF LockFits, Shapes
  <2>5. Applying(c)'
    <3>1. PICK b : b = plan[c].base
      OBVIOUS
    <3>2. \A j \in plan[c].all : Outdated(j, b)'
      BY <2>2, <3>1 DEF Applying, Outdated, UpdatesOf, Offered
    <3>3. ASSUME c \notin touched', NEW j \in plan[c].all \ plan[c].todo
          PROVE  Settled(lock', intent', b, j)
      BY <1>1, <2>2, <2>4, <3>1, <3>3, CommitSettles
    <3>. QED
      BY <2>2, <2>4, <3>1, <3>2, <3>3 DEF Applying
  <2>6. CallFits(c)'
    BY <1>3, <2>2, <2>4, <2>5 DEF CallFits
  <2>7. \A d \in Calls \ {c} : Aside(d)
    BY <1>1, <2>1 DEF LockFits, Shapes, Aside, Waiting
  <2>. QED
    BY <1>1, <2>3, <2>6, <2>7, CallStep
<1>. QED
  BY <1>2, <1>3

-----------------------------------------------------------------------------
(* The theorems about the content lock *)

LEMMA StepFits ==
  ASSUME LockFits, [Next]_vars
  PROVE  LockFits'
<1>1. ASSUME NEW c \in Calls, Work(c) PROVE LockFits'
  <2>1. CASE NextUpdate(c)
    BY <2>1, NextUpdateStep
  <2>2. CASE ChooseUpdate(c)
    BY <2>2, ChooseStep
  <2>3. CASE Finish(c)
    BY <2>3, FinishCases, CommitStep, FailStep
  <2>. QED
    BY <1>1, <2>1, <2>2, <2>3 DEF Work
<1>2. ASSUME NEW c \in Calls, NEW i \in Ids, BeginUpdate(c, i) PROVE LockFits'
  BY <1>2, UpdateStep
<1>3. ASSUME NEW c \in Calls, NEW w \in World, StartInstall(c, w) PROVE LockFits'
  BY <1>3, StartStep
<1>4. ASSUME NEW c \in Calls, NEW ids \in SUBSET Ids, BeginApply(c, ids) PROVE LockFits'
  BY <1>4, BeginApplyStep
<1>5. ASSUME NEW it \in lock.items, Remove(it) \/ \E on \in BOOLEAN : Toggle(it, on)
      PROVE  LockFits'
  BY <1>5, OnePieceSteps
<1>6. ASSUME NEW w \in World, AddLocalFile(w) \/ ListVersion(w) PROVE LockFits'
  BY <1>6, OnePieceSteps, ListStep
<1>7. CASE UNCHANGED vars
  <2>1. UNCHANGED <<lock, listed, pc, seen, cmd, stale, plan, intent, touched>>
    BY <1>7 DEF vars
  <2>2. Shapes' /\ Fits(lock, intent)'
    BY <2>1 DEF LockFits, Shapes
  <2>3. \A d \in Calls : Aside(d)
    BY <2>1 DEF Aside
  <2>. QED
    BY <2>1, <2>2, <2>3, LockStep
<1>. QED
  BY <1>1, <1>2, <1>3, <1>4, <1>5, <1>6, <1>7 DEF Next

LEMMA FitsFollow ==
  ASSUME LockFits
  PROVE  LockFollowsIntent
<1>1. SoundLock(lock) /\ SelectionsFit(lock.requested, lock.members, intent)
  BY DEF LockFits, Fits
<1>2. IdsOf(lock.items) \subseteq Ids /\ IdsOf(lock.requested) \subseteq Ids
  BY <1>1, ExistingVersion DEF SoundLock, AllKnown, Known, IdsOf, Selections
<1>3. TypeOK
  BY <1>2 DEF LockFits, Shapes, TypeOK, CallFits, Fits, Words
<1>. QED
  BY <1>1, <1>3 DEF LockFollowsIntent, SelectionsFit, SoundLock, OverridesFit, OverridesOf

\* What is selected is what the user has asked for and what the installed packs
\* contain, and the override files are theirs, through every sequence of installs,
\* imports, updates, removals and failures of content_service.rs.
THEOREM FollowsIntent == Spec => []LockFollowsIntent
<1>1. Init => LockFits
  BY InitFits
<1>2. LockFits /\ [Next]_vars => LockFits'
  BY StepFits
<1>3. LockFits => LockFollowsIntent
  BY FitsFollow
<1>. QED
  BY <1>1, <1>2, <1>3, PTL DEF Spec

LEMMA FailLock ==
  ASSUME NEW c, Fail(c), cmd[c].op = "apply"
  PROVE  lock' = plan[c].base
BY DEF Fail, NewRevision

LEMMA SettledIsUpdated ==
  ASSUME NEW l, ValidLock(l), NEW said, NEW base, NEW i, Settled(l, said, base, i)
  PROVE  Updated(i, base, l)
<1>1. PICK v \in AllVersions : Selects(l, i, v) /\ Newer(i, v, base)
  BY DEF Settled
<1>2. PICK new \in l.items : new.id = i /\ new.ver = v
  BY <1>1 DEF ValidLock, SelectionsValid, Selects
<1>3. PICK w \in World, old \in base.items :
        w.id = i /\ w.ver = v /\ old.id = i /\ w.date > TheVersion(i, old.ver).date
  BY <1>1 DEF Newer
<1>. QED
  BY <1>2, <1>3, TheVersionIsIt DEF Updated

LEMMA ApplyStep ==
  ASSUME LockFits, [Next]_vars, NEW c \in Calls,
         cmd[c].op = "apply", pc'[c] = "idle", c \notin touched
  PROVE  lock' = plan[c].base \/ \A i \in plan[c].all : Updated(i, plan[c].base, lock')
<1>1. pc[c] # "idle"
  BY DEF LockFits, CallFits, NoCommand
<1>2. NextUpdate(c) \/ ChooseUpdate(c) \/ Finish(c)
  <2>1. ASSUME NEW d \in Calls, Work(d) PROVE pc' = [pc EXCEPT ![d] = pc'[d]]
    BY <2>1 DEF Work, NextUpdate, ChooseUpdate, Finish, Fail, Return, GoTo, LockFits, Shapes
  <2>2. ASSUME NEW d \in Calls, Work(d), d # c PROVE FALSE
    BY <1>1, <2>1, <2>2 DEF LockFits, Shapes
  <2>3. ASSUME NEW d \in Calls, NEW i \in Ids, BeginUpdate(d, i) PROVE FALSE
    BY <1>1, <2>3 DEF BeginUpdate, GoTo, LockFits, Shapes
  <2>4. ASSUME NEW d \in Calls, NEW w \in World, StartInstall(d, w) PROVE FALSE
    BY <1>1, <2>4 DEF StartInstall, GoTo, LockFits, Shapes
  <2>5. ASSUME NEW d \in Calls, NEW ids \in SUBSET Ids, BeginApply(d, ids) PROVE FALSE
    BY <1>1, <2>5 DEF BeginApply, GoTo, LockFits, Shapes
  <2>6. ASSUME NEW it \in lock.items, Remove(it) \/ \E on \in BOOLEAN : Toggle(it, on) PROVE FALSE
    BY <1>1, <2>6 DEF Remove, Toggle, Now
  <2>7. ASSUME NEW w \in World, AddLocalFile(w) \/ ListVersion(w) PROVE FALSE
    BY <1>1, <2>7 DEF AddLocalFile, ListVersion, Now
  <2>8. CASE UNCHANGED vars
    BY <1>1, <2>8 DEF vars
  <2>. QED
    BY <2>2, <2>3, <2>4, <2>5, <2>6, <2>7, <2>8 DEF Next, Work
<1>3. CASE Fail(c)
  BY <1>3, FailLock
<1>4. ASSUME NEW next \in Computed(c), pc[c] = "working", Committing(c, next)
      PROVE  \A i \in plan[c].all : Updated(i, plan[c].base, lock')
  <2>1. plan[c].todo = {}
    BY <1>4 DEF Committing, GoTo, LockFits, Shapes
  <2>2. lock' = next /\ ValidLock(next)
    BY <1>4 DEF Committing, Commit, NewRevision
  <2>3. ASSUME NEW i \in plan[c].all PROVE Updated(i, plan[c].base, lock')
    <3>1. Settled(next, intent', plan[c].base, i)
      BY <1>4, <2>1, CommitSettles
    <3>. QED
      BY <2>2, <3>1, SettledIsUpdated
  <2>. QED
    BY <2>3
<1>5. NextUpdate(c) => Fail(c)
  BY DEF NextUpdate, GoTo, LockFits, Shapes
<1>6. ChooseUpdate(c) => Fail(c)
  BY DEF ChooseUpdate, GoTo, LockFits, Shapes
<1>. QED
  BY <1>2, <1>3, <1>4, <1>5, <1>6, FinishCases

\* apply_updates ends with every update of its list or with the profile it
\* began with, unless another command has committed meanwhile.
THEOREM AppliesAllOrNothing == Spec => ApplyAllOrNothing
<1>1. Init => LockFits
  BY InitFits
<1>2. LockFits /\ [Next]_vars => LockFits'
  BY StepFits
<1>3. LockFits /\ [Next]_vars =>
        [\A c \in Calls :
            (cmd[c].op = "apply" /\ pc'[c] = "idle" /\ c \notin touched) =>
                lock' = plan[c].base \/ \A i \in plan[c].all : Updated(i, plan[c].base, lock')]_vars
  BY ApplyStep
<1>. QED
  BY <1>1, <1>2, <1>3, PTL DEF Spec, ApplyAllOrNothing
=============================================================================
