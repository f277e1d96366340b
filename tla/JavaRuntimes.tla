---------------------------- MODULE JavaRuntimes ----------------------------
(***************************************************************************)
(* The Java a game is started with (minecraft/java_runtime.rs): the one    *)
(* the launcher downloads for a major version, one of the system, or one   *)
(* the player chose.                                                       *)
(*                                                                         *)
(* Installations and launches of several profiles ask for it at the same   *)
(* time.  The lock covers an installation, not the search for a directory  *)
(* that could be moved into place, which comes before it.  A home is       *)
(* [exe, whole, build, stamp]: whether the executable is there, whether    *)
(* everything it needs is, which build it is of, and the times of the      *)
(* executable's file, which tell one from any other.                       *)
(***************************************************************************)
EXTENDS Absence, Integers, Sequences, FiniteSets

CONSTANTS
    Callers,
    Major,          \* what the runtime asks for
    Builds,         \* [exe, major, bits] of archives that may arrive
    SystemJavas,    \* sequences of homes below the controlled directories
    MaxJavaCrashes, MaxSwaps

VARIABLES
    current,        \* runtimes/java/{major}/current, or None
    installing,     \* the home below "installing", or None
    probeMarker,    \* stamp in current's .snine-java-probe-v1, or None
    installLock,    \* MANAGED_JAVA_INSTALL_LOCK: its holder, or None
    caller,         \* [pc, build, got]
    javaCrashes, swaps

javaVars == <<current, installing, probeMarker, installLock, caller,
              javaCrashes, swaps>>
disk == <<current, installing, probeMarker>>
bounds == <<javaCrashes, swaps>>

(* The times of a file just written: those of no file around. *)
Stamps == {h.stamp : h \in {current, installing} \ {None}} \cup {probeMarker}
Fresh == CHOOSE n \in 1 .. 4 : n \notin Stamps /\ \A k \in 1 .. n - 1 : k \in Stamps

(* probe: the executable runs and says the right version and 64 bits. *)
Runs(home) ==
    /\ home # None /\ home.exe /\ home.whole
    /\ home.build.major = Major /\ home.build.bits = 64

HasExe(home) == home # None /\ home.exe

Asking == [pc |-> "idle", build |-> None, got |-> None]
At(c, pc) == caller[c].pc = pc
Goto(c, pc) == caller' = [caller EXCEPT ![c].pc = pc]
Got(c, home) == caller' = [caller EXCEPT ![c].pc = "done", ![c].got = home]

JavaInit ==
    /\ current = None /\ installing = None /\ probeMarker = None
    /\ installLock = None
    /\ caller = [c \in Callers |-> Asking]
    /\ javaCrashes = 0 /\ swaps = 0

-----------------------------------------------------------------------------
(* recover_managed_layout: a home found below the directory takes the place
   of one without executable.  The rename may fail, and what was there is
   gone then. *)
Recovers ==
    /\ ~HasExe(current) /\ HasExe(installing)
    /\ current' = installing /\ installing' = None /\ probeMarker' = None
RecoveryFails ==
    /\ ~HasExe(current) /\ HasExe(installing)
    /\ current' = None /\ probeMarker' = None
    /\ UNCHANGED installing
NothingToRecover ==
    /\ ~HasExe(current) /\ ~HasExe(installing)
    /\ UNCHANGED disk

(* ensure_managed_executable up to the lock *)
AskManaged(c) ==
    /\ At(c, "idle")
    /\ \/ HasExe(current) /\ Goto(c, "found") /\ UNCHANGED disk
       \/ Recovers /\ Goto(c, "found")
       \/ (RecoveryFails \/ NothingToRecover) /\ Goto(c, "wait")
    /\ UNCHANGED <<installLock, bounds>>

(* With the lock it looks again, and the installation starts in an empty
   directory. *)
TakeLock(c) ==
    /\ At(c, "wait") /\ installLock = None
    /\ \/ /\ HasExe(current) \/ Recovers
          /\ HasExe(current) => UNCHANGED disk
          /\ Goto(c, "found") /\ UNCHANGED installLock
       \/ /\ ~HasExe(current)
          /\ installing' = None /\ installLock' = c
          /\ Goto(c, "download")
          /\ \/ ~HasExe(installing) /\ UNCHANGED <<current, probeMarker>>
             \/ HasExe(installing) /\ current' = None /\ probeMarker' = None
    /\ UNCHANGED bounds

Failed(c) ==
    /\ caller' = [caller EXCEPT ![c] = [Asking EXCEPT !.pc = "failed"]]
    /\ installLock' = IF installLock = c THEN None ELSE installLock

(* The archive arrives, or not: too short, too long, no answer. *)
DownloadJava(c, build) ==
    /\ At(c, "download")
    /\ caller' = [caller EXCEPT ![c].pc = "extract", ![c].build = build]
    /\ UNCHANGED <<disk, installLock, bounds>>
DownloadJavaFails(c) ==
    /\ At(c, "download") /\ Failed(c)
    /\ UNCHANGED <<disk, bounds>>

(* extract_managed_java_archive: file after file, the executable before the
   libraries it needs.  Directories that were moved away come into being
   again for what is left. *)
ExtractExecutable(c) ==
    /\ At(c, "extract") /\ caller[c].build.exe
    /\ installing' = [exe |-> TRUE, whole |-> FALSE, build |-> caller[c].build,
                      stamp |-> Fresh]
    /\ Goto(c, "libraries")
    /\ UNCHANGED <<current, probeMarker, installLock, bounds>>
ExtractRest(c) ==
    /\ At(c, "libraries")
    /\ installing' = IF installing = None
                     THEN [exe |-> FALSE, whole |-> FALSE, build |-> caller[c].build,
                           stamp |-> 0]
                     ELSE [installing EXCEPT !.whole = TRUE]
    /\ Goto(c, "extracted")
    /\ UNCHANGED <<current, probeMarker, installLock, bounds>>
(* A damaged archive, a full disk; the directory stays. *)
ExtractFails(c) ==
    /\ At(c, "libraries") \/ (At(c, "extract") /\ ~caller[c].build.exe)
    /\ Failed(c)
    /\ UNCHANGED <<disk, bounds>>

(* find_java_home and the probe of what was extracted *)
ProbeExtracted(c) ==
    /\ At(c, "extracted")
    /\ IF Runs(installing) THEN Goto(c, "place") /\ UNCHANGED installLock ELSE Failed(c)
    /\ UNCHANGED <<disk, bounds>>

(* The rest of install_managed_runtime: what is in the way is removed first. *)
PlaceJava(c) ==
    /\ At(c, "place")
    /\ current' = installing /\ installing' = None /\ probeMarker' = None
    /\ IF installing = None THEN Failed(c)
       ELSE Goto(c, "found") /\ installLock' = None
    /\ UNCHANGED bounds

-----------------------------------------------------------------------------
(* resolve: the marker saves the probe. *)
MarkerFitsAny == current # None /\ probeMarker # None  \* of any executable
MarkerFits == current # None /\ probeMarker # None /\ probeMarker = current.stamp

UseMarked(c) ==
    /\ At(c, "found") /\ HasExe(current) /\ MarkerFits
    /\ Got(c, current)
    /\ UNCHANGED <<disk, installLock, bounds>>
(* Nothing is awaited between the end of the probe and the marker, which
   write_managed_probe_cache writes for the executable that is there. *)
ProbeManaged(c) ==
    /\ At(c, "found") /\ ~(HasExe(current) /\ MarkerFits)
    /\ IF Runs(current)
       THEN probeMarker' = current.stamp /\ Got(c, current) /\ UNCHANGED installLock
       ELSE Failed(c) /\ UNCHANGED probeMarker
    /\ UNCHANGED <<current, installing, bounds>>

(* A policy of the system takes the first candidate that runs; a custom
   executable is the only candidate. *)
FirstRunning(homes, i) == Runs(homes[i]) /\ \A k \in 1 .. i - 1 : ~Runs(homes[k])
ResolveFrom(c, homes) ==
    /\ At(c, "idle")
    /\ \/ \E i \in DOMAIN homes : FirstRunning(homes, i) /\ Got(c, homes[i])
       \/ (\A i \in DOMAIN homes : ~Runs(homes[i])) /\ Goto(c, "failed")
    /\ UNCHANGED <<disk, installLock, bounds>>

AskAgain(c) ==
    /\ caller[c].pc \in {"done", "failed"}
    /\ caller' = [caller EXCEPT ![c] = Asking]
    /\ UNCHANGED <<disk, installLock, bounds>>

-----------------------------------------------------------------------------
JavaCrash ==
    /\ javaCrashes < MaxJavaCrashes
    /\ javaCrashes' = javaCrashes + 1
    /\ caller' = [c \in Callers |-> Asking] /\ installLock' = None
    /\ UNCHANGED <<disk, swaps>>

(* The player puts another executable in the place of the managed one. *)
SwapExecutable(build) ==
    /\ HasExe(current) /\ swaps < MaxSwaps
    /\ \A c \in Callers : ~At(c, "place")
    /\ swaps' = swaps + 1
    /\ current' = [current EXCEPT !.build = build, !.stamp = Fresh]
    /\ UNCHANGED <<installing, probeMarker, installLock, caller, javaCrashes>>

CallerStep(c) ==
    \/ AskManaged(c) \/ TakeLock(c)
    \/ \E build \in Builds : DownloadJava(c, build)
    \/ DownloadJavaFails(c) \/ ExtractExecutable(c) \/ ExtractRest(c)
    \/ ExtractFails(c) \/ ProbeExtracted(c) \/ PlaceJava(c)
    \/ UseMarked(c) \/ ProbeManaged(c)

JavaNext ==
    \/ \E c \in Callers : CallerStep(c) \/ AskAgain(c)
    \/ \E c \in Callers : \E homes \in SystemJavas : ResolveFrom(c, homes)
    \/ JavaCrash
    \/ \E build \in Builds : SwapExecutable(build)

-----------------------------------------------------------------------------
(* Whoever is given a Java is given one that has been seen to run, is of the
   version asked for and has 64 bits, although the marker makes most callers
   skip the look: whenever the marker is of the executable that is there,
   that one would pass.  Concurrent searches, interrupted installations and a
   swapped executable do not change that.  Covers resolve,
   ensure_managed_executable, install_managed_runtime and the probe cache. *)
JavaIsProbed ==
    /\ \A c \in Callers : At(c, "done") => Runs(caller[c].got)
    /\ MarkerFits /\ HasExe(current) => Runs(current)
=============================================================================
