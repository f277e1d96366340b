--------------------------- MODULE InstalledFiles ---------------------------
(***************************************************************************)
(* What a launch finds on the disk: the cache of native libraries, the     *)
(* files of the installed runtime and the Java of the launcher.  Each has  *)
(* state of its own, and they change side by side.                         *)
(***************************************************************************)
EXTENDS NativeCache, JavaRuntimes, Installation

FilesSpec(locks) ==
    /\ NativesInit(locks) /\ [][NativesNext]_natVars
    /\ JavaInit /\ [][JavaNext]_javaVars
    /\ InstallInit /\ [][InstallNext]_installVars

-----------------------------------------------------------------------------
(* What a launch uses because a marker, a row or an earlier run says that it is
   there has been found whole, wherever the process ended meanwhile.  Covers
   the native cache, the installation of a runtime and the search for Java. *)
UsedFilesAreWhole == NativesComplete /\ InstalledIsWhole /\ JavaIsProbed
=============================================================================
