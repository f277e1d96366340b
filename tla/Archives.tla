------------------------------ MODULE Archives ------------------------------
(***************************************************************************)
(* The checks every archive passes before the launcher reads a byte of its *)
(* contents: jar files (runtime/component.rs), content archives            *)
(* (content/archive.rs) and the paths they name (security/paths.rs).       *)
(*                                                                         *)
(* A path is a sequence of component names.  Two paths are the same place  *)
(* on the reference platform when their collision keys are equal: Folded   *)
(* gives the key of one component (normalised and in lower case).          *)
(*                                                                         *)
(* An archive is the sequence of its entries, in central-directory order:  *)
(*   path    the components of the name, without a closing slash           *)
(*   dir     the name ends with a slash                                    *)
(*   sound   every component passes validate_component, the text is UTF-8  *)
(*           and equal to its canonical form                               *)
(*   sealed  the entry is encrypted                                        *)
(*   mode    the type bits of the Unix mode: "none", "file", "dir", "link" *)
(*   packed, size   the lengths the directory states                       *)
(***************************************************************************)
EXTENDS Absence, Integers, Sequences, FiniteSets
LOCAL INSTANCE FiniteSetsExt

CONSTANTS
    Folded,         \* the collision key of every component name
    Reserved        \* folded names that may not start an override's path

Fold(path) == [i \in DOMAIN path |-> Folded[path[i]]]
Key(e) == Fold(e.path)
Above(key) == {SubSeq(key, 1, n) : n \in 1 .. Len(key) - 1}

Total(s, F(_)) == MapThenSumSet(LAMBDA i : F(s[i]), DOMAIN s)
SizeOf(e) == e.size
PackedOf(e) == e.packed

(* validate_unix_mode, validate_jar_entry_type: a stated type must be that
   of the name. *)
ModeFits(e) == e.mode \in {"none", IF e.dir THEN "dir" ELSE "file"}

(* Neither more than the limit of one entry nor compressed beyond the
   ratio; an empty file is never compressed too much. *)
SizeFits(e, limits) ==
    /\ e.size <= limits.entry
    /\ e.size > 0 => e.packed > 0 /\ e.size <= e.packed * limits.ratio

(* No two entries at one place. *)
Apart(s) == \A i, j \in DOMAIN s : i # j => Key(s[i]) # Key(s[j])

(* No file where another entry needs a directory. *)
NoFileAbove(s) ==
    \A i, j \in DOMAIN s : ~s[j].dir => Key(s[j]) \notin Above(Key(s[i]))

-----------------------------------------------------------------------------
(* runtime/component.rs: jars of components and of native libraries. *)

JarEntryFits(e, limits) ==
    /\ e.sound
    /\ ~e.sealed /\ ModeFits(e)
    /\ IF e.dir THEN e.packed = 0 /\ e.size = 0 ELSE SizeFits(e, limits)

JarAccepted(s, limits) ==
    /\ Len(s) \in 1 .. limits.entries
    /\ \A i \in DOMAIN s : JarEntryFits(s[i], limits)
    /\ Total(s, PackedOf) <= limits.packed
    /\ Total(s, SizeOf) <= limits.total
    /\ Apart(s)
    /\ NoFileAbove(s)

-----------------------------------------------------------------------------
(* content/archive.rs: mods, resource packs, shader packs and modpacks. *)

ContentEntryFits(e, limits) ==
    /\ ~e.sealed
    /\ e.sound
    /\ ModeFits(e)
    /\ IF e.dir THEN e.size = 0 /\ e.packed <= 1 ELSE SizeFits(e, limits)

(* The file an archive of a kind must hold.  The names of the code are
   looked up among collision keys. *)
Descriptors(kind) ==
    CASE kind = "mod" -> {<<"fabric.mod.json">>,
                          <<"META-INF", "neoforge.mods.toml">>,
                          <<"META-INF", "mods.toml">>}
      [] kind = "modpack" -> {<<"modrinth.index.json">>,
                              <<"manifest.json">>, <<"s9lab-modpack.json">>}
      [] kind = "resourcepack" -> {<<"pack.mcmeta">>}

FileKeys(s) == {Key(s[i]) : i \in {j \in DOMAIN s : ~s[j].dir}}

HasDescriptor(kind, s) ==
    IF kind = "shaderpack"
    THEN \E k \in FileKeys(s) : Len(k) > 1 /\ Head(k) = "shaders"
    ELSE Descriptors(kind) \cap FileKeys(s) # {}

FilesOf(s) == SelectSeq(s, LAMBDA e : ~e.dir)

ContentAccepted(kind, s, limits) ==
    /\ Len(s) \in 1 .. limits.entries
    /\ \A i \in DOMAIN s : ContentEntryFits(s[i], limits)
    /\ Apart(s)
    /\ Total(FilesOf(s), PackedOf) <= limits.packed
    /\ Total(FilesOf(s), SizeOf) <= limits.total
    /\ NoFileAbove(s)
    /\ HasDescriptor(kind, s)

-----------------------------------------------------------------------------
(* validate_content_override_target: where a pack may put a file. *)
OverrideTargetFits(path, sound, risky) ==
    /\ sound
    /\ Folded[Head(path)] \notin Reserved
    /\ ~risky

-----------------------------------------------------------------------------
(* security/fs.rs open_new_file below a directory: the parents are created
   when nothing has their name, and the file must be new.  files is the set
   of keys of the files that exist; directories exist only above files. *)
CanCreate(files, key) ==
    /\ key \notin files
    /\ Above(key) \cap files = {}
    /\ \A f \in files : key \notin Above(f)

=============================================================================
