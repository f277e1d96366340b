-------------------------- MODULE InstanceSettings --------------------------
(***************************************************************************)
(* The settings file of a profile (minecraft/instance_settings.rs): saved  *)
(* by the player's command, and by a launch that marks when it was played, *)
(* with one name for the temporary file and one for the previous one.      *)
(*                                                                         *)
(* Content is [value, played]; the custom Java of a value may disappear.   *)
(***************************************************************************)
EXTENDS Absence, Naturals

CONSTANTS
    Writers,        \* commands and launches that save
    Values,         \* what the player may choose
    JavaValues,     \* those that name an executable of the player
    Defaults,       \* InstanceSettings::default
    MaxSaves, MaxSettingsCrashes

SettingsContents == [value : Values \cup {Defaults}, played : BOOLEAN]

\* Having no file is not one of its contents.
ASSUME SettingsAssumption == None \notin SettingsContents

VARIABLES
    saved, partFile, previousFile,   \* a content, or None
    writer,         \* [pc, new]
    javaThere,      \* whether the player's executable is still there
    picked,         \* what the player saved last
    disturbed,      \* whether another writer or the end of the process came
                    \* in between since
    saves, settingsCrashes

settingsVars == <<saved, partFile, previousFile, writer, javaThere, picked,
                  disturbed, saves, settingsCrashes>>
settingsFiles == <<saved, partFile, previousFile>>
settingsOthers == <<javaThere, picked, disturbed, saves, settingsCrashes>>

Resting == [pc |-> "idle", new |-> None]
Does(w, pc) == writer[w].pc = pc
Goes(w, pc) == writer' = [writer EXCEPT ![w].pc = pc]

SettingsInit ==
    /\ saved = None /\ partFile = None /\ previousFile = None
    /\ writer = [w \in Writers |-> Resting]
    /\ javaThere = TRUE /\ picked = None /\ disturbed = FALSE
    /\ saves = 0 /\ settingsCrashes = 0

-----------------------------------------------------------------------------
(* validate_settings: the executable is looked at every time. *)
Valid(content) == content.value \in JavaValues => javaThere

(* load *)
Loaded == IF saved = None THEN [value |-> Defaults, played |-> FALSE] ELSE saved

Quiet == \A w \in Writers : Does(w, "idle")

Begin(w, new) ==
    /\ Does(w, "idle") /\ saves < MaxSaves
    /\ Valid(Loaded)
    /\ writer' = [writer EXCEPT ![w] = [pc |-> "clear", new |-> new]]
    /\ saves' = saves + 1
    /\ UNCHANGED <<settingsFiles, javaThere, settingsCrashes>>

(* save_instance_settings: what is there must load before it is replaced. *)
BeginSave(w, value) ==
    /\ value \in JavaValues => javaThere
    /\ Begin(w, [value |-> value, played |-> Loaded.played])
    /\ picked' = value /\ disturbed' = ~Quiet

(* mark_played, with what it would be without what was loaded. *)
MarkPlayedFresh(w) ==
    /\ Begin(w, [value |-> Defaults, played |-> TRUE])
    /\ disturbed' = (disturbed \/ ~Quiet)
    /\ UNCHANGED picked
MarkPlayed(w) ==
    /\ Begin(w, [Loaded EXCEPT !.played = TRUE])
    /\ disturbed' = (disturbed \/ ~Quiet)
    /\ UNCHANGED picked

(* save: what is left of an earlier one goes first. *)
ClearPart(w) ==
    /\ Does(w, "clear")
    /\ partFile' = None /\ Goes(w, "clear-previous")
    /\ UNCHANGED <<saved, previousFile, settingsOthers>>
ClearPrevious(w) ==
    /\ Does(w, "clear-previous")
    /\ previousFile' = None /\ Goes(w, "write")
    /\ UNCHANGED <<saved, partFile, settingsOthers>>
WritePart(w) ==
    /\ Does(w, "write")
    /\ partFile' = writer[w].new /\ Goes(w, "aside")
    /\ UNCHANGED <<saved, previousFile, settingsOthers>>
MoveAside(w) ==
    /\ Does(w, "aside")
    /\ IF saved = None THEN UNCHANGED <<saved, previousFile>>
       ELSE previousFile' = saved /\ saved' = None
    /\ Goes(w, "place")
    /\ UNCHANGED <<partFile, settingsOthers>>

(* When the temporary file is gone, the previous one is put back. *)
PlacePart(w) ==
    /\ Does(w, "place")
    /\ IF partFile # None
       THEN /\ saved' = partFile /\ partFile' = None /\ Goes(w, "tidy")
            /\ UNCHANGED previousFile
       ELSE /\ IF previousFile # None THEN saved' = previousFile ELSE UNCHANGED saved
            /\ previousFile' = None /\ writer' = [writer EXCEPT ![w] = Resting]
            /\ UNCHANGED partFile
    /\ UNCHANGED <<settingsOthers>>
Tidy(w) ==
    /\ Does(w, "tidy")
    /\ previousFile' = None /\ writer' = [writer EXCEPT ![w] = Resting]
    /\ UNCHANGED <<saved, partFile, settingsOthers>>

-----------------------------------------------------------------------------
SettingsCrash ==
    /\ settingsCrashes < MaxSettingsCrashes
    /\ settingsCrashes' = settingsCrashes + 1
    /\ writer' = [w \in Writers |-> Resting]
    /\ disturbed' = (disturbed \/ ~Quiet)
    /\ UNCHANGED <<settingsFiles, javaThere, picked, saves>>

JavaGone ==
    /\ javaThere /\ javaThere' = FALSE
    /\ UNCHANGED <<settingsFiles, writer, picked, disturbed, saves, settingsCrashes>>

WriterStep(w) ==
    \/ ClearPart(w) \/ ClearPrevious(w) \/ WritePart(w) \/ MoveAside(w)
    \/ PlacePart(w) \/ Tidy(w)

SettingsNext ==
    \/ \E w \in Writers :
          \/ \E v \in Values : BeginSave(w, v)
          \/ MarkPlayed(w) \/ WriterStep(w)
    \/ SettingsCrash \/ JavaGone

SettingsSpec == SettingsInit /\ [][SettingsNext]_settingsVars

-----------------------------------------------------------------------------
(* What the player saved last is what the profile has, with nothing left
   over, once nobody saves any more, whatever was marked since and whatever
   an interrupted save, or two at once, had left before; only what comes in
   between can spoil it.  Covers InstanceSettingsStore::save, load and
   mark_played. *)
ChoiceSurvives ==
    Quiet /\ picked # None /\ ~disturbed =>
       /\ saved # None /\ saved.value = picked
       /\ partFile = None /\ previousFile = None

(* The way back when the last rename fails is meant to keep the settings: a
   profile that had some keeps some.  Does not hold with two writers: they
   share the names of their temporary files, and one removes what the other
   would go back to.  Nor when the process ends between the two renames. *)
SettingsSurvive ==
    Quiet /\ picked # None /\ settingsCrashes = 0 => saved # None
=============================================================================
