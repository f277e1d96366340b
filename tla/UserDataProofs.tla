--------------------------- MODULE UserDataProofs ---------------------------
(***************************************************************************)
(* What belongs to the user survives, and what enters from outside is what *)
(* it says: proofs about the settings file of a profile, the merge of two  *)
(* devices, the sessions, loadout and skin of the player, restore points,  *)
(* and the components, installers, packs and profile files that come in,   *)
(* for every number of writers, fields, windows and points, and every      *)
(* document.                                                               *)
(***************************************************************************)
EXTENDS Intake, InstanceSettings, CloudSync, Bridge, Backups,
        FiniteSetTheorems, TLAPS

-----------------------------------------------------------------------------
(* The settings file *)

Stages == {"idle", "clear", "clear-previous", "write", "aside", "place", "tidy"}
MaybeContents == SettingsContents \cup {None}

SettingsTypeOK ==
    /\ saved \in MaybeContents /\ partFile \in MaybeContents /\ previousFile \in MaybeContents
    /\ writer \in [Writers -> [pc : Stages, new : MaybeContents]]
    /\ \A w \in Writers : ~Does(w, "idle") => writer[w].new \in SettingsContents
    /\ picked \in Values \cup {None}
    /\ disturbed \in BOOLEAN

\* What the only writer has on disk, stage by stage.
Prepared(w) ==
    /\ writer[w].new.value = picked
    /\ Does(w, "clear-previous") => partFile = None
    /\ Does(w, "write") => partFile = None /\ previousFile = None
    /\ Does(w, "aside") => partFile = writer[w].new /\ previousFile = None
    /\ Does(w, "place") => partFile = writer[w].new /\ saved = None
    /\ Does(w, "tidy") => saved = writer[w].new /\ partFile = None

\* Undisturbed means that at most one writer is at work, that it has the
\* player's choice, and that each stage has left the files as the next expects.
Undisturbed ==
    ~disturbed /\ picked # None =>
       /\ \A v, w \in Writers : ~Does(v, "idle") /\ ~Does(w, "idle") => v = w
       /\ \A w \in Writers : ~Does(w, "idle") => Prepared(w)
       /\ Quiet => /\ saved # None /\ saved.value = picked
                   /\ partFile = None /\ previousFile = None

SettingsInv == SettingsTypeOK /\ Undisturbed

LEMMA SettingsStart == SettingsInit => SettingsInv
<1>1. SettingsInit => SettingsTypeOK
  <2>. SUFFICES ASSUME SettingsInit PROVE SettingsTypeOK
    OBVIOUS
  <2>1. \A w \in Writers : writer[w] = Resting /\ Does(w, "idle")
    BY DEF SettingsInit, Resting, Does
  <2>2. Resting \in [pc : Stages, new : MaybeContents]
    BY DEF Resting, Stages, MaybeContents
  <2>3. writer \in [Writers -> [pc : Stages, new : MaybeContents]]
    BY <2>2 DEF SettingsInit
  <2>. QED
    BY <2>1, <2>3 DEF SettingsInit, SettingsTypeOK, MaybeContents
<1>2. SettingsInit => Undisturbed
  BY DEF SettingsInit, Undisturbed
<1>. QED
  BY <1>1, <1>2 DEF SettingsInv

\* What is loaded is a content of the file, and what is saved is one too.
LEMMA LoadedIsContent ==
    ASSUME SettingsTypeOK PROVE Loaded \in SettingsContents
BY DEF SettingsTypeOK, MaybeContents, Loaded, SettingsContents

LEMMA SaveBegins ==
    ASSUME SettingsInv, NEW w \in Writers, NEW value \in Values, BeginSave(w, value)
    PROVE  SettingsInv'
<1>. DEFINE new == [value |-> value, played |-> Loaded.played]
<1>1. new \in SettingsContents
  BY LoadedIsContent DEF SettingsInv, SettingsContents
<1>2. /\ writer' = [writer EXCEPT ![w] = [pc |-> "clear", new |-> new]]
      /\ UNCHANGED <<saved, partFile, previousFile>>
      /\ picked' = value /\ disturbed' = ~Quiet
  BY DEF BeginSave, Begin, settingsFiles
<1>. HIDE DEF new
<1>3. SettingsTypeOK'
  BY <1>1, <1>2 DEF SettingsInv, SettingsTypeOK, MaybeContents, Stages, Does, Quiet
<1>4. ASSUME Quiet PROVE Undisturbed'
  <2>1. \A v \in Writers : Does(v, "idle")' <=> v # w
    BY <1>2, <1>4 DEF SettingsInv, SettingsTypeOK, Does, Quiet
  <2>2. Prepared(w)'
    BY <1>2 DEF new, SettingsInv, SettingsTypeOK, Prepared, Does
  <2>. QED
    BY <2>1, <2>2 DEF Undisturbed, Quiet
<1>5. ASSUME ~Quiet PROVE Undisturbed'
  BY <1>2, <1>5 DEF Undisturbed
<1>. QED
  BY <1>3, <1>4, <1>5 DEF SettingsInv

LEMMA MarkBegins ==
    ASSUME SettingsInv, NEW w \in Writers, MarkPlayed(w)
    PROVE  SettingsInv'
<1>. DEFINE new == [Loaded EXCEPT !.played = TRUE]
<1>1. new \in SettingsContents /\ new.value = Loaded.value
  BY LoadedIsContent DEF SettingsInv, SettingsContents
<1>2. /\ writer' = [writer EXCEPT ![w] = [pc |-> "clear", new |-> new]]
      /\ UNCHANGED <<saved, partFile, previousFile, picked>>
      /\ disturbed' = (disturbed \/ ~Quiet)
  BY DEF MarkPlayed, Begin, settingsFiles
<1>. HIDE DEF new
<1>3. SettingsTypeOK'
  BY <1>1, <1>2 DEF SettingsInv, SettingsTypeOK, MaybeContents, Stages, Does, Quiet
<1>4. ASSUME Quiet, ~disturbed, picked # None PROVE Undisturbed'
  <2>1. \A v \in Writers : Does(v, "idle")' <=> v # w
    BY <1>2, <1>4 DEF SettingsInv, SettingsTypeOK, Does, Quiet
  <2>2. Loaded.value = picked
    BY <1>4 DEF SettingsInv, Undisturbed, Loaded
  <2>3. Prepared(w)'
    BY <1>1, <1>2, <2>2 DEF SettingsInv, SettingsTypeOK, Prepared, Does
  <2>. QED
    BY <2>1, <2>3 DEF Undisturbed, Quiet
<1>5. ASSUME ~Quiet \/ disturbed \/ picked = None PROVE Undisturbed'
  BY <1>2, <1>5 DEF Undisturbed
<1>. QED
  BY <1>3, <1>4, <1>5 DEF SettingsInv

LEMMA WriterGoesOn ==
    ASSUME SettingsInv, NEW w \in Writers, WriterStep(w)
    PROVE  SettingsInv'
<1>. USE DEF SettingsInv, SettingsTypeOK, MaybeContents
<1>1. SettingsTypeOK'
  BY DEF WriterStep, ClearPart, ClearPrevious, WritePart, MoveAside, PlacePart, Tidy,
         Does, Goes, Stages, settingsOthers, Resting
<1>2. UNCHANGED <<picked, disturbed>> /\ ~Does(w, "idle")
  BY DEF WriterStep, ClearPart, ClearPrevious, WritePart, MoveAside, PlacePart, Tidy,
         Does, settingsOthers
<1>3. SUFFICES ASSUME ~disturbed, picked # None PROVE Undisturbed'
  BY <1>1, <1>2 DEF Undisturbed
<1>4. /\ \A v \in Writers : v # w => Does(v, "idle")
      /\ Prepared(w)
  BY <1>2, <1>3 DEF Undisturbed
<1>5. \A v \in Writers : v # w => Does(v, "idle")'
  BY <1>4 DEF WriterStep, ClearPart, ClearPrevious, WritePart, MoveAside, PlacePart, Tidy,
              Does, Goes
<1>6. CASE ClearPart(w)
  <2>1. Prepared(w)' /\ ~Does(w, "idle")'
    BY <1>2, <1>4, <1>6 DEF ClearPart, Prepared, Does, Goes, settingsOthers
  <2>. QED
    BY <1>5, <2>1 DEF Undisturbed, Quiet
<1>7. CASE ClearPrevious(w)
  <2>1. Prepared(w)' /\ ~Does(w, "idle")'
    BY <1>2, <1>4, <1>7 DEF ClearPrevious, Prepared, Does, Goes, settingsOthers
  <2>. QED
    BY <1>5, <2>1 DEF Undisturbed, Quiet
<1>8. CASE WritePart(w)
  <2>1. Prepared(w)' /\ ~Does(w, "idle")'
    BY <1>2, <1>4, <1>8 DEF WritePart, Prepared, Does, Goes, settingsOthers
  <2>. QED
    BY <1>5, <2>1 DEF Undisturbed, Quiet
<1>9. CASE MoveAside(w)
  <2>1. Prepared(w)' /\ ~Does(w, "idle")'
    BY <1>2, <1>4, <1>9 DEF MoveAside, Prepared, Does, Goes, settingsOthers
  <2>. QED
    BY <1>5, <2>1 DEF Undisturbed, Quiet
<1>10. CASE PlacePart(w)
  <2>1. partFile = writer[w].new /\ partFile # None
    BY <1>2, <1>4, <1>10, SettingsAssumption DEF PlacePart, Prepared, Does
  <2>2. Prepared(w)' /\ ~Does(w, "idle")'
    BY <1>2, <1>4, <1>10, <2>1 DEF PlacePart, Prepared, Does, Goes, settingsOthers
  <2>. QED
    BY <1>5, <2>2 DEF Undisturbed, Quiet
<1>11. CASE Tidy(w)
  <2>1. /\ Does(w, "idle")'
        /\ saved' # None /\ saved'.value = picked /\ partFile' = None /\ previousFile' = None
    BY <1>2, <1>4, <1>11, SettingsAssumption
    DEF Tidy, Prepared, Does, Goes, settingsOthers, Resting
  <2>. QED
    BY <1>2, <1>5, <2>1 DEF Undisturbed, Quiet
<1>. QED
  BY <1>6, <1>7, <1>8, <1>9, <1>10, <1>11 DEF WriterStep

LEMMA ProcessEnds ==
    ASSUME SettingsInv, SettingsCrash PROVE SettingsInv'
<1>1. SettingsTypeOK'
  BY DEF SettingsInv, SettingsTypeOK, MaybeContents, SettingsCrash, settingsFiles, Resting,
         Stages, Does
<1>2. \A w \in Writers : Does(w, "idle")'
  BY DEF SettingsCrash, Resting, Does
<1>3. Undisturbed'
  BY <1>2 DEF SettingsInv, SettingsCrash, settingsFiles, Undisturbed, Quiet
<1>. QED
  BY <1>1, <1>3 DEF SettingsInv

LEMMA SettingsStep ==
    ASSUME SettingsInv, [SettingsNext]_settingsVars PROVE SettingsInv'
<1>1. ASSUME JavaGone \/ UNCHANGED settingsVars PROVE SettingsInv'
  BY <1>1 DEF SettingsInv, SettingsTypeOK, Undisturbed, Prepared, Quiet, Does, JavaGone,
              settingsVars, settingsFiles
<1>. QED
  BY <1>1, SaveBegins, MarkBegins, WriterGoesOn, ProcessEnds DEF SettingsNext

\* The stages of a save and what it has on disk, for any number of writers.
THEOREM SettingsAreTyped == SettingsSpec => []SettingsTypeOK
<1>1. SettingsInv => SettingsTypeOK
  BY DEF SettingsInv
<1>. QED
  BY <1>1, SettingsStart, SettingsStep, PTL DEF SettingsSpec

\* What the player saved last survives every later marking and every earlier
\* interruption, for any number of writers, values and interruptions.
THEOREM ChoiceIsKept == SettingsSpec => []ChoiceSurvives
<1>1. SettingsInv => ChoiceSurvives
  BY DEF SettingsInv, Undisturbed, ChoiceSurvives
<1>. QED
  BY <1>1, SettingsStart, SettingsStep, PTL DEF SettingsSpec

-----------------------------------------------------------------------------
(* The merge of two devices *)

\* The preview and the resolution are those of what was given.
SyncInv ==
    /\ given \in Edited
    /\ preview # None => preview = Merge(given.base, given.local, given.remote)
    /\ resolved \notin {None, Unresolved} =>
         /\ preview # None
         /\ ChoicesFit(preview.conflicts, given.choices)
         /\ resolved = Resolve(preview, given.local, given.remote, given.choices)

LEMMA SyncInvariant == SyncSpec => []SyncInv
<1>1. SyncInit(Edited) => SyncInv
  BY DEF SyncInit, SyncInv
<1>2. SyncInv /\ [SyncNext]_syncVars => SyncInv'
  BY DEF SyncInv, SyncNext, Preview, ResolveChosen, syncVars
<1>. QED
  BY <1>1, <1>2, PTL DEF SyncSpec

\* Which device merges makes no difference.
LEMMA MergeIsSymmetric ==
    ASSUME NEW b \in Revisions, NEW l \in Revisions, NEW r \in Revisions
    PROVE  Merge(b, l, r) = Merge(b, r, l)
<1>1. \A f \in Fields : Selected(b[f], l[f], r[f]) = Selected(b[f], r[f], l[f])
  BY DEF Selected
<1>2. Conflicts(b, l, r) = Conflicts(b, r, l)
  BY DEF Conflicts
<1>3. [f \in Fields |-> Selected(b[f], l[f], r[f])] = [f \in Fields |-> Selected(b[f], r[f], l[f])]
  BY <1>1
<1>. QED
  BY <1>2, <1>3 DEF Merge

\* In every field the merge and the choices give what one of the devices has,
\* and what only one of them has changed.
LEMMA ResolutionKeeps ==
    ASSUME NEW b \in Revisions, NEW l \in Revisions, NEW r \in Revisions,
           NEW choices, ChoicesFit(Conflicts(b, l, r), choices), NEW f \in Fields
    PROVE  LET x == Resolve(Merge(b, l, r), l, r, choices)[f]
           IN  /\ x \in {l[f], r[f]}
               /\ l[f] = b[f] => x = r[f]
               /\ r[f] = b[f] => x = l[f]
BY DEF Resolve, Merge, Conflicts, ChoicesFit, Selected

\* Choosing the same for both devices resolves to the same.
LEMMA ResolutionIsSymmetric ==
    ASSUME NEW b \in Revisions, NEW l \in Revisions, NEW r \in Revisions,
           NEW choices, ChoicesFit(Conflicts(b, l, r), choices)
    PROVE  Resolve(Merge(b, l, r), l, r, choices)
             = Resolve(Merge(b, r, l), r, l, Opposite(choices))
<1>1. Merge(b, l, r) = Merge(b, r, l)
  BY MergeIsSymmetric
<1>2. \A f \in Merge(b, l, r).conflicts :
         /\ choices[f] \in {"local", "remote"}
         /\ Opposite(choices)[f] = IF choices[f] = "local" THEN "remote" ELSE "local"
  BY DEF Merge, ChoicesFit, Opposite
<1>. QED
  BY <1>1, <1>2 DEF Resolve

\* The merge keeps what only one device has changed and asks for the rest, for
\* any fields, values and choices.
THEOREM MergeIsFaithful == SyncSpec => []MergeKeepsChanges
<1>1. SyncInv => MergeKeepsChanges
  <2>. SUFFICES ASSUME SyncInv, preview # None PROVE MergeKeepsChanges
    BY DEF MergeKeepsChanges
  <2>. DEFINE b == given.base  l == given.local  r == given.remote  c == given.choices
  <2>1. b \in Revisions /\ l \in Revisions /\ r \in Revisions
    BY DEF SyncInv, Edited
  <2>2. preview = Merge(b, l, r) /\ preview = Merge(b, r, l)
    BY <2>1, MergeIsSymmetric DEF SyncInv
  <2>3. \A f \in preview.conflicts : preview.fields[f] = b[f]
    BY <2>2 DEF Merge, Conflicts, Selected
  <2>4. ASSUME resolved \notin {None, Unresolved}
        PROVE  /\ resolved = Resolve(Merge(b, l, r), l, r, c)
               /\ ChoicesFit(Conflicts(b, l, r), c)
    BY <2>2, <2>4 DEF SyncInv, Merge
  <2>5. ASSUME resolved \notin {None, Unresolved}
        PROVE  /\ resolved = Resolve(Merge(b, r, l), r, l, Opposite(c))
               /\ \A f \in Fields : /\ resolved[f] \in {l[f], r[f]}
                                    /\ l[f] = b[f] => resolved[f] = r[f]
                                    /\ r[f] = b[f] => resolved[f] = l[f]
    BY <2>1, <2>4, <2>5, ResolutionIsSymmetric, ResolutionKeeps
  <2>. QED
    BY <2>2, <2>3, <2>5 DEF MergeKeepsChanges
<1>. QED
  BY <1>1, SyncInvariant, PTL

-----------------------------------------------------------------------------
(* What is shown of the player *)

Steps == {"idle", "session", "complete", "insert", "request", "invalidate", "capes", "save",
          "fill", "rename", "again"}
Commands == [kind : Kinds \cup {None}, at : Steps, token : Nat \cup {None},
             refused : SUBSET Nat, content : Looks \cup {None},
             open : {None, "draft", "loadout"}]

TalkTypeOK ==
    /\ issued \in Nat
    /\ asking \in [Windows -> Commands]
    /\ disturbedSave \in BOOLEAN /\ wasSaved \in BOOLEAN

\* A token that is about to enter the table is nobody else's yet, and whoever
\* asks again has dropped what was refused.
TokensInv ==
    /\ dismissed \subseteq 1 .. issued
    /\ session # None => session.token \in (1 .. issued) \ dismissed
    /\ \A w \in Windows :
         /\ asking[w].refused \subseteq 1 .. issued
         /\ asking[w].at \in {"insert", "request", "invalidate"} => asking[w].token \in 1 .. issued
         /\ asking[w].at \in {"session", "complete", "insert", "request"} =>
               asking[w].refused \subseteq dismissed
         /\ IsAt(w, "insert") =>
               /\ asking[w].token \notin dismissed
               /\ session # None => session.token # asking[w].token
               /\ \A v \in Windows : asking[w].token \notin asking[v].refused
               /\ \A v \in Windows \ {w} :
                     asking[v].at \in {"insert", "request"} => asking[v].token # asking[w].token
         /\ IsAt(w, "request") => asking[w].token \notin asking[w].refused

\* Undisturbed means that one command saves at a time, and that it finds the
\* files as it has left them.
SavesInv ==
    ~disturbedSave =>
      /\ \A v, w \in Windows : Saving(v) /\ Saving(w) => v = w
      /\ \A w \in Windows :
           /\ asking[w].open # "loadout"
           /\ IsAt(w, "fill") => asking[w].open = "draft"
           /\ asking[w].open # None => IsAt(w, "fill")
           /\ asking[w].at \in {"rename", "again"} => draft \in Looks
      /\ LoadoutStays

ContentInv ==
    \A w \in Windows : IsAt(w, "save") \/ Saving(w) => asking[w].content \in Looks

\* A picture of somebody else has a name that somebody else has, for good.
SkinInv ==
    /\ realName \in Names /\ knownName \in Names
    /\ holder \in [Names -> {None, Me, "other"}] /\ holder[realName] = Me
    /\ skin # None =>
         /\ skin.name \in Names
         /\ skin.owner = Me \/ holder[skin.name] = "other"
    /\ SkinIsOwn

TalkInv == TalkTypeOK /\ TokensInv /\ SavesInv /\ ContentInv

LEMMA BridgeStart == BridgeInit => TalkInv /\ SkinInv
<1>. SUFFICES ASSUME BridgeInit PROVE TalkInv /\ SkinInv
  OBVIOUS
<1>1. Silent \in Commands
  BY DEF Silent, Commands, Steps
<1>2. asking \in [Windows -> Commands] /\ \A w \in Windows : asking[w] = Silent
  BY <1>1 DEF BridgeInit
<1>3. TalkTypeOK
  BY <1>2 DEF BridgeInit, TalkTypeOK
<1>4. TokensInv
  BY <1>2 DEF BridgeInit, TokensInv, IsAt, Silent
<1>5. SavesInv /\ ContentInv
  BY <1>2, BridgeAssumption DEF BridgeInit, SavesInv, ContentInv, LoadoutStays, IsAt, Saving, Silent
<1>6. SkinInv
  BY BridgeAssumption DEF BridgeInit, SkinInv, SkinIsOwn, Me
<1>. QED
  BY <1>3, <1>4, <1>5, <1>6 DEF TalkInv

LEMMA SkinStep ==
    ASSUME SkinInv, [TalkNext \/ SkinNext]_bridgeVars PROVE SkinInv'
<1>1. ASSUME NEW answers, LoadSkin(answers) PROVE SkinInv'
  <2>. DEFINE sources == SkinSources(knownName)
              found   == {i \in DOMAIN sources : sources[i].can /\ sources[i].needs \subseteq answers}
              first   == sources[FirstOf(found)].found
              shown   == IF found # {} THEN first ELSE Fallback(knownName)
  <2>1. /\ skin' = IF found # {} THEN shown ELSE skin
        /\ shownSkin' = [skin |-> shown, right |-> knownName = realName]
        /\ UNCHANGED <<realName, knownName, holder>>
    BY <1>1 DEF LoadSkin
  <2>2. \A i \in found : /\ sources[i].found.name \in Names
                         /\ sources[i].found.owner = Me \/ holder[sources[i].found.name] = "other"
                         /\ knownName = realName => sources[i].found.owner = Me
    <3>. DEFINE Genuine(x) == x.can => /\ x.found.name \in Names
                                       /\ x.found.owner = Me \/ holder[x.found.name] = "other"
                                       /\ knownName = realName => x.found.owner = Me
    <3>1. /\ Genuine(FromProfile) /\ Genuine(FromName(knownName)) /\ Genuine(FromAccount)
          /\ Genuine(FromProxyById(knownName)) /\ Genuine(FromProxyByName(knownName))
      BY DEF SkinInv, SkinSource, FromProfile, FromName, FromAccount, FromProxyById,
             FromProxyByName
    <3>. HIDE DEF Genuine
    <3>2. \A i \in DOMAIN sources : Genuine(sources[i])
      BY <3>1 DEF SkinSources
    <3>. QED
      BY <3>2 DEF Genuine
  <2>3. ASSUME found # {} PROVE FirstOf(found) \in found
    <3>1. found \subseteq 1 .. 5
      BY DEF SkinSources
    <3>2. \E i \in found : \A j \in found : i <= j
      BY <2>3, <3>1
    <3>. QED
      BY <3>2 DEF FirstOf
  <2>. HIDE DEF sources, found
  <2>4. shown # None => /\ shown.name \in Names
                        /\ shown.owner = Me \/ holder[shown.name] = "other"
                        /\ knownName = realName => shown.owner = Me
    BY <2>2, <2>3 DEF SkinInv, Fallback, Me
  <2>. QED
    BY <2>1, <2>4 DEF SkinInv, SkinIsOwn
<1>2. ASSUME NEW name \in Names, ImportSkin(name) \/ Rename(name) PROVE SkinInv'
  BY <1>2, BridgeAssumption DEF SkinInv, SkinIsOwn, ImportSkin, Rename, Me
<1>3. ASSUME TakeName \/ LearnName \/ SignInOrOut \/ UNCHANGED skinVars PROVE SkinInv'
  BY <1>3, BridgeAssumption DEF SkinInv, SkinIsOwn, TakeName, LearnName, SignInOrOut, skinVars, Me
<1>4. TalkNext => UNCHANGED skinVars
  BY DEF TalkNext, SessionStep, SaveStep, Ask, Reuse, Challenge, Complete, Insert, NoSession,
         Answered, Unauthorized, RequestFails, Invalidate, MergeCape, Truncate, Fill, PutInPlace,
         MakeRoom, GiveUp, FillFails, Expire, Forget, BridgeCrash
<1>. QED
  BY <1>1, <1>2, <1>3, <1>4 DEF SkinNext, bridgeVars

LEMMA FieldChanges ==
    ASSUME NEW r \in Commands
    PROVE  /\ \A s \in Steps : [r EXCEPT !.at = s] \in Commands
           /\ \A t \in Nat \cup {None} : [r EXCEPT !.token = t] \in Commands
           /\ \A S \in SUBSET Nat : [r EXCEPT !.refused = S] \in Commands
           /\ \A c \in Looks \cup {None} : [r EXCEPT !.content = c] \in Commands
           /\ \A h \in {None, "draft", "loadout"} : [r EXCEPT !.open = h] \in Commands
BY DEF Commands

LEMMA SilentIsTyped == Silent \in Commands
BY DEF Silent, Commands, Steps

LEMMA SessionIsTyped ==
    ASSUME TalkInv, NEW w \in Windows, SessionStep(w)
    PROVE  TalkTypeOK'
<1>1. /\ asking \in [Windows -> Commands] /\ asking[w] \in Commands
      /\ issued \in Nat /\ disturbedSave \in BOOLEAN /\ wasSaved \in BOOLEAN
  BY DEF TalkInv, TalkTypeOK
<1>2. UNCHANGED <<disturbedSave, wasSaved>> /\ issued' \in {issued, issued + 1}
  BY DEF SessionStep, Ask, Reuse, Challenge, Complete, Insert, NoSession, Answered, Unauthorized,
         RequestFails, Invalidate, MergeCape, loadoutVars, sessionVars
<1>3. SUFFICES asking' \in [Windows -> Commands]
  BY <1>1, <1>2 DEF TalkTypeOK
<1>4. \A s \in Steps : GoTo(w, s) => asking' \in [Windows -> Commands]
  BY <1>1, FieldChanges DEF GoTo
<1>5. Ends(w) => asking' \in [Windows -> Commands]
  BY <1>1, SilentIsTyped DEF Ends
<1>6. CASE \E kind \in Kinds : Ask(w, kind)
  <2>1. \A kind \in Kinds : [Silent EXCEPT !.kind = kind, !.at = "session"] \in Commands
    BY DEF Silent, Commands, Steps
  <2>. QED
    BY <1>1, <1>6, <2>1 DEF Ask
<1>7. CASE Reuse(w)
  <2>1. session.token \in Nat /\ "request" \in Steps
    BY <1>7 DEF Reuse, HasSession, TalkInv, TokensInv, Steps
  <2>2. [asking[w] EXCEPT !.at = "request", !.token = session.token] \in Commands
    BY <1>1, <2>1, FieldChanges
  <2>. QED
    BY <1>1, <1>7, <2>2 DEF Reuse
<1>8. CASE Challenge(w) \/ NoSession(w) \/ RequestFails(w) \/ Invalidate(w) \/ Insert(w)
  BY <1>4, <1>5, <1>8 DEF Challenge, NoSession, RequestFails, Invalidate, Insert, Steps
<1>9. CASE Complete(w)
  <2>1. issued' \in Nat /\ "insert" \in Steps
    BY <1>1, <1>2 DEF Steps
  <2>2. [asking[w] EXCEPT !.at = "insert", !.token = issued'] \in Commands
    BY <1>1, <2>1, FieldChanges
  <2>. QED
    BY <1>1, <1>9, <2>2 DEF Complete
<1>10. CASE Answered(w)
  <2>1. \A worn \in {None, "cape"} :
           [Silent EXCEPT !.at = "capes", !.content = worn] \in Commands
    BY DEF Silent, Commands, Steps, Looks
  <2>. QED
    BY <1>1, <1>5, <1>10, <2>1 DEF Answered
<1>11. CASE Unauthorized(w)
  <2>1. asking[w].token \in Nat /\ asking[w].refused \in SUBSET Nat /\ "invalidate" \in Steps
    BY <1>1, <1>11 DEF Unauthorized, IsAt, TalkInv, TokensInv, Commands, Steps
  <2>2. asking[w].refused \cup {asking[w].token} \in SUBSET Nat
    BY <2>1
  <2>3. [asking[w] EXCEPT !.at = "invalidate", !.refused = asking[w].refused \cup {asking[w].token}] \in Commands
    BY <1>1, <2>1, <2>2, FieldChanges
  <2>. QED
    BY <1>1, <1>5, <1>11, <2>3 DEF Unauthorized
<1>12. CASE MergeCape(w)
  <2>. DEFINE new(c) == [asking[w] EXCEPT !.at = "save", !.content = c]
  <2>1. \A c \in Looks \cup {None} : new(c) \in Commands
    BY <1>1, FieldChanges DEF Steps
  <2>2. PICK c \in Looks \cup {None} : asking' = [asking EXCEPT ![w] = new(c)]
    BY <1>1, <1>12 DEF MergeCape, Looks, Commands
  <2>. QED
    BY <1>1, <2>1, <2>2
<1>. QED
  BY <1>6, <1>7, <1>8, <1>9, <1>10, <1>11, <1>12 DEF SessionStep

LEMMA SaveIsTyped ==
    ASSUME TalkInv, NEW w \in Windows, SaveStep(w)
    PROVE  TalkTypeOK'
<1>1. /\ asking \in [Windows -> Commands] /\ asking[w] \in Commands
      /\ issued \in Nat /\ disturbedSave \in BOOLEAN /\ wasSaved \in BOOLEAN
  BY DEF TalkInv, TalkTypeOK
<1>2. disturbedSave' \in BOOLEAN /\ wasSaved' \in BOOLEAN /\ issued' \in Nat
  BY <1>1 DEF SaveStep, Truncate, Fill, PutInPlace, MakeRoom, GiveUp, FillFails, sessionVars, loadoutVars
<1>3. SUFFICES asking' \in [Windows -> Commands]
  BY <1>2 DEF TalkTypeOK
<1>4. CASE Truncate(w)
  <2>1. [asking[w] EXCEPT !.at = "fill", !.open = "draft"] \in Commands
    BY <1>1, FieldChanges DEF Steps
  <2>. QED
    BY <1>1, <1>4, <2>1 DEF Truncate
<1>5. CASE Fill(w)
  <2>1. [asking[w] EXCEPT !.at = "rename", !.open = None] \in Commands
    BY <1>1, FieldChanges DEF Steps
  <2>. QED
    BY <1>1, <1>5, <2>1 DEF Fill
<1>6. Reopened(Moved) \in [Windows -> Commands] /\ Reopened(Unlinked) \in [Windows -> Commands]
  <2>1. \A v \in Windows : /\ asking[v] \in Commands
                           /\ Moved[v] \in {None, "draft", "loadout"}
                           /\ Unlinked[v] \in {None, "draft", "loadout"}
    BY <1>1 DEF Moved, Unlinked, Commands
  <2>. QED
    BY <2>1, FieldChanges DEF Reopened
<1>7. CASE PutInPlace(w)
  BY <1>6, <1>7, SilentIsTyped DEF PutInPlace
<1>8. CASE MakeRoom(w)
  <2>1. [Reopened(Unlinked)[w] EXCEPT !.at = "again"] \in Commands
    BY <1>6, FieldChanges DEF Steps
  <2>. QED
    BY <1>6, <1>8, <2>1 DEF MakeRoom
<1>9. CASE GiveUp(w) \/ FillFails(w)
  BY <1>1, <1>9, SilentIsTyped DEF GiveUp, FillFails, Ends
<1>. QED
  BY <1>4, <1>5, <1>7, <1>8, <1>9 DEF SaveStep

\* Commands that leave the table alone and bring no token into use.
LEMMA TokensStay ==
    ASSUME TokensInv, UNCHANGED <<issued, session, dismissed>>,
           \A v \in Windows :
              /\ asking'[v].refused \in {asking[v].refused, {}}
              /\ \/ asking'[v].at \notin {"session", "complete", "insert", "request", "invalidate"}
                 \/ asking'[v].at = "session" /\ asking'[v].refused = {}
                 \/ /\ asking'[v].at = asking[v].at /\ asking'[v].token = asking[v].token
                    /\ asking'[v].refused = asking[v].refused
    PROVE  TokensInv'
BY DEF TokensInv, IsAt

LEMMA SavesKeepTokens ==
    ASSUME TalkInv, NEW w \in Windows, SaveStep(w) PROVE TokensInv'
<1>1. asking \in [Windows -> Commands] /\ TokensInv
  BY DEF TalkInv, TalkTypeOK
<1>2. UNCHANGED <<issued, session, dismissed>>
  BY DEF SaveStep, Truncate, Fill, PutInPlace, MakeRoom, GiveUp, FillFails, sessionVars
<1>3. ASSUME NEW v \in Windows
      PROVE  /\ asking'[v].refused \in {asking[v].refused, {}}
             /\ \/ asking'[v].at \notin {"session", "complete", "insert", "request", "invalidate"}
                \/ /\ asking'[v].at = asking[v].at /\ asking'[v].token = asking[v].token
                   /\ asking'[v].refused = asking[v].refused
  <2>1. CASE Truncate(w) \/ Fill(w)
    BY <1>1, <2>1 DEF Truncate, Fill, Commands
  <2>2. CASE PutInPlace(w)
    BY <1>1, <2>2 DEF PutInPlace, Reopened, Silent, Commands
  <2>3. CASE MakeRoom(w)
    BY <1>1, <2>3 DEF MakeRoom, Reopened, Commands
  <2>4. CASE GiveUp(w) \/ FillFails(w)
    BY <1>1, <2>4 DEF GiveUp, FillFails, Ends, Silent
  <2>. QED
    BY <2>1, <2>2, <2>3, <2>4 DEF SaveStep
<1>. QED
  BY <1>1, <1>2, <1>3, TokensStay

LEMMA SessionsKeepTokens ==
    ASSUME TalkInv, NEW w \in Windows, SessionStep(w) PROVE TokensInv'
<1>1. asking \in [Windows -> Commands] /\ TokensInv /\ issued \in Nat
  BY DEF TalkInv, TalkTypeOK
<1>2. CASE (\E kind \in Kinds : Ask(w, kind)) \/ NoSession(w) \/ RequestFails(w)
  <2>1. UNCHANGED <<issued, session, dismissed>>
    BY <1>2 DEF Ask, NoSession, RequestFails, sessionVars
  <2>2. \A v \in Windows : v # w => asking'[v] = asking[v]
    BY <1>1, <1>2 DEF Ask, NoSession, RequestFails, Ends
  <2>3. asking'[w].refused = {} /\ asking'[w].at \in {"idle", "session"}
    <3>1. ASSUME NEW kind \in Kinds, Ask(w, kind) PROVE asking'[w].refused = {} /\ asking'[w].at = "session"
      BY <1>1, <3>1 DEF Ask, Silent
    <3>2. CASE NoSession(w) \/ RequestFails(w)
      BY <1>1, <3>2 DEF NoSession, RequestFails, Ends, Silent
    <3>. QED
      BY <1>2, <3>1, <3>2
  <2>. QED
    BY <1>1, <2>1, <2>2, <2>3, TokensStay
<1>3. CASE Answered(w) \/ MergeCape(w)
  <2>1. UNCHANGED <<issued, session, dismissed>>
    BY <1>3 DEF Answered, MergeCape, sessionVars
  <2>2. \A v \in Windows : v # w => asking'[v] = asking[v]
    BY <1>1, <1>3 DEF Answered, MergeCape, Ends
  <2>3. /\ asking'[w].refused \in {asking[w].refused, {}}
        /\ asking'[w].at \in {"idle", "capes", "save"}
    <3>1. CASE Answered(w)
      <4>1. \/ asking' = [asking EXCEPT ![w] = Silent]
            \/ \E worn \in {None, "cape"} :
                  asking' = [asking EXCEPT ![w] = [Silent EXCEPT !.at = "capes", !.content = worn]]
        BY <3>1 DEF Answered, Ends
      <4>2. /\ Silent.refused = {} /\ Silent.at = "idle"
            /\ \A worn : LET r == [Silent EXCEPT !.at = "capes", !.content = worn]
                         IN  r.refused = {} /\ r.at = "capes"
        BY DEF Silent
      <4>3. CASE asking' = [asking EXCEPT ![w] = Silent]
        BY <1>1, <4>2, <4>3
      <4>4. ASSUME NEW worn \in {None, "cape"},
                   asking' = [asking EXCEPT ![w] = [Silent EXCEPT !.at = "capes", !.content = worn]]
            PROVE  /\ asking'[w].refused \in {asking[w].refused, {}}
                   /\ asking'[w].at \in {"idle", "capes", "save"}
        BY <1>1, <4>2, <4>4
      <4>. QED
        BY <4>1, <4>3, <4>4
    <3>2. CASE MergeCape(w)
      <4>1. PICK c : asking' = [asking EXCEPT ![w] = [asking[w] EXCEPT !.at = "save", !.content = c]]
        BY <3>2 DEF MergeCape
      <4>. QED
        BY <1>1, <4>1 DEF Commands
    <3>. QED
      BY <1>3, <3>1, <3>2
  <2>. QED
    BY <1>1, <2>1, <2>2, <2>3, TokensStay
<1>4. CASE Reuse(w)
  <2>1. /\ UNCHANGED <<issued, session, dismissed>> /\ session # None /\ IsAt(w, "session")
        /\ \A v \in Windows : v # w => asking'[v] = asking[v]
        /\ asking'[w].at = "request" /\ asking'[w].token = session.token
        /\ asking'[w].refused = asking[w].refused
    BY <1>1, <1>4 DEF Reuse, HasSession, sessionVars, Commands
  <2>. QED
    BY <1>1, <2>1 DEF TokensInv, IsAt
<1>5. CASE Challenge(w)
  <2>1. /\ UNCHANGED <<issued, session, dismissed>> /\ IsAt(w, "session")
        /\ \A v \in Windows : v # w => asking'[v] = asking[v]
        /\ asking'[w].at = "complete" /\ asking'[w].refused = asking[w].refused
    BY <1>1, <1>5 DEF Challenge, GoTo, sessionVars, Commands
  <2>. QED
    BY <1>1, <2>1 DEF TokensInv, IsAt
<1>6. CASE Complete(w)
  <2>1. /\ UNCHANGED <<session, dismissed>> /\ IsAt(w, "complete") /\ issued' = issued + 1
        /\ \A v \in Windows : v # w => asking'[v] = asking[v]
        /\ asking'[w].at = "insert" /\ asking'[w].token = issued + 1
        /\ asking'[w].refused = asking[w].refused
    BY <1>1, <1>6 DEF Complete, Commands
  <2>2. \A t \in 1 .. issued : t \in 1 .. issued' /\ t # issued'
    BY <1>1, <2>1
  <2>3. issued' \in 1 .. issued'
    BY <1>1, <2>1
  <2>. QED
    BY <1>1, <2>1, <2>2, <2>3 DEF TokensInv, IsAt
<1>7. CASE Insert(w)
  <2>1. /\ UNCHANGED <<issued, dismissed>> /\ IsAt(w, "insert")
        /\ session' = [token |-> asking[w].token, fresh |-> TRUE]
        /\ \A v \in Windows : v # w => asking'[v] = asking[v]
        /\ asking'[w].at = "request" /\ asking'[w].token = asking[w].token
        /\ asking'[w].refused = asking[w].refused
    BY <1>1, <1>7 DEF Insert, GoTo, Commands
  <2>. QED
    BY <1>1, <2>1 DEF TokensInv, IsAt
<1>8. CASE Unauthorized(w)
  <2>1. /\ UNCHANGED <<issued, session, dismissed>> /\ IsAt(w, "request")
        /\ \A v \in Windows : v # w => asking'[v] = asking[v]
        /\ \/ asking'[w] = Silent
           \/ /\ asking'[w].at = "invalidate" /\ asking'[w].token = asking[w].token
              /\ asking'[w].refused = asking[w].refused \cup {asking[w].token}
    BY <1>1, <1>8 DEF Unauthorized, Ends, sessionVars, Commands
  <2>. QED
    BY <1>1, <2>1 DEF TokensInv, IsAt, Silent
<1>9. CASE Invalidate(w)
  <2>1. /\ UNCHANGED issued /\ session' = None /\ dismissed' = dismissed \cup asking[w].refused
        /\ \A v \in Windows : v # w => asking'[v] = asking[v]
        /\ \/ asking'[w] = Silent
           \/ asking'[w].at = "session" /\ asking'[w].refused = asking[w].refused
    BY <1>1, <1>9 DEF Invalidate, Ends, GoTo, Commands
  <2>2. dismissed' \subseteq 1 .. issued'
    BY <1>1, <2>1 DEF TokensInv
  <2>3. ASSUME NEW v \in Windows, v # w
        PROVE  /\ asking'[v] = asking[v]
               /\ asking[v].refused \subseteq 1 .. issued'
               /\ asking[v].at \in {"insert", "request", "invalidate"} => asking[v].token \in 1 .. issued'
               /\ asking[v].at \in {"session", "complete", "insert", "request"} =>
                     asking[v].refused \subseteq dismissed'
               /\ asking[v].at = "insert" => asking[v].token \notin dismissed'
    BY <1>1, <2>1, <2>3 DEF TokensInv, IsAt
  <2>4. /\ asking'[w].refused \in {asking[w].refused, {}}
        /\ asking'[w].refused \subseteq 1 .. issued' /\ asking'[w].refused \subseteq dismissed'
        /\ asking'[w].at \in {"idle", "session"}
    BY <1>1, <2>1 DEF TokensInv, Silent
  <2>. QED
    BY <1>1, <2>1, <2>2, <2>3, <2>4 DEF TokensInv, IsAt
<1>. QED
  BY <1>2, <1>3, <1>4, <1>5, <1>6, <1>7, <1>8, <1>9 DEF SessionStep

LEMMA SessionsKeepSaves ==
    ASSUME TalkInv, NEW w \in Windows, SessionStep(w) PROVE SavesInv' /\ ContentInv'
<1>1. asking \in [Windows -> Commands] /\ SavesInv /\ ContentInv
  BY DEF TalkInv, TalkTypeOK
<1>2. UNCHANGED loadoutVars /\ ~Saving(w)
  BY DEF SessionStep, Ask, Reuse, Challenge, Complete, Insert, NoSession, Answered, Unauthorized,
         RequestFails, Invalidate, MergeCape, IsAt, Saving
<1>3. /\ \A v \in Windows : v # w => asking'[v] = asking[v]
      /\ asking'[w].at \notin {"fill", "rename", "again"}
      /\ asking'[w].open \in {asking[w].open, None}
      /\ asking'[w].at = "save" => asking'[w].content \in Looks
  <2>1. CASE \E kind \in Kinds : Ask(w, kind)
    BY <1>1, <2>1 DEF Ask, Silent
  <2>2. CASE Reuse(w) \/ Challenge(w) \/ Insert(w)
    BY <1>1, <2>2 DEF Reuse, Challenge, Insert, GoTo, Commands
  <2>3. CASE Complete(w)
    BY <1>1, <2>3 DEF Complete, Commands
  <2>4. CASE NoSession(w) \/ RequestFails(w)
    BY <1>1, <2>4 DEF NoSession, RequestFails, Ends, Silent
  <2>5. CASE Invalidate(w)
    BY <1>1, <2>5 DEF Invalidate, Ends, GoTo, Silent, Commands
  <2>6. CASE Unauthorized(w)
    BY <1>1, <2>6 DEF Unauthorized, Ends, Silent, Commands
  <2>7. CASE Answered(w)
    <3>1. \/ asking' = [asking EXCEPT ![w] = Silent]
          \/ \E worn \in {None, "cape"} :
                asking' = [asking EXCEPT ![w] = [Silent EXCEPT !.at = "capes", !.content = worn]]
      BY <2>7 DEF Answered, Ends
    <3>2. /\ Silent.at = "idle" /\ Silent.open = None
          /\ \A worn : LET r == [Silent EXCEPT !.at = "capes", !.content = worn]
                       IN  r.at = "capes" /\ r.open = None
      BY DEF Silent
    <3>3. asking'[w].at \in {"idle", "capes"} /\ asking'[w].open = None
      <4>1. CASE asking' = [asking EXCEPT ![w] = Silent]
        BY <1>1, <3>2, <4>1
      <4>2. CASE asking' # [asking EXCEPT ![w] = Silent]
        <5>. DEFINE r(worn) == [Silent EXCEPT !.at = "capes", !.content = worn]
        <5>1. PICK worn : asking'[w] = r(worn)
          BY <1>1, <3>1, <4>2
        <5>2. r(worn).at = "capes" /\ r(worn).open = None
          BY DEF Silent
        <5>. QED
          BY <5>1, <5>2
      <4>. QED
        BY <4>1, <4>2
    <3>4. \A v \in Windows : v # w => asking'[v] = asking[v]
      BY <1>1, <3>1
    <3>. QED
      BY <3>3, <3>4
  <2>8. CASE MergeCape(w)
    <3>1. PICK c \in Looks :
             asking' = [asking EXCEPT ![w] = [asking[w] EXCEPT !.at = "save", !.content = c]]
      <4>1. asking[w].content \in Looks \cup {None}
        BY <1>1 DEF Commands
      <4>. QED
        BY <2>8, <4>1 DEF MergeCape, Looks
    <3>. QED
      BY <1>1, <3>1 DEF Commands
  <2>. QED
    BY <2>1, <2>2, <2>3, <2>4, <2>5, <2>6, <2>7, <2>8 DEF SessionStep
<1>4. ContentInv'
  BY <1>1, <1>3 DEF ContentInv, IsAt, Saving
<1>5. SavesInv'
  BY <1>1, <1>2, <1>3, BridgeAssumption DEF SavesInv, LoadoutStays, loadoutVars, IsAt, Saving
<1>. QED
  BY <1>4, <1>5

LEMMA SavesGoOn ==
    ASSUME TalkInv, NEW w \in Windows, SaveStep(w) PROVE SavesInv' /\ ContentInv'
<1>1. /\ asking \in [Windows -> Commands] /\ SavesInv /\ ContentInv
      /\ disturbedSave \in BOOLEAN
  BY DEF TalkInv, TalkTypeOK
<1>2. CASE Truncate(w)
  <2>1. /\ draft' = Torn /\ UNCHANGED <<loadout, wasSaved>> /\ asking[w].at = "save"
        /\ disturbedSave' = (disturbedSave \/ \E v \in Windows \ {w} : Saving(v))
        /\ \A v \in Windows : v # w => asking'[v] = asking[v]
        /\ asking'[w].at = "fill" /\ asking'[w].open = "draft"
        /\ asking'[w].content = asking[w].content
    BY <1>1, <1>2 DEF Truncate, IsAt, Commands
  <2>2. ContentInv'
    BY <1>1, <2>1 DEF ContentInv, IsAt, Saving
  <2>3. ASSUME ~disturbedSave' PROVE SavesInv'
    <3>1. ~disturbedSave /\ \A v \in Windows \ {w} : ~Saving(v)
      BY <2>1, <2>3
    <3>. QED
      BY <1>1, <2>1, <3>1 DEF SavesInv, LoadoutStays, IsAt, Saving
  <2>. QED
    BY <2>2, <2>3 DEF SavesInv
<1>3. CASE Fill(w)
  <2>1. /\ UNCHANGED <<disturbedSave, wasSaved>> /\ asking[w].at = "fill"
        /\ draft'   = IF asking[w].open = "draft" THEN asking[w].content ELSE draft
        /\ loadout' = IF asking[w].open = "loadout" THEN asking[w].content ELSE loadout
        /\ \A v \in Windows : v # w => asking'[v] = asking[v]
        /\ asking'[w].at = "rename" /\ asking'[w].open = None
        /\ asking'[w].content = asking[w].content
    BY <1>1, <1>3 DEF Fill, IsAt, Commands
  <2>2. ContentInv'
    BY <1>1, <2>1 DEF ContentInv, IsAt, Saving
  <2>3. ASSUME ~disturbedSave' PROVE SavesInv'
    <3>1. /\ asking[w].open = "draft" /\ asking[w].content \in Looks
          /\ \A v \in Windows : v # w => ~Saving(v)
      BY <1>1, <2>1, <2>3 DEF SavesInv, ContentInv, IsAt, Saving
    <3>2. draft' \in Looks /\ loadout' = loadout
      BY <2>1, <3>1
    <3>. QED
      BY <1>1, <2>1, <2>3, <3>1, <3>2, BridgeAssumption DEF SavesInv, LoadoutStays, IsAt, Saving
  <2>. QED
    BY <2>2, <2>3 DEF SavesInv
<1>4. CASE PutInPlace(w)
  <2>1. /\ loadout' = draft /\ draft' = None /\ UNCHANGED disturbedSave
        /\ asking[w].at \in {"rename", "again"}
        /\ asking'[w] = Silent
        /\ \A v \in Windows : v # w =>
              /\ asking'[v].at = asking[v].at /\ asking'[v].content = asking[v].content
              /\ asking'[v].open = Moved[v]
    BY <1>1, <1>4 DEF PutInPlace, Reopened, Commands
  <2>2. ContentInv'
    BY <1>1, <2>1 DEF ContentInv, IsAt, Saving, Silent
  <2>3. ASSUME ~disturbedSave' PROVE SavesInv'
    <3>1. /\ draft \in Looks
          /\ \A v \in Windows : v # w => ~Saving(v)
          /\ \A v \in Windows : v # w => asking[v].open = None
      BY <1>1, <2>1, <2>3 DEF SavesInv, IsAt, Saving
    <3>2. \A v \in Windows : v # w => asking'[v].open = None
      BY <1>1, <2>1, <3>1, BridgeAssumption DEF Moved
    <3>3. Silent.at = "idle" /\ Silent.open = None
      BY DEF Silent
    <3>4. loadout' \notin {None, Torn}
      BY <2>1, <3>1, BridgeAssumption DEF Looks, Torn
    <3>. QED
      BY <1>1, <2>1, <3>1, <3>2, <3>3, <3>4, BridgeAssumption
         DEF SavesInv, LoadoutStays, IsAt, Saving
  <2>. QED
    BY <2>2, <2>3 DEF SavesInv
<1>5. CASE MakeRoom(w)
  <2>1. /\ UNCHANGED <<draft, disturbedSave, wasSaved>>
        /\ asking[w].at = "rename"
        /\ asking'[w].at = "again" /\ asking'[w].open = Unlinked[w]
        /\ asking'[w].content = asking[w].content
        /\ \A v \in Windows : v # w =>
              /\ asking'[v].at = asking[v].at /\ asking'[v].content = asking[v].content
              /\ asking'[v].open = Unlinked[v]
    BY <1>1, <1>5 DEF MakeRoom, Reopened, Commands, IsAt
  <2>2. ContentInv'
    BY <1>1, <2>1 DEF ContentInv, IsAt, Saving
  <2>3. ASSUME ~disturbedSave' PROVE SavesInv'
    <3>1. /\ draft \in Looks
          /\ \A v \in Windows : v # w => ~Saving(v)
          /\ \A v \in Windows : asking[v].open = None
      BY <1>1, <2>1, <2>3 DEF SavesInv, IsAt, Saving
    <3>2. \A v \in Windows : asking'[v].open = None
      BY <1>1, <2>1, <3>1, BridgeAssumption DEF Unlinked
    <3>. QED
      BY <1>1, <2>1, <3>1, <3>2, BridgeAssumption DEF SavesInv, LoadoutStays, IsAt, Saving
  <2>. QED
    BY <2>2, <2>3 DEF SavesInv
<1>6. CASE GiveUp(w)
  <2>1. /\ disturbedSave'
        /\ \A v \in Windows : asking'[v] = asking[v] \/ asking'[v] = Silent
    BY <1>1, <1>6 DEF GiveUp, Ends
  <2>. QED
    BY <1>1, <2>1 DEF SavesInv, ContentInv, IsAt, Saving, Silent
<1>7. CASE FillFails(w)
  <2>1. /\ UNCHANGED loadoutVars /\ asking[w].at = "fill"
        /\ asking'[w] = Silent
        /\ \A v \in Windows : v # w => asking'[v] = asking[v]
    BY <1>1, <1>7 DEF FillFails, Ends, IsAt
  <2>2. ContentInv'
    BY <1>1, <2>1 DEF ContentInv, IsAt, Saving, Silent
  <2>3. ASSUME ~disturbedSave' PROVE SavesInv'
    <3>1. /\ \A v \in Windows : v # w => ~Saving(v) /\ asking[v].open = None
          /\ LoadoutStays
      BY <1>1, <2>1, <2>3 DEF SavesInv, IsAt, Saving, loadoutVars
    <3>2. Silent.at = "idle" /\ Silent.open = None
      BY DEF Silent
    <3>. QED
      BY <1>1, <2>1, <3>1, <3>2, BridgeAssumption
         DEF SavesInv, LoadoutStays, IsAt, Saving, loadoutVars
  <2>. QED
    BY <2>2, <2>3 DEF SavesInv
<1>. QED
  BY <1>2, <1>3, <1>4, <1>5, <1>6, <1>7 DEF SaveStep

LEMMA TalkStep ==
    ASSUME TalkInv, [TalkNext \/ SkinNext]_bridgeVars PROVE TalkInv'
<1>1. CASE \E w \in Windows : SessionStep(w)
  BY <1>1, SessionIsTyped, SessionsKeepTokens, SessionsKeepSaves DEF TalkInv
<1>2. CASE \E w \in Windows : SaveStep(w)
  BY <1>2, SaveIsTyped, SavesKeepTokens, SavesGoOn DEF TalkInv
<1>3. CASE Expire
  <2>1. /\ session # None /\ session'.token = session.token
        /\ UNCHANGED <<issued, dismissed, loadoutVars, asking>>
    BY <1>3 DEF Expire, HasSession
  <2>2. TokensInv'
    BY <2>1 DEF TalkInv, TokensInv, IsAt
  <2>3. TalkTypeOK' /\ SavesInv' /\ ContentInv'
    BY <2>1 DEF TalkInv, TalkTypeOK, SavesInv, ContentInv, LoadoutStays, loadoutVars, IsAt, Saving
  <2>. QED
    BY <2>2, <2>3 DEF TalkInv
<1>4. CASE BridgeCrash
  <2>1. /\ session' = None /\ UNCHANGED <<issued, dismissed, draft, loadout, wasSaved>>
        /\ disturbedSave' = (disturbedSave \/ \E w \in Windows : IsAt(w, "again"))
        /\ asking' = [w \in Windows |-> Silent]
    BY <1>4 DEF BridgeCrash
  <2>2. /\ \A w \in Windows : asking'[w] = Silent
        /\ Silent.at = "idle" /\ Silent.open = None /\ Silent.refused = {}
    BY <2>1 DEF Silent
  <2>3. TalkTypeOK'
    BY <2>1, SilentIsTyped DEF TalkInv, TalkTypeOK
  <2>4. TokensInv' /\ ContentInv'
    BY <2>1, <2>2 DEF TalkInv, TokensInv, ContentInv, IsAt, Saving
  <2>5. ASSUME ~disturbedSave' PROVE SavesInv'
    <3>1. ~disturbedSave /\ (\A w \in Windows : ~IsAt(w, "again")) /\ LoadoutStays
      BY <2>1, <2>5 DEF TalkInv, SavesInv
    <3>2. LoadoutStays'
      BY <2>1, <3>1 DEF LoadoutStays
    <3>. QED
      BY <2>1, <2>2, <3>2, BridgeAssumption DEF SavesInv, IsAt, Saving
  <2>. QED
    BY <2>3, <2>4, <2>5 DEF TalkInv, SavesInv
<1>5. ASSUME UNCHANGED <<session, issued, dismissed, loadoutVars, asking>> PROVE TalkInv'
  BY <1>5 DEF TalkInv, TalkTypeOK, TokensInv, SavesInv, ContentInv, LoadoutStays, loadoutVars,
              IsAt, Saving
<1>6. ASSUME (\E t \in accepted : Forget(t)) \/ UNCHANGED bridgeVars
      PROVE  UNCHANGED <<session, issued, dismissed, loadoutVars, asking>>
  BY <1>6 DEF Forget, bridgeVars, sessionVars
<1>7. SkinNext => UNCHANGED <<session, issued, dismissed, loadoutVars, asking>>
  BY DEF SkinNext, LoadSkin, ImportSkin, Rename, TakeName, LearnName, SignInOrOut, sessionVars
<1>. QED
  BY <1>1, <1>2, <1>3, <1>4, <1>5, <1>6, <1>7 DEF TalkNext

(* Whatever the windows ask and whoever fails, a session that was refused is
   not used again, a saved loadout stays one, and the skin is the account's.
   PlayerIsShown for any number of windows and of calls. *)
THEOREM PlayerIsAlwaysShown == BridgeSpec => []PlayerIsShown
<1>1. BridgeInit => TalkInv /\ SkinInv
  BY BridgeStart
<1>2. TalkInv /\ SkinInv /\ [TalkNext \/ SkinNext]_bridgeVars => (TalkInv /\ SkinInv)'
  BY TalkStep, SkinStep
<1>3. TalkInv /\ SkinInv => PlayerIsShown
  <2>1. ASSUME TalkInv PROVE RefusedStaysOut
    BY <2>1 DEF TalkInv, TokensInv, RefusedStaysOut, HasSession, IsAt
  <2>2. ASSUME TalkInv PROVE LoadoutStays
    BY <2>2 DEF TalkInv, SavesInv, LoadoutStays
  <2>3. ASSUME SkinInv PROVE SkinIsOwn
    BY <2>3 DEF SkinInv
  <2>. QED
    BY <2>1, <2>2, <2>3 DEF PlayerIsShown
<1>. QED
  BY <1>1, <1>2, <1>3, PTL DEF BridgeSpec

-----------------------------------------------------------------------------
(* Restore points *)

ContentRevisions == DOMAIN TargetsOf
Making == {"none", "copy", "named", "done", "left", "failed"}
PointRecords ==
    [pc : Making, rev : ContentRevisions \cup {None}, files : Trees, disk : Trees,
     settings : Settings \cup {None}, excluded : SUBSET Paths, left : SUBSET Paths,
     torn : BOOLEAN, stable : SUBSET Paths]

BackupTypeOK ==
    /\ folder \in Trees /\ marker \subseteq Paths
    /\ projecting \in Projections \cup {None}
    /\ head \in ContentRevisions /\ settings \in Settings
    /\ points \in [Points -> PointRecords]
    /\ restoring \in Restorations \cup {None}
    /\ backupCrashes \in Nat

\* A managed file is named by the marker, or by the one that was moved away.
FolderInv ==
    \A p \in Paths : folder[p] = Managed =>
        IF projecting = None THEN p \in marker ELSE p \in projecting.old

\* What a point has of a path already.
Faithful(b, files, p) ==
    /\ files[p] = Managed => points[b].torn
    /\ p \in points[b].stable /\ p \notin points[b].excluded => files[p] = folder[p]

\* As long as no projection came in between, the marker is what it was.
CopyInv ==
    \A b \in Points : points[b].pc = "copy" =>
       /\ points[b].rev \in ContentRevisions
       /\ ~points[b].torn => projecting = None /\ points[b].excluded = marker
       /\ \A p \in Paths \ points[b].left : Faithful(b, points[b].disk, p)

ListedInv ==
    /\ \A b \in Listed :
          /\ points[b].rev \in ContentRevisions /\ points[b].settings \in Settings
          /\ \A p \in Paths : Faithful(b, points[b].files, p)
          /\ points[b].pc = "left" => backupCrashes > 0
    /\ pins = {b \in Points : points[b].pc = "done"}

RestoreInv ==
    restoring # None =>
       /\ restoring.pc = "copy" => TargetsOf[restoring.doc.rev] \subseteq restoring.excluded
       /\ restoring.alone /\ restoring.pc # "failed" /\ ~restoring.withSettings =>
             settings = restoring.before
       /\ restoring.alone /\ restoring.pc = "failed" => settings = restoring.before

CopiesInv ==
    \A c \in copies :
       /\ c.pc = "active" /\ c.withFiles =>
             /\ c.files = c.doc.files
             /\ FilesIn(c.files) \cap TargetsOf[c.doc.rev] = {}
       /\ New(c) => (restoring # None /\ restoring.pc = "copy") \/ backupCrashes > 0

BackupInv == BackupTypeOK /\ FolderInv /\ CopyInv /\ ListedInv /\ RestoreInv /\ CopiesInv

LEMMA TargetsArePaths == \A r \in ContentRevisions : TargetsOf[r] \subseteq Paths
BY BackupAssumption DEF ContentRevisions

LEMMA BlankIsTyped == Blank \in PointRecords
BY DEF Blank, PointRecords, Making, Trees, Empty

LEMMA BackupStart == BackupInit => BackupInv
<1>. SUFFICES ASSUME BackupInit PROVE BackupInv
  OBVIOUS
<1>1. /\ head \in ContentRevisions /\ settings \in Settings
  <2>1. (\E r \in ContentRevisions : TRUE) /\ (\E s \in Settings : TRUE)
    BY BackupAssumption DEF ContentRevisions
  <2>. QED
    BY <2>1 DEF BackupInit, ContentRevisions
<1>2. folder \in Trees /\ \A p \in Paths : folder[p] # Managed
  BY BackupAssumption DEF BackupInit, Trees
<1>3. points = [b \in Points |-> Blank] /\ \A b \in Points : points[b].pc = "none"
  BY DEF BackupInit, Blank
<1>4. BackupTypeOK
  BY <1>1, <1>2, <1>3, BlankIsTyped DEF BackupInit, BackupTypeOK
<1>5. FolderInv /\ CopyInv /\ ListedInv /\ RestoreInv /\ CopiesInv
  BY <1>2, <1>3 DEF BackupInit, FolderInv, CopyInv, ListedInv, Listed, RestoreInv, CopiesInv
<1>. QED
  BY <1>4, <1>5 DEF BackupInv

\* Steps of the command that makes a point; the folder stays as it is.
LEMMA PointStep ==
    ASSUME BackupInv, NEW b \in Points,
           UNCHANGED <<profileVars, restoreVars, boundVars>>,
           points' \in [Points -> PointRecords],
           \A a \in Points : a # b => points'[a] = points[a],
           pins' = {a \in Points : points'[a].pc = "done"},
           points'[b].pc \in {"failed", "copy", "named", "done"},
           points'[b].pc # "failed" => points'[b].rev \in ContentRevisions,
           points'[b].pc = "copy" =>
              /\ ~points'[b].torn => projecting = None /\ points'[b].excluded = marker
              /\ \A p \in Paths \ points'[b].left : Faithful(b, points[b].disk, p)',
           points'[b].pc \in {"named", "done"} =>
              /\ points'[b].settings \in Settings
              /\ \A p \in Paths : Faithful(b, points[b].files, p)'
    PROVE  BackupInv'
<1>1. BackupTypeOK' /\ FolderInv' /\ RestoreInv' /\ CopiesInv'
  BY DEF BackupInv, BackupTypeOK, FolderInv, RestoreInv, CopiesInv, New, FilesIn,
         profileVars, restoreVars, boundVars
<1>2. CopyInv'
  <2>1. ASSUME NEW a \in Points, a # b, points'[a].pc = "copy"
        PROVE  /\ points'[a].rev \in ContentRevisions
               /\ ~points'[a].torn => projecting' = None /\ points'[a].excluded = marker'
               /\ \A p \in Paths \ points'[a].left : Faithful(a, points[a].disk, p)'
    BY <2>1 DEF BackupInv, CopyInv, Faithful, profileVars
  <2>. QED
    BY <2>1 DEF CopyInv, profileVars
<1>3. ListedInv'
  <2>1. ASSUME NEW a \in Points, a # b, a \in Listed'
        PROVE  /\ points'[a].rev \in ContentRevisions /\ points'[a].settings \in Settings
               /\ \A p \in Paths : Faithful(a, points[a].files, p)'
               /\ points'[a].pc = "left" => backupCrashes' > 0
    BY <2>1 DEF BackupInv, ListedInv, Listed, Faithful, profileVars, boundVars
  <2>. QED
    BY <2>1 DEF ListedInv, Listed
<1>. QED
  BY <1>1, <1>2, <1>3 DEF BackupInv

LEMMA PointsAreMade ==
    ASSUME BackupInv, NEW b \in Points,
           \/ BeginPoint(b) \/ PointFails(b) \/ NamePoint(b) \/ PinPoint(b)
           \/ \E p \in Paths : CopyToPoint(b, p)
    PROVE  BackupInv'
<1>1. /\ points \in [Points -> PointRecords] /\ points[b] \in PointRecords
      /\ folder \in Trees /\ marker \subseteq Paths /\ head \in ContentRevisions /\ settings \in Settings
      /\ pins = {a \in Points : points[a].pc = "done"}
  BY DEF BackupInv, BackupTypeOK, ListedInv
<1>2. CASE BeginPoint(b)
  <2>. DEFINE r == [Blank EXCEPT !.pc = "copy", !.rev = head, !.excluded = marker,
                                !.left = Paths, !.torn = projecting # None, !.stable = Paths]
  <2>1. /\ r \in PointRecords /\ r.pc = "copy" /\ r.rev = head /\ r.excluded = marker
        /\ r.left = Paths /\ r.torn = (projecting # None)
    BY <1>1, BlankIsTyped DEF PointRecords, Making, Blank
  <2>2. /\ points' = [points EXCEPT ![b] = r] /\ points[b].pc = "none"
        /\ UNCHANGED <<profileVars, pins, restoreVars, boundVars>>
    BY <1>2 DEF BeginPoint
  <2>. HIDE DEF r
  <2>3. /\ points' \in [Points -> PointRecords] /\ points'[b] = r
        /\ \A a \in Points : a # b => points'[a] = points[a]
    BY <1>1, <2>1, <2>2
  <2>4. pins' = {a \in Points : points'[a].pc = "done"}
    BY <1>1, <2>1, <2>2, <2>3
  <2>. QED
    BY <1>1, <2>1, <2>2, <2>3, <2>4, PointStep
<1>3. CASE PointFails(b)
  <2>1. [Blank EXCEPT !.pc = "failed"] \in PointRecords
    BY BlankIsTyped DEF PointRecords, Making
  <2>2. [Blank EXCEPT !.pc = "failed"].pc = "failed"
    BY DEF Blank
  <2>3. /\ points' = [points EXCEPT ![b] = [Blank EXCEPT !.pc = "failed"]]
        /\ pins' = pins \ {b} /\ UNCHANGED <<profileVars, restoreVars, boundVars>>
    BY <1>3 DEF PointFails
  <2>4. /\ points' \in [Points -> PointRecords] /\ points'[b].pc = "failed"
        /\ \A a \in Points : a # b => points'[a] = points[a]
    BY <1>1, <2>1, <2>2, <2>3
  <2>5. pins' = {a \in Points : points'[a].pc = "done"}
    BY <1>1, <2>3, <2>4
  <2>. QED
    BY <2>3, <2>4, <2>5, PointStep
<1>4. CASE NamePoint(b)
  <2>1. /\ points[b].pc = "copy" /\ points[b].left = {}
        /\ UNCHANGED <<profileVars, pins, restoreVars, boundVars>>
        /\ points' = [points EXCEPT ![b] = [points[b] EXCEPT !.pc = "named",
                           !.files = points[b].disk, !.settings = settings]]
    BY <1>1, <1>4 DEF NamePoint
  <2>. DEFINE r == [points[b] EXCEPT !.pc = "named", !.files = points[b].disk, !.settings = settings]
  <2>2. /\ r \in PointRecords /\ r.pc = "named" /\ r.rev = points[b].rev
        /\ r.files = points[b].disk /\ r.settings = settings /\ r.torn = points[b].torn
        /\ r.excluded = points[b].excluded /\ r.stable = points[b].stable
    BY <1>1 DEF PointRecords, Making
  <2>. HIDE DEF r
  <2>3. /\ points' \in [Points -> PointRecords] /\ points'[b] = r
        /\ \A a \in Points : a # b => points'[a] = points[a]
    BY <1>1, <2>1, <2>2 DEF r
  <2>4. pins' = {a \in Points : points'[a].pc = "done"}
    BY <1>1, <2>1, <2>2, <2>3
  <2>5. points'[b].rev \in ContentRevisions /\ \A p \in Paths : Faithful(b, points[b].files, p)'
    BY <2>1, <2>2, <2>3 DEF BackupInv, CopyInv, Faithful, profileVars
  <2>. QED
    BY <1>1, <2>1, <2>2, <2>3, <2>4, <2>5, PointStep
<1>5. CASE PinPoint(b)
  <2>1. /\ points[b].pc = "named" /\ pins' = pins \cup {b}
        /\ UNCHANGED <<profileVars, restoreVars, boundVars>>
        /\ points' = [points EXCEPT ![b] = [points[b] EXCEPT !.pc = "done"]]
    BY <1>1, <1>5 DEF PinPoint
  <2>. DEFINE r == [points[b] EXCEPT !.pc = "done"]
  <2>2. /\ r \in PointRecords /\ r.pc = "done" /\ r.rev = points[b].rev
        /\ r.files = points[b].files /\ r.settings = points[b].settings /\ r.torn = points[b].torn
        /\ r.excluded = points[b].excluded /\ r.stable = points[b].stable
    BY <1>1 DEF PointRecords, Making
  <2>. HIDE DEF r
  <2>3. /\ points' \in [Points -> PointRecords] /\ points'[b] = r
        /\ \A a \in Points : a # b => points'[a] = points[a]
    BY <1>1, <2>1, <2>2 DEF r
  <2>4. pins' = {a \in Points : points'[a].pc = "done"}
    BY <1>1, <2>1, <2>2, <2>3
  <2>5. /\ points'[b].rev \in ContentRevisions /\ points'[b].settings \in Settings
        /\ \A p \in Paths : Faithful(b, points[b].files, p)'
    BY <2>1, <2>2, <2>3 DEF BackupInv, ListedInv, Listed, Faithful, profileVars
  <2>. QED
    BY <1>1, <2>1, <2>2, <2>3, <2>4, <2>5, PointStep
<1>6. ASSUME NEW p \in Paths, CopyToPoint(b, p) PROVE BackupInv'
  <2>. DEFINE new  == IF p \in points[b].excluded THEN None ELSE folder[p]
              tree == [points[b].disk EXCEPT ![p] = new]
              r    == [points[b] EXCEPT !.left = points[b].left \ {p}, !.disk = tree]
  <2>1. /\ points[b].pc = "copy" /\ points' = [points EXCEPT ![b] = r]
        /\ UNCHANGED <<profileVars, pins, restoreVars, boundVars>>
    BY <1>1, <1>6 DEF CopyToPoint, PointRecords
  <2>2. tree \in Trees /\ tree[p] = new /\ \A q \in Paths : q # p => tree[q] = points[b].disk[q]
    BY <1>1 DEF PointRecords, Trees
  <2>. HIDE DEF tree
  <2>3. /\ r \in PointRecords /\ r.pc = "copy" /\ r.rev = points[b].rev
        /\ r.disk = tree /\ r.left = points[b].left \ {p} /\ r.torn = points[b].torn
        /\ r.excluded = points[b].excluded /\ r.stable = points[b].stable
    BY <1>1, <2>1, <2>2 DEF PointRecords, Making
  <2>. HIDE DEF r
  <2>4. /\ points' \in [Points -> PointRecords] /\ points'[b] = r
        /\ \A a \in Points : a # b => points'[a] = points[a]
    BY <1>1, <2>1, <2>3
  <2>5. pins' = {a \in Points : points'[a].pc = "done"}
    BY <1>1, <2>1, <2>3, <2>4
  <2>6. /\ points'[b].rev \in ContentRevisions
        /\ ~points'[b].torn => projecting = None /\ points'[b].excluded = marker
    BY <2>1, <2>3, <2>4 DEF BackupInv, CopyInv
  <2>7. ASSUME NEW q \in Paths \ points'[b].left PROVE Faithful(b, points[b].disk, q)'
    <3>1. CASE q # p
      BY <2>1, <2>2, <2>3, <2>4, <3>1 DEF BackupInv, CopyInv, Faithful, profileVars
    <3>2. CASE q = p
      <4>1. tree[p] = Managed => points[b].torn
        BY <2>1, <2>2, BackupAssumption DEF BackupInv, CopyInv, FolderInv
      <4>2. p \notin points[b].excluded => tree[p] = folder[p]
        BY <2>2
      <4>. QED
        BY <2>1, <2>3, <2>4, <3>2, <4>1, <4>2 DEF Faithful, profileVars
    <3>. QED
      BY <3>1, <3>2
  <2>. QED
    BY <1>1, <2>1, <2>3, <2>4, <2>5, <2>6, <2>7, PointStep
<1>. QED
  BY <1>2, <1>3, <1>4, <1>5, <1>6

\* Steps of a restoration leave the folder and the points as they are.
LEMMA RestoreStays ==
    ASSUME BackupInv, UNCHANGED <<profileVars, pointVars, boundVars>>,
           settings' \in Settings, restoring' \in Restorations \cup {None},
           RestoreInv', CopiesInv'
    PROVE  BackupInv'
BY DEF BackupInv, BackupTypeOK, FolderInv, CopyInv, ListedInv, Listed, Faithful,
       profileVars, pointVars, boundVars

LEMMA RestorationsGoOn ==
    ASSUME BackupInv,
           \/ \E b \in Points : \E ws, wf \in BOOLEAN : BeginRestore(b, ws, wf)
           \/ CreateCopy \/ FinishRestore \/ RestoreFails \/ UndoSettings \/ AnswerRestore
    PROVE  BackupInv'
<1>1. /\ settings \in Settings /\ restoring \in Restorations \cup {None}
      /\ points \in [Points -> PointRecords] /\ marker \subseteq Paths
      /\ RestoreInv /\ CopiesInv
  BY DEF BackupInv, BackupTypeOK
<1>2. ASSUME NEW b \in Points, NEW ws \in BOOLEAN, NEW wf \in BOOLEAN, BeginRestore(b, ws, wf)
      PROVE  BackupInv'
  <2>1. /\ restoring = None /\ b \in Listed
        /\ restoring' = [point |-> b, doc |-> Document(b), pc |-> "create",
                         before |-> settings, withSettings |-> ws,
                         withFiles |-> wf, excluded |-> {}, alone |-> TRUE]
        /\ settings' = IF ws THEN points[b].settings ELSE settings
        /\ UNCHANGED <<profileVars, pointVars, copies, boundVars>>
    BY <1>2 DEF BeginRestore
  <2>2. points[b].rev \in ContentRevisions /\ points[b].settings \in Settings /\ points[b].files \in Trees
    BY <1>1, <2>1 DEF BackupInv, ListedInv, PointRecords
  <2>3. restoring' \in Restorations
    <3>1. Document(b) \in [rev : DOMAIN TargetsOf, files : Trees]
      BY <2>2 DEF Document, ContentRevisions
    <3>. QED
      BY <1>1, <2>1, <3>1 DEF Restorations
  <2>4. RestoreInv'
    BY <2>1 DEF RestoreInv
  <2>5. CopiesInv'
    BY <1>1, <2>1 DEF CopiesInv, New, FilesIn, boundVars
  <2>. QED
    BY <1>1, <2>1, <2>2, <2>3, <2>4, <2>5, RestoreStays
<1>3. CASE CreateCopy
  <2>. DEFINE excluded == marker \cup TargetsOf[restoring.doc.rev]
              r        == [restoring EXCEPT !.pc = "copy", !.excluded = excluded]
              c        == [doc |-> restoring.doc, files |-> Empty,
                           withFiles |-> restoring.withFiles, pc |-> "new"]
  <2>1. /\ restoring \in Restorations /\ restoring.pc = "create"
        /\ restoring' = r /\ copies' = copies \cup {c}
        /\ UNCHANGED <<profileVars, pointVars, settings, boundVars>>
    BY <1>1, <1>3 DEF CreateCopy
  <2>2. excluded \subseteq Paths
    BY <1>1, <2>1, TargetsArePaths DEF Restorations, ContentRevisions
  <2>. HIDE DEF excluded
  <2>3. /\ r \in Restorations /\ r.pc = "copy" /\ r.doc = restoring.doc /\ r.excluded = excluded
        /\ r.alone = restoring.alone /\ r.withSettings = restoring.withSettings
        /\ r.before = restoring.before
    BY <2>1, <2>2 DEF Restorations
  <2>4. c.pc = "new"
    OBVIOUS
  <2>. HIDE DEF r, c
  <2>5. r # None
    BY <2>3, BackupAssumption
  <2>6. RestoreInv'
    <3>1. TargetsOf[restoring.doc.rev] \subseteq excluded
      BY DEF excluded
    <3>. QED
      BY <1>1, <2>1, <2>3, <2>5, <3>1, BackupAssumption DEF RestoreInv
  <2>7. CopiesInv'
    BY <1>1, <2>1, <2>3, <2>4, <2>5 DEF CopiesInv, New, FilesIn, boundVars
  <2>. QED
    BY <1>1, <2>1, <2>3, <2>6, <2>7, RestoreStays
<1>4. CASE FinishRestore
  <2>. DEFINE tree == points[restoring.point].disk
              c    == Restored(tree)
  <2>1. /\ restoring # None /\ restoring.pc = "copy" /\ restoring' = None
        /\ restoring.withFiles => CanRestore(tree, restoring.excluded)
        /\ copies' = {d \in copies : ~New(d)} \cup {c}
        /\ UNCHANGED <<profileVars, pointVars, settings, boundVars>>
    BY <1>4 DEF FinishRestore
  <2>2. restoring.point \in Points /\ tree \in Trees
    BY <1>1, <2>1 DEF Restorations, PointRecords
  <2>3. TargetsOf[restoring.doc.rev] \subseteq restoring.excluded
    BY <1>1, <2>1 DEF RestoreInv
  <2>4. /\ c.pc = "active" /\ c.doc = restoring.doc /\ c.withFiles = restoring.withFiles
        /\ c.files = [p \in Paths |-> IF restoring.withFiles /\ p \notin restoring.excluded
                                      THEN tree[p] ELSE None]
    BY DEF Restored
  <2>. HIDE DEF tree, c
  <2>5. ASSUME restoring.withFiles
        PROVE  c.files = restoring.doc.files /\ FilesIn(c.files) \cap restoring.excluded = {}
    <3>1. /\ tree = restoring.doc.files
          /\ \A p \in Paths : p \in restoring.excluded => tree[p] = None
      BY <2>1, <2>5 DEF CanRestore, FilesIn
    <3>2. /\ c.files = [p \in Paths |-> tree[p]]
          /\ \A p \in Paths : p \in restoring.excluded => c.files[p] = None
      BY <2>4, <2>5, <3>1
    <3>3. tree = [p \in Paths |-> tree[p]]
      BY <2>2 DEF Trees
    <3>. QED
      BY <3>1, <3>2, <3>3 DEF FilesIn
  <2>6. CopiesInv'
    <3>1. ~New(c) /\ (c.withFiles => /\ c.files = c.doc.files
                                     /\ FilesIn(c.files) \cap TargetsOf[c.doc.rev] = {})
      BY <2>3, <2>4, <2>5 DEF New
    <3>. QED
      BY <1>1, <2>1, <3>1 DEF CopiesInv, New, FilesIn
  <2>7. RestoreInv'
    BY <2>1 DEF RestoreInv
  <2>. QED
    BY <1>1, <2>1, <2>6, <2>7, RestoreStays
<1>5. CASE RestoreFails
  <2>. DEFINE r == [restoring EXCEPT !.pc = "undo"]
  <2>1. /\ restoring \in Restorations /\ restoring.pc \in {"create", "copy"}
        /\ restoring' = r /\ copies' = {c \in copies : ~New(c)}
        /\ UNCHANGED <<profileVars, pointVars, settings, boundVars>>
    BY <1>1, <1>5 DEF RestoreFails
  <2>2. /\ r \in Restorations /\ r.pc = "undo" /\ r.alone = restoring.alone
        /\ r.withSettings = restoring.withSettings /\ r.before = restoring.before
    BY <2>1 DEF Restorations
  <2>. HIDE DEF r
  <2>3. RestoreInv'
    BY <1>1, <2>1, <2>2, BackupAssumption DEF RestoreInv
  <2>4. CopiesInv'
    BY <1>1, <2>1 DEF CopiesInv, New, FilesIn
  <2>. QED
    BY <1>1, <2>1, <2>2, <2>3, <2>4, RestoreStays
<1>6. CASE UndoSettings
  <2>. DEFINE r == [restoring EXCEPT !.pc = "failed"]
  <2>1. /\ restoring \in Restorations /\ restoring.pc = "undo"
        /\ restoring' = r
        /\ settings' = IF restoring.withSettings THEN restoring.before ELSE settings
        /\ UNCHANGED <<profileVars, pointVars, copies, boundVars>>
    BY <1>1, <1>6 DEF UndoSettings
  <2>2. /\ r \in Restorations /\ r.pc = "failed" /\ r.alone = restoring.alone
        /\ r.before = restoring.before /\ restoring.before \in Settings
        /\ restoring.withSettings \in BOOLEAN
    BY <2>1 DEF Restorations
  <2>. HIDE DEF r
  <2>3. RestoreInv'
    BY <1>1, <2>1, <2>2, BackupAssumption DEF RestoreInv
  <2>4. CopiesInv'
    BY <1>1, <2>1 DEF CopiesInv, New, FilesIn, boundVars
  <2>. QED
    BY <1>1, <2>1, <2>2, <2>3, <2>4, RestoreStays
<1>7. CASE AnswerRestore
  <2>1. /\ restoring # None /\ restoring.pc = "failed" /\ restoring' = None
        /\ UNCHANGED <<profileVars, pointVars, settings, copies, boundVars>>
    BY <1>7 DEF AnswerRestore
  <2>2. RestoreInv' /\ CopiesInv'
    BY <1>1, <2>1 DEF RestoreInv, CopiesInv, New, FilesIn, boundVars
  <2>. QED
    BY <1>1, <2>1, <2>2, RestoreStays
<1>. QED
  BY <1>2, <1>3, <1>4, <1>5, <1>6, <1>7

\* Of a point only its ties to the folder change: a path is no longer stable,
\* or a projection came while it was copied.
LEMMA FolderStep ==
    ASSUME BackupInv, NEW paths \in SUBSET Paths, NEW torn \in BOOLEAN,
           UNCHANGED <<head, pins, restoreVars, backupCrashes>>,
           folder' \in Trees, marker' \subseteq Paths, projecting' \in Projections \cup {None},
           FolderInv',
           points' = IF torn THEN Projected(paths) ELSE Touched(paths),
           ~torn => UNCHANGED <<marker, projecting>>,
           \A p \in Paths \ paths : folder'[p] = folder[p]
    PROVE  BackupInv'
<1>1. /\ points \in [Points -> PointRecords] /\ CopyInv /\ ListedInv
  BY DEF BackupInv, BackupTypeOK
<1>2. ASSUME NEW b \in Points
      PROVE  /\ points'[b] \in PointRecords
             /\ points'[b].pc = points[b].pc /\ points'[b].rev = points[b].rev
             /\ points'[b].files = points[b].files /\ points'[b].disk = points[b].disk
             /\ points'[b].settings = points[b].settings /\ points'[b].left = points[b].left
             /\ points'[b].excluded = points[b].excluded
             /\ points'[b].stable = points[b].stable \ paths
             /\ points'[b].torn = (points[b].torn \/ (torn /\ points[b].pc = "copy"))
  <2>. DEFINE r == [points[b] EXCEPT !.stable = points[b].stable \ paths]
              t == [r EXCEPT !.torn = r.torn \/ points[b].pc = "copy"]
  <2>1. points[b] \in PointRecords /\ Touched(paths)[b] = r /\ Projected(paths)[b] = t
    BY <1>1 DEF Touched, Projected
  <2>2. /\ r \in PointRecords
        /\ r.pc = points[b].pc /\ r.rev = points[b].rev /\ r.files = points[b].files
        /\ r.disk = points[b].disk /\ r.settings = points[b].settings /\ r.left = points[b].left
        /\ r.excluded = points[b].excluded /\ r.torn = points[b].torn
        /\ r.stable = points[b].stable \ paths
    BY <2>1 DEF PointRecords
  <2>. HIDE DEF r
  <2>3. /\ t \in PointRecords
        /\ t.pc = r.pc /\ t.rev = r.rev /\ t.files = r.files /\ t.disk = r.disk
        /\ t.settings = r.settings /\ t.left = r.left /\ t.excluded = r.excluded
        /\ t.stable = r.stable /\ t.torn = (r.torn \/ points[b].pc = "copy")
    BY <2>2 DEF PointRecords
  <2>4. points[b].torn \in BOOLEAN
    BY <2>1 DEF PointRecords
  <2>. HIDE DEF t
  <2>5. CASE torn
    BY <2>1, <2>2, <2>3, <2>4, <2>5
  <2>6. CASE ~torn
    BY <2>1, <2>2, <2>4, <2>6
  <2>. QED
    BY <2>5, <2>6
<1>3. points' \in [Points -> PointRecords]
  <2>1. CASE torn
    BY <1>2, <2>1 DEF Projected
  <2>2. CASE ~torn
    BY <1>2, <2>2 DEF Touched
  <2>. QED
    BY <2>1, <2>2
<1>4. BackupTypeOK'
  <2>1. /\ head' \in ContentRevisions /\ settings' \in Settings
        /\ restoring' \in Restorations \cup {None} /\ backupCrashes' \in Nat
    BY DEF BackupInv, BackupTypeOK, restoreVars
  <2>. QED
    BY ONLY <1>3, <2>1, folder' \in Trees, marker' \subseteq Paths,
       projecting' \in Projections \cup {None} DEF BackupTypeOK
<1>5. ASSUME NEW b \in Points, NEW files, NEW p \in Paths, Faithful(b, files, p)
      PROVE  /\ files[p] = Managed => points'[b].torn
             /\ p \in points'[b].stable /\ p \notin points'[b].excluded => files[p] = folder'[p]
  <2>1. /\ points[b].torn => points'[b].torn
        /\ p \in points'[b].stable => p \in points[b].stable /\ p \notin paths
        /\ points'[b].excluded = points[b].excluded
    BY <1>2
  <2>. QED
    BY <1>5, <2>1 DEF Faithful
<1>6. CopyInv'
  <2>. SUFFICES ASSUME NEW b \in Points, points'[b].pc = "copy"
                PROVE  /\ points'[b].rev \in ContentRevisions
                       /\ ~points'[b].torn => projecting' = None /\ points'[b].excluded = marker'
                       /\ \A p \in Paths \ points'[b].left : Faithful(b, points[b].disk, p)'
    BY DEF CopyInv
  <2>1. points[b].pc = "copy"
    BY <1>2
  <2>2. ~points'[b].torn => projecting' = None /\ points'[b].excluded = marker'
    BY <1>1, <1>2, <2>1 DEF CopyInv
  <2>3. ASSUME NEW p \in Paths \ points'[b].left PROVE Faithful(b, points[b].disk, p)'
    <3>1. Faithful(b, points[b].disk, p)
      BY <1>1, <1>2, <2>1 DEF CopyInv
    <3>. QED
      BY <1>2, <1>5, <3>1 DEF Faithful
  <2>. QED
    BY <1>1, <1>2, <2>1, <2>2, <2>3 DEF CopyInv
<1>7. ListedInv'
  BY <1>1, <1>2, <1>5 DEF ListedInv, Listed, Faithful
<1>8. RestoreInv' /\ CopiesInv'
  BY DEF BackupInv, RestoreInv, CopiesInv, New, FilesIn, restoreVars
<1>. QED
  BY <1>4, <1>6, <1>7, <1>8 DEF BackupInv

LEMMA FolderChanges ==
    ASSUME BackupInv,
           \/ BeginProjection \/ EndProjection
           \/ \E p \in Paths, c \in {None} \cup UserContents : EditFile(p, c)
    PROVE  BackupInv'
<1>1. /\ folder \in Trees /\ marker \subseteq Paths /\ projecting \in Projections \cup {None}
      /\ head \in ContentRevisions /\ FolderInv
  BY DEF BackupInv, BackupTypeOK
<1>2. CASE BeginProjection
  <2>1. /\ projecting = None /\ marker' = {}
        /\ projecting' = [old |-> marker, new |-> TargetsOf[head]]
        /\ folder' = [p \in Paths |-> IF p \in marker \ TargetsOf[head] THEN None ELSE folder[p]]
        /\ points' = Projected(marker)
        /\ UNCHANGED <<head, pins, restoreVars, boundVars>>
    BY <1>2 DEF BeginProjection
  <2>2. projecting' \in Projections /\ projecting' # None
    BY <1>1, <2>1, TargetsArePaths, BackupAssumption DEF Projections
  <2>3. folder' \in Trees /\ \A p \in Paths \ marker : folder'[p] = folder[p]
    BY <1>1, <2>1 DEF Trees
  <2>4. FolderInv'
    <3>1. projecting'.old = marker
      BY <2>1
    <3>. QED
      BY <1>1, <2>1, <2>2, <3>1, BackupAssumption DEF FolderInv
  <2>. QED
    BY <1>1, <2>1, <2>2, <2>3, <2>4, FolderStep DEF boundVars
<1>3. CASE EndProjection
  <2>. DEFINE targets == IF Fits(projecting.new) THEN projecting.new
                         ELSE {p \in projecting.old : Fits({p})}
  <2>1. /\ projecting \in Projections /\ projecting' = None /\ marker' = targets
        /\ folder' = [p \in Paths |-> IF p \in targets THEN Managed
                                      ELSE IF folder[p] = Managed THEN None ELSE folder[p]]
        /\ points' = Projected(targets \cup projecting.old)
        /\ UNCHANGED <<head, pins, restoreVars, boundVars>>
    BY <1>1, <1>3 DEF EndProjection
  <2>2. projecting.old \subseteq Paths /\ targets \subseteq Paths
    BY <2>1 DEF Projections
  <2>. HIDE DEF targets
  <2>3. \A p \in Paths : folder[p] = Managed => p \in projecting.old
    BY <1>1, <2>1, BackupAssumption DEF FolderInv
  <2>4. folder' \in Trees
    BY <1>1, <2>1 DEF Trees
  <2>5. \A p \in Paths \ (targets \cup projecting.old) : folder'[p] = folder[p]
    BY <1>1, <2>1, <2>3
  <2>6. FolderInv'
    BY <1>1, <2>1, BackupAssumption DEF FolderInv
  <2>. QED
    BY <1>1, <2>1, <2>2, <2>4, <2>5, <2>6, FolderStep DEF boundVars
<1>4. ASSUME NEW p \in Paths, NEW c \in {None} \cup UserContents, EditFile(p, c)
      PROVE  BackupInv'
  <2>1. /\ folder' = [folder EXCEPT ![p] = c] /\ points' = Touched({p})
        /\ UNCHANGED <<marker, projecting, head, pins, restoreVars, backupCrashes>>
    BY <1>4 DEF EditFile
  <2>2. folder' \in Trees /\ \A q \in Paths \ {p} : folder'[q] = folder[q]
    BY <1>1, <2>1 DEF Trees
  <2>3. FolderInv'
    BY <1>1, <2>1, BackupAssumption DEF FolderInv, Trees
  <2>. QED
    BY <1>1, <2>1, <2>2, <2>3, FolderStep
<1>. QED
  BY <1>2, <1>3, <1>4

LEMMA OthersStep ==
    ASSUME BackupInv,
           \/ \E b \in Points, p \in Paths, c \in {None} \cup UserContents : EditPoint(b, p, c)
           \/ \E r \in ContentRevisions : CommitRevision(r)
           \/ \E s \in Settings : SaveSettings(s)
           \/ UNCHANGED backupVars
    PROVE  BackupInv'
<1>1. /\ points \in [Points -> PointRecords] /\ settings \in Settings
      /\ restoring \in Restorations \cup {None} /\ RestoreInv /\ CopiesInv
  BY DEF BackupInv, BackupTypeOK
<1>2. ASSUME NEW b \in Points, NEW p \in Paths, NEW c \in {None} \cup UserContents,
             EditPoint(b, p, c)
      PROVE  BackupInv'
  <2>. DEFINE tree == [points[b].disk EXCEPT ![p] = c]
              r    == [points[b] EXCEPT !.disk = tree]
  <2>1. /\ b \in Listed /\ points' = [points EXCEPT ![b] = r]
        /\ UNCHANGED <<profileVars, pins, restoreVars, backupCrashes>>
    BY <1>1, <1>2 DEF EditPoint, PointRecords
  <2>2. tree \in Trees
    BY <1>1 DEF PointRecords, Trees
  <2>. HIDE DEF tree
  <2>3. /\ r \in PointRecords /\ r.pc = points[b].pc /\ r.rev = points[b].rev
        /\ r.files = points[b].files /\ r.settings = points[b].settings
        /\ r.torn = points[b].torn /\ r.excluded = points[b].excluded
        /\ r.stable = points[b].stable
    BY <1>1, <2>2 DEF PointRecords
  <2>. HIDE DEF r
  <2>4. /\ points' \in [Points -> PointRecords] /\ points'[b] = r
        /\ \A a \in Points : a # b => points'[a] = points[a]
        /\ points[b].pc # "copy"
    BY <1>1, <2>1, <2>3 DEF Listed
  <2>5. BackupTypeOK' /\ FolderInv' /\ RestoreInv' /\ CopiesInv'
    BY <2>1, <2>4 DEF BackupInv, BackupTypeOK, FolderInv, RestoreInv, CopiesInv, New, FilesIn,
                      profileVars, restoreVars
  <2>6. CopyInv'
    BY <2>1, <2>3, <2>4 DEF BackupInv, CopyInv, Faithful, profileVars
  <2>7. ListedInv'
    BY <2>1, <2>3, <2>4 DEF BackupInv, ListedInv, Listed, Faithful, profileVars
  <2>. QED
    BY <2>5, <2>6, <2>7 DEF BackupInv
<1>3. ASSUME NEW r \in ContentRevisions, CommitRevision(r) PROVE BackupInv'
  <2>1. /\ head' = r
        /\ UNCHANGED <<folder, marker, projecting, pointVars, restoreVars, backupCrashes>>
    BY <1>3 DEF CommitRevision
  <2>. QED
    BY <2>1 DEF BackupInv, BackupTypeOK, FolderInv, CopyInv, ListedInv, Listed, Faithful,
                RestoreInv, CopiesInv, New, FilesIn, pointVars, restoreVars
<1>4. ASSUME NEW s \in Settings, SaveSettings(s) PROVE BackupInv'
  <2>. DEFINE r == [restoring EXCEPT !.alone = FALSE]
  <2>1. /\ settings' = s /\ restoring' = IF restoring = None THEN None ELSE r
        /\ UNCHANGED <<profileVars, pointVars, copies, backupCrashes>>
    BY <1>4 DEF SaveSettings
  <2>2. restoring # None => /\ r \in Restorations /\ ~r.alone /\ r.pc = restoring.pc
                            /\ r.doc = restoring.doc /\ r.excluded = restoring.excluded
    BY <1>1 DEF Restorations
  <2>. HIDE DEF r
  <2>3. restoring' \in Restorations \cup {None} /\ RestoreInv'
    BY <1>1, <2>1, <2>2 DEF RestoreInv
  <2>4. CopiesInv'
    BY <1>1, <2>1, <2>2, BackupAssumption DEF CopiesInv, New, FilesIn
  <2>. QED
    BY <2>1, <2>3, <2>4 DEF BackupInv, BackupTypeOK, FolderInv, CopyInv, ListedInv, Listed, Faithful,
                            profileVars, pointVars
<1>5. CASE UNCHANGED backupVars
  BY <1>5 DEF backupVars, BackupInv, BackupTypeOK, FolderInv, CopyInv, ListedInv, Listed, Faithful,
              RestoreInv, CopiesInv, New, FilesIn
<1>. QED
  BY <1>2, <1>3, <1>4, <1>5

LEMMA PointsSurviveCrash ==
    ASSUME BackupInv, BackupCrash PROVE BackupInv'
<1>1. /\ points \in [Points -> PointRecords] /\ backupCrashes \in Nat
      /\ CopyInv /\ ListedInv
  BY DEF BackupInv, BackupTypeOK
<1>2. /\ backupCrashes' = backupCrashes + 1 /\ restoring' = None
      /\ UNCHANGED <<profileVars, pins, settings, copies, edits>>
  BY DEF BackupCrash
<1>3. backupCrashes' \in Nat /\ backupCrashes' > 0
  BY <1>1, <1>2
<1>4. ASSUME NEW b \in Points
      PROVE  /\ points'[b] \in PointRecords
             /\ points[b].pc = "copy" => points'[b].pc = "failed"
             /\ points[b].pc # "copy" =>
                  /\ points'[b].pc = IF points[b].pc = "named" THEN "left" ELSE points[b].pc
                  /\ points'[b].rev = points[b].rev /\ points'[b].files = points[b].files
                  /\ points'[b].settings = points[b].settings /\ points'[b].torn = points[b].torn
                  /\ points'[b].excluded = points[b].excluded
                  /\ points'[b].stable = points[b].stable
  <2>1. /\ points[b] \in PointRecords
        /\ points'[b] = CASE points[b].pc = "copy" -> [Blank EXCEPT !.pc = "failed"]
                          [] points[b].pc = "named" -> [points[b] EXCEPT !.pc = "left"]
                          [] OTHER -> points[b]
    BY <1>1 DEF BackupCrash
  <2>2. /\ [Blank EXCEPT !.pc = "failed"] \in PointRecords
        /\ [Blank EXCEPT !.pc = "failed"].pc = "failed"
    BY BlankIsTyped DEF PointRecords, Making, Blank
  <2>3. CASE points[b].pc = "copy"
    BY <2>1, <2>2, <2>3
  <2>4. CASE points[b].pc = "named"
    BY <2>1, <2>4 DEF PointRecords, Making
  <2>5. CASE points[b].pc \notin {"copy", "named"}
    BY <2>1, <2>5
  <2>. QED
    BY <2>3, <2>4, <2>5
<1>5. points' \in [Points -> PointRecords]
  BY <1>4 DEF BackupCrash
<1>6. BackupTypeOK' /\ FolderInv'
  BY <1>2, <1>3, <1>5 DEF BackupInv, BackupTypeOK, FolderInv, profileVars
<1>7. CopyInv'
  BY <1>4 DEF CopyInv
<1>8. ListedInv'
  <2>1. \A b \in Points : points'[b].pc = "done" <=> points[b].pc = "done"
    BY <1>4
  <2>2. ASSUME NEW b \in Listed'
        PROVE  /\ b \in Listed /\ points[b].pc # "copy"
    BY <1>1, <1>4 DEF Listed, PointRecords, Making
  <2>. QED
    BY <1>1, <1>2, <1>3, <1>4, <2>1, <2>2 DEF ListedInv, Listed, Faithful, profileVars
<1>9. RestoreInv' /\ CopiesInv'
  BY <1>2, <1>3 DEF BackupInv, RestoreInv, CopiesInv, New, FilesIn
<1>. QED
  BY <1>6, <1>7, <1>8, <1>9 DEF BackupInv

(* Whatever is edited, projected and interrupted while points are made and
   restored: a listed point is faithful and pinned, a copy has the files of
   its document, and a failed restoration leaves the settings of before.
   BackupsHold for any number of points, paths and revisions. *)
THEOREM BackupsAlwaysHold == BackupSpec => []BackupsHold
<1>1. BackupInv /\ [BackupNext]_backupVars => BackupInv'
  BY PointsAreMade, RestorationsGoOn, FolderChanges, OthersStep, PointsSurviveCrash
     DEF BackupNext, ContentRevisions
<1>2. BackupInv => BackupsHold
  <2>. SUFFICES ASSUME BackupInv PROVE BackupsHold
    OBVIOUS
  <2>1. ASSUME NEW b \in Listed
        PROVE  /\ b \in pins \/ points[b].pc = "named" \/ backupCrashes > 0
               /\ \A p \in Paths : Faithful(b, points[b].files, p)
    BY <2>1 DEF BackupInv, ListedInv, Listed
  <2>2. pins \subseteq Listed
    BY DEF BackupInv, ListedInv, Listed
  <2>. QED
    BY <2>1, <2>2 DEF BackupInv, BackupsHold, CopiesInv, RestoreInv, Faithful
<1>. QED
  BY BackupStart, <1>1, <1>2, PTL DEF BackupSpec

-----------------------------------------------------------------------------
(* What enters from outside: components, installers, packs, profile files *)

\* At each step of a resolution what was chosen, staged and put into the item.
CompInv ==
    /\ compPc \in {"start", "download", "inspect", "locked", "refused"}
    /\ compPc \in {"download", "inspect", "locked"} =>
          chosen \in Exact(served.catalog, wish) /\ ManifestVerified(chosen, wish)
    /\ compPc \in {"start", "download", "refused"} => compStaged = None
    /\ compPc # "locked" => compItem = None
    /\ compPc = "locked" =>
          /\ compItem = [target |-> chosen.payload.target, sha |-> compStaged.sha,
                         size |-> compStaged.size]
          /\ compStaged.size = chosen.payload.size /\ compStaged.sha = chosen.payload.sha
          /\ JarFits(compStaged, chosen.payload)

LEMMA CompStart ==
    ASSUME NEW offers, NEW wishes
    PROVE  CompInit(offers, wishes) => CompInv
  BY DEF CompInit, CompInv

LEMMA CompStep == CompInv /\ [CompNext]_compVars => CompInv'
<1>. SUFFICES ASSUME CompInv, [CompNext]_compVars PROVE CompInv'
  OBVIOUS
<1>1. CASE ResolveComponent
  <2>1. /\ compPc = "start" /\ compStaged = None /\ compItem = None
        /\ served' = served /\ wish' = wish
    BY <1>1 DEF ResolveComponent, CompInv
  <2>2. CASE RefuseComponent
    BY <2>1, <2>2 DEF RefuseComponent, CompInv
  <2>3. CASE ~RefuseComponent
    <3>1. /\ chosen' \in Exact(served.catalog, wish) /\ ManifestVerified(chosen', wish)
          /\ compPc' = "download" /\ compStaged' = None /\ compItem' = None
      BY <1>1, <2>1, <2>3 DEF ResolveComponent
    <3>2. Exact(served.catalog, wish)' = Exact(served.catalog, wish)
      BY <2>1
    <3>3. ManifestVerified(chosen, wish)' = ManifestVerified(chosen', wish)
      BY <2>1
    <3>. QED
      BY ONLY <3>1, <3>2, <3>3 DEF CompInv
  <2>. QED
    BY <2>2, <2>3
<1>2. ASSUME NEW jar \in served.jars, DownloadComponent(jar) PROVE CompInv'
  BY <1>2 DEF DownloadComponent, CompInv
<1>3. CASE InspectComponent
  <2>1. /\ compPc = "inspect" /\ served' = served /\ wish' = wish /\ compItem = None
        /\ chosen' = chosen
        /\ chosen \in Exact(served.catalog, wish) /\ ManifestVerified(chosen, wish)
    BY <1>3 DEF InspectComponent, CompInv
  <2>2. CASE compPc' = "locked"
    <3>1. /\ compStaged' = compStaged
          /\ compItem' = [target |-> chosen.payload.target, sha |-> compStaged.sha,
                          size |-> compStaged.size]
          /\ compStaged.size = chosen.payload.size /\ compStaged.sha = chosen.payload.sha
          /\ JarFits(compStaged, chosen.payload)
      BY <1>3, <2>2 DEF InspectComponent
    <3>. QED
      BY <2>1, <2>2, <3>1 DEF CompInv
  <2>3. CASE compPc' # "locked"
    <3>1. compPc' = "refused" /\ compStaged' = None /\ compItem' = None
      BY <1>3, <2>1, <2>3 DEF InspectComponent
    <3>. QED
      BY ONLY <3>1 DEF CompInv
  <2>. QED
    BY <2>2, <2>3
<1>4. CASE UNCHANGED compVars
  BY <1>4 DEF compVars, CompInv
<1>. QED
  BY <1>1, <1>2, <1>3, <1>4 DEF CompNext

LEMMA LockedIsSigned == CompInv => ComponentIsSigned
<1>. SUFFICES ASSUME CompInv PROVE ComponentIsSigned
  OBVIOUS
<1>1. ASSUME compPc = "locked"
      PROVE  \E i \in DOMAIN served.catalog :
                LET m == served.catalog[i]
                IN  /\ m.signature.by \in TrustedKeys
                    /\ m.signature.over.id = wish.id
                    /\ m.signature.over.version = wish.version
                    /\ Compatible(m.signature.over, wish)
                    /\ compItem = [target |-> ComponentTarget(wish.id),
                                   sha |-> m.signature.over.sha,
                                   size |-> m.signature.over.size]
                    /\ JarFits(compStaged, m.signature.over)
  <2>1. PICK i \in DOMAIN served.catalog :
              chosen = served.catalog[i] /\ Matches(served.catalog[i], wish)
    BY <1>1 DEF CompInv, Exact
  <2>2. /\ chosen.payload.key \in TrustedKeys
        /\ chosen.signature = [by |-> chosen.payload.key, over |-> chosen.payload]
        /\ chosen.payload.target = ComponentTarget(chosen.payload.id)
        /\ Compatible(chosen.payload, wish)
    BY <1>1 DEF CompInv, ManifestVerified, SignatureHolds
  <2>3. /\ chosen.signature.by = chosen.payload.key
        /\ chosen.signature.over = chosen.payload
    BY <2>2
  <2>4. chosen.payload.id = wish.id /\ chosen.payload.version = wish.version
    BY <2>1 DEF Matches
  <2>5. /\ compItem = [target |-> chosen.payload.target, sha |-> chosen.payload.sha,
                       size |-> chosen.payload.size]
        /\ JarFits(compStaged, chosen.payload)
    BY <1>1 DEF CompInv
  <2>. QED
    BY <2>1, <2>2, <2>3, <2>4, <2>5
<1>2. compPc = "refused" => compStaged = None /\ compItem = None
  BY DEF CompInv
<1>. QED
  BY <1>1, <1>2 DEF ComponentIsSigned

-----------------------------------------------------------------------------
\* What was written of the installer is there.
EntriesStaged ==
    /\ \A a \in plan.libraries : a.embedded =>
          a.target \in DOMAIN onStaging /\ onStaging[a.target] = a.holds
    /\ \A r \in EntryReferences :
          r.target \in DOMAIN onStaging /\ onStaging[r.target] = r.target[2]

\* So are the outputs of the processors that have run.
OutputsStaged ==
    \A i \in DOMAIN plan.processors : i <= ran =>
        \A o \in plan.processors[i].outputs :
            o.target \in DOMAIN onStaging /\ onStaging[o.target] = o.digest

NeoInv ==
    /\ neoPc \in {"ask", "refused"} => plan = None
    /\ neoPc \notin {"ask", "refused"} =>
          /\ InspectionFits(neoAsk) /\ plan = PlanOf(neoAsk.installer.entries)
          /\ DOMAIN plan.processors \subseteq Nat \ {0}
    /\ neoPc \in {"ask", "inspected", "staged"} => ran = 0
    /\ neoPc \in {"staged", "run", "verified"} => EntriesStaged
    /\ neoPc \in {"run", "verified"} => ran \in Nat /\ Ready(plan.processors) /\ OutputsStaged
    /\ neoPc = "verified" => Left = {}

LEMMA NeoStart ==
    ASSUME NEW asks
    PROVE  NeoInit(asks) => NeoInv /\ neoAsk \in asks
  BY DEF NeoInit, NeoInv

\* A reference to an entry of the installer names a place of its own.
LEMMA EntriesApart ==
    ASSUME NEW s, NEW raw
    PROVE  /\ Reference(s, raw).kind = "entry" => Reference(s, raw).target[1] = "installer-data"
           /\ Argument(s, raw).kind = "entry" => Argument(s, raw).target[1] = "installer-data"
<1>1. ASSUME NEW r
      PROVE  Reference(s, r).kind = "entry" => Reference(s, r).target[1] = "installer-data"
  <2>1. CASE r.kind = "maven"
    BY <2>1 DEF Reference
  <2>2. CASE r.kind = "entry"
    BY <2>2 DEF Reference
  <2>3. CASE r.kind \notin {"maven", "entry"}
    <3>1. Reference(s, r) = [kind |-> "data-literal", of |-> r.of]
      BY <2>3 DEF Reference
    <3>2. Reference(s, r).kind = "data-literal"
      BY ONLY <3>1
    <3>. QED
      BY <3>2
  <2>. QED
    BY <2>1, <2>2, <2>3
<1>2. CASE raw.kind = "key"
  BY <1>1, <1>2 DEF Argument
<1>3. CASE raw.kind = "relative"
  BY <1>1, <1>3 DEF Argument
<1>4. CASE raw.kind = "literal"
  BY <1>1, <1>4 DEF Argument
<1>5. CASE raw.kind \in {"maven", "entry"}
  BY <1>1, <1>5 DEF Argument
<1>6. CASE raw.kind \notin {"key", "relative", "literal", "maven", "entry"}
  <2>1. Argument(s, raw) = [kind |-> raw.kind]
    BY <1>6 DEF Argument
  <2>. QED
    BY <1>1, <1>6, <2>1
<1>. QED
  BY <1>1, <1>2, <1>3, <1>4, <1>5, <1>6

\* What a plan consists of.
LEMMA PlanParts ==
    ASSUME NEW s, NEW p, p = PlanOf(s), InspectionFits(neoAsk), s = neoAsk.installer.entries
    PROVE  /\ p.libraries = {LibraryArtifact(s, c) : c \in Specs(s)}
           /\ \A a, b \in p.libraries : a.target = b.target => a = b
           /\ \A a \in p.libraries : a.target[1] = "libraries"
           /\ \A i \in DOMAIN p.processors :
                 /\ i \in DOMAIN InstallDoc(s).processors
                 /\ p.processors[i] = Processor(s, InstallDoc(s).processors[i])
                 /\ ProcessorFits(s, InstallDoc(s).processors[i])
           /\ \A r \in p.data \cup UNION {ToSet(q.args) : q \in ToSet(p.processors)} :
                 r.kind = "entry" => r.target[1] = "installer-data"
<1>1. p.libraries = {LibraryArtifact(s, c) : c \in Specs(s)}
  BY DEF PlanOf
<1>2. \A c, d \in Specs(s) : PathOf[c] = PathOf[d] => c = d
  BY DEF InspectionFits, CatalogFits
<1>3. \A c : LibraryArtifact(s, c).target = <<"libraries", PathOf[c]>>
  BY DEF LibraryArtifact, TargetOf
<1>4. \A a, b \in p.libraries : a.target = b.target => a = b
  BY <1>1, <1>2, <1>3
<1>5. \A a \in p.libraries : a.target[1] = "libraries"
  BY <1>1, <1>3
<1>6. ASSUME NEW i \in DOMAIN p.processors
      PROVE  /\ i \in DOMAIN InstallDoc(s).processors
             /\ p.processors[i] = Processor(s, InstallDoc(s).processors[i])
             /\ ProcessorFits(s, InstallDoc(s).processors[i])
  <2>1. /\ i \in DOMAIN InstallDoc(s).processors
        /\ p.processors[i] = Processor(s, InstallDoc(s).processors[i])
    BY DEF PlanOf
  <2>. QED
    BY <2>1 DEF InspectionFits, ToSet
<1>7. ASSUME NEW r \in p.data, r.kind = "entry" PROVE r.target[1] = "installer-data"
  <2>1. PICK k \in DOMAIN InstallDoc(s).data : r = Reference(s, InstallDoc(s).data[k].client)
    BY DEF PlanOf
  <2>. QED
    BY <1>7, <2>1, EntriesApart
<1>8. ASSUME NEW q \in ToSet(p.processors), NEW r \in ToSet(q.args), r.kind = "entry"
      PROVE  r.target[1] = "installer-data"
  <2>1. PICK i \in DOMAIN p.processors : q = p.processors[i]
    BY DEF ToSet
  <2>2. q = Processor(s, InstallDoc(s).processors[i])
    BY <1>6, <2>1
  <2>3. PICK k : r = Argument(s, InstallDoc(s).processors[i].args[k])
    BY <2>2 DEF Processor, ToSet
  <2>. QED
    BY <1>8, <2>3, EntriesApart
<1>. QED
  BY <1>1, <1>4, <1>5, <1>6, <1>7, <1>8

LEMMA MaterializeStages ==
    ASSUME NeoInv, Materialize, neoPc' = "staged"
    PROVE  EntriesStaged'
<1>. DEFINE s == neoAsk.installer.entries
            libs == {l \in plan.libraries : l.embedded}
<1>1. /\ neoPc = "inspected" /\ neoAsk' = neoAsk /\ plan' = plan
      /\ onStaging' = [t \in {a.target : a \in libs} \cup {r.target : r \in EntryReferences} |->
                            IF t[1] = "libraries"
                            THEN (CHOOSE a \in plan.libraries : a.target = t).holds
                            ELSE t[2]]
  BY DEF Materialize, NeoGoes
<1>2. InspectionFits(neoAsk) /\ plan = PlanOf(s)
  BY <1>1 DEF NeoInv
<1>3. /\ \A a, b \in plan.libraries : a.target = b.target => a = b
      /\ \A a \in plan.libraries : a.target[1] = "libraries"
      /\ \A r \in EntryReferences : r.target[1] = "installer-data"
  BY <1>2, PlanParts DEF EntryReferences
<1>4. EntryReferences' = EntryReferences
  BY <1>1 DEF EntryReferences
<1>5. ASSUME NEW a \in plan.libraries, a.embedded
      PROVE  a.target \in DOMAIN onStaging' /\ onStaging'[a.target] = a.holds
  <2>1. (CHOOSE b \in plan.libraries : b.target = a.target) = a
    BY <1>3
  <2>2. a.target \in {b.target : b \in libs}
    BY <1>5
  <2>. QED
    BY <1>1, <1>3, <2>1, <2>2
<1>6. ASSUME NEW r \in EntryReferences
      PROVE  r.target \in DOMAIN onStaging' /\ onStaging'[r.target] = r.target[2]
  BY <1>1, <1>3
<1>. QED
  BY <1>1, <1>4, <1>5, <1>6 DEF EntriesStaged

\* What processor i has written, once all its outputs are right.
LEMMA RunStages ==
    ASSUME NeoInv, neoPc = "run", NEW i \in Upcoming, ProcessorStarts(plan.processors[i]),
           Executes(i), UNCHANGED <<neoAsk, plan>>, neoPc' = "run"
    PROVE  /\ ran' = i /\ i \in DOMAIN plan.processors
           /\ EntriesStaged' /\ OutputsStaged'
<1>. DEFINE p == plan.processors[i]
<1>1. /\ i \in DOMAIN plan.processors /\ i > ran
      /\ \A k \in DOMAIN plan.processors : k > ran => i <= k
      /\ ran \in Nat /\ DOMAIN plan.processors \subseteq Nat \ {0}
      /\ Ready(plan.processors) /\ EntriesStaged /\ OutputsStaged
  BY DEF NeoInv, Upcoming, Left
<1>2. PICK written \in [OutputTargets(p) -> {"right", "wrong", "absent"}], exit \in {0, 1} :
        LET wrote == {t \in OutputTargets(p) : written[t] # "absent"} IN
        /\ onStaging' = [t \in DOMAIN onStaging \cup wrote |->
                            IF t \notin wrote THEN onStaging[t]
                            ELSE IF written[t] = "right" THEN DigestOf(p, t) ELSE "wrong"]
        /\ IF exit = 0 /\ \A t \in OutputTargets(p) : written[t] = "right"
           THEN ran' = i /\ UNCHANGED neoPc
           ELSE NeoGoes("failed") /\ UNCHANGED ran
  BY DEF Executes
<1>3. ran' = i /\ \A t \in OutputTargets(p) : written[t] = "right"
  BY <1>2 DEF NeoGoes
<1>4. \A t \in OutputTargets(p) : t \notin DOMAIN onStaging
  BY DEF ProcessorStarts, CanCreate
<1>5. \A t \in DOMAIN onStaging : t \in DOMAIN onStaging' /\ onStaging'[t] = onStaging[t]
  BY <1>2, <1>4
<1>7. \A t \in OutputTargets(p) : t \in DOMAIN onStaging' /\ onStaging'[t] = DigestOf(p, t)
  BY <1>2, <1>3
<1>8. \A o \in p.outputs : DigestOf(p, o.target) = o.digest
  BY <1>1 DEF Ready, DigestOf
<1>9. EntryReferences' = EntryReferences /\ plan' = plan
  BY DEF EntryReferences
<1>10. EntriesStaged'
  BY <1>1, <1>5, <1>9 DEF EntriesStaged
<1>11. ASSUME NEW k \in DOMAIN plan.processors, k <= i, NEW o \in plan.processors[k].outputs
       PROVE  o.target \in DOMAIN onStaging' /\ onStaging'[o.target] = o.digest
  <2>1. CASE k = i
    BY <1>7, <1>8, <1>11, <2>1 DEF OutputTargets
  <2>2. CASE k # i
    <3>1. k <= ran
      BY <1>1, <1>11, <2>2
    <3>. QED
      BY <1>1, <1>5, <1>11, <3>1 DEF OutputsStaged
  <2>. QED
    BY <2>1, <2>2
<1>. QED
  BY <1>1, <1>3, <1>9, <1>10, <1>11 DEF OutputsStaged

LEMMA NeoStep ==
    ASSUME NEW asks, ProcessorsAreListed(asks)
    PROVE  NeoInv /\ neoAsk \in asks /\ [NeoNext]_neoVars => NeoInv' /\ neoAsk' \in asks
<1>. SUFFICES ASSUME NeoInv, neoAsk \in asks, [NeoNext]_neoVars
              PROVE  NeoInv' /\ neoAsk' \in asks
  OBVIOUS
<1>1. neoAsk' = neoAsk
  BY DEF NeoNext, neoVars, InspectInstaller, RefuseInstall, Materialize, BeginExecution,
         RunProcessor, FinishExecution
<1>2. CASE InspectInstaller
  <2>1. neoPc = "ask" /\ neoAsk # None /\ plan = None /\ ran' = 0
    BY <1>2 DEF InspectInstaller, NeoInv
  <2>2. CASE InspectionFits(neoAsk)
    <3>1. plan' = PlanOf(neoAsk.installer.entries) /\ neoPc' = "inspected"
      BY <1>2, <2>2 DEF InspectInstaller, NeoGoes
    <3>2. DOMAIN plan'.processors \subseteq Nat \ {0}
      <4>1. DOMAIN InstallDoc(neoAsk.installer.entries).processors \subseteq Nat \ {0}
        BY <2>1, <2>2 DEF ProcessorsAreListed
      <4>2. DOMAIN plan'.processors \subseteq DOMAIN InstallDoc(neoAsk.installer.entries).processors
        BY <3>1 DEF PlanOf
      <4>. QED
        BY <4>1, <4>2
    <3>. QED
      BY <1>1, <2>1, <2>2, <3>1, <3>2 DEF NeoInv
  <2>3. CASE ~InspectionFits(neoAsk)
    <3>1. plan' = None /\ neoPc' = "refused"
      BY <1>2, <2>1, <2>3 DEF InspectInstaller, NeoGoes
    <3>. QED
      BY <1>1, <2>1, <3>1 DEF NeoInv
  <2>. QED
    BY <2>2, <2>3
<1>3. CASE RefuseInstall
  <2>1. neoPc = "inspected" /\ neoPc' = "not installed" /\ plan' = plan
    BY <1>3 DEF RefuseInstall, NeoGoes
  <2>. QED
    BY <1>1, <2>1 DEF NeoInv
<1>4. CASE Materialize
  <2>1. neoPc = "inspected" /\ neoPc' \in {"staged", "failed"} /\ plan' = plan /\ ran' = ran
    BY <1>4 DEF Materialize, NeoGoes
  <2>2. neoPc' = "staged" => EntriesStaged'
    BY <1>4, MaterializeStages
  <2>. QED
    BY <1>1, <2>1, <2>2 DEF NeoInv
<1>5. CASE BeginExecution
  <2>1. /\ neoPc = "staged" /\ neoPc' \in {"run", "failed"}
        /\ plan' = plan /\ ran' = ran /\ onStaging' = onStaging
        /\ neoPc' = "run" => Ready(plan.processors)
    BY <1>5 DEF BeginExecution, NeoGoes
  <2>2. EntriesStaged' /\ ran = 0
    BY <2>1 DEF NeoInv, EntriesStaged, EntryReferences
  <2>3. OutputsStaged'
    BY <2>1, <2>2 DEF NeoInv, OutputsStaged
  <2>. QED
    BY <1>1, <2>1, <2>2, <2>3 DEF NeoInv
<1>6. CASE RunProcessor
  <2>1. neoPc = "run" /\ neoPc' \in {"run", "failed"} /\ plan' = plan
    BY <1>6 DEF RunProcessor, Executes, NeoGoes
  <2>2. ASSUME neoPc' = "run"
        PROVE  /\ ran' \in Nat /\ EntriesStaged' /\ OutputsStaged'
    <3>1. PICK i \in Upcoming : ProcessorStarts(plan.processors[i]) /\ Executes(i)
      BY <1>6, <2>2 DEF RunProcessor, NeoGoes
    <3>2. ran' = i /\ i \in DOMAIN plan.processors /\ EntriesStaged' /\ OutputsStaged'
      BY <1>1, <2>1, <2>2, <3>1, RunStages
    <3>. QED
      BY <2>1, <3>2 DEF NeoInv
  <2>. QED
    BY <1>1, <2>1, <2>2 DEF NeoInv
<1>7. CASE FinishExecution
  <2>1. /\ neoPc = "run" /\ neoPc' = "verified" /\ Left = {}
        /\ plan' = plan /\ onStaging' = onStaging /\ ran' = ran
    BY <1>7 DEF FinishExecution, NeoGoes
  <2>2. EntriesStaged' = EntriesStaged /\ OutputsStaged' = OutputsStaged /\ Left' = Left
    BY <2>1 DEF EntriesStaged, EntryReferences, OutputsStaged, Left
  <2>. QED
    BY <1>1, <2>1, <2>2 DEF NeoInv
<1>8. CASE UNCHANGED neoVars
  <2>1. EntriesStaged' = EntriesStaged /\ OutputsStaged' = OutputsStaged /\ Left' = Left
    BY <1>8 DEF neoVars, EntriesStaged, EntryReferences, OutputsStaged, Left
  <2>. QED
    BY <1>8, <2>1 DEF neoVars, NeoInv
<1>. QED
  BY <1>1, <1>2, <1>3, <1>4, <1>5, <1>6, <1>7, <1>8 DEF NeoNext

\* What a library of the documents is in the plan.
LEMMA LibrariesAreDeclared ==
    ASSUME InspectionFits(neoAsk), NEW s, s = neoAsk.installer.entries,
           NEW l \in AllLibraries(s)
    PROVE  /\ l.name \in Specs(s)
           /\ l.download # None => Content(s, l.name) = l.download.sha
           /\ DownloadsOf(s, l.name) = {} => Embedded(s, l.name)
<1>1. l.name \in Specs(s)
  BY DEF Specs
<1>2. /\ \A d, e \in DownloadsOf(s, l.name) : d = e
      /\ IF Embedded(s, l.name) THEN EntryIsDeclared(s, l.name)
         ELSE DownloadsOf(s, l.name) # {}
  BY <1>1 DEF InspectionFits, LibrariesMerge, CatalogFits
<1>3. ASSUME l.download # None PROVE Content(s, l.name) = l.download.sha
  <2>1. l.download \in DownloadsOf(s, l.name)
    BY <1>3 DEF DownloadsOf
  <2>2. CASE Embedded(s, l.name)
    BY <1>2, <2>1, <2>2 DEF EntryIsDeclared, Content
  <2>3. CASE ~Embedded(s, l.name)
    <3>1. (CHOOSE d \in DownloadsOf(s, l.name) : TRUE) = l.download
      BY <1>2, <2>1
    <3>. QED
      BY <2>3, <3>1 DEF Content
  <2>. QED
    BY <2>2, <2>3
<1>. QED
  BY <1>1, <1>2, <1>3

LEMMA PlansAreSound == NeoInv => PlanIsSound
<1>. SUFFICES ASSUME NeoInv PROVE PlanIsSound
  OBVIOUS
<1>. DEFINE s == neoAsk.installer.entries
<1>1. ASSUME plan # None
      PROVE  /\ VersionDoc(s).loader = neoAsk.wish.loader
             /\ \A l \in AllLibraries(s) :
                   \E a \in plan.libraries :
                      /\ a.target = TargetOf(l.name)
                      /\ l.download # None => a.holds = l.download.sha
                      /\ l.download = None /\ DownloadsOf(s, l.name) = {} => a.embedded
             /\ \A p \in ToSet(plan.processors) : {p.jar} \cup p.classpath \subseteq plan.libraries
  <2>1. InspectionFits(neoAsk) /\ plan = PlanOf(s)
    BY <1>1 DEF NeoInv
  <2>2. VersionDoc(s).loader = neoAsk.wish.loader
    BY <2>1 DEF InspectionFits, IdentityFits
  <2>3. plan.libraries = {LibraryArtifact(s, c) : c \in Specs(s)}
    BY <2>1, PlanParts
  <2>4. ASSUME NEW l \in AllLibraries(s)
        PROVE  \E a \in plan.libraries :
                  /\ a.target = TargetOf(l.name)
                  /\ l.download # None => a.holds = l.download.sha
                  /\ l.download = None /\ DownloadsOf(s, l.name) = {} => a.embedded
    <3>. DEFINE a == LibraryArtifact(s, l.name)
    <3>1. /\ l.name \in Specs(s)
          /\ l.download # None => Content(s, l.name) = l.download.sha
          /\ DownloadsOf(s, l.name) = {} => Embedded(s, l.name)
      BY <2>1, LibrariesAreDeclared
    <3>2. /\ a.target = TargetOf(l.name) /\ a.holds = Content(s, l.name)
          /\ a.embedded = Embedded(s, l.name)
      BY DEF LibraryArtifact
    <3>3. a \in plan.libraries
      BY <2>3, <3>1
    <3>. HIDE DEF a
    <3>. QED
      BY <3>1, <3>2, <3>3
  <2>5. ASSUME NEW p \in ToSet(plan.processors)
        PROVE  {p.jar} \cup p.classpath \subseteq plan.libraries
    <3>1. PICK i \in DOMAIN plan.processors : p = plan.processors[i]
      BY DEF ToSet
    <3>. DEFINE d == InstallDoc(s).processors[i]
    <3>2. p = Processor(s, d) /\ ProcessorFits(s, d)
      BY <2>1, <3>1, PlanParts
    <3>. HIDE DEF d
    <3>3. d.jar \in Specs(s) /\ ToSet(d.classpath) \subseteq Specs(s)
      BY <3>2 DEF ProcessorFits
    <3>4. /\ p.jar = LibraryArtifact(s, d.jar)
          /\ p.classpath = {LibraryArtifact(s, c) : c \in ToSet(d.classpath)}
      BY <3>2 DEF Processor
    <3>. QED
      BY <2>3, <3>3, <3>4
  <2>. QED
    BY <2>2, <2>4, <2>5
<1>2. ASSUME neoPc = "run", NEW i \in Upcoming, NEW t \in GeneratedInputs(plan.processors[i])
      PROVE  ThereFor(plan.processors[i], t)
  <2>1. /\ i \in DOMAIN plan.processors
        /\ \A k \in DOMAIN plan.processors : k > ran => i <= k
        /\ ran \in Nat /\ DOMAIN plan.processors \subseteq Nat
        /\ Ready(plan.processors) /\ OutputsStaged
    BY <1>2 DEF NeoInv, Upcoming, Left
  <2>2. PICK k \in DOMAIN plan.processors :
              k <= i /\ t \in OutputTargets(plan.processors[k])
    <3>1. t \in Produced(plan.processors, i)
      BY <1>2, <2>1 DEF Ready, InputsAvailable
    <3>. QED
      BY <3>1 DEF Produced
  <2>3. CASE k = i
    BY <2>2, <2>3 DEF ThereFor
  <2>4. CASE k # i
    <3>1. k <= ran
      BY <2>1, <2>2, <2>4
    <3>2. PICK o \in plan.processors[k].outputs : o.target = t
      BY <2>2 DEF OutputTargets
    <3>. QED
      BY <2>1, <3>1, <3>2 DEF OutputsStaged, ThereFor
  <2>. QED
    BY <2>3, <2>4
<1>3. ASSUME neoPc = "verified"
      PROVE  /\ \A p \in ToSet(plan.processors) : \A o \in p.outputs : onStaging[o.target] = o.digest
             /\ \A a \in plan.libraries : a.embedded => onStaging[a.target] = a.holds
             /\ \A r \in EntryReferences : onStaging[r.target] = r.target[2]
  <2>1. EntriesStaged /\ OutputsStaged /\ Left = {} /\ ran \in Nat
        /\ DOMAIN plan.processors \subseteq Nat
    BY <1>3 DEF NeoInv
  <2>2. \A i \in DOMAIN plan.processors : i <= ran
    BY <2>1 DEF Left
  <2>3. ASSUME NEW p \in ToSet(plan.processors), NEW o \in p.outputs
        PROVE  onStaging[o.target] = o.digest
    <3>1. PICK i \in DOMAIN plan.processors : p = plan.processors[i]
      BY DEF ToSet
    <3>. QED
      BY <2>1, <2>2, <3>1 DEF OutputsStaged
  <2>. QED
    BY <2>1, <2>3 DEF EntriesStaged
<1>. QED
  BY <1>1, <1>2, <1>3 DEF PlanIsSound

-----------------------------------------------------------------------------
\* The archive is a list whose paths are lists of names.
PackIsListed ==
    /\ Len(pack.archive) \in Nat /\ DOMAIN pack.archive = 1 .. Len(pack.archive)
    /\ \A i \in DOMAIN pack.archive : pack.archive[i].path \in Seq(DOMAIN Folded)
    /\ pack.index # None => IsFiniteSet(DOMAIN pack.index.files)

\* What is selected is of an entry of its own place and layer.
SelectionFits(k) ==
    LET i == overrides[k].entry
    IN  /\ i \in 1 .. looked /\ ~Skipped(pack.archive[i]) /\ OverrideFits(pack.archive[i])
        /\ k = Fold(Target(pack.archive[i]))
        /\ overrides[k].layer = Layer(pack.archive[i])

\* An entry that was looked at has its place, unless the other layer has it.
EntryIsPlaced(i) ==
    LET e == pack.archive[i]
        k == Fold(Target(e))
    IN  ~Skipped(e) =>
          /\ k \in DOMAIN overrides
          /\ overrides[k].entry = i \/ (Layer(e) = 0 /\ overrides[k].layer = 1)

InventoryHolds ==
    /\ IsFiniteSet(DOMAIN overrides)
    /\ \A k \in DOMAIN overrides : SelectionFits(k)
    /\ \A i \in 1 .. looked : EntryIsPlaced(i)

\* At each step of an inspection what was selected, and what the index has left.
PackInv ==
    /\ PackIsListed
    /\ packPc \in {"staged", "inventory"} => members = {} /\ taken = {}
    /\ packPc = "staged" => looked = 0 /\ overrides = <<>>
    /\ packPc = "inventory" => looked \in 0 .. Len(pack.archive)
    /\ packPc \in {"inventory", "members", "imported"} => InventoryHolds /\ pack.index # None
    /\ packPc \in {"members", "imported"} =>
          /\ looked = Len(pack.archive)
          /\ members \cup taken = MembersOf(pack.index.files)
          /\ LayoutFits(pack.index.files, overrides)
    /\ packPc = "imported" => members = {}

LEMMA LayersAreTwo == ASSUME NEW e, OverrideFits(e) PROVE Layer(e) \in {0, 1}
  BY DEF OverrideFits, Layer

LEMMA LayerOneIsClient == ASSUME NEW e, Layer(e) = 1 PROVE e.path[1] = "client-overrides"
<1>1. CASE e.path[1] = "overrides"
  BY <1>1 DEF Layer
<1>2. CASE e.path[1] \notin {"overrides", "client-overrides"}
  BY <1>2 DEF Layer
<1>. QED
  BY <1>1, <1>2

\* One more entry, put where it belongs.
LEMMA ChooseSelects ==
    ASSUME PackIsListed, InventoryHolds, looked \in 0 .. Len(pack.archive) - 1,
           pack' = pack, looked' = looked + 1,
           ~Skipped(pack.archive[looked + 1]), overrides' # None,
           overrides' = Choose(overrides, pack.archive[looked + 1], looked + 1)
    PROVE  InventoryHolds'
<1>. DEFINE n == looked + 1
            e == pack.archive[n]
            key == Fold(Target(e))
            item == [layer |-> Layer(e), entry |-> n, path |-> Target(e), size |-> e.size]
            new == [k \in DOMAIN overrides \cup {key} |-> IF k = key THEN item ELSE overrides[k]]
<1>1. OverrideFits(e) /\ Layer(e) \in {0, 1}
  BY LayersAreTwo DEF Choose
<1>2. \A k \in DOMAIN overrides : overrides[k].layer \in {0, 1} /\ overrides[k].entry \in 1 .. looked
  BY LayersAreTwo DEF InventoryHolds, SelectionFits
<1>3. \/ /\ overrides' = new
         /\ key \in DOMAIN overrides => overrides[key].layer = 0 /\ Layer(e) = 1
      \/ /\ overrides' = overrides /\ key \in DOMAIN overrides
         /\ overrides[key].layer = 1 /\ Layer(e) = 0
  <2>1. CASE key \notin DOMAIN overrides
    BY <1>1, <2>1 DEF Choose
  <2>2. CASE key \in DOMAIN overrides
    <3>1. overrides[key].layer # Layer(e)
      BY <1>1, <2>2 DEF Choose
    <3>2. overrides' = IF overrides[key].layer > Layer(e) THEN overrides ELSE new
      BY <1>1, <2>2, <3>1 DEF Choose
    <3>. QED
      BY <1>1, <1>2, <2>2, <3>1, <3>2
  <2>. QED
    BY <2>1, <2>2
<1>4. looked \in Nat /\ n \in Nat /\ n \notin 1 .. looked /\ 1 .. n = (1 .. looked) \cup {n}
  BY DEF PackIsListed
<1>5. CASE overrides' = new /\ (key \in DOMAIN overrides => overrides[key].layer = 0 /\ Layer(e) = 1)
  <2>1. IsFiniteSet(DOMAIN overrides')
    BY <1>5, FS_AddElement DEF InventoryHolds
  <2>2. ASSUME NEW k \in DOMAIN overrides' PROVE SelectionFits(k)'
    <3>1. CASE k = key
      BY <1>1, <1>4, <1>5, <3>1 DEF SelectionFits
    <3>2. CASE k # key
      <4>1. overrides'[k] = overrides[k] /\ SelectionFits(k)
        BY <1>5, <3>2 DEF InventoryHolds
      <4>. QED
        BY <1>4, <4>1 DEF SelectionFits
    <3>. QED
      BY <3>1, <3>2
  <2>3. ASSUME NEW i \in 1 .. n PROVE EntryIsPlaced(i)'
    <3>1. CASE i = n
      BY <1>4, <1>5, <3>1 DEF EntryIsPlaced
    <3>2. CASE i # n
      <4>1. EntryIsPlaced(i)
        BY <1>4, <3>2 DEF InventoryHolds
      <4>. DEFINE k == Fold(Target(pack.archive[i]))
      <4>2. CASE k = key
        <5>1. ~Skipped(pack.archive[i]) => Layer(pack.archive[i]) = 0
          BY <1>5, <4>1, <4>2 DEF EntryIsPlaced, InventoryHolds, SelectionFits
        <5>. QED
          BY <1>5, <4>1, <4>2, <5>1 DEF EntryIsPlaced
      <4>3. CASE k # key
        <5>1. k \in DOMAIN overrides => k \in DOMAIN overrides' /\ overrides'[k] = overrides[k]
          BY <1>5, <4>3
        <5>. QED
          BY <4>1, <5>1 DEF EntryIsPlaced
      <4>. QED
        BY <4>2, <4>3
    <3>. QED
      BY <3>1, <3>2
  <2>. QED
    BY <2>1, <2>2, <2>3 DEF InventoryHolds
<1>6. CASE overrides' = overrides /\ key \in DOMAIN overrides /\ overrides[key].layer = 1 /\ Layer(e) = 0
  <2>1. ASSUME NEW i \in 1 .. n PROVE EntryIsPlaced(i)'
    <3>1. CASE i = n
      BY <1>6, <3>1 DEF EntryIsPlaced
    <3>2. CASE i # n
      BY <1>4, <1>6, <3>2 DEF EntryIsPlaced, InventoryHolds
    <3>. QED
      BY <3>1, <3>2
  <2>2. ASSUME NEW k \in DOMAIN overrides' PROVE SelectionFits(k)'
    BY <1>4, <1>6 DEF SelectionFits, InventoryHolds
  <2>. QED
    BY <1>6, <2>1, <2>2 DEF InventoryHolds
<1>. QED
  BY <1>3, <1>5, <1>6

LEMMA PackStart ==
    ASSUME NEW packs, PacksAreListed(packs)
    PROVE  PackInit(packs) => PackInv
  BY DEF PackInit, PackInv, PacksAreListed, PackIsListed

\* The next entry of the archive.
LEMMA LookHolds ==
    ASSUME PackInv, LookAtEntry, packPc' = "inventory"
    PROVE  InventoryHolds'
<1>. DEFINE n == looked + 1
            e == pack.archive[n]
<1>1. /\ packPc = "inventory" /\ pack' = pack /\ looked' = n /\ looked \in 0 .. Len(pack.archive) - 1
      /\ PackIsListed /\ InventoryHolds
  BY DEF LookAtEntry, PackInv, PackIsListed
<1>2. /\ overrides' = IF Skipped(e) THEN overrides ELSE Choose(overrides, e, n)
      /\ overrides' # None
  BY <1>1 DEF LookAtEntry, RefusePack, Refused
<1>3. CASE ~Skipped(e)
  BY <1>1, <1>2, <1>3, ChooseSelects
<1>4. CASE Skipped(e)
  <2>1. overrides' = overrides /\ 1 .. n = (1 .. looked) \cup {n}
    BY <1>1, <1>2, <1>4 DEF PackIsListed
  <2>2. ASSUME NEW i \in 1 .. n PROVE EntryIsPlaced(i)'
    <3>1. i = n \/ EntryIsPlaced(i)
      BY <1>1, <2>1 DEF InventoryHolds
    <3>. QED
      BY <1>1, <1>4, <2>1, <3>1 DEF EntryIsPlaced
  <2>3. ASSUME NEW k \in DOMAIN overrides' PROVE SelectionFits(k)'
    <3>1. SelectionFits(k)
      BY <1>1, <2>1 DEF InventoryHolds
    <3>. QED
      BY <1>1, <2>1, <3>1 DEF SelectionFits
  <2>. QED
    BY <1>1, <2>1, <2>2, <2>3 DEF InventoryHolds
<1>. QED
  BY <1>3, <1>4

LEMMA PackStep ==
    ASSUME NEW answers
    PROVE  PackInv /\ [PackNext(answers)]_packVars => PackInv'
<1>. SUFFICES ASSUME PackInv, [PackNext(answers)]_packVars PROVE PackInv'
  OBVIOUS
<1>1. pack' = pack /\ PackIsListed'
  <2>1. pack' = pack
    BY DEF PackNext, packVars, InspectPack, LookAtEntry, FinishInventory, ConfirmMember, FinishPack
  <2>. QED
    BY <2>1 DEF PackInv, PackIsListed
<1>2. CASE packPc' = Refused
  BY <1>1, <1>2 DEF PackInv, Refused
<1>. USE <1>1
<1>3. CASE InspectPack /\ packPc' # Refused
  <2>1. /\ packPc' = "inventory" /\ looked' = 0 /\ overrides' = <<>> /\ members' = {} /\ taken' = {}
        /\ pack.index # None
    BY <1>3 DEF InspectPack, RefusePack, PackInv
  <2>2. InventoryHolds'
    <3>1. DOMAIN overrides' = {} /\ 1 .. looked' = {}
      BY <2>1
    <3>. QED
      BY <3>1, FS_EmptySet DEF InventoryHolds
  <2>. QED
    BY <2>1, <2>2 DEF PackInv, PackIsListed, Refused
<1>4. CASE LookAtEntry /\ packPc' # Refused
  <2>1. /\ packPc = "inventory" /\ packPc' = "inventory" /\ members' = {} /\ taken' = {}
        /\ looked' = looked + 1 /\ looked + 1 \in 0 .. Len(pack.archive) /\ pack.index # None
    BY <1>4 DEF LookAtEntry, RefusePack, PackInv, PackIsListed
  <2>2. InventoryHolds'
    BY <1>4, <2>1, LookHolds
  <2>. QED
    BY <2>1, <2>2 DEF PackInv
<1>5. CASE FinishInventory /\ packPc' # Refused
  <2>1. /\ packPc = "inventory" /\ packPc' = "members" /\ members' = MembersOf(pack.index.files)
        /\ taken' = {} /\ looked' = looked /\ looked = Len(pack.archive) /\ overrides' = overrides
        /\ LayoutFits(pack.index.files, overrides) /\ InventoryHolds /\ pack.index # None
    BY <1>5 DEF FinishInventory, RefusePack, PackInv
  <2>2. InventoryHolds'
    BY <2>1 DEF InventoryHolds, SelectionFits, EntryIsPlaced
  <2>3. /\ MembersOf(pack.index.files)' = MembersOf(pack.index.files)
        /\ LayoutFits(pack.index.files, overrides)' = LayoutFits(pack.index.files, overrides)
    BY <2>1
  <2>. QED
    BY <2>1, <2>2, <2>3 DEF PackInv
<1>6. CASE packPc = "members" /\ packPc' \in {"members", "imported"}
           /\ UNCHANGED <<looked, overrides>> /\ members' \cup taken' = members \cup taken
           /\ (packPc' = "imported" => members' = {})
  <2>1. InventoryHolds /\ pack.index # None /\ looked = Len(pack.archive)
        /\ members \cup taken = MembersOf(pack.index.files)
        /\ LayoutFits(pack.index.files, overrides)
    BY <1>6 DEF PackInv
  <2>2. InventoryHolds'
    BY <1>6, <2>1 DEF InventoryHolds, SelectionFits, EntryIsPlaced
  <2>3. /\ MembersOf(pack.index.files)' = MembersOf(pack.index.files)
        /\ LayoutFits(pack.index.files, overrides)' = LayoutFits(pack.index.files, overrides)
    BY <1>6
  <2>. QED
    BY <1>6, <2>1, <2>2, <2>3 DEF PackInv
<1>7. ASSUME NEW says, ConfirmMember(says), packPc' # Refused PROVE PackInv'
  <2>1. PICK m \in members : taken' = taken \cup {m} /\ members' = members \ {m}
                               /\ packPc' = packPc /\ packPc = "members"
    BY <1>7 DEF ConfirmMember
  <2>. QED
    BY <1>6, <1>7, <2>1 DEF ConfirmMember
<1>8. CASE FinishPack
  BY <1>6, <1>8 DEF FinishPack
<1>9. CASE UNCHANGED packVars
  <2>1. /\ MembersOf(pack.index.files)' = MembersOf(pack.index.files)
        /\ LayoutFits(pack.index.files, overrides)' = LayoutFits(pack.index.files, overrides)
        /\ InventoryHolds' = InventoryHolds
    BY <1>9 DEF packVars, InventoryHolds, SelectionFits, EntryIsPlaced
  <2>. QED
    BY <1>9, <2>1 DEF PackInv, packVars
<1>. QED
  BY <1>2, <1>3, <1>4, <1>5, <1>7, <1>8, <1>9 DEF PackNext

\* As many places as there are things with places of their own.
LEMMA PlacesAreCounted ==
    ASSUME NEW A, NEW B, NEW M, NEW f, IsFiniteSet(A), IsFiniteSet(M),
           \A m \in M : f[m] \notin A, \A m, l \in M : f[m] = f[l] => m = l,
           B = {f[m] : m \in M}
    PROVE  Cardinality(A) + Cardinality(M) = Cardinality(A \cup B)
<1>. DEFINE g == [m \in M |-> f[m]]
<1>1. g \in Bijection(M, B)
  BY DEF Bijection, Injection, Surjection, IsInjective
<1>2. IsFiniteSet(B) /\ Cardinality(B) = Cardinality(M)
  <2>1. ExistsBijection(M, B)
    BY <1>1 DEF ExistsBijection
  <2>. QED
    BY <2>1, FS_Bijection
<1>3. Cardinality(A \cap B) = 0
  <2>1. A \cap B = {}
    OBVIOUS
  <2>. QED
    BY <2>1, FS_EmptySet
<1>4. Cardinality(A) \in Nat /\ Cardinality(B) \in Nat
  BY <1>2, FS_CardinalityType
<1>5. Cardinality(A \cup B) = Cardinality(A) + Cardinality(B) - Cardinality(A \cap B)
  BY <1>2, FS_Union
<1>. QED
  BY <1>2, <1>3, <1>4, <1>5

LEMMA LayersHold == PackInv => PackLayersHold
<1>. SUFFICES ASSUME PackInv, packPc \in {"members", "imported"} PROVE PackLayersHold
  BY DEF PackLayersHold
<1>. DEFINE files == pack.index.files
            taking == {i \in DOMAIN files : Client(files[i]) # "unsupported"}
            places == DOMAIN overrides
            mods == {Fold(m.path) : m \in members \cup taken}
<1>1. /\ PackIsListed /\ InventoryHolds /\ looked = Len(pack.archive)
      /\ members \cup taken = MembersOf(files) /\ LayoutFits(files, overrides)
      /\ IsFiniteSet(DOMAIN files) /\ (packPc = "imported" => members = {})
  BY DEF PackInv, PackIsListed
<1>2. /\ MembersOf(files) = {Member(files[i]) : i \in taking}
      /\ \A i \in taking : Member(files[i]).path = files[i].path
  BY DEF MembersOf, Member
<1>3. /\ mods = {Fold(files[i].path) : i \in taking}
      /\ \A i, j \in taking : i # j => Fold(files[i].path) # Fold(files[j].path)
      /\ \A i \in taking : Fold(files[i].path) \notin places
      /\ \A k, l \in places \cup mods : k \notin Above(l)
  <2>1. mods = {Fold(files[i].path) : i \in taking}
    BY <1>1, <1>2
  <2>. QED
    BY <1>1, <2>1 DEF LayoutFits
<1>4. ASSUME NEW i \in DOMAIN pack.archive, ~pack.archive[i].dir,
             pack.archive[i].path[1] \in {"overrides", "client-overrides"}
      PROVE  EntryIsPlaced(i) /\ ~Skipped(pack.archive[i])
  BY <1>1, <1>4 DEF InventoryHolds, PackIsListed, Skipped
<1>5. \A i \in LayerFiles("client-overrides") :
         /\ Fold(Target(pack.archive[i])) \in places
         /\ overrides[Fold(Target(pack.archive[i]))].entry = i
  BY <1>4 DEF LayerFiles, EntryIsPlaced, Layer
<1>6. \A i \in LayerFiles("overrides") :
         /\ Fold(Target(pack.archive[i])) \in places
         /\ \/ overrides[Fold(Target(pack.archive[i]))].entry = i
            \/ overrides[Fold(Target(pack.archive[i]))].entry \in LayerFiles("client-overrides")
  <2>. SUFFICES ASSUME NEW i \in LayerFiles("overrides")
                PROVE  LET k == Fold(Target(pack.archive[i]))
                       IN  k \in places /\ (overrides[k].entry = i \/ overrides[k].entry \in LayerFiles("client-overrides"))
    OBVIOUS
  <2>. DEFINE k == Fold(Target(pack.archive[i]))
              j == overrides[k].entry
  <2>1. k \in places /\ (j = i \/ overrides[k].layer = 1)
    BY <1>4 DEF LayerFiles, EntryIsPlaced
  <2>2. j \in DOMAIN pack.archive /\ ~Skipped(pack.archive[j]) /\ overrides[k].layer = Layer(pack.archive[j])
    BY <1>1, <2>1 DEF InventoryHolds, SelectionFits, PackIsListed
  <2>3. Layer(pack.archive[j]) = 1 => pack.archive[j].path[1] = "client-overrides"
    BY LayerOneIsClient
  <2>. QED
    BY <2>1, <2>2, <2>3 DEF LayerFiles, Skipped
<1>7. Cardinality(places) + Cardinality(members \cup taken) = Cardinality(places \cup mods)
  <2>. DEFINE f == [m \in members \cup taken |-> Fold(m.path)]
  <2>1. IsFiniteSet(MembersOf(files))
    <3>1. IsFiniteSet(taking)
      BY <1>1, FS_Subset
    <3>. DEFINE h == [i \in taking |-> Member(files[i])]
    <3>2. h \in Surjection(taking, MembersOf(files))
      BY <1>2 DEF Surjection
    <3>. HIDE DEF h
    <3>. QED
      BY <3>1, <3>2, FS_Surjection
  <2>2. \A m \in members \cup taken : \E i \in taking : m = Member(files[i]) /\ f[m] = Fold(files[i].path)
    BY <1>1, <1>2
  <2>3. mods = {f[m] : m \in members \cup taken}
    OBVIOUS
  <2>4. ASSUME NEW m \in members \cup taken, NEW l \in members \cup taken, f[m] = f[l]
        PROVE  m = l
    <3>1. PICK i \in taking : m = Member(files[i]) /\ f[m] = Fold(files[i].path)
      BY <2>2
    <3>2. PICK j \in taking : l = Member(files[j]) /\ f[l] = Fold(files[j].path)
      BY <2>2
    <3>3. i = j
      BY ONLY <1>3, <2>4, <3>1, <3>2
    <3>. QED
      BY ONLY <3>1, <3>2, <3>3
  <2>5. \A m \in members \cup taken : f[m] \notin places
    BY <1>3, <2>2
  <2>6. IsFiniteSet(places) /\ IsFiniteSet(members \cup taken)
    BY <1>1, <2>1 DEF InventoryHolds
  <2>. HIDE DEF f, mods, places
  <2>. QED
    BY <2>3, <2>4, <2>5, <2>6, PlacesAreCounted
<1>8. \A k \in places \cup mods : CanCreate((places \cup mods) \ {k}, k)
  BY <1>3 DEF CanCreate
<1>9. ASSUME NEW k \in places PROVE k[1] \notin Reserved
  <2>. DEFINE e == pack.archive[overrides[k].entry]
  <2>1. /\ OverrideFits(e) /\ k = Fold(Target(e)) /\ e.path \in Seq(DOMAIN Folded)
    BY <1>1 DEF InventoryHolds, SelectionFits, PackIsListed
  <2>2. Len(e.path) > 1 /\ Folded[Head(Target(e))] \notin Reserved
    BY <2>1 DEF OverrideFits, OverrideTargetFits
  <2>3. Target(e) \in Seq(DOMAIN Folded) /\ 1 \in DOMAIN Target(e) /\ Head(Target(e)) = Target(e)[1]
    <3>. DEFINE q == e.path
    <3>1. q \in Seq(DOMAIN Folded) /\ Len(q) > 1
      BY <2>1, <2>2
    <3>. HIDE DEF q
    <3>2. Tail(q) \in Seq(DOMAIN Folded) /\ Len(Tail(q)) = Len(q) - 1
      BY <3>1
    <3>3. 1 \in DOMAIN Tail(q) /\ Head(Tail(q)) = Tail(q)[1]
      BY <3>1, <3>2
    <3>. QED
      BY <3>2, <3>3 DEF Target, q
  <2>. QED
    BY <2>1, <2>2, <2>3 DEF Fold
<1>10. packPc = "imported" => taken = MembersOf(files)
  BY <1>1
<1>. QED
  BY <1>5, <1>6, <1>7, <1>8, <1>9, <1>10 DEF PackLayersHold

-----------------------------------------------------------------------------
\* At each step of an import, what was read, staged, activated and created.
XferInv ==
    /\ xferPc \in {"export", "inspect", "stage", "refused"} => cached = {}
    /\ xferPc \in {"export", "inspect", "refused"} => staged = None
    /\ xferPc \in {"export", "inspect", "stage", "activate", "refused", "create", "not created"} =>
          profile = None
    /\ xferPc = "export" => source # None /\ IsFiniteSet(Expected(source.document))
    /\ xferPc = "inspect" /\ source # None => ManifestOf(file) = source.document
    /\ xferPc \in {"stage", "activate", "create", "install", "commit", "imported"}
          /\ source # None => document = source.document
    /\ xferPc = "activate" =>
          /\ staged = {a.sha : a \in Expected(document)}
          /\ cached \subseteq {a.sha : a \in Expected(document)}
    /\ xferPc = "not created" =>
          /\ cached \subseteq {a.sha : a \in Expected(document)}
          /\ \/ {a.sha : a \in Expected(document)} \subseteq cached
             \/ staged = {a.sha : a \in Expected(document)}
    /\ xferPc \in {"create", "install", "commit", "imported", "not installed", "mismatch"}
          \/ profile # None =>
          /\ {a.sha : a \in Expected(document)} \subseteq cached
          /\ staged = None
    /\ xferPc = "create" => cached \subseteq {a.sha : a \in Expected(document)}
    /\ xferPc = "install" => profile = [runtime |-> None, content |-> None]
    /\ xferPc = "commit" =>
          profile = [runtime |-> document.runtime, content |-> None] /\ document.lock # None
    /\ xferPc = "imported" =>
          /\ profile = [runtime |-> document.runtime, content |-> document.lock]
          /\ document.lock # None => document.lock.requested = document.desired

\* The manifest is the first entry of an exported file, and the only one of its name.
LEMMA WrittenManifest ==
    ASSUME NEW doc, IsFiniteSet(Expected(doc)), NEW f, f.entries = Written(doc)
    PROVE  ManifestOf(f) = doc
<1>. DEFINE S == Expected(doc)
            n == Cardinality(S)
            artifacts == SetToSeq(S)
            rest == [i \in DOMAIN artifacts |-> ArtifactEntry(artifacts[i])]
<1>1. n \in Nat /\ ExistsBijection(1 .. n, S)
  BY FS_CardinalityType
<1>2. PICK g \in [1 .. n -> S] : IsInjective(g)
  BY <1>1 DEF ExistsBijection, Bijection, Injection
<1>3. artifacts \in [1 .. n -> S]
  BY <1>2 DEF SetToSeq
<1>4. DOMAIN artifacts = 1 .. n
  BY <1>3
<1>. HIDE DEF n
<1>5. rest \in Seq({ArtifactEntry(a) : a \in S}) /\ Len(rest) = n
  <2>1. rest \in [1 .. n -> {ArtifactEntry(a) : a \in S}]
    BY <1>3, <1>4
  <2>. HIDE DEF rest
  <2>. QED
    BY <1>1, <2>1
<1>. DEFINE first == ManifestEntry(doc)
            all == {first} \cup {ArtifactEntry(a) : a \in S}
<1>6. f.entries = <<first>> \o rest
  BY DEF Written
<1>. HIDE DEF rest, first
<1>7. <<first>> \in Seq(all) /\ rest \in Seq(all)
  BY <1>5
<1>8. /\ DOMAIN f.entries = 1 .. n + 1 /\ f.entries[1] = first
      /\ \A i \in 2 .. n + 1 : f.entries[i] = rest[i - 1]
  <2>. HIDE DEF all
  <2>. QED
    BY <1>1, <1>5, <1>6, <1>7
<1>9. first.path = <<"profile.json">> /\ first.holds = doc
  BY DEF first, ManifestEntry
<1>10. ASSUME NEW i \in 2 .. n + 1 PROVE ~IsManifest(f.entries[i])
  <2>1. i - 1 \in 1 .. n
    BY <1>1
  <2>2. f.entries[i] = ArtifactEntry(artifacts[i - 1])
    BY <1>4, <1>8, <2>1 DEF rest
  <2>3. f.entries[i].path = <<"artifacts", artifacts[i - 1].sha>>
    BY <2>2 DEF ArtifactEntry
  <2>. QED
    BY <2>3 DEF IsManifest
<1>11. \A i \in DOMAIN f.entries : IsManifest(f.entries[i]) <=> i = 1
  BY <1>1, <1>8, <1>9, <1>10 DEF IsManifest
<1>12. (CHOOSE i \in DOMAIN f.entries : IsManifest(f.entries[i])) = 1
  BY <1>1, <1>8, <1>11
<1>. QED
  BY <1>8, <1>9, <1>12 DEF ManifestOf

LEMMA XferStart ==
    ASSUME NEW sources, NEW files, ArtifactsAreFinite(sources)
    PROVE  XferInit(sources, files) => XferInv
  BY DEF XferInit, XferInv, ArtifactsAreFinite

LEMMA XferStep == XferInv /\ [XferNext]_xferVars => XferInv'
<1>. SUFFICES ASSUME XferInv, [XferNext]_xferVars PROVE XferInv'
  OBVIOUS
<1>1. CASE Export
  <2>1. /\ xferPc = "export" /\ source' = source /\ cached' = {} /\ profile' = None
        /\ staged' = None /\ source # None /\ IsFiniteSet(Expected(source.document))
    BY <1>1 DEF Export, XferInv
  <2>2. CASE xferPc' = "inspect"
    <3>1. file' = [whole |-> TRUE, entries |-> Written(source.document)]
      BY <1>1, <2>2 DEF Export
    <3>2. ManifestOf(file') = source.document
      BY <2>1, <3>1, WrittenManifest
    <3>3. ManifestOf(file)' = ManifestOf(file')
      OBVIOUS
    <3>. QED
      BY ONLY <2>1, <2>2, <3>2, <3>3 DEF XferInv
  <2>3. CASE xferPc' # "inspect"
    <3>1. xferPc' = "not exported"
      BY <1>1, <2>3 DEF Export
    <3>. QED
      BY ONLY <2>1, <3>1 DEF XferInv
  <2>. QED
    BY <2>2, <2>3
<1>2. CASE Inspect
  <2>1. /\ xferPc = "inspect" /\ source' = source /\ cached' = {} /\ profile' = None
        /\ staged = None /\ (source # None => ManifestOf(file) = source.document)
    BY <1>2 DEF Inspect, XferInv
  <2>2. \/ xferPc' = "stage" /\ document' = ManifestOf(file)
        \/ xferPc' = "refused" /\ staged' = None
    BY <1>2, <2>1 DEF Inspect
  <2>. QED
    BY <2>1, <2>2 DEF XferInv
<1>3. CASE Stage
  <2>1. /\ xferPc = "stage" /\ UNCHANGED <<source, document, cached, profile>>
        /\ \/ xferPc' = "stage"
           \/ xferPc' = "refused" /\ staged' = None
    BY <1>3 DEF Stage
  <2>. QED
    BY <2>1 DEF XferInv
<1>4. CASE FinishStaging
  <2>1. /\ xferPc = "stage" /\ UNCHANGED <<source, document, cached, profile>>
        /\ {a.sha : a \in Expected(document)} = staged
        /\ \/ xferPc' = "activate" /\ staged' = staged
           \/ xferPc' = "refused" /\ staged' = None
    BY <1>4 DEF FinishStaging
  <2>2. Expected(document)' = Expected(document)
    BY <2>1
  <2>. QED
    BY <2>1, <2>2 DEF XferInv
<1>5. CASE ActivateArtifact
  <2>1. /\ xferPc = "activate" /\ UNCHANGED <<source, document, staged, profile>>
        /\ \/ xferPc' = "activate" /\ \E a \in Expected(document) : cached' = cached \cup {a.sha}
           \/ xferPc' = "not created" /\ cached' = cached
    BY <1>5 DEF ActivateArtifact
  <2>2. Expected(document)' = Expected(document)
    BY <2>1
  <2>. QED
    BY <2>1, <2>2 DEF XferInv
<1>6. CASE FinishActivation
  <2>1. /\ xferPc = "activate" /\ UNCHANGED <<source, document, cached, profile>>
        /\ {a.sha : a \in Expected(document)} \subseteq cached
        /\ \/ xferPc' = "create" /\ staged' = None
           \/ xferPc' = "not created"
    BY <1>6 DEF FinishActivation
  <2>2. Expected(document)' = Expected(document)
    BY <2>1
  <2>. QED
    BY <2>1, <2>2 DEF XferInv
<1>7. CASE CreateProfile
  <2>1. /\ xferPc = "create" /\ UNCHANGED <<source, document, cached, staged>>
        /\ \/ xferPc' = "install" /\ profile' = [runtime |-> None, content |-> None]
           \/ xferPc' = "not created" /\ profile' = profile
    BY <1>7 DEF CreateProfile
  <2>2. Expected(document)' = Expected(document)
    BY <2>1
  <2>. QED
    BY <2>1, <2>2 DEF XferInv
<1>8. CASE InstallRuntime
  <2>1. /\ xferPc = "install" /\ UNCHANGED <<source, document, cached, staged>>
        /\ profile = [runtime |-> None, content |-> None]
        /\ \/ /\ profile' = [profile EXCEPT !.runtime = document.runtime]
              /\ xferPc' = IF document.lock = None THEN "imported" ELSE "commit"
           \/ xferPc' = "not installed" /\ profile' = profile
    BY <1>8 DEF InstallRuntime, XferInv
  <2>2. Expected(document)' = Expected(document)
    BY <2>1
  <2>3. ASSUME NEW r PROVE [profile EXCEPT !.runtime = r] = [runtime |-> r, content |-> None]
    <3>. DEFINE q == [profile EXCEPT !.runtime = r]
    <3>1. profile \in [runtime : {None}, content : {None}]
      BY <2>1
    <3>2. q \in [runtime : {r}, content : {None}]
      BY ONLY <3>1
    <3>. HIDE DEF q
    <3>3. q = [runtime |-> r, content |-> None]
      BY ONLY <3>2
    <3>. QED
      BY ONLY <3>3 DEF q
  <2>. QED
    BY <2>1, <2>2, <2>3 DEF XferInv
<1>9. CASE CommitContent
  <2>1. /\ xferPc = "commit" /\ UNCHANGED <<source, document, cached, staged>>
        /\ profile = [runtime |-> document.runtime, content |-> None]
        /\ \/ xferPc' = "mismatch" /\ profile' = profile
           \/ /\ xferPc' = "imported" /\ document.lock.requested = document.desired
              /\ profile' = [profile EXCEPT !.content = document.lock]
    BY <1>9 DEF CommitContent, XferInv
  <2>2. Expected(document)' = Expected(document)
    BY <2>1
  <2>3. ASSUME NEW c PROVE [profile EXCEPT !.content = c] = [runtime |-> document.runtime, content |-> c]
    BY ONLY <2>1
  <2>. QED
    BY <2>1, <2>2, <2>3 DEF XferInv
<1>10. CASE ChangeFile
  <2>1. /\ xferPc = "stage" /\ UNCHANGED <<source, xferPc, document, staged, cached, profile>>
    BY <1>10 DEF ChangeFile
  <2>. QED
    BY <2>1 DEF XferInv
<1>11. CASE UNCHANGED xferVars
  <2>1. ManifestOf(file)' = ManifestOf(file) /\ Expected(document)' = Expected(document)
    BY <1>11 DEF xferVars
  <2>. QED
    BY <1>11, <2>1 DEF xferVars, XferInv
<1>. QED
  BY <1>1, <1>2, <1>3, <1>4, <1>5, <1>6, <1>7, <1>8, <1>9, <1>10, <1>11 DEF XferNext

LEMMA TransfersAreWhole == XferInv => TransferIsWhole
  BY DEF XferInv, TransferIsWhole, Expected

-----------------------------------------------------------------------------
\* What enters under a signature, a declaration or a digest is what they say, each
\* file at a place of its own.  An exported file that is refused leaves nothing; a
\* later failure leaves no profile without its artifacts in the cache.  Lists are
\* finite.
\* Covers resolve_exact, validate_and_verify_component_manifest, inspect_mrpack,
\* inspect_verified_installer, execute_client_processors and import_profile_v1.
THEOREM IntakesAreVerified ==
    ASSUME NEW offers, NEW wishes, NEW asks, NEW packs, NEW answers, NEW sources, NEW files,
           ProcessorsAreListed(asks), PacksAreListed(packs), ArtifactsAreFinite(sources)
    PROVE  IntakeSpec(offers, wishes, asks, packs, answers, sources, files) => []IntakeIsVerified
<1>1. CompInv /\ NeoInv /\ PackInv /\ XferInv => IntakeIsVerified
  BY LockedIsSigned, PlansAreSound, LayersHold, TransfersAreWhole DEF IntakeIsVerified
<1>2. NeoInv /\ neoAsk \in asks /\ [NeoNext]_neoVars => NeoInv' /\ (neoAsk \in asks)'
  BY NeoStep
<1>3. NeoInit(asks) => NeoInv /\ neoAsk \in asks
  BY NeoStart
<1>4. XferInit(sources, files) => XferInv
  BY XferStart
<1>5. CompInit(offers, wishes) => CompInv
  BY CompStart
<1>6. PackInit(packs) => PackInv
  BY PackStart
<1>7. PackInv /\ [PackNext(answers)]_packVars => PackInv'
  BY PackStep
<1>. QED
  BY <1>1, <1>2, <1>3, <1>4, <1>5, <1>6, <1>7, CompStep, XferStep, PTL DEF IntakeSpec
=============================================================================
