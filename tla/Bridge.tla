------------------------------- MODULE Bridge -------------------------------
(***************************************************************************)
(* What the launcher shows of the player: sessions with the SNine backend, *)
(* the loadout and the skin of one account, and the copies it keeps of     *)
(* both for when nobody answers (snine_bridge.rs, capes.rs).  The windows  *)
(* of the launcher ask at the same time.                                   *)
(*                                                                         *)
(* The backend, Mojang and the file system are external: a token is a      *)
(* number, the backend forgets any of them when it likes, a request may    *)
(* fail.  Of a loadout there is the cape, which the profile has or the     *)
(* player has uploaded.  The skin file is saved as the loadout is; its     *)
(* commands are one step, and share nothing with the others but signedIn.  *)
(***************************************************************************)
EXTENDS Absence, Naturals

CONSTANTS Windows,          \* one command of each at a time
          Names,            \* of players; the account has Name1 at first
          Name1,
          MaxTokens, MaxCommands, MaxBridgeFaults, MaxBridgeCrashes

Me == "me"
Torn == "torn"              \* a file that is being written, and does not parse
\* What a snapshot can show: the cape of the profile, the player's own, neither.
Looks == {"nothing", "cape", "custom cape"}

ASSUME BridgeAssumption ==
    /\ Name1 \in Names /\ None \notin Names
    /\ None \notin Looks \cup {Me, Torn, "other", "draft", "loadout"}
    /\ MaxTokens \in Nat

VARIABLES
    session,        \* the entry of BACKEND_SESSIONS, or None
    issued,         \* how many tokens there have been
    accepted,       \* those the backend knows
    signedIn,       \* whether the account has a Minecraft session
    draft, loadout, \* the temporary file and the cached snapshot
    asking,         \* the command of each window
    commands,       \* how many there have been
    realName, knownName, holder,    \* the account's name, the launcher's idea of it, who has a name
    skin, shownSkin,                \* the cached skin, and what was shown last
    bridgeFaults, bridgeCrashes,
    dismissed, disturbedSave, wasSaved \* history: tokens invalidated; whether two saves met or one failed twice;
                                      \* whether one succeeded

sessionVars == <<session, issued, accepted, signedIn, dismissed>>
loadoutVars == <<draft, loadout, disturbedSave, wasSaved>>
skinVars    == <<realName, knownName, holder, skin, shownSkin>>
mishaps     == <<commands, bridgeFaults, bridgeCrashes>>
bridgeVars  == <<sessionVars, loadoutVars, asking, skinVars, mishaps>>

\* Commands: live_state, cosmetics, any of the capes.
Kinds == {"live", "cosmetics", "cape"}
Silent == [kind |-> None, at |-> "idle", token |-> None, refused |-> {}, content |-> None, open |-> None]

BridgeInit ==
    /\ session = None /\ issued = 0 /\ accepted = {} /\ signedIn \in BOOLEAN /\ dismissed = {}
    /\ draft = None /\ loadout = None /\ disturbedSave = FALSE /\ wasSaved = FALSE
    /\ asking = [w \in Windows |-> Silent]
    /\ realName = Name1 /\ knownName = Name1
    /\ holder = [n \in Names |-> IF n = Name1 THEN Me ELSE None]
    /\ skin = None /\ shownSkin = None
    /\ commands = 0 /\ bridgeFaults = 0 /\ bridgeCrashes = 0

IsAt(w, step)  == asking[w].at = step
GoTo(w, step)  == asking' = [asking EXCEPT ![w].at = step]
Ends(w)        == asking' = [asking EXCEPT ![w] = Silent]

-----------------------------------------------------------------------------
(* ensure_backend_session *)

Ask(w, kind) ==
    /\ IsAt(w, "idle") /\ commands < MaxCommands
    /\ commands' = commands + 1
    /\ asking' = [asking EXCEPT ![w] = [Silent EXCEPT !.kind = kind, !.at = "session"]]
    /\ UNCHANGED <<sessionVars, loadoutVars, skinVars, bridgeFaults, bridgeCrashes>>

HasSession == session # None /\ session.fresh

Reuse(w) ==
    /\ IsAt(w, "session") /\ HasSession
    /\ asking' = [asking EXCEPT ![w].at = "request", ![w].token = session.token]
    /\ UNCHANGED <<sessionVars, loadoutVars, skinVars, mishaps>>

\* The lock is free while the handshake runs.
Challenge(w) ==
    /\ IsAt(w, "session") /\ ~HasSession
    /\ signedIn
    /\ GoTo(w, "complete")
    /\ UNCHANGED <<sessionVars, loadoutVars, skinVars, mishaps>>

Complete(w) ==
    /\ IsAt(w, "complete") /\ issued < MaxTokens
    /\ issued' = issued + 1
    /\ accepted' = accepted \cup {issued'}
    /\ asking' = [asking EXCEPT ![w].at = "insert", ![w].token = issued']
    /\ UNCHANGED <<session, signedIn, dismissed, loadoutVars, skinVars, mishaps>>

Insert(w) ==
    /\ IsAt(w, "insert")
    /\ session' = [token |-> asking[w].token, fresh |-> TRUE]
    /\ GoTo(w, "request")
    /\ UNCHANGED <<issued, accepted, signedIn, dismissed, loadoutVars, skinVars, mishaps>>

\* No session: cosmetics show the cached snapshot at the first attempt; nothing is saved.
NoSession(w) ==
    /\ asking[w].at \in {"session", "complete"}
    /\ IsAt(w, "session") => ~HasSession
    /\ Ends(w)
    /\ UNCHANGED <<sessionVars, loadoutVars, skinVars, mishaps>>

-----------------------------------------------------------------------------
(* The request, once more with another session when this one is refused *)

Answered(w) ==
    /\ IsAt(w, "request") /\ asking[w].token \in accepted
    /\ \/ asking[w].kind \in {"live", "cape"} /\ Ends(w)
       \/ asking[w].kind = "cosmetics"
          /\ \E worn \in {None, "cape"} :
                asking' = [asking EXCEPT ![w] = [Silent EXCEPT !.at = "capes", !.content = worn]]
    /\ UNCHANGED <<sessionVars, loadoutVars, skinVars, mishaps>>

Unauthorized(w) ==
    /\ IsAt(w, "request") /\ asking[w].token \notin accepted
    /\ IF asking[w].refused = {} \/ asking[w].kind = "live"
       THEN asking' = [asking EXCEPT ![w].at = "invalidate",
                                     ![w].refused = asking[w].refused \cup {asking[w].token}]
       ELSE Ends(w)
    /\ UNCHANGED <<sessionVars, loadoutVars, skinVars, mishaps>>

RequestFails(w) ==
    /\ IsAt(w, "request")
    /\ Ends(w)
    /\ UNCHANGED <<sessionVars, loadoutVars, skinVars, mishaps>>

\* Mutant: a session that was refused stays in the table.
InvalidateNothing(w) ==
    /\ IsAt(w, "invalidate")
    /\ dismissed' = dismissed \cup asking[w].refused
    /\ IF asking[w].kind = "live" THEN Ends(w) ELSE GoTo(w, "session")
    /\ UNCHANGED <<session, issued, accepted, signedIn, loadoutVars, skinVars, mishaps>>

\* invalidate_backend_session: whatever is in the table by now.
Invalidate(w) ==
    /\ IsAt(w, "invalidate")
    /\ session' = None
    /\ dismissed' = dismissed \cup asking[w].refused
    /\ IF asking[w].kind = "live" THEN Ends(w) ELSE GoTo(w, "session")
    /\ UNCHANGED <<issued, accepted, signedIn, loadoutVars, skinVars, mishaps>>

\* merge_selected_custom_cape: the cape of the profile goes first.  A command
\* that was to bring no pictures saves an empty loadout.
MergeCape(w) ==
    /\ IsAt(w, "capes")
    /\ \E selected \in {"nothing", "custom cape"}, pictures \in BOOLEAN :
          asking' = [asking EXCEPT ![w].at = "save",
                                   ![w].content = IF ~pictures THEN "nothing"
                                                  ELSE IF asking[w].content = None THEN selected
                                                  ELSE asking[w].content]
    /\ UNCHANGED <<sessionVars, loadoutVars, skinVars, mishaps>>

-----------------------------------------------------------------------------
(* write_cached_snapshot: a temporary file of one name for all commands *)

Saving(w) == asking[w].at \in {"fill", "rename", "again"}

\* The handles of a file follow it: those of the draft to the snapshot, those
\* of the old snapshot to a file without a name.
Moved    == [w \in Windows |-> CASE asking[w].open = "draft" -> "loadout"
                                 [] asking[w].open = "loadout" -> None
                                 [] OTHER -> asking[w].open]
Unlinked == [w \in Windows |-> IF asking[w].open = "loadout" THEN None ELSE asking[w].open]
Reopened(open) == [w \in Windows |-> [asking[w] EXCEPT !.open = open[w]]]

\* Mutant: the snapshot is written where it is.
TruncateInPlace(w) ==
    /\ IsAt(w, "save")
    /\ loadout' = Torn /\ draft' = Torn
    /\ disturbedSave' = (disturbedSave \/ \E v \in Windows \ {w} : Saving(v))
    /\ asking' = [asking EXCEPT ![w].at = "fill", ![w].open = "draft"]
    /\ UNCHANGED <<wasSaved, sessionVars, skinVars, mishaps>>

Truncate(w) ==
    /\ IsAt(w, "save")
    /\ draft' = Torn
    /\ disturbedSave' = (disturbedSave \/ \E v \in Windows \ {w} : Saving(v))
    /\ asking' = [asking EXCEPT ![w].at = "fill", ![w].open = "draft"]
    /\ UNCHANGED <<loadout, wasSaved, sessionVars, skinVars, mishaps>>

Fill(w) ==
    /\ IsAt(w, "fill")
    /\ draft'   = IF asking[w].open = "draft" THEN asking[w].content ELSE draft
    /\ loadout' = IF asking[w].open = "loadout" THEN asking[w].content ELSE loadout
    /\ asking' = [asking EXCEPT ![w].at = "rename", ![w].open = None]
    /\ UNCHANGED <<disturbedSave, wasSaved, sessionVars, skinVars, mishaps>>

PutInPlace(w) ==
    /\ asking[w].at \in {"rename", "again"} /\ draft # None
    /\ loadout' = draft /\ draft' = None /\ wasSaved' = TRUE
    /\ asking' = [Reopened(Moved) EXCEPT ![w] = Silent]
    /\ UNCHANGED <<disturbedSave, sessionVars, skinVars, mishaps>>

\* The draft is gone, or the system refuses: the snapshot makes room.
MakeRoom(w) ==
    /\ IsAt(w, "rename")
    /\ \/ draft = None /\ UNCHANGED mishaps
       \/ draft # None /\ bridgeFaults < MaxBridgeFaults
          /\ bridgeFaults' = bridgeFaults + 1 /\ UNCHANGED <<commands, bridgeCrashes>>
    /\ loadout' = None
    /\ asking' = [Reopened(Unlinked) EXCEPT ![w].at = "again"]
    /\ UNCHANGED <<draft, disturbedSave, wasSaved, sessionVars, skinVars>>

GiveUp(w) ==
    /\ IsAt(w, "again")
    /\ \/ draft = None /\ UNCHANGED bridgeFaults
       \/ bridgeFaults < MaxBridgeFaults /\ bridgeFaults' = bridgeFaults + 1
    /\ disturbedSave' = TRUE
    /\ Ends(w)
    /\ UNCHANGED <<draft, loadout, wasSaved, sessionVars, skinVars, commands, bridgeCrashes>>

FillFails(w) ==
    /\ IsAt(w, "fill") /\ bridgeFaults < MaxBridgeFaults
    /\ bridgeFaults' = bridgeFaults + 1
    /\ Ends(w)
    /\ UNCHANGED <<commands, bridgeCrashes, sessionVars, loadoutVars, skinVars>>

-----------------------------------------------------------------------------
(* snine_launcher_player_skin: the first of the sources that answers *)

\* A picture comes from the texture server, or from the proxy for the same player.
SkinSource(needs, can, owner, name) == [needs |-> needs, can |-> can, found |-> [owner |-> owner, name |-> name]]

FromProfile == SkinSource({"profile"}, signedIn, Me, realName)
FromName(username) ==
    SkinSource({"lookup", "profile by name"}, holder[username] # None, holder[username], username)
FromAccount == SkinSource({"profile by id"}, TRUE, Me, realName)
FromProxyById(username) == SkinSource({"proxy by id"}, TRUE, Me, username)
FromProxyByName(username) ==
    SkinSource({"proxy by name"}, holder[username] # None, holder[username], username)

SkinSources(username) ==
    <<FromProfile, FromName(username), FromAccount, FromProxyById(username), FromProxyByName(username)>>

\* Mutant: the cached skin is shown whoever's name is on it.
FallbackAnyName(username) == skin

\* skin_failure
Fallback(username) == IF skin # None /\ skin.name = username THEN skin ELSE None

FirstOf(S) == CHOOSE i \in S : \A j \in S : i <= j

LoadSkin(answers) ==
    /\ LET sources == SkinSources(knownName)
           found   == {i \in DOMAIN sources : sources[i].can /\ sources[i].needs \subseteq answers}
           shown   == IF found # {} THEN sources[FirstOf(found)].found ELSE Fallback(knownName)
       IN  /\ skin' = IF found # {} THEN shown ELSE skin
           /\ shownSkin' = [skin |-> shown, right |-> knownName = realName]
    /\ UNCHANGED <<realName, knownName, holder, sessionVars, loadoutVars, asking, mishaps>>

\* snine_launcher_import_skin, saved under the account that has the name.
ImportSkin(name) ==
    /\ holder[name] = Me
    /\ skin' = [owner |-> Me, name |-> realName]
    /\ UNCHANGED <<realName, knownName, holder, shownSkin, sessionVars, loadoutVars, asking, mishaps>>

-----------------------------------------------------------------------------
(* Everybody else *)

Expire ==
    /\ HasSession
    /\ session' = [session EXCEPT !.fresh = FALSE]
    /\ UNCHANGED <<issued, accepted, signedIn, dismissed, loadoutVars, asking, skinVars, mishaps>>

Forget(t) ==
    /\ t \in accepted
    /\ accepted' = accepted \ {t}
    /\ UNCHANGED <<session, issued, signedIn, dismissed, loadoutVars, asking, skinVars, mishaps>>

SignInOrOut ==
    /\ signedIn' = ~signedIn
    /\ UNCHANGED <<session, issued, accepted, dismissed, loadoutVars, asking, skinVars, mishaps>>

\* The account gets another name, once, and somebody takes the old one.
Rename(name) ==
    /\ realName = Name1 /\ holder[name] = None
    /\ realName' = name
    /\ holder' = [holder EXCEPT ![name] = Me, ![Name1] = None]
    /\ UNCHANGED <<knownName, skin, shownSkin, sessionVars, loadoutVars, asking, mishaps>>
TakeName ==
    /\ holder[Name1] = None
    /\ holder' = [holder EXCEPT ![Name1] = "other"]
    /\ UNCHANGED <<realName, knownName, skin, shownSkin, sessionVars, loadoutVars, asking, mishaps>>
LearnName ==
    /\ signedIn /\ knownName # realName
    /\ knownName' = realName
    /\ UNCHANGED <<realName, holder, skin, shownSkin, sessionVars, loadoutVars, asking, mishaps>>

BridgeCrash ==
    /\ bridgeCrashes < MaxBridgeCrashes
    /\ bridgeCrashes' = bridgeCrashes + 1
    /\ session' = None
    /\ asking' = [w \in Windows |-> Silent]
    /\ disturbedSave' = (disturbedSave \/ \E w \in Windows : IsAt(w, "again"))
    /\ UNCHANGED <<issued, accepted, signedIn, dismissed, draft, loadout, wasSaved, skinVars, commands, bridgeFaults>>

SessionStep(w) ==
    \/ \E kind \in Kinds : Ask(w, kind)
    \/ Reuse(w) \/ Challenge(w) \/ Complete(w) \/ Insert(w) \/ NoSession(w)
    \/ Answered(w) \/ Unauthorized(w) \/ RequestFails(w) \/ Invalidate(w) \/ MergeCape(w)
SaveStep(w) ==
    Truncate(w) \/ Fill(w) \/ PutInPlace(w) \/ MakeRoom(w) \/ GiveUp(w) \/ FillFails(w)
SkinNext ==
    \/ \E answers \in SUBSET {"profile", "lookup", "profile by name", "profile by id",
                              "proxy by id", "proxy by name"} : LoadSkin(answers)
    \/ \E name \in Names : ImportSkin(name) \/ Rename(name)
    \/ TakeName \/ LearnName \/ SignInOrOut
TalkNext ==
    \/ \E w \in Windows : SessionStep(w) \/ SaveStep(w)
    \/ Expire \/ \E t \in accepted : Forget(t)
    \/ BridgeCrash

BridgeSpec == BridgeInit /\ [][TalkNext \/ SkinNext]_bridgeVars

-----------------------------------------------------------------------------
(* A token that was refused and dropped is not used by anyone who asks after,
   although handshakes of other commands put theirs in the table meanwhile;
   the second attempt of a command is made with another token. *)
RefusedStaysOut ==
    /\ HasSession => session.token \notin dismissed
    /\ \A w \in Windows : IsAt(w, "request") => asking[w].token \notin asking[w].refused

(* Once a command has saved the loadout there is one to show when nobody
   answers, after failing calls and the end of the process as well, unless
   two commands were saving at once. *)
LoadoutStays ==
    (wasSaved /\ ~disturbedSave /\ \A w \in Windows : ~IsAt(w, "again")) => loadout \notin {None, Torn}

(* As long as the launcher knows the account's name, the skin it shows is the
   account's, even if a stranger's was cached while it had an old name. *)
SkinIsOwn ==
    (shownSkin # None /\ shownSkin.right /\ shownSkin.skin # None) => shownSkin.skin.owner = Me

(* The sessions, the loadout and the skin that are shown belong to the account
   they are shown for.  Covers ensure_backend_session and the retries of
   snine_bridge.rs and capes.rs, write_cached_snapshot, and the fallbacks of
   snine_launcher_player_skin. *)
PlayerIsShown == RefusedStaysOut /\ LoadoutStays /\ SkinIsOwn
=============================================================================
