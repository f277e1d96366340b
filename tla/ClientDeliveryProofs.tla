------------------------ MODULE ClientDeliveryProofs ------------------------
(***************************************************************************)
(* Proofs about ClientDelivery for any profiles, companion mods and builds *)
(* of the host, any jars the user puts in place, and any number of ends of *)
(* the process: what the launcher writes down holds, and a game starts     *)
(* with the client and its mods.                                           *)
(***************************************************************************)
EXTENDS ClientDelivery, TLAPS

\* Nothing in the folder, in a task's hands or in the probe's memory is newer
\* than what the host delivers.
HostIsAhead ==
    /\ \A p \in Profiles : jar[p] # None => jar[p] <= remote
    /\ \A p \in Profiles : backup[p] # None => backup[p] <= remote
    /\ probe # None => probe <= remote
    /\ \A t \in Tasks : /\ work[t].tag <= remote
                        /\ work[t].got # None => work[t].got <= remote

Holding == {"swap", "commit", "tidy", "write", "publish"}

\* A task that holds a build has one that its tag is not ahead of; and the one it
\* replaces, in the folder or moved aside, is not newer.
HandOf(t) ==
    LET p == t[1] IN
    /\ work[t].pc \in Holding => work[t].got # None /\ work[t].tag <= work[t].got
    /\ work[t].pc \in {"reqwest", "tools", "swap"} => backup[p] = None
    /\ work[t].pc = "swap" /\ jar[p] # None => jar[p] <= work[t].got
    /\ work[t].pc = "commit" => jar[p] = None
    /\ work[t].pc = "commit" /\ backup[p] # None => backup[p] <= work[t].got

BuildInHand == \A t \in Tasks : HandOf(t)

Fetching == {"idle", "lock", "hint", "reqwest", "tools"} \cup Holding

\* The home screen only fetches the client; a launch that installs has yet to fetch
\* every mod that is not there, and its profile is not marked.
InstallIsUnmarked ==
    /\ \A t \in Tasks : IsLaunch(t) \/ work[t].pc \in Fetching
    /\ \A t \in Tasks : work[t].pc = "install" =>
          /\ IsLaunch(t) /\ t[1] \notin marker
          /\ mods[t[1]] \cup work[t].todo = Mods
    /\ \A p \in marker : mods[p] = Mods

DeliveryInv ==
    /\ RecordsHold
    /\ HostIsAhead
    /\ BuildInHand
    /\ InstallIsUnmarked

\* The client of p is moved aside by the download that will put one in its place.
MovedAside(p) ==
    /\ jar[p] = None /\ Valid(backup[p])
    /\ \E s \in Tasks : s[1] = p /\ work[s].pc = "commit"

\* From its last look at the client to the start of the game, a launch has one.
HasClient(p) == Valid(jar[p]) \/ MovedAside(p)

LaunchHasClient ==
    \A t \in Tasks : work[t].pc \in {"support", "install"} => HasClient(t[1])

-----------------------------------------------------------------------------
(* Type correctness *)

Downloading == {"hint", "reqwest", "tools"} \cup Holding

\* Everything but the tasks and their lock has its type.
FolderTypeOK ==
    /\ remote \in Builds
    /\ jar \in [Profiles -> Jars \cup {None}] /\ backup \in [Profiles -> Jars \cup {None}]
    /\ meta \in [Profiles -> Metadata \cup {None}]
    /\ mods \in [Profiles -> SUBSET Mods] /\ marker \subseteq Profiles
    /\ probe \in Builds \cup {None}
    /\ crashes \in 0..MaxCrashes /\ edits \in 0..MaxEdits

LockTypeOK ==
    /\ work \in [Tasks -> Work]
    /\ lock \in Tasks \cup {None}
    /\ \A t \in Tasks : lock = t <=> work[t].pc \in Downloading

LEMMA TypeParts == TypeOK <=> FolderTypeOK /\ LockTypeOK
BY DEF TypeOK, FolderTypeOK, LockTypeOK, Downloading, Holding

LEMMA TaskHasProfile == \A t \in Tasks : t[1] \in Profiles
BY BuildAssumption DEF Tasks

LEMMA JarsAreNumbers == \A j \in Jars \cup Tags : j \in Int
BY BuildAssumption DEF Jars, Builds, Tags

LEMMA InitTypeOK == Init => TypeOK
BY BuildAssumption, NoneAssumption
   DEF Init, TypeOK, Builds, Jars, Tags, Work, Idle, Steps

\* A step of one task: it takes the lock when it begins to download, and gives it
\* back when it does no more.
LEMMA TaskStep ==
  ASSUME LockTypeOK, NEW t \in Tasks, NEW w \in Work,
         work' = [work EXCEPT ![t] = w],
         lock' = IF w.pc \in Downloading THEN t ELSE IF lock = t THEN None ELSE lock,
         w.pc \in Downloading => lock \in {t, None}
  PROVE  LockTypeOK'
<1>1. work' \in [Tasks -> Work]
  BY DEF LockTypeOK
<1>2. ASSUME NEW s \in Tasks
      PROVE  lock' = s <=> work'[s].pc \in Downloading
  BY NoneAssumption DEF LockTypeOK
<1>. QED
  BY <1>1, <1>2 DEF LockTypeOK

LEMMA GotoStep ==
  ASSUME LockTypeOK, NEW t \in Tasks, NEW s \in Steps, Goto(t, s),
         s \in Downloading <=> work[t].pc \in Downloading,
         UNCHANGED lock
  PROVE  LockTypeOK'
<1>. DEFINE w == [work[t] EXCEPT !.pc = s]
<1>1. w \in Work /\ w.pc = s
  BY DEF LockTypeOK, Work
<1>2. work' = [work EXCEPT ![t] = w]
  BY DEF Goto
<1>. HIDE DEF w
<1>. QED
  BY <1>1, <1>2, TaskStep, NoneAssumption DEF LockTypeOK

LEMMA StepsAreMany ==
  {"idle", "verify", "await", "check", "probe", "lock", "hint", "reqwest", "tools", "swap",
   "commit", "tidy", "write", "publish", "final", "support", "install", "play", "refused"}
  \subseteq Steps
BY DEF Steps

LEMMA IdleIsWork == Idle \in Work
BY BuildAssumption DEF Idle, Work, Tags, Steps

LEMMA IdleAt ==
  ASSUME NEW s \in Steps
  PROVE  /\ [Idle EXCEPT !.pc = s] \in Work
         /\ [Idle EXCEPT !.pc = s].pc = s
         /\ [Idle EXCEPT !.pc = s].tag = 0 /\ [Idle EXCEPT !.pc = s].got = None
<1>1. Idle.tag = 0 /\ Idle.got = None
  BY DEF Idle
<1>. QED
  BY <1>1, IdleIsWork DEF Work

LEMMA AfterDownloadFacts ==
  ASSUME NEW t \in Tasks, NEW ok \in BOOLEAN
  PROVE  /\ AfterDownload(t, ok) \in Work
         /\ AfterDownload(t, ok).pc \in {"idle", "final", "refused"}
         /\ AfterDownload(t, ok).tag = 0 /\ AfterDownload(t, ok).got = None
<1>1. Idle.pc = "idle" /\ Idle.tag = 0 /\ Idle.got = None
  BY DEF Idle
<1>2. CASE AfterDownload(t, ok) = Idle
  BY <1>1, <1>2, IdleIsWork
<1>3. CASE AfterDownload(t, ok) # Idle
  <2>1. PICK s \in {"final", "refused"} : AfterDownload(t, ok) = [Idle EXCEPT !.pc = s]
    BY <1>3 DEF AfterDownload
  <2>2. s \in Steps
    BY DEF Steps
  <2>. QED
    BY <2>1, <2>2, IdleAt
<1>. QED
  BY <1>2, <1>3

LEMMA FinishStep ==
  ASSUME LockTypeOK, NEW t \in Tasks, NEW ok \in BOOLEAN, lock \in {t, None}, Finish(t, ok, work)
  PROVE  LockTypeOK'
<1>1. AfterDownload(t, ok).pc \notin Downloading
  BY AfterDownloadFacts DEF Downloading, Holding
<1>2. work' = [work EXCEPT ![t] = AfterDownload(t, ok)]
  BY DEF Finish
<1>. QED
  BY <1>1, <1>2, AfterDownloadFacts, TaskStep DEF Finish

\* A task that remembers the file remembers that it was replaced.
LEMMA ReplacedFacts ==
  ASSUME LockTypeOK, NEW p \in Profiles
  PROVE  /\ Replaced(p) \in [Tasks -> Work]
         /\ \A t \in Tasks : /\ Replaced(p)[t].pc = work[t].pc
                             /\ Replaced(p)[t].tag = work[t].tag
                             /\ Replaced(p)[t].got = work[t].got
                             /\ Replaced(p)[t].todo = work[t].todo
BY DEF LockTypeOK, Replaced, Work

LEMMA DownloadTypeOK ==
  ASSUME TypeOK, BuildInHand, NEW t \in Tasks,
         \/ BeginHome(t) \/ Lock(t) \/ Hint(t) \/ Reqwest(t) \/ SystemTools(t)
         \/ Swap(t) \/ Commit(t) \/ Tidy(t) \/ Write(t) \/ PublishMetadata(t)
  PROVE  TypeOK'
<1>. SUFFICES FolderTypeOK' /\ LockTypeOK'
  BY DEF TypeOK, FolderTypeOK, LockTypeOK, Downloading, Holding
<1>. USE TypeParts, TaskHasProfile, BuildAssumption, NoneAssumption
<1>0. LockTypeOK /\ FolderTypeOK
  OBVIOUS
<1>1. CASE BeginHome(t)
  <2>. DEFINE w == [work[t] EXCEPT !.pc = "lock", !.before = Generation(t[1])]
  <2>0. Generation(t[1]) \in {"missing", "this", "other", None}
    BY DEF Generation
  <2>1. w \in Work /\ w.pc = "lock"
    <3>1. work[t] \in Work /\ "lock" \in Steps
      BY <1>0, StepsAreMany DEF LockTypeOK
    <3>. QED
      BY ONLY <2>0, <3>1 DEF Work
  <2>2. work' = [work EXCEPT ![t] = w]
    BY <1>1 DEF BeginHome
  <2>3. work[t].pc = "idle" /\ UNCHANGED lock
    BY <1>1 DEF BeginHome, At
  <2>. HIDE DEF w
  <2>. QED
    BY <1>0, <1>1, <2>1, <2>2, <2>3, TaskStep
       DEF BeginHome, FolderTypeOK, LockTypeOK, files, Downloading, Holding
<1>2. CASE Lock(t)
  <2>0. work[t].pc = "lock" /\ lock = None
    BY <1>2 DEF Lock, At
  <2>1. CASE Finish(t, TRUE, work)
    <3>1. LockTypeOK'
      BY <1>0, <2>0, <2>1, FinishStep
    <3>. QED
      BY <1>0, <1>2, <3>1 DEF Lock, FolderTypeOK, files
  <2>2. CASE lock' = t /\ work' = [work EXCEPT ![t].pc = "hint", ![t].before = None]
    <3>. DEFINE w == [work[t] EXCEPT !.pc = "hint", !.before = None]
    <3>1. w \in Work /\ w.pc = "hint"
      <4>1. work[t] \in Work /\ "hint" \in Steps
        BY <1>0, StepsAreMany DEF LockTypeOK
      <4>. QED
        BY ONLY <4>1 DEF Work
    <3>2. work' = [work EXCEPT ![t] = w]
      BY <2>2
    <3>. HIDE DEF w
    <3>. QED
      BY <1>0, <1>2, <2>0, <2>2, <3>1, <3>2, TaskStep
         DEF Lock, FolderTypeOK, files, Downloading, Holding
  <2>. QED
    BY <1>2, <2>1, <2>2 DEF Lock
<1>3. CASE Hint(t)
  <2>1. PICK tag \in Builds \cup {None} :
          /\ ProbeRemote(tag)
          /\ work' = [work EXCEPT ![t].pc = "reqwest", ![t].tag = IF tag = None THEN 0 ELSE tag]
    BY <1>3 DEF Hint
  <2>. DEFINE w == [work[t] EXCEPT !.pc = "reqwest", !.tag = IF tag = None THEN 0 ELSE tag]
  <2>0. (IF tag = None THEN 0 ELSE tag) \in Tags
    BY <2>1 DEF Tags, Builds
  <2>2. w \in Work /\ w.pc = "reqwest"
    <3>1. work[t] \in Work /\ "reqwest" \in Steps
      BY <1>0, StepsAreMany DEF LockTypeOK
    <3>. QED
      BY ONLY <2>0, <3>1 DEF Work
  <2>3. work' = [work EXCEPT ![t] = w]
    BY <2>1
  <2>4. work[t].pc = "hint" /\ UNCHANGED lock
    BY <1>3 DEF Hint, At
  <2>5. LockTypeOK'
    <3>. HIDE DEF w
    <3>. QED
      BY <1>0, <2>2, <2>3, <2>4, TaskStep DEF LockTypeOK, Downloading, Holding
  <2>6. FolderTypeOK'
    BY <1>0, <1>3, <2>1 DEF Hint, FolderTypeOK, ProbeRemote
  <2>. QED
    BY <2>5, <2>6
<1>4. CASE Reqwest(t)
  <2>1. PICK got \in Brought, tag \in {work[t].tag, remote} :
          work' = [work EXCEPT ![t].tag = tag,
                               ![t].pc  = IF Accepted(got) THEN "swap" ELSE "tools",
                               ![t].got = IF Accepted(got) THEN got ELSE None]
    BY <1>4 DEF Reqwest
  <2>. DEFINE w == [work[t] EXCEPT !.tag = tag,
                                   !.pc  = IF Accepted(got) THEN "swap" ELSE "tools",
                                   !.got = IF Accepted(got) THEN got ELSE None]
  <2>0. /\ tag \in Tags
        /\ (IF Accepted(got) THEN got ELSE None) \in Builds \cup {None}
        /\ (IF Accepted(got) THEN "swap" ELSE "tools") \in Steps
    BY <1>0, <2>1 DEF LockTypeOK, FolderTypeOK, Work, Steps, Tags, Builds, Brought, Accepted, Valid
  <2>2. w \in Work /\ w.pc \in {"swap", "tools"}
    <3>1. work[t] \in Work
      BY <1>0 DEF LockTypeOK
    <3>. QED
      BY ONLY <2>0, <3>1 DEF Work
  <2>3. work' = [work EXCEPT ![t] = w]
    BY <2>1
  <2>4. work[t].pc = "reqwest" /\ UNCHANGED lock
    BY <1>4 DEF Reqwest, At
  <2>. HIDE DEF w
  <2>5. LockTypeOK'
    BY <1>0, <2>2, <2>3, <2>4, TaskStep DEF LockTypeOK, Downloading, Holding
  <2>. QED
    BY <1>0, <1>4, <2>5 DEF Reqwest, FolderTypeOK, files
<1>5. CASE SystemTools(t)
  <2>0. work[t].pc = "tools" /\ lock = t
    BY <1>0, <1>5 DEF SystemTools, At, LockTypeOK, Downloading, Holding
  <2>1. PICK got \in Brought :
          IF Accepted(got)
          THEN work' = [work EXCEPT ![t].pc = "swap", ![t].got = got] /\ UNCHANGED lock
          ELSE Finish(t, FALSE, work)
    BY <1>5 DEF SystemTools
  <2>2. CASE Accepted(got)
    <3>. DEFINE w == [work[t] EXCEPT !.pc = "swap", !.got = got]
    <3>0. got \in Builds
      BY <1>0, <2>2 DEF FolderTypeOK, Builds, Brought, Accepted, Valid
    <3>1. w \in Work /\ w.pc = "swap"
      <4>1. work[t] \in Work /\ "swap" \in Steps
        BY <1>0, StepsAreMany DEF LockTypeOK
      <4>. QED
        BY ONLY <3>0, <4>1 DEF Work
    <3>2. work' = [work EXCEPT ![t] = w] /\ UNCHANGED lock
      BY <2>1, <2>2
    <3>. HIDE DEF w
    <3>. QED
      BY <1>0, <1>5, <2>0, <3>1, <3>2, TaskStep
         DEF SystemTools, FolderTypeOK, files, Downloading, Holding
  <2>3. CASE ~Accepted(got)
    <3>1. LockTypeOK'
      BY <1>0, <2>0, <2>1, <2>3, FinishStep
    <3>. QED
      BY <1>0, <1>5, <3>1 DEF SystemTools, FolderTypeOK, files
  <2>. QED
    BY <2>2, <2>3
<1>6. CASE Swap(t)
  <2>0. work[t].pc = "swap" /\ lock = t
    BY <1>0, <1>6 DEF Swap, At, LockTypeOK, Downloading, Holding
  <2>1. LockTypeOK'
    <3>1. CASE Goto(t, "commit") /\ UNCHANGED lock
      BY <1>0, <2>0, <3>1, GotoStep DEF Steps, Downloading, Holding
    <3>2. CASE Finish(t, FALSE, work)
      BY <1>0, <2>0, <3>2, FinishStep
    <3>. QED
      BY <1>6, <3>1, <3>2 DEF Swap
  <2>2. FolderTypeOK'
    BY <1>0, <1>6 DEF Swap, FolderTypeOK
  <2>. QED
    BY <2>1, <2>2
<1>7. CASE Commit(t)
  <2>. DEFINE p == t[1]
  <2>0. work[t].pc = "commit" /\ lock = t /\ work[t].got \in Builds \cup {None}
    BY <1>0, <1>7 DEF Commit, At, LockTypeOK, Downloading, Holding, Work
  <2>1. LockTypeOK'
    <3>1. CASE work' = [Replaced(p) EXCEPT ![t].pc = "tidy"] /\ UNCHANGED lock
      <4>. p \in Profiles
        OBVIOUS
      <4>1. work' \in [Tasks -> Work]
        <5>. DEFINE w == [Replaced(p)[t] EXCEPT !.pc = "tidy"]
        <5>1. w \in Work
          BY <1>0, ReplacedFacts DEF Work, Steps
        <5>2. work' = [Replaced(p) EXCEPT ![t] = w]
          BY <3>1
        <5>. HIDE DEF w
        <5>. QED
          BY <1>0, <5>1, <5>2, ReplacedFacts
      <4>2. \A s \in Tasks : work'[s].pc = IF s = t THEN "tidy" ELSE work[s].pc
        BY <1>0, <3>1, ReplacedFacts DEF Work
      <4>. QED
        BY <1>0, <2>0, <3>1, <4>1, <4>2 DEF LockTypeOK, Downloading, Holding
    <3>2. CASE Finish(t, FALSE, work)
      BY <1>0, <2>0, <3>2, FinishStep
    <3>. QED
      BY <1>7, <3>1, <3>2 DEF Commit
  <2>2. FolderTypeOK'
    BY <1>0, <1>7, <2>0 DEF Commit, FolderTypeOK, Jars
  <2>. QED
    BY <2>1, <2>2
<1>8. CASE Tidy(t)
  <2>0. work[t].pc = "tidy" /\ lock = t
    BY <1>0, <1>8 DEF Tidy, At, LockTypeOK, Downloading, Holding
  <2>1. LockTypeOK'
    <3>1. CASE Goto(t, "write") /\ UNCHANGED lock
      BY <1>0, <2>0, <3>1, GotoStep DEF Steps, Downloading, Holding
    <3>2. CASE Finish(t, FALSE, work)
      BY <1>0, <2>0, <3>2, FinishStep
    <3>. QED
      BY <1>8, <3>1, <3>2 DEF Tidy
  <2>. QED
    BY <1>0, <1>8, <2>1 DEF Tidy, FolderTypeOK
<1>9. CASE Write(t)
  <2>0. work[t].pc = "write" /\ lock = t
    BY <1>0, <1>9 DEF Write, At, LockTypeOK, Downloading, Holding
  <2>1. LockTypeOK'
    <3>1. CASE Goto(t, "publish") /\ UNCHANGED lock
      BY <1>0, <2>0, <3>1, GotoStep DEF Steps, Downloading, Holding
    <3>2. CASE Finish(t, FALSE, work)
      BY <1>0, <2>0, <3>2, FinishStep
    <3>. QED
      BY <1>9, <3>1, <3>2 DEF Write
  <2>. QED
    BY <1>0, <1>9, <2>1 DEF Write, FolderTypeOK
<1>10. CASE PublishMetadata(t)
  <2>2. Described(t) \in Metadata
    BY <1>0, <1>10 DEF PublishMetadata, At, Described, Metadata, LockTypeOK, Work, BuildInHand, HandOf, Holding
  <2>0. work[t].pc = "publish" /\ lock = t
    BY <1>0, <1>10 DEF PublishMetadata, At, LockTypeOK, Downloading, Holding
  <2>1. LockTypeOK'
    <3>1. CASE Finish(t, TRUE, work)
      BY <1>0, <2>0, <3>1, FinishStep
    <3>2. CASE Finish(t, FALSE, work)
      BY <1>0, <2>0, <3>2, FinishStep
    <3>. QED
      BY <1>10, <3>1, <3>2 DEF PublishMetadata
  <2>3. meta' \in [Profiles -> Metadata \cup {None}]
    BY <1>0, <1>10, <2>2 DEF PublishMetadata, FolderTypeOK
  <2>4. UNCHANGED <<remote, jar, backup, mods, marker, probe, crashes, edits>>
    BY <1>10 DEF PublishMetadata
  <2>. QED
    BY ONLY <1>0, <2>1, <2>3, <2>4 DEF FolderTypeOK
<1>. QED
  BY <1>1, <1>2, <1>3, <1>4, <1>5, <1>6, <1>7, <1>8, <1>9, <1>10

LEMMA LaunchTypeOK ==
  ASSUME TypeOK, NEW t \in Tasks,
         \/ BeginLaunch(t) \/ Verify(t) \/ Await(t) \/ Check(t) \/ Probe(t)
         \/ Final(t) \/ Support(t) \/ Install(t) \/ Mark(t) \/ End(t) \/ CheckHome(t)
  PROVE  TypeOK'
<1>. SUFFICES FolderTypeOK' /\ LockTypeOK'
  BY DEF TypeOK, FolderTypeOK, LockTypeOK, Downloading, Holding
<1>. USE TaskHasProfile, BuildAssumption, NoneAssumption
<1>0. LockTypeOK /\ FolderTypeOK
  BY TypeParts
<1>1. CASE BeginLaunch(t)
  <2>1. LockTypeOK'
    BY <1>0, <1>1, GotoStep DEF BeginLaunch, At, Steps, Downloading, Holding
  <2>. QED
    BY <1>0, <1>1, <2>1 DEF BeginLaunch, FolderTypeOK, files
<1>2. CASE Verify(t)
  <2>. DEFINE pc == IF Ready(t[1]) /\ lock # None THEN "await" ELSE "check"
              w == [work[t] EXCEPT !.valid = Ready(t[1]), !.pc = pc]
  <2>1. pc \in {"await", "check"} /\ Ready(t[1]) \in BOOLEAN
    BY DEF Ready
  <2>2. w \in Work /\ w.pc \in {"await", "check"}
    <3>1. work[t] \in Work /\ pc \in Steps
      BY <1>0, <2>1, StepsAreMany DEF LockTypeOK
    <3>. HIDE DEF pc
    <3>. QED
      BY ONLY <2>1, <3>1 DEF Work
  <2>3. work' = [work EXCEPT ![t] = w]
    BY <1>2 DEF Verify
  <2>4. work[t].pc = "verify" /\ UNCHANGED lock
    BY <1>2 DEF Verify, At
  <2>5. LockTypeOK'
    <3>. HIDE DEF w
    <3>. QED
      BY <1>0, <2>2, <2>3, <2>4, TaskStep DEF LockTypeOK, Downloading, Holding
  <2>. QED
    BY <1>0, <1>2, <2>5 DEF Verify, FolderTypeOK, files
<1>3. CASE Await(t)
  <2>1. LockTypeOK'
    BY <1>0, <1>3, GotoStep DEF Await, At, Steps, Downloading, Holding
  <2>. QED
    BY <1>0, <1>3, <2>1 DEF Await, FolderTypeOK, files
<1>4. CASE Check(t)
  <2>1. PICK known \in Metadata \cup {None}, local \in BOOLEAN :
          work' = [work EXCEPT ![t].pc = "probe", ![t].local = local, ![t].known = known]
    BY <1>0, <1>4 DEF Check, FolderTypeOK, Valid
  <2>. DEFINE w == [work[t] EXCEPT !.pc = "probe", !.local = local, !.known = known]
  <2>2. w \in Work /\ w.pc = "probe"
    <3>1. work[t] \in Work /\ "probe" \in Steps
      BY <1>0, StepsAreMany DEF LockTypeOK
    <3>. QED
      BY ONLY <2>1, <3>1 DEF Work
  <2>3. work' = [work EXCEPT ![t] = w]
    BY <2>1
  <2>4. work[t].pc = "check" /\ UNCHANGED lock
    BY <1>4 DEF Check, At
  <2>5. LockTypeOK'
    <3>. HIDE DEF w
    <3>. QED
      BY <1>0, <2>2, <2>3, <2>4, TaskStep DEF LockTypeOK, Downloading, Holding
  <2>. QED
    BY <1>0, <1>4, <2>5 DEF Check, FolderTypeOK, files
<1>5. CASE Probe(t)
  <2>1. PICK tag \in Builds \cup {None} :
         /\ ProbeRemote(tag)
         /\ work' = [work EXCEPT ![t].pc = Decided(t, tag),
                                 ![t].before = IF Decided(t, tag) = "lock" THEN Generation(t[1]) ELSE None,
                                 ![t].local = FALSE, ![t].known = None]
    BY <1>5 DEF Probe
  <2>. DEFINE pc == Decided(t, tag)
              before == IF pc = "lock" THEN Generation(t[1]) ELSE None
              w == [work[t] EXCEPT !.pc = pc, !.before = before, !.local = FALSE, !.known = None]
  <2>2. pc \in {"lock", "final", "refused"} /\ before \in {"missing", "this", "other", None}
    BY DEF Decided, Generation
  <2>3. work' = [work EXCEPT ![t] = w]
    BY <2>1
  <2>4. w \in Work /\ w.pc \in {"lock", "final", "refused"}
    <3>1. work[t] \in Work
      BY <1>0 DEF LockTypeOK
    <3>. HIDE DEF pc, before
    <3>2. w \in Work
      BY <3>1, <2>2 DEF Work, Steps
    <3>. QED
      BY <2>2, <3>1, <3>2 DEF Work
  <2>5. work[t].pc = "probe" /\ UNCHANGED lock
    BY <1>5 DEF Probe, At
  <2>6. LockTypeOK'
    <3>. HIDE DEF w
    <3>. QED
      BY <1>0, <2>3, <2>4, <2>5, TaskStep DEF LockTypeOK, Downloading, Holding
  <2>7. FolderTypeOK'
    BY <1>0, <1>5, <2>1 DEF Probe, ProbeRemote, FolderTypeOK, files
  <2>. QED
    BY <2>6, <2>7
<1>6. CASE Final(t)
  <2>1. PICK s \in {"support", "refused"} : work' = [work EXCEPT ![t] = [Idle EXCEPT !.pc = s]]
    BY <1>6 DEF Final
  <2>. DEFINE w == [Idle EXCEPT !.pc = s]
  <2>2. w \in Work /\ w.pc \in {"support", "refused"}
    BY IdleAt DEF Steps
  <2>3. work' = [work EXCEPT ![t] = w]
    BY <2>1
  <2>4. work[t].pc = "final" /\ UNCHANGED lock
    BY <1>6 DEF Final, At
  <2>5. LockTypeOK'
    <3>. HIDE DEF w
    <3>. QED
      BY <1>0, <2>2, <2>3, <2>4, TaskStep DEF LockTypeOK, Downloading, Holding
  <2>. QED
    BY <1>0, <1>6, <2>5 DEF Final, FolderTypeOK, files
<1>7. CASE Support(t)
  <2>0. work[t].pc = "support" /\ UNCHANGED lock
    BY <1>7 DEF Support, At
  <2>1. LockTypeOK'
    <3>1. CASE Goto(t, "play")
      BY <1>0, <2>0, <3>1, GotoStep DEF Steps, Downloading, Holding
    <3>2. CASE work' = [work EXCEPT ![t].pc = "install", ![t].todo = Mods]
      <4>. DEFINE w == [work[t] EXCEPT !.pc = "install", !.todo = Mods]
      <4>1. w \in Work /\ w.pc = "install"
        <5>1. work[t] \in Work /\ "install" \in Steps
          BY <1>0, StepsAreMany DEF LockTypeOK
        <5>. QED
          BY ONLY <5>1 DEF Work
      <4>2. work' = [work EXCEPT ![t] = w]
        BY <3>2
      <4>. HIDE DEF w
      <4>. QED
        BY <1>0, <2>0, <4>1, <4>2, TaskStep DEF LockTypeOK, Downloading, Holding
    <3>. QED
      BY <1>7, <3>1, <3>2 DEF Support
  <2>. QED
    BY <1>0, <1>7, <2>1 DEF Support, FolderTypeOK
<1>8. CASE Install(t)
  <2>0. work[t].pc = "install" /\ UNCHANGED lock
    BY <1>8 DEF Install, At
  <2>1. PICK m \in Mods :
          \/ /\ mods' \in {mods, [mods EXCEPT ![t[1]] = @ \ {m}]}
             /\ Goto(t, "refused")
          \/ /\ mods' = [mods EXCEPT ![t[1]] = @ \cup {m}]
             /\ work' = [work EXCEPT ![t].todo = @ \ {m}]
    BY <1>0, <1>8 DEF Install, LockTypeOK, Work
  <2>2. LockTypeOK'
    <3>1. CASE Goto(t, "refused")
      BY <1>0, <2>0, <3>1, GotoStep DEF Steps, Downloading, Holding
    <3>2. CASE work' = [work EXCEPT ![t].todo = @ \ {m}]
      <4>. DEFINE w == [work[t] EXCEPT !.todo = work[t].todo \ {m}]
      <4>1. w \in Work /\ w.pc = "install"
        BY <1>0, <2>0 DEF LockTypeOK, Work, Steps
      <4>2. work' = [work EXCEPT ![t] = w]
        BY <3>2
      <4>. HIDE DEF w
      <4>. QED
        BY <1>0, <2>0, <4>1, <4>2, TaskStep DEF LockTypeOK, Downloading, Holding
    <3>. QED
      BY <2>1, <3>1, <3>2
  <2>3. mods' \in [Profiles -> SUBSET Mods]
    BY <1>0, <2>1 DEF FolderTypeOK
  <2>. QED
    BY <1>0, <1>8, <2>2, <2>3 DEF Install, FolderTypeOK
<1>9. CASE Mark(t)
  <2>0. work[t].pc = "install" /\ UNCHANGED lock
    BY <1>9 DEF Mark, At
  <2>1. LockTypeOK'
    <3>1. CASE Goto(t, "play")
      BY <1>0, <2>0, <3>1, GotoStep DEF Steps, Downloading, Holding
    <3>2. CASE Goto(t, "refused")
      BY <1>0, <2>0, <3>2, GotoStep DEF Steps, Downloading, Holding
    <3>. QED
      BY <1>9, <3>1, <3>2 DEF Mark
  <2>. QED
    BY <1>0, <1>9, <2>1 DEF Mark, FolderTypeOK
<1>10. CASE End(t)
  <2>1. Idle \in Work /\ Idle.pc = "idle"
    BY DEF Idle, Work, Steps, Tags
  <2>2. work' = [work EXCEPT ![t] = Idle] /\ UNCHANGED lock
    BY <1>10 DEF End
  <2>3. LockTypeOK'
    BY <1>0, <1>10, <2>1, <2>2, TaskStep DEF End, LockTypeOK, Downloading, Holding
  <2>. QED
    BY <1>0, <1>10, <2>3 DEF End, FolderTypeOK, files
<1>11. CASE CheckHome(t)
  <2>1. LockTypeOK'
    BY <1>0, <1>11 DEF CheckHome, LockTypeOK
  <2>. QED
    BY <1>0, <1>11, <2>1 DEF CheckHome, ProbeRemote, FolderTypeOK, files
<1>. QED
  BY <1>1, <1>2, <1>3, <1>4, <1>5, <1>6, <1>7, <1>8, <1>9, <1>10, <1>11

LEMMA WorldTypeOK ==
  ASSUME TypeOK,
         \/ Publish \/ Expire \/ Crash
         \/ \E p \in Profiles, j \in Jars \cup {None} : Replace(p, j)
  PROVE  TypeOK'
<1>. SUFFICES FolderTypeOK' /\ LockTypeOK'
  BY DEF TypeOK, FolderTypeOK, LockTypeOK, Downloading, Holding
<1>. USE BuildAssumption, NoneAssumption
<1>0. LockTypeOK /\ FolderTypeOK
  BY TypeParts
<1>1. CASE Publish
  BY <1>0, <1>1 DEF Publish, files, memory, FolderTypeOK, LockTypeOK, Builds
<1>2. CASE Expire
  BY <1>0, <1>2 DEF Expire, files, FolderTypeOK, LockTypeOK
<1>3. CASE Crash
  <2>1. Idle \in Work /\ Idle.pc = "idle"
    BY DEF Idle, Work, Steps, Tags
  <2>2. LockTypeOK'
    BY <1>3, <2>1 DEF Crash, LockTypeOK, Downloading, Holding
  <2>. QED
    BY <1>0, <1>3, <2>2 DEF Crash, files, FolderTypeOK
<1>4. ASSUME NEW p \in Profiles, NEW j \in Jars \cup {None}, Replace(p, j)
      PROVE  FolderTypeOK' /\ LockTypeOK'
  <2>1. LockTypeOK'
    BY <1>0, <1>4, ReplacedFacts DEF Replace, LockTypeOK
  <2>. QED
    BY <1>0, <1>4, <2>1 DEF Replace, FolderTypeOK
<1>. QED
  BY <1>1, <1>2, <1>3, <1>4

-----------------------------------------------------------------------------
(* The inductive invariant *)

\* A step leaves what task s does as it is.
Kept(s) ==
    /\ work'[s].pc = work[s].pc /\ work'[s].todo = work[s].todo
    /\ work'[s].tag = work[s].tag /\ work'[s].got = work[s].got

\* Only the task that holds the lock touches the jars of its profile.
LEMMA HandStep ==
  ASSUME TypeOK, BuildInHand, NEW t \in Tasks,
         \A s \in Tasks \ {t} : Kept(s),
         \/ UNCHANGED <<jar, backup>>
         \/ work[t].pc \in Downloading,
         HandOf(t)'
  PROVE  BuildInHand'
<1>. SUFFICES ASSUME NEW s \in Tasks, s # t PROVE HandOf(s)'
  BY DEF BuildInHand
<1>1. Kept(s) /\ HandOf(s)
  BY DEF BuildInHand
<1>2. CASE UNCHANGED <<jar, backup>>
  BY <1>1, <1>2 DEF Kept, HandOf
<1>3. CASE work[t].pc \in Downloading
  <2>1. work[s].pc \notin Downloading
    BY <1>3 DEF TypeOK, Downloading, Holding
  <2>. QED
    BY <1>1, <2>1 DEF Kept, HandOf, Downloading, Holding
<1>. QED
  BY <1>2, <1>3

LEMMA InstallFrame ==
  ASSUME InstallIsUnmarked, UNCHANGED <<mods, marker>>,
         \A s \in Tasks : work'[s].pc = "install" => Kept(s),
         \A s \in Tasks : Kept(s) \/ IsLaunch(s) \/ work'[s].pc \in Fetching
  PROVE  InstallIsUnmarked'
BY DEF InstallIsUnmarked, IsLaunch, Kept

MetadataHolds == \A p \in Profiles : meta[p] # None => meta[p].tag <= meta[p].version

LEMMA RecordsParts == RecordsHold <=> TypeOK /\ MetadataHolds /\ \A p \in Profiles : p \in marker => mods[p] = Mods
BY DEF RecordsHold, MetadataHolds

JarsAreBehind ==
    /\ \A p \in Profiles : jar[p] # None => jar[p] <= remote
    /\ \A p \in Profiles : backup[p] # None => backup[p] <= remote

LEMMA TaskInv ==
  ASSUME TypeOK, HostIsAhead, BuildInHand, InstallIsUnmarked, NEW t \in Tasks,
         \A s \in Tasks \ {t} : Kept(s),
         work'[t].pc # "install", IsLaunch(t) \/ work'[t].pc \in Fetching,
         work'[t].tag <= remote,
         work'[t].got # None => work'[t].got <= remote,
         UNCHANGED <<remote, mods, marker>>, probe' \in {probe, remote, None},
         \/ UNCHANGED <<jar, backup>>
         \/ work[t].pc \in Downloading,
         JarsAreBehind', HandOf(t)'
  PROVE  HostIsAhead' /\ BuildInHand' /\ InstallIsUnmarked'
<1>1. BuildInHand'
  BY HandStep
<1>2. InstallIsUnmarked'
  BY InstallFrame
<1>3. HostIsAhead'
  BY DEF HostIsAhead, JarsAreBehind, Kept, TypeOK, Builds
<1>. QED
  BY <1>1, <1>2, <1>3

\* A task at the end of its download has nothing in hand.
LEMMA FinishInv ==
  ASSUME TypeOK, HostIsAhead, BuildInHand, InstallIsUnmarked, NEW t \in Tasks,
         NEW ok \in BOOLEAN, Finish(t, ok, work), UNCHANGED <<remote, mods, marker, probe>>,
         \/ UNCHANGED <<jar, backup>>
         \/ work[t].pc \in Downloading,
         JarsAreBehind'
  PROVE  HostIsAhead' /\ BuildInHand' /\ InstallIsUnmarked'
<1>1. /\ work'[t].pc \in {"idle", "final", "refused"}
      /\ work'[t].tag = 0 /\ work'[t].got = None
      /\ \A s \in Tasks \ {t} : Kept(s)
  BY AfterDownloadFacts DEF Finish, TypeOK, Kept
<1>4. IsLaunch(t) \/ work'[t].pc \in Fetching
  BY DEF Finish, TypeOK, AfterDownload, Idle, Fetching
<1>2. HandOf(t)'
  BY <1>1 DEF HandOf, Holding
<1>3. 0 <= remote
  BY DEF TypeOK, Builds
<1>. QED
  BY <1>1, <1>2, <1>3, <1>4, TaskInv

LEMMA DownloadStep ==
  ASSUME DeliveryInv, NEW t \in Tasks,
         \/ BeginHome(t) \/ Lock(t) \/ Hint(t) \/ Reqwest(t) \/ SystemTools(t)
         \/ Swap(t) \/ Commit(t) \/ Tidy(t) \/ Write(t) \/ PublishMetadata(t)
  PROVE  MetadataHolds' /\ HostIsAhead' /\ BuildInHand' /\ InstallIsUnmarked'
<1>. DEFINE p == t[1]
<1>0. /\ TypeOK /\ MetadataHolds /\ HostIsAhead /\ BuildInHand /\ InstallIsUnmarked
      /\ work \in [Tasks -> Work] /\ work[t] \in Work /\ HandOf(t) /\ p \in Profiles
      /\ work[t].tag <= remote /\ (work[t].got # None => work[t].got <= remote)
      /\ remote \in Builds /\ JarsAreBehind
  BY RecordsParts, TaskHasProfile
     DEF DeliveryInv, TypeOK, BuildInHand, HostIsAhead, JarsAreBehind
<1>1. CASE BeginHome(t)
  <2>1. /\ work'[t].pc = "lock" /\ work'[t].tag = work[t].tag /\ work'[t].got = work[t].got
        /\ \A s \in Tasks \ {t} : Kept(s)
        /\ UNCHANGED <<remote, files, probe>>
    BY <1>0, <1>1 DEF BeginHome, Work, Kept
  <2>2. HandOf(t)'
    BY <2>1 DEF HandOf, Holding
  <2>3. MetadataHolds' /\ JarsAreBehind'
    BY <1>0, <2>1 DEF MetadataHolds, JarsAreBehind, files
  <2>. QED
    BY <1>0, <2>1, <2>2, <2>3, TaskInv DEF Fetching, Holding, files
<1>2. CASE Lock(t)
  <2>1. UNCHANGED <<remote, files, probe>>
    BY <1>2 DEF Lock
  <2>2. MetadataHolds' /\ JarsAreBehind'
    BY <1>0, <2>1 DEF MetadataHolds, JarsAreBehind, files
  <2>3. CASE Finish(t, TRUE, work)
    BY <1>0, <2>1, <2>2, <2>3, FinishInv DEF files
  <2>4. CASE work' = [work EXCEPT ![t].pc = "hint", ![t].before = None]
    <3>1. /\ work'[t].pc = "hint" /\ work'[t].tag = work[t].tag /\ work'[t].got = work[t].got
          /\ \A s \in Tasks \ {t} : Kept(s)
      BY <1>0, <2>4 DEF Work, Kept
    <3>2. HandOf(t)'
      BY <3>1 DEF HandOf, Holding
    <3>. QED
      BY <1>0, <2>1, <2>2, <3>1, <3>2, TaskInv DEF Fetching, Holding, files
  <2>. QED
    BY <1>2, <2>3, <2>4 DEF Lock
<1>3. CASE Hint(t)
  <2>1. PICK tag \in Builds \cup {None} :
          /\ ProbeRemote(tag)
          /\ work' = [work EXCEPT ![t].pc = "reqwest", ![t].tag = IF tag = None THEN 0 ELSE tag]
    BY <1>3 DEF Hint
  <2>2. /\ work[t].pc = "hint"
        /\ UNCHANGED <<remote, jar, meta, mods, marker>>
        /\ backup' = [backup EXCEPT ![p] = None]
    BY <1>3 DEF Hint, At
  <2>3. /\ work'[t].pc = "reqwest" /\ work'[t].got = work[t].got
        /\ work'[t].tag = IF tag = None THEN 0 ELSE tag
        /\ \A s \in Tasks \ {t} : Kept(s)
    BY <1>0, <2>1 DEF Work, Kept
  <2>4. work'[t].tag <= remote /\ probe' \in {probe, remote, None}
    BY <1>0, <2>1, <2>3 DEF ProbeRemote, HostIsAhead, Builds
  <2>5. HandOf(t)'
    BY <1>0, <2>2, <2>3 DEF HandOf, Holding, TypeOK
  <2>6. MetadataHolds' /\ JarsAreBehind'
    BY <1>0, <2>2 DEF MetadataHolds, JarsAreBehind, TypeOK
  <2>. QED
    BY <1>0, <2>2, <2>3, <2>4, <2>5, <2>6, TaskInv DEF Fetching, Downloading, Holding
<1>4. CASE Reqwest(t)
  <2>1. PICK got \in Brought, tag \in {work[t].tag, remote} :
          /\ got = remote => tag = remote
          /\ work' = [work EXCEPT ![t].tag = tag,
                                  ![t].pc  = IF Accepted(got) THEN "swap" ELSE "tools",
                                  ![t].got = IF Accepted(got) THEN got ELSE None]
    BY <1>4 DEF Reqwest
  <2>2. work[t].pc = "reqwest" /\ UNCHANGED <<remote, files, probe>>
    BY <1>4 DEF Reqwest, At
  <2>3. /\ work'[t].pc = IF Accepted(got) THEN "swap" ELSE "tools"
        /\ work'[t].tag = tag
        /\ work'[t].got = IF Accepted(got) THEN got ELSE None
        /\ \A s \in Tasks \ {t} : Kept(s)
    BY <1>0, <2>1 DEF Work, Kept
  <2>4. Accepted(got) => got = remote /\ tag = remote /\ got # None
    BY <2>1 DEF Brought, Accepted, Valid
  <2>5. remote <= remote /\ tag <= remote
    BY <1>0, <2>1 DEF Builds
  <2>6. HandOf(t)'
    BY <1>0, <2>2, <2>3, <2>4, <2>5 DEF HandOf, Holding, JarsAreBehind, files
  <2>7. MetadataHolds' /\ JarsAreBehind'
    BY <1>0, <2>2 DEF MetadataHolds, JarsAreBehind, files
  <2>. QED
    BY <1>0, <2>2, <2>3, <2>4, <2>5, <2>6, <2>7, TaskInv DEF Fetching, Holding, files
<1>5. CASE SystemTools(t)
  <2>1. PICK got \in Brought :
          IF Accepted(got)
          THEN work' = [work EXCEPT ![t].pc = "swap", ![t].got = got] /\ UNCHANGED lock
          ELSE Finish(t, FALSE, work)
    BY <1>5 DEF SystemTools
  <2>2. work[t].pc = "tools" /\ UNCHANGED <<remote, files, probe>>
    BY <1>5 DEF SystemTools, At
  <2>3. MetadataHolds' /\ JarsAreBehind'
    BY <1>0, <2>2 DEF MetadataHolds, JarsAreBehind, files
  <2>4. CASE Accepted(got)
    <3>1. got = remote /\ got # None /\ remote <= remote
      BY <1>0, <2>4 DEF Brought, Accepted, Valid, Builds
    <3>2. /\ work'[t].pc = "swap" /\ work'[t].tag = work[t].tag /\ work'[t].got = got
          /\ \A s \in Tasks \ {t} : Kept(s)
      BY <1>0, <2>1, <2>4 DEF Work, Kept
    <3>3. HandOf(t)'
      BY <1>0, <2>2, <3>1, <3>2 DEF HandOf, Holding, JarsAreBehind, files
    <3>. QED
      BY <1>0, <2>2, <2>3, <3>1, <3>2, <3>3, TaskInv DEF Fetching, Holding, files
  <2>5. CASE ~Accepted(got)
    BY <1>0, <2>1, <2>2, <2>3, <2>5, FinishInv DEF files
  <2>. QED
    BY <2>4, <2>5
<1>6. CASE Swap(t)
  <2>1. work[t].pc = "swap" /\ UNCHANGED <<remote, meta, mods, marker, probe>>
    BY <1>6 DEF Swap, At
  <2>2. MetadataHolds'
    BY <1>0, <2>1 DEF MetadataHolds
  <2>3. CASE /\ jar' = [jar EXCEPT ![p] = None]
             /\ backup' = [backup EXCEPT ![p] = IF jar[p] # None THEN jar[p] ELSE @]
             /\ Goto(t, "commit")
    <3>1. /\ work'[t].pc = "commit" /\ work'[t].tag = work[t].tag /\ work'[t].got = work[t].got
          /\ \A s \in Tasks \ {t} : Kept(s)
      BY <1>0, <2>3 DEF Goto, Work, Kept
    <3>2. HandOf(t)'
      BY <1>0, <2>1, <2>3, <3>1 DEF HandOf, Holding, TypeOK
    <3>3. JarsAreBehind'
      BY <1>0, <2>1, <2>3 DEF JarsAreBehind, TypeOK
    <3>. QED
      BY <1>0, <2>1, <2>2, <3>1, <3>2, <3>3, TaskInv DEF Fetching, Downloading, Holding
  <2>4. CASE Finish(t, FALSE, work) /\ UNCHANGED <<jar, backup>>
    <3>1. JarsAreBehind'
      BY <1>0, <2>1, <2>4 DEF JarsAreBehind
    <3>. QED
      BY <1>0, <2>1, <2>2, <2>4, <3>1, FinishInv
  <2>. QED
    BY <1>6, <2>3, <2>4 DEF Swap
<1>7. CASE Commit(t)
  <2>1. work[t].pc = "commit" /\ UNCHANGED <<remote, meta, mods, marker, probe>>
    BY <1>7 DEF Commit, At
  <2>2. MetadataHolds'
    BY <1>0, <2>1 DEF MetadataHolds
  <2>3. CASE /\ jar' = [jar EXCEPT ![p] = work[t].got]
             /\ work' = [Replaced(p) EXCEPT ![t].pc = "tidy"]
             /\ UNCHANGED backup
    <3>1. /\ work'[t].pc = "tidy" /\ work'[t].tag = work[t].tag /\ work'[t].got = work[t].got
          /\ \A s \in Tasks \ {t} : Kept(s)
      BY <1>0, <2>3, ReplacedFacts, TypeParts DEF Work, Kept
    <3>2. HandOf(t)'
      BY <1>0, <2>1, <2>3, <3>1 DEF HandOf, Holding, TypeOK
    <3>3. JarsAreBehind'
      BY <1>0, <2>1, <2>3 DEF JarsAreBehind, TypeOK
    <3>. QED
      BY <1>0, <2>1, <2>2, <3>1, <3>2, <3>3, TaskInv DEF Fetching, Downloading, Holding
  <2>4. CASE /\ \/ /\ backup[p] # None
                   /\ jar' = [jar EXCEPT ![p] = backup[p]]
                   /\ backup' = [backup EXCEPT ![p] = None]
                \/ UNCHANGED <<jar, backup>>
             /\ Finish(t, FALSE, work)
    <3>1. JarsAreBehind'
      BY <1>0, <2>1, <2>4 DEF JarsAreBehind, TypeOK
    <3>. QED
      BY <1>0, <2>1, <2>2, <2>4, <3>1, FinishInv DEF Downloading, Holding
  <2>. QED
    BY <1>7, <2>3, <2>4 DEF Commit
<1>8. CASE Tidy(t)
  <2>1. /\ work[t].pc = "tidy" /\ UNCHANGED <<remote, jar, meta, mods, marker, probe>>
        /\ backup' = [backup EXCEPT ![p] = None]
    BY <1>8 DEF Tidy, At
  <2>2. MetadataHolds' /\ JarsAreBehind'
    BY <1>0, <2>1 DEF MetadataHolds, JarsAreBehind, TypeOK
  <2>3. CASE Goto(t, "write")
    <3>1. /\ work'[t].pc = "write" /\ work'[t].tag = work[t].tag /\ work'[t].got = work[t].got
          /\ \A s \in Tasks \ {t} : Kept(s)
      BY <1>0, <2>3 DEF Goto, Work, Kept
    <3>2. HandOf(t)'
      BY <1>0, <2>1, <3>1 DEF HandOf, Holding
    <3>. QED
      BY <1>0, <2>1, <2>2, <3>1, <3>2, TaskInv DEF Fetching, Downloading, Holding
  <2>4. CASE Finish(t, FALSE, work)
    BY <1>0, <2>1, <2>2, <2>4, FinishInv DEF Downloading, Holding
  <2>. QED
    BY <1>8, <2>3, <2>4 DEF Tidy
<1>9. CASE Write(t)
  <2>1. /\ work[t].pc = "write" /\ UNCHANGED <<remote, jar, backup, mods, marker, probe>>
        /\ \/ UNCHANGED meta
           \/ meta' = [meta EXCEPT ![p] = None]
    BY <1>9 DEF Write, At
  <2>2. MetadataHolds' /\ JarsAreBehind'
    BY <1>0, <2>1 DEF MetadataHolds, JarsAreBehind, TypeOK
  <2>3. CASE Goto(t, "publish")
    <3>1. /\ work'[t].pc = "publish" /\ work'[t].tag = work[t].tag /\ work'[t].got = work[t].got
          /\ \A s \in Tasks \ {t} : Kept(s)
      BY <1>0, <2>3 DEF Goto, Work, Kept
    <3>2. HandOf(t)'
      BY <1>0, <2>1, <3>1 DEF HandOf, Holding
    <3>. QED
      BY <1>0, <2>1, <2>2, <3>1, <3>2, TaskInv DEF Fetching, Downloading, Holding
  <2>4. CASE Finish(t, FALSE, work)
    BY <1>0, <2>1, <2>2, <2>4, FinishInv DEF Downloading, Holding
  <2>. QED
    BY <1>9, <2>3, <2>4 DEF Write
<1>10. CASE PublishMetadata(t)
  <2>1. /\ work[t].pc = "publish" /\ UNCHANGED <<remote, jar, backup, mods, marker, probe>>
        /\ \/ UNCHANGED meta
           \/ meta' = [meta EXCEPT ![p] = Described(t)]
        /\ Finish(t, TRUE, work) \/ Finish(t, FALSE, work)
    BY <1>10 DEF PublishMetadata, At
  <2>2. Described(t).tag <= Described(t).version
    BY <1>0, <2>1 DEF HandOf, Holding, Described
  <2>3. MetadataHolds' /\ JarsAreBehind'
    BY <1>0, <2>1, <2>2 DEF MetadataHolds, JarsAreBehind, TypeOK
  <2>4. CASE Finish(t, TRUE, work)
    BY <1>0, <2>1, <2>3, <2>4, FinishInv DEF Downloading, Holding
  <2>5. CASE Finish(t, FALSE, work)
    BY <1>0, <2>1, <2>3, <2>5, FinishInv DEF Downloading, Holding
  <2>. QED
    BY <2>1, <2>4, <2>5
<1>. QED
  BY <1>1, <1>2, <1>3, <1>4, <1>5, <1>6, <1>7, <1>8, <1>9, <1>10

\* A launch outside its download leaves the jars and the metadata alone.
LEMMA LaunchStep ==
  ASSUME DeliveryInv, NEW t \in Tasks,
         \/ BeginLaunch(t) \/ Verify(t) \/ Await(t) \/ Check(t) \/ Probe(t)
         \/ Final(t) \/ Support(t) \/ Install(t) \/ Mark(t) \/ End(t) \/ CheckHome(t)
  PROVE  MetadataHolds' /\ HostIsAhead' /\ BuildInHand' /\ InstallIsUnmarked'
<1>. DEFINE p == t[1]
<1>0. /\ TypeOK /\ MetadataHolds /\ HostIsAhead /\ BuildInHand /\ InstallIsUnmarked
      /\ work \in [Tasks -> Work] /\ work[t] \in Work /\ HandOf(t) /\ p \in Profiles
      /\ work[t].tag <= remote /\ (work[t].got # None => work[t].got <= remote)
      /\ remote \in Builds /\ JarsAreBehind
  BY RecordsParts, TaskHasProfile
     DEF DeliveryInv, TypeOK, BuildInHand, HostIsAhead, JarsAreBehind
<1>1. UNCHANGED <<remote, jar, backup, meta>>
  BY DEF BeginLaunch, Verify, Await, Check, Probe, Final, Support, Install, Mark, End,
         CheckHome, files
<1>2. MetadataHolds' /\ JarsAreBehind'
  BY <1>0, <1>1 DEF MetadataHolds, JarsAreBehind
<1>3. 0 <= remote
  BY <1>0 DEF Builds
<1>4. ASSUME work'[t].pc \notin Downloading \cup {"install"},
             IsLaunch(t) \/ work'[t].pc = "idle",
             \/ work'[t].tag = work[t].tag /\ work'[t].got = work[t].got
             \/ work'[t].tag = 0 /\ work'[t].got = None,
             \A s \in Tasks \ {t} : Kept(s),
             probe' \in {probe, remote, None}, UNCHANGED <<mods, marker>>
      PROVE  HostIsAhead' /\ BuildInHand' /\ InstallIsUnmarked'
  <2>1. HandOf(t)'
    BY <1>4 DEF HandOf, Downloading, Holding
  <2>. QED
    BY <1>0, <1>1, <1>2, <1>3, <1>4, <2>1, TaskInv DEF Fetching
<1>11. work[t].pc \notin Fetching => IsLaunch(t)
  BY <1>0 DEF InstallIsUnmarked
<1>5. CASE BeginLaunch(t) \/ Verify(t) \/ Await(t) \/ Check(t)
  <2>0. IsLaunch(t)
    BY <1>5, <1>11 DEF BeginLaunch, Verify, Await, Check, At, Fetching, Holding
  <2>1. /\ work'[t].pc \in {"verify", "await", "check", "final", "probe"}
        /\ work'[t].tag = work[t].tag /\ work'[t].got = work[t].got
        /\ \A s \in Tasks \ {t} : Kept(s)
        /\ UNCHANGED <<mods, marker, probe>>
    BY <1>0, <1>5 DEF BeginLaunch, Verify, Await, Check, Goto, Work, Kept, files
  <2>. QED
    BY <1>2, <1>4, <2>0, <2>1 DEF Downloading, Holding
<1>6. CASE Probe(t)
  <2>1. PICK tag \in Builds \cup {None} :
         /\ ProbeRemote(tag)
         /\ work' = [work EXCEPT ![t].pc = Decided(t, tag),
                                 ![t].before = IF Decided(t, tag) = "lock" THEN Generation(t[1]) ELSE None,
                                 ![t].local = FALSE, ![t].known = None]
    BY <1>6 DEF Probe
  <2>2. /\ work'[t].pc = Decided(t, tag)
        /\ work'[t].tag = work[t].tag /\ work'[t].got = work[t].got
        /\ \A s \in Tasks \ {t} : Kept(s)
    BY <1>0, <2>1 DEF Work, Kept
  <2>3. Decided(t, tag) \in {"lock", "final", "refused"}
    BY DEF Decided
  <2>4. probe' \in {probe, remote, None} /\ UNCHANGED <<mods, marker>>
    BY <1>6, <2>1 DEF Probe, ProbeRemote, files
  <2>5. IsLaunch(t)
    BY <1>6, <1>11 DEF Probe, At, Fetching, Holding
  <2>. QED
    BY <1>2, <1>4, <2>2, <2>3, <2>4, <2>5 DEF Downloading, Holding
<1>7. CASE Final(t)
  <2>1. PICK s \in {"support", "refused"} : work' = [work EXCEPT ![t] = [Idle EXCEPT !.pc = s]]
    BY <1>7 DEF Final
  <2>2. s \in Steps
    BY DEF Steps
  <2>3. /\ work'[t].pc \in {"support", "refused"}
        /\ work'[t].tag = 0 /\ work'[t].got = None
    BY <1>0, <2>1, <2>2, IdleAt
  <2>4. \A r \in Tasks \ {t} : Kept(r)
    BY <1>0, <2>1 DEF Kept
  <2>5. UNCHANGED <<mods, marker, probe>>
    BY <1>7 DEF Final, files
  <2>6. IsLaunch(t)
    BY <1>7, <1>11 DEF Final, At, Fetching, Holding
  <2>. QED
    BY <1>2, <1>4, <2>3, <2>4, <2>5, <2>6 DEF Downloading, Holding
<1>8. CASE End(t)
  <2>1. /\ work'[t].pc = "idle" /\ work'[t].tag = 0 /\ work'[t].got = None
        /\ \A s \in Tasks \ {t} : Kept(s)
        /\ UNCHANGED <<mods, marker, probe>>
    BY <1>0, <1>8 DEF End, Idle, Kept, files
  <2>. QED
    BY <1>2, <1>4, <2>1 DEF Downloading, Holding
<1>9. CASE CheckHome(t)
  <2>1. UNCHANGED <<work, mods, marker>> /\ probe' \in {probe, remote, None}
    BY <1>9 DEF CheckHome, ProbeRemote, files
  <2>2. HostIsAhead'
    BY <1>0, <1>1, <2>1 DEF HostIsAhead, Builds
  <2>3. BuildInHand'
    BY <1>0, <1>1, <2>1 DEF BuildInHand, HandOf
  <2>4. InstallIsUnmarked'
    BY <1>0, <2>1, InstallFrame DEF Kept
  <2>. QED
    BY <1>2, <2>2, <2>3, <2>4
<1>10. CASE Support(t) \/ Install(t) \/ Mark(t)
  <2>1. work[t].pc \in {"support", "install"} /\ UNCHANGED probe
    BY <1>10 DEF Support, Install, Mark, At
  <2>2. /\ work'[t].pc \in {"play", "refused", "install"}
        /\ work'[t].tag = work[t].tag /\ work'[t].got = work[t].got
        /\ \A s \in Tasks \ {t} : Kept(s)
    <3>1. work \in [Tasks -> Work] /\ work[t] \in Work
      BY <1>0
    <3>2. CASE Support(t)
      BY ONLY <3>1, <3>2, t \in Tasks DEF Support, Goto, At, Work, Kept
    <3>3. CASE Install(t)
      BY ONLY <3>1, <3>3, t \in Tasks DEF Install, Goto, At, Work, Kept
    <3>4. CASE Mark(t)
      BY ONLY <3>1, <3>4, t \in Tasks DEF Mark, Goto, At, Work, Kept
    <3>. QED
      BY <1>10, <3>2, <3>3, <3>4
  <2>3. HandOf(t)'
    BY <2>2 DEF HandOf, Holding
  <2>4. BuildInHand'
    BY <1>0, <1>1, <2>2, <2>3, HandStep
  <2>5. HostIsAhead'
    BY <1>0, <1>1, <2>1, <2>2 DEF HostIsAhead, Kept
  <2>6. InstallIsUnmarked'
    <3>1. IsLaunch(t)
      BY <1>11, <2>1 DEF Fetching, Holding
    <3>2. ASSUME NEW s \in Tasks, s # t, s[1] = p, IsLaunch(s)
          PROVE  FALSE
      BY <3>1, <3>2 DEF Tasks, IsLaunch
    <3>3. ASSUME NEW s \in Tasks, s # t
          PROVE  /\ Kept(s) /\ (IsLaunch(s) \/ work[s].pc \in Fetching)
                 /\ work[s].pc = "install" =>
                      /\ IsLaunch(s) /\ s[1] \notin marker /\ s[1] # p
                      /\ mods[s[1]] \cup work[s].todo = Mods
      BY <1>0, <2>2, <3>2, <3>3 DEF InstallIsUnmarked
    <3>4. CASE Support(t)
      <4>1. /\ UNCHANGED mods
            /\ marker' = marker \/ (marker' = marker \cup {p} /\ mods[p] = Mods)
        BY <3>4 DEF Support
      <4>2. work'[t].pc = "install" => p \notin marker' /\ work'[t].todo = Mods
        BY <1>0, <3>4 DEF Support, Goto, Work
      <4>3. mods[p] \subseteq Mods
        BY <1>0 DEF TypeOK
      <4>. QED
        BY <1>0, <3>1, <3>3, <4>1, <4>2, <4>3 DEF InstallIsUnmarked, IsLaunch, Kept
    <3>5. CASE Install(t)
      <4>1. /\ p \notin marker /\ mods[p] \cup work[t].todo = Mods /\ UNCHANGED marker
            /\ \A q \in Profiles \ {p} : mods'[q] = mods[q]
        BY <1>0, <3>5 DEF InstallIsUnmarked, Install, At, TypeOK
      <4>2. PICK m \in work[t].todo :
              \/ Goto(t, "refused")
              \/ /\ mods' = [mods EXCEPT ![p] = @ \cup {m}]
                 /\ work' = [work EXCEPT ![t].todo = @ \ {m}]
        BY <3>5 DEF Install
      <4>3. work'[t].pc = "install" => mods'[p] \cup work'[t].todo = Mods
        BY <1>0, <4>1, <4>2 DEF Goto, Work, TypeOK
      <4>4. \A s \in Tasks : s[1] \in Profiles
        BY TaskHasProfile
      <4>5. marker \subseteq Profiles
        BY <1>0 DEF TypeOK
      <4>. QED
        BY <1>0, <3>1, <3>3, <4>1, <4>3, <4>4, <4>5 DEF InstallIsUnmarked, IsLaunch, Kept
    <3>6. CASE Mark(t)
      <4>1. /\ mods[p] = Mods /\ UNCHANGED mods /\ work'[t].pc # "install"
            /\ marker' \in {marker, marker \cup {p}}
        <5>1. work[t].pc = "install" /\ work[t].todo = {} /\ UNCHANGED mods
          BY <3>6 DEF Mark, At
        <5>2. mods[p] = Mods
          BY <1>0, <5>1 DEF InstallIsUnmarked
        <5>3. marker' \in {marker, marker \cup {p}}
          BY <3>6 DEF Mark
        <5>4. work'[t].pc # "install"
          BY <1>0, <3>6 DEF Mark, Goto, Work
        <5>. QED
          BY <5>1, <5>2, <5>3, <5>4
      <4>. QED
        BY <1>0, <3>1, <3>3, <4>1 DEF InstallIsUnmarked, IsLaunch, Kept
    <3>. QED
      BY <1>10, <3>4, <3>5, <3>6
  <2>. QED
    BY <1>2, <2>4, <2>5, <2>6
<1>. QED
  BY <1>5, <1>6, <1>7, <1>8, <1>9, <1>10

LEMMA WorldStep ==
  ASSUME DeliveryInv,
         \/ Publish \/ Expire \/ Crash
         \/ \E p \in Profiles, j \in Jars \cup {None} : Replace(p, j)
  PROVE  MetadataHolds' /\ HostIsAhead' /\ BuildInHand' /\ InstallIsUnmarked'
<1>0. /\ TypeOK /\ MetadataHolds /\ HostIsAhead /\ BuildInHand /\ InstallIsUnmarked
      /\ work \in [Tasks -> Work] /\ remote \in Builds
  BY RecordsParts DEF DeliveryInv, TypeOK
<1>1. CASE Publish
  <2>1. /\ UNCHANGED <<jar, backup, meta, mods, marker, probe, work>>
        /\ remote' = remote + 1
    BY <1>1 DEF Publish, files, memory
  <2>2. HostIsAhead'
    <3>1. \A j \in Jars \cup Tags : j \in Int
      BY JarsAreNumbers
    <3>2. \A j \in Jars \cup Tags : j <= remote => j <= remote'
      BY <1>0, <2>1, <3>1 DEF Builds
    <3>3. Builds \subseteq Jars
      BY DEF Jars
    <3>4. \A t \in Tasks : work[t].tag \in Tags /\ work[t].got \in Builds \cup {None}
      BY <1>0 DEF Work
    <3>. QED
      BY <1>0, <2>1, <3>2, <3>3, <3>4 DEF HostIsAhead, TypeOK
  <2>3. BuildInHand'
    BY <1>0, <2>1 DEF BuildInHand, HandOf
  <2>4. InstallIsUnmarked'
    BY <1>0, <2>1, InstallFrame DEF Kept
  <2>. QED
    BY <1>0, <2>1, <2>2, <2>3, <2>4 DEF MetadataHolds
<1>2. CASE Expire
  <2>1. UNCHANGED <<remote, jar, backup, meta, mods, marker, work>> /\ probe' = None
    BY <1>2 DEF Expire, files
  <2>2. HostIsAhead'
    BY <1>0, <2>1 DEF HostIsAhead
  <2>3. BuildInHand'
    BY <1>0, <2>1 DEF BuildInHand, HandOf
  <2>4. InstallIsUnmarked'
    BY <1>0, <2>1, InstallFrame DEF Kept
  <2>. QED
    BY <1>0, <2>1, <2>2, <2>3, <2>4 DEF MetadataHolds
<1>3. CASE Crash
  <2>1. /\ UNCHANGED <<remote, jar, backup, meta, mods, marker>> /\ probe' = None
        /\ \A s \in Tasks : work'[s].pc = "idle" /\ work'[s].tag = 0 /\ work'[s].got = None
    BY <1>3 DEF Crash, files, Idle
  <2>2. HostIsAhead'
    BY <1>0, <2>1 DEF HostIsAhead, Builds
  <2>3. BuildInHand'
    BY <2>1 DEF BuildInHand, HandOf, Holding
  <2>4. InstallIsUnmarked'
    BY <1>0, <2>1, InstallFrame DEF Fetching
  <2>. QED
    BY <1>0, <2>1, <2>2, <2>3, <2>4 DEF MetadataHolds
<1>4. ASSUME NEW p \in Profiles, NEW j \in Jars \cup {None}, Replace(p, j)
      PROVE  MetadataHolds' /\ HostIsAhead' /\ BuildInHand' /\ InstallIsUnmarked'
  <2>1. /\ UNCHANGED <<remote, backup, meta, mods, marker, probe>>
        /\ jar' = [jar EXCEPT ![p] = j] /\ j \in (1..remote) \cup Foreign \cup {None}
        /\ \A t \in Tasks : t[1] = p => work[t].pc = "idle"
    BY <1>4 DEF Replace, At
  <2>2. \A s \in Tasks : Kept(s)
    BY <1>0, <1>4, ReplacedFacts, TypeParts DEF Replace, Kept
  <2>3. j # None => j <= remote
    BY <1>0, <2>1, BuildAssumption DEF Builds
  <2>4. HostIsAhead'
    BY <1>0, <2>1, <2>2, <2>3 DEF HostIsAhead, TypeOK, Kept
  <2>5. BuildInHand'
    BY <1>0, <2>1, <2>2 DEF BuildInHand, HandOf, TypeOK, Kept, Holding
  <2>6. InstallIsUnmarked'
    BY <1>0, <2>1, <2>2, InstallFrame
  <2>. QED
    BY <1>0, <2>1, <2>4, <2>5, <2>6 DEF MetadataHolds
<1>. QED
  BY <1>1, <1>2, <1>3, <1>4

LEMMA DeliveryInit == Init => DeliveryInv
<1>. SUFFICES ASSUME Init PROVE DeliveryInv
  OBVIOUS
<1>1. TypeOK
  BY InitTypeOK
<1>2. \A t \in Tasks : work[t] = Idle
  BY DEF Init
<1>3. MetadataHolds /\ marker = {}
  BY DEF Init, MetadataHolds
<1>4. HostIsAhead
  BY <1>2 DEF Init, HostIsAhead, Idle
<1>5. BuildInHand
  BY <1>2 DEF BuildInHand, HandOf, Holding, Idle
<1>6. InstallIsUnmarked
  BY <1>2, <1>3 DEF InstallIsUnmarked, Fetching, Idle
<1>. QED
  BY <1>1, <1>3, <1>4, <1>5, <1>6, RecordsParts DEF DeliveryInv

LEMMA DeliveryStep == DeliveryInv /\ [Next]_vars => DeliveryInv'
<1>. SUFFICES ASSUME DeliveryInv, [Next]_vars PROVE DeliveryInv'
  OBVIOUS
<1>0. TypeOK /\ BuildInHand
  BY RecordsParts DEF DeliveryInv
<1>1. SUFFICES TypeOK' /\ MetadataHolds' /\ HostIsAhead' /\ BuildInHand' /\ InstallIsUnmarked'
  BY DEF DeliveryInv, RecordsHold, MetadataHolds, InstallIsUnmarked
<1>2. ASSUME NEW t \in Tasks,
             \/ BeginHome(t) \/ Lock(t) \/ Hint(t) \/ Reqwest(t) \/ SystemTools(t)
             \/ Swap(t) \/ Commit(t) \/ Tidy(t) \/ Write(t) \/ PublishMetadata(t)
      PROVE  TypeOK' /\ MetadataHolds' /\ HostIsAhead' /\ BuildInHand' /\ InstallIsUnmarked'
  BY <1>0, <1>2, DownloadTypeOK, DownloadStep
<1>3. ASSUME NEW t \in Tasks,
             \/ BeginLaunch(t) \/ Verify(t) \/ Await(t) \/ Check(t) \/ Probe(t)
             \/ Final(t) \/ Support(t) \/ Install(t) \/ Mark(t) \/ End(t) \/ CheckHome(t)
      PROVE  TypeOK' /\ MetadataHolds' /\ HostIsAhead' /\ BuildInHand' /\ InstallIsUnmarked'
  BY <1>0, <1>3, LaunchTypeOK, LaunchStep
<1>4. ASSUME \/ Publish \/ Expire \/ Crash
             \/ \E p \in Profiles, j \in Jars \cup {None} : Replace(p, j)
      PROVE  TypeOK' /\ MetadataHolds' /\ HostIsAhead' /\ BuildInHand' /\ InstallIsUnmarked'
  BY <1>0, <1>4, WorldTypeOK, WorldStep
<1>5. CASE UNCHANGED vars
  <2>1. UNCHANGED <<remote, jar, backup, meta, mods, marker, probe, lock, work, crashes, edits>>
    BY <1>5 DEF vars, files, memory
  <2>. QED
    BY <1>0, <2>1, RecordsParts
       DEF DeliveryInv, TypeOK, MetadataHolds, HostIsAhead, BuildInHand, HandOf, InstallIsUnmarked
<1>. QED
  BY <1>2, <1>3, <1>4, <1>5 DEF Next, Waits, Steps1

LEMMA DeliveryInvariant == Spec => []DeliveryInv
BY DeliveryInit, DeliveryStep, PTL DEF Spec

\* The metadata never names a newer build than the one it describes, and a marked
\* profile has every companion mod (download_update_impl and
\* ensure_required_support_mods), whatever failed or ended in between.
THEOREM RecordsAlwaysHold == Spec => []RecordsHold
<1>1. DeliveryInv => RecordsHold
  BY DEF DeliveryInv
<1>. QED
  BY <1>1, DeliveryInvariant, PTL

-----------------------------------------------------------------------------
(* The client and its mods at the start of a game *)

LEMMA FinishEffect ==
  ASSUME TypeOK, NEW t \in Tasks, NEW ok \in BOOLEAN, Finish(t, ok, work)
  PROVE  /\ \A s \in Tasks \ {t} : Kept(s)
         /\ work'[t].pc \in {"idle", "final", "refused"}
BY AfterDownloadFacts DEF Finish, TypeOK, Kept

\* What a download does to the folders, and where it leads.
LEMMA DownloadEffect ==
  ASSUME DeliveryInv, NEW t \in Tasks,
         \/ BeginHome(t) \/ Lock(t) \/ Hint(t) \/ Reqwest(t) \/ SystemTools(t)
         \/ Swap(t) \/ Commit(t) \/ Tidy(t) \/ Write(t) \/ PublishMetadata(t)
  PROVE  /\ \A s \in Tasks \ {t} : Kept(s)
         /\ work'[t].pc \notin {"support", "install", "play"}
         /\ UNCHANGED <<mods, marker, edits>>
         /\ \A q \in Profiles \ {t[1]} : jar'[q] = jar[q] /\ backup'[q] = backup[q]
         /\ \/ UNCHANGED <<jar, backup>>
            \/ work[t].pc \in Downloading \ {"swap", "commit"} /\ UNCHANGED jar
            \/ Swap(t) /\ work'[t].pc = "commit"
            \/ Commit(t)
<1>. DEFINE p == t[1]
<1>0. /\ TypeOK /\ BuildInHand /\ HandOf(t) /\ work \in [Tasks -> Work] /\ p \in Profiles
      /\ work[t] \in Work
      /\ jar \in [Profiles -> Jars \cup {None}] /\ backup \in [Profiles -> Jars \cup {None}]
  BY RecordsParts, TaskHasProfile DEF DeliveryInv, TypeOK, BuildInHand
<1>1. UNCHANGED <<mods, marker, edits>>
  BY DEF BeginHome, Lock, Hint, Reqwest, SystemTools, Swap, Commit, Tidy, Write, PublishMetadata, files
<1>2. \A q \in Profiles \ {p} : jar'[q] = jar[q] /\ backup'[q] = backup[q]
  BY <1>0 DEF BeginHome, Lock, Hint, Reqwest, SystemTools, Swap, Commit, Tidy, Write, PublishMetadata, files
<1>3. \/ UNCHANGED <<jar, backup>>
      \/ work[t].pc \in Downloading \ {"swap", "commit"} /\ UNCHANGED jar
      \/ Swap(t) /\ Goto(t, "commit")
      \/ Commit(t)
  BY DEF BeginHome, Lock, Hint, Reqwest, SystemTools, Swap, Tidy, Write, PublishMetadata, files,
         At, Downloading, Holding
<1>4. Goto(t, "commit") => work'[t].pc = "commit"
  BY <1>0 DEF Goto, Work
<1>5. (\A s \in Tasks \ {t} : Kept(s)) /\ work'[t].pc \notin {"support", "install", "play"}
  <2>1. CASE Finish(t, TRUE, work) \/ Finish(t, FALSE, work)
    BY <1>0, <2>1, FinishEffect
  <2>2. CASE \E s \in {"commit", "write", "publish"} : Goto(t, s)
    BY <1>0, <2>2 DEF Goto, Work, Kept
  <2>3. CASE BeginHome(t) \/ Hint(t) \/ Reqwest(t)
    <3>1. CASE BeginHome(t)
      BY <1>0, <3>1 DEF BeginHome, Work, Kept
    <3>2. CASE Hint(t)
      <4>1. PICK n \in {0} \cup Builds : work' = [work EXCEPT ![t].pc = "reqwest", ![t].tag = n]
        BY <3>2 DEF Hint
      <4>. QED
        BY <1>0, <4>1 DEF Work, Kept
    <3>3. CASE Reqwest(t)
      <4>1. PICK got \in Brought, tag \in {work[t].tag, remote} :
              work' = [work EXCEPT ![t].tag = tag,
                                   ![t].pc  = IF Accepted(got) THEN "swap" ELSE "tools",
                                   ![t].got = IF Accepted(got) THEN got ELSE None]
        BY <3>3 DEF Reqwest
      <4>. QED
        BY <1>0, <4>1 DEF Work, Kept
    <3>. QED
      BY <2>3, <3>1, <3>2, <3>3
  <2>4. CASE work' = [work EXCEPT ![t].pc = "hint", ![t].before = None]
    BY <1>0, <2>4 DEF Work, Kept
  <2>5. CASE \E got \in Brought : work' = [work EXCEPT ![t].pc = "swap", ![t].got = got]
    BY <1>0, <2>5 DEF Work, Kept
  <2>6. CASE work' = [Replaced(p) EXCEPT ![t].pc = "tidy"]
    BY <1>0, <2>6, ReplacedFacts, TypeParts DEF Work, Kept
  <2>. QED
    BY <2>1, <2>2, <2>3, <2>4, <2>5, <2>6
       DEF Lock, SystemTools, Swap, Commit, Tidy, Write, PublishMetadata
<1>. QED
  BY <1>1, <1>2, <1>3, <1>4, <1>5

LEMMA DownloadKeepsClient ==
  ASSUME DeliveryInv, LaunchHasClient, RestoreFails = FALSE, NEW t \in Tasks,
         \/ BeginHome(t) \/ Lock(t) \/ Hint(t) \/ Reqwest(t) \/ SystemTools(t)
         \/ Swap(t) \/ Commit(t) \/ Tidy(t) \/ Write(t) \/ PublishMetadata(t)
  PROVE  LaunchHasClient'
<1>. DEFINE p == t[1]
<1>0. /\ TypeOK /\ HandOf(t) /\ work \in [Tasks -> Work] /\ p \in Profiles /\ work[t] \in Work
      /\ jar \in [Profiles -> Jars \cup {None}] /\ backup \in [Profiles -> Jars \cup {None}]
  BY RecordsParts, TaskHasProfile DEF DeliveryInv, TypeOK, BuildInHand
<1>1. /\ \A s \in Tasks \ {t} : Kept(s)
      /\ work'[t].pc \notin {"support", "install"}
      /\ \A q \in Profiles \ {p} : jar'[q] = jar[q] /\ backup'[q] = backup[q]
  BY DownloadEffect
<1>2. SUFFICES ASSUME NEW s \in Tasks, s # t, work[s].pc \in {"support", "install"}
               PROVE  HasClient(s[1])'
  BY <1>1 DEF LaunchHasClient, Kept
<1>3. HasClient(s[1])
  BY <1>2 DEF LaunchHasClient
<1>4. s[1] \in Profiles
  BY TaskHasProfile
<1>5. CASE s[1] # p
  <2>1. jar'[s[1]] = jar[s[1]] /\ backup'[s[1]] = backup[s[1]]
    BY <1>1, <1>4, <1>5
  <2>2. ASSUME NEW r \in Tasks, r[1] = s[1], work[r].pc = "commit"
        PROVE  work'[r].pc = "commit"
    BY <1>1, <1>5, <2>2 DEF Kept
  <2>. QED
    BY <1>3, <2>1, <2>2 DEF HasClient, MovedAside, Valid
<1>6. CASE s[1] = p /\ UNCHANGED <<jar, backup>> /\ work[t].pc # "commit"
  <2>1. ASSUME NEW r \in Tasks, r[1] = s[1], work[r].pc = "commit"
        PROVE  work'[r].pc = "commit"
    BY <1>1, <1>6, <2>1 DEF Kept
  <2>. QED
    BY <1>3, <1>6, <2>1 DEF HasClient, MovedAside, Valid
<1>7. CASE s[1] = p /\ work[t].pc \in Downloading \ {"commit"}
  <2>1. \A r \in Tasks : work[r].pc # "commit"
    BY <1>0, <1>7 DEF TypeOK, Downloading, Holding
  <2>2. Valid(jar[p])
    BY <1>3, <1>7, <2>1 DEF HasClient, MovedAside
  <2>3. CASE UNCHANGED jar
    BY <1>7, <2>2, <2>3 DEF HasClient, Valid
  <2>4. CASE Swap(t) /\ work'[t].pc = "commit"
    <3>1. \/ jar' = [jar EXCEPT ![p] = None] /\ backup' = [backup EXCEPT ![p] = jar[p]]
          \/ UNCHANGED jar
      BY <2>2, <2>4 DEF Swap, Valid
    <3>2. CASE jar' = [jar EXCEPT ![p] = None] /\ backup' = [backup EXCEPT ![p] = jar[p]]
      BY <1>0, <1>7, <2>2, <2>4, <3>2 DEF HasClient, MovedAside, Valid
    <3>. QED
      BY <2>3, <3>1, <3>2
  <2>. QED
    BY <1>7, <2>3, <2>4, DownloadEffect DEF Commit, At
<1>8. CASE s[1] = p /\ work[t].pc = "commit"
  <2>1. jar[p] = None /\ Valid(backup[p])
    BY <1>0, <1>3, <1>8 DEF HandOf, HasClient, MovedAside, Valid
  <2>2. Commit(t)
    BY <1>8 DEF BeginHome, Lock, Hint, Reqwest, SystemTools, Swap, Tidy, Write, PublishMetadata, At
  <2>3. work[t].got \in Builds
    BY <1>0, <1>8 DEF HandOf, Holding, Work
  <2>4. jar'[p] \in {work[t].got, backup[p]}
    BY <1>0, <2>1, <2>2 DEF Commit, Valid
  <2>5. Valid(jar'[p])
    BY <1>0, <1>8, <2>1, <2>3, <2>4 DEF Valid, Builds, HandOf, Holding
  <2>. QED
    BY <1>8, <2>5 DEF HasClient, Valid
<1>9. CASE work[t].pc # "commit"
  <2>1. ~Commit(t) /\ (Swap(t) => work[t].pc \in Downloading)
    BY <1>9 DEF Commit, Swap, At, Downloading, Holding
  <2>2. UNCHANGED <<jar, backup>> \/ work[t].pc \in Downloading
    BY <2>1, DownloadEffect
  <2>. QED
    BY <1>5, <1>6, <1>7, <1>9, <2>2
<1>. QED
  BY <1>5, <1>8, <1>9

LEMMA LookAround ==
  ASSUME TypeOK, NEW t \in Tasks,
         BeginLaunch(t) \/ Verify(t) \/ Await(t) \/ Check(t) \/ Probe(t) \/ End(t)
  PROVE  work'[t].pc \notin {"support", "install", "play"}
<1>0. work \in [Tasks -> Work] /\ work[t] \in Work
  BY DEF TypeOK
<1>1. CASE BeginLaunch(t) \/ Await(t)
  BY <1>0, <1>1 DEF BeginLaunch, Await, Goto, Work
<1>2. CASE Verify(t)
  BY <1>0, <1>2 DEF Verify, Work
<1>3. CASE Check(t)
  BY <1>0, <1>3 DEF Check, Work
<1>4. CASE Probe(t)
  <2>1. PICK tag, b : work' = [work EXCEPT ![t].pc = Decided(t, tag), ![t].before = b,
                                           ![t].local = FALSE, ![t].known = None]
    BY <1>4 DEF Probe
  <2>2. work'[t].pc = Decided(t, tag)
    BY <1>0, <2>1 DEF Work
  <2>. QED
    BY <2>2 DEF Decided
<1>5. CASE End(t)
  BY <1>0, <1>5 DEF End, Idle
<1>. QED
  BY <1>1, <1>2, <1>3, <1>4, <1>5

LEMMA LaunchKeepsClient ==
  ASSUME DeliveryInv, LaunchHasClient, Foreign \subseteq {0}, NEW t \in Tasks,
         \/ BeginLaunch(t) \/ Verify(t) \/ Await(t) \/ Check(t) \/ Probe(t)
         \/ Final(t) \/ Support(t) \/ Install(t) \/ Mark(t) \/ End(t) \/ CheckHome(t)
  PROVE  LaunchHasClient'
<1>. DEFINE p == t[1]
<1>0. /\ TypeOK /\ work \in [Tasks -> Work] /\ p \in Profiles /\ work[t] \in Work
  BY RecordsParts, TaskHasProfile DEF DeliveryInv, TypeOK
<1>1. UNCHANGED <<jar, backup>>
  BY DEF BeginLaunch, Verify, Await, Check, Probe, Final, Support, Install, Mark, End,
         CheckHome, files
<1>2. \A s \in Tasks \ {t} : Kept(s)
  BY <1>0 DEF BeginLaunch, Verify, Await, Check, Probe, Final, Support, Install, Mark, End,
              CheckHome, Goto, Work, Kept
<1>3. CASE CheckHome(t)
  BY <1>1, <1>3 DEF CheckHome, LaunchHasClient, HasClient, MovedAside, Valid
<1>4. CASE ~CheckHome(t)
  <2>1. work[t].pc # "commit"
    BY <1>4 DEF BeginLaunch, Verify, Await, Check, Probe, Final, Support, Install, Mark, End, At
  <2>2. ASSUME NEW q, HasClient(q) PROVE HasClient(q)'
    BY <1>1, <1>2, <2>1, <2>2 DEF HasClient, MovedAside, Valid, Kept
  <2>3. ASSUME work'[t].pc \in {"support", "install"} PROVE HasClient(p)
    <3>1. CASE Final(t)
      <4>1. Ready(p)
        <5>1. ~Ready(p) => work'[t] = [Idle EXCEPT !.pc = "refused"]
          BY <1>0, <3>1 DEF Final
        <5>2. [Idle EXCEPT !.pc = "refused"].pc = "refused"
          BY IdleAt DEF Steps
        <5>. QED
          BY <2>3, <5>1, <5>2
      <4>2. jar[p] \in Builds \cup {0} /\ jar[p] # None
        BY <1>0, <4>1 DEF TypeOK, Jars, Ready
      <4>3. meta[p] # None => meta[p].size \in Builds
        BY <1>0 DEF TypeOK, Metadata
      <4>4. Valid(jar[p])
        BY <4>1, <4>2, <4>3 DEF Ready, Valid, Size, Builds
      <4>. QED
        BY <4>4 DEF HasClient
    <3>2. CASE Support(t) \/ Install(t) \/ Mark(t)
      BY <3>2 DEF Support, Install, Mark, At, LaunchHasClient
    <3>3. CASE BeginLaunch(t) \/ Verify(t) \/ Await(t) \/ Check(t) \/ Probe(t) \/ End(t)
      BY <1>0, <2>3, <3>3, LookAround
    <3>. QED
      BY <1>4, <3>1, <3>2, <3>3
  <2>. QED
    BY <1>2, <2>2, <2>3 DEF LaunchHasClient, Kept
<1>. QED
  BY <1>3, <1>4

LEMMA WorldKeepsClient ==
  ASSUME DeliveryInv, LaunchHasClient,
         \/ Publish \/ Expire \/ Crash
         \/ \E p \in Profiles, j \in Jars \cup {None} : Replace(p, j)
  PROVE  LaunchHasClient'
<1>0. TypeOK /\ work \in [Tasks -> Work] /\ jar \in [Profiles -> Jars \cup {None}]
  BY RecordsParts DEF DeliveryInv, TypeOK
<1>1. CASE Publish \/ Expire
  BY <1>1 DEF Publish, Expire, files, memory, LaunchHasClient, HasClient, MovedAside, Valid
<1>2. CASE Crash
  BY <1>2 DEF Crash, Idle, LaunchHasClient
<1>3. ASSUME NEW p \in Profiles, NEW j \in Jars \cup {None}, Replace(p, j)
      PROVE  LaunchHasClient'
  <2>1. /\ UNCHANGED backup /\ jar' = [jar EXCEPT ![p] = j]
        /\ \A t \in Tasks : t[1] = p => work[t].pc = "idle"
    BY <1>3 DEF Replace, At
  <2>2. \A s \in Tasks : Kept(s)
    BY <1>0, <1>3, ReplacedFacts, TypeParts DEF Replace, Kept
  <2>3. ASSUME NEW s \in Tasks, work'[s].pc \in {"support", "install"} PROVE HasClient(s[1])'
    <3>1. HasClient(s[1]) /\ s[1] # p /\ s[1] \in Profiles
      BY <2>1, <2>2, <2>3, TaskHasProfile DEF LaunchHasClient, Kept
    <3>2. jar'[s[1]] = jar[s[1]]
      BY <1>0, <2>1, <3>1
    <3>. QED
      BY <2>1, <2>2, <3>1, <3>2 DEF HasClient, MovedAside, Valid, Kept
  <2>. QED
    BY <2>3 DEF LaunchHasClient
<1>. QED
  BY <1>1, <1>2, <1>3

\* Only the support mods stand before the start of a game.
LEMMA PlayIsLast ==
  ASSUME DeliveryInv, [Next]_vars, NEW t \in Tasks, Plays(t)
  PROVE  Support(t) \/ Mark(t)
<1>0. TypeOK /\ work \in [Tasks -> Work] /\ work[t] \in Work
  BY RecordsParts DEF DeliveryInv, TypeOK
<1>1. ~Kept(t) /\ work'[t].pc = "play"
  BY DEF Plays, At, Kept
<1>2. ASSUME NEW r \in Tasks,
             \/ BeginHome(r) \/ Lock(r) \/ Hint(r) \/ Reqwest(r) \/ SystemTools(r)
             \/ Swap(r) \/ Commit(r) \/ Tidy(r) \/ Write(r) \/ PublishMetadata(r)
      PROVE  FALSE
  BY <1>1, <1>2, DownloadEffect
<1>3. ASSUME NEW r \in Tasks,
             \/ BeginLaunch(r) \/ Verify(r) \/ Await(r) \/ Check(r) \/ Probe(r)
             \/ Final(r) \/ Support(r) \/ Install(r) \/ Mark(r) \/ End(r) \/ CheckHome(r)
      PROVE  Support(t) \/ Mark(t)
  <2>1. \A s \in Tasks \ {r} : Kept(s)
    BY <1>0, <1>3 DEF BeginLaunch, Verify, Await, Check, Probe, Final, Support, Install, Mark, End,
                      CheckHome, Goto, Work, Kept
  <2>2. r = t
    BY <1>1, <2>1
  <2>3. CASE BeginLaunch(t) \/ Verify(t) \/ Await(t) \/ Check(t) \/ Probe(t) \/ End(t)
    BY <1>0, <1>1, <2>3, LookAround
  <2>4. CASE Final(t)
    <3>1. \A s \in {"support", "refused"} : [Idle EXCEPT !.pc = s].pc = s
      BY IdleAt DEF Steps
    <3>2. \E s \in {"support", "refused"} : work'[t] = [Idle EXCEPT !.pc = s]
      BY <1>0, <2>4 DEF Final
    <3>. QED
      BY <1>1, <3>1, <3>2
  <2>5. CASE Install(t) \/ CheckHome(t)
    BY <1>0, <1>1, <2>5 DEF Install, CheckHome, At, Goto, Work, Kept
  <2>. QED
    BY <1>3, <2>2, <2>3, <2>4, <2>5
<1>4. CASE Publish \/ Expire \/ UNCHANGED vars
  BY <1>1, <1>4 DEF Publish, Expire, vars, memory, Kept
<1>5. CASE Crash
  BY <1>1, <1>5 DEF Crash, Idle
<1>6. ASSUME NEW p \in Profiles, NEW j \in Jars \cup {None}, Replace(p, j)
      PROVE  FALSE
  BY <1>0, <1>1, <1>6, ReplacedFacts, TypeParts DEF Replace, Kept
<1>. QED
  BY <1>2, <1>3, <1>4, <1>5, <1>6 DEF Next, Waits, Steps1

LEMMA ModsAtStart == DeliveryInv /\ [Next]_vars => StartsWithMods
<1>. SUFFICES ASSUME DeliveryInv, [Next]_vars, NEW t \in Tasks, Plays(t)
              PROVE  mods[t[1]] = Mods
  BY DEF StartsWithMods
<1>0. TypeOK /\ work \in [Tasks -> Work] /\ InstallIsUnmarked /\ work'[t].pc = "play"
  BY RecordsParts DEF DeliveryInv, TypeOK, Plays
<1>1. CASE Support(t)
  BY <1>0, <1>1 DEF Support, InstallIsUnmarked, Work
<1>2. CASE Mark(t)
  <2>1. work[t].pc = "install" /\ work[t].todo = {}
    BY <1>2 DEF Mark, At
  <2>. QED
    BY <1>0, <2>1 DEF InstallIsUnmarked
<1>. QED
  BY <1>1, <1>2, PlayIsLast

LEMMA NewerStays == DeliveryInv /\ [Next]_vars => NewerBuildStays
<1>. SUFFICES ASSUME DeliveryInv, [Next]_vars, NEW p \in Profiles,
                     edits' = edits, Valid(backup[p]), jar[p] = None, jar'[p] # None
              PROVE  jar'[p] >= backup[p]
  BY DEF NewerBuildStays
<1>0. /\ TypeOK /\ jar \in [Profiles -> Jars \cup {None}] /\ backup \in [Profiles -> Jars \cup {None}]
      /\ work \in [Tasks -> Work] /\ edits \in 0..MaxEdits
  BY RecordsParts DEF DeliveryInv, TypeOK
<1>1. jar'[p] # jar[p]
  OBVIOUS
<1>2. ASSUME NEW t \in Tasks,
             \/ BeginHome(t) \/ Lock(t) \/ Hint(t) \/ Reqwest(t) \/ SystemTools(t)
             \/ Swap(t) \/ Commit(t) \/ Tidy(t) \/ Write(t) \/ PublishMetadata(t)
      PROVE  jar'[p] >= backup[p]
  <2>1. p = t[1]
    BY <1>1, <1>2, DownloadEffect
  <2>2. Commit(t)
    <3>1. CASE Swap(t)
      BY <1>0, <2>1, <3>1 DEF Swap
    <3>. QED
      BY <1>1, <1>2, <3>1, DownloadEffect
  <2>3. HandOf(t) /\ work[t] \in Work /\ work[t].pc = "commit"
    BY <1>0, <2>2 DEF DeliveryInv, BuildInHand, Commit, At
  <2>4. work[t].got \in Builds /\ backup[p] \in Jars
    BY <1>0, <2>3 DEF HandOf, Holding, Work, Valid
  <2>5. backup[p] <= work[t].got
    BY <2>1, <2>3 DEF HandOf, Valid
  <2>6. jar'[p] \in {work[t].got, backup[p]}
    BY <1>0, <1>1, <2>1, <2>2 DEF Commit
  <2>7. \A j \in Jars : j \in Int
    BY JarsAreNumbers
  <2>8. work[t].got \in Int /\ backup[p] \in Int
    BY <2>4, <2>7 DEF Jars
  <2>. QED
    BY <2>5, <2>6, <2>8
<1>3. ASSUME NEW t \in Tasks,
             \/ BeginLaunch(t) \/ Verify(t) \/ Await(t) \/ Check(t) \/ Probe(t)
             \/ Final(t) \/ Support(t) \/ Install(t) \/ Mark(t) \/ End(t) \/ CheckHome(t)
      PROVE  FALSE
  BY <1>1, <1>3 DEF BeginLaunch, Verify, Await, Check, Probe, Final, Support, Install, Mark, End,
                    CheckHome, files
<1>4. CASE Publish \/ Expire \/ Crash \/ UNCHANGED vars
  BY <1>1, <1>4 DEF Publish, Expire, Crash, vars, files
<1>5. ASSUME NEW q \in Profiles, NEW j \in Jars \cup {None}, Replace(q, j)
      PROVE  FALSE
  BY <1>0, <1>5 DEF Replace
<1>. QED
  BY <1>2, <1>3, <1>4, <1>5 DEF Next, Waits, Steps1

LEMMA ClientStep ==
  ASSUME RestoreFails = FALSE, Foreign \subseteq {0}
  PROVE  DeliveryInv /\ LaunchHasClient /\ [Next]_vars => LaunchHasClient' /\ StartsWithClient
<1>. SUFFICES ASSUME DeliveryInv, LaunchHasClient, [Next]_vars
              PROVE  LaunchHasClient' /\ StartsWithClient
  OBVIOUS
<1>1. StartsWithClient
  <2>. SUFFICES ASSUME NEW t \in Tasks, Plays(t)
                PROVE  Valid(jar[t[1]]) \/ (jar[t[1]] = None /\ Valid(backup[t[1]]))
    BY DEF StartsWithClient
  <2>1. work[t].pc \in {"support", "install"}
    BY PlayIsLast DEF Support, Mark, At
  <2>. QED
    BY <2>1 DEF LaunchHasClient, HasClient, MovedAside
<1>2. ASSUME UNCHANGED vars PROVE LaunchHasClient'
  BY <1>2 DEF vars, files, memory, LaunchHasClient, HasClient, MovedAside, Valid
<1>3. ASSUME Next PROVE LaunchHasClient'
  BY <1>3, DownloadKeepsClient, LaunchKeepsClient, WorldKeepsClient DEF Next, Waits, Steps1
<1>. QED
  BY <1>1, <1>2, <1>3

\* However downloads, launches and ends of the process interleave, a game starts
\* with its companion mods, and a download never puts an older build in the place
\* of a newer one (download_update_locked_impl).
THEOREM DownloadsTakeTurns == Spec => [][StartsWithMods /\ NewerBuildStays]_vars
<1>1. DeliveryInv /\ [Next]_vars => [StartsWithMods /\ NewerBuildStays]_vars
  BY ModsAtStart, NewerStays
<1>. QED
  BY <1>1, DeliveryInvariant, PTL DEF Spec

\* Where the backup can be put back, and no file that is no client has the size of a
\* build (verify_client_ready does not open a file of the recorded size), a game
\* also starts with the client.
THEOREM GamesHaveClient ==
  ASSUME RestoreFails = FALSE, Foreign \subseteq {0}
  PROVE  Spec => GameHasClient
<1>1. Init => LaunchHasClient
  BY DEF Init, Idle, LaunchHasClient
<1>2. DeliveryInv /\ LaunchHasClient /\ [Next]_vars => LaunchHasClient'
  BY ClientStep
<1>3. DeliveryInv /\ LaunchHasClient /\ [Next]_vars
        => [StartsWithClient /\ StartsWithMods /\ NewerBuildStays]_vars
  BY ClientStep, ModsAtStart, NewerStays
<1>. QED
  BY <1>1, <1>2, <1>3, DeliveryInvariant, PTL DEF Spec, GameHasClient
=============================================================================
