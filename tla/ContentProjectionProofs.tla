----------------------- MODULE ContentProjectionProofs -----------------------
(* Proofs about ContentProjection for all targets, contents and faults. *)
EXTENDS ContentProjection, TLAPS

-----------------------------------------------------------------------------
(* The inductive invariant *)

\* Between two calls there are no locals.
IdleInv ==
    pc = "idle" =>
        /\ todo = {} /\ activated = {} /\ undoFailed = FALSE
        /\ prev = None /\ want = Empty
        /\ staged = NoFiles /\ backup = NoFiles /\ markerBackup = None

\* What the loops visit, and what their lists hold.
LoopInv ==
    /\ pc \in {"stage", "activate"} => todo \subseteq Listed(want)
    /\ pc = "backup" => todo \subseteq Replaced
    /\ pc = "deactivate" => todo \subseteq activated
    /\ pc = "marker" => todo = {}
    /\ pc = "restore" => todo \subseteq Saved
    /\ activated \subseteq Listed(want)
    /\ pc \in {"stage", "backup"} => activated = {}
    /\ undoFailed => pc \in {"deactivate", "marker", "restore"}

\* A staged file is a copy of its item.
StagedInv ==
    pc \in {"stage", "backup", "activate"} =>
        \A t \in Listed(want) : staged[t] \in {Absent, want[t].hash}

\* The files a projection found are those its marker lists.
BeforeInv ==
    pc # "idle" => \A t \in Managed(prev) : before[t] = prev[t].hash

\* Where the marker is.
MarkerInv ==
    /\ pc \in {"stage", "backup"} => marker = prev /\ markerBackup = None
    /\ pc = "activate" => marker = None /\ markerBackup = prev
    /\ pc \in {"deactivate", "marker"} =>
         \/ marker = prev /\ markerBackup = None
         \/ marker = None /\ markerBackup = prev
    /\ pc = "restore" /\ ~undoFailed => marker = prev

InPlace(t) == file[t] = before[t] /\ backup[t] = Absent
MovedOut(t) == file[t] = Absent /\ backup[t] = before[t]

\* What a target has that nobody else touched.
FileInv(t) ==
    /\ pc = "stage" => InPlace(t)
    /\ pc = "backup" => IF t \in Replaced \ todo THEN MovedOut(t) ELSE InPlace(t)
    /\ pc = "activate" =>
         IF t \in activated
         THEN t \notin todo /\ backup[t] = before[t] /\ file[t] = want[t].hash
                /\ Reconciled(t) = want[t].hash
         ELSE /\ IF t \in Replaced THEN MovedOut(t) ELSE InPlace(t)
              /\ t \notin todo => file[t] = Reconciled(t)
    /\ pc \in {"deactivate", "marker"} =>
         \/ t \notin activated /\ InPlace(t)
         \/ MovedOut(t)
         \/ t \in activated /\ backup[t] = before[t] /\ (t \in todo \/ undoFailed)
    /\ pc = "restore" =>
         /\ before[t] \in {Absent, file[t], backup[t]}
         /\ ~undoFailed => IF t \in todo THEN MovedOut(t) ELSE InPlace(t)

FilesInv == \A t \in Targets \ touched : FileInv(t)

\* Without interruption the marker is that of the last commit.
CommittedInv ==
    ~interrupted =>
        /\ pc # "idle" => prev = committed
        /\ pc = "idle" =>
             /\ marker = committed
             /\ \A t \in Managed(committed) \ touched : file[t] = committed[t].hash

\* Where the content of the last commit is.
ContentInv ==
    /\ touched \subseteq altered
    /\ \A t \in Managed(committed) \ altered :
         \/ <<t, committed[t].hash>> \in kept
         \/ committed[t].hash = IF pc = "idle" THEN file[t] ELSE before[t]

Inv == /\ TypeOK /\ IdleInv /\ LoopInv /\ StagedInv /\ BeforeInv
       /\ MarkerInv /\ FilesInv /\ CommittedInv /\ ContentInv
-----------------------------------------------------------------------------
(* Facts about plans *)

\* What a plan lists is managed or a seed.
LEMMA PlanFacts ==
    ASSUME NEW m \in Plan \cup {None}
    PROVE  /\ Listed(m) \subseteq Targets
           /\ Seeds(m) \subseteq Listed(m)
           /\ Managed(m) = Listed(m) \ Seeds(m)
           /\ Listed(m) # {} => m \in Plan /\ m # None
           /\ \A t \in Listed(m) : m[t] \in Item
           /\ \A t \in Listed(m) : m[t].hash \in Hashes /\ m[t].hash # Absent
           /\ \A t \in Listed(m) : t \in Seeds(m) <=> m[t].seed = TRUE
<1>1. Listed(None) = {} /\ Seeds(None) = {}
  BY DEF Listed, Seeds, Items, Empty
<1>2. ASSUME m \in Plan PROVE m # None /\ Items(m) = m
  BY <1>2, ProjectionAssumption DEF Plan, Item, Items
<1>3. \A t \in Listed(m) : m[t] \in Item
  BY <1>1, <1>2 DEF Listed, Plan
<1>4. \A i \in Item : i.hash \in Hashes /\ i.hash # Absent /\ i.seed \in BOOLEAN
  BY ProjectionAssumption DEF Item
<1>5. Seeds(m) = {t \in Listed(m) : m[t].seed}
  BY DEF Seeds
<1>6. \A t \in Listed(m) : t \in Seeds(m) <=> m[t].seed = TRUE
  BY <1>3, <1>4, <1>5
<1>. QED
  BY <1>1, <1>2, <1>3, <1>4, <1>5, <1>6 DEF Listed, Managed

\* A running projection compares the same two plans and the same files.
LEMMA Frame ==
    ASSUME prev' = prev, want' = want, before' = before
    PROVE  /\ Replaced' = Replaced
           /\ \A t : Reconciled(t)' = Reconciled(t)
           /\ \A t : Same(t)' = Same(t)
<1>. QED
  BY DEF Replaced, Reconciled, Same

\* The same for the plans of the state.
LEMMA StatePlans ==
    ASSUME Inv
    PROVE  \A m \in {want, prev, committed} :
             /\ Managed(m) = Listed(m) \ Seeds(m)
             /\ Seeds(m) \subseteq Listed(m) /\ Listed(m) \subseteq Targets
             /\ \A t \in Listed(m) : m[t].hash # Absent
<1>. SUFFICES ASSUME NEW m \in {want, prev, committed} PROVE
             /\ Managed(m) = Listed(m) \ Seeds(m)
             /\ Seeds(m) \subseteq Listed(m) /\ Listed(m) \subseteq Targets
             /\ \A t \in Listed(m) : m[t].hash # Absent
  OBVIOUS
<1>1. m \in Plan \cup {None}
  BY DEF Inv, TypeOK
<1>. QED
  BY <1>1, PlanFacts

After(t) == IF t \in Replaced THEN Absent ELSE before[t]

\* A target that is passed over already has what it should have.
LEMMA SkippedIsReconciled ==
    ASSUME Inv, pc = "activate", NEW t \in Listed(want), Skips(t),
           IF t \in Replaced THEN MovedOut(t) ELSE InPlace(t)
    PROVE  file[t] = Reconciled(t)
<1>1. file[t] = After(t)
  BY DEF InPlace, MovedOut, After
<1>2. want \in Plan /\ prev \in Plan \cup {None}
  BY DEF Inv, TypeOK
<1>3. Managed(want) = Listed(want) \ Seeds(want) /\ Managed(prev) = Listed(prev) \ Seeds(prev)
  BY <1>2, PlanFacts
<1>4. CASE Same(t)
  <2>1. prev # None /\ prev[t] = want[t]
    BY <1>4 DEF Same
  <2>2. t \in Listed(prev) /\ (t \in Seeds(prev) <=> t \in Seeds(want))
    <3>1. prev \in Plan /\ Items(prev) = prev
      BY <1>2, <2>1 DEF Items
    <3>2. want[t] # None /\ t \in Targets
      <4>1. want # None
        BY <1>2, ProjectionAssumption DEF Plan, Item
      <4>. QED
        BY <4>1 DEF Listed, Items
    <3>3. t \in Listed(prev)
      BY <2>1, <3>1, <3>2 DEF Listed
    <3>. QED
      BY <1>2, <2>1, <3>3 DEF Seeds
  <2>3. t \notin Replaced
    BY <1>4 DEF Replaced
  <2>4. t \in Managed(prev) => before[t] = want[t].hash
    BY <2>1 DEF Inv, BeforeInv
  <2>. QED
    BY <1>1, <1>3, <2>2, <2>3, <2>4 DEF After, Reconciled
<1>5. CASE t \in Seeds(want) /\ file[t] # Absent /\ t \notin Managed(prev)
  BY <1>1, <1>3, <1>5 DEF After, Reconciled, Replaced
<1>6. CASE t \in Seeds(want) /\ t \in Seeds(prev)
  <2>1. Seeds(prev) \subseteq Listed(prev)
    BY <1>2, PlanFacts
  <2>. QED
    BY <1>1, <1>3, <1>6, <2>1 DEF After, Reconciled, Replaced
<1>7. want[t].seed => t \in Seeds(want)
  BY <1>2, PlanFacts DEF Seeds
<1>. QED
  BY <1>4, <1>5, <1>6, <1>7 DEF Skips, KeepsSeed

\* A target that gets its staged file is one that should.
LEMMA ActivatedIsReconciled ==
    ASSUME Inv, NEW t \in Listed(want), ~Skips(t), file[t] = Absent,
           IF t \in Replaced THEN MovedOut(t) ELSE InPlace(t)
    PROVE  Reconciled(t) = want[t].hash
<1>1. After(t) = Absent
  BY DEF InPlace, MovedOut, After
<1>2. want \in Plan /\ prev \in Plan \cup {None}
  BY DEF Inv, TypeOK
<1>3. Managed(want) = Listed(want) \ Seeds(want) /\ Managed(prev) = Listed(prev) \ Seeds(prev)
  BY <1>2, PlanFacts
<1>4. CASE t \in Managed(want)
  BY <1>4 DEF Reconciled
<1>5. CASE t \in Seeds(want)
  <2>1. t \notin Seeds(prev)
    BY <1>2, <1>5, PlanFacts DEF Skips, KeepsSeed
  <2>2. CASE t \in Managed(prev)
    BY <1>3, <1>5, <2>2 DEF Reconciled
  <2>3. CASE t \notin Managed(prev)
    <3>1. t \notin Listed(prev) /\ before[t] = Absent
      BY <1>1, <1>3, <2>1, <2>3 DEF After, Replaced
    <3>. QED
      BY <1>3, <1>5, <2>3, <3>1 DEF Reconciled
  <2>. QED
    BY <2>2, <2>3
<1>. QED
  BY <1>3, <1>4, <1>5

\* When the marker is placed every target has what it should have.
LEMMA CommitReconciles ==
    ASSUME Inv, pc = "activate", todo = {}
    PROVE  /\ \A t \in Targets \ touched : file[t] = Reconciled(t)
           /\ \A t \in Managed(want) \ touched : file[t] = want[t].hash
<1>1. \A t \in Targets \ touched : file[t] = Reconciled(t)
  BY DEF Inv, FilesInv, FileInv
<1>2. \A t \in Managed(want) : t \in Targets /\ Reconciled(t) = want[t].hash
  BY StatePlans DEF Reconciled
<1>. QED
  BY <1>1, <1>2

-----------------------------------------------------------------------------
(* Every step preserves the invariant *)

LEMMA BeginStep == ASSUME Inv, TypeOK', NEW w \in Plan, Begin(w) PROVE Inv'
<1>1. IdleInv'
  BY DEF Inv, Begin, disk, IdleInv
<1>2. LoopInv'
  BY DEF Inv, Begin, disk, LoopInv
<1>3. StagedInv'
  <2>1. \A t \in Listed(w) : t \in Targets
    BY PlanFacts
  <2>. QED
    BY <2>1 DEF StagedInv, Begin, NoFiles
<1>4. BeforeInv'
  BY DEF BeforeInv, Begin, Acceptable
<1>5. MarkerInv'
  BY DEF Inv, Begin, disk, MarkerInv
<1>6. FilesInv'
  <2>1. \A x \in Targets : before'[x] = file'[x] /\ backup'[x] = Absent
    BY DEF Begin, disk, NoFiles
  <2>. QED
    BY <2>1 DEF FilesInv, FileInv, InPlace, Begin
<1>7. CommittedInv'
  BY DEF Inv, Begin, disk, CommittedInv
<1>8. ContentInv'
  BY DEF Inv, Begin, disk, ContentInv
<1>. QED
  BY <1>1, <1>2, <1>3, <1>4, <1>5, <1>6, <1>7, <1>8 DEF Inv

LEMMA StageStep == ASSUME Inv, TypeOK', NEW t \in Targets, Stage(t) PROVE Inv'
<1>1. IdleInv'
  BY DEF Inv, Stage, disk, history, IdleInv
<1>2. LoopInv'
  BY DEF Inv, Stage, disk, history, LoopInv
<1>3. StagedInv'
  BY DEF Inv, Stage, disk, history, StagedInv
<1>4. BeforeInv'
  BY DEF Inv, Stage, disk, history, BeforeInv
<1>5. MarkerInv'
  BY DEF Inv, Stage, disk, history, MarkerInv
<1>6. FilesInv'
  BY DEF Inv, Stage, disk, history, FilesInv, FileInv, InPlace, MovedOut
<1>7. CommittedInv'
  BY DEF Inv, Stage, disk, history, CommittedInv
<1>8. ContentInv'
  BY DEF Inv, Stage, disk, history, ContentInv
<1>. QED
  BY <1>1, <1>2, <1>3, <1>4, <1>5, <1>6, <1>7, <1>8 DEF Inv

LEMMA StageMarkerStep == ASSUME Inv, TypeOK', StageMarker PROVE Inv'
<1>1. IdleInv'
  BY DEF Inv, StageMarker, disk, transaction, history, IdleInv
<1>2. LoopInv'
  BY DEF Inv, StageMarker, disk, transaction, history, LoopInv, Replaced, Saved, Same
<1>3. StagedInv'
  BY DEF Inv, StageMarker, disk, transaction, history, StagedInv
<1>4. BeforeInv'
  BY DEF Inv, StageMarker, disk, transaction, history, BeforeInv
<1>5. MarkerInv'
  BY DEF Inv, StageMarker, disk, transaction, history, MarkerInv
<1>6. FilesInv'
  BY DEF Inv, StageMarker, disk, transaction, history, FilesInv, FileInv, InPlace,
         MovedOut, Replaced, Saved, Same, Reconciled
<1>7. CommittedInv'
  BY DEF Inv, StageMarker, disk, transaction, history, CommittedInv
<1>8. ContentInv'
  BY DEF Inv, StageMarker, disk, transaction, history, ContentInv
<1>. QED
  BY <1>1, <1>2, <1>3, <1>4, <1>5, <1>6, <1>7, <1>8 DEF Inv

LEMMA BackUpStep == ASSUME Inv, TypeOK', NEW t \in Targets, BackUp(t) PROVE Inv'
<1>1. IdleInv'
  BY DEF Inv, BackUp, history, IdleInv
<1>2. LoopInv'
  BY DEF Inv, BackUp, history, LoopInv, Replaced, Saved, Same
<1>3. StagedInv'
  BY DEF Inv, BackUp, history, StagedInv
<1>4. BeforeInv'
  BY DEF Inv, BackUp, history, BeforeInv
<1>5. MarkerInv'
  BY DEF Inv, BackUp, history, MarkerInv
<1>6. FilesInv'
  <2>. SUFFICES ASSUME NEW x \in Targets \ touched' PROVE FileInv(x)'
    BY DEF FilesInv
  <2>1. FileInv(x)
    BY DEF Inv, FilesInv, BackUp, disk, transaction, history
  <2>2. Replaced' = Replaced /\ Reconciled(x)' = Reconciled(x)
    BY Frame DEF BackUp, disk, transaction, history
  <2>3. CASE x = t
    BY <2>1, <2>2, <2>3 DEF BackUp, FileInv, InPlace, MovedOut, Inv, TypeOK, Files,
       LoopInv, transaction, history
  <2>4. CASE x # t
    BY <2>1, <2>2, <2>4 DEF BackUp, FileInv, InPlace, MovedOut, Inv, TypeOK, Files,
       transaction, history
  <2>. QED
    BY <2>3, <2>4
<1>7. CommittedInv'
  BY DEF Inv, BackUp, history, CommittedInv
<1>8. ContentInv'
  BY DEF Inv, BackUp, history, ContentInv
<1>. QED
  BY <1>1, <1>2, <1>3, <1>4, <1>5, <1>6, <1>7, <1>8 DEF Inv

LEMMA BackUpMarkerStep == ASSUME Inv, TypeOK', BackUpMarker PROVE Inv'
<1>1. IdleInv'
  BY DEF Inv, BackUpMarker, history, IdleInv
<1>2. LoopInv'
  BY DEF Inv, BackUpMarker, history, LoopInv
<1>3. StagedInv'
  BY DEF Inv, BackUpMarker, history, StagedInv
<1>4. BeforeInv'
  BY DEF Inv, BackUpMarker, history, BeforeInv
<1>5. MarkerInv'
  BY DEF Inv, BackUpMarker, history, MarkerInv
<1>6. FilesInv'
  <2>. SUFFICES ASSUME NEW x \in Targets \ touched' PROVE FileInv(x)'
    BY DEF FilesInv
  <2>1. FileInv(x)
    BY DEF Inv, FilesInv, BackUpMarker, disk, transaction, history
  <2>2. Replaced' = Replaced /\ Reconciled(x)' = Reconciled(x)
    BY Frame DEF BackUpMarker, disk, transaction, history
  <2>3. pc = "backup" /\ todo = {} /\ pc' = "activate" /\ todo' = Listed(want)
    BY DEF BackUpMarker
  <2>4. activated' = {} /\ file' = file /\ backup' = backup /\ before' = before /\ want' = want
    BY DEF BackUpMarker, Inv, LoopInv, history
  <2>5. IF x \in Replaced THEN MovedOut(x) ELSE InPlace(x)
    BY <2>1, <2>3 DEF FileInv
  <2>6. ASSUME x \notin Listed(want) PROVE file[x] = Reconciled(x)
    <3>1. Managed(want) \subseteq Listed(want) /\ Seeds(want) \subseteq Listed(want)
      BY StatePlans
    <3>2. Reconciled(x) = IF x \in Managed(prev) THEN Absent ELSE before[x]
      BY <2>6, <3>1 DEF Reconciled
    <3>3. x \in Replaced <=> x \in Managed(prev)
      BY <2>6 DEF Replaced
    <3>. QED
      BY <2>5, <3>2, <3>3 DEF InPlace, MovedOut
  <2>. QED
    BY <2>2, <2>3, <2>4, <2>5, <2>6 DEF FileInv, InPlace, MovedOut
<1>7. CommittedInv'
  BY DEF Inv, BackUpMarker, history, CommittedInv
<1>8. ContentInv'
  BY DEF Inv, BackUpMarker, history, ContentInv
<1>. QED
  BY <1>1, <1>2, <1>3, <1>4, <1>5, <1>6, <1>7, <1>8 DEF Inv

LEMMA SkipStep == ASSUME Inv, TypeOK', NEW t \in Targets, Skip(t) PROVE Inv'
<1>1. IdleInv'
  BY DEF Inv, Skip, disk, transaction, history, IdleInv
<1>2. LoopInv'
  BY DEF Inv, Skip, disk, transaction, history, LoopInv
<1>3. StagedInv'
  BY DEF Inv, Skip, disk, transaction, history, StagedInv
<1>4. BeforeInv'
  BY DEF Inv, Skip, disk, transaction, history, BeforeInv
<1>5. MarkerInv'
  BY DEF Inv, Skip, disk, transaction, history, MarkerInv
<1>6. FilesInv'
  <2>. SUFFICES ASSUME NEW x \in Targets \ touched' PROVE FileInv(x)'
    BY DEF FilesInv
  <2>1. FileInv(x)
    BY DEF Inv, FilesInv, Skip, disk, transaction, history
  <2>2. Replaced' = Replaced /\ Reconciled(x)' = Reconciled(x)
    BY Frame DEF Skip, disk, transaction, history
  <2>3. file' = file /\ backup' = backup /\ before' = before /\ want' = want /\ activated' = activated
          /\ pc = "activate" /\ pc' = pc /\ todo' = todo \ {t}
    BY DEF Skip, disk, transaction, history
  <2>4. CASE x # t \/ x \in activated
    BY <2>1, <2>2, <2>3, <2>4 DEF FileInv, InPlace, MovedOut
  <2>5. CASE x = t /\ x \notin activated
    <3>1. IF x \in Replaced THEN MovedOut(x) ELSE InPlace(x)
      BY <2>1, <2>3, <2>5 DEF FileInv
    <3>2. file[x] = Reconciled(x)
      BY <2>5, <3>1, SkippedIsReconciled DEF Skip, Inv, LoopInv
    <3>. QED
      BY <2>2, <2>3, <2>5, <3>1, <3>2 DEF FileInv, InPlace, MovedOut
  <2>. QED
    BY <2>4, <2>5
<1>7. CommittedInv'
  BY DEF Inv, Skip, disk, transaction, history, CommittedInv
<1>8. ContentInv'
  BY DEF Inv, Skip, disk, transaction, history, ContentInv
<1>. QED
  BY <1>1, <1>2, <1>3, <1>4, <1>5, <1>6, <1>7, <1>8 DEF Inv

LEMMA ActivateStep == ASSUME Inv, TypeOK', NEW t \in Targets, Activate(t) PROVE Inv'
<1>1. IdleInv'
  BY DEF Inv, Activate, MoveToTarget, history, IdleInv
<1>2. LoopInv'
  BY DEF Inv, Activate, MoveToTarget, history, LoopInv
<1>3. StagedInv'
  BY DEF Inv, Activate, MoveToTarget, history, StagedInv
<1>4. BeforeInv'
  BY DEF Inv, Activate, MoveToTarget, history, BeforeInv
<1>5. MarkerInv'
  BY DEF Inv, Activate, MoveToTarget, history, MarkerInv
<1>6. FilesInv'
  <2>. SUFFICES ASSUME NEW x \in Targets \ touched' PROVE FileInv(x)'
    BY DEF FilesInv
  <2>1. FileInv(x)
    BY DEF Inv, FilesInv, Activate, MoveToTarget, disk, transaction, history
  <2>2. Replaced' = Replaced /\ Reconciled(x)' = Reconciled(x)
    BY Frame DEF Activate, MoveToTarget, disk, transaction, history
  <2>3. before' = before /\ want' = want /\ activated' = activated \cup {t} /\ backup' = backup
          /\ pc = "activate" /\ pc' = pc /\ todo' = todo \ {t} /\ t \in todo
    BY DEF Activate, MoveToTarget, history
  <2>4. CASE x # t
    <3>1. file'[x] = file[x]
      BY <2>4 DEF Activate, MoveToTarget, Inv, TypeOK, Files
    <3>. QED
      BY <2>1, <2>2, <2>3, <2>4, <3>1 DEF FileInv, InPlace, MovedOut
  <2>5. CASE x = t
    <3>1. t \in Listed(want) /\ t \notin activated /\ file[t] = Absent /\ ~Skips(t)
      BY <2>1, <2>3, <2>5 DEF Activate, MoveToTarget, Inv, LoopInv, FileInv
    <3>2. file'[t] = want[t].hash
      BY <3>1 DEF Activate, MoveToTarget, Inv, TypeOK, Files, StagedInv
    <3>3. IF t \in Replaced THEN MovedOut(t) ELSE InPlace(t)
      BY <2>1, <2>3, <2>5, <3>1 DEF FileInv
    <3>4. backup[t] = before[t]
      BY <3>1, <3>3 DEF InPlace, MovedOut
    <3>5. Reconciled(t) = want[t].hash
      BY <3>1, <3>3, ActivatedIsReconciled DEF Inv
    <3>. QED
      BY <2>2, <2>3, <2>5, <3>2, <3>4, <3>5 DEF FileInv
  <2>. QED
    BY <2>4, <2>5
<1>7. CommittedInv'
  BY DEF Inv, Activate, MoveToTarget, history, CommittedInv
<1>8. ContentInv'
  BY DEF Inv, Activate, MoveToTarget, history, ContentInv
<1>. QED
  BY <1>1, <1>2, <1>3, <1>4, <1>5, <1>6, <1>7, <1>8 DEF Inv

LEMMA PlaceMarkerStep == ASSUME Inv, TypeOK', PlaceMarker PROVE Inv'
<1>1. IdleInv'
  BY DEF Inv, PlaceMarker, Leave, IdleInv
<1>2. LoopInv'
  BY DEF Inv, PlaceMarker, Leave, LoopInv
<1>3. StagedInv'
  BY DEF Inv, PlaceMarker, Leave, StagedInv
<1>4. BeforeInv'
  BY DEF Inv, PlaceMarker, Leave, BeforeInv
<1>5. MarkerInv'
  BY DEF Inv, PlaceMarker, Leave, MarkerInv
<1>6. FilesInv'
  BY DEF Inv, PlaceMarker, Leave, FilesInv, FileInv, InPlace, MovedOut
<1>7. CommittedInv'
  <2>1. \A t \in Managed(want) \ touched : file[t] = want[t].hash
    BY CommitReconciles DEF PlaceMarker
  <2>. QED
    BY <2>1 DEF CommittedInv, PlaceMarker, Leave
<1>8. ContentInv'
  <2>1. \A t \in Managed(want) \ touched : file[t] = want[t].hash
    BY CommitReconciles DEF PlaceMarker
  <2>. QED
    BY <2>1 DEF ContentInv, PlaceMarker, Leave
<1>. QED
  BY <1>1, <1>2, <1>3, <1>4, <1>5, <1>6, <1>7, <1>8 DEF Inv

LEMMA StageFailsStep == ASSUME Inv, TypeOK', StageFails PROVE Inv'
<1>1. IdleInv'
  BY DEF Inv, StageFails, Leave, disk, IdleInv
<1>2. LoopInv'
  BY DEF Inv, StageFails, Leave, disk, LoopInv
<1>3. StagedInv'
  BY DEF Inv, StageFails, Leave, disk, StagedInv
<1>4. BeforeInv'
  BY DEF Inv, StageFails, Leave, disk, BeforeInv
<1>5. MarkerInv'
  BY DEF Inv, StageFails, Leave, disk, MarkerInv
<1>6. FilesInv'
  BY DEF Inv, StageFails, Leave, disk, FilesInv, FileInv, InPlace, MovedOut
<1>7. CommittedInv'
  <2>1. \A t \in Targets \ touched : file[t] = before[t]
    BY DEF Inv, StageFails, LoopInv, FilesInv, FileInv, InPlace
  <2>2. marker = prev /\ pc # "idle"
    BY DEF Inv, StageFails, MarkerInv
  <2>3. ~interrupted => \A t \in Managed(committed) \ touched : file[t] = committed[t].hash
    <3>1. Managed(prev) \subseteq Targets
      BY StatePlans
    <3>. QED
      BY <2>1, <2>2, <3>1 DEF Inv, CommittedInv, BeforeInv
  <2>. QED
    BY <2>2, <2>3 DEF Inv, CommittedInv, StageFails, Leave, disk
<1>8. ContentInv'
  <2>1. \A t \in Targets \ touched : file[t] = before[t]
    BY DEF Inv, StageFails, LoopInv, FilesInv, FileInv, InPlace
  <2>2. Managed(committed) \subseteq Targets
    BY StatePlans
  <2>. QED
    BY <2>1, <2>2 DEF Inv, ContentInv, StageFails, Leave, disk
<1>. QED
  BY <1>1, <1>2, <1>3, <1>4, <1>5, <1>6, <1>7, <1>8 DEF Inv

LEMMA MoveFailsStep == ASSUME Inv, TypeOK', MoveFails PROVE Inv'
<1>1. IdleInv'
  BY DEF Inv, MoveFails, disk, transaction, history, IdleInv
<1>2. LoopInv'
  BY DEF Inv, MoveFails, disk, transaction, history, LoopInv
<1>3. StagedInv'
  BY DEF Inv, MoveFails, disk, transaction, history, StagedInv
<1>4. BeforeInv'
  BY DEF Inv, MoveFails, disk, transaction, history, BeforeInv
<1>5. MarkerInv'
  BY DEF Inv, MoveFails, disk, transaction, history, MarkerInv
<1>6. FilesInv'
  <2>. SUFFICES ASSUME NEW x \in Targets \ touched' PROVE FileInv(x)'
    BY DEF FilesInv
  <2>1. FileInv(x)
    BY DEF Inv, FilesInv, MoveFails, disk, transaction, history
  <2>2. Replaced' = Replaced /\ Reconciled(x)' = Reconciled(x)
    BY Frame DEF MoveFails, disk, transaction, history
  <2>3. file' = file /\ backup' = backup /\ before' = before /\ activated' = activated
          /\ pc' = "deactivate" /\ todo' = activated /\ pc \in {"backup", "activate"}
    BY DEF MoveFails, disk, transaction, history
  <2>4. CASE pc = "backup"
    <3>1. activated = {}
      BY <2>4 DEF Inv, LoopInv
    <3>. QED
      BY <2>1, <2>3, <2>4, <3>1 DEF FileInv, InPlace, MovedOut
  <2>5. CASE pc = "activate"
    BY <2>1, <2>3, <2>5 DEF FileInv, InPlace, MovedOut
  <2>. QED
    BY <2>3, <2>4, <2>5
<1>7. CommittedInv'
  BY DEF Inv, MoveFails, disk, transaction, history, CommittedInv
<1>8. ContentInv'
  BY DEF Inv, MoveFails, disk, transaction, history, ContentInv
<1>. QED
  BY <1>1, <1>2, <1>3, <1>4, <1>5, <1>6, <1>7, <1>8 DEF Inv

LEMMA DeactivateStep == ASSUME Inv, TypeOK', NEW t \in Targets, Deactivate(t) PROVE Inv'
<1>1. IdleInv'
  BY DEF Inv, Deactivate, history, IdleInv
<1>2. LoopInv'
  BY DEF Inv, Deactivate, history, LoopInv
<1>3. StagedInv'
  BY DEF Inv, Deactivate, history, StagedInv
<1>4. BeforeInv'
  BY DEF Inv, Deactivate, history, BeforeInv
<1>5. MarkerInv'
  BY DEF Inv, Deactivate, history, MarkerInv
<1>6. FilesInv'
  <2>. SUFFICES ASSUME NEW x \in Targets \ touched' PROVE FileInv(x)'
    BY DEF FilesInv
  <2>1. FileInv(x)
    BY DEF Inv, FilesInv, Deactivate, disk, transaction, history
  <2>2. Replaced' = Replaced /\ Reconciled(x)' = Reconciled(x)
    BY Frame DEF Deactivate, disk, transaction, history
  <2>3. backup' = backup /\ before' = before /\ activated' = activated /\ undoFailed' = undoFailed
          /\ pc = "deactivate" /\ pc' = pc /\ todo' = todo \ {t} /\ t \in activated
    BY DEF Deactivate, history, Inv, LoopInv
  <2>4. CASE x = t
    <3>1. file'[x] = Absent
      BY <2>4 DEF Deactivate, Inv, TypeOK, Files
    <3>. QED
      BY <2>1, <2>3, <2>4, <3>1 DEF FileInv, InPlace, MovedOut
  <2>5. CASE x # t
    <3>1. file'[x] = file[x]
      BY <2>5 DEF Deactivate, Inv, TypeOK, Files
    <3>. QED
      BY <2>1, <2>3, <2>5, <3>1 DEF FileInv, InPlace, MovedOut
  <2>. QED
    BY <2>4, <2>5
<1>7. CommittedInv'
  BY DEF Inv, Deactivate, history, CommittedInv
<1>8. ContentInv'
  BY DEF Inv, Deactivate, history, ContentInv
<1>. QED
  BY <1>1, <1>2, <1>3, <1>4, <1>5, <1>6, <1>7, <1>8 DEF Inv

LEMMA DeactivatedStep == ASSUME Inv, TypeOK', Deactivated PROVE Inv'
<1>1. IdleInv'
  BY DEF Inv, Deactivated, disk, transaction, history, IdleInv
<1>2. LoopInv'
  BY DEF Inv, Deactivated, disk, transaction, history, LoopInv
<1>3. StagedInv'
  BY DEF Inv, Deactivated, disk, transaction, history, StagedInv
<1>4. BeforeInv'
  BY DEF Inv, Deactivated, disk, transaction, history, BeforeInv
<1>5. MarkerInv'
  BY DEF Inv, Deactivated, disk, transaction, history, MarkerInv
<1>6. FilesInv'
  BY DEF Inv, Deactivated, disk, transaction, history, FilesInv, FileInv, InPlace,
         MovedOut
<1>7. CommittedInv'
  BY DEF Inv, Deactivated, disk, transaction, history, CommittedInv
<1>8. ContentInv'
  BY DEF Inv, Deactivated, disk, transaction, history, ContentInv
<1>. QED
  BY <1>1, <1>2, <1>3, <1>4, <1>5, <1>6, <1>7, <1>8 DEF Inv

LEMMA RestoreMarkerStep == ASSUME Inv, TypeOK', RestoreMarker PROVE Inv'
<1>1. IdleInv'
  BY DEF Inv, RestoreMarker, history, IdleInv
<1>2. LoopInv'
  BY DEF Inv, RestoreMarker, history, LoopInv, Replaced, Saved, Same
<1>3. StagedInv'
  BY DEF Inv, RestoreMarker, history, StagedInv
<1>4. BeforeInv'
  BY DEF Inv, RestoreMarker, history, BeforeInv
<1>5. MarkerInv'
  BY DEF Inv, RestoreMarker, history, MarkerInv
<1>6. FilesInv'
  <2>. SUFFICES ASSUME NEW x \in Targets \ touched' PROVE FileInv(x)'
    BY DEF FilesInv
  <2>1. FileInv(x)
    BY DEF Inv, FilesInv, RestoreMarker, disk, transaction, history
  <2>2. Replaced' = Replaced /\ Reconciled(x)' = Reconciled(x)
    BY Frame DEF RestoreMarker, disk, transaction, history
  <2>3. file' = file /\ backup' = backup /\ before' = before /\ undoFailed' = undoFailed
          /\ pc = "marker" /\ pc' = "restore" /\ todo' = Saved /\ todo = {}
    BY DEF RestoreMarker, history, Inv, LoopInv
  <2>4. x \in Saved <=> backup[x] # Absent
    BY DEF Saved
  <2>. QED
    BY <2>1, <2>3, <2>4 DEF FileInv, InPlace, MovedOut
<1>7. CommittedInv'
  BY DEF Inv, RestoreMarker, history, CommittedInv
<1>8. ContentInv'
  BY DEF Inv, RestoreMarker, history, ContentInv
<1>. QED
  BY <1>1, <1>2, <1>3, <1>4, <1>5, <1>6, <1>7, <1>8 DEF Inv

LEMMA RestoreMarkerFailsStep == ASSUME Inv, TypeOK', RestoreMarkerFails PROVE Inv'
<1>1. IdleInv'
  BY DEF Inv, RestoreMarkerFails, disk, history, IdleInv
<1>2. LoopInv'
  BY DEF Inv, RestoreMarkerFails, disk, history, LoopInv, Replaced, Saved, Same
<1>3. StagedInv'
  BY DEF Inv, RestoreMarkerFails, disk, history, StagedInv
<1>4. BeforeInv'
  BY DEF Inv, RestoreMarkerFails, disk, history, BeforeInv
<1>5. MarkerInv'
  BY DEF Inv, RestoreMarkerFails, disk, history, MarkerInv
<1>6. FilesInv'
  BY DEF Inv, RestoreMarkerFails, disk, history, FilesInv, FileInv, InPlace, MovedOut
<1>7. CommittedInv'
  BY DEF Inv, RestoreMarkerFails, disk, history, CommittedInv
<1>8. ContentInv'
  BY DEF Inv, RestoreMarkerFails, disk, history, ContentInv
<1>. QED
  BY <1>1, <1>2, <1>3, <1>4, <1>5, <1>6, <1>7, <1>8 DEF Inv

LEMMA RestoreStep == ASSUME Inv, TypeOK', NEW t \in Targets, Restore(t) PROVE Inv'
<1>1. IdleInv'
  BY DEF Inv, Restore, history, IdleInv
<1>2. LoopInv'
  BY DEF Inv, Restore, history, LoopInv, Replaced, Saved, Same
<1>3. StagedInv'
  BY DEF Inv, Restore, history, StagedInv
<1>4. BeforeInv'
  BY DEF Inv, Restore, history, BeforeInv
<1>5. MarkerInv'
  BY DEF Inv, Restore, history, MarkerInv
<1>6. FilesInv'
  <2>. SUFFICES ASSUME NEW x \in Targets \ touched' PROVE FileInv(x)'
    BY DEF FilesInv
  <2>1. FileInv(x)
    BY DEF Inv, FilesInv, Restore, disk, transaction, history
  <2>2. Replaced' = Replaced /\ Reconciled(x)' = Reconciled(x)
    BY Frame DEF Restore, disk, transaction, history
  <2>3. before' = before /\ undoFailed' = undoFailed /\ pc = "restore" /\ pc' = pc
          /\ todo' = todo \ {t} /\ file[t] = Absent /\ backup[t] # Absent
    BY DEF Restore, history, Inv, LoopInv, Saved
  <2>4. CASE x = t
    <3>1. file'[x] = backup[x] /\ backup'[x] = Absent
      BY <2>4 DEF Restore, Inv, TypeOK, Files
    <3>. QED
      BY <2>1, <2>3, <2>4, <3>1 DEF FileInv, InPlace, MovedOut
  <2>5. CASE x # t
    <3>1. file'[x] = file[x] /\ backup'[x] = backup[x]
      BY <2>5 DEF Restore, Inv, TypeOK, Files
    <3>. QED
      BY <2>1, <2>3, <2>5, <3>1 DEF FileInv, InPlace, MovedOut
  <2>. QED
    BY <2>4, <2>5
<1>7. CommittedInv'
  BY DEF Inv, Restore, history, CommittedInv
<1>8. ContentInv'
  BY DEF Inv, Restore, history, ContentInv
<1>. QED
  BY <1>1, <1>2, <1>3, <1>4, <1>5, <1>6, <1>7, <1>8 DEF Inv

LEMMA UndoMoveFailsStep == ASSUME Inv, TypeOK', NEW t \in Targets, UndoMoveFails(t) PROVE Inv'
<1>1. IdleInv'
  BY DEF Inv, UndoMoveFails, disk, history, IdleInv
<1>2. LoopInv'
  BY DEF Inv, UndoMoveFails, disk, history, LoopInv, Replaced, Saved, Same
<1>3. StagedInv'
  BY DEF Inv, UndoMoveFails, disk, history, StagedInv
<1>4. BeforeInv'
  BY DEF Inv, UndoMoveFails, disk, history, BeforeInv
<1>5. MarkerInv'
  BY DEF Inv, UndoMoveFails, disk, history, MarkerInv
<1>6. FilesInv'
  BY DEF Inv, UndoMoveFails, disk, history, FilesInv, FileInv, InPlace, MovedOut
<1>7. CommittedInv'
  BY DEF Inv, UndoMoveFails, disk, history, CommittedInv
<1>8. ContentInv'
  BY DEF Inv, UndoMoveFails, disk, history, ContentInv
<1>. QED
  BY <1>1, <1>2, <1>3, <1>4, <1>5, <1>6, <1>7, <1>8 DEF Inv

LEMMA UndoneCompletelyStep == ASSUME Inv, TypeOK', UndoneCompletely PROVE Inv'
<1>1. IdleInv'
  BY DEF Inv, UndoneCompletely, Leave, disk, IdleInv
<1>2. LoopInv'
  BY DEF Inv, UndoneCompletely, Leave, disk, LoopInv
<1>3. StagedInv'
  BY DEF Inv, UndoneCompletely, Leave, disk, StagedInv
<1>4. BeforeInv'
  BY DEF Inv, UndoneCompletely, Leave, disk, BeforeInv
<1>5. MarkerInv'
  BY DEF Inv, UndoneCompletely, Leave, disk, MarkerInv
<1>6. FilesInv'
  BY DEF Inv, UndoneCompletely, Leave, disk, FilesInv, FileInv, InPlace, MovedOut
<1>7. CommittedInv'
  <2>1. \A t \in Targets \ touched : file[t] = before[t]
    BY DEF Inv, UndoneCompletely, LoopInv, FilesInv, FileInv, InPlace
  <2>2. marker = prev /\ pc # "idle"
    BY DEF Inv, UndoneCompletely, MarkerInv
  <2>3. ~interrupted => \A t \in Managed(committed) \ touched : file[t] = committed[t].hash
    <3>1. Managed(prev) \subseteq Targets
      BY StatePlans
    <3>. QED
      BY <2>1, <2>2, <3>1 DEF Inv, CommittedInv, BeforeInv
  <2>. QED
    BY <2>2, <2>3 DEF Inv, CommittedInv, UndoneCompletely, Leave, disk
<1>8. ContentInv'
  <2>1. \A t \in Targets \ touched : file[t] = before[t]
    BY DEF Inv, UndoneCompletely, LoopInv, FilesInv, FileInv, InPlace
  <2>2. Managed(committed) \subseteq Targets
    BY StatePlans
  <2>. QED
    BY <2>1, <2>2 DEF Inv, ContentInv, UndoneCompletely, Leave, disk
<1>. QED
  BY <1>1, <1>2, <1>3, <1>4, <1>5, <1>6, <1>7, <1>8 DEF Inv

LEMMA UndoneInPartStep == ASSUME Inv, TypeOK', UndoneInPart PROVE Inv'
<1>1. IdleInv'
  BY DEF Inv, UndoneInPart, LeaveBehind, Leave, IdleInv
<1>2. LoopInv'
  BY DEF Inv, UndoneInPart, LeaveBehind, Leave, LoopInv
<1>3. StagedInv'
  BY DEF Inv, UndoneInPart, LeaveBehind, Leave, StagedInv
<1>4. BeforeInv'
  BY DEF Inv, UndoneInPart, LeaveBehind, Leave, BeforeInv
<1>5. MarkerInv'
  BY DEF Inv, UndoneInPart, LeaveBehind, Leave, MarkerInv
<1>6. FilesInv'
  BY DEF Inv, UndoneInPart, LeaveBehind, Leave, FilesInv, FileInv, InPlace, MovedOut
<1>7. CommittedInv'
  BY DEF Inv, UndoneInPart, LeaveBehind, Leave, CommittedInv
<1>8. ContentInv'
  <2>. SUFFICES ASSUME NEW t \in Managed(committed) \ altered, <<t, committed[t].hash>> \notin kept'
                PROVE  committed[t].hash = file[t]
    BY DEF Inv, ContentInv, UndoneInPart, LeaveBehind, Leave
  <2>1. t \in Targets \ touched /\ committed[t].hash # Absent
    BY StatePlans DEF Inv, ContentInv
  <2>2. pc # "idle" /\ kept' = kept \cup {<<s, backup[s]>> : s \in Saved}
    BY DEF UndoneInPart, LeaveBehind
  <2>3. before[t] = committed[t].hash
    BY <2>2 DEF Inv, ContentInv
  <2>4. backup[t] # before[t]
    BY <2>1, <2>2, <2>3 DEF Saved
  <2>5. pc \in {"backup", "activate", "deactivate", "marker", "restore"}
    BY <2>2 DEF Inv, TypeOK, UndoneInPart
  <2>. QED
    BY <2>1, <2>3, <2>4, <2>5 DEF Inv, FilesInv, FileInv, InPlace, MovedOut
<1>. QED
  BY <1>1, <1>2, <1>3, <1>4, <1>5, <1>6, <1>7, <1>8 DEF Inv

LEMMA CrashStep == ASSUME Inv, TypeOK', Crash PROVE Inv'
<1>1. IdleInv'
  BY DEF Inv, Crash, LeaveBehind, Leave, IdleInv
<1>2. LoopInv'
  BY DEF Inv, Crash, LeaveBehind, Leave, LoopInv
<1>3. StagedInv'
  BY DEF Inv, Crash, LeaveBehind, Leave, StagedInv
<1>4. BeforeInv'
  BY DEF Inv, Crash, LeaveBehind, Leave, BeforeInv
<1>5. MarkerInv'
  BY DEF Inv, Crash, LeaveBehind, Leave, MarkerInv
<1>6. FilesInv'
  BY DEF Inv, Crash, LeaveBehind, Leave, FilesInv, FileInv, InPlace, MovedOut
<1>7. CommittedInv'
  BY DEF Inv, Crash, LeaveBehind, Leave, CommittedInv
<1>8. ContentInv'
  <2>. SUFFICES ASSUME NEW t \in Managed(committed) \ altered, <<t, committed[t].hash>> \notin kept'
                PROVE  committed[t].hash = file[t]
    BY DEF Inv, ContentInv, Crash, LeaveBehind, Leave
  <2>1. t \in Targets \ touched /\ committed[t].hash # Absent
    BY StatePlans DEF Inv, ContentInv
  <2>2. pc # "idle" /\ kept' = kept \cup {<<s, backup[s]>> : s \in Saved}
    BY DEF Crash, LeaveBehind
  <2>3. before[t] = committed[t].hash
    BY <2>2 DEF Inv, ContentInv
  <2>4. backup[t] # before[t]
    BY <2>1, <2>2, <2>3 DEF Saved
  <2>5. pc \in {"backup", "activate", "deactivate", "marker", "restore"}
    BY <2>2 DEF Inv, TypeOK, Crash
  <2>. QED
    BY <2>1, <2>3, <2>4, <2>5 DEF Inv, FilesInv, FileInv, InPlace, MovedOut
<1>. QED
  BY <1>1, <1>2, <1>3, <1>4, <1>5, <1>6, <1>7, <1>8 DEF Inv

LEMMA UserChangesStep == ASSUME Inv, TypeOK', NEW t \in Targets, UserChanges(t) PROVE Inv'
<1>1. IdleInv'
  BY DEF Inv, UserChanges, transaction, IdleInv
<1>2. LoopInv'
  BY DEF Inv, UserChanges, transaction, LoopInv, Replaced, Saved, Same
<1>3. StagedInv'
  BY DEF Inv, UserChanges, transaction, StagedInv
<1>4. BeforeInv'
  BY DEF Inv, UserChanges, transaction, BeforeInv
<1>5. MarkerInv'
  BY DEF Inv, UserChanges, transaction, MarkerInv
<1>6. FilesInv'
  BY DEF Inv, UserChanges, transaction, FilesInv, FileInv, InPlace, MovedOut, Replaced,
         Saved, Same, Reconciled
<1>7. CommittedInv'
  BY DEF Inv, UserChanges, transaction, CommittedInv
<1>8. ContentInv'
  BY DEF Inv, UserChanges, transaction, ContentInv
<1>. QED
  BY <1>1, <1>2, <1>3, <1>4, <1>5, <1>6, <1>7, <1>8 DEF Inv
-----------------------------------------------------------------------------
(* The theorems *)

LEMMA InvInit == Init => Inv
<1>. SUFFICES ASSUME Init PROVE Inv
  OBVIOUS
<1>1. Empty \in Plan /\ NoFiles \in Files /\ file \in Files
  BY DEF Init, Empty, Plan, NoFiles, Files
<1>2. TypeOK
  <2>1. faults \in 0..MaxFaults
    BY ProjectionAssumption DEF Init
  <2>2. undoFailed \in BOOLEAN /\ interrupted \in BOOLEAN
    BY DEF Init
  <2>. QED
    BY <1>1, <2>1, <2>2, Zenon DEF Init, TypeOK
<1>3. Managed(None) = {}
  BY DEF Managed, Listed, Items, Empty
<1>4. IdleInv /\ LoopInv /\ StagedInv /\ BeforeInv /\ MarkerInv
  BY DEF Init, IdleInv, LoopInv, StagedInv, BeforeInv, MarkerInv
<1>5. FilesInv /\ CommittedInv /\ ContentInv
  BY <1>3 DEF Init, FilesInv, FileInv, CommittedInv, ContentInv
<1>. QED
  BY <1>2, <1>4, <1>5 DEF Inv

\* The types need the rest of the invariant: only a listed target has a hash.
LEMMA TypeStep == Inv /\ Next => TypeOK'
<1>. SUFFICES ASSUME Inv, Next PROVE TypeOK'
  OBVIOUS
<1>. USE DEF Inv
<1>a. Empty \in Plan /\ NoFiles \in Files
  BY DEF Empty, Plan, NoFiles, Files
<1>b. \A t \in Targets : \A c \in Hashes \cup {Theirs, Absent} : \A f \in Files : [f EXCEPT ![t] = c] \in Files
  BY DEF Files
<1>c. \A t \in Targets : \A f \in Files : f[t] \in Hashes \cup {Theirs, Absent}
  BY DEF Files
<1>d. MaxFaults \in Nat
  BY ProjectionAssumption
<1>1. ASSUME NEW w \in Plan, Begin(w) PROVE TypeOK'
  <2>1. Listed(w) \subseteq Targets
    BY DEF Listed
  <2>. QED
    BY <1>a, <1>1, <2>1 DEF TypeOK, Begin, disk
<1>2. ASSUME NEW t \in Targets, Stage(t) PROVE TypeOK'
  <2>1. want[t].hash \in Hashes
    BY <1>2, PlanFacts DEF Stage, LoopInv, TypeOK
  <2>2. staged' \in Files
    BY <1>b, <1>2, <2>1 DEF Stage, TypeOK
  <2>. QED
    BY <1>2, <2>2 DEF TypeOK, Stage, disk, history
<1>3. ASSUME StageMarker PROVE TypeOK'
  <2>1. Replaced \subseteq Targets
    BY StatePlans DEF Replaced
  <2>. QED
    BY <1>3, <2>1 DEF TypeOK, StageMarker, disk, transaction, history
<1>4. ASSUME NEW t \in Targets, BackUp(t) PROVE TypeOK'
  BY <1>a, <1>b, <1>c, <1>d, <1>4 DEF TypeOK, BackUp, disk, transaction, history
<1>5. ASSUME BackUpMarker PROVE TypeOK'
  <2>1. Listed(want) \subseteq Targets
    BY StatePlans
  <2>. QED
    BY <1>5, <2>1 DEF TypeOK, BackUpMarker, history
<1>6. ASSUME NEW t \in Targets, Skip(t) PROVE TypeOK'
  BY <1>a, <1>b, <1>c, <1>d, <1>6 DEF TypeOK, Skip, disk, transaction, history
<1>7. ASSUME NEW t \in Targets, Activate(t) PROVE TypeOK'
  BY <1>a, <1>b, <1>c, <1>d, <1>7 DEF TypeOK, Activate, MoveToTarget, disk, transaction, history
<1>8. ASSUME PlaceMarker PROVE TypeOK'
  BY <1>a, <1>b, <1>c, <1>d, <1>8 DEF TypeOK, PlaceMarker, Leave, disk, transaction, history
<1>9. ASSUME StageFails PROVE TypeOK'
  <2>1. faults' \in 0..MaxFaults
    BY <1>d, <1>9 DEF StageFails, TypeOK
  <2>2. undoFailed' \in BOOLEAN /\ pc' = "idle" /\ outcome' = "failed"
    BY <1>9 DEF StageFails, Leave
  <2>. QED
    BY <1>a, <1>9, <2>1, <2>2 DEF TypeOK, StageFails, Leave, disk
<1>10. ASSUME MoveFails PROVE TypeOK'
  BY <1>a, <1>b, <1>c, <1>d, <1>10 DEF TypeOK, MoveFails, disk, transaction, history
<1>11. ASSUME NEW t \in Targets, Deactivate(t) PROVE TypeOK'
  BY <1>a, <1>b, <1>c, <1>d, <1>11 DEF TypeOK, Deactivate, disk, transaction, history
<1>12. ASSUME Deactivated PROVE TypeOK'
  BY <1>a, <1>b, <1>c, <1>d, <1>12 DEF TypeOK, Deactivated, disk, transaction, history
<1>13. ASSUME RestoreMarker PROVE TypeOK'
  <2>1. Saved \subseteq Targets
    BY DEF Saved
  <2>. QED
    BY <1>d, <1>13, <2>1 DEF TypeOK, RestoreMarker, disk, history
<1>14. ASSUME RestoreMarkerFails PROVE TypeOK'
  <2>1. Saved \subseteq Targets
    BY DEF Saved
  <2>. QED
    BY <1>d, <1>14, <2>1 DEF TypeOK, RestoreMarkerFails, disk, history
<1>15. ASSUME NEW t \in Targets, Restore(t) PROVE TypeOK'
  BY <1>a, <1>b, <1>c, <1>d, <1>15 DEF TypeOK, Restore, disk, transaction, history
<1>16. ASSUME NEW t \in Targets, UndoMoveFails(t) PROVE TypeOK'
  BY <1>a, <1>b, <1>c, <1>d, <1>16 DEF TypeOK, UndoMoveFails, disk, transaction, history
<1>17. ASSUME UndoneCompletely PROVE TypeOK'
  BY <1>a, <1>b, <1>c, <1>d, <1>17 DEF TypeOK, UndoneCompletely, Leave, disk, transaction, history
<1>18. ASSUME UndoneInPart PROVE TypeOK'
  <2>1. faults' \in 0..MaxFaults
    BY <1>d, <1>18 DEF UndoneInPart, TypeOK
  <2>2. undoFailed' \in BOOLEAN /\ interrupted' \in BOOLEAN
    BY <1>18 DEF UndoneInPart, LeaveBehind, Leave
  <2>3. kept' \subseteq Targets \X (Hashes \cup {Theirs})
    BY <1>c, <1>18 DEF UndoneInPart, LeaveBehind, Saved, TypeOK
  <2>. QED
    BY <1>a, <1>18, <2>3, <2>1, <2>2 DEF TypeOK, UndoneInPart, LeaveBehind, Leave
<1>19. ASSUME Crash PROVE TypeOK'
  <2>1. faults' \in 0..MaxFaults
    BY <1>d, <1>19 DEF Crash, TypeOK
  <2>2. undoFailed' \in BOOLEAN /\ interrupted' \in BOOLEAN
    BY <1>19 DEF Crash, LeaveBehind, Leave
  <2>3. kept' \subseteq Targets \X (Hashes \cup {Theirs})
    BY <1>c, <1>19 DEF Crash, LeaveBehind, Saved, TypeOK
  <2>. QED
    BY <1>a, <1>19, <2>3, <2>1, <2>2 DEF TypeOK, Crash, LeaveBehind, Leave
<1>20. ASSUME NEW t \in Targets, UserChanges(t) PROVE TypeOK'
  <2>1. PICK c \in {Theirs, Absent} \ {file[t]} : file' = [file EXCEPT ![t] = c]
    BY <1>20 DEF UserChanges
  <2>2. file' \in Files
    BY <1>b, <2>1 DEF TypeOK
  <2>. QED
    BY <1>20, <2>2 DEF TypeOK, UserChanges, transaction
<1>. QED
  BY <1>1, <1>2, <1>3, <1>4, <1>5, <1>6, <1>7, <1>8, <1>9, <1>10, <1>11, <1>12, <1>13,
     <1>14, <1>15, <1>16, <1>17, <1>18, <1>19, <1>20 DEF Next, Launcher, Project, Undo

LEMMA InvStep == Inv /\ [Next]_vars => Inv'
<1>. SUFFICES ASSUME Inv, [Next]_vars PROVE Inv'
  OBVIOUS
<1>1. CASE UNCHANGED vars
  <2>. USE <1>1 DEF vars
  <2>1. TypeOK' /\ IdleInv' /\ LoopInv' /\ StagedInv'
    BY DEF Inv, TypeOK, IdleInv, LoopInv, StagedInv, Replaced, Same, Saved
  <2>2. BeforeInv' /\ MarkerInv' /\ CommittedInv' /\ ContentInv'
    BY DEF Inv, BeforeInv, MarkerInv, CommittedInv, ContentInv
  <2>3. FilesInv'
    BY Frame DEF Inv, FilesInv, FileInv, InPlace, MovedOut
  <2>. QED
    BY <2>1, <2>2, <2>3 DEF Inv
<1>2. CASE Next
  <2>. TypeOK'
    BY <1>2, TypeStep
  <2>1. ASSUME NEW w \in Plan, Begin(w) PROVE Inv'
    BY <2>1, BeginStep
  <2>2. ASSUME NEW t \in Targets, Stage(t) PROVE Inv'
    BY <2>2, StageStep
  <2>3. ASSUME StageMarker PROVE Inv'
    BY <2>3, StageMarkerStep
  <2>4. ASSUME NEW t \in Targets, BackUp(t) PROVE Inv'
    BY <2>4, BackUpStep
  <2>5. ASSUME BackUpMarker PROVE Inv'
    BY <2>5, BackUpMarkerStep
  <2>6. ASSUME NEW t \in Targets, Skip(t) PROVE Inv'
    BY <2>6, SkipStep
  <2>7. ASSUME NEW t \in Targets, Activate(t) PROVE Inv'
    BY <2>7, ActivateStep
  <2>8. ASSUME PlaceMarker PROVE Inv'
    BY <2>8, PlaceMarkerStep
  <2>9. ASSUME StageFails PROVE Inv'
    BY <2>9, StageFailsStep
  <2>10. ASSUME MoveFails PROVE Inv'
    BY <2>10, MoveFailsStep
  <2>11. ASSUME NEW t \in Targets, Deactivate(t) PROVE Inv'
    BY <2>11, DeactivateStep
  <2>12. ASSUME Deactivated PROVE Inv'
    BY <2>12, DeactivatedStep
  <2>13. ASSUME RestoreMarker PROVE Inv'
    BY <2>13, RestoreMarkerStep
  <2>14. ASSUME RestoreMarkerFails PROVE Inv'
    BY <2>14, RestoreMarkerFailsStep
  <2>15. ASSUME NEW t \in Targets, Restore(t) PROVE Inv'
    BY <2>15, RestoreStep
  <2>16. ASSUME NEW t \in Targets, UndoMoveFails(t) PROVE Inv'
    BY <2>16, UndoMoveFailsStep
  <2>17. ASSUME UndoneCompletely PROVE Inv'
    BY <2>17, UndoneCompletelyStep
  <2>18. ASSUME UndoneInPart PROVE Inv'
    BY <2>18, UndoneInPartStep
  <2>19. ASSUME Crash PROVE Inv'
    BY <2>19, CrashStep
  <2>20. ASSUME NEW t \in Targets, UserChanges(t) PROVE Inv'
    BY <2>20, UserChangesStep
  <2>. QED
    BY <1>2, <2>1, <2>2, <2>3, <2>4, <2>5, <2>6, <2>7, <2>8, <2>9, <2>10, <2>11, <2>12,
       <2>13, <2>14, <2>15, <2>16, <2>17, <2>18, <2>19, <2>20 DEF Next, Launcher, Project,
       Undo
<1>. QED
  BY <1>1, <1>2

THEOREM InvHolds == Spec => []Inv
<1>. QED
  BY InvInit, InvStep, PTL DEF Spec

\* Every variable has its type, for any number of targets, contents and faults.
THEOREM TypeCorrect == Spec => []TypeOK
<1>1. Inv => TypeOK
  BY DEF Inv
<1>. QED
  BY <1>1, InvHolds, PTL

\* What the last commit put in place is not destroyed by a projection that did
\* not commit, however it ended.
THEOREM NothingLost == Spec => []NothingIsDestroyed
<1>1. Inv => NothingIsDestroyed
  <2>. SUFFICES ASSUME Inv, NEW t \in Managed(committed), t \notin altered,
                       <<t, committed[t].hash>> \notin kept
                PROVE  committed[t].hash \in {file[t], backup[t]}
    BY DEF NothingIsDestroyed
  <2>1. t \in Targets \ touched /\ committed[t].hash # Absent
    BY StatePlans DEF Inv, ContentInv
  <2>2. CASE pc = "idle"
    BY <2>2 DEF Inv, ContentInv
  <2>3. CASE pc # "idle"
    <3>1. before[t] = committed[t].hash
      BY <2>3 DEF Inv, ContentInv
    <3>2. pc \in {"stage", "backup", "activate", "deactivate", "marker", "restore"}
      BY <2>3 DEF Inv, TypeOK
    <3>. QED
      BY <2>1, <3>1, <3>2 DEF Inv, FilesInv, FileInv, InPlace, MovedOut
  <2>. QED
    BY <2>2, <2>3
<1>. QED
  BY <1>1, InvHolds, PTL

\* Without a crash and a failed rollback the next launch accepts what the last
\* one left.
THEOREM Repeatable == Spec => []UninterruptedIsRepeatable
<1>1. Inv => UninterruptedIsRepeatable
  BY DEF Inv, CommittedInv, UninterruptedIsRepeatable, ProjectionIsRepeatable, Acceptable
<1>. QED
  BY <1>1, InvHolds, PTL

\* A projection that returns leaves the new state or the old one.
THEOREM AtomicOutcome == Spec => FullyOldOrFullyNew
<1>. DEFINE Returns ==
       pc # "idle" /\ pc' = "idle" =>
         /\ outcome' = "done" =>
              /\ marker' = want
              /\ \A t \in Targets \ touched : file'[t] = Reconciled(t)
         /\ outcome' = "failed" =>
              /\ marker' = prev
              /\ \A t \in Targets \ touched : file'[t] = before[t]
<1>1. Inv /\ [Next]_vars => [Returns]_vars
  <2>. SUFFICES ASSUME Inv, Next, pc # "idle", pc' = "idle" PROVE Returns
    OBVIOUS
  <2>1. CASE PlaceMarker
    BY <2>1, CommitReconciles DEF PlaceMarker, Leave
  <2>2. CASE StageFails
    BY <2>2 DEF Inv, StageFails, Leave, disk, LoopInv, MarkerInv, FilesInv, FileInv, InPlace
  <2>3. CASE UndoneCompletely
    BY <2>3 DEF Inv, UndoneCompletely, Leave, disk, LoopInv, MarkerInv, FilesInv, FileInv, InPlace
  <2>4. CASE UndoneInPart \/ Crash
    BY <2>4 DEF UndoneInPart, Crash, LeaveBehind, Leave
  <2>5. PlaceMarker \/ StageFails \/ UndoneCompletely \/ UndoneInPart \/ Crash
    BY DEF Next, Launcher, Project, Undo, Begin, Stage, StageMarker, BackUp, BackUpMarker,
           Skip, Activate, MoveToTarget, MoveFails, Deactivate, Deactivated, RestoreMarker,
           RestoreMarkerFails, Restore, UndoMoveFails, UserChanges
  <2>. QED
    BY <2>1, <2>2, <2>3, <2>4, <2>5
<1>. QED
  BY <1>1, InvHolds, PTL DEF Spec, FullyOldOrFullyNew

\* The launcher leaves files alone that its marker does not manage.
THEOREM ForeignFilesStay == Spec => OnlyManagedFilesChange
<1>. DEFINE Keeps == Launcher => \A t \in Targets :
         file[t] # Absent /\ file'[t] # file[t] => t \in Managed(prev) \cup activated
<1>1. Inv /\ [Next]_vars => [Keeps]_vars
  <2>. SUFFICES ASSUME Inv, Launcher, NEW x \in Targets, file[x] # Absent, file'[x] # file[x]
                PROVE  x \in Managed(prev) \cup activated
    OBVIOUS
  <2>1. ASSUME NEW t \in Targets, BackUp(t) PROVE x \in Managed(prev)
    <3>1. t \in Managed(prev)
      BY <2>1 DEF Inv, BackUp, LoopInv, Replaced
    <3>2. x = t
      BY <2>1 DEF Inv, TypeOK, Files, BackUp
    <3>. QED
      BY <3>1, <3>2
  <2>2. ASSUME NEW t \in Targets, Activate(t) PROVE FALSE
    BY <2>2 DEF Inv, TypeOK, Files, Activate, MoveToTarget
  <2>3. ASSUME NEW t \in Targets, Deactivate(t) PROVE x \in activated
    BY <2>3 DEF Inv, TypeOK, Files, Deactivate, LoopInv
  <2>4. ASSUME NEW t \in Targets, Restore(t) PROVE FALSE
    BY <2>4 DEF Inv, TypeOK, Files, Restore
  <2>5. \E t \in Targets : BackUp(t) \/ Activate(t) \/ Deactivate(t) \/ Restore(t)
    BY DEF Launcher, Project, Undo, Begin, Stage, StageMarker, BackUpMarker, Skip, PlaceMarker,
           StageFails, MoveFails, Deactivated, RestoreMarker, RestoreMarkerFails, UndoMoveFails,
           UndoneCompletely, UndoneInPart, Crash, LeaveBehind, disk
  <2>. QED
    BY <2>1, <2>2, <2>3, <2>4, <2>5
<1>. QED
  BY <1>1, InvHolds, PTL DEF Spec, OnlyManagedFilesChange

\* All together: what a launch has committed stays, and can be projected again.
THEOREM CommittedStays == Spec => []CommittedIsKept
<1>1. TypeOK /\ NothingIsDestroyed /\ UninterruptedIsRepeatable => CommittedIsKept
  BY DEF CommittedIsKept
<1>. QED
  BY <1>1, TypeCorrect, NothingLost, Repeatable, PTL
=============================================================================
