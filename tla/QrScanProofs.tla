---------------------------- MODULE QrScanProofs ----------------------------
(***************************************************************************)
(* Proofs about CameraSession, about QrScan, which refines it, and about   *)
(* the scanner's memory that ScanActivity and Java's finalizer thread      *)
(* share (SymbolSets): for any number of openings of the camera, of frames *)
(* and of symbol sets.                                                     *)
(***************************************************************************)
EXTENDS QrScan, FiniteSetTheorems, TLAPS

(* The types the argument needs. *)
Typed ==
  /\ sessions \in 0..MaxSessions
  /\ camera \in [Sessions -> {"none", "open", "released"}]
  /\ preview \in [Sessions -> {"off", "on", "broken"}]
  /\ mCamera \in {None} \cup 1..sessions

(* No camera is open but the one the activity holds, and it holds one only *)
(* while it is started or resumed: every other callback comes after an     *)
(* onPause, or before the first onStart.                                   *)
OnlyItsOwn ==
  /\ \A s \in Sessions : camera[s] = "open" => s = mCamera
  /\ lifecycle \notin {"onStart", "onResume"} => mCamera = None

(* Once a code has been handed over the activity finishes, and previewing  *)
(* stays FALSE: only do_scan_guts sets it, and no finishing activity is    *)
(* started.                                                                *)
LastResult == results = 0 \/ (results = 1 /\ finishing /\ ~previewing)

(* While previewing is TRUE nobody has stopped the preview on purpose.     *)
PreviewRuns ==
  /\ previewing /\ mCamera # None => preview[mCamera] # "off"
  /\ FocusOnlyOnPreview

SessionInv == Typed /\ OnlyItsOwn /\ LastResult /\ PreviewRuns

-----------------------------------------------------------------------------
(* No camera has been opened at first. *)
LEMMA SessionInitially == SessionInit => SessionInv
BY SessionAssumption
   DEF SessionInit, SessionInv, Typed, OnlyItsOwn, LastResult, PreviewRuns,
       FocusOnlyOnPreview, Sessions, None

(* What the invariant speaks of. *)
Matter == <<lifecycle, finishing, sessions, camera, mCamera, preview, previewing, results, died>>

(* A step that changes none of it keeps the invariant. *)
LEMMA SessionStutters == ASSUME SessionInv, UNCHANGED Matter PROVE SessionInv'
<1>1. Typed'
  BY DEF SessionInv, Typed, Matter
<1>2. OnlyItsOwn'
  BY DEF SessionInv, OnlyItsOwn, Matter
<1>3. LastResult'
  BY Zenon DEF SessionInv, LastResult, Matter
<1>4. PreviewRuns'
  BY Zenon DEF SessionInv, PreviewRuns, FocusOnlyOnPreview, Matter
<1> QED BY <1>1, <1>2, <1>3, <1>4 DEF SessionInv

(* A step that moves only the activity, and not back into a pause or stop  *)
(* with a camera.                                                          *)
LEMMA OnlyMoves ==
  ASSUME SessionInv, UNCHANGED <<sessions, camera, mCamera, preview, previewing, results>>,
         finishing => finishing', died' # "focus without preview",
         lifecycle' \notin {"onStart", "onResume"} => mCamera = None
  PROVE  SessionInv'
BY DEF SessionInv, Typed, OnlyItsOwn, LastResult, PreviewRuns, FocusOnlyOnPreview, None

(* do_scan_guts is called while no camera is held, by an activity that     *)
(* does not finish.                                                        *)
LEMMA GutsStep ==
  ASSUME SessionInv, DoScanGuts, ~finishing, mCamera = None, lifecycle' = "onStart"
  PROVE  SessionInv'
<1> USE SessionAssumption DEF SessionInv
<1>1. sessions < MaxSessions /\ sessions' = sessions + 1
  BY Zenon DEF DoScanGuts
<1>2. sessions + 1 \in Sessions /\ sessions' \in 0..MaxSessions
  BY <1>1 DEF Typed, Sessions
<1>3. results = 0
  BY DEF LastResult
<1>4. CASE /\ mCamera' = None
           /\ Dies("null camera")
  <2>1. /\ UNCHANGED <<camera, preview, previewing, results>>
        /\ died' = "null camera" /\ mCamera' = None
    BY <1>4, Zenon DEF Dies, cameraVars
  <2> QED BY <1>2, <1>3, <2>1
          DEF Typed, OnlyItsOwn, LastResult, PreviewRuns, FocusOnlyOnPreview, None
<1>5. CASE /\ mCamera' = sessions + 1
           /\ camera' = [camera EXCEPT ![sessions + 1] = "open"]
           /\ preview' = [preview EXCEPT ![sessions + 1] = "on"]
           /\ UNCHANGED <<results, died>>
  <2>1. /\ camera'[sessions + 1] = "open" /\ preview'[sessions + 1] = "on"
        /\ \A s \in Sessions : s # sessions + 1 => camera'[s] = camera[s]
    BY <1>2, <1>5 DEF Typed
  <2>2. OnlyItsOwn'
    BY <1>2, <1>5, <2>1 DEF OnlyItsOwn, None, Sessions
  <2>3. LastResult' /\ PreviewRuns'
    BY <1>3, <1>5, <2>1 DEF LastResult, PreviewRuns, FocusOnlyOnPreview
  <2>4. Typed'
    BY <1>1, <1>2, <1>5 DEF Typed, Sessions
  <2> QED BY <2>2, <2>3, <2>4
<1> QED BY <1>4, <1>5, Zenon DEF DoScanGuts

(* Behind ReleaseCamera no camera is open. *)
LEMMA Releasing ==
  ASSUME SessionInv, ReleaseCamera, lifecycle' = "onPause",
         UNCHANGED <<finishing, sessions, results, died>>
  PROVE  SessionInv'
<1> USE DEF SessionInv
<1>1. CASE mCamera = None
  <2>1. UNCHANGED <<camera, preview, mCamera, previewing>>
    BY <1>1, Zenon DEF ReleaseCamera
  <2> QED BY <1>1, <2>1, OnlyMoves DEF PreviewRuns, FocusOnlyOnPreview
<1>2. CASE mCamera # None
  <2>1. /\ mCamera' = None /\ ~previewing'
        /\ camera' = [camera EXCEPT ![mCamera] = "released"]
        /\ preview' = [preview EXCEPT ![mCamera] = "off"]
    BY <1>2, Zenon DEF ReleaseCamera, Released
  <2>2. mCamera \in Sessions
    BY <1>2, SessionAssumption DEF Typed, Sessions
  <2>3. Typed' /\ OnlyItsOwn'
    BY <2>1, <2>2 DEF Typed, OnlyItsOwn
  <2> QED BY <2>1, <2>3 DEF LastResult, PreviewRuns, FocusOnlyOnPreview
<1> QED BY <1>1, <1>2

(* A code is handed over: previewing was TRUE, so it is the first.         *)
LEMMA FrameStops == ASSUME SessionInv, NEW s \in Sessions, OnPreviewFrame(s) PROVE SessionInv'
<1> USE DEF SessionInv
<1>1. /\ previewing /\ ~previewing' /\ finishing' /\ results' = results + 1
      /\ preview' = [preview EXCEPT ![mCamera] = "off"]
      /\ UNCHANGED <<lifecycle, sessions, camera, mCamera, died>>
  BY Zenon DEF OnPreviewFrame, CameraCallback, Watching
<1>2. results' = 1
  BY <1>1 DEF LastResult
<1> QED BY <1>1, <1>2 DEF Typed, OnlyItsOwn, LastResult, PreviewRuns, FocusOnlyOnPreview

(* The surface changes the preview of an open camera only, and never to    *)
(* "off".                                                                  *)
LEMMA SurfaceChanges == ASSUME SessionInv, NEW s \in Sessions, SurfaceChanged(s) PROVE SessionInv'
<1> USE DEF SessionInv
<1>1. \/ preview' = [preview EXCEPT ![s] = "on"]
      \/ preview' = [preview EXCEPT ![s] = "broken"]
  BY Zenon DEF SurfaceChanged
<1>2. UNCHANGED <<lifecycle, finishing, sessions, camera, mCamera, previewing, results, died>>
  BY Zenon DEF SurfaceChanged, SurfaceCallback
<1>3. preview' \in [Sessions -> {"off", "on", "broken"}]
  BY <1>1 DEF Typed
<1>4. mCamera # None /\ preview[mCamera] # "off" => preview'[mCamera] # "off"
  BY <1>1, SessionAssumption DEF Typed, Sessions
<1> QED BY <1>2, <1>3, <1>4 DEF Typed, OnlyItsOwn, LastResult, PreviewRuns, FocusOnlyOnPreview

(* doAutoFocus.run looks at previewing before it focuses.                  *)
LEMMA FocusSafe == ASSUME SessionInv, DoAutoFocus PROVE SessionInv'
<1>1. UNCHANGED <<lifecycle, finishing, sessions, camera, mCamera, preview, previewing, results>>
  BY Zenon DEF DoAutoFocus, CameraCallback, Dies, cameraVars
<1>2. CASE FocusAgain /\ preview[mCamera] # "on"
  <2>1. died' = IF preview[mCamera] = "off" THEN "focus without preview" ELSE "broken preview"
    BY <1>2, Zenon DEF DoAutoFocus, Dies
  <2>2. preview[mCamera] # "off"
    BY <1>2 DEF FocusAgain, SessionInv, PreviewRuns
  <2>3. died' # "focus without preview"
    BY <2>1, <2>2
  <2> QED BY <1>1, <2>3, OnlyMoves DEF SessionInv, OnlyItsOwn
<1>3. CASE ~(FocusAgain /\ preview[mCamera] # "on")
  <2>1. UNCHANGED died
    BY <1>3, Zenon DEF DoAutoFocus
  <2> QED BY <1>1, <2>1, SessionStutters, Zenon DEF Matter
<1> QED BY <1>2, <1>3

(* SessionInv is inductive. *)
LEMMA SessionStep == SessionInv /\ [SessionNext]_sessionVars => SessionInv'
<1> SUFFICES ASSUME SessionInv, [SessionNext]_sessionVars
             PROVE  SessionInv'
  OBVIOUS
<1> USE DEF SessionInv
<1>1. CASE OnStart
  <2>1. ~finishing /\ lifecycle' = "onStart" /\ mCamera = None
    BY <1>1 DEF OnStart, OnlyItsOwn
  <2>2. CASE DoScanGuts
    BY <2>1, <2>2, GutsStep
  <2>3. CASE ~DoScanGuts
    <3>1. UNCHANGED <<finishing, sessions, camera, mCamera, preview, previewing, results>>
          /\ died' \in {"empty grant results", died}
      BY <1>1, <2>3, Zenon DEF OnStart, Dies, cameraVars
    <3> QED BY <2>1, <3>1, OnlyMoves DEF PreviewRuns, FocusOnlyOnPreview
  <2> QED BY <2>2, <2>3
<1>2. CASE OnRequestPermissionsResult
  <2>1. ~finishing /\ lifecycle' = "onStart" /\ mCamera = None
    BY <1>2 DEF OnRequestPermissionsResult, OnlyItsOwn
  <2>2. CASE DoScanGuts
    BY <2>1, <2>2, GutsStep
  <2>3. CASE ~DoScanGuts
    <3>1. UNCHANGED <<finishing, sessions, camera, mCamera, preview, previewing, results, died>>
      BY <1>2, <2>3, Zenon DEF OnRequestPermissionsResult, cameraVars
    <3> QED BY <2>1, <3>1, OnlyMoves DEF PreviewRuns, FocusOnlyOnPreview
  <2> QED BY <2>2, <2>3
<1>3. CASE OnResume
  <2>1. lifecycle' = "onResume"
        /\ UNCHANGED <<finishing, sessions, camera, mCamera, preview, previewing, results, died>>
    BY <1>3, Zenon DEF OnResume, Leaves, Moves
  <2> QED BY <2>1, OnlyMoves DEF PreviewRuns, FocusOnlyOnPreview
<1>4. CASE OnPause
  <2>1. ReleaseCamera /\ lifecycle' = "onPause" /\ UNCHANGED <<finishing, sessions, results, died>>
    BY <1>4, Zenon DEF OnPause, Moves
  <2> QED BY <2>1, Releasing
<1>5. CASE OnStop \/ OnDestroy
  <2>1. lifecycle \in {"onPause", "onStop"}
        /\ UNCHANGED <<finishing, sessions, camera, mCamera, preview, previewing, results, died>>
    BY <1>5, Zenon DEF OnStop, OnDestroy, Leaves, Moves
  <2>2. mCamera = None
    BY <2>1 DEF OnlyItsOwn
  <2> QED BY <2>1, <2>2, OnlyMoves DEF PreviewRuns, FocusOnlyOnPreview
<1>6. CASE BackKey
  <2>1. /\ lifecycle = "onResume" /\ finishing' = TRUE
        /\ UNCHANGED <<lifecycle, sessions, camera, mCamera, preview, previewing, results, died>>
    BY <1>6, Zenon DEF BackKey, cameraVars
  <2> QED BY <2>1, OnlyMoves DEF PreviewRuns, FocusOnlyOnPreview
<1>7. CASE DoAutoFocus
  BY <1>7, FocusSafe
<1>8. ASSUME NEW s \in Sessions, OnAutoFocus(s) PROVE SessionInv'
  <2>1. UNCHANGED Matter
    BY <1>8, Zenon DEF OnAutoFocus, CameraCallback, Matter
  <2> QED BY <2>1, SessionStutters
<1>9. ASSUME NEW s \in Sessions, SurfaceCreated(s) PROVE SessionInv'
  <2>1. UNCHANGED <<lifecycle, finishing, sessions, camera, mCamera, preview, previewing, results>>
        /\ died' \in {"released camera", died}
    BY <1>9, Zenon DEF SurfaceCreated, SurfaceCallback, Dies, cameraVars
  <2> QED BY <2>1, OnlyMoves DEF OnlyItsOwn, PreviewRuns, FocusOnlyOnPreview
<1>10. ASSUME NEW s \in Sessions, SurfaceChanged(s) PROVE SessionInv'
  BY <1>10, SurfaceChanges
<1>11. ASSUME NEW s \in Sessions, SurfaceDestroyed(s) PROVE SessionInv'
  <2>1. UNCHANGED Matter
    BY <1>11, Zenon DEF SurfaceDestroyed, SurfaceCallback, cameraVars, Matter
  <2> QED BY <2>1, SessionStutters
<1>12. ASSUME NEW s \in Sessions, OnPreviewFrame(s) PROVE SessionInv'
  BY <1>12, FrameStops
<1>13. CASE UNCHANGED sessionVars
  <2>1. UNCHANGED Matter
    BY <1>13, Zenon DEF sessionVars, cameraVars, Matter
  <2> QED BY <2>1, SessionStutters
<1> QED BY <1>1, <1>2, <1>3, <1>4, <1>5, <1>6, <1>7, <1>8, <1>9, <1>10, <1>11, <1>12, <1>13, Zenon
        DEF SessionNext, Callback

(* SessionInv holds of ScanActivity with its camera. *)
LEMMA SessionInvariant == SessionSpec => []SessionInv
BY SessionInitially, SessionStep, PTL DEF SessionSpec

-----------------------------------------------------------------------------
(* Every behaviour of the activity with its scanner is one of the activity *)
(* with its camera alone: a frame is looked at between two callbacks, and  *)
(* the finalizer thread touches nothing of the activity's.                 *)
THEOREM ScanImplementsSession == ScanSpec => SessionSpec
<1>1. ScanInit => SessionInit
  BY DEF ScanInit
<1>2. [ScanNext]_scanVars => [SessionNext]_sessionVars
  <2>1. CASE CallBack
    BY <2>1, Zenon DEF CallBack, SessionNext
  <2>2. ASSUME NEW s \in Sessions, ScanCode(s) PROVE SessionNext
    BY <2>2, Zenon DEF ScanCode, SessionNext
  <2>3. CASE Destroy
    BY <2>3, Zenon DEF Destroy, SessionNext
  <2>4. CASE BeginFrame \/ GoOn \/ Collect \/ UNCHANGED scanVars
    BY <2>4, Zenon DEF BeginFrame, GoOn, Collect, scanVars
  <2> QED BY <2>1, <2>2, <2>3, <2>4, Zenon DEF ScanNext
<1> QED BY <1>1, <1>2, PTL DEF ScanSpec, SessionSpec

(* Whichever way ScanActivity is left, and however often its camera is     *)
(* opened: no camera stays open behind it.                                 *)
THEOREM CameraAlwaysReleased == ScanSpec => []NoCameraLeftOpen
<1>1. SessionInv => NoCameraLeftOpen
  BY SessionAssumption DEF SessionInv, OnlyItsOwn, NoCameraLeftOpen, Sessions, None
<1> QED BY <1>1, SessionInvariant, ScanImplementsSession, PTL

(* A scanned code is handed over at most once, whatever restarts the       *)
(* preview afterwards.                                                     *)
THEOREM CodeHandedOverOnce == ScanSpec => []ResultOnce
<1>1. SessionInv => ResultOnce
  BY DEF SessionInv, LastResult, ResultOnce
<1> QED BY <1>1, SessionInvariant, ScanImplementsSession, PTL

(* doAutoFocus.run never focuses a camera whose preview was stopped on     *)
(* purpose, however old the posted runnable is.                            *)
THEOREM FocusAlwaysOnPreview == ScanSpec => []FocusOnlyOnPreview
<1>1. SessionInv => FocusOnlyOnPreview
  BY DEF SessionInv, PreviewRuns
<1> QED BY <1>1, SessionInvariant, ScanImplementsSession, PTL

-----------------------------------------------------------------------------
(* The scanner's memory.                                                   *)

SymbolTypes ==
  /\ frame \in 0..MaxFrames
  /\ ui_pc \in {"idle", "recycle", "take", "scan", "results", "iterate", "destroyed"}
  /\ finalizing \in {NoObject} \cup Objects
  /\ loaded \in [Threads -> {Nothing} \cup Nat]
  /\ raced \in BOOLEAN
  /\ memory \in [Sets -> {"unused", "allocated", "freed"}]
  /\ refcnt \in [Sets -> Nat \cup {-1}]
  /\ scanner_syms \in {NoSet} \cup Sets
  /\ image_syms \in [Frames -> {NoSet} \cup Sets]
  /\ result_syms \in {NoSet} \cup Sets
  /\ java \in [Objects -> {"none", "used", "garbage", "destroyed"}]

(* The frames that have been taken for scanning so far, and the sets they  *)
(* may have got.                                                           *)
Begun(s) == s < frame \/ (s = frame /\ ui_pc \notin {"recycle", "take"})

(* Only what the frames so far have got is referred to, or in use.         *)
RefersBack ==
  /\ scanner_syms # NoSet => Begun(scanner_syms)
  /\ result_syms # NoSet => Begun(result_syms)
  /\ \A f \in Frames : image_syms[f] # NoSet => Begun(f) /\ Begun(image_syms[f])
  /\ \A s \in Sets : memory[s] # "unused" => Begun(s)

(* The lives of the Java objects: the finalizer gets what nobody uses any  *)
(* more; the SymbolSet is made once, from the first result.                *)
Lives ==
  /\ finalizing # NoObject => java[finalizing] = "garbage"
  /\ \A f \in Frames : f > frame => java[ImageOf(f)] = "none"
  /\ java[Scanner] = "used" <=> ui_pc # "destroyed"
  /\ ui_pc \in {"recycle", "take", "scan"} => frame \in Frames /\ java[ImageOf(frame)] = "used"
  /\ ui_pc \in {"recycle", "scan", "results"} => scanner_syms # NoSet
  /\ java[Results] = "none" => result_syms = NoSet
  /\ ui_pc = "iterate" => java[Results] = "used"
  /\ ui_pc = "results" => java[Results] = "none"
  /\ java[Results] # "none" \/ ui_pc = "results" => results # 0

(* A count is loaded only where it is about to be stored.                  *)
LoadedToStore ==
  /\ loaded["ui"] # Nothing => ui_pc \in {"recycle", "take", "results"} /\ scanner_syms # NoSet
  /\ loaded["finalizer"] # Nothing => finalizing # NoObject /\ Target("finalizer") # NoSet

(* What holds as long as no two threads were counting on one set at once.  *)
Counted ==
  /\ CountIsExact
  /\ \A t \in Threads : loaded[t] # Nothing => loaded[t] = refcnt[Target(t)]
  /\ loaded["ui"] # Nothing /\ loaded["finalizer"] # Nothing => Target("ui") # Target("finalizer")
  /\ \A s \in Sets : memory[s] = "allocated" <=> Holders(s) # {} \/ scanner_syms = s
  /\ ui_pc = "take" /\ scanner_syms # NoSet => Holders(scanner_syms) = {}

MemoryInv ==
  /\ SymbolTypes /\ RefersBack /\ Lives /\ LoadedToStore
  /\ raced \/ Counted

-----------------------------------------------------------------------------
(* The Java objects are all different.                                     *)
LEMMA ObjectsDiffer ==
  /\ Scanner \in Objects /\ Results \in Objects /\ Scanner # Results
  /\ NoObject \notin Objects
  /\ \A f \in Frames : ImageOf(f) \in Objects /\ ImageOf(f) # Scanner /\ ImageOf(f) # Results
  /\ \A f, g \in Frames : ImageOf(f) = ImageOf(g) => f = g
  /\ \A o \in Objects : o = Scanner \/ o = Results \/ (o[1] = "image" /\ o[2] \in Frames /\ o = ImageOf(o[2]))
  /\ \A f : ImageOf(f)[1] = "image" /\ ImageOf(f)[2] = f
  /\ Scanner[1] # "image" /\ Results[1] # "image"
BY DEF Objects, Scanner, Results, NoObject, ImageOf

(* There are finitely many Java objects, so references can be counted. *)
LEMMA ObjectsFinite == IsFiniteSet(Objects)
<1>1. IsFiniteSet(Frames)
  BY FS_Interval, SymbolSetsAssumption DEF Frames
<1>2. IsFiniteSet({"image"})
  BY FS_Singleton
<1>3. IsFiniteSet({"image"} \X Frames)
  BY <1>1, <1>2, FS_Product
<1>4. IsFiniteSet({Scanner, Results})
  <2>1. IsFiniteSet({Scanner}) /\ {Scanner, Results} = {Scanner} \cup {Results}
    BY FS_Singleton
  <2> QED BY <2>1, FS_AddElement
<1>5. Objects = {Scanner, Results} \cup ({"image"} \X Frames)
  BY DEF Objects, Scanner, Results
<1> QED BY <1>3, <1>4, <1>5, FS_Union

(* The set each object's counted reference is to. *)
Reference(o) ==
  IF o = Scanner THEN IF ui_pc = "take" THEN NoSet ELSE scanner_syms
  ELSE IF o = Results THEN result_syms ELSE image_syms[o[2]]

Refs == [o \in Objects |-> Reference(o)]

(* The objects that refer to s, when their references are as in R. *)
Referring(R, s) == {o \in Objects : R[o] = s}

(* Who holds a set is who refers to it.                                    *)
LEMMA HoldersRefer == \A s \in Sets : Holders(s) = Referring(Refs, s)
<1> SUFFICES ASSUME NEW s \in Sets PROVE Holders(s) = Referring(Refs, s)
  OBVIOUS
<1>1. s # NoSet
  BY DEF Sets, NoSet
<1> SUFFICES ASSUME NEW o \in Objects
             PROVE  Refs[o] = s <=> \/ o = Scanner /\ scanner_syms = s /\ ui_pc # "take"
                                    \/ o = Results /\ result_syms = s
                                    \/ o[1] = "image" /\ image_syms[o[2]] = s
  BY DEF Holders, Referring
<1>2. Refs[o] = Reference(o)
  BY DEF Refs
<1>3. CASE o = Scanner
  BY <1>1, <1>2, <1>3, ObjectsDiffer DEF Reference
<1>4. CASE o = Results
  BY <1>1, <1>2, <1>4, ObjectsDiffer DEF Reference
<1>5. CASE o[1] = "image" /\ o # Scanner /\ o # Results
  BY <1>1, <1>2, <1>5, ObjectsDiffer DEF Reference
<1> QED BY <1>3, <1>4, <1>5, ObjectsDiffer

(* The same after a step.                                                  *)
LEMMA HoldersReferNext == \A s \in Sets : Holders(s)' = Referring(Refs', s)
<1>1. (\A s \in Sets : Holders(s) = Referring(Refs, s))'
  BY HoldersRefer, PTL
<1> QED BY <1>1 DEF Referring

(* One object's reference changes: who refers to the other sets stays.     *)
LEMMA OtherSets ==
  ASSUME NEW R, NEW Q, NEW o \in Objects, NEW s,
         \A p \in Objects : p # o => Q[p] = R[p], Q[o] # s, R[o] # s
  PROVE  Referring(Q, s) = Referring(R, s)
BY DEF Referring

(* One object less refers to the set that it referred to.                  *)
LEMMA OneLess ==
  ASSUME NEW R, NEW Q, NEW o \in Objects, NEW s,
         \A p \in Objects : p # o => Q[p] = R[p], R[o] = s, Q[o] # s
  PROVE  Cardinality(Referring(Q, s)) = Cardinality(Referring(R, s)) - 1
<1>1. IsFiniteSet(Referring(R, s))
  BY ObjectsFinite, FS_Subset DEF Referring
<1>2. Referring(Q, s) = Referring(R, s) \ {o} /\ o \in Referring(R, s)
  BY DEF Referring
<1> QED BY <1>1, <1>2, FS_RemoveElement

(* One object more refers to the set it gets.                              *)
LEMMA OneMore ==
  ASSUME NEW R, NEW Q, NEW o \in Objects, NEW s,
         \A p \in Objects : p # o => Q[p] = R[p], R[o] # s, Q[o] = s
  PROVE  Cardinality(Referring(Q, s)) = Cardinality(Referring(R, s)) + 1
<1>1. IsFiniteSet(Referring(R, s))
  BY ObjectsFinite, FS_Subset DEF Referring
<1>2. Referring(Q, s) = Referring(R, s) \cup {o} /\ o \notin Referring(R, s)
  BY DEF Referring
<1> QED BY <1>1, <1>2, FS_AddElement

(* The number of holders is a number, 0 for none only.                     *)
LEMMA ReferringCount ==
  ASSUME NEW R, NEW s
  PROVE  /\ Cardinality(Referring(R, s)) \in Nat
         /\ Cardinality(Referring(R, s)) = 0 <=> Referring(R, s) = {}
<1>1. IsFiniteSet(Referring(R, s))
  BY ObjectsFinite, FS_Subset DEF Referring
<1> QED BY <1>1, FS_CardinalityType, FS_EmptySet

(* A thread counts on the set the object it works for refers to.           *)
Targets ==
  /\ Target("ui") = scanner_syms
  /\ finalizing # NoObject => Target("finalizer") = Refs[finalizing]

(* The count a thread is at is that of the set its object refers to. *)
LEMMA TargetIsReference == SymbolTypes /\ Lives => Targets
<1> SUFFICES ASSUME SymbolTypes, Lives PROVE Targets
  OBVIOUS
<1>1. Target("ui") = scanner_syms
  BY DEF Target
<1>2. ASSUME finalizing # NoObject PROVE Target("finalizer") = Refs[finalizing]
  <2>1. finalizing \in Objects /\ java[finalizing] = "garbage"
    BY <1>2 DEF SymbolTypes, Lives
  <2>2. Refs[finalizing] = Reference(finalizing)
    BY <2>1 DEF Refs
  <2>3. finalizing = Scanner => ui_pc # "take"
    BY <2>1 DEF Lives
  <2> QED BY <2>1, <2>2, <2>3, ObjectsDiffer DEF Target, Reference
<1> QED BY <1>1, <1>2 DEF Targets

(* The same in the next state. *)
LEMMA TargetIsReferenceNext == SymbolTypes' /\ Lives' => Targets'
<1>1. (SymbolTypes /\ Lives => Targets)'
  BY TargetIsReference, PTL
<1> QED BY <1>1

(* The counts in terms of the references.                                  *)
CountsRefs ==
  /\ \A s \in Sets : refcnt[s] = Cardinality(Referring(Refs, s))
  /\ loaded["ui"] # Nothing => loaded["ui"] = refcnt[scanner_syms]
  /\ loaded["finalizer"] # Nothing => loaded["finalizer"] = refcnt[Refs[finalizing]]
  /\ loaded["ui"] # Nothing /\ loaded["finalizer"] # Nothing => scanner_syms # Refs[finalizing]
  /\ \A s \in Sets : memory[s] = "allocated" <=> Referring(Refs, s) # {} \/ scanner_syms = s
  /\ ui_pc = "take" /\ scanner_syms # NoSet => Referring(Refs, scanner_syms) = {}

(* Counted and CountsRefs say the same. *)
LEMMA CountedMeans == SymbolTypes /\ Lives /\ LoadedToStore => (Counted <=> CountsRefs)
<1> SUFFICES ASSUME SymbolTypes, Lives, LoadedToStore PROVE Counted <=> CountsRefs
  OBVIOUS
<1>1. Targets
  BY TargetIsReference
<1>2. \A s \in Sets : Holders(s) = Referring(Refs, s)
  BY HoldersRefer
<1>3. CountIsExact <=> \A s \in Sets : refcnt[s] = Cardinality(Referring(Refs, s))
  BY <1>2 DEF CountIsExact
<1>4. loaded["finalizer"] # Nothing => finalizing # NoObject
  BY DEF LoadedToStore
<1>5. (\A t \in Threads : loaded[t] # Nothing => loaded[t] = refcnt[Target(t)])
      <=> /\ loaded["ui"] # Nothing => loaded["ui"] = refcnt[scanner_syms]
          /\ loaded["finalizer"] # Nothing => loaded["finalizer"] = refcnt[Refs[finalizing]]
  BY <1>1, <1>4 DEF Targets, Threads
<1>6. (loaded["ui"] # Nothing /\ loaded["finalizer"] # Nothing => Target("ui") # Target("finalizer"))
      <=> (loaded["ui"] # Nothing /\ loaded["finalizer"] # Nothing => scanner_syms # Refs[finalizing])
  BY <1>1, <1>4 DEF Targets
<1>7. (\A s \in Sets : memory[s] = "allocated" <=> Holders(s) # {} \/ scanner_syms = s)
      <=> \A s \in Sets : memory[s] = "allocated" <=> Referring(Refs, s) # {} \/ scanner_syms = s
  BY <1>2
<1>8. (ui_pc = "take" /\ scanner_syms # NoSet => Holders(scanner_syms) = {})
      <=> (ui_pc = "take" /\ scanner_syms # NoSet => Referring(Refs, scanner_syms) = {})
  BY <1>2 DEF SymbolTypes
<1> QED BY <1>3, <1>5, <1>6, <1>7, <1>8 DEF Counted, CountsRefs

(* The same in the next state. *)
LEMMA CountedMeansNext ==
  SymbolTypes' /\ Lives' /\ LoadedToStore' => (Counted' <=> CountsRefs')
<1>1. (SymbolTypes /\ Lives /\ LoadedToStore => (Counted <=> CountsRefs))'
  BY CountedMeans, PTL
<1> QED BY <1>1

(* A step that keeps the types and the lives, and while nothing has raced  *)
(* the counts.                                                             *)
LEMMA MemoryKept ==
  ASSUME MemoryInv, SymbolTypes', RefersBack', Lives', LoadedToStore', raced => raced',
         ~raced' /\ ~raced /\ CountsRefs => CountsRefs'
  PROVE  MemoryInv'
<1>1. raced' \in BOOLEAN /\ raced \in BOOLEAN
  BY Zenon DEF MemoryInv, SymbolTypes
<1>2. CASE raced'
  BY <1>2, Zenon DEF MemoryInv
<1>3. CASE ~raced'
  <2>1. ~raced /\ Counted
    BY <1>3, Zenon DEF MemoryInv
  <2>2. CountsRefs
    BY <2>1, CountedMeans, Zenon DEF MemoryInv
  <2> QED BY <1>3, <2>1, <2>2, CountedMeansNext, Zenon DEF MemoryInv
<1> QED BY <1>2, <1>3

(* No set exists at first. *)
LEMMA MemoryInitially == ScanInit => MemoryInv
<1> SUFFICES ASSUME ScanInit PROVE MemoryInv
  OBVIOUS
<1> USE SymbolSetsAssumption DEF ScanInit, SymbolInit
<1>1. SymbolTypes
  <2>1. raced \in BOOLEAN
    BY Zenon
  <2> QED BY <2>1 DEF SymbolTypes, Nothing, NoSet
<1>2. RefersBack
  BY DEF RefersBack, NoSet
<1>3. Lives
  BY ObjectsDiffer DEF Lives, NoSet
<1>4. LoadedToStore
  BY DEF LoadedToStore, Threads
<1>5. \A o \in Objects : Refs[o] = NoSet
  BY ObjectsDiffer DEF Refs, Reference
<1>6. \A s \in Sets : Referring(Refs, s) = {} /\ s # NoSet
  BY <1>5 DEF Referring, Sets, NoSet
<1>7. CountsRefs
  BY <1>6, FS_EmptySet DEF CountsRefs, Threads
<1> QED BY <1>1, <1>2, <1>3, <1>4, <1>7, CountedMeans DEF MemoryInv

(* Where nothing of the counts, the references and the memory changes.     *)
LEMMA CountsRest ==
  ASSUME CountsRefs, Refs' = Refs, UNCHANGED <<loaded, memory, refcnt, scanner_syms>>,
         loaded["finalizer"] # Nothing => finalizing' = finalizing,
         ui_pc' = "take" => ui_pc = "take" \/ scanner_syms = NoSet
  PROVE  CountsRefs'
BY DEF CountsRefs

(* A new frame.                                                            *)
LEMMA NewImageKeeps ==
  ASSUME MemoryInv, NewImage, results' = results
  PROVE  MemoryInv'
<1> USE SymbolSetsAssumption DEF MemoryInv
<1>0. /\ ui_pc = "idle" /\ frame < MaxFrames /\ frame' = frame + 1
      /\ java' = [java EXCEPT ![ImageOf(frame + 1)] = "used"]
      /\ ui_pc' = IF scanner_syms = NoSet \/ refcnt[scanner_syms] = 0 THEN "take" ELSE "recycle"
      /\ UNCHANGED <<finalizing, loaded, raced, memory, refcnt, scanner_syms, image_syms, result_syms>>
  BY DEF NewImage
<1>1. frame \in Nat /\ frame + 1 \in Frames /\ frame' \in 0..MaxFrames
  BY <1>0 DEF SymbolTypes, Frames
<1>2. /\ ImageOf(frame + 1) \in Objects /\ ImageOf(frame + 1) # Scanner
      /\ ImageOf(frame + 1) # Results
  BY <1>1, ObjectsDiffer
<1>3. SymbolTypes'
  BY <1>0, <1>1, <1>2 DEF SymbolTypes
<1>4. \A s \in Sets : Begun(s) => Begun(s)'
  BY <1>0, <1>1 DEF Begun, Sets
<1>5. RefersBack'
  BY <1>0, <1>4 DEF RefersBack, SymbolTypes, Frames, Sets
<1>5a. /\ java'[ImageOf(frame + 1)] = "used" /\ java[ImageOf(frame + 1)] = "none"
       /\ \A p \in Objects : p # ImageOf(frame + 1) => java'[p] = java[p]
  BY <1>0, <1>1, <1>2 DEF SymbolTypes, Lives
<1>6. finalizing' # NoObject => java'[finalizing'] = "garbage"
  BY <1>0, <1>5a DEF Lives, SymbolTypes
<1>6a. \A f \in Frames : f > frame' => java'[ImageOf(f)] = "none"
  <2> SUFFICES ASSUME NEW f \in Frames, f > frame' PROVE java'[ImageOf(f)] = "none"
    OBVIOUS
  <2>1. f > frame /\ f # frame + 1
    BY <1>0, <1>1 DEF Frames
  <2>2. ImageOf(f) \in Objects /\ ImageOf(f) # ImageOf(frame + 1)
    BY <1>1, <2>1, ObjectsDiffer
  <2> QED BY <1>5a, <2>1, <2>2 DEF Lives
<1>7. Lives'
  BY <1>0, <1>1, <1>2, <1>5a, <1>6, <1>6a, ObjectsDiffer DEF Lives
<1>8. LoadedToStore'
  BY <1>0 DEF LoadedToStore, Target
<1>9. ASSUME ~raced, CountsRefs PROVE CountsRefs'
  <2>1. scanner_syms # NoSet => ui_pc' = "recycle"
    <3> SUFFICES ASSUME scanner_syms # NoSet PROVE refcnt[scanner_syms] # 0
      BY <1>0
    <3>1. scanner_syms \in Sets /\ Refs[Scanner] = scanner_syms
      BY <1>0, ObjectsDiffer DEF SymbolTypes, Refs, Reference
    <3>2. Scanner \in Referring(Refs, scanner_syms)
      BY <3>1, ObjectsDiffer DEF Referring
    <3> QED BY <1>9, <3>1, <3>2, ReferringCount DEF CountsRefs
  <2>2. Refs' = Refs
    BY <1>0, <2>1 DEF Refs, Reference
  <2> QED BY <1>0, <1>9, <2>1, <2>2, CountsRest
<1> QED BY <1>0, <1>3, <1>5, <1>7, <1>8, <1>9, MemoryKept

(* Steps of the UI thread that only move it on, and discard what it has    *)
(* used.                                                                   *)
LEMMA DiscardKeeps ==
  ASSUME MemoryInv, NEW o \in Objects, java[o] = "used", Discard(o),
         UNCHANGED <<frame, finalizing, loaded, raced, memory, refcnt, scanner_syms,
                     image_syms, result_syms>>,
         results # 0 => results' # 0,
         \/ ui_pc = "scan" /\ o = ImageOf(frame) /\ ui_pc' = "idle"
         \/ ui_pc = "scan" /\ o = ImageOf(frame) /\ ui_pc' = "results"
            /\ java[Results] = "none" /\ results' # 0
         \/ ui_pc = "iterate" /\ o = Results /\ ui_pc' = "idle"
         \/ ui_pc = "idle" /\ o = Scanner /\ ui_pc' = "destroyed"
  PROVE  MemoryInv'
<1> USE SymbolSetsAssumption DEF MemoryInv
<1>0. java' = [java EXCEPT ![o] = "garbage"]
  BY DEF Discard
<1>1. SymbolTypes'
  BY <1>0 DEF SymbolTypes
<1>2. \A s : Begun(s) => Begun(s)'
  BY DEF Begun
<1>3. RefersBack'
  BY <1>2 DEF RefersBack
<1>4. loaded["ui"] = Nothing
  BY DEF LoadedToStore
<1>5. java'[o] = "garbage" /\ \A p \in Objects : p # o => java'[p] = java[p]
  BY <1>0 DEF SymbolTypes
<1>6. finalizing' # NoObject => java'[finalizing'] = "garbage"
  BY <1>5 DEF Lives, SymbolTypes
<1>7. frame \in Frames => ImageOf(frame) # Scanner /\ ImageOf(frame) # Results
  BY ObjectsDiffer
<1>7a. \A f \in Frames : f > frame' => java'[ImageOf(f)] = "none"
  <2> SUFFICES ASSUME NEW f \in Frames, f > frame' PROVE java'[ImageOf(f)] = "none"
    OBVIOUS
  <2>1. java[ImageOf(f)] = "none" /\ ImageOf(f) # o /\ ImageOf(f) \in Objects
    BY ObjectsDiffer DEF Lives
  <2> QED BY <1>5, <2>1
<1>8. Lives'
  BY <1>5, <1>6, <1>7, <1>7a, ObjectsDiffer DEF Lives
<1>9. LoadedToStore'
  BY <1>4 DEF LoadedToStore, Target
<1>10. Refs' = Refs
  BY DEF Refs, Reference
<1>11. ASSUME CountsRefs PROVE CountsRefs'
  BY <1>10, <1>11, CountsRest
<1> QED BY <1>1, <1>3, <1>8, <1>9, <1>11, MemoryKept

(* recycle_syms: the scanner's reference is not counted any more.          *)
LEMMA RecycleKeeps ==
  ASSUME MemoryInv, RecycleSyms, results' = results
  PROVE  MemoryInv'
<1> USE SymbolSetsAssumption DEF MemoryInv
<1>0. /\ ui_pc = "recycle" /\ ui_pc' = "take"
      /\ loaded["ui"] # Nothing
      /\ refcnt' = [refcnt EXCEPT ![scanner_syms] = loaded["ui"] + (-1)]
      /\ loaded' = [loaded EXCEPT !["ui"] = Nothing]
      /\ scanner_syms' = IF loaded["ui"] = 1 THEN scanner_syms ELSE NoSet
      /\ UNCHANGED <<frame, finalizing, raced, memory, image_syms, result_syms, java>>
  BY TargetIsReference DEF RecycleSyms, Store, Targets
<1>1. scanner_syms \in Sets /\ scanner_syms # NoSet /\ loaded["ui"] \in Nat
  BY <1>0 DEF SymbolTypes, Lives, Threads
<1>2. SymbolTypes'
  <2>1. loaded["ui"] + (-1) \in Nat \cup {-1}
    BY <1>1
  <2>2. loaded' \in [Threads -> {Nothing} \cup Nat] /\ refcnt' \in [Sets -> Nat \cup {-1}]
    BY <1>0, <1>1, <2>1 DEF SymbolTypes
  <2> QED BY <1>0, <2>2 DEF SymbolTypes
<1>3. \A s : Begun(s)' <=> Begun(s)
  BY <1>0 DEF Begun
<1>4. RefersBack'
  BY <1>0, <1>3 DEF RefersBack
<1>5. Lives'
  BY <1>0 DEF Lives
<1>6. loaded'["ui"] = Nothing /\ loaded'["finalizer"] = loaded["finalizer"]
  BY <1>0 DEF SymbolTypes, Threads
<1>7. finalizing # NoObject => finalizing \in Objects /\ finalizing # Scanner
  BY <1>0 DEF SymbolTypes, Lives
<1>8. Target("finalizer")' = Target("finalizer") \/ finalizing = NoObject
  BY <1>0, <1>7 DEF Target
<1>9. LoadedToStore'
  BY <1>0, <1>6, <1>8 DEF LoadedToStore
<1>10. ASSUME ~raced, CountsRefs PROVE CountsRefs'
  <2>1. /\ Refs[Scanner] = scanner_syms /\ Refs'[Scanner] = NoSet
        /\ \A p \in Objects : p # Scanner => Refs'[p] = Refs[p]
    BY <1>0, ObjectsDiffer DEF Refs, Reference
  <2>2. loaded["ui"] = Cardinality(Referring(Refs, scanner_syms)) /\ refcnt[scanner_syms] \in Int
    BY <1>0, <1>1, <1>10 DEF CountsRefs, SymbolTypes
  <2>3. /\ Cardinality(Referring(Refs', scanner_syms)) = loaded["ui"] - 1
        /\ \A s \in Sets : s # scanner_syms => Referring(Refs', s) = Referring(Refs, s)
    <3>1. Scanner \in Objects
      BY ObjectsDiffer
    <3>2. \A s \in Sets : s # NoSet
      BY DEF Sets, NoSet
    <3>3. Cardinality(Referring(Refs', scanner_syms))
            = Cardinality(Referring(Refs, scanner_syms)) - 1
      BY <1>1, <2>1, <3>1, OneLess
    <3>4. \A s \in Sets : s # scanner_syms => Referring(Refs', s) = Referring(Refs, s)
      BY <2>1, <3>1, <3>2, OtherSets
    <3> QED BY <2>2, <3>3, <3>4
  <2>4. refcnt'[scanner_syms] = loaded["ui"] - 1
        /\ \A s \in Sets : s # scanner_syms => refcnt'[s] = refcnt[s]
    BY <1>0, <1>1 DEF SymbolTypes
  <2>5. \A s \in Sets : refcnt'[s] = Cardinality(Referring(Refs', s))
    BY <1>10, <2>3, <2>4 DEF CountsRefs
  <2>6. loaded'["finalizer"] # Nothing =>
          /\ Refs'[finalizing'] = Refs[finalizing]
          /\ Refs[finalizing] \in Sets /\ Refs[finalizing] # scanner_syms
    <3> SUFFICES ASSUME loaded["finalizer"] # Nothing
                 PROVE  /\ Refs'[finalizing] = Refs[finalizing]
                        /\ Refs[finalizing] \in Sets /\ Refs[finalizing] # scanner_syms
      BY <1>0, <1>6
    <3>1. finalizing \in Objects /\ finalizing # Scanner
      BY <1>7 DEF LoadedToStore
    <3>2. Refs[finalizing] # scanner_syms
      BY <1>0, <1>10 DEF CountsRefs
    <3>3. Refs[finalizing] = Target("finalizer") /\ Target("finalizer") # NoSet
      BY TargetIsReference DEF Targets, LoadedToStore
    <3>4. Refs[finalizing] \in {NoSet} \cup Sets
      BY <3>1, ObjectsDiffer DEF Refs, Reference, SymbolTypes
    <3> QED BY <2>1, <3>1, <3>2, <3>3, <3>4
  <2>7. loaded'["finalizer"] # Nothing => loaded'["finalizer"] = refcnt'[Refs'[finalizing']]
    BY <1>6, <1>10, <2>4, <2>6 DEF CountsRefs
  <2>8. Referring(Refs', scanner_syms) = {} <=> loaded["ui"] = 1
    BY <1>1, <2>3, ReferringCount
  <2>9. \A s \in Sets :
          memory'[s] = "allocated" <=> Referring(Refs', s) # {} \/ scanner_syms' = s
    <3> SUFFICES ASSUME NEW s \in Sets
                 PROVE  memory'[s] = "allocated" <=> Referring(Refs', s) # {} \/ scanner_syms' = s
      OBVIOUS
    <3>1. memory'[s] = memory[s] /\ s # NoSet
      BY <1>0 DEF Sets, NoSet
    <3>2. memory[s] = "allocated" <=> Referring(Refs, s) # {} \/ scanner_syms = s
      BY <1>10 DEF CountsRefs
    <3>3. CASE s = scanner_syms
      BY <1>0, <2>8, <3>1, <3>2, <3>3
    <3>4. CASE s # scanner_syms
      BY <1>0, <2>3, <3>1, <3>2, <3>4
    <3> QED BY <3>3, <3>4
  <2>10. scanner_syms' # NoSet => Referring(Refs', scanner_syms') = {}
    BY <1>0, <2>8
  <2> QED BY <1>6, <2>5, <2>7, <2>9, <2>10 DEF CountsRefs
<1> QED BY <1>0, <1>2, <1>4, <1>5, <1>9, <1>10, MemoryKept

(* The scanner and the frame's image refer to one more set, which nothing  *)
(* referred to.                                                            *)
LEMMA TwoReferences ==
  ASSUME SymbolTypes, NEW i \in Objects, i # Scanner, NEW s \in Sets,
         Refs[Scanner] = NoSet, Refs[i] = NoSet, Referring(Refs, s) = {},
         Refs'[Scanner] = s, Refs'[i] = s,
         \A p \in Objects : p # Scanner /\ p # i => Refs'[p] = Refs[p]
  PROVE  /\ Referring(Refs', s) = {Scanner, i} /\ Cardinality(Referring(Refs', s)) = 2
         /\ \A r \in Sets : r # s => Referring(Refs', r) = Referring(Refs, r)
<1>1. Referring(Refs', s) = {Scanner} \cup {i}
  BY ObjectsDiffer DEF Referring
<1>2. Cardinality({Scanner} \cup {i}) = Cardinality({Scanner}) + 1
      /\ Cardinality({Scanner}) = 1
  BY FS_Singleton, FS_AddElement
<1>3. \A r \in Sets : r # NoSet
  BY DEF Sets, NoSet
<1> QED BY <1>1, <1>2, <1>3 DEF Referring

(* What the finalizer is about to count on is a set it may count on.       *)
LEMMA FinalizerTarget ==
  ASSUME MemoryInv, loaded["finalizer"] # Nothing
  PROVE  /\ finalizing \in Objects /\ java[finalizing] = "garbage"
         /\ Refs[finalizing] \in Sets /\ Refs[finalizing] # NoSet
         /\ Target("finalizer") = Refs[finalizing]
         /\ loaded["finalizer"] \in Nat
<1> USE DEF MemoryInv
<1>1. finalizing # NoObject /\ Target("finalizer") # NoSet
  BY DEF LoadedToStore
<1>2. finalizing \in Objects /\ java[finalizing] = "garbage"
  BY <1>1 DEF SymbolTypes, Lives
<1>3. Refs[finalizing] = Target("finalizer")
  BY <1>1, TargetIsReference DEF Targets
<1>4. Refs[finalizing] \in {NoSet} \cup Sets
  BY <1>2, ObjectsDiffer DEF Refs, Reference, SymbolTypes
<1>5. loaded["finalizer"] \in Nat
  BY DEF SymbolTypes, Threads
<1> QED BY <1>1, <1>2, <1>3, <1>4, <1>5

(* The set the scanner and the frame's image get: a new one, or the        *)
(* recycled one.  Either has a count of 2 behind it.                       *)
LEMMA TakeKeeps ==
  ASSUME MemoryInv, CreateSyms \/ ReuseSyms, results' = results
  PROVE  MemoryInv'
<1> USE SymbolSetsAssumption DEF MemoryInv
<1> DEFINE s == scanner_syms'
           i == ImageOf(frame)
<1>0. /\ ui_pc = "take" /\ ui_pc' = "scan"
      /\ image_syms' = [image_syms EXCEPT ![frame] = s]
      /\ UNCHANGED <<frame, finalizing, raced, result_syms, java>>
  BY DEF CreateSyms, ReuseSyms, Store
<1>1. frame \in Frames /\ frame \in Sets /\ java[i] = "used"
  BY <1>0 DEF Lives, Frames, Sets
<1>2. /\ s \in Sets /\ s # NoSet
      /\ loaded' = [loaded EXCEPT !["ui"] = Nothing]
      /\ loaded'["ui"] = Nothing /\ loaded'["finalizer"] = loaded["finalizer"]
      /\ \/ scanner_syms = NoSet /\ s = frame /\ refcnt' = [refcnt EXCEPT ![s] = 2]
            /\ memory' = [memory EXCEPT ![s] = "allocated"]
         \/ scanner_syms # NoSet /\ s = scanner_syms
            /\ refcnt' = [refcnt EXCEPT ![s] = loaded["ui"] + 2]
            /\ loaded["ui"] # Nothing /\ memory' = memory
  <2>1. CASE CreateSyms
    <3>1. loaded["ui"] = Nothing /\ loaded' = loaded
      BY <2>1 DEF CreateSyms, LoadedToStore
    <3> QED BY <1>1, <2>1, <3>1 DEF CreateSyms, SymbolTypes, Threads, Frames, NoSet
  <2>2. CASE ReuseSyms
    <3>1. s = scanner_syms /\ scanner_syms # NoSet
      BY <2>2 DEF ReuseSyms
    <3> QED BY <2>2, <3>1, TargetIsReference DEF ReuseSyms, Store, Targets, SymbolTypes, Threads
  <2> QED BY <2>1, <2>2
<1> HIDE DEF s
<1>3. SymbolTypes'
  <2>1. loaded["ui"] # Nothing => loaded["ui"] + 2 \in Nat
    BY DEF SymbolTypes, Threads
  <2>2. refcnt' \in [Sets -> Nat \cup {-1}]
    BY <1>2, <2>1 DEF SymbolTypes
  <2>3. scanner_syms' \in Sets
    BY <1>2 DEF s
  <2>4. loaded' \in [Threads -> {Nothing} \cup Nat]
    BY <1>2 DEF SymbolTypes
  <2>5. memory' \in [Sets -> {"unused", "allocated", "freed"}]
    BY <1>2 DEF SymbolTypes
  <2>6. image_syms' \in [Frames -> {NoSet} \cup Sets]
    BY <1>0, <2>3 DEF SymbolTypes, s
  <2>7. /\ ui_pc' = "scan" /\ frame' \in 0..MaxFrames /\ finalizing' \in {NoObject} \cup Objects
        /\ raced' \in BOOLEAN /\ result_syms' \in {NoSet} \cup Sets
        /\ java' \in [Objects -> {"none", "used", "garbage", "destroyed"}]
    BY <1>0 DEF SymbolTypes
  <2> QED BY <2>2, <2>3, <2>4, <2>5, <2>6, <2>7, Zenon DEF SymbolTypes
<1>4. \A r : Begun(r)' <=> r < frame \/ r = frame
  BY <1>0 DEF Begun
<1>4a. \A r : Begun(r) => r < frame \/ r = frame
  BY <1>0 DEF Begun
<1>5. s < frame \/ s = frame
  BY <1>2, <1>4a DEF RefersBack
<1>6. RefersBack'
  <2>1. scanner_syms' # NoSet => Begun(scanner_syms)'
    BY <1>0, <1>5 DEF s, Begun
  <2>2. \A f \in Frames : image_syms'[f] # NoSet => Begun(f)' /\ Begun(image_syms[f])'
    <3> SUFFICES ASSUME NEW f \in Frames, image_syms'[f] # NoSet
                 PROVE  Begun(f)' /\ Begun(image_syms[f])'
      OBVIOUS
    <3>1. CASE f = frame
      <4>1. image_syms'[f] = s
        BY <1>0, <1>1, <3>1 DEF SymbolTypes
      <4> QED BY <1>0, <1>5, <3>1, <4>1 DEF Begun
    <3>2. CASE f # frame
      <4>1. image_syms'[f] = image_syms[f]
        BY <1>0, <3>2 DEF SymbolTypes
      <4> QED BY <1>0, <1>4a, <4>1 DEF Begun, RefersBack
    <3> QED BY <3>1, <3>2
  <2>3. \A r \in Sets : memory'[r] # "unused" => Begun(r)'
    <3>1. \A r \in Sets : memory'[r] # "unused" => r = s \/ memory[r] # "unused"
      BY <1>2 DEF SymbolTypes
    <3> QED BY <1>4, <1>4a, <1>5, <3>1 DEF RefersBack
  <2>4. result_syms' # NoSet => Begun(result_syms)'
    BY <1>0 DEF RefersBack, Begun
  <2> QED BY <2>1, <2>2, <2>3, <2>4 DEF RefersBack
<1>7. Lives'
  BY <1>0, <1>1, <1>2 DEF Lives, s
<1>8. finalizing # NoObject => finalizing # Scanner /\ finalizing # i
  BY <1>0, <1>1 DEF Lives
<1>9. \A p \in Objects : p # Scanner /\ p # i => Refs'[p] = Refs[p]
  <2> SUFFICES ASSUME NEW p \in Objects, p # Scanner, p # i PROVE Refs'[p] = Refs[p]
    OBVIOUS
  <2>1. CASE p = Results
    BY <1>0, <2>1, ObjectsDiffer DEF Refs, Reference
  <2>2. CASE p # Results
    <3>1. p[2] \in Frames /\ p[2] # frame
      BY <2>2, ObjectsDiffer
    <3> QED BY <1>0, <2>2, <3>1, ObjectsDiffer DEF Refs, Reference, SymbolTypes
  <2> QED BY <2>1, <2>2
<1>10. finalizing \in Objects => Target("finalizer")' = Target("finalizer")
  <2> SUFFICES ASSUME finalizing \in Objects PROVE Target("finalizer")' = Target("finalizer")
    OBVIOUS
  <2>1. finalizing # NoObject
    BY ObjectsDiffer
  <2>2. Refs'[finalizing'] = Refs[finalizing]
    BY <1>0, <1>8, <1>9, <2>1
  <2> QED BY <1>0, <1>3, <1>7, <2>1, <2>2, TargetIsReference, TargetIsReferenceNext DEF Targets
<1>11. LoadedToStore'
  BY <1>0, <1>2, <1>10, ObjectsDiffer DEF LoadedToStore, SymbolTypes
<1>12. ASSUME ~raced, CountsRefs PROVE CountsRefs'
  <2>1. i \in Objects /\ i # Scanner /\ i # Results
    BY <1>1, ObjectsDiffer
  <2>2. Refs[Scanner] = NoSet /\ Refs'[Scanner] = s
    BY <1>0, ObjectsDiffer DEF Refs, Reference, s
  <2>3. Refs[i] = NoSet /\ Refs'[i] = s
    <3>1. ~Begun(frame)
      BY <1>0, <1>1 DEF Begun, Frames
    <3>2. image_syms[frame] = NoSet
      BY <1>1, <3>1 DEF RefersBack
    <3> QED BY <1>0, <1>1, <2>1, <3>2, ObjectsDiffer DEF Refs, Reference, SymbolTypes
  <2>4. Referring(Refs, s) = {}
    <3>1. CASE scanner_syms # NoSet
      BY <1>0, <1>2, <1>12, <3>1 DEF CountsRefs
    <3>2. CASE scanner_syms = NoSet
      <4>1. s = frame /\ memory[s] = "unused"
        BY <1>0, <1>1, <1>2, <3>2 DEF RefersBack, Begun, Frames
      <4> QED BY <1>2, <1>12, <4>1 DEF CountsRefs
    <3> QED BY <3>1, <3>2
  <2>5. /\ Referring(Refs', s) = {Scanner, i} /\ Cardinality(Referring(Refs', s)) = 2
        /\ \A r \in Sets : r # s => Referring(Refs', r) = Referring(Refs, r)
    BY <1>2, <1>9, <2>1, <2>2, <2>3, <2>4, TwoReferences
  <2>6. refcnt[s] = 0
    BY <1>2, <1>12, <2>4, FS_EmptySet DEF CountsRefs
  <2>7. refcnt'[s] = 2 /\ \A r \in Sets : r # s => refcnt'[r] = refcnt[r]
    BY <1>2, <1>12, <2>6 DEF SymbolTypes, CountsRefs
  <2>8. \A r \in Sets : refcnt'[r] = Cardinality(Referring(Refs', r))
    BY <1>12, <2>5, <2>7 DEF CountsRefs
  <2>9. loaded'["finalizer"] # Nothing => loaded'["finalizer"] = refcnt'[Refs'[finalizing']]
    <3> SUFFICES ASSUME loaded["finalizer"] # Nothing
                 PROVE  loaded["finalizer"] = refcnt'[Refs'[finalizing]]
      BY <1>0, <1>2
    <3>1. /\ finalizing \in Objects /\ java[finalizing] = "garbage"
          /\ Refs[finalizing] \in Sets
      BY FinalizerTarget
    <3>2. finalizing \in Referring(Refs, Refs[finalizing])
      BY <3>1 DEF Referring
    <3>3. Refs[finalizing] # s
      BY <2>4, <3>2
    <3>4. Refs'[finalizing] = Refs[finalizing]
      BY <1>8, <1>9, <3>1, ObjectsDiffer
    <3> QED BY <1>12, <2>7, <3>1, <3>3, <3>4 DEF CountsRefs
  <2>10. \A r \in Sets :
           memory'[r] = "allocated" <=> Referring(Refs', r) # {} \/ scanner_syms' = r
    <3> SUFFICES ASSUME NEW r \in Sets
                 PROVE  memory'[r] = "allocated" <=> Referring(Refs', r) # {} \/ s = r
      BY DEF s
    <3>1. memory[r] = "allocated" <=> Referring(Refs, r) # {} \/ scanner_syms = r
      BY <1>12 DEF CountsRefs
    <3>2. CASE r = s
      BY <1>2, <2>5, <3>1, <3>2 DEF SymbolTypes
    <3>3. CASE r # s
      <4>1. memory'[r] = memory[r] /\ scanner_syms # r
        BY <1>2, <3>3 DEF SymbolTypes, Sets, NoSet
      <4> QED BY <2>5, <3>1, <3>3, <4>1
    <3> QED BY <3>2, <3>3
  <2> QED BY <1>0, <1>2, <2>8, <2>9, <2>10 DEF CountsRefs
<1> QED BY <1>0, <1>3, <1>6, <1>7, <1>11, <1>12, MemoryKept

(* Java's SymbolSet gets a reference of its own.                           *)
LEMMA ResultsKeep ==
  ASSUME MemoryInv, GetResults, results' = results
  PROVE  MemoryInv'
<1> USE SymbolSetsAssumption DEF MemoryInv
<1> DEFINE s == scanner_syms
<1>0. /\ ui_pc = "results" /\ ui_pc' = "iterate"
      /\ loaded["ui"] # Nothing
      /\ refcnt' = [refcnt EXCEPT ![s] = loaded["ui"] + 1]
      /\ loaded' = [loaded EXCEPT !["ui"] = Nothing]
      /\ result_syms' = s
      /\ java' = [java EXCEPT ![Results] = "used"]
      /\ UNCHANGED <<frame, finalizing, raced, memory, scanner_syms, image_syms>>
  BY TargetIsReference DEF GetResults, Store, Targets
<1>1. s \in Sets /\ s # NoSet /\ loaded["ui"] \in Nat /\ loaded["ui"] + 1 \in Nat
  BY <1>0 DEF SymbolTypes, Lives, Threads
<1>2. /\ loaded'["ui"] = Nothing /\ loaded'["finalizer"] = loaded["finalizer"]
      /\ java'[Results] = "used" /\ \A p \in Objects : p # Results => java'[p] = java[p]
  BY <1>0, ObjectsDiffer DEF SymbolTypes, Threads
<1>3. SymbolTypes'
  BY <1>0, <1>1, ObjectsDiffer DEF SymbolTypes
<1>4. RefersBack'
  BY <1>0 DEF RefersBack, Begun
<1>5. java[Results] = "none" /\ result_syms = NoSet /\ finalizing # Results
  BY <1>0, ObjectsDiffer DEF Lives
<1>6. finalizing' # NoObject => java'[finalizing'] = "garbage"
  BY <1>0, <1>2, <1>5 DEF Lives, SymbolTypes
<1>7. \A f \in Frames : f > frame' => java'[ImageOf(f)] = "none"
  BY <1>0, <1>2, ObjectsDiffer DEF Lives
<1>8. Lives'
  BY <1>0, <1>2, <1>6, <1>7, ObjectsDiffer DEF Lives
<1>9. \A p \in Objects : p # Results => Refs'[p] = Refs[p]
  BY <1>0 DEF Refs, Reference
<1>10. LoadedToStore'
  <2>1. Target("finalizer")' = Target("finalizer") \/ finalizing = NoObject
    BY <1>0, <1>5 DEF Target
  <2> QED BY <1>0, <1>2, <2>1 DEF LoadedToStore
<1>11. ASSUME ~raced, CountsRefs PROVE CountsRefs'
  <2>1. /\ Refs[Results] = NoSet /\ Refs'[Results] = s /\ Results \in Objects
    BY <1>0, <1>5, ObjectsDiffer DEF Refs, Reference
  <2>2. Cardinality(Referring(Refs', s)) = Cardinality(Referring(Refs, s)) + 1
    BY <1>1, <1>9, <2>1, OneMore
  <2>3. \A r \in Sets : r # NoSet
    BY DEF Sets, NoSet
  <2>4. \A r \in Sets : r # s => Referring(Refs', r) = Referring(Refs, r)
    BY <1>9, <2>1, <2>3, OtherSets
  <2>5. loaded["ui"] = Cardinality(Referring(Refs, s))
    BY <1>0, <1>1, <1>11 DEF CountsRefs
  <2>6. refcnt'[s] = loaded["ui"] + 1 /\ \A r \in Sets : r # s => refcnt'[r] = refcnt[r]
    BY <1>0, <1>1 DEF SymbolTypes
  <2>7. \A r \in Sets : refcnt'[r] = Cardinality(Referring(Refs', r))
    BY <1>11, <2>2, <2>4, <2>5, <2>6 DEF CountsRefs
  <2>8. loaded'["finalizer"] # Nothing => loaded'["finalizer"] = refcnt'[Refs'[finalizing']]
    <3> SUFFICES ASSUME loaded["finalizer"] # Nothing
                 PROVE  loaded["finalizer"] = refcnt'[Refs'[finalizing]]
      BY <1>0, <1>2
    <3>1. finalizing \in Objects /\ Refs[finalizing] \in Sets
      BY FinalizerTarget
    <3>2. Refs[finalizing] # s /\ loaded["finalizer"] = refcnt[Refs[finalizing]]
      BY <1>0, <1>11 DEF CountsRefs
    <3>3. Refs'[finalizing] = Refs[finalizing]
      BY <1>5, <1>9, <3>1
    <3> QED BY <2>6, <3>1, <3>2, <3>3
  <2>9. \A r \in Sets :
          memory'[r] = "allocated" <=> Referring(Refs', r) # {} \/ scanner_syms' = r
    BY <1>0, <1>11, <2>4 DEF CountsRefs
  <2> QED BY <1>0, <1>2, <2>7, <2>8, <2>9 DEF CountsRefs
<1> QED BY <1>0, <1>3, <1>4, <1>8, <1>10, <1>11, MemoryKept

(* A count is loaded: from now on it must not change until it is stored.   *)
LEMMA LoadKeeps ==
  ASSUME MemoryInv, NEW t \in Threads, Load(t), results' = results
  PROVE  MemoryInv'
<1> USE SymbolSetsAssumption DEF MemoryInv
<1>0. /\ Counting(t) /\ loaded[t] = Nothing /\ refcnt[Target(t)] >= 0
      /\ loaded' = [loaded EXCEPT ![t] = refcnt[Target(t)]]
      /\ raced' = (raced \/ \E o \in Threads \ {t} : loaded[o] # Nothing /\ Target(o) = Target(t))
      /\ UNCHANGED <<frame, ui_pc, finalizing, memory, refcnt, scanner_syms,
                     image_syms, result_syms, java>>
  BY DEF Load
<1>1. Target(t) \in Sets /\ Target(t) # NoSet
  <2>1. CASE t = "ui"
    BY <1>0, <2>1, TargetIsReference DEF Counting, Targets, SymbolTypes
  <2>2. CASE t = "finalizer"
    <3>1. finalizing # NoObject /\ Target(t) # NoSet
      BY <1>0, <2>2 DEF Counting
    <3>2. finalizing \in Objects /\ Target(t) = Refs[finalizing]
      BY <2>2, <3>1, TargetIsReference DEF SymbolTypes, Targets
    <3> QED BY <3>1, <3>2, ObjectsDiffer DEF Refs, Reference, SymbolTypes
  <2> QED BY <2>1, <2>2 DEF Threads
<1>2. refcnt[Target(t)] \in Nat
  <2>1. refcnt[Target(t)] \in Nat \cup {-1}
    BY <1>1 DEF SymbolTypes
  <2> QED BY <1>0, <2>1
<1>3. /\ loaded'[t] = refcnt[Target(t)] /\ \A o \in Threads : o # t => loaded'[o] = loaded[o]
  BY <1>0 DEF SymbolTypes
<1>4. SymbolTypes'
  <2>1. raced' \in BOOLEAN
    BY <1>0, Zenon
  <2>2. loaded' \in [Threads -> {Nothing} \cup Nat]
    BY <1>0, <1>2 DEF SymbolTypes
  <2> QED BY <1>0, <2>1, <2>2 DEF SymbolTypes
<1>5. RefersBack' /\ Lives'
  BY <1>0 DEF RefersBack, Begun, Lives
<1>6. \A o : Target(o)' = Target(o)
  BY <1>0 DEF Target
<1>7. LoadedToStore'
  <2>1. loaded'["ui"] # Nothing => ui_pc' \in {"recycle", "take", "results"} /\ scanner_syms' # NoSet
    BY <1>0, <1>3, TargetIsReference DEF LoadedToStore, Counting, Threads, Targets
  <2>2. loaded'["finalizer"] # Nothing => finalizing' # NoObject /\ Target("finalizer")' # NoSet
    BY <1>0, <1>3, <1>6 DEF LoadedToStore, Counting, Threads
  <2> QED BY <2>1, <2>2 DEF LoadedToStore
<1>8. Refs' = Refs
  BY <1>0 DEF Refs, Reference
<1>9. ASSUME ~raced', CountsRefs PROVE CountsRefs'
  <2>1. \A o \in Threads \ {t} : loaded[o] # Nothing => Target(o) # Target(t)
    BY <1>0, <1>9
  <2>2. Target("ui") = scanner_syms
    BY TargetIsReference DEF Targets
  <2>3. loaded'["finalizer"] # Nothing => Target("finalizer") = Refs[finalizing]
    BY <1>0, <1>7, TargetIsReference DEF LoadedToStore, Targets
  <2>4. loaded'["ui"] # Nothing => loaded'["ui"] = refcnt[scanner_syms]
    BY <1>3, <1>9, <2>2 DEF CountsRefs, Threads
  <2>5. loaded'["finalizer"] # Nothing => loaded'["finalizer"] = refcnt[Refs[finalizing]]
    BY <1>3, <1>9, <2>3 DEF CountsRefs, Threads
  <2>6. loaded'["ui"] # Nothing /\ loaded'["finalizer"] # Nothing => scanner_syms # Refs[finalizing]
    BY <1>3, <2>1, <2>2, <2>3 DEF Threads
  <2> QED BY <1>0, <1>8, <1>9, <2>4, <2>5, <2>6 DEF CountsRefs
<1>10. raced => raced'
  BY <1>0, Zenon
<1> QED BY <1>4, <1>5, <1>7, <1>9, <1>10, MemoryKept

(* The finalizer takes an object up, or is done with one without a set.    *)
LEMMA FinalizerMoves ==
  ASSUME MemoryInv, (\E o \in Objects : Finalize(o)) \/ DestroyEmpty, results' = results
  PROVE  MemoryInv'
<1> USE SymbolSetsAssumption DEF MemoryInv
<1>0. UNCHANGED <<frame, ui_pc, loaded, raced, memory, refcnt, scanner_syms, image_syms, result_syms>>
  BY DEF Finalize, DestroyEmpty
<1>1. \/ finalizing' \in Objects /\ java[finalizing'] = "garbage" /\ java' = java
      \/ /\ finalizing' = NoObject /\ finalizing \in Objects
         /\ java' = [java EXCEPT ![finalizing] = "destroyed"]
  BY DEF Finalize, DestroyEmpty, Destroyed, SymbolTypes
<1>2. loaded["finalizer"] = Nothing
  BY DEF Finalize, DestroyEmpty, LoadedToStore
<1>3. SymbolTypes'
  BY <1>0, <1>1 DEF SymbolTypes
<1>4. RefersBack'
  BY <1>0 DEF RefersBack, Begun
<1>5. finalizing' = NoObject => java[finalizing] = "garbage"
  BY <1>1, ObjectsDiffer DEF Lives
<1>6. \A p \in Objects : java'[p] = java[p] \/ (java[p] = "garbage" /\ java'[p] = "destroyed")
  BY <1>1, <1>5, ObjectsDiffer DEF SymbolTypes
<1>7. finalizing' # NoObject => java'[finalizing'] = "garbage"
  BY <1>1
<1>8. Lives'
  BY <1>0, <1>6, <1>7, ObjectsDiffer DEF Lives
<1>9. LoadedToStore'
  BY <1>0, <1>2 DEF LoadedToStore
<1>10. Refs' = Refs
  BY <1>0 DEF Refs, Reference
<1>11. ASSUME CountsRefs PROVE CountsRefs'
  BY <1>0, <1>2, <1>10, <1>11, CountsRest
<1> QED BY <1>0, <1>3, <1>4, <1>8, <1>9, <1>11, MemoryKept

(* A destroyed object refers to nothing any more, the others to what they  *)
(* did.                                                                    *)
LEMMA ForgetRefs ==
  ASSUME MemoryInv, finalizing \in Objects, java[finalizing] = "garbage", Forget, ui_pc' = ui_pc
  PROVE  /\ Refs'[finalizing] = NoSet
         /\ \A p \in Objects : p # finalizing => Refs'[p] = Refs[p]
<1> USE DEF MemoryInv
<1>1. /\ scanner_syms' = IF finalizing = Scanner THEN NoSet ELSE scanner_syms
      /\ result_syms' = IF finalizing = Results THEN NoSet ELSE result_syms
      /\ \A f \in Frames :
           image_syms'[f] = IF finalizing = ImageOf(f) THEN NoSet ELSE image_syms[f]
  BY DEF Forget
<1>2. Refs'[finalizing] = NoSet
  BY <1>1, ObjectsDiffer DEF Refs, Reference
<1>3. ASSUME NEW p \in Objects, p # finalizing PROVE Refs'[p] = Refs[p]
  <2>1. CASE p = Scanner
    BY <1>1, <1>3, <2>1, ObjectsDiffer DEF Refs, Reference
  <2>2. CASE p = Results
    BY <1>1, <1>3, <2>2, ObjectsDiffer DEF Refs, Reference
  <2>3. CASE p # Scanner /\ p # Results
    <3>1. p[2] \in Frames /\ p = ImageOf(p[2])
      BY <2>3, ObjectsDiffer
    <3>2. image_syms'[p[2]] = image_syms[p[2]]
      BY <1>1, <1>3, <3>1
    <3> QED BY <2>3, <3>2 DEF Refs, Reference
  <2> QED BY <2>1, <2>2, <2>3
<1> QED BY <1>2, <1>3

(* What the finalizer does to the structure when it destroys an object     *)
(* that has a set, whatever becomes of the set.                            *)
LEMMA DestroyedKeeps ==
  ASSUME MemoryInv, finalizing \in Objects, java[finalizing] = "garbage", Forget, Destroyed,
         NEW s \in Sets, Begun(s),
         memory' = [memory EXCEPT ![s] = "freed"] \/ memory' = memory,
         refcnt' \in [Sets -> Nat \cup {-1}],
         loaded' = [loaded EXCEPT !["finalizer"] = Nothing],
         UNCHANGED <<frame, ui_pc, raced, results>>
  PROVE  SymbolTypes' /\ RefersBack' /\ Lives' /\ LoadedToStore'
<1> USE SymbolSetsAssumption DEF MemoryInv
<1>0. /\ scanner_syms' = IF finalizing = Scanner THEN NoSet ELSE scanner_syms
      /\ result_syms' = IF finalizing = Results THEN NoSet ELSE result_syms
      /\ image_syms' = [f \in Frames |-> IF finalizing = ImageOf(f) THEN NoSet ELSE image_syms[f]]
      /\ finalizing' = NoObject
      /\ java' = [java EXCEPT ![finalizing] = "destroyed"]
  BY DEF Forget, Destroyed
<1>1. SymbolTypes'
  BY <1>0 DEF SymbolTypes, NoSet
<1>2. \A r : Begun(r)' <=> Begun(r)
  BY DEF Begun
<1>3. RefersBack'
  <2>1. \A r \in Sets : memory'[r] # "unused" => Begun(r)
    BY DEF SymbolTypes, RefersBack
  <2>2. \A f \in Frames : image_syms'[f] # NoSet => Begun(f)' /\ Begun(image_syms[f])'
    BY <1>0, <1>2 DEF RefersBack, Begun
  <2>3. /\ scanner_syms' # NoSet => Begun(scanner_syms)'
        /\ result_syms' # NoSet => Begun(result_syms)'
    BY <1>0 DEF RefersBack, Begun
  <2> QED BY <1>2, <2>1, <2>2, <2>3 DEF RefersBack
<1>4. \A p \in Objects : java'[p] = java[p] \/ (java[p] = "garbage" /\ java'[p] = "destroyed")
  BY <1>0 DEF SymbolTypes
<1>5. finalizing = Scanner => ui_pc = "destroyed"
  BY DEF Lives
<1>6. Lives'
  BY <1>0, <1>4, <1>5, ObjectsDiffer DEF Lives
<1>7. loaded'["finalizer"] = Nothing /\ loaded'["ui"] = loaded["ui"]
  BY DEF SymbolTypes, Threads
<1>8. LoadedToStore'
  BY <1>0, <1>5, <1>7 DEF LoadedToStore
<1> QED BY <1>1, <1>3, <1>6, <1>8

(* The last reference frees the set, and only the last.                    *)
LEMMA ReleaseKeeps ==
  ASSUME MemoryInv, Release, results' = results
  PROVE  MemoryInv'
<1> USE SymbolSetsAssumption DEF MemoryInv
<1> DEFINE s == Refs[finalizing]
           n == loaded["finalizer"]
<1>0. /\ n # Nothing
      /\ refcnt' = [refcnt EXCEPT ![Target("finalizer")] = n + (-1)]
      /\ memory' = [memory EXCEPT ![Target("finalizer")] = IF n = 1 THEN "freed" ELSE @]
      /\ loaded' = [loaded EXCEPT !["finalizer"] = Nothing]
      /\ Forget /\ Destroyed
      /\ UNCHANGED <<frame, ui_pc, raced>>
  BY DEF Release, Store
<1>1. /\ finalizing \in Objects /\ java[finalizing] = "garbage" /\ finalizing # NoObject
      /\ s \in Sets /\ s # NoSet /\ Target("finalizer") = s /\ n \in Nat
  BY <1>0, FinalizerTarget, ObjectsDiffer
<1>2. /\ refcnt' = [refcnt EXCEPT ![s] = n + (-1)]
      /\ memory' = [memory EXCEPT ![s] = IF n = 1 THEN "freed" ELSE memory[s]]
  BY <1>0, <1>1
<1>3. Begun(s)
  BY <1>1, ObjectsDiffer DEF RefersBack, Refs, Reference
<1>4. /\ Refs'[finalizing] = NoSet
      /\ \A p \in Objects : p # finalizing => Refs'[p] = Refs[p]
  BY <1>0, <1>1, ForgetRefs
<1>5. scanner_syms' = IF finalizing = Scanner THEN NoSet ELSE scanner_syms
  BY <1>0 DEF Forget
<1>6. finalizing = Scanner => scanner_syms = s /\ ui_pc = "destroyed"
  BY <1>1 DEF Lives, Refs, Reference
<1> HIDE DEF s, n
<1>7. refcnt' \in [Sets -> Nat \cup {-1}]
  <2>1. n + (-1) \in Nat \cup {-1}
    BY <1>1
  <2> QED BY <1>1, <1>2, <2>1 DEF SymbolTypes
<1>8. memory' = [memory EXCEPT ![s] = "freed"] \/ memory' = memory
  BY <1>1, <1>2 DEF SymbolTypes
<1>9. SymbolTypes' /\ RefersBack' /\ Lives' /\ LoadedToStore'
  BY <1>0, <1>1, <1>3, <1>7, <1>8, DestroyedKeeps
<1>10. ASSUME ~raced, CountsRefs PROVE CountsRefs'
  <2>1. Cardinality(Referring(Refs', s)) = Cardinality(Referring(Refs, s)) - 1
    BY <1>1, <1>4, OneLess DEF s
  <2>2. \A r \in Sets : r # NoSet
    BY DEF Sets, NoSet
  <2>3. \A r \in Sets : r # s => Referring(Refs', r) = Referring(Refs, r)
    BY <1>1, <1>4, <2>2, OtherSets DEF s
  <2>4. n = Cardinality(Referring(Refs, s))
    BY <1>0, <1>1, <1>10 DEF CountsRefs, s, n
  <2>5. refcnt'[s] = n - 1 /\ \A r \in Sets : r # s => refcnt'[r] = refcnt[r]
    BY <1>1, <1>2 DEF SymbolTypes
  <2>6. \A r \in Sets : refcnt'[r] = Cardinality(Referring(Refs', r))
    BY <1>1, <1>10, <2>1, <2>3, <2>4, <2>5 DEF CountsRefs
  <2>7. loaded'["finalizer"] = Nothing /\ loaded'["ui"] = loaded["ui"]
    BY <1>0 DEF SymbolTypes, Threads
  <2>8. loaded'["ui"] # Nothing => loaded'["ui"] = refcnt'[scanner_syms']
    <3> SUFFICES ASSUME loaded["ui"] # Nothing PROVE loaded["ui"] = refcnt'[scanner_syms']
      BY <2>7
    <3>1. scanner_syms' = scanner_syms /\ scanner_syms \in Sets
      BY <1>5, <1>6 DEF LoadedToStore, SymbolTypes
    <3>2. scanner_syms # s /\ loaded["ui"] = refcnt[scanner_syms]
      BY <1>0, <1>10 DEF CountsRefs, s, n
    <3> QED BY <2>5, <3>1, <3>2
  <2>9. finalizing \in Referring(Refs, s)
    BY <1>1 DEF Referring, s
  <2>10. Referring(Refs', s) = {} <=> n = 1
    BY <1>1, <2>1, <2>4, ReferringCount
  <2>11. scanner_syms' # s \/ Referring(Refs', s) # {}
    <3> SUFFICES ASSUME scanner_syms' = s PROVE Referring(Refs', s) # {}
      OBVIOUS
    <3>1. finalizing # Scanner /\ scanner_syms = s
      BY <1>1, <1>5
    <3>2. ui_pc # "take"
      BY <1>1, <1>10, <2>9, <3>1 DEF CountsRefs
    <3>3. Refs[Scanner] = s /\ Scanner \in Objects
      BY <3>1, <3>2, ObjectsDiffer DEF Refs, Reference
    <3>4. Refs'[Scanner] = s
      BY <1>4, <3>1, <3>3
    <3> QED BY <3>3, <3>4 DEF Referring
  <2>12. \A r \in Sets :
           memory'[r] = "allocated" <=> Referring(Refs', r) # {} \/ scanner_syms' = r
    <3> SUFFICES ASSUME NEW r \in Sets
                 PROVE  memory'[r] = "allocated" <=> Referring(Refs', r) # {} \/ scanner_syms' = r
      OBVIOUS
    <3>1. memory[r] = "allocated" <=> Referring(Refs, r) # {} \/ scanner_syms = r
      BY <1>10 DEF CountsRefs
    <3>2. CASE r = s
      <4>1. memory[s] = "allocated"
        BY <2>9, <3>1, <3>2
      <4>2. memory'[s] = IF n = 1 THEN "freed" ELSE memory[s]
        BY <1>1, <1>2 DEF SymbolTypes
      <4> QED BY <2>10, <2>11, <3>2, <4>1, <4>2
    <3>3. CASE r # s
      <4>1. memory'[r] = memory[r]
        BY <1>2, <3>3 DEF SymbolTypes
      <4>2. scanner_syms' = r <=> scanner_syms = r
        BY <1>5, <1>6, <2>2, <3>3
      <4> QED BY <2>3, <3>1, <3>3, <4>1, <4>2
    <3> QED BY <3>2, <3>3
  <2>13. ui_pc' = "take" /\ scanner_syms' # NoSet => Referring(Refs', scanner_syms') = {}
    <3> SUFFICES ASSUME ui_pc = "take", scanner_syms' # NoSet
                 PROVE  Referring(Refs', scanner_syms') = {}
      BY <1>0
    <3>1. scanner_syms' = scanner_syms /\ Referring(Refs, scanner_syms) = {} /\ scanner_syms \in Sets
      BY <1>5, <1>10 DEF CountsRefs, SymbolTypes
    <3>2. scanner_syms # s
      BY <2>9, <3>1
    <3> QED BY <2>3, <3>1, <3>2
  <2> QED BY <2>6, <2>7, <2>8, <2>12, <2>13 DEF CountsRefs
<1> QED BY <1>0, <1>9, <1>10, MemoryKept

(* A set without a count is only ever found after a race.                  *)
LEMMA UncountedKeeps ==
  ASSUME MemoryInv, FreeUncounted, results' = results
  PROVE  MemoryInv'
<1> USE SymbolSetsAssumption DEF MemoryInv
<1>0. /\ finalizing = Scanner /\ scanner_syms # NoSet /\ refcnt[scanner_syms] = 0
      /\ memory' = [memory EXCEPT ![scanner_syms] = "freed"]
      /\ loaded["finalizer"] = Nothing
      /\ Forget /\ Destroyed
      /\ UNCHANGED <<frame, ui_pc, loaded, raced, refcnt>>
  BY DEF FreeUncounted
<1>1. finalizing \in Objects /\ java[finalizing] = "garbage" /\ ui_pc = "destroyed"
  BY <1>0, ObjectsDiffer DEF Lives
<1>2. scanner_syms \in Sets /\ Begun(scanner_syms)
  BY <1>0 DEF SymbolTypes, RefersBack
<1>3. loaded' = [loaded EXCEPT !["finalizer"] = Nothing] /\ refcnt' \in [Sets -> Nat \cup {-1}]
  BY <1>0 DEF SymbolTypes, Threads
<1>4. SymbolTypes' /\ RefersBack' /\ Lives' /\ LoadedToStore'
  BY <1>0, <1>1, <1>2, <1>3, DestroyedKeeps
<1>5. ~CountsRefs
  <2>1. Scanner \in Referring(Refs, scanner_syms)
    BY <1>0, <1>1 DEF Referring, Refs, Reference
  <2> QED BY <1>0, <1>2, <2>1, ReferringCount DEF CountsRefs
<1> QED BY <1>0, <1>4, <1>5, MemoryKept

(* Nothing of the scanner's memory changes.                                *)
LEMMA MemoryRests == ASSUME MemoryInv, UNCHANGED symbolVars, results' = results PROVE MemoryInv'
<1> USE DEF MemoryInv, symbolVars
<1>1. SymbolTypes'
  BY DEF SymbolTypes
<1>2. RefersBack' /\ Lives'
  BY DEF RefersBack, Begun, Lives
<1>3. LoadedToStore'
  BY DEF LoadedToStore, Target
<1>4. Refs' = Refs
  BY DEF Refs, Reference
<1>5. ASSUME CountsRefs PROVE CountsRefs'
  BY <1>4, <1>5, CountsRest
<1> QED BY <1>1, <1>2, <1>3, <1>5, MemoryKept

(* Only a code that is found is counted.                                   *)
LEMMA CallbacksKeepResults == Callback => results' = results
BY Zenon DEF Callback, OnStart, OnRequestPermissionsResult, OnResume, OnPause, OnStop, BackKey,
             DoAutoFocus, OnAutoFocus, SurfaceCreated, SurfaceChanged, SurfaceDestroyed,
             DoScanGuts, Dies, Moves, Leaves

(* MemoryInv is inductive, given the invariant of the activity. *)
LEMMA MemoryStep == SessionInv /\ MemoryInv /\ [ScanNext]_scanVars => MemoryInv'
<1> SUFFICES ASSUME SessionInv, MemoryInv, [ScanNext]_scanVars
             PROVE  MemoryInv'
  OBVIOUS
<1>1. CASE CallBack
  BY <1>1, MemoryRests, CallbacksKeepResults DEF CallBack
<1>2. CASE BeginFrame
  BY <1>2, NewImageKeeps DEF BeginFrame, sessionVars
<1>3. ASSUME NEW s \in Sessions, ScanCode(s) PROVE MemoryInv'
  <2>1. results = 0 /\ results' # 0
    BY <1>3 DEF ScanCode, OnPreviewFrame, Watching, SessionInv, LastResult
  <2>2. Lives
    BY DEF MemoryInv
  <2>3. ui_pc = "scan" /\ ui_pc' = "results" /\ frame \in Frames /\ java[ImageOf(frame)] = "used"
    BY <1>3, <2>2 DEF ScanCode, Scan, Lives
  <2>4. java[Results] = "none" /\ ImageOf(frame) \in Objects
    BY <2>1, <2>2, <2>3, ObjectsDiffer DEF Lives
  <2>5. /\ Discard(ImageOf(frame))
        /\ UNCHANGED <<frame, finalizing, loaded, raced, memory, refcnt, scanner_syms,
                       image_syms, result_syms>>
    BY <1>3 DEF ScanCode, Scan
  <2> QED BY <2>1, <2>3, <2>4, <2>5, DiscardKeeps
<1>4. ASSUME GoOn \/ Destroy PROVE results' = results
  BY <1>4, Zenon DEF GoOn, sessionVars, Destroy, OnDestroy, Leaves, Moves
<1>5. ASSUME GoOn, Scan, ui_pc' = "idle" PROVE MemoryInv'
  <2>1. Lives
    BY DEF MemoryInv
  <2>2. ui_pc = "scan" /\ frame \in Frames /\ java[ImageOf(frame)] = "used"
    BY <1>5, <2>1 DEF Scan, Lives
  <2>3. /\ Discard(ImageOf(frame))
        /\ UNCHANGED <<frame, finalizing, loaded, raced, memory, refcnt, scanner_syms,
                       image_syms, result_syms>>
    BY <1>5 DEF Scan
  <2> QED BY <1>4, <1>5, <2>2, <2>3, DiscardKeeps, ObjectsDiffer
<1>6. ASSUME GoOn, Iterated PROVE MemoryInv'
  <2>1. ui_pc = "iterate" /\ ui_pc' = "idle" /\ java[Results] = "used"
    BY <1>6 DEF Iterated, MemoryInv, Lives
  <2>2. /\ Discard(Results)
        /\ UNCHANGED <<frame, finalizing, loaded, raced, memory, refcnt, scanner_syms,
                       image_syms, result_syms>>
    BY <1>6 DEF Iterated
  <2> QED BY <1>4, <1>6, <2>1, <2>2, DiscardKeeps, ObjectsDiffer
<1>7. CASE GoOn
  <2>1. CASE Load("ui")
    BY <1>4, <1>7, <2>1, LoadKeeps DEF Threads
  <2>2. CASE RecycleSyms
    BY <1>4, <1>7, <2>2, RecycleKeeps
  <2>3. CASE CreateSyms \/ ReuseSyms
    BY <1>4, <1>7, <2>3, TakeKeeps
  <2>4. CASE GetResults
    BY <1>4, <1>7, <2>4, ResultsKeep
  <2> QED BY <1>5, <1>6, <1>7, <2>1, <2>2, <2>3, <2>4, Zenon DEF GoOn, FrameStep
<1>8. CASE Destroy
  <2>1. ui_pc = "idle" /\ ui_pc' = "destroyed" /\ java[Scanner] = "used"
    BY <1>8 DEF Destroy, LeaveActivity, MemoryInv, Lives
  <2>2. /\ Discard(Scanner)
        /\ UNCHANGED <<frame, finalizing, loaded, raced, memory, refcnt, scanner_syms,
                       image_syms, result_syms>>
    BY <1>8 DEF Destroy, LeaveActivity
  <2> QED BY <1>4, <1>8, <2>1, <2>2, DiscardKeeps, ObjectsDiffer
<1>9. CASE Collect
  <2>1. results' = results
    BY <1>9, Zenon DEF Collect, sessionVars
  <2>2. CASE Load("finalizer")
    BY <2>1, <2>2, LoadKeeps DEF Threads
  <2>3. CASE (\E o \in Objects : Finalize(o)) \/ DestroyEmpty
    BY <2>1, <2>3, FinalizerMoves
  <2>4. CASE Release
    BY <2>1, <2>4, ReleaseKeeps
  <2>5. CASE FreeUncounted
    BY <2>1, <2>5, UncountedKeeps
  <2> QED BY <1>9, <2>2, <2>3, <2>4, <2>5, Zenon DEF Collect, FinalizerStep
<1>10. CASE UNCHANGED scanVars
  BY <1>10, MemoryRests DEF scanVars, sessionVars
<1> QED BY <1>1, <1>2, <1>3, <1>7, <1>8, <1>9, <1>10, Zenon DEF ScanNext

(* MemoryInv holds of the composition. *)
LEMMA MemoryInvariant == ScanSpec => []MemoryInv
BY MemoryInitially, MemoryStep, SessionInvariant, ScanImplementsSession, PTL DEF ScanSpec

(* Whatever the order in which the finalizer thread destroys the images,   *)
(* the SymbolSet and the scanner, and whatever it does in the middle of a  *)
(* frame: the count of every symbol set of zbar is the number of its       *)
(* references, unless two threads have been counting on one set at once.   *)
THEOREM CountsExactUnlessRaced == ScanSpec => []ExactUnlessRaced
<1>1. MemoryInv => ExactUnlessRaced
  BY Zenon DEF MemoryInv, Counted, ExactUnlessRaced
<1> QED BY <1>1, MemoryInvariant, PTL

(* With the same exception no set is freed while it is referred to, and    *)
(* none is left allocated that nothing refers to.                          *)
THEOREM NoSetLostOrLeaked == ScanSpec => []AllocatedIffHeld
<1>1. MemoryInv => AllocatedIffHeld
  BY Zenon DEF MemoryInv, Counted, AllocatedIffHeld
<1> QED BY <1>1, MemoryInvariant, PTL

-----------------------------------------------------------------------------
(* A frame is looked at within one onPreviewFrame.                         *)
WithinFrame == ~UiFree => Alive /\ mCamera # None

(* Only onPreviewFrame itself runs while a frame is looked at. *)
LEMMA WithinFrameStep == WithinFrame /\ [ScanNext]_scanVars => WithinFrame'
<1> SUFFICES ASSUME WithinFrame, [ScanNext]_scanVars
             PROVE  WithinFrame'
  OBVIOUS
<1>1. CASE CallBack
  <2>1. UiFree /\ ui_pc' = ui_pc
    BY <1>1, Zenon DEF CallBack, symbolVars
  <2> QED BY <2>1 DEF WithinFrame, UiFree
<1>2. CASE BeginFrame
  <2>1. Alive /\ mCamera # None /\ died' = died /\ mCamera' = mCamera
    BY <1>2, Zenon DEF BeginFrame, Watching, sessionVars
  <2> QED BY <2>1 DEF WithinFrame, Alive
<1>3. ASSUME NEW s \in Sessions, ScanCode(s) PROVE WithinFrame'
  <2>1. Alive /\ mCamera # None /\ died' = died /\ mCamera' = mCamera
    BY <1>3, Zenon DEF ScanCode, OnPreviewFrame, CameraCallback, Watching
  <2> QED BY <2>1 DEF WithinFrame, Alive
<1>4. CASE GoOn
  <2>1. died' = died /\ mCamera' = mCamera
    BY <1>4, Zenon DEF GoOn, sessionVars
  <2>2. ~UiFree' => ~UiFree
    BY <1>4 DEF GoOn, FrameStep, Load, Counting, RecycleSyms, CreateSyms, ReuseSyms, GetResults,
                Iterated, Scan, UiFree
  <2> QED BY <2>1, <2>2 DEF WithinFrame, Alive
<1>5. CASE Destroy
  BY <1>5 DEF Destroy, LeaveActivity, WithinFrame, UiFree
<1>6. CASE Collect
  <2>1. died' = died /\ mCamera' = mCamera
    BY <1>6, Zenon DEF Collect, sessionVars
  <2>2. ui_pc' = ui_pc
    BY <1>6, Zenon DEF Collect, FinalizerStep, Load, Finalize, DestroyEmpty, Release, FreeUncounted
  <2> QED BY <2>1, <2>2 DEF WithinFrame, Alive, UiFree
<1>7. CASE UNCHANGED scanVars
  <2>1. died' = died /\ mCamera' = mCamera /\ ui_pc' = ui_pc
    BY <1>7, Zenon DEF scanVars, sessionVars, symbolVars
  <2> QED BY <2>1 DEF WithinFrame, Alive, UiFree
<1> QED BY <1>1, <1>2, <1>3, <1>4, <1>5, <1>6, <1>7, Zenon DEF ScanNext

(* The types of the activity's fields that are true or false.              *)
FlagTypes ==
  /\ finishing \in BOOLEAN /\ previewing \in BOOLEAN /\ focus_posted \in BOOLEAN
  /\ callback \in [Sessions -> BOOLEAN] /\ focusing \in [Sessions -> BOOLEAN]
  /\ been_destroyed \in [Sessions -> BOOLEAN]

(* The types of the others, as far as SessionInv does not say them.        *)
FieldTypes ==
  /\ lifecycle \in {"onCreate", "onStart", "onResume", "onPause", "onStop", "onDestroy"}
  /\ permission \in {"none", "asking", "granted", "denied"}
  /\ surface \in [Sessions -> {"none", "created", "destroyed"}]
  /\ died \in Reasons
  /\ mCamera # None => camera[mCamera] = "open"

(* The flags of the activity keep their types. *)
LEMMA FlagStep == SessionInv /\ FlagTypes /\ [SessionNext]_sessionVars => FlagTypes'
<1> SUFFICES ASSUME SessionInv, FlagTypes, [SessionNext]_sessionVars
             PROVE  FlagTypes'
  OBVIOUS
<1>1. finishing' \in BOOLEAN
  <2>1. finishing' = finishing \/ finishing' = TRUE
    BY Zenon DEF SessionNext, Callback, OnStart, OnRequestPermissionsResult, OnResume, OnPause,
          OnStop, OnDestroy, BackKey, DoAutoFocus, OnAutoFocus, SurfaceCreated, SurfaceChanged,
          SurfaceDestroyed, DoScanGuts, Dies, Moves, Leaves, OnPreviewFrame, sessionVars
  <2> QED BY <2>1, Zenon DEF FlagTypes
<1>2. previewing' \in BOOLEAN
  <2>1. previewing' = previewing \/ previewing' = TRUE \/ previewing' = FALSE
    BY Zenon DEF SessionNext, Callback, OnStart, OnRequestPermissionsResult, OnResume, OnPause,
          OnStop, OnDestroy, BackKey, DoAutoFocus, OnAutoFocus, SurfaceCreated, SurfaceChanged,
          SurfaceDestroyed, DoScanGuts, Dies, Moves, Leaves, ReleaseCamera, Released,
          OnPreviewFrame, sessionVars
  <2> QED BY <2>1, Zenon DEF FlagTypes
<1>3. focus_posted' \in BOOLEAN
  <2>1. focus_posted' = focus_posted \/ focus_posted' \in BOOLEAN
    BY Zenon DEF SessionNext, Callback, OnStart, OnRequestPermissionsResult, OnResume, OnPause,
          OnStop, OnDestroy, BackKey, DoAutoFocus, OnAutoFocus, SurfaceCreated, SurfaceChanged,
          SurfaceDestroyed, DoScanGuts, Dies, Moves, Leaves, OnPreviewFrame, sessionVars
  <2> QED BY <2>1, Zenon DEF FlagTypes
<1>4. callback' \in [Sessions -> BOOLEAN]
  <2>1. callback' = callback
        \/ \E s : \E b \in BOOLEAN : callback' = [callback EXCEPT ![s] = b]
    BY Zenon DEF SessionNext, Callback, OnStart, OnRequestPermissionsResult, OnResume, OnPause,
          OnStop, OnDestroy, BackKey, DoAutoFocus, OnAutoFocus, SurfaceCreated, SurfaceChanged,
          SurfaceDestroyed, DoScanGuts, Dies, Moves, Leaves, ReleaseCamera, Released,
          OnPreviewFrame, sessionVars, cameraVars
  <2> QED BY <2>1, Zenon DEF FlagTypes
<1>5. focusing' \in [Sessions -> BOOLEAN]
  <2>1. focusing' = focusing
        \/ \E s : \E b \in BOOLEAN : focusing' = [focusing EXCEPT ![s] = b]
    BY Zenon DEF SessionNext, Callback, OnStart, OnRequestPermissionsResult, OnResume, OnPause,
          OnStop, OnDestroy, BackKey, DoAutoFocus, OnAutoFocus, SurfaceCreated, SurfaceChanged,
          SurfaceDestroyed, DoScanGuts, Dies, Moves, Leaves, OnPreviewFrame, sessionVars, cameraVars
  <2> QED BY <2>1, Zenon DEF FlagTypes
<1>6. been_destroyed' \in [Sessions -> BOOLEAN]
  <2>1. been_destroyed' = been_destroyed
        \/ \E s : \E b \in BOOLEAN : been_destroyed' = [been_destroyed EXCEPT ![s] = b]
    BY Zenon DEF SessionNext, Callback, OnStart, OnRequestPermissionsResult, OnResume, OnPause,
          OnStop, OnDestroy, BackKey, DoAutoFocus, OnAutoFocus, SurfaceCreated, SurfaceChanged,
          SurfaceDestroyed, DoScanGuts, Dies, Moves, Leaves, OnPreviewFrame, sessionVars, surfaceVars,
          CameraCallback
  <2> QED BY <2>1, Zenon DEF FlagTypes
<1> QED BY <1>1, <1>2, <1>3, <1>4, <1>5, <1>6, Zenon DEF FlagTypes

(* So do its other fields. *)
LEMMA FieldStep == SessionInv /\ FieldTypes /\ [SessionNext]_sessionVars => FieldTypes'
<1> SUFFICES ASSUME SessionInv, FieldTypes, [SessionNext]_sessionVars
             PROVE  FieldTypes'
  OBVIOUS
<1>1. lifecycle' \in {"onCreate", "onStart", "onResume", "onPause", "onStop", "onDestroy"}
  <2>1. lifecycle' \in {lifecycle, "onStart", "onResume", "onPause", "onStop", "onDestroy"}
    BY Zenon DEF SessionNext, Callback, OnStart, OnRequestPermissionsResult, OnResume,
          OnPause, OnStop, OnDestroy, BackKey, DoAutoFocus, OnAutoFocus, SurfaceCreated,
          SurfaceChanged, SurfaceDestroyed, DoScanGuts, Dies, Moves, Leaves, OnPreviewFrame,
          CameraCallback, SurfaceCallback, sessionVars
  <2> QED BY <2>1 DEF FieldTypes
<1>2. permission' \in {"none", "asking", "granted", "denied"}
  <2>1. permission' \in {permission, "asking", "granted", "denied"}
    BY Zenon DEF SessionNext, Callback, OnStart, OnRequestPermissionsResult, OnResume,
          OnPause, OnStop, OnDestroy, BackKey, DoAutoFocus, OnAutoFocus, SurfaceCreated,
          SurfaceChanged, SurfaceDestroyed, DoScanGuts, Dies, Moves, Leaves, OnPreviewFrame,
          CameraCallback, SurfaceCallback, sessionVars
  <2> QED BY <2>1 DEF FieldTypes
<1>3. surface' \in [Sessions -> {"none", "created", "destroyed"}]
  <2>1. surface' = surface
        \/ \E s : \E v \in {"created", "destroyed"} : surface' = [surface EXCEPT ![s] = v]
    BY Zenon DEF SessionNext, Callback, OnStart, OnRequestPermissionsResult, OnResume,
          OnPause, OnStop, OnDestroy, BackKey, DoAutoFocus, OnAutoFocus, SurfaceCreated,
          SurfaceChanged, SurfaceDestroyed, DoScanGuts, Dies, Moves, Leaves, OnPreviewFrame,
          CameraCallback, SurfaceCallback, sessionVars, surfaceVars
  <2> QED BY <2>1 DEF FieldTypes
<1>4. died' \in Reasons
  <2>1. died' \in {died, "null camera", "empty grant results", "released camera",
                   "focus without preview", "broken preview"}
    BY Zenon DEF SessionNext, Callback, OnStart, OnRequestPermissionsResult, OnResume,
          OnPause, OnStop, OnDestroy, BackKey, DoAutoFocus, OnAutoFocus, SurfaceCreated,
          SurfaceChanged, SurfaceDestroyed, DoScanGuts, Dies, Moves, Leaves, OnPreviewFrame,
          CameraCallback, SurfaceCallback, sessionVars
  <2> QED BY <2>1 DEF FieldTypes, Reasons
<1>5. mCamera' # None => camera'[mCamera'] = "open"
  <2>1. \/ UNCHANGED <<mCamera, camera>>
        \/ mCamera' = None
        \/ /\ mCamera' = sessions + 1 /\ sessions < MaxSessions
           /\ camera' = [camera EXCEPT ![sessions + 1] = "open"]
    BY Zenon DEF SessionNext, Callback, OnStart, OnRequestPermissionsResult, OnResume,
          OnPause, OnStop, OnDestroy, BackKey, DoAutoFocus, OnAutoFocus, SurfaceCreated,
          SurfaceChanged, SurfaceDestroyed, DoScanGuts, Dies, Moves, Leaves, OnPreviewFrame,
          CameraCallback, SurfaceCallback, sessionVars, cameraVars,
          ReleaseCamera
  <2>2. sessions < MaxSessions => sessions + 1 \in Sessions
    BY SessionAssumption DEF SessionInv, Typed, Sessions
  <2> QED BY <2>1, <2>2 DEF FieldTypes, SessionInv, Typed
<1> QED BY <1>1, <1>2, <1>3, <1>4, <1>5 DEF FieldTypes

(* So does all of ScanActivity with its camera. *)
LEMMA SessionTypes == SessionSpec => []SessionTypeOK
<1>1. SessionInit => FlagTypes /\ FieldTypes
  <2> SUFFICES ASSUME SessionInit PROVE FlagTypes /\ FieldTypes
    OBVIOUS
  <2>1. FlagTypes
    BY Zenon DEF SessionInit, FlagTypes
  <2>2. FieldTypes
    BY DEF SessionInit, FieldTypes, Reasons
  <2> QED BY <2>1, <2>2
<1>2. SessionInv /\ FlagTypes /\ FieldTypes => SessionTypeOK
  <2> SUFFICES ASSUME SessionInv, FlagTypes, FieldTypes PROVE SessionTypeOK
    OBVIOUS
  <2>1. /\ sessions \in 0..MaxSessions
        /\ camera \in [Sessions -> {"none", "open", "released"}]
        /\ preview \in [Sessions -> {"off", "on", "broken"}]
        /\ mCamera \in {None} \cup 1..sessions
    BY DEF SessionInv, Typed
  <2>2. results \in Nat
    BY DEF SessionInv, LastResult
  <2> QED BY <2>1, <2>2, Zenon DEF SessionTypeOK, FlagTypes, FieldTypes
<1> QED BY <1>1, <1>2, FlagStep, FieldStep, SessionInvariant, PTL DEF SessionSpec

(* Every field of ScanActivity, CameraPreview and the scanner keeps its    *)
(* type, assert(rc >= 0) of _zbar_refcnt holds unless two threads have     *)
(* raced, and while a frame is looked at the camera is held.               *)
THEOREM ScanTypesHold == ScanSpec => []ScanTypeOK
<1>1. ScanInit => WithinFrame
  BY DEF ScanInit, SymbolInit, WithinFrame, UiFree
<1>2. MemoryInv => SymbolTypeOK
  <2> SUFFICES ASSUME MemoryInv PROVE SymbolTypeOK
    OBVIOUS
  <2>1. SymbolTypes
    BY DEF MemoryInv
  <2>2. refcnt \in [Sets -> IF raced THEN Nat \cup {-1} ELSE Nat]
    <3>1. CASE raced
      BY <2>1, <3>1 DEF SymbolTypes
    <3>2. CASE ~raced
      <4>1. CountsRefs
        BY <3>2, CountedMeans, Zenon DEF MemoryInv
      <4>2. \A s \in Sets : refcnt[s] \in Nat
        BY <4>1, ReferringCount DEF CountsRefs
      <4> QED BY <2>1, <3>2, <4>2 DEF SymbolTypes
    <3> QED BY <3>1, <3>2
  <2> QED BY <2>1, <2>2, Zenon DEF SymbolTypes, SymbolTypeOK
<1>3. SessionTypeOK /\ SymbolTypeOK /\ WithinFrame => ScanTypeOK
  BY DEF ScanTypeOK, WithinFrame
<1> QED BY <1>1, <1>2, <1>3, WithinFrameStep, MemoryInvariant, SessionTypes,
           ScanImplementsSession, PTL DEF ScanSpec
=============================================================================
