-------------------------------- MODULE QrScan --------------------------------
(***************************************************************************)
(* ScanActivity with its camera and its scanner: CameraSession says when a *)
(* frame is looked at, SymbolSets what looking at it does to the scanner's *)
(* memory.  onPreviewFrame runs to its end on the UI thread before another *)
(* callback of the activity; the finalizer thread runs beside both.        *)
(***************************************************************************)
EXTENDS CameraSession, SymbolSets

scanVars == <<sessionVars, symbolVars>>

ScanInit == SessionInit /\ SymbolInit

(* No frame is being looked at. *)
UiFree == ui_pc \in {"idle", "destroyed"}

(* Another callback. *)
CallBack ==
  /\ UiFree
  /\ Callback
  /\ UNCHANGED symbolVars

(* onPreviewFrame begins, for a camera that has a callback. *)
BeginFrame ==
  /\ Alive
  /\ \E s \in Sessions : callback[s]
  /\ Watching
  /\ NewImage
  /\ UNCHANGED sessionVars

(* scanImage finds a code, and the frames end ... *)
ScanCode(s) ==
  /\ Scan
  /\ ui_pc' = "results"
  /\ OnPreviewFrame(s)

(* ... or finds none, or there is another step within onPreviewFrame.      *)
GoOn ==
  /\ FrameStep \/ (Scan /\ ui_pc' = "idle")
  /\ UNCHANGED sessionVars

(* The activity is gone, and its scanner with it. *)
Destroy == OnDestroy /\ LeaveActivity

(* The finalizer thread, as long as the app runs. *)
Collect ==
  /\ Alive
  /\ FinalizerStep
  /\ UNCHANGED sessionVars

ScanNext ==
  \/ CallBack
  \/ BeginFrame
  \/ \E s \in Sessions : ScanCode(s)
  \/ GoOn
  \/ Destroy
  \/ Collect

ScanSpec == ScanInit /\ [][ScanNext]_scanVars

-----------------------------------------------------------------------------
(* The types of both; each frame is looked at within one onPreviewFrame,   *)
(* so the camera is open and the activity alive until it ends.             *)
ScanTypeOK ==
  /\ SessionTypeOK
  /\ SymbolTypeOK
  /\ ~UiFree => Alive /\ mCamera # None
=============================================================================
