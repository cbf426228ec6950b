---------------------------- MODULE CameraSession ----------------------------
(***************************************************************************)
(* ScanActivity and CameraPreview: a camera that is opened and released    *)
(* with the life cycle of the activity, while the surface it draws on, its *)
(* frames and its autofocus follow a timing of their own.  Everything runs *)
(* on the UI thread, one callback at a time.                               *)
(*                                                                         *)
(* do_scan_guts opens a camera and makes a CameraPreview for it: both are  *)
(* numbered by the call that made them (a session).  Older previews stay   *)
(* in the layout and keep their own reference to their camera.  Android    *)
(* refuses calls on a released camera, and autoFocus while the preview is  *)
(* stopped, with a RuntimeException; one that is not caught ends the app.  *)
(***************************************************************************)
EXTENDS Naturals

CONSTANT MaxSessions     \* calls of do_scan_guts (bounds the model)

ASSUME SessionAssumption == MaxSessions \in Nat

Sessions == 1..MaxSessions
None     == 0

VARIABLES
  lifecycle,     \* the last callback of Activity: onCreate, onStart, ...
  finishing,     \* finish() has been called, or the back key pressed
  permission,    \* the user's answer: "none", "asking", "granted", "denied"
  sessions,      \* calls of do_scan_guts so far
  camera,        \* camera[s]: what Camera.open gave session s
  mCamera,       \* ScanActivity.mCamera, as the session it was opened by
  preview,       \* preview[s]: its preview is "on", "off" or "broken"
  callback,      \* callback[s]: it has a PreviewCallback
  focusing,      \* focusing[s]: its autofocus callback is to come
  focus_posted,  \* a doAutoFocus is in the autoFocusHandler
  previewing,    \* ScanActivity.previewing
  surface,       \* surface[s]: of session s's CameraPreview
  been_destroyed,\* CameraPreview.surface_been_destroyed
  results,       \* how often a scanned code was handed over
  died           \* why the app ended, if it did

cameraVars  == <<camera, preview, callback, focusing>>
surfaceVars == <<surface, been_destroyed>>
sessionVars == <<lifecycle, finishing, permission, sessions, cameraVars, mCamera,
                 focus_posted, previewing, surfaceVars, results, died>>

SessionInit ==
  /\ lifecycle = "onCreate"
  /\ finishing = FALSE
  /\ permission \in {"none", "granted"}
  /\ sessions = 0
  /\ camera = [s \in Sessions |-> "none"]
  /\ mCamera = None
  /\ preview = [s \in Sessions |-> "off"]
  /\ callback = [s \in Sessions |-> FALSE]
  /\ focusing = [s \in Sessions |-> FALSE]
  /\ focus_posted = FALSE
  /\ previewing = TRUE
  /\ surface = [s \in Sessions |-> "none"]
  /\ been_destroyed = [s \in Sessions |-> FALSE]
  /\ results = 0
  /\ died = "no"

Alive == died = "no"

Dies(why) ==
  /\ died' = why
  /\ UNCHANGED <<finishing, cameraVars, focus_posted, previewing, surfaceVars, results>>

-----------------------------------------------------------------------------
(* ScanActivity: the camera is opened and released. *)

(* do_scan_guts.  getCameraInstance gives null when Camera.open fails; the *)
(* camera is then used all the same.                                       *)
DoScanGuts ==
  /\ sessions < MaxSessions
  /\ sessions' = sessions + 1
  /\ LET s == sessions + 1 IN
     \/ /\ mCamera' = s
        /\ camera' = [camera EXCEPT ![s] = "open"]
        /\ preview' = [preview EXCEPT ![s] = "on"]
        /\ callback' = [callback EXCEPT ![s] = TRUE]
        /\ \E works \in BOOLEAN : focusing' = [focusing EXCEPT ![s] = works]
        /\ previewing' = TRUE
        /\ UNCHANGED <<finishing, focus_posted, surfaceVars, results, died>>
     \/ /\ mCamera' = None
        /\ Dies("null camera")

(* setPreviewCallback(null), stopPreview, release. *)
Released ==
  /\ previewing' = FALSE
  /\ camera' = [camera EXCEPT ![mCamera] = "released"]
  /\ preview' = [preview EXCEPT ![mCamera] = "off"]
  /\ callback' = [callback EXCEPT ![mCamera] = FALSE]

(* Mutant: a camera that has shown a code is taken to be released. *)
MutReleaseCamera ==
  IF mCamera # None /\ previewing
  THEN Released /\ mCamera' = None
  ELSE UNCHANGED <<camera, preview, callback, mCamera, previewing>>

(* Mutant: the reference to the camera is kept. *)
MutKeepCamera ==
  IF mCamera # None
  THEN Released /\ UNCHANGED mCamera
  ELSE UNCHANGED <<camera, preview, callback, mCamera, previewing>>

ReleaseCamera ==
  IF mCamera # None
  THEN Released /\ mCamera' = None
  ELSE UNCHANGED <<camera, preview, callback, mCamera, previewing>>

(* onStart, with do_scan_wrapper.  A second request for the permission     *)
(* while the first is on the screen is answered with an empty array, whose *)
(* first element onRequestPermissionsResult takes.                         *)
OnStart ==
  /\ Alive
  /\ lifecycle \in {"onCreate", "onStop"}
  /\ ~finishing
  /\ lifecycle' = "onStart"
  /\ CASE permission = "granted" ->
            DoScanGuts /\ UNCHANGED permission
       [] permission = "asking" ->
            Dies("empty grant results") /\ UNCHANGED <<permission, sessions, mCamera>>
       [] OTHER ->
            /\ permission' = "asking"
            /\ UNCHANGED <<finishing, sessions, cameraVars, mCamera, focus_posted,
                           previewing, surfaceVars, results, died>>

(* onRequestPermissionsResult: Android delivers a result to an activity it *)
(* is about to resume, so onResume follows, as after onStart.              *)
OnRequestPermissionsResult ==
  /\ Alive
  /\ lifecycle = "onPause"
  /\ permission = "asking"
  /\ ~finishing
  /\ lifecycle' = "onStart"
  /\ \/ permission' = "granted" /\ DoScanGuts
     \/ /\ permission' = "denied"
        /\ UNCHANGED <<finishing, sessions, cameraVars, mCamera, focus_posted,
                       previewing, surfaceVars, results, died>>

Moves(from, to) ==
  /\ Alive
  /\ lifecycle = from
  /\ lifecycle' = to
  /\ UNCHANGED <<permission, sessions, focusing, focus_posted, surfaceVars, results, died>>

Leaves(from, to) ==
  /\ Moves(from, to)
  /\ UNCHANGED <<finishing, camera, preview, callback, mCamera, previewing>>

(* AppCompatActivity's own onResume: the camera is not opened again. *)
OnResume ==
  \/ Leaves("onStart", "onResume")
  \/ Leaves("onPause", "onResume") /\ ~finishing /\ permission # "asking"

OnPause ==
  /\ Moves("onResume", "onPause")
  /\ ReleaseCamera
  /\ UNCHANGED finishing

OnStop    == Leaves("onPause", "onStop")
OnDestroy == Leaves("onStop", "onDestroy") /\ finishing

BackKey ==
  /\ Alive
  /\ lifecycle = "onResume"
  /\ finishing' = TRUE
  /\ UNCHANGED <<lifecycle, permission, sessions, cameraVars, mCamera, focus_posted,
                 previewing, surfaceVars, results, died>>

-----------------------------------------------------------------------------
(* The camera's own callbacks. *)

CameraCallback ==
  /\ Alive
  /\ UNCHANGED <<lifecycle, permission, sessions, mCamera, surfaceVars>>

(* Mutant: the frame is looked at whether previewing or not. *)
MutWatching == mCamera # None

(* The guard of onPreviewFrame. *)
Watching == previewing /\ mCamera # None

(* onPreviewFrame of session s's camera, when a code is found in the       *)
(* frame; a frame without a code changes nothing.                          *)
OnPreviewFrame(s) ==
  /\ CameraCallback
  /\ callback[s]
  /\ Watching
  /\ previewing' = FALSE
  /\ callback' = [callback EXCEPT ![mCamera] = FALSE]
  /\ preview' = [preview EXCEPT ![mCamera] = "off"]
  /\ results' = results + 1
  /\ finishing' = TRUE
  /\ UNCHANGED <<camera, focusing, focus_posted, died>>

(* autoFocusCB.onAutoFocus, for session s's camera. *)
OnAutoFocus(s) ==
  /\ CameraCallback
  /\ focusing[s]
  /\ focusing' = [focusing EXCEPT ![s] = FALSE]
  /\ focus_posted' = (focus_posted \/ Watching)
  /\ UNCHANGED <<finishing, camera, preview, callback, previewing, results, died>>

(* Mutant: only the camera is looked at. *)
MutFocusAgain == mCamera # None

(* The guard of doAutoFocus.run. *)
FocusAgain == previewing /\ mCamera # None

(* doAutoFocus.run; another one may be posted still. *)
DoAutoFocus ==
  /\ CameraCallback
  /\ focus_posted
  /\ IF FocusAgain /\ preview[mCamera] # "on"
     THEN Dies(IF preview[mCamera] = "off" THEN "focus without preview" ELSE "broken preview")
     ELSE /\ focus_posted' \in BOOLEAN
          /\ focusing' = IF FocusAgain THEN [focusing EXCEPT ![mCamera] = TRUE] ELSE focusing
          /\ UNCHANGED <<finishing, camera, preview, callback, previewing, results, died>>

-----------------------------------------------------------------------------
(* CameraPreview. *)

(* The window is shown from onResume to onStop. *)
Shown == lifecycle \in {"onResume", "onPause"}

SurfaceCallback ==
  /\ Alive
  /\ UNCHANGED <<lifecycle, permission, sessions, mCamera>>

(* surfaceCreated: setPreviewDisplay, of whose exceptions only IOException *)
(* is caught.                                                              *)
SurfaceCreated(s) ==
  /\ SurfaceCallback
  /\ Shown
  /\ s <= sessions
  /\ surface[s] # "created"
  /\ IF ~been_destroyed[s] /\ camera[s] # "open"
     THEN Dies("released camera")
     ELSE /\ surface' = [surface EXCEPT ![s] = "created"]
          /\ UNCHANGED <<finishing, cameraVars, focus_posted, previewing,
                         been_destroyed, results, died>>

(* surfaceChanged: the preview is stopped and started again.  If the       *)
(* display cannot be set, or the preview not be started once its callback  *)
(* is set, it stays stopped; autoFocus may fail on its own.  On a released *)
(* camera every call throws.  All exceptions are caught.                   *)
SurfaceChanged(s) ==
  /\ SurfaceCallback
  /\ surface[s] = "created"
  /\ ~been_destroyed[s]
  /\ camera[s] = "open"
  /\ \/ /\ preview' = [preview EXCEPT ![s] = "on"]
        /\ callback' = [callback EXCEPT ![s] = TRUE]
        /\ \E works \in BOOLEAN :
             focusing' = IF works THEN [focusing EXCEPT ![s] = TRUE] ELSE focusing
     \/ /\ preview' = [preview EXCEPT ![s] = "broken"]
        /\ \E set \in BOOLEAN :
             callback' = IF set THEN [callback EXCEPT ![s] = TRUE] ELSE callback
        /\ UNCHANGED focusing
  /\ UNCHANGED <<finishing, camera, focus_posted, previewing, surfaceVars, results, died>>

SurfaceDestroyed(s) ==
  /\ SurfaceCallback
  /\ surface[s] = "created"
  /\ ~Shown
  /\ surface' = [surface EXCEPT ![s] = "destroyed"]
  /\ been_destroyed' = [been_destroyed EXCEPT ![s] = TRUE]
  /\ UNCHANGED <<finishing, cameraVars, focus_posted, previewing, results, died>>

-----------------------------------------------------------------------------
(* The callbacks on the UI thread, but for a frame and onDestroy. *)
Callback ==
  \/ OnStart \/ OnRequestPermissionsResult \/ OnResume \/ OnPause \/ OnStop
  \/ BackKey
  \/ DoAutoFocus
  \/ \E s \in Sessions :
       OnAutoFocus(s) \/ SurfaceCreated(s) \/ SurfaceChanged(s) \/ SurfaceDestroyed(s)

SessionNext ==
  \/ Callback
  \/ \E s \in Sessions : OnPreviewFrame(s)
  \/ OnDestroy

SessionSpec == SessionInit /\ [][SessionNext]_sessionVars

-----------------------------------------------------------------------------
(* Properties.                                                             *)

Reasons == {"no", "null camera", "empty grant results", "released camera",
            "focus without preview", "broken preview"}

(* The fields have values of their types, and the camera the activity      *)
(* holds is an open one.                                                   *)
SessionTypeOK ==
  /\ lifecycle \in {"onCreate", "onStart", "onResume", "onPause", "onStop", "onDestroy"}
  /\ finishing \in BOOLEAN /\ previewing \in BOOLEAN /\ focus_posted \in BOOLEAN
  /\ permission \in {"none", "asking", "granted", "denied"}
  /\ sessions \in 0..MaxSessions
  /\ camera \in [Sessions -> {"none", "open", "released"}]
  /\ preview \in [Sessions -> {"off", "on", "broken"}]
  /\ callback \in [Sessions -> BOOLEAN] /\ focusing \in [Sessions -> BOOLEAN]
  /\ mCamera \in {None} \cup 1..sessions
  /\ mCamera # None => camera[mCamera] = "open"
  /\ surface \in [Sessions -> {"none", "created", "destroyed"}]
  /\ been_destroyed \in [Sessions -> BOOLEAN]
  /\ results \in Nat
  /\ died \in Reasons

(* Whichever way the activity is left -- back key, home key, a code found, *)
(* and whatever the surface did meanwhile -- no camera stays open behind   *)
(* it, which would keep every other app, and the next scan, from it.       *)
NoCameraLeftOpen ==
  lifecycle \in {"onStop", "onDestroy"} => \A s \in Sessions : camera[s] # "open"

(* A code is handed over once, although surfaceChanged may start the       *)
(* preview and its frames again after it was found: a second time would    *)
(* start a second SendActivity.                                            *)
ResultOnce == results <= 1

(* The mimicked continuous autofocus, whose runnable may be a second old,  *)
(* never focuses a camera whose preview was stopped on purpose.            *)
FocusOnlyOnPreview == died # "focus without preview"
=============================================================================
