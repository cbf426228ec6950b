------------------------------ MODULE SymbolSets ------------------------------
(***************************************************************************)
(* The symbol sets of the QR code scanner (zbar) and their reference       *)
(* counts, as ScanActivity uses them: for every preview frame an Image is  *)
(* made and scanned on the UI thread; Java's finalizer thread destroys the *)
(* objects nobody uses any more, at any time and in any order.  A set is   *)
(* shared by the scanner, the images it was filled for and Java's          *)
(* SymbolSet, so both threads count on the same refcnt.                    *)
(*                                                                         *)
(* _zbar_refcnt locks a mutex when HAVE_LIBPTHREAD is defined.  config.h   *)
(* of this build undefines it (line 60): *cnt += delta is then a load and  *)
(* a store, and the other thread may come in between.                      *)
(*                                                                         *)
(* ScanActivity never scans an image twice, looks at no frame after its    *)
(* first result (QrScan, where this module's actions are composed with     *)
(* those of the camera) and does not enable the result cache: an image's   *)
(* own earlier results and symbols that outlive their set do not occur.    *)
(***************************************************************************)
EXTENDS Integers, FiniteSets

CONSTANT MaxFrames       \* preview frames (bounds the model)

ASSUME SymbolSetsAssumption == MaxFrames \in Nat

Frames  == 1..MaxFrames
Sets    == 1..MaxFrames          \* a set is numbered by the frame it was created for
NoSet    == 0
Nothing == -1                    \* no load under way
Threads == {"ui", "finalizer"}

VARIABLES
  frame,         \* the image the UI thread works on, or the last one
  ui_pc,         \* where the UI thread is in onPreviewFrame
  finalizing,    \* the object the finalizer thread is destroying
  loaded,        \* loaded[t]: what thread t's *cnt += delta has loaded
  raced,         \* history: two threads were counting on one set at once
  memory,        \* memory[s]: "unused", "allocated" or "freed"
  refcnt,        \* refcnt[s]
  scanner_syms,  \* iscn->syms
  image_syms,    \* image_syms[f]: img->syms
  result_syms,   \* peer of the Java SymbolSet
  java           \* life of the Java objects: "none", "used", "garbage", "destroyed"

symbolVars == <<frame, ui_pc, finalizing, loaded, raced, memory, refcnt,
                scanner_syms, image_syms, result_syms, java>>

(* The Java objects: the ImageScanner, the SymbolSet, the Images. *)
Objects == {<<"scanner", 0>>, <<"results", 0>>} \cup ({"image"} \X Frames)
NoObject == <<"none", 0>>
Scanner == <<"scanner", 0>>
Results == <<"results", 0>>
ImageOf(f) == <<"image", f>>

SymbolInit ==
  /\ frame = 0
  /\ ui_pc = "idle"
  /\ finalizing = NoObject
  /\ loaded = [t \in Threads |-> Nothing]
  /\ raced = FALSE
  /\ memory = [s \in Sets |-> "unused"]
  /\ refcnt = [s \in Sets |-> 0]
  /\ scanner_syms = NoSet
  /\ image_syms = [f \in Frames |-> NoSet]
  /\ result_syms = NoSet
  /\ java = [o \in Objects |-> IF o = Scanner THEN "used" ELSE "none"]

Discard(o) == java' = [java EXCEPT ![o] = "garbage"]

-----------------------------------------------------------------------------
(* _zbar_refcnt. *)

(* The set whose count thread t is about to change. *)
Target(t) ==
  IF t = "ui" THEN scanner_syms
  ELSE CASE finalizing = Scanner -> scanner_syms
         [] finalizing = Results -> result_syms
         [] OTHER                -> image_syms[finalizing[2]]

Counting(t) ==
  /\ IF t = "ui" THEN ui_pc \in {"recycle", "take", "results"} ELSE finalizing # NoObject
  /\ Target(t) # NoSet
  /\ finalizing = Scanner /\ t = "finalizer" => refcnt[Target(t)] # 0

(* A count below 0 has failed assert(rc >= 0). *)
Load(t) ==
  /\ Counting(t)
  /\ loaded[t] = Nothing
  /\ refcnt[Target(t)] >= 0
  /\ loaded' = [loaded EXCEPT ![t] = refcnt[Target(t)]]
  /\ raced' = (raced \/ \E o \in Threads \ {t} : loaded[o] # Nothing /\ Target(o) = Target(t))
  /\ UNCHANGED <<frame, ui_pc, finalizing, memory, refcnt, scanner_syms,
                 image_syms, result_syms, java>>

Store(t, delta) ==
  /\ loaded[t] # Nothing
  /\ refcnt' = [refcnt EXCEPT ![Target(t)] = loaded[t] + delta]
  /\ loaded' = [loaded EXCEPT ![t] = Nothing]
  /\ UNCHANGED raced

-----------------------------------------------------------------------------
(* The UI thread: ScanActivity.onPreviewFrame. *)

(* new Image(..), setData, up to zbar_image_scanner_recycle_image. *)
NewImage ==
  /\ ui_pc = "idle"
  /\ frame < MaxFrames
  /\ frame' = frame + 1
  /\ java' = [java EXCEPT ![ImageOf(frame + 1)] = "used"]
  /\ ui_pc' = IF scanner_syms = NoSet \/ refcnt[scanner_syms] = 0 THEN "take" ELSE "recycle"
  /\ UNCHANGED <<finalizing, loaded, raced, memory, refcnt, scanner_syms, image_syms, result_syms>>

(* recycle_syms of the scanner's set: kept if nobody else refers to it,    *)
(* given up otherwise.                                                     *)
RecycleSyms ==
  /\ ui_pc = "recycle"
  /\ Store("ui", -1)
  /\ scanner_syms' = IF loaded["ui"] = 1 THEN scanner_syms ELSE NoSet
  /\ ui_pc' = "take"
  /\ UNCHANGED <<frame, finalizing, memory, image_syms, result_syms, java>>

(* zbar_scan_image creates a set for the scanner and the image ...         *)
CreateSyms ==
  /\ ui_pc = "take"
  /\ scanner_syms = NoSet
  /\ memory' = [memory EXCEPT ![frame] = "allocated"]
  /\ refcnt' = [refcnt EXCEPT ![frame] = 2]
  /\ scanner_syms' = frame
  /\ image_syms' = [image_syms EXCEPT ![frame] = frame]
  /\ ui_pc' = "scan"
  /\ UNCHANGED <<frame, finalizing, loaded, raced, result_syms, java>>

(* Mutant: only the image's reference is counted. *)
MutReuseSyms ==
  /\ ui_pc = "take"
  /\ scanner_syms # NoSet
  /\ Store("ui", 1)
  /\ image_syms' = [image_syms EXCEPT ![frame] = scanner_syms]
  /\ ui_pc' = "scan"
  /\ UNCHANGED <<frame, finalizing, memory, scanner_syms, result_syms, java>>

(* ... or takes the recycled one for both.                                 *)
ReuseSyms ==
  /\ ui_pc = "take"
  /\ scanner_syms # NoSet
  /\ Store("ui", 2)
  /\ image_syms' = [image_syms EXCEPT ![frame] = scanner_syms]
  /\ ui_pc' = "scan"
  /\ UNCHANGED <<frame, finalizing, memory, scanner_syms, result_syms, java>>

(* The frame is scanned; from here on nothing refers to the Image. *)
Scan ==
  /\ ui_pc = "scan"
  /\ \E found \in BOOLEAN : ui_pc' = IF found THEN "results" ELSE "idle"
  /\ Discard(ImageOf(frame))
  /\ UNCHANGED <<frame, finalizing, loaded, raced, memory, refcnt, scanner_syms,
                 image_syms, result_syms>>

(* ImageScanner.getResults, and the loop over the symbols: the last use of *)
(* the SymbolSet.                                                          *)
GetResults ==
  /\ ui_pc = "results"
  /\ Store("ui", 1)
  /\ result_syms' = scanner_syms
  /\ java' = [java EXCEPT ![Results] = "used"]
  /\ ui_pc' = "iterate"
  /\ UNCHANGED <<frame, finalizing, memory, scanner_syms, image_syms>>

Iterated ==
  /\ ui_pc = "iterate"
  /\ Discard(Results)
  /\ ui_pc' = "idle"
  /\ UNCHANGED <<frame, finalizing, loaded, raced, memory, refcnt, scanner_syms,
                 image_syms, result_syms>>

(* The activity is destroyed. *)
LeaveActivity ==
  /\ ui_pc = "idle"
  /\ Discard(Scanner)
  /\ ui_pc' = "destroyed"
  /\ UNCHANGED <<frame, finalizing, loaded, raced, memory, refcnt, scanner_syms,
                 image_syms, result_syms>>

-----------------------------------------------------------------------------
(* The finalizer thread: destroy of an Image, SymbolSet or ImageScanner. *)

Finalize(o) ==
  /\ finalizing = NoObject
  /\ java[o] = "garbage"
  /\ finalizing' = o
  /\ UNCHANGED <<frame, ui_pc, loaded, raced, memory, refcnt, scanner_syms,
                 image_syms, result_syms, java>>

Destroyed ==
  /\ java' = [java EXCEPT ![finalizing] = "destroyed"]
  /\ finalizing' = NoObject

(* The reference of the destroyed object is forgotten with it. *)
Forget ==
  /\ scanner_syms' = IF finalizing = Scanner THEN NoSet ELSE scanner_syms
  /\ result_syms' = IF finalizing = Results THEN NoSet ELSE result_syms
  /\ image_syms' = [f \in Frames |-> IF finalizing = ImageOf(f) THEN NoSet ELSE image_syms[f]]

(* zbar_image_destroy or zbar_image_scanner_destroy without a set. *)
DestroyEmpty ==
  /\ finalizing # NoObject
  /\ Target("finalizer") = NoSet
  /\ Destroyed
  /\ UNCHANGED <<frame, ui_pc, loaded, raced, memory, refcnt, scanner_syms, image_syms, result_syms>>

(* Mutant: _zbar_image_free frees the image without its set. *)
MutRelease ==
  /\ finalizing # NoObject
  /\ Target("finalizer") # NoSet
  /\ Store("finalizer", IF finalizing[1] = "image" THEN 0 ELSE -1)
  /\ memory' = [memory EXCEPT ![Target("finalizer")] =
                  IF refcnt'[Target("finalizer")] = 0 THEN "freed" ELSE @]
  /\ Forget
  /\ Destroyed
  /\ UNCHANGED <<frame, ui_pc>>

(* zbar_symbol_set_ref(.., -1), which frees the set at 0. *)
Release ==
  /\ finalizing # NoObject
  /\ Target("finalizer") # NoSet
  /\ Store("finalizer", -1)
  /\ memory' = [memory EXCEPT ![Target("finalizer")] =
                  IF loaded["finalizer"] = 1 THEN "freed" ELSE @]
  /\ Forget
  /\ Destroyed
  /\ UNCHANGED <<frame, ui_pc>>

(* zbar_image_scanner_destroy when a lost count has left none for its set. *)
FreeUncounted ==
  /\ finalizing = Scanner
  /\ scanner_syms # NoSet
  /\ loaded["finalizer"] = Nothing
  /\ refcnt[scanner_syms] = 0
  /\ memory' = [memory EXCEPT ![scanner_syms] = "freed"]
  /\ Forget
  /\ Destroyed
  /\ UNCHANGED <<frame, ui_pc, loaded, raced, refcnt>>

-----------------------------------------------------------------------------
(* The UI thread within onPreviewFrame, but for the step that scans. *)
FrameStep ==
  \/ Load("ui")
  \/ RecycleSyms \/ CreateSyms \/ ReuseSyms
  \/ GetResults \/ Iterated

(* The finalizer thread. *)
FinalizerStep ==
  \/ Load("finalizer")
  \/ \E o \in Objects : Finalize(o)
  \/ DestroyEmpty \/ Release \/ FreeUncounted

-----------------------------------------------------------------------------
(* Properties.                                                             *)

(* Types; assert(rc >= 0) of _zbar_refcnt holds unless a count was lost.   *)
SymbolTypeOK ==
  /\ frame \in 0..MaxFrames
  /\ ui_pc \in {"idle", "recycle", "take", "scan", "results", "iterate", "destroyed"}
  /\ finalizing \in {NoObject} \cup Objects
  /\ loaded \in [Threads -> {Nothing} \cup Nat]
  /\ raced \in BOOLEAN
  /\ memory \in [Sets -> {"unused", "allocated", "freed"}]
  /\ refcnt \in [Sets -> IF raced THEN Nat \cup {-1} ELSE Nat]
  /\ scanner_syms \in {NoSet} \cup Sets
  /\ image_syms \in [Frames -> {NoSet} \cup Sets]
  /\ result_syms \in {NoSet} \cup Sets
  /\ java \in [Objects -> {"none", "used", "garbage", "destroyed"}]

(* Who refers to set s.  Between recycle_syms and zbar_symbol_set_ref the   *)
(* scanner keeps a recycled set it has not counted yet.                    *)
Holders(s) ==
  {o \in Objects : \/ o = Scanner /\ scanner_syms = s /\ ui_pc # "take"
                   \/ o = Results /\ result_syms = s
                   \/ o[1] = "image" /\ image_syms[o[2]] = s}

(* "increment the reference count when you store a new reference.          *)
(* decrement when the reference is no longer used" (zbar.h:463): every     *)
(* reference to a set is counted, once, whichever thread counts it.        *)
CountIsExact ==
  \A s \in Sets : refcnt[s] = Cardinality(Holders(s))

(* The same, as long as no two threads were counting on one set at once:   *)
(* the lost update is all that can go wrong with the counts.               *)
ExactUnlessRaced == raced \/ CountIsExact

(* A set is never freed while the scanner, an image or the SymbolSet still *)
(* refers to it, in whatever order the finalizer and the next frames come; *)
(* and one nobody refers to any more is freed, so that preview frames,     *)
(* thirty in a second, leave none behind.                                  *)
AllocatedIffHeld ==
  raced \/ \A s \in Sets : memory[s] = "allocated" <=> Holders(s) # {} \/ scanner_syms = s
=============================================================================
