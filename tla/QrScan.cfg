\* The activity ends for good, with onDestroy or by an exception.
SPECIFICATION ScanSpec
CONSTANTS
  MaxSessions = 2
  MaxFrames = 3
INVARIANTS ScanTypeOK NoCameraLeftOpen ResultOnce FocusOnlyOnPreview
INVARIANTS ExactUnlessRaced AllocatedIffHeld
CHECK_DEADLOCK FALSE
