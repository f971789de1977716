SPECIFICATION Spec
CONSTANTS
  t1 = t1
  Track = {t1}
  LostCycles = 3
  Second = 2
  Config <- Modes
  Switch <- Switches
  MaxPass = 6
  MaxTracking = 5
  MaxEdit = 1
CHECK_DEADLOCK FALSE
\* One of these promises at a time; the code keeps none of them.
INVARIANT FramesBurnOnce
\* INVARIANT OncePerTrack
