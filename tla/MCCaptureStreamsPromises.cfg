SPECIFICATION Spec
CONSTANTS
  Camera <- MCCamera
  Nobody = 0
  StatusBatch = 1
  Source = {"rtsp:a", "file:b"}
  Rtsp = {"rtsp:a"}
  CpuCamera = {}
  Devices = 2
  PerDevice = 1
  Slot <- MCSlot
  Editor = {"e1", "e2"}
  Settings <- MCOverlap
\* One of these promises at a time; the code keeps none of them when requests
\* overlap or a killed process stays.
INVARIANT ConfigFresh
\* INVARIANT ReadersListed
\* INVARIANT OneProcess
CHECK_DEADLOCK FALSE
