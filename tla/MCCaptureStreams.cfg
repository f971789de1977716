SPECIFICATION MCSpec
CONSTANTS
  Camera <- MCCamera
  Nobody = 0
  StatusBatch = 1
  Source = {"rtsp:a", "file:b"}
  Rtsp = {"rtsp:a"}
  CpuCamera = {}
  Devices = 2
  PerDevice = 1
  Slot <- MCSlot
  Editor = {"e1", "e2"}
  Settings <- MCSettings
INVARIANT ReadersFitInTurn
INVARIANT NothingForgotten
INVARIANT ListedRun
PROPERTY EveryCameraGetsItsTurn
PROPERTY RequestsEnd
CHECK_DEADLOCK FALSE
