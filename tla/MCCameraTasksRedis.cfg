SPECIFICATION Spec
CONSTANTS
  Camera = {"c1"}
  GeneralWorker = {g1, g2}
  FireWorker = {f1}
  UsesRedis = TRUE
  QueueMax = 1
  TaskId = {1, 2, 3, 4, 5, 6}
  g1 = g1
  g2 = g2
  f1 = f1
  Blocking = {TRUE, FALSE}
  SlowCalls = TRUE
  ManualCamera = {}
  MaxFrame = 2
  MaxFault = 1
  Faults = {"restart", "raise", "outage"}
  MaxRemoval = 0
INVARIANT AnalysesSound
INVARIANT DepthBounded
SYMMETRY Workers
CHECK_DEADLOCK FALSE
