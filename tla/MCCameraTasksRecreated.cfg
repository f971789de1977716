SPECIFICATION Spec
CONSTANTS
  Camera = {"c1"}
  GeneralWorker = {g1}
  FireWorker = {}
  UsesRedis = FALSE
  QueueMax = 2
  TaskId = {1, 2, 3, 4, 5, 6}
  g1 = g1
  g2 = g2
  f1 = f1
  Blocking = {FALSE}
  SlowCalls = FALSE
  ManualCamera = {}
  MaxFrame = 2
  MaxFault = 1
  Faults = {}
  MaxRemoval = 1
INVARIANT UnseenIsNew
CHECK_DEADLOCK FALSE
