SPECIFICATION FairSpec
CONSTANTS
  Camera = {"c1"}
  GeneralWorker = {g1, g2}
  FireWorker = {}
  UsesRedis = FALSE
  QueueMax = 2
  TaskId = {1, 2, 3, 4, 5, 6}
  g1 = g1
  g2 = g2
  f1 = f1
  Blocking = {FALSE}
  SlowCalls = FALSE
  ManualCamera = {"c1"}
  MaxFrame = 3
  MaxFault = 1
  Faults = {"raise"}
  MaxRemoval = 1
INVARIANT TasksSound
PROPERTY Analysed
CHECK_DEADLOCK FALSE
