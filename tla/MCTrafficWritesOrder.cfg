SPECIFICATION Spec
CONSTANTS
  Camera = {c1}
  Minute <- MCMinute
  Flush = {j1, j2}
  FlushLimit = 2
  MaxSeen = 2
  Visitors = {1}
PROPERTY
  CurrentInOrder
CHECK_DEADLOCK FALSE
