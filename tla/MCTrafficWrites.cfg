SPECIFICATION Spec
CONSTANTS
  Camera = {c1, c2, c3}
  Minute <- OneMinute
  Flush = {j1, j2}
  FlushLimit = 2
  MaxSeen = 2
  Visitors = {1}
SYMMETRY Symmetry
INVARIANT Consistent
INVARIANT EveryVisitorOnce
PROPERTY CurrentInOrderUntroubled
CHECK_DEADLOCK FALSE
