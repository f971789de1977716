SPECIFICATION MCFairSpec
CONSTANTS
  c1 = c1
  p1 = p1
  d1 = d1
  Camera = {c1}
  Preview = {p1}
  Device = {d1}
  Workers = 2
  Threads = 2
  Sizes = {1, 2}
  MaxFrame = 2
  MaxUpset = 2
INVARIANT Consistent
PROPERTY CallsEnd
PROPERTY KeepsDetecting
CHECK_DEADLOCK FALSE
