SPECIFICATION FairSpec
CONSTANTS
  a = a
  p = p
  q = q
  r = r
  t = t
  x = x
  y = y
  Key = {p, q, r}
  Work = {x, y}
  NoWork = NoWork
  Alert = {}
  Traffic = {}
  Jobs <- PlainJobs
  Poison = {}
  Capacity = 3
  RetainLimit = 1
  BatchSize = 2
PROPERTY
  ShutdownEnds
CHECK_DEADLOCK FALSE
