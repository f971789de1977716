SPECIFICATION FairSpec
CONSTANTS
  a = a
  p = p
  q = q
  r = r
  t = t
  x = x
  y = y
  Key = {a, p, q, t}
  Work = {x, y}
  NoWork = NoWork
  Alert = {a}
  Traffic = {t}
  Jobs <- MCJobs
  Poison <- MCPoison
  Capacity = 3
  RetainLimit = 1
  BatchSize = 2
INVARIANT Consistent
INVARIANT Accounted
INVARIANT KeysOnce
PROPERTY HealthyPersist
CHECK_DEADLOCK FALSE
