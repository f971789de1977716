CONSTANTS
  k1 = k1
  k2 = k2
  Key = {k1, k2}
  x = x
  y = y
  Work = {x, y}
  Batched = {}
  Alerts = {y}
  w1 = w1
  w2 = w2
  Worker = {w1, w2}
  t1 = t1
  t2 = t2
  t3 = t3
  t4 = t4
  t5 = t5
  Token = {t1, t2, t3, t4, t5}
  NoToken = NoToken
  NoWork = NoWork
  BatchLimit = 2
  LeaseTime = 2
  MaxAttempts = 2
  MaxDelay = 1
  AttemptCap = 3
SPECIFICATION Spec
INVARIANTS
  AttemptsBounded
CHECK_DEADLOCK FALSE
