SPECIFICATION MCFairSpec
CONSTANTS
  t1 = t1
  t2 = t2
  Target = {t1, t2}
  w1 = w1
  w2 = w2
  Worker = {w1, w2}
  r1 = r1
  Request = {r1}
  First = w1
  NoOne = NoOne
  MaxAttempts = 2
  MaxLosses = 1
  MaxRestarts = 1
  MaxSends = 1
INVARIANT Consistent
INVARIANT DeliveredIsTrue
PROPERTY NotificationsEnd
CHECK_DEADLOCK FALSE
