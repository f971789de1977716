SPECIFICATION MCSpec
CONSTANTS
  t1 = t1
  t2 = t2
  Target = {t1, t2}
  w1 = w1
  w2 = w2
  Worker = {w1, w2}
  r1 = r1
  Request = {r1}
  First = w1
  NoOne = NoOne
  MaxAttempts = 2
  MaxLosses = 1
  MaxRestarts = 1
  MaxSends = 1
\* One of these promises at a time; the code keeps none of them.
PROPERTY CompletedStays
\* INVARIANT PendingIsTrue
CHECK_DEADLOCK FALSE
