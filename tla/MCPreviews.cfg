SPECIFICATION MCFairSpec
CONSTANTS
  c1 = c1
  c2 = c2
  Camera = {c1, c2}
  v1 = v1
  v2 = v2
  Viewer = {v1, v2}
  s1 = s1
  Source = {s1}
  Off = Off
  Spare = c2
  Preview <- MCPreview
  MaxLive = 2
  Timeout = 1
  MaxEdits = 1
INVARIANT Consistent
PROPERTY AbandonedReleased
CHECK_DEADLOCK FALSE
