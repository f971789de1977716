SPECIFICATION FairSpec
CONSTANTS
  c1 = c1
  c2 = c2
  Camera = {c1, c2}
  v1 = v1
  v2 = v2
  Viewer = {v1, v2}
  s1 = s1
  s2 = s2
  Source = {s1, s2}
  Off = Off
  Spare = c2
  Preview <- MCPreviews
  MaxLive = 2
  Timeout = 1
  MaxEdits = 1
\* One of these promises at a time; the code keeps none of them.
PROPERTY OnlyExpiredSwept
\* INVARIANT PreviewsCurrent
\* PROPERTY CutOffReleased
CHECK_DEADLOCK FALSE
