SPECIFICATION MCFairSpec
CONSTANTS
  c1 = c1
  p1 = p1
  d1 = d1
  Camera = {c1}
  Preview = {p1}
  Device = {d1}
  Workers = 2
  Threads = 2
  Sizes = {1, 2}
  MaxFrame = 2
  MaxUpset = 2
\* One of these promises at a time; the code keeps none of them.
INVARIANT NoneStranded
\* PROPERTY AlwaysTrackedInOrder
\* PROPERTY AlwaysDetecting  \* two reloads end both workers; with Threads = 1 one is enough
CHECK_DEADLOCK FALSE
