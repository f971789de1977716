SPECIFICATION MCFairSpec
CONSTANTS
  c1 = c1
  c2 = c2
  Camera = {c1, c2}
  Threshold = 2
  Cooldown = 3
  MaxAge = 1
  MaxUpset = 1
  Case = {{"restart"}}
\* One of these promises at a time; the code keeps none of them.
INVARIANT NeverAcrossCooldown
\* PROPERTY AlwaysKeepsAlerting
