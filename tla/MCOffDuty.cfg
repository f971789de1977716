SPECIFICATION MCSpec
CONSTANTS
  a = a
  b = b
  Camera = {a, b}
  Setting <- All
  MaxEvent = 3
  MaxEdit = 1
  MaxFault = 1
INVARIANT TypeOK
INVARIANT ConfirmedByItsEvent
INVARIANT AlertsSound
SYMMETRY Cameras
CHECK_DEADLOCK FALSE
