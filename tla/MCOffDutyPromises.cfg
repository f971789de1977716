SPECIFICATION FairSpec
CONSTANTS
  a = a
  b = b
  Camera = {a, b}
  Setting <- Calm
  MaxEvent = 2
  MaxEdit = 0
  MaxFault = 0
\* One of these promises at a time; the code keeps none of them.
INVARIANT EveryConfirmedByItsEvent
\* INVARIANT ConfirmedByTheModel
\* INVARIANT FixedFrame
\* PROPERTY ReadyIsAlerted
CHECK_DEADLOCK FALSE
