CONSTANTS
  t1 = t1
  t2 = t2
  side = side
  front = front
  Task <- MCTask
  Side <- MCSide
  Front <- MCFront
  Off = Off
  Held = Held
  Commands <- StopsAndMvs
  Rereads = FALSE
  BusFails = FALSE
  MaxTicks = 1
  MaxCommands = 2
SPECIFICATION Spec
PROPERTIES
  StopCancelsMv
CHECK_DEADLOCK FALSE
