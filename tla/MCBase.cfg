CONSTANTS
  t1 = t1
  t2 = t2
  side = side
  front = front
  Task <- MCTask
  Side <- MCSide
  Front <- MCFront
  Off = Off
  Held = Held
  Commands <- AllCommands
  Rereads = TRUE
  BusFails = TRUE
  MaxTicks = 1
  MaxCommands = 2
SPECIFICATION FairSpec
INVARIANTS
  TypeOK
  NoRunaway
PROPERTIES
  ImplementsMotion
  
CHECK_DEADLOCK FALSE
