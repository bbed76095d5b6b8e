CONSTANTS
  Size = 3
  s1 = s1
  s2 = s2
  s3 = s3
  Socket <- MCSocket
  INVALID_SOCKET = INVALID_SOCKET
  Backlog = 1
  HandlerCloses = TRUE
  MaxConnects = 4
  MaxSends = 2
SPECIFICATION FairSpec
INVARIANTS
  CountIsOccupancy
  FreeSlotReady
  TypeOK
  ListedAreOpen
  NoLiveClientLost
PROPERTIES
  NeverEvicts
  ImplementsPool
  ImplementsList
  Attended
  QueueAttended
CHECK_DEADLOCK FALSE
