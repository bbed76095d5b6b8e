CONSTANTS
  Size = 3
  s1 = s1
  s2 = s2
  s3 = s3
  Socket <- MCSocket
  INVALID_SOCKET = INVALID_SOCKET
  Backlog = 1
  HandlerCloses = FALSE
  MaxConnects = 3
  MaxSends = 2
SPECIFICATION FairSpec
PROPERTIES
  EveryRequestRead
CHECK_DEADLOCK FALSE
