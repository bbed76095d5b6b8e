CONSTANTS
  c1 = c1
  c2 = c2
  Client <- MCClient
  Nobody = Nobody
  Sizes <- MCSizes
  Chunk = 2
  ReadFails = TRUE
  MaxNoise = 1
  MaxStalls = 2
  MaxRetries = 2
SPECIFICATION FairSpec
INVARIANTS
  TypeOK
  EndMeansWhole
  ChunksAreExact
  HangsUpAnswered
  OneAnswerEach
PROPERTIES
  RequestsEnd
CHECK_DEADLOCK FALSE
