CONSTANTS
  c1 = c1
  c2 = c2
  Client <- OneClient
  Nobody = Nobody
  Forms <- Readings
  Tuples <- MCTuples
  Stray <- MCStray
  RcvWords = 6
  MaxAsked = 1
SPECIFICATION Spec
INVARIANTS
  RepliesHoldWhatTheyAnnounce
CHECK_DEADLOCK FALSE
