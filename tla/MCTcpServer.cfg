CONSTANTS
  c1 = c1
  c2 = c2
  Client <- MCClient
  Nobody = Nobody
  Forms <- AllForms
  Tuples <- NoTuples
  Stray <- MCStray
  RcvWords = 6
  MaxAsked = 3
SPECIFICATION FairSpec
INVARIANTS
  TypeOK
  RepliesAnswerInOrder
PROPERTIES
  LoneRequestAnswered
CHECK_DEADLOCK FALSE
