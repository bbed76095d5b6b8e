CONSTANTS
  Half = 6
  Blur = 1
  Errors <- MCErrors
  Offset = 10
  Near = 1
  Motions <- MCMotions
  ReadsFail = TRUE
  MaxCount = 8
  Ways <- MCWays
  Configs <- MCConfigs
  Failures <- MCFailures
  MaxCommands = 2
  Length = 2
  Room = 2
  MaxRetries = 1
SPECIFICATION Spec
INVARIANTS
  ArrivedMeansThere
  TypeOK
  NumbersOfOneCommand
  AnswerTellsMotion
  ReadingsAreTheConfigureds
  SentMeansDelivered
CHECK_DEADLOCK FALSE
