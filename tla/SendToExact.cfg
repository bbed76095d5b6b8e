CONSTANTS
  Length = 5
  Room = 3
  MaxRetries = 4
SPECIFICATION SendSpec
INVARIANTS
  DeliversTheMessage
CHECK_DEADLOCK FALSE
