SPECIFICATION Safety
CONSTANTS
  Configs <- Network
  SKIP_LIMIT = 2
  MaxData = 1
INVARIANTS AssertsHold Agreement
CHECK_DEADLOCK FALSE
