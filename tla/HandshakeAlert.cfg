SPECIFICATION Safety
CONSTANTS
  Configs <- BadCertificate
  SKIP_LIMIT = 2
  MaxData = 0
INVARIANTS AlertsSealed
CHECK_DEADLOCK FALSE
