SPECIFICATION Spec
CONSTANTS
  Configs <- ModesAndAuth
  SKIP_LIMIT = 2
  MaxData = 1
INVARIANTS TypeOK AssertsHold Authenticated EarlyDataOutcome TicketAgreement HonestNeverFails
PROPERTIES Completes Terminates
CHECK_DEADLOCK FALSE
