SPECIFICATION Safety
CONSTANTS
  Configs <- AuthTicket
  SKIP_LIMIT = 2
  MaxData = 0
INVARIANTS TicketAgreement
CHECK_DEADLOCK FALSE
