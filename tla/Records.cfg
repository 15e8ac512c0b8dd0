SPECIFICATION Spec
CONSTANTS
  REC_HEADER = 2
  MESS_HEADER = 2
  MAX_PLAINTEXT = 3
  OVERHEAD = 1
  EXPANSION = 1
  Script <- Flight
  Sizes = {2, 4}
  Conf <- Settings
  Extras <- Other
  Window = 2
  MaxExtra = 1
INVARIANTS TypeOK NothingWaits KeyChangesAlign PicotlsUnderstood
PROPERTIES InOrder Delivered
CHECK_DEADLOCK FALSE
