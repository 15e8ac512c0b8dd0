\* Blocks of two bytes: an AAD of up to 13 blocks, a payload of up to 17, and a
\* table just large enough for them.
SPECIFICATION Spec
CONSTANTS
  BLOCK = 2
  INITIAL = 58
  MaxAad = 25
  MaxPayload = 33
  Samples = {0, 3, 8, 17, 33}
  MaxCalls = 1
INVARIANTS TypeOK NoFault GcmComputed TableComputed LoopsEnd
CHECK_DEADLOCK FALSE
