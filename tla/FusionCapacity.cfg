\* Records larger than the capacity the context was made with.
SPECIFICATION Spec
CONSTANTS
  BLOCK = 2
  INITIAL = 6
  MaxAad = 3
  MaxPayload = 12
  Samples = {}
  MaxCalls = 2
INVARIANT TableComputed
CHECK_DEADLOCK FALSE
