\* A record as aead_encrypt makes it: the payload, then one byte of content type.
SPECIFICATION Spec
CONSTANTS
  BLOCK = 4
  MaxSegment = 5
  MaxLength = 6
INVARIANT SegmentsComplete
