SPECIFICATION Safety
CONSTANTS
    SEQ_LIMIT = 2
    SKIP_LIMIT = 1
    MaxChunks = 2
    MaxRecords = 3
    MaxUpdates = 1
    MaxFaults = 2
    MaxFailures = 1
    MaxClear = 1
INVARIANTS TypeOK InOrder NonceUnique RequestAnswered NoRequestLoop Inv
PROPERTIES NonceForward ChannelSpec
CHECK_DEADLOCK FALSE
