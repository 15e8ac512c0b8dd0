SPECIFICATION Spec
CONSTANTS
    SEQ_LIMIT = 1
    SKIP_LIMIT = 1
    MaxChunks = 2
    MaxRecords = 4
    MaxUpdates = 2
    MaxFaults = 0
    MaxFailures = 0
    MaxClear = 1
INVARIANTS InSync DataPerKey
PROPERTIES EverythingArrives
CHECK_DEADLOCK FALSE
