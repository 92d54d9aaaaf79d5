CONSTANTS
    Base = 2
    IndexLen = 1
    HeightLen = 2
    ByteLen = 4
    CharLen = 3
    Foreign = Foreign
    Id <- MCId
    Socket = {s}
    BufferLen = 1
    QueueSize = 1
    DeleteExpired = TRUE
    MaxRetries = 1
    MaxUpdates = 2
    MaxFailures = 2
    None = None
SPECIFICATION Spec
INVARIANTS RetriesLimited
CHECK_DEADLOCK FALSE
