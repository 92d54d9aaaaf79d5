CONSTANTS
    Base = 2
    IndexLen = 1
    HeightLen = 2
    ByteLen = 4
    CharLen = 3
    Foreign = Foreign
    Id <- MCId
    Socket = {s}
    BufferLen = 1
    QueueSize = 1
    DeleteExpired = TRUE
    MaxRetries = 1
    MaxUpdates = 3
    MaxFailures = 1
    None = None
SPECIFICATION Spec
INVARIANTS TypeOK InOnePlace LastWordFirst TextNamesInvoice
PROPERTIES CalledBack PublishEnds RemovesPendingOnlyIfStale ExpiredGoes
CHECK_DEADLOCK FALSE
