CONSTANTS
    Id = {i1, i2}
    Subscriber = {a, b}
    BufferLen = 1
    MaxUpdates = 2
    MaxInserts = 2
    All = All
    None = None
SPECIFICATION Spec
INVARIANTS TypeOK NoUpdateSkipped InOrderOnce
PROPERTIES SendTerminates
CHECK_DEADLOCK FALSE
