CONSTANTS
    Id = {i1}
    Subscriber = {a, b}
    BufferLen = 1
    MaxUpdates = 1
    MaxInserts = 1
    All = All
    None = None
SPECIFICATION Spec
INVARIANTS LiveGlobalKept
CHECK_DEADLOCK FALSE
