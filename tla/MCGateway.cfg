CONSTANTS
    Caller = {a, b}
    Runner = {a}
    Requester = {a, b, 1, 2}
    MaxTasks = 2
    MaxPanics = 1
    Sizes = {0, 3}
    Limit = 2
    MaxSize = 3
    MaxCalls = 3
    MaxNonces = 2
    None = None
SPECIFICATION Spec
INVARIANTS TypeOK OneScanner NoOrphan StopHasTarget
PROPERTIES CallsReturn HeadersFresh KeepsPromise
CHECK_DEADLOCK FALSE
