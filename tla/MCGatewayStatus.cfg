CONSTANTS
    Caller = {a, b}
    Runner = {a}
    Requester = {a, b, 1}
    MaxTasks = 1
    MaxPanics = 1
    Sizes = {1}
    Limit = 2
    MaxSize = 1
    MaxCalls = 2
    MaxNonces = 1
    None = None
SPECIFICATION Spec
PROPERTIES StatusReturns
CHECK_DEADLOCK FALSE
