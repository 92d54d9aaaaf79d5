CONSTANTS
    Sub = {0, 1}
    Creation = {1}
    Value = {v1}
    Key = {k1}
    Output = {o1}
    Height = {1}
    None = None
    Kinds = {"memory", "sled", "sqlite"}
    Caller = {a, b}
    QueueLen = 1
    MaxFaults = 1
SPECIFICATION Spec
INVARIANTS TypeOK
PROPERTIES ImplementsStore Answered
