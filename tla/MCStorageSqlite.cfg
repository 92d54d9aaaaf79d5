CONSTANTS
    Sub = {0, 1}
    Creation = {1}
    Value = {v1}
    Key = {k1}
    Output = {o1}
    Height = {1}
    None = None
    Kinds = {"sqlite"}
    Caller = {a, b}
    QueueLen = 1
    MaxFaults = 0
SPECIFICATION Spec
INVARIANTS WritesSurvive
