CONSTANTS
    Caller = {a, b}
    MinAvailable = 1
    MaxMinor = 2
    MaxHeight = 2
    MaxInvoices = 3
    MaxFailures = 2
SPECIFICATION Spec
INVARIANTS TypeOK UniqueSubaddress TrackedIsPublished
PROPERTIES CheckerCovers PanicsOnlyWhenUsedUp
SYMMETRY CallerSymmetry
