CONSTANTS
    t1 = t1
    s1 = s1
    k1 = k1
    Tx = {t1}
    SubIndex = {s1}
    Key = {k1}
    SubOf <- MCSubOf
    AmountOf <- MCAmountOf
    KeyOf <- MCKeyOf
    Requested = 1
    Required = 2
    ExpiresIn = 2
    NoTx = NoTx
    InitialLen = 3
    MaxLen = 5
    MaxReorgs = 1
    MaxReorgDepth = 1
    CacheSize = 3
    MaxFaults = 1
    StorageFails = TRUE
    MaxRestarts = 1
SPECIFICATION ScannerSpec
CONSTRAINTS OneDisturbance CanBePaid
INVARIANTS ScannerTypeOK LedgerAccurate ConfirmedIsMined HeightsAligned NeverAhead UpdateReportsNewBlocks UpdateHeals CreditedOnceDespiteFaults NothingMissed
PROPERTIES StoredHeightMonotone CreditedUndisturbed CatchesUp
