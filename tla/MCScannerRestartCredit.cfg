CONSTANTS
    t1 = t1
    s1 = s1
    k1 = k1
    Tx = {t1}
    SubIndex = {s1}
    Key = {k1}
    SubOf <- MCSubOf
    AmountOf <- MCAmountOf
    KeyOf <- MCKeyOf
    Requested = 1
    Required = 1
    ExpiresIn = 2
    NoTx = NoTx
    InitialLen = 3
    MaxLen = 5
    MaxReorgs = 0
    MaxReorgDepth = 1
    CacheSize = 2
    MaxFaults = 0
    StorageFails = TRUE
    MaxRestarts = 1
SPECIFICATION ScannerSpec
INVARIANTS CreditedOnce
