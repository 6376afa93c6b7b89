CONSTANTS
    s1 = s1
    s2 = s2
    s3 = s3
    k1 = k1
    k2 = k2
    n = n
    a = a
    b = b
    bad = bad
    Statements <- MCStatements
    Fields <- MCFields
    KeyFields <- MCKeyFields
    Timestamps <- MCTimestamps
    Values <- MCValues
    BadTs <- bad
    TsOf <- MCTsOf
    ColumnsOf <- MCColumnsOf
    SizeOf <- MCSizeOf
    SparseThreshold = 2
    CacheThreshold = 3
    PosLimit = 30
    MaxPuts = 3
SPECIFICATION PutGetSpec
CHECK_DEADLOCK FALSE
INVARIANTS
    OffsetAssertionHolds
