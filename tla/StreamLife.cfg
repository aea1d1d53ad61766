SPECIFICATION RetrySpec
CONSTANTS
    NumUnits = 2
    NumWorkers = 2
    BatchFiles = 1
    BatchBytes = 3
    Size <- MCSize
    RowsOf <- MCOneRow
    r1 = r1
    r2 = r2
    r3 = r3
    Row = {r1}
    Garbage = garbage
    NoUnit = none
    Garbled = garbled
    WantNames = TRUE
    KeepGraphstore = FALSE
    FixedStaging = FALSE
    ScanMayFail = TRUE
    AllowRemoveStore = TRUE
    MaxKills = 1
    MaxFaults = 1
INVARIANTS TypeOK
PROPERTIES EventuallyPublished
