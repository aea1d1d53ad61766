SPECIFICATION Spec
CONSTANTS
    NumUnits = 2
    NumWorkers = 1
    BatchFiles = 1
    BatchBytes = 3
    Size <- MCSize
    RowsOf <- MCRowsOf
    r1 = r1
    r2 = r2
    r3 = r3
    Row = {r1, r2, r3}
    Garbage = garbage
    NoUnit = none
    Garbled = garbled
    WantNames = TRUE
    KeepGraphstore = TRUE
    FixedStaging = FALSE
    ScanMayFail = FALSE
    AllowRemoveStore = FALSE
    MaxKills = 1
    MaxFaults = 0
INVARIANT NamesComplete
