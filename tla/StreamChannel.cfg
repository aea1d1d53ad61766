SPECIFICATION FairSpec
CONSTANTS
    NumUnits = 5
    NumWorkers = 1
    BatchFiles = 1
    BatchBytes = 9
    Size <- MCSize
    RowsOf <- MCOneRow
    r1 = r1
    r2 = r2
    r3 = r3
    Row = {r1}
    Garbage = garbage
    NoUnit = none
    Garbled = garbled
    WantNames = FALSE
    KeepGraphstore = TRUE
    FixedStaging = TRUE
    ScanMayFail = FALSE
    AllowRemoveStore = FALSE
    MaxKills = 0
    MaxFaults = 1
INVARIANTS InFlightBounded
PROPERTIES RunTerminates
