SPECIFICATION Spec
CONSTANTS
    NumUnits = 3
    NumWorkers = 2
    BatchFiles = 2
    BatchBytes = 3
    Size <- MCSize
    RowsOf <- MCTwoRows
    r1 = r1
    r2 = r2
    r3 = r3
    Row = {r1, r2}
    Garbage = garbage
    NoUnit = none
    Garbled = garbled
    WantNames = FALSE
    KeepGraphstore = TRUE
    FixedStaging = TRUE
    ScanMayFail = FALSE
    AllowRemoveStore = FALSE
    MaxKills = 1
    MaxFaults = 2
INVARIANTS DoneImpliesFolded PublishedComplete Exclusive SummaryAccounts
PROPERTIES ImplementsContract DeletedOnlyWhenFolded
