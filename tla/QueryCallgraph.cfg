SPECIFICATION FairSpec
CONSTANTS
    Names = {1, 2, 3}
    NumTickets = 4
    NumFiles = 3
    RowsIn <- MCRowsIn
    ScanWorkers = 2
    MaxScanFaults = 1
    MaxRows = 4
    Symbols <- MCSymbols
    Graphs <- MCGraphs
    Kept = {2, 3, 4}
    Depth = 2
    SymsLimits = {2, 5}
    Substr = {1, 3}
    Limit = 2
    RootLimit = 2
    DefIn = {1, 2}
    AccRange = 16777216
    Char = {"1", "2", "3", "4", "5", "6", "8", "9", "D", "E", "F", "a", "m", ".", "(", ")", "/", "%", "?", "#"}
    Reserved = {"(", ")", "/", "%", "?", "#"}
    Hex <- MCHex
    Code <- MCCode
    VNames <- MCVNames
    DeepEnough = 4
    Signatures <- MCSignatures
    TypeChar = {"1", "2", "3", "4", "5", "6", "8", "9", "D", "E", "F", "a", "m", "/"}
    Declarations <- MCDeclarations
    Texts64 <- MCTexts64
INVARIANTS IndexHasScanned ExactFinds Forest NoShortcut ClosedUnlessCut NothingHidden OwnHeader TextsFaithful DeclarationsNamed
PROPERTIES CommandEnds WalkSpec
CHECK_DEADLOCK FALSE
