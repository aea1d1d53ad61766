SPECIFICATION Spec
CONSTANTS
    NumUnits = 2
    NumWorkers = 1
    Poor = {}
    NoUnit = none
    MaxKills = 0
    MaxFaults = 0
    MaxBuildFaults = 1
INVARIANTS TableComplete NothingForeign
