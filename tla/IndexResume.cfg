SPECIFICATION RerunSpec
CONSTANTS
    NumUnits = 4
    NumWorkers = 2
    Poor = {2}
    NoUnit = none
    MaxKills = 1
    MaxFaults = 1
INVARIANTS EntriesWhole OneWriter AllCounted
PROPERTIES LandedStays AllLand
