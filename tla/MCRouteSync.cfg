\* One gateway, lists with and without items, two edits, one of them quiet, one failure or restart.
SPECIFICATION FairSpec
CONSTANTS
    Item = {i1, i2}
    Configured = {i1}
    Handler = {h1}
    Gateway = {g1}
    MaxWrites = 2
    MaxQuiet = 1
    MaxFaults = 1
INVARIANTS TypeOK SnapshotIsCurrent
PROPERTIES NoRegression RoutesSurvive ListsConverge
