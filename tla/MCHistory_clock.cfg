CONSTANTS
    Runs = {r1, r2, r3}
    Retained = 2
    MaxActions = 1
    MaxWhileRunning = 1
    MaxClock = 2
    MaxBack = 1
SYMMETRY Symmetry
SPECIFICATION PutBackSpec
CHECK_DEADLOCK FALSE
INVARIANT RowsTellTheTruth
