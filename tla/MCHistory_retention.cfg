CONSTANTS
    Runs = {r1, r2, r3}
    Retained = 2
    MaxActions = 1
    MaxWhileRunning = 1
    MaxClock = 2
    MaxBack = 0
SYMMETRY Symmetry
SPECIFICATION Spec
CHECK_DEADLOCK FALSE
INVARIANT TypeOK
INVARIANT Sound
INVARIANT RowsTellTheTruth
INVARIANT LiveRunsKept
INVARIANT ShownIsAMoment
