SPECIFICATION MCSpec
CONSTANTS
    upper = upper
    lower = lower
    other = other
    root = root
    Order <- MCOrder
    Roots = {root}
    RootOf <- MCRootOf
    CaseOf <- MCCaseOf
    CaseSensitive = FALSE
    Dirs = {d1, d2}
    NoDir = NoDir
    Scanners = {s1, s2}
    NoScan = NoScan
    Reasons = {}
    MaxDiagnostics = 17
    MaxTime = 0
    MaxChanges = 3
    MaxScans = 3
CHECK_DEADLOCK FALSE
INVARIANT ProtectionSurvivesEveryScan
SYMMETRY Symmetry
