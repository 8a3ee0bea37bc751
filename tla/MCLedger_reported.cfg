SPECIFICATION MCSpec
CONSTANTS
    upper = upper
    lower = lower
    other = other
    root = root
    Order <- MCOrder
    Roots = {root}
    RootOf <- MCRootOf
    CaseOf <- MCCaseOf
    CaseSensitive = FALSE
    Dirs = {d1}
    NoDir = NoDir
    Scanners = {s1}
    NoScan = NoScan
    Reasons = {"changed"}
    MaxDiagnostics = 17
    MaxTime = 0
    MaxChanges = 1
    MaxScans = 2
CHECK_DEADLOCK FALSE
PROPERTY ReportedIsNotMissing
