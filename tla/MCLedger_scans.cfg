SPECIFICATION MCSpec
CONSTANTS
    upper = upper
    lower = lower
    other = other
    root = root
    Order <- MCOrder
    Roots = {root}
    RootOf <- MCRootOf
    CaseOf <- MCCaseOf
    CaseSensitive = FALSE
    Dirs = {d1, d2}
    NoDir = NoDir
    Scanners = {s1, s2}
    NoScan = NoScan
    Reasons = {"denied", "changed"}
    MaxDiagnostics = 2
    MaxTime = 1
    MaxChanges = 3
    MaxScans = 3
CHECK_DEADLOCK FALSE
INVARIANT TypeOK
INVARIANT OneLiveRowPerPath
INVARIANT ProtectionPersists
PROPERTY AbsenceIsProven
PROPERTY HistoryKept
PROPERTY QuietScanMirrorsDisk
SYMMETRY Symmetry
