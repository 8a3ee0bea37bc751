SPECIFICATION Spec
CONSTANTS
    Runs = {r1}
    Workspaces = {w1, w2, w3}
    NoWorkspace = NoWorkspace
    NoRun = NoRun
    FreeLevels = {0, 1, 2}
    Unmeasured = Unmeasured
    Minimum = 1
    Target = 2
    Facts = {"proven"}
    PlanValidity = 1
    Cooldown = 1
    MaxCleans = 2
    MaxPostClean = 1
    Never = Never
    MaxClock = 0
    MaxLive = 1
    MaxChanges = 0
CHECK_DEADLOCK FALSE
INVARIANT PartialReclaimReported
