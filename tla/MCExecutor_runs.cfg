SPECIFICATION MCSpec
CONSTANTS
    First = First
    Second = Second
    Runs <- MCRuns
    Touched = Touched
    Untouched1 = Untouched1
    Untouched2 = Untouched2
    Workspaces <- MCWorkspaces
    NoWorkspace = NoWorkspace
    NoRun = NoRun
    FreeLevels = {0, 1, 2}
    Unmeasured = Unmeasured
    Minimum = 1
    Target = 2
    Facts = {"proven", "active"}
    PlanValidity = 1
    Cooldown = 2
    MaxCleans = 2
    MaxPostClean = 1
    Never = Never
    MaxClock = 2
    MaxLive = 2
    MaxChanges = 1
CHECK_DEADLOCK FALSE
INVARIANT TypeOK
INVARIANT NothingAfterTarget
INVARIANT CapsHold
INVARIANT WriteAhead
INVARIANT OneCommandAtATime
INVARIANT CooldownBeforeSuccess
PROPERTY CooldownRespected
PROPERTY JournalSpec
PROPERTY EveryRunEnds
