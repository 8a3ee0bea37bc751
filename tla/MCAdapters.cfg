CONSTANTS
    MaxCapture = 1
    PipeSize = 1
    MaxOutput = 2
    Inits = {i1, i2}
    Recent = Recent
    AlsoRecent = AlsoRecent
    Old = Old
    Wrapper = Wrapper
    Garbled = Garbled
    Folder = Folder
    Files <- MCFiles
    Kind <- MCKind
    Output <- MCOutput
    NoFile = NoFile
    Unreadable = Unreadable
    MinimumMajor = 2
    Platforms = {"linux", "macos", "windows"}
    Binaries = {b1, b2}
    NoBinary = NoBinary
    Calls = {c1, c2}
    MaxCalls = 3
    MaxLogins = 1
    Runs = {r1, r2}
    Volumes = {v1, v2}
    Pressured = {v1}
    LockFiles = {f1, f2, f3}
    NoRun = NoRun
SPECIFICATION AdaptersSpec
CHECK_DEADLOCK FALSE
INVARIANT AdaptersTypeOK
INVARIANT OutputIsWhole
INVARIANT OnlyRecentPnpmPasses
INVARIANT EnabledMeansScheduled
INVARIANT DisabledMeansGone
INVARIANT MutualExclusion
INVARIANT LockHeldOnlyByLiveRun
PROPERTY CommandSpec
PROPERTY EveryCallAnswered
PROPERTY RefusedOnlyByAnotherRun
PROPERTY EveryRunEnds
