SPECIFICATION Spec
CONSTANTS
    Runs = {r1, r2}
    Volumes = {v1, v2}
    Pressured = {v1, v2}
    Files = {f1, f2, f3}
    NoFile = NoFile
    NoRun = NoRun
INVARIANT MutualExclusion
