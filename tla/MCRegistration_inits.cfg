SPECIFICATION Spec
CONSTANTS
    Inits = {i1, i2}
    p1 = p1
    p2 = p2
    Order <- MCOrder
    near = near
    here = here
    far = far
    Dirs = {near, here, far}
    VolumeOf <- MCVolumeOf
    NoDir = NoDir
    Files = {f1, f2}
    NoFile = NoFile
    NoInit = NoInit
    MaxInits = 2
    MaxMoves = 2
CHECK_DEADLOCK FALSE
INVARIANT TypeOK
INVARIANT OneAuthorityPerDirectory
PROPERTY FailureLeavesNoTrace
PROPERTY SuccessIsCoordinated
SYMMETRY Symmetry
