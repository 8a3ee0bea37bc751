CONSTANTS
    Procs = {p1, p2}
    Gone = Gone
    Kinds <- ManyKinds
    Places <- ManyPlaces
    UserRoots <- ManyRoots
    RootLength = 2
    CloudNames = {"dropbox"}
    SyncNames = {"nextcloud-app"}
    MaxChanges = 2
SPECIFICATION Spec
SYMMETRY Symmetry
CHECK_DEADLOCK FALSE
INVARIANT TypeOK
INVARIANT LiveDoubtsRefuse
INVARIANT RefusalsBorneOut
