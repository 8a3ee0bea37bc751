CONSTANTS
    Procs = {p1}
    Gone = Gone
    Kinds <- ManyKinds
    Places <- ManyPlaces
    UserRoots <- ManyRoots
    RootLength = 2
    CloudNames = {"dropbox"}
    SyncNames = {"nextcloud-app"}
    MaxChanges = 1
SPECIFICATION Spec
CHECK_DEADLOCK FALSE
INVARIANT CurrentStateRefuses
