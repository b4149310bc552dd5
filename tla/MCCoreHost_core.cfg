SPECIFICATION FairSpec
CONSTANTS
    MaxSpawns = 2
INVARIANTS FramesToOwned HostOK
PROPERTIES OperationsEnd GoneWithLauncher
CHECK_DEADLOCK FALSE
