SPECIFICATION FairSpec
CONSTANTS
    MaxFlows = 2
    MaxTurns = 2
    MaxLaunches = 2
    MaxFaults = 2
INVARIANTS VaultOK SignOutSticks CancelHonoured
PROPERTIES LoginEnds LossNoticed
CHECK_DEADLOCK FALSE
