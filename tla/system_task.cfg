SPECIFICATION FairSpec
CONSTANTS
    Nodes = {n1, n2}
    MaxTasks = 2
    MaxCrashes = 1
    ClaimMayStall = FALSE
INVARIANTS OneHandlerPerTask RunningIsLocked
PROPERTIES EndIsFinal TaskEnds
CHECK_DEADLOCK FALSE
