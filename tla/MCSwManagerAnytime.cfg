SPECIFICATION FairSpec
CONSTANTS
    NumEvent = 2
    NumTask = 1
    ReloadModes = {TRUE, FALSE}
    Timely = FALSE
    ForkFails = TRUE
    BoxRoom = 1
    MaxPid = 8
    MaxCrash = 1
    MaxRetire = 0
    MaxUsr1 = 1
    MaxUsr2 = 0
INVARIANTS
    TypeOK
    NoOrphans
    StopLeavesNobody
PROPERTIES
    DeadReplaced
CHECK_DEADLOCK FALSE
