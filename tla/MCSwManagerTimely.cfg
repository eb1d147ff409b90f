SPECIFICATION FairSpec
CONSTANTS
    NumEvent = 1
    NumTask = 1
    ReloadModes = {TRUE, FALSE}
    Timely = TRUE
    ForkFails = FALSE
    BoxRoom = 2
    MaxPid = 7
    MaxCrash = 0
    MaxRetire = 1
    MaxUsr1 = 1
    MaxUsr2 = 1
INVARIANTS
    OneWorkerPerSlot
PROPERTIES
    ReloadSparesServer
    ReloadReplaces
    ReloadEnds
    Stops
    MessageRead
CHECK_DEADLOCK FALSE
