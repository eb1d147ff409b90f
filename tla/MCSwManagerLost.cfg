SPECIFICATION FairSpec
CONSTANTS
    NumEvent = 1
    NumTask = 1
    ReloadModes = {FALSE}
    Timely = FALSE
    ForkFails = FALSE
    BoxRoom = 2
    MaxPid = 7
    MaxCrash = 1
    MaxRetire = 0
    MaxUsr1 = 1
    MaxUsr2 = 0
PROPERTIES
    ReloadReplaces
CHECK_DEADLOCK FALSE
