SPECIFICATION FairSpec
CONSTANTS
    NumEvent = 1
    NumTask = 0
    ReloadModes = {FALSE}
    Timely = TRUE
    ForkFails = FALSE
    BoxRoom = 2
    MaxPid = 6
    MaxCrash = 1
    MaxRetire = 0
    MaxUsr1 = 1
    MaxUsr2 = 1
PROPERTIES
    ReloadEnds
CHECK_DEADLOCK FALSE
