SPECIFICATION Spec
CONSTANTS
    NumEvent = 2
    NumTask = 1
    ReloadModes = {FALSE}
    Timely = FALSE
    ForkFails = FALSE
    BoxRoom = 2
    MaxPid = 9
    MaxCrash = 1
    MaxRetire = 1
    MaxUsr1 = 1
    MaxUsr2 = 0
PROPERTIES
    ReloadSparesServer
CHECK_DEADLOCK FALSE
