SPECIFICATION FairSpec
CONSTANTS
    NumEvent = 2
    NumTask = 0
    ReloadModes = {TRUE}
    Timely = FALSE
    ForkFails = FALSE
    BoxRoom = 2
    MaxPid = 8
    MaxCrash = 0
    MaxRetire = 2
    MaxUsr1 = 0
    MaxUsr2 = 0
PROPERTIES
    MessageRead
CHECK_DEADLOCK FALSE
