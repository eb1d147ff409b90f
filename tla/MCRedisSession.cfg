SPECIFICATION FairSpec
CONSTANTS
    Procs = {p1, p2}
    None = None
    LockExpire = 2
    MaxExecutionTime = 2
    Retries = 1
    Prompt = TRUE
    MaxRequests = 4
    MaxLost = 1
    MaxCrashes = 1
PROPERTIES
    NoLostUpdate
    OthersLockKept
    LockFreed
CHECK_DEADLOCK FALSE
