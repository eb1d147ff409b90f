SPECIFICATION Spec
CONSTANTS
    HDR = 1
    BLK = 1
    SEGSIZE = 14
    Procs = {p1}
    NumSeg = 1
    Requests <- LayoutRequests
INVARIANT
    AvailTestInsures
