SPECIFICATION FairSpec
CONSTANTS
    HDR = 1
    BLK = 1
    SEGSIZE = 9
    Procs = {p1, p2}
    NumSeg = 2
    Requests <- SharedRequests
INVARIANTS
    TypeOK
    SegmentsWellFormed
    LiveAreBusy
    AvailBalances
    NeverRefusesFit
    EmptyIsWhole
PROPERTIES
    ImplementsAllocator
    CallsReturn
