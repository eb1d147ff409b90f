SPECIFICATION FairSpec
CONSTANTS
    HDR = 1
    Size = 9
    Lengths = {1, 2, 6, 7}
    Workers = 2
    MaxLost = 1
INVARIANTS
    RingConsistent
PROPERTIES
    ImplementsAllocator
    AllocReturns
