SPECIFICATION Spec
CONSTANTS
    k1 = k1
    k2 = k2
    Procs = {p1, p2}
    Keys = {k1, k2}
    Buckets <- OneBucket
    HashOf <- Colliding
    Entries = {e1, e2, e3}
    Blocks = 3
    TTL = 0
    GcTTL = 1
    Smart = 0
    Defend = TRUE
    EntryTTLs = {0}
    SlotNeeds = {"nothing"}
    MaxTime = 0
    MaxLeaks = 1
SYMMETRY Symmetry
INVARIANTS
    NothingLost
    CountersAgree
    HeldIsKept
    BusyHasOwner
CHECK_DEADLOCK FALSE
