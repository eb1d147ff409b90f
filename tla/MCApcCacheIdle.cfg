SPECIFICATION Spec
CONSTANTS
    k1 = k1
    k2 = k2
    Procs = {p1}
    Keys = {k1, k2}
    Buckets <- OneBucket
    HashOf <- Colliding
    Entries = {e1, e2, e3}
    Blocks = 4
    TTL = 1
    GcTTL = 1
    Smart = 3
    Defend = TRUE
    EntryTTLs = {0}
    SlotNeeds = {"nothing"}
    MaxTime = 2
    MaxLeaks = 1
SYMMETRY Symmetry
PROPERTIES
    SweepTakesIdle
CHECK_DEADLOCK FALSE
