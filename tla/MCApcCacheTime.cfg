SPECIFICATION Spec
CONSTANTS
    k1 = k1
    k2 = k2
    Procs = {p1, p2}
    Keys = {k1, k2}
    Buckets <- OneBucket
    HashOf <- Colliding
    Entries = {e1, e2}
    Blocks = 2
    TTL = 1
    GcTTL = 1
    Smart = 0
    Defend = TRUE
    EntryTTLs = {1}
    SlotNeeds = {"nothing"}
    MaxTime = 2
    MaxLeaks = 0
SYMMETRY Symmetry
INVARIANTS
    KeysUnique
    HeldIsKept
CHECK_DEADLOCK FALSE
