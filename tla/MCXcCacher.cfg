SPECIFICATION Spec
CONSTANTS
    HDR = 1
    BLK = 2
    Arena = 12
    Procs = {p1, p2}
    Files = {f1, f2}
    Sources = {s1, s2}
    PhpWords = 2
    EntryWords = 1
    Settle = 1
    Window = 2
    KeepTime = 2
    GcInterval = 1
    PhpTtl = 1
    PhpGc = 1
    Timely = TRUE
    Undisturbed = TRUE
    None = None
    MaxTime = 5
    MaxEvents = 1
    MaxHolds = 1
SYMMETRY Symmetry
INVARIANTS
    CacheConsistent
    RightCode
CHECK_DEADLOCK FALSE
