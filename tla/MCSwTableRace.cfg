SPECIFICATION Spec
CONSTANTS
    b1 = b1
    None = None
    Procs = {p1, p2}
    Keys <- SameLength
    Buckets = {b1}
    HashOf <- HashSame
    Slices = {s1, s2}
    Quiet = FALSE
    Values = 2
INVARIANTS
    BucketsGuarded
