SPECIFICATION Spec
CONSTANTS
    b1 = b1
    None = None
    Procs = {p1, p2}
    Keys <- Prefixes
    Buckets = {b1}
    HashOf <- HashPrefixes
    Slices = {s1, s2}
    Quiet = TRUE
    Values = 2
SYMMETRY Symmetry
PROPERTIES
    ImplementsMap
