SPECIFICATION Spec
CONSTANTS
    Workers = {w1, w2}
    Dispatchers = {d1, d2}
    Elements = {t1, t2, t3}
    Size = 2
    WordMax = 7
SYMMETRY Symmetry
INVARIANTS
    EachTaskOnce
    CountSettles
PROPERTIES
    ImplementsFifo
CHECK_DEADLOCK FALSE
