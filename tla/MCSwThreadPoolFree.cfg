SPECIFICATION FairSpec
CONSTANTS
    Workers = {w1}
    Dispatchers = {d1}
    Elements = {t1, t2}
    Size = 2
    WordMax = 7
PROPERTIES
    FreeReturns
CHECK_DEADLOCK FALSE
