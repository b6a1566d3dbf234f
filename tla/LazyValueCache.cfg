SPECIFICATION CacheFairSpec
CONSTANTS
    Readers = {r1, r2}
    Writers = {w1, w2}
    Free = Free
    MaxVersion = 3
    MaxGets = 3
INVARIANTS CacheTypeOK FreshAfterInvalidate LoadsOnce
PROPERTY EveryGetEnds
CHECK_DEADLOCK FALSE
