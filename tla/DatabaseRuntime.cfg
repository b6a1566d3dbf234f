SPECIFICATION RtFairSpec
CONSTANTS
    Threads = {t1, t2, t3}
    Runtimes = {app, codebook}
    Engines = {e1, e2, e3}
    None = None
    MaxCalls = 1
INVARIANTS RtTypeOK OneEngine ReadyWhenShared
PROPERTY EveryCallEnds
CHECK_DEADLOCK FALSE
