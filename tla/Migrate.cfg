SPECIFICATION FairSpec
CONSTANTS
    r1 = r1
    r2 = r2
    original = original
    edited = edited
    None = None
    Runners <- MCRunners
    Checksums = {original, edited}
    Directories <- MCDirectories
    NumFiles = 2
    MaxRuns = 2
INVARIANTS
    HistoryIsTrue
    ReturnedMeansMigrated
PROPERTY
    EveryRunEnds
CHECK_DEADLOCK FALSE
