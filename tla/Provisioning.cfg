SPECIFICATION FairSpec
CONSTANTS
    Processes = {p1, p2, p3}
    NoOne = NoOne
    NumBatches = 3
    CreatedBy = 2
    MaxStarts = 2
INVARIANTS
    ScriptsDoNotInterleave
    ReturnedMeansProvisioned
PROPERTY
    EverythingReleased
CHECK_DEADLOCK FALSE
