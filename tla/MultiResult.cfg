SPECIFICATION Spec
CONSTANTS
    MaxStatements = 3
    MaxRows = 2
    FetchSize = 1
INVARIANTS
    NothingLost
    DataIsComplete
    ClosedOnce
CHECK_DEADLOCK FALSE
