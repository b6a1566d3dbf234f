SPECIFICATION UpsertSpec
CONSTANTS
    c1 = c1
    c2 = c2
    k1 = k1
    k2 = k2
    Old = Old
    Absent = Absent
    None = None
    Calls <- MCCalls
    Keys <- MCKeys
    Plan <- MCPlan
    Data <- MCData
    HiddenKills = {}
    MaxAttempts = 4
    MaxLosses = 1
INVARIANTS
    UpsertTypeOK
    DecisionStillHolds
    ContentionIsBounded
PROPERTIES
    Serializable
    EveryUpsertEnds
CHECK_DEADLOCK FALSE
