SPECIFICATION FairSpec
CONSTANTS
    c1 = c1
    c2 = c2
    Calls <- MCCalls
    HiddenKills <- MCHiddenKills
    MaxAttempts = 3
INVARIANT
    ReturnedMeansApplied
CHECK_DEADLOCK FALSE
