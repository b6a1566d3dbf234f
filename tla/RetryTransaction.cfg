SPECIFICATION FairSpec
CONSTANTS
    c1 = c1
    c2 = c2
    Calls <- MCCalls
    HiddenKills <- MCHiddenKills
    MaxAttempts = 2
INVARIANTS
    TypeOK
    AppliedAtMostOnce
    NothingHeldBetweenAttempts
    NoEarlyGiveUp
PROPERTIES
    KeepsPromise
    EverythingSettles
CHECK_DEADLOCK FALSE
