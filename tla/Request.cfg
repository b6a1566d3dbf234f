SPECIFICATION FairSpec
CONSTANTS
    Apps <- MCApps
    Endpoints <- MCEndpoints
    Arriving <- MCArriving
INVARIANTS
    GrantsAreJustified
    EveryOutcomeAudited
    UserIsCurrent
    SessionsAreClean
    AnswerIsTrue
PROPERTY
    EveryRequestEnds
CHECK_DEADLOCK FALSE
