SPECIFICATION FairSpec
CONSTANTS
    r1 = r1
    r2 = r2
    Requests <- MCRequests
    MaxRetries = 1
    MaxEpoch = 2
INVARIANTS
    SingleRefresh
    ReplayIsFresh
    LogoutJustified
    OutcomesFit
PROPERTIES
    SessionBoundary
    OnlyFreshRefusalsRefresh
    EveryRequestSettles
CHECK_DEADLOCK FALSE
