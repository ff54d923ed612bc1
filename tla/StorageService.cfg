CONSTANTS
    Namespaces <- MCNamespaces
    Arrivals <- MCArrivals

SPECIFICATION FairServiceSpec

INVARIANTS
    CleanExit

PROPERTIES
    FollowsStores
    ExitsOnceStopped

CHECK_DEADLOCK FALSE
