CONSTANTS
    a = a
    b = b
    Clients <- MCClients
    Skew <- MCSkew
    MaxSkew = 1
    Burst = 1
    Rate = 2
    Unit = 3
    MinTTL = 2
    MaxSends = 2
    MaxCalls = 3
    MaxTime = 6

SPECIFICATION BucketSpec

INVARIANTS
    TakenIsEarned
    RetryAfterIsExact

CHECK_DEADLOCK FALSE
