SPECIFICATION Spec
CONSTANTS
    Ids <- MCIds
    Users = {u1}
    NoUser = NoUser
    NoSession = NoSession
    TTLs = {1, 2}
    Clients = {c1}
    LimitOf <- MCLimitTwo
    Slots = {k1}
    MaxSends = 2
    MaxAttempts = 2
    MaxTime = 3
INVARIANTS
    IndexCoherent
    SessionLimit
PROPERTIES
    DeadStaysDead
    RefinesRegistry
