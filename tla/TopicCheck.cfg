SPECIFICATION FairSpec
CONSTANTS
    b1 = b1
    b2 = b2
    Brokers = {b1, b2}
    Blank = Blank
    Lists <- MCLists
INVARIANTS
    ClosedOnce
PROPERTIES
    OutcomeFits
    AllEnds
CHECK_DEADLOCK FALSE
