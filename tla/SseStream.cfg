SPECIFICATION FairSpec
CONSTANTS
    Pieces <- MCPieces
    Texts <- MCTexts
INVARIANTS
    EventsAreRight
    Released
PROPERTIES
    NothingLate
    EndsAtLast
CHECK_DEADLOCK FALSE
