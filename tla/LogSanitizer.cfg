SPECIFICATION Spec
CONSTANTS
    Keys <- MCKeys
    NormalizeKey <- MCNormalizeKey
    BuiltinSensitiveKeys = {"apikey", "token"}
    AllOptions <- MCOptions
    Values <- MCValues
    Kind <- MCKind
    Items <- MCItems
    Attrs <- MCAttrs
    Fields <- MCFields
    GroupNames <- MCGroupNames
    MaxWith = 2
    MaxRecord = 2
INVARIANTS
    LeavesAreRight
    BudgetIsExact
