SPECIFICATION FairSpec
CONSTANTS
    c1 = c1
    c2 = c2
    Calls = {c1, c2}
    MaxAttempts = 2
    SdkAttempts = 2
    Policies <- MCPolicies
    Services <- MCServices
    Requests <- MCRequests
    Workloads <- MCWorkloads
    ProviderFailures = {409, 500}
    Earlier = Earlier
    NoUpload = NoUpload
INVARIANTS
    OutcomesFit
    NothingLeftBehind
    OnlyAllowed
    CreatesBounded
PROPERTY
    EveryCallReturns
CHECK_DEADLOCK FALSE
