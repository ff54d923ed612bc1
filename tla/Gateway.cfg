CONSTANTS
    UpstreamStatuses <- MCUpstreamStatuses

SPECIFICATION Spec

INVARIANTS
    FixedOrder
    IdentityIsVouchedFor
    RefusalIsVisible
    LoggedStatusIsSent
    FailuresAreObserved
