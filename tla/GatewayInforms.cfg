CONSTANTS
    UpstreamStatuses <- MCUpstreamStatuses

SPECIFICATION Spec

INVARIANT
    UpstreamStatusIsKept
