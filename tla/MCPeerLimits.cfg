CONSTANTS
    MaxU64 = 5
    MAX_FEE_BASIS_POINTS = 10
    None = None
    MaxTime = 3
    LimitChoices <- MCLimitChoices
    MaxBack = 2
    MaxNet = 3
SPECIFICATION MeteredSpec
CHECK_DEADLOCK FALSE
INVARIANT
    WindowKept
PROPERTIES
    OutboundPromise
    InboundPromise
