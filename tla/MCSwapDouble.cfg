CONSTANTS
    MaxRequests = 1
    MaxAttempts = 3
    Funds = 4
    None = None
SPECIFICATION Spec
INVARIANT NeverDoubleTrades
CHECK_DEADLOCK FALSE
