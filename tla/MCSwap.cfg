CONSTANTS
    MaxRequests = 2
    MaxAttempts = 3
    Funds = 4
    None = None
SPECIFICATION Spec
INVARIANTS TypeOK NoDoubleSwap NoPhantomFill NothingUntracked
CHECK_DEADLOCK FALSE
