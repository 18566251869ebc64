CONSTANTS
    c1 = c1
    c2 = c2
    c3 = c3
    cli1 = cli1
    cli2 = cli2
    X = X
    Y = Y
    Candidates = {c1, c2, c3}
    Symbols = {X, Y}
    SymbolOf <- MCSymbolOf
    Cli = {cli1, cli2}
    Bot = Bot
    MaxPaper = 1
    Slots = 1
    RequireApproval = TRUE
    Start <- MCStart
    MaxEvents = 2
    None = None
SPECIFICATION Spec
INVARIANTS TypeOK LiveWasEarned PaperLimit LiveLimit NoOrphan ConfigInStep
PROPERTIES FollowsLifecycle
