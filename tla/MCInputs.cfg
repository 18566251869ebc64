CONSTANTS
    bot = bot
    cli = cli
    call1 = call1
    call2 = call2
    None = None
    Callers <- MCCallers
    Costs = {1, 2}
    Capacity = 2
    Budget = 1
    MaxAttempts = 2
    Waits = {1}
    MaxClock = 3
    MaxDays = 1
    Names <- MCNames
    Specs <- MCSpecs
    Windows <- MCWindows
    Bot = bot
    Backfiller = cli
    Wanted <- MCWanted
    Histories <- MCHistories
    Stores <- MCStores
    PageLimit = 2
    MaxNow = 11
    Feeds <- MCFeeds
    Postings <- MCPostings
    PageSize = 1
    Interval = 1
    MaxBackoff = 1
    Resets = {1}
    Window = 2
    Imports <- MCImports
    MaxRestarts = 1
    Markets <- MCMarkets
    Lookback = 2
    HoldoutBars = 2
    MinTrades = 2
    MinBars = 2
    First = 1
    MaxBar = 6
SYMMETRY Interchangeable
SPECIFICATION Spec
INVARIANTS InputsTypeOK Paced OverrunBounded NeedIsExact AcceptsExactly ServedIsTrue HolesAreJumps CoveredIsCounted HeldOutUnseen
PROPERTIES PinHolds
CHECK_DEADLOCK FALSE
