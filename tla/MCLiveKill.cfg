CONSTANTS
    a = a
    Symbols = {a}
    NumBars = 1
    Said <- PairSaid
    MaxCrashes = 0
    MaxOutages = 1
    None = None
SPECIFICATION FairSpec
PROPERTY KillSwitchFlattens
