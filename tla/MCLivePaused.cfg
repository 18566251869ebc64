CONSTANTS
    a = a
    Symbols = {a, b}
    NumBars = 1
    Said <- PairSaid
    MaxCrashes = 0
    MaxOutages = 1
    None = None
SPECIFICATION Spec
PROPERTY KillSwitchPausesEntries
