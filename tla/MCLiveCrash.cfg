CONSTANTS
    a = a
    Symbols = {a, b}
    NumBars = 1
    Said <- PairSaid
    MaxCrashes = 1
    MaxOutages = 1
    None = None
SPECIFICATION Spec
INVARIANT RestartKeepsPositions
