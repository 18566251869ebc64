CONSTANTS
    a = a
    Symbols = {a}
    NumBars = 2
    Said <- Anything
    MaxCrashes = 0
    MaxOutages = 2
    None = None
SPECIFICATION FairSpec
PROPERTIES StopSells
