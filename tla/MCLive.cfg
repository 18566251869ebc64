CONSTANTS
    a = a
    Symbols = {a}
    NumBars = 3
    Said <- Anything
    MaxCrashes = 1
    MaxOutages = 1
    None = None
SPECIFICATION Spec
INVARIANTS TypeOK NoTokenForgotten QueueFitsPosition OneEntryPerSignal PauseHolds
PROPERTIES ReplayNeverEnters
