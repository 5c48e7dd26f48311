SPECIFICATION Spec
CONSTANTS
    N = 1
    Readings <- Values
    Quantities <- Humidity
    StartLow <- LowFrom
    StartHigh <- HighFrom
    Choices <- Positions
    Doubled = 2
    MaxSamples = 1
    MaxEnters = 1
INVARIANTS
    LimitsAsShown
