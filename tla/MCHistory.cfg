SPECIFICATION Spec
CONSTANTS
    N = 3
    Readings <- Values
    Quantities <- Temperature
    StartLow <- LowFrom
    StartHigh <- HighFrom
    Choices <- Positions
    Doubled = 2
    MaxSamples = 4
    MaxEnters = 2
INVARIANTS
    NewestLast
    ChartCoherent
    LitForReason
PROPERTIES
    AlarmFollowsSettings
