SPECIFICATION Spec
CONSTANTS
    SecondsPerMinute = 3
    MinutesPerHour = 2
    HoursPerDay = 2
    QueueDepth = 3
    RingSize = 14
    Threshold = 7
    RecordLen = 2
    Outcomes <- Silent
    CardFaults <- NoFaults
    CardDelay = 1
    StartTime = 7
    MaxSamples = 8
    MaxSettings = 0
    LastTime = 0
    MaxRestarts = 0
    MaxOutage = 0
INVARIANTS
    NothingLeftBehind
