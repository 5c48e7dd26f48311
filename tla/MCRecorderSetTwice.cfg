SPECIFICATION Spec
CONSTANTS
    SecondsPerMinute = 2
    MinutesPerHour = 2
    HoursPerDay = 1
    QueueDepth = 3
    RingSize = 13
    Threshold = 5
    RecordLen = 2
    Outcomes <- Silent
    CardFaults <- NoFaults
    CardDelay = 0
    StartTime = 3
    MaxSamples = 10
    MaxSettings = 2
    LastTime = 7
    MaxRestarts = 0
    MaxOutage = 2
INVARIANTS
    RecordsWhole
