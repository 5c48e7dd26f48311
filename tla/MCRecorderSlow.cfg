SPECIFICATION FairSpec
CONSTANTS
    SecondsPerMinute = 3
    MinutesPerHour = 2
    HoursPerDay = 2
    QueueDepth = 2
    RingSize = 7
    Threshold = 4
    RecordLen = 2
    Outcomes <- AnyOutcome
    CardFaults <- AllFaults
    CardDelay = 1
    StartTime = 9
    MaxSamples = 5
    MaxSettings = 0
    LastTime = 0
    MaxRestarts = 1
    MaxOutage = 1
INVARIANTS
    TypeOK
    WakeupsHaveMessages
    SamplesInOrder
    FilesFitRing
PROPERTIES
    SaverReturns
