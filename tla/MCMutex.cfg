SPECIFICATION Spec
CONSTANTS
    tLow = tLow
    tMiddle = tMiddle
    tHigh = tHigh
    tIdle = tIdle
    NoThread = NoThread
    Threads = {tLow, tMiddle, tHigh}
    Idle = tIdle
    Main = tLow
    init_priority <- Priority
    MaxNest = 1
    Mutexes = {1, 2}
    Fifo = {1}
    Forever = {2}
    MaxTakes = 2
INVARIANTS
    ReadyTable
    OneOwner
    BaseRestored
    InheritsPriority
    MostUrgentRuns
