SPECIFICATION FairSpec
CONSTANTS
    t1 = t1
    t2 = t2
    t3 = t3
    Timers = {t1, t2, t3}
    NoTimer = NoTimer
    Modulus = 8
    Times = {1, 2}
INVARIANTS
    SoonestFirst
PROPERTIES
    OnTime
    CheckEnds
