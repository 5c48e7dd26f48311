SPECIFICATION EventSpec
CONSTANTS
    t1 = t1
    t2 = t2
    t3 = t3
    f1 = f1
    f2 = f2
    Threads = {t1, t2, t3}
    Flags = {f1, f2}
    Timeouts = {"zero", "finite"}
SYMMETRY Symmetry
INVARIANTS
    NoSleeperSatisfied
    ReceivedAsAsked
PROPERTIES
    ClearedOnce
