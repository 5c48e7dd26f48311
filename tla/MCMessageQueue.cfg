SPECIFICATION FairSpec
CONSTANTS
    s1 = s1
    s2 = s2
    r1 = r1
    r2 = r2
    m1 = m1
    m2 = m2
    NoSlot = NoSlot
    Senders = {s1, s2}
    Receivers = {r1, r2}
    Slots = {m1, m2}
    Priority <- Priorities
    ByPriority = TRUE
    Timeouts = {"finite"}
    Numbers = 2
    Urgents = TRUE
    Resets = TRUE
INVARIANTS
    SlotsConserved
    NoLostWakeup
    InOrder
PROPERTIES
    MessagesTaken
