SPECIFICATION Spec
CONSTANTS
    t1 = t1
    t2 = t2
    Header = 1
    MIN_SIZE = 2
    mem_size = 10
    Sizes <- SomeSizes
    Threads <- TwoThreads
SYMMETRY Symmetry
INVARIANTS
    WellLinked
    Coalesced
    SummariesRight
    RefusedOnlyIfFull
PROPERTIES
    KeepsPromise
