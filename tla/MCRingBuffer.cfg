SPECIFICATION Spec
CONSTANTS
    a = a
    b = b
    Size = 4
    Data = {a, b}
INVARIANTS
    TypeOK
    WithinOneLap
PROPERTIES
    IsFifo
