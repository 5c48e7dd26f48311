SPECIFICATION SpecForced
CONSTANTS
    a = a
    b = b
    Size = 3
    Data = {a, b}
PROPERTIES
    ForceKeepsNewest
