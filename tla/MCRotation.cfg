SPECIFICATION ShiftSpec
CONSTANTS
    MaxLength = 6
    Values <- Bits
INVARIANTS
    Rotated
