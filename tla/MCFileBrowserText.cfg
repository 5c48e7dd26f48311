SPECIFICATION Spec
CONSTANTS
    Days <- TwoDays
    Files <- TwoFiles
    BufferSize = 3
    MaxSize = 2
    OpenMayFail = FALSE
    MaxClicks = 5
INVARIANTS
    TextIsFile
