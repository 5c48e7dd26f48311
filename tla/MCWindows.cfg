SPECIFICATION WindowsSpec
CONSTANTS
    Days <- TwoDays
    Files <- TwoFiles
    BufferSize = 3
    MaxSize = 2
    OpenMayFail = TRUE
    MaxClicks = 5
    MaxLogins = 2
INVARIANTS
    FileShown
    TasksTouchLiving
    ShownIsLive
    GuardsRight
