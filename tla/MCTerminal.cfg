SPECIFICATION MCSpec
CONSTANTS
    Sizes <- MCSizes
    Canvas = 2
    TabWidth = 2
    Counts = {1, 2}
    Columns = {0, 1, 2, 5}
    Rows = {0, 1, 2}
    MaxSteps = 3
INVARIANTS Sound MainScreenKept Utf8Intact
PROPERTIES StaysOnScreen BackAsItWas MarginsHold
CHECK_DEADLOCK FALSE
