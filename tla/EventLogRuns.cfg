CONSTANTS
    MaxLines = 2
    MaxEmits = 8
    MaxFaults = 4
SPECIFICATION LogSpec
INVARIANTS
    NumbersIncrease
    RecentRetained
    CursorKeepsWorking
CHECK_DEADLOCK FALSE
