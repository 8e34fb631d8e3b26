SPECIFICATION Spec
CONSTANTS
    PageSize = 2
    BatchRows = 2
    MaxReplayed = 8
    NoCursor = NoCursor
    Starts = {0, NoCursor}
    MaxEvents = 3
    MaxConnects = 2
    MaxRestarts = 1
INVARIANTS CursorIsPast
CHECK_DEADLOCK FALSE
