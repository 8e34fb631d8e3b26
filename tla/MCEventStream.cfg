SPECIFICATION Spec
CONSTANTS
    PageSize = 2
    BatchRows = 2
    MaxReplayed = 2
    NoCursor = NoCursor
    Starts = {0, NoCursor}
    MaxEvents = 3
    MaxConnects = 1
    MaxRestarts = 1
INVARIANTS TypeOK OncePerStream NothingSkipped ReplayComplete SequencesFresh FloorHonest
CHECK_DEADLOCK FALSE
