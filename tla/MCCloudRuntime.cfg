SPECIFICATION FairSpec
CONSTANTS
    s1 = s1
    s2 = s2
    p1 = p1
    p2 = p2
    small = small
    Slots = {s1, s2}
    NoSlot = NoSlot
    Procs = {p1, p2}
    NoProc = NoProc
    Specs = {small}
    MaxGen = 2
    MaxKey = 2
    MaxFaults = 1
    MaxRev = 7
    Late = {"create", "power", "clear", "remove"}
INVARIANTS
    TypeOK
    RetiredIsGone
    GenerationFence
    RecordLoadable
    SigningAgree
    RoutedMachineIsKept
PROPERTIES
    DestroyCompletes
    DestroyWins
    OneMachineAfterAnother
CHECK_DEADLOCK FALSE
