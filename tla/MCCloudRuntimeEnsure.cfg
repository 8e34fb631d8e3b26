SPECIFICATION FairSpec
CONSTANTS
    s1 = s1
    s2 = s2
    p1 = p1
    small = small
    Slots = {s1, s2}
    NoSlot = NoSlot
    Procs = {p1}
    NoProc = NoProc
    Specs = {small}
    MaxGen = 1
    MaxKey = 1
    MaxFaults = 1
    MaxRev = 4
    Late = {}
PROPERTY EnsureNeverPowersOn
CHECK_DEADLOCK FALSE
