SPECIFICATION ProviderSpec
CONSTANTS
    s1 = s1
    s2 = s2
    Slots = {s1, s2}
    NoSlot = NoSlot
    Specs = {small}
    MaxGen = 2
    MaxKey = 1
    MaxFaults = 1
    Late = {"create", "power", "clear", "remove"}
SYMMETRY SlotSymmetry
INVARIANTS
    OneMachine
    GenerationOrder
    DestroyedReplyIsFinal
PROPERTIES
    TombstonesRetained
    NoResurrection
CHECK_DEADLOCK FALSE
