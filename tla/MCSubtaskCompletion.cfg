SPECIFICATION Spec
CONSTANTS
    Gens = {g1, g2}
    NoGen = NoGen
    Hook = Hook
    NoOne = NoOne
    MaxRec = 2
    MaxEvent = 1
SYMMETRY GenSymmetry
INVARIANTS TypeOK DeliveredOnce AcknowledgedIsAnswered NothingStranded
CHECK_DEADLOCK FALSE
