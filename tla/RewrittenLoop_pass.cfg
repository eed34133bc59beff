SPECIFICATION Spec
CONSTANTS
    Programs <- SoundPrograms
    Iterations = 2
    PoolSlots = 8
INVARIANTS
    NoDanglingRead
    RegionsReleased
PROPERTY
    LoopMeaning
CHECK_DEADLOCK FALSE
