SPECIFICATION Spec
CONSTANTS
    Programs <- LateDeclarations
    Iterations = 2
    PoolSlots = 8
INVARIANT OuterStringsValid
CHECK_DEADLOCK FALSE
