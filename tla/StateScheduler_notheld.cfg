\* A MergingSearcher selects a state it has just released.
CONSTANTS
    a1 = a1  a2 = a2  a3 = a3  a4 = a4  h1 = h1  h2 = h2  h3 = h3
    States = {a1, a2, a3, a4}
    NoState = NoState
    Handlers = {h1, h2, h3}
    Points = {p1}
    MaxSteps = 9
    IncompleteMerge = {TRUE}
    InstructionTime = FALSE
    MemoryLimit = FALSE
    Seeding = FALSE
    MayHalt = FALSE
SPECIFICATION CrossingSpec
INVARIANTS
    OnlyHeldExecuted
CHECK_DEADLOCK FALSE
