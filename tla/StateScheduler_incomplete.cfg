\* A MergingSearcher releases the states that wait too long.
CONSTANTS
    States = {a1, a2, a3, a4}
    NoState = NoState
    Handlers = {h1, h2}
    Points = {p1}
    MaxSteps = 7
    IncompleteMerge = {TRUE}
    InstructionTime = FALSE
    MemoryLimit = FALSE
    Seeding = FALSE
    MayHalt = FALSE
SYMMETRY Symmetry
SPECIFICATION Spec
INVARIANTS
    OnlyHeldExecuted
