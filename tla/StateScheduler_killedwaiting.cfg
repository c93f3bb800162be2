\* The memory cap kills a state that waits in a close_merge.
CONSTANTS
    States = {a1, a2}
    NoState = NoState
    Handlers = {h1}
    Points = {p1}
    MaxSteps = 4
    IncompleteMerge = {FALSE}
    InstructionTime = FALSE
    MemoryLimit = TRUE
    Seeding = FALSE
    MayHalt = FALSE
SYMMETRY Symmetry
SPECIFICATION Spec
INVARIANTS
    OnlyHeldRemoved
CHECK_DEADLOCK FALSE
