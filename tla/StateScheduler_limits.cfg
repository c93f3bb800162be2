\* Seeding, halting, the time and memory limits, with every kind of searcher.
\* A state killed twice stops the program at an assertion of updateStates.
CONSTANTS
    States = {a1, a2, a3}
    NoState = NoState
    Handlers = {h1}
    Points = {p1}
    MaxSteps = 5
    IncompleteMerge = {FALSE}
    InstructionTime = TRUE
    MemoryLimit = TRUE
    Seeding = TRUE
    MayHalt = TRUE
    SearchOptions <- SomeSearchOptions
SYMMETRY Symmetry
SPECIFICATION SearchSpec
INVARIANTS
    QueuesDisjoint
    SeedsHaveStates
    LayersAgree
    BaseNotEmpty
    TreeMatchesStates
PROPERTIES
    ImplementsScheduler
CHECK_DEADLOCK FALSE
