\* Merge regions, nested and at two call sites.  Finishes also rules out every
\* deadlock but the end of the run.
CONSTANTS
    States = {a1, a2, a3}
    NoState = NoState
    Handlers = {h1, h2}
    Points = {p1, p2}
    MaxSteps = 5
    IncompleteMerge = {FALSE, TRUE}
    InstructionTime = FALSE
    MemoryLimit = FALSE
    Seeding = FALSE
    MayHalt = FALSE
SPECIFICATION Spec
INVARIANTS
    TypeOK
    NoStateForgotten
    OpenStatesAgree
    PartnersShareStack
    WaitersAreHeld
PROPERTIES
    Finishes
    WaitersReleased
CHECK_DEADLOCK FALSE
