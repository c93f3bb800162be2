SPECIFICATION AnalysisSpec
CHECK_DEADLOCK FALSE
CONSTANTS
    Bodies <- AllBodies
    Nesting <- NestingDepth
    FunctionNames <- MainAndF
    Scripts <- EarlyReturns
    Absent = Absent
INVARIANTS
    ConstraintsOfState
