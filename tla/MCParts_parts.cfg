\* The walk of a script ends, and so do the behaviours of part "php".
SPECIFICATION PartsSpec
CHECK_DEADLOCK FALSE
VIEW PartsView
CONSTANTS
    Offsets <- TwoOffsets
    Bytes <- OneBit
    Inputs <- TwoBits
    Symbols <- FirstBit
    Indices <- SecondBit
    ArrayBytes <- BitOfEach
    Fill = 1
    Lazy = Lazy
    Null = Null
    MaxWrites = 3
    Maps = {"a", "b"}
    Entries <- FourKeys
    MaxHolders = 2
    NoTree = NoTree
    NoIterator = NoIterator
    Elements = {1, 2, 3}
    Assignments = {"unsat", "sat"}
    MaxSets = 3
    Bodies <- AllBodies
    Nesting <- NestingDepth
    FunctionNames <- MainAndF
    Scripts <- SmallScripts
    Absent = Absent
    NoValue = NoValue
    MAX_FDS = 3
    MAX_OS_FDS = 4
    Files = {A}
    Size = 1
    MaxFailures = 1
    MaxOff = 2
    NoFile = NoFile
INVARIANTS
    TypeOK
    CacheInvariants
    ConstantReadsRight
    SymbolicReadsRight
    NativeFindsValues
    WellFormed
    OperationsRight
    SearchesRight
    ProgramsOnRun
    AllExplored
    DescriptorsRight
    SystemFilesOpen
PROPERTIES
    MapsSpec
