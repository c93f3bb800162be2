\* Paths over three symbolic bits; with forks inhibited, the core solver failing, and both cache options.
CONSTANTS
    x = x  y = y
    Elements <- MCElements
    ArrayOf <- MCArrayOf
    Bytes = {0, 1}
    NoAssignment = NoAssignment
    Failed = Failed
    Aborted = Aborted
    Conditions <- MCConditions
    Switches <- OneSwitch
    Preferences <- MCPreferences
    Options <- MCOptions
    MaxCalls = 3
SPECIFICATION Spec
INVARIANTS
    TypeOK
    CachesSound
    AnswersRight
    NoCallFails
PROPERTIES
    RegionsSpec
CHECK_DEADLOCK FALSE
