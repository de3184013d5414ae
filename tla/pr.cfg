SPECIFICATION Spec

CONSTANTS
    Registries <- MCRegistries
    Names = {"f1", "f2"}
    ChangeLists <- MCChangeLists
    MaxCalls = 2
    MaxFiles = 3
    FileLines = 2
    MaxEntries = 9
    MaxStops = 1
    MaxRotations = 3
    TraceLines = 2
    MaxNodes = 2
    MaxEdges = 10
    MaxLosses = 1

INVARIANTS
    Retention
    CleanupExact
    AnswerTells

ACTION_CONSTRAINT
    OneAtATime

CHECK_DEADLOCK FALSE
