SPECIFICATION FairSpec
CONSTANTS
    p1 = p1
    p2 = p2
    t1 = t1
    t2 = t2
    t3 = t3
    Plans = {p1}
    TaskIds = {t1, t2, t3}
    Shapes <- UniquePlans
    MaxParallel = 2
    NoOutput = NoOutput
    NoResult = NoResult
INVARIANTS
    PromptFromOwnDependencies
PROPERTIES
    ImplementsTaskGraph
CHECK_DEADLOCK FALSE
