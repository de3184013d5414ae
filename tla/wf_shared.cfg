SPECIFICATION FairSpec
CONSTANTS
    p1 = p1
    p2 = p2
    t1 = t1
    t2 = t2
    t3 = t3
    Plans = {p1, p2}
    TaskIds = {t1, t2, t3}
    Shapes <- SharedPlans
    MaxParallel = 1
    NoOutput = NoOutput
    NoResult = NoResult
INVARIANTS
    DependenciesSettled
    DeadlockExact
PROPERTIES
    Termination
CHECK_DEADLOCK FALSE
