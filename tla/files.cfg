SPECIFICATION FilesSpec
CONSTANTS
    Plugins = {g1, g2}
    Processes = {q1, q2}
    Keys = {k1, k2, k3}
    Packed = {k1, k2}
    Ids = {1, 2, 3, 4}
    Artifact <- MCArtifact
    MaxLinks = 3
    Depths = {1, 2, 3}
    Nodes = {n1, n2, n3}
    Sessions = {s1}
    Sizes = {1}
    DefaultTtl = 1
    Ttls = {0}
    Limits = {1}
    LastTime = 2
    Loads <- MCLoads
    MaxTurns = 3
    Clients = {c1, c2}
    Plans = {p1}
    Limit = 2
    Window = 2
    MaxTime = 3
    MaxRuns = 1
INVARIANTS
    OnlyLoadingUnsaved
    HitIsFresh
    CleanupExact
    ValidIsPrepared
    TurnsFair
    ChoiceSound
    SearchExact
    WindowExact
    ResultsKept
CONSTRAINTS
    OneProgram
    FewPacked
