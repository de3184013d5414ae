SPECIFICATION Spec
CONSTANTS
    Processes = {p1, p2}
    Collaborations = {c1}
    Channels = {n1}
    a1 = a1
    a2 = a2
    Agents = {a1, a2}
    AgentLists <- MCAgentLists
    Results = {r1, r2}
    Contents <- MCContents
    None = None
    MaxMessages = 3
    MaxFailures = 1
SYMMETRY Symmetry
ACTION_CONSTRAINTS
    OneName
    TwoAgentsFail
CONSTRAINT OneDirect
INVARIANTS
    LossesCounted
    ResultsInChannel
PROPERTIES
    ClosedIsSilent
