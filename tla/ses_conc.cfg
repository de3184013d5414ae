SPECIFICATION WatchedSpec
CONSTANTS
    Sessions = {s1, s2}
    Callers = {c1, c2}
    MaxChats = 3
    MaxClients = 1
    Absent = Absent
    Torn = Torn
    NoCall = NoCall
INVARIANTS
    TurnIntegrity
    CacheSound
PROPERTIES
    NeverIdleAgain
    ImplementsMachine
SYMMETRY Symmetry
