SPECIFICATION FairSpec
CONSTANTS
    Requests = {r1}
    Nodes = {n1, n2}
    Sessions = {s1, s2}
    Tasks = {t1, t2}
    Absent = Absent
    Closed = Closed
    Unsaved = Unsaved
INVARIANTS
    ToldIsRecorded
PROPERTIES
    ImplementsLedger
    RequestsEnd
