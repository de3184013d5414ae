SPECIFICATION Spec
CONSTANTS
    Requests = {r1, r2}
    Nodes = {n1, n2}
    Sessions = {s1}
    Tasks = {t1, t2}
    Absent = Absent
    Closed = Closed
    Unsaved = Unsaved
INVARIANTS
    CopiesAgree
    WorkingIsRunning
SYMMETRY Symmetry
