SPECIFICATION Spec
CONSTANTS
    Paths = {f1, f2}
    lf = lf
    crlf = crlf
    Texts = {Empty, lf, crlf}
    Newlines <- MCNewlines
    Empty = Empty
    Absent = Absent
    Opaque = Opaque
    Broken = Broken
    Edits = {Absent, Opaque, crlf}
    MaxSnapshots = 2
    MaxRollbacks = 1
    Keep = 1
    None = None
SYMMETRY Symmetry
INVARIANTS
    RestoreExact
    FailureUndone
    BeforeRecoverable
PROPERTIES
    DeltasFaithful
    CleanupKeepsNewest
