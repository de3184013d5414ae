SPECIFICATION Spec
CONSTANTS
    Registries <- MCRegistries
    MaxIterations = 3
INVARIANTS
    FeedbackIsLatest
    VerifiedIsPassed
    HooksHold
    EveryAttemptTraced
    SavedWasVerified
PROPERTIES
    CommandEnds
