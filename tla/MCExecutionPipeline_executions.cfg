SPECIFICATION FairSpec
CONSTANTS
    Logs = {l1}
    AiOrigin = {l1}
    Workers = {w1, w2}
    Reviewers = {v1, v2}
    NoOne = NoOne
    ReviewRequired = TRUE
    Credits = 1
    MaxAttempts = 2
    MaxQueued = 2
    MaxCrashes = 1
INVARIANTS
    TypeOK
    ReviewedBeforeSent
    SuccessIsReal
    EffectsAccounted
PROPERTY PendingEnds
CHECK_DEADLOCK FALSE
