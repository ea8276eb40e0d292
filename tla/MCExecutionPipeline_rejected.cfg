SPECIFICATION Spec
CONSTANTS
    Logs = {l1}
    AiOrigin = {l1}
    Workers = {w1}
    Reviewers = {v1, v2}
    NoOne = NoOne
    ReviewRequired = TRUE
    Credits = 1
    MaxAttempts = 3
    MaxQueued = 2
    MaxCrashes = 0
INVARIANT RejectedIsNotSent
CHECK_DEADLOCK FALSE
