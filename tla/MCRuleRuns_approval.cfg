SPECIFICATION Spec
CONSTANTS
    Keys = {e1, e2}
    Workers = {w1, w2}
    NoWorker = NoWorker
    N = 2
    Kind <- EventThenMessage
    RequireApproval = TRUE
    DailyLimit = 1
    MaxDeliveries = 2
    MaxCrashes = 1
SYMMETRY Symmetric
CONSTRAINT OneDay
INVARIANTS
    TypeOK
    NothingLeavesUnapproved
    DoneIsReal
    NothingTwice
    DailyLimitHolds
PROPERTY NeverReopened
