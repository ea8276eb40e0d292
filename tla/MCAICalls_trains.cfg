SPECIFICATION AiSpec
CONSTANTS
    ours = ours
    other = other
    AiRequests = {q1}
    NoAnswer = NoAnswer
    Chain <- TwoProviders
    Configured = {ours, other}
    TrainsOnFree = {ours, other}
    PaidByUs = {ours}
    FailLimit = 2
    DailyRequests = 2
    MaxOffice = 1
INVARIANT NeverTrains
CHECK_DEADLOCK FALSE
