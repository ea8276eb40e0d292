SPECIFICATION FairSpec
CONSTANTS
    Keys = {e1}
    Workers = {w1, w2}
    NoWorker = NoWorker
    N = 1
    Kind <- OneMessage
    RequireApproval = TRUE
    DailyLimit = 1
    MaxDeliveries = 1
    MaxCrashes = 1
PROPERTY RunsEnd
