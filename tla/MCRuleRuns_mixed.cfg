SPECIFICATION Spec
CONSTANTS
    Keys = {e1}
    Workers = {w1, w2}
    NoWorker = NoWorker
    N = 2
    Kind <- MessageThenErp
    RequireApproval = FALSE
    DailyLimit = 1
    MaxDeliveries = 1
    MaxCrashes = 0
SYMMETRY WorkersSymmetric
INVARIANT TwoClicksSendOnce
