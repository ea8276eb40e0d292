SPECIFICATION Spec
CONSTANTS
    Plans = {p1}
    Addons = {}
    Packs = {}
    None = None
    Workers = {w1}
    MaxEvents = 2
    MaxResends = 1
    MaxCrashes = 0
    MaxDay = 1
INVARIANT InvoicesAreBooked
CHECK_DEADLOCK FALSE
