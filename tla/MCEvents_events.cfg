SPECIFICATION EventsSpec
CONSTANTS
    Plans = {p1}
    Addons = {a1}
    Packs = {k1}
    None = None
    Workers = {w1, w2}
    MaxEvents = 4
    MaxResends = 1
    MaxCrashes = 1
    MaxDay = 2
    NoItem = NoItem
    Desks = {w1, w2}
    Instalments = {i1, i2}
    Reimbursements = {x1}
    MaxCharges = 2
    MaxWork = 3
    Clerks = {w1, w2}
    MaxRefs = 3
    MaxCalls = 4
    MaxLost = 1
    Coupons = {off, more}
    TrialCoupons = {more}
    NoCoupon = NoCoupon
    Offices = {i1, i2}
    NoOffice = NoOffice
    Tills = {w1, w2}
    Limit = 1
    MaxCouponTrouble = 1
    MaxEdits = 1
SYMMETRY EventsSymmetry
INVARIANTS
    TypesOK
    OnlyWhatWasPaid
    BooksHold
    NotesKept
    CouponsHold
PROPERTY BillingKept
CHECK_DEADLOCK FALSE
