SPECIFICATION DeadlinesSpec
CONSTANTS
    NoPub = NoPub
    Pubs = {p1, p2}
    Whole = {p1}
    PageSize = 1
    MaxPages = 2
    Pollers = {w1, w2}
    Reviewers = {w1, w2}
    FirstWindow = 2
    Window = 1
    MaxDay = 3
    MaxSaves = 1
    MaxDecisions = 2
    Handlers = {w1, w2}
    MaxTasks = 3
    MaxLoads = 5
    Syncers = {w1, w2}
    Dates = {mon, tue}
    MaxEvents = 2
    MaxTrouble = 1
    MaxClock = 3
    Movements = {mon, tue}
    Checkers = {w1, w2}
    MaxMonitorTrouble = 1
    Hands = {w1, w2}
    MaxTexts = 1
    MaxOps = 2
    MaxPosts = 1
    MaxPieceTrouble = 1
    all = all
    tjsp = tjsp
    trf3 = trf3
    Courts = {tjsp, trf3}
    Federal = {trf3}
    AllCourts = all
    Years = {2020, 2024, 2025, 2026}
    FeastYears <- Centuries
    Starts <- SomeDays
    Lengths = {0, 1, 2, 5, 15}
    MaxDays = 15
    Fixed <- FixedDays
    FederalExtra <- FederalDays
    Holidays <- OfficeHolidays
    Suspensions <- CourtClosures
    Things = {x1}
    Tickers = {w1, w2}
    LastDay = 3
    RestDays = {2}
    Lead = 1
    OverdueDays = 1
    YearDays = 3
    MaxTouches = 1
    MaxTickTrouble = 1
    Deciders = {w1, w2}
    Snooze = 1
    LastNight = 3
    MaxTakes = 5
    MaxShifts = 2
SYMMETRY DeadlinesSymmetry
INVARIANTS
    TypesOK
    PublicationsHandled
    ConfirmationHolds
    CalendarsAgree
    DeadlinesAreRight
    NewsToldOnce
    PieceKept
    RemindersKept
    SuggestionsKept
CONSTRAINTS
    TextOrVideo
    SearchOrReview
    BeforeOvertaking
CHECK_DEADLOCK FALSE
