SPECIFICATION CreditsSpec
CONSTANTS
    Requests = {r1, r2}
    NoRequest = NoRequest
    Members = {u1}
    NoMember = NoMember
    Lots = {1, 2}
    LotCredits = 2
    PlanCredits = 2
    TrialCredits = 1
    MemberLimit = 3
    Flows = {"antes", "depois"}
    Weights = {1, 3}
    MaxMonth = 2
    MaxAsked = 5
    ours = ours
    other = other
    AiRequests = {q1, q2}
    NoAnswer = NoAnswer
    Chain <- TwoProviders
    Configured = {ours, other}
    TrainsOnFree = {ours, other}
    PaidByUs = {ours}
    FailLimit = 2
    DailyRequests = 2
    MaxOffice = 1
    mine = mine
    yours = yours
    both = both
    one = one
    Boxes = {mine, yours}
    Mails = {both, one}
    Sent <- Copies
    NoBox = NoBox
    NoMail = NoMail
    Readers = {r1, r2}
    Triagers = {t1}
    MaxAttempts = 2
    MaxMishaps = 1
SYMMETRY RequestSymmetry
INVARIANTS
    TypesOK
    CreditsAddUp
    QuotaKept
    DataStaysPrivate
    MailHandledOnce
PROPERTY
    AICallsKept
CHECK_DEADLOCK FALSE
