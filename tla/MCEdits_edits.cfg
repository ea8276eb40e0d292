SPECIFICATION EditsSpec
CONSTANTS
    Requests = {r1, r2}
    Executors = {e1}
    Configs = {c1, c2}
    NoHash = NoHash
    Nothing = Nothing
    Helpers = {q1, q2}
    Actions = {a1}
    Tokens = {t1, t2}
    RatePerMin = 1
    MaxTokens = 2
    MaxChanges = 2
    MaxEffects = 2
    Writers = {w1, w2}
    NoWriter = NoWriter
    Purgers = {p1, p2}
    Verifiers = {v1}
    MaxSeq = 4
    MaxHarm = 1
    n1 = n1
    n2 = n2
    cpf2 = cpf2
    NoCpf = NoCpf
    Jobs = {j1, j2}
    Zips = {j1}
    Plan <- TwoFolders
    Askers = {r1, r2}
    Importers = {q1, q2}
    NoJob = NoJob
    MaxTries = 2
    MaxAsks = 2
    MaxPauses = 1
    MaxTrouble = 1
    People = {r1, r2}
    MaxOffers = 2
    MaxTurns = 5
SYMMETRY EditsSymmetry
INVARIANTS
    TypesOK
    ShownBeforeUse
    AssistantKept
    ImportedOnce
    RequestKept
PROPERTIES
    VerdictIsRight
    TrailKept
CHECK_DEADLOCK FALSE
