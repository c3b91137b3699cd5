SPECIFICATION MCSpec
CONSTANTS
    a = a
    b = b
    c = c
    e = e
    Requests = {a, b, c, e}
    Rows <- MCRows
    Model <- MCModel
    MaxRows = 2
    MaxPending = 2
    MaxLoads = 1
    Last = 2
    MaxSamples = 2
    FileNames = {1, 2, 3, 4, 5, 6, 7, 8, 9}
    Ranks = {r0, r1}
    MaxDamage = 1
    Batch = 1
    Up = 3
    Down = 2
    CandidateInterval = 2
    SelfplayInterval = 2
    RecoveryInterval = 2
    MaxReplay = 3
    MaxPlateaus = 1
    None = None
    MaxModels = 3
    Required = 1
    MaxStages = 2
    FinishInflight = TRUE
    MaxKills = 1
INVARIANTS SlotsBalance Accounted IdleProof CreditExact RowsReadable WindowReadable WithinCredit CutoverFinal RefusedIfTorn StagesEarned
PROPERTIES Answered NobodyWaits RevisionsGrow PlateauAnswered DecidedOnce
\* calls end, generations run out, a learner is refused, candidates are decided
CHECK_DEADLOCK FALSE
