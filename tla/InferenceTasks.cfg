SPECIFICATION FairSpec
CONSTANTS
    t1 = t1
    t2 = t2
    w1 = w1
    w2 = w2
    hermes = hermes
    gemini = gemini
    Task = {t1, t2}
    Worker = {w1, w2}
    NoTask = NoTask
    AnyProvider = AnyProvider
    Runs <- MCRuns
    Needs <- MCNeeds
    MaxAttempts = 2
    RequeueLimit = 1
    MaxFaults = 3
INVARIANTS
    TypeOK
    OneValidClaim
    OutcomeOnce
PROPERTIES
    SettledForGood
    ImplementsContract
    TasksHold
CHECK_DEADLOCK FALSE
