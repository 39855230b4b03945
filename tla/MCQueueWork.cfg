SPECIFICATION FairQueueSpec
CONSTANTS
    s1 = s1
    w1 = w1
    w2 = w2
    hermes = hermes
    NoTask = NoTask
    AnyProvider = AnyProvider
    Session = {s1}
    Task <- SummaryTasks
    Runs <- OneHarness
    Needs <- ForHarness
    Worker = {w1, w2}
    Caller = {c1, c2}
    SummaryLimit = 2
    MaxEvidence = 2
    MaxEnds = 2
    MaxAttempts = 2
    RequeueLimit = 1
    MaxFaults = 1
    Subject <- Subjects
    TaskKind <- Kinds
    Route <- Routes
    Missing = {"m2"}
    Hand = {"c", "x", "k", "s"}
    Family <- Families
    PageSize = 1
    MaxLapses = 2
INVARIANTS
    QueueTypeOK
    SummaryFollowsTask
    

    
    
CHECK_DEADLOCK FALSE
