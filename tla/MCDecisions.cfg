SPECIFICATION FairDecisionsSpec
CONSTANTS
    e1 = e1
    k1 = k1
    x1 = x1
    Extraction = {e1, k1, x1}
    Para = {a1}
    Kind <- Extracted
    Diverged = {x1}
    Confident = {e1, k1, x1, a1}
    ReviewContradictions = TRUE
    Operator = {o1}
    policy = policy
    NoProposal = NoProposal
    TraceEvent = {v1, v2}
    NoTraceEvent = NoTraceEvent
    Observer = {b1, b2}
    TraceWorker = {j1, j2}
    TraceLimit = 1
    MaxTraceAttempts = 2
    MaxHooks = 2
    MaxTraceFaults = 1
INVARIANTS
    DecisionsTypeOK
    DecidersAgree
PROPERTIES
    DecidedForGood
    TraceOnlyGrows
    UnavailableSettles
CHECK_DEADLOCK FALSE
