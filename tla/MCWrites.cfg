SPECIFICATION FairWritesSpec
CONSTANTS
    p1 = p1
    p2 = p2
    t1 = t1
    t2 = t2
    t3 = t3
    d1 = d1
    d2 = d2
    d3 = d3
    TurnKey = {k1, k2, k3}
    NoTurnKey = NoTurnKey
    Process = {p1, p2}
    NoProcess = NoProcess
    Thread = {t1, t2, t3}
    NoThread = NoThread
    ProcOf <- Threads
    Quota = 3
    MaxTurnCalls = 3
    MaxTurnFaults = 1
    OutboxEvent = {e1, e2}
    OutboxWorker = {d1, d2, d3}
    Deployment <- BothQueues
    OutboxBatchLimit = 2
    MaxDeliveryAttempts = 2
    NoOutboxEvent = NoOutboxEvent
    MaxOutboxCalls = 2
    MaxOutboxFaults = 1
INVARIANTS
    WritesTypeOK
    TurnsHold
PROPERTIES
    CallsEnd
    DeliversAtLeastOnce
CHECK_DEADLOCK FALSE
