SPECIFICATION TurnsSpec
CONSTANTS
    p1 = p1
    p2 = p2
    t1 = t1
    t2 = t2
    t3 = t3
    TurnKey = {k1, k2}
    NoTurnKey = NoTurnKey
    Process = {p1, p2}
    NoProcess = NoProcess
    Thread = {t1, t2, t3}
    NoThread = NoThread
    ProcOf <- MCProcOf
    Quota = 3
    MaxTurnCalls = 4
    MaxTurnFaults = 1
INVARIANT TurnsAllOrNothing
CHECK_DEADLOCK FALSE
