SPECIFICATION ChainSpec
CONSTANTS
    t1 = t1
    t2 = t2
    e1 = e1
    e2 = e2
    b1 = b1
    b2 = b2
    Turn = {t1, t2}
    Event = {e1, e2}
    PromptOf <- Prompts
    Own = {t2}
    Loose <- Messages
    Builder = {b1, b2}
    MemoryLimit = 2
    NoTurn = NoTurn
    MaxChainFaults = 1
INVARIANTS
    UntamperedVerifies
CHECK_DEADLOCK FALSE
