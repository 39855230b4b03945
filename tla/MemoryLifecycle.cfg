SPECIFICATION FairMemorySpec
CONSTANTS
    home = home
    away = away
    worker = worker
    m1 = m1
    m2 = m2
    Shared <- Copied
    Store = {home, away}
    Memory = {m1, m2}
    Caller = {c1, c2}
    Embedder <- Workers
    Key = {k1}
    Exporting = {home}
    Given = {"confirmed"}
    NoMemory = NoMemory
    NoKey = NoKey
    MaxCalls = 2
    MaxFiles = 1
    MaxMemoryFaults = 1
INVARIANTS
    MemoryTypeOK
    ChainsHold
PROPERTIES
    MemoriesHold
CHECK_DEADLOCK FALSE
