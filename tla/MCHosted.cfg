SPECIFICATION HostedSpec
CONSTANTS
    q1 = q1
    q2 = q2
    e1 = e1
    e2 = e2
    Turn = {q1, q2}
    Event = {e1, e2}
    PromptOf <- Prompts
    Own = {q2}
    Loose <- Messages
    Builder = {b1, b2}
    MemoryLimit = 2
    NoTurn = NoTurn
    MaxChainFaults = 1
    EvidenceCaller = {c1, c2}
    EvidenceMemory = {m1, m2}
    Node = {n1, n2}
    Bytes = {y1, y2}
    ReplayTurn = {1, 2}
    Committed <- Commitments
    MaxEvidenceCalls = 2
    MaxChanges = 2
    Session = {s1}
    Caller = {c1, c2}
    MaxLength = 2
    MaxCalls = 4
    Note = {o1, o2}
    MaxServers = 2
    MaxDrops = 1
    User = {u1}
    ChainAgent = {ca}
    LocalAgent = {la}
    Identity = {i1}
    AuthThread = {h1, h2}
    LockAfter = 2
    KeyLimit = 1
    MaxBlock = 2
    MaxSession = 3
    MaxAuthCalls = 5
    Device = {d1}
    Agent = {a1, a2}
    Code = {x1}
    Pairing = {p1}
    Workspace = {w1, w2}
    Handler = {h1, h2}
    AttemptLimit = 2
    MaxEnrollCalls = 5
    Owner = {u1}
    Subject = {j1, j2}
    Batch = {g1, g2}
    Worker = {h1, h2}
    DailyLimit = 2
    MaxTenants = 3
    MaxTenantCalls = 5
    Clerk = {h1, h2}
    Key = {k1}
    Writes <- Allowances
    PaidPlan = {"pro"}
    MaxAttempt = 2
    MaxEvent = 3
    MaxBillingCalls = 5
    File = {f1}
    Guarded = {f1}
    SnapThread = {h1, h2}
    MaxSnapWrites = 2
    MaxSnapCalls = 4
    Tenant = {t1}
    Dependent = {"usage", "operations"}
    Import = {g1, g2}
    Migrator = {r1}
    MaxEdits = 2
    MaxMigrations = 4
INVARIANTS
    HostedTypeOK
    
    
    
    PairingsHold
    
    KeptElsewhere

    
SYMMETRY HostedSymmetry
CHECK_DEADLOCK FALSE
