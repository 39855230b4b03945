SPECIFICATION StoresSpec
CONSTANTS
    Opener = {o1, o2}
    Datum = {d1}
    Vintage = {0, 3, 8, 16}
    MaxOpens = 3
    MaxCrashes = 1
    Reader = {r1, r2}
    Name = {n1, n2}
    Predicate = {p1}
    Sampled = {n1}
    Pseudonymous = TRUE
    Ingester = {i1}
    MaxEntity = 3
    MaxRelation = 2
    MaxEvidence = 2
    MaxGraphCalls = 3
    x1 = x1
    x2 = x2
    m1 = m1
    m2 = m2
    b1 = b1
    b2 = b2
    a1 = a1
    a2 = a2
    Memory = {m1, m2}
    RecallAgent = {a1}
    Model = {x1, x2}
    Pinned = x1
    ModelId <- Ids
    Querier = {q1}
    Question <- Asks2
    Limit = 1
    MaxEdits = 3
    MaxQueries = 2
    Streamer = {w1, w2}
    MaxSequence = 2
    MaxStreamRows = 3
    MaxLeases = 1
    Process = {h1, h2}
    Session = {"s"}
    Agent = {a1, a2}
    ToolCall = {"c"}
    InSession <- InOne
    Window = 1
    MaxHooks = 4
    Receiver = {c1, c2}
    Text = {hi}
    IngestTurn = {t1}
    Provider = {v1}
    MaxFacts = 2
    MaxBatch = 2
    MaxIngestRows = 3
    MaxArrivals = 3
    Transcript = {"t", "u"}
    Claude = {"t"}
    CaptureSession = {"s1", "s2"}
    CaptureAgent = {a1}
    Runner = {u1, u2}
    MaxRuns = 2
    MaxCaptureCrashes = 1
    Script <- Scripts
    CodexFile = {"f", "g"}
    MaxTurns = 2
    Parts = 2
    Oversize = 5
    FileLimit = 1
    TurnLimit = 1
    MaxCycles = 2
    MaxFailures = 1
    Hook = {"h", "i"}
    HookProcess = {b1, b2, b3}
    MaxAge = 1
INVARIANTS
    StoresTypeOK
    FilesHold
    GraphHolds
    RecallHolds
    IngestHolds
    
    CollectorsHold
PROPERTIES
    
    SessionsHold
SYMMETRY StoresSymmetry
CHECK_DEADLOCK FALSE
