SPECIFICATION ProposalsSpec
CONSTANTS
    e1 = e1
    k1 = k1
    x1 = x1
    a1 = a1
    o1 = o1
    o2 = o2
    Extraction = {e1, k1, x1}
    Para = {a1}
    Kind <- MCKind
    Diverged = {x1}
    Confident = {e1, k1, x1, a1}
    ReviewContradictions = TRUE
    Operator = {o1, o2}
    policy = policy
    NoProposal = NoProposal
INVARIANTS
    NoDuplicateContradiction
CHECK_DEADLOCK FALSE
