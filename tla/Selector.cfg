SPECIFICATION SelSpec
CONSTANTS
    a1 = a1
    a2 = a2
    a3 = a3
    Accounts = {a1, a2, a3}
    Keys = {k1, k2}
    Pickers = {p1, p2}
    None = None
    Max = 1
    TTL = 1
    MaxClock = 1
    Priority <- MCPriority
    Rank <- MCRank
    Tried <- MCTried
    Pow2K = 2
    Jitter = 0
    CursorMod = 6
    MaxPicks = 3
    MaxCalls = 2
SYMMETRY Symmetry
INVARIANTS
    IndexExact
    AnswersEligible
    RoundRobinFair
PROPERTIES
    ClearForgets
CHECK_DEADLOCK FALSE
