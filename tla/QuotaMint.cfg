SPECIFICATION MCSpec
CONSTANTS
    Tokens = {t1}
    Requests = {r1, r2}
    Costs = {1}
    Grant = 2
    MaxConcurrent = 1
    RPM = 0
    GlobalMax = 0
    Admin = {"unlimited"}
    Caps = {}
    Minute = 1
    MaxClock = 0
    MaxUsed = 4
    MaxGrants = 1
    RatedRequests = {s1}
SYMMETRY Symmetry
INVARIANT RefundsReserved
