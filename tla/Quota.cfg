SPECIFICATION MCSpec
CONSTANTS
    Tokens = {t1}
    Requests = {r1, r2, r3}
    Costs = {1, 3}
    Grant = 3
    MaxConcurrent = 1
    RPM = 0
    GlobalMax = 2
    Admin = {"enable", "concurrency", "delete"}
    Caps = {0, 2}
    Minute = 1
    MaxClock = 0
    MaxUsed = 8
    MaxGrants = 1
    RatedRequests = {s1, s2}
SYMMETRY Symmetry
INVARIANTS
    SlotsExact
    LimitsHold
    ServedWithinGrant
    NothingVanishes
    RatedWithinTwice
