SPECIFICATION MCSpec
CONSTANTS
    Accounts = {1, 2}
    Priority <- MCPriority
    Requests = {r1, r2}
    Models = {m1}
    NoModel = NoModel
    ModelOf <- MCModelOf
    Cap = 2
    MaxInflight = 1
    MaxAttempts = 1
    UnauthorizedAfter = 2
    ForbiddenAfter = 1
    PaymentQuarantines = TRUE
    ProxyPool = TRUE
    RequireProxy = TRUE
    Codes = {200, 403, 429, 499}
    CoolFor <- MCCoolFor
    Admin = {}
    MaxClock = 1
    MaxFailures = 1
    Manager = Manager
SYMMETRY Symmetry
INVARIANTS
    InflightExact
    NoLeaseWhenBarred
    ManagedNoLeaseWhenBarred
PROPERTY
    QuarantineSticks
