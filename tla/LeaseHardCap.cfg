SPECIFICATION MCSpec
CONSTANTS
    Accounts = {1, 2}
    Priority <- MCPriority
    Requests = {r1, r2}
    Models = {}
    NoModel = NoModel
    ModelOf <- MCModelOf
    Cap = 2
    MaxInflight = 1
    MaxAttempts = 2
    UnauthorizedAfter = 2
    ForbiddenAfter = 0
    PaymentQuarantines = FALSE
    ProxyPool = FALSE
    RequireProxy = FALSE
    Codes = {200}
    CoolFor <- MCCoolFor
    Admin = {}
    MaxClock = 0
    MaxFailures = 1
    Manager = Manager
SYMMETRY Symmetry
INVARIANT HardCap
