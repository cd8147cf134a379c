SPECIFICATION Spec
CONSTANTS
    Accounts = {1}
    Workers = {}
    Requesters = {q1, q2}
    Asks <- MCAnyKey
    Broken = {}
    Rotates = TRUE
    Exp <- MCExp
    Life = 3
    ScanLimit = 1
    JobBuffer = 1
    QuarantineAfter = 2
    Others = {"patch", "import", "delete", "reimport"}
    MaxClock = 1
    MaxRev = 2
    MaxFaults = 0
SYMMETRY Symmetry
INVARIANTS
    EnsureServes
PROPERTY
    MonotoneTokens
