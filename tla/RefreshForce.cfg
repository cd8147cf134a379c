SPECIFICATION Spec
CONSTANTS
    Accounts = {1}
    Workers = {}
    Requesters = {q1}
    Asks <- MCAnyKey
    Broken = {}
    Rotates = TRUE
    Exp <- MCExp
    Life = 3
    ScanLimit = 1
    JobBuffer = 1
    QuarantineAfter = 3
    Others = {"patch"}
    MaxClock = 0
    MaxRev = 3
    MaxFaults = 0
SYMMETRY Symmetry
INVARIANT ForceMints
