SPECIFICATION FairSpec
CONSTANTS
    Accounts = {1, 2}
    Workers = {w1}
    Requesters = {q1, q2}
    Asks <- MCOneKey
    Broken = {1}
    Rotates = TRUE
    Exp <- MCExp
    Life = 2
    ScanLimit = 1
    JobBuffer = 1
    QuarantineAfter = 2
    Others = {}
    MaxClock = 1
    MaxRev = 1
    MaxFaults = 0

PROPERTIES
    ExpiringResolved
    CallersAnswered
