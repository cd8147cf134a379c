SPECIFICATION Spec
CONSTANTS
    Accounts = {1, 2, 3}
    Priority <- MCPriority
    Loaders = {l1}
    MaxCap = 2
    MaxCount = 1
INVARIANTS
    DenseExact
PROPERTIES
    StepsSound
