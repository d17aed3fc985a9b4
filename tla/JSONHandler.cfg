SPECIFICATION Spec
CONSTANTS
    a = a
    b = b
    NoKey = NoKey
    NoValue = NoValue
    Keys <- TwoKeys
    MaxNesting = 3
    MaxWidth = 2
    MaxValues = 5
    MaxReuses = 1
INVARIANTS
    NothingStale
PROPERTIES
    ContractKept
    ImplementsTree
CHECK_DEADLOCK FALSE
