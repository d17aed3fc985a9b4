SPECIFICATION Spec
CONSTANTS
    a = a
    b = b
    NoKey = NoKey
    Keys <- TwoKeys
    N = 2
    MaxNesting = 3
    MaxWidth = 3
    MaxReuses = 2
INVARIANTS
    ErrorsHaveCause
    PartInStep
    ValueFollowsText
PROPERTIES
    ContractKept
    ErrorNamesPlace
CHECK_DEADLOCK FALSE
