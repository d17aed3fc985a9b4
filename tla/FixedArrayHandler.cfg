SPECIFICATION Spec
CONSTANTS
    k = k
    NoKey = NoKey
    Keys <- OneKey
    N = 2
    MaxNesting = 3
    MaxWidth = 3
    MaxReuses = 1
INVARIANTS
    SlotsFilledInOrder
    ErrorsJustified
PROPERTIES
    ContractKept
    ImplementsSequence
CHECK_DEADLOCK FALSE
