SPECIFICATION Spec
CONSTANTS
    k = k
    NoKey = NoKey
    Keys <- OneKey
    MaxNesting = 4
    MaxWidth = 3
    MaxReuses = 1
INVARIANTS
    ElementsFollowText
    ElementsUnmixed
    ReportEndsInCause
PROPERTIES
    ContractKept
    ErrorNamesIndex
    ImplementsSequence
CHECK_DEADLOCK FALSE
