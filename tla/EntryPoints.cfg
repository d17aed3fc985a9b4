SPECIFICATION Spec
CONSTANTS
    MaxTokens = 2
    MaxChain = 2
    MaxCalls = 3
    NoCall = NoCall
INVARIANTS
    ErrorsOwnedOnce
PROPERTIES
    TracebackOfThisCall
    CallsReturn
CHECK_DEADLOCK FALSE
