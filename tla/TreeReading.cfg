SPECIFICATION Spec
CONSTANTS
    Keys = {"a", "b"}
    NoKey = ""
    MaxNesting = 3
    MaxWidth = 3
    MaxValues = 5
    Names = {"red"}
    Refused = {"2"}
    Types <- SomeTypes
    Scalars <- SomeScalars
INVARIANTS
    TreeKeepsContract
    RoundTrip
    SchemaAgrees
PROPERTIES
    TracebackNamesPlace
CHECK_DEADLOCK FALSE
