SPECIFICATION Spec
CONSTANTS
    a = a
    b = b
    u = u
    NoKey = NoKey
    Unset = Unset
    Keys <- OneMember
    Members <- OneMember
    ObjectFlags <- NoFlags
    MemberFlags <- NoFlags
    DepthLimits = {Unset, 3}
    LeafLimits = {Unset, 2}
    MaxNesting = 4
    MaxWidth = 2
    MaxReuses = 1
INVARIANTS
    LimitsEnforced
    RejectionJustified
    CountersExact
CHECK_DEADLOCK FALSE
