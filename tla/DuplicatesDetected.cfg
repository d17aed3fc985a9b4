SPECIFICATION Spec
CONSTANTS
    a = a
    b = b
    u = u
    NoKey = NoKey
    Unset = Unset
    Keys <- TwoMembersAndUnknown
    Members <- TwoMembers
    ObjectFlags <- AnyObjectFlags
    MemberFlags <- AnyMemberFlags
    DepthLimits = {Unset}
    LeafLimits = {Unset}
    MaxNesting = 3
    MaxWidth = 2
    MaxReuses = 1
INVARIANTS
    DuplicatesDetected
CHECK_DEADLOCK FALSE
