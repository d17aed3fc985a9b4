SPECIFICATION Spec
CONSTANTS
    a = a
    b = b
    u = u
    NoKey = NoKey
    Unset = Unset
    Keys <- TwoMembersAndUnknown
    Members <- TwoMembers
    ObjectFlags <- AnyObjectFlags
    MemberFlags <- AnyMemberFlags
    DepthLimits = {Unset}
    LeafLimits = {Unset}
    MaxNesting = 3
    MaxWidth = 2
    MaxReuses = 1
SYMMETRY SymmetricMembers
INVARIANTS
    TypeOK
    RoutedByKey
    PartsInStep
    RequiredGiven
    RepeatsAreObjects
    RejectionJustified
    ReportEndsInCause
PROPERTIES
    ContractKept
    ErrorNamesMember
CHECK_DEADLOCK FALSE
