SPECIFICATION Spec
CONSTANTS
    HalfInt = 4
    HalfLong = 16
    DoubleDigits = 3
    FloatDigits = 2
    x = x
    y = y
    E1 = E1
    E2 = E2
    Nothing = Nothing
    Names <- TwoNames
    Enumerators <- TwoEnumerators
    Mappings <- SmallMappings
INVARIANTS
    IntegersExact
    NumbersKept
    RoundTrip
