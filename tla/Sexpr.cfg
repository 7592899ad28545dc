SPECIFICATION Spec
CONSTANTS
    MaxInput = 19
    MaxAtom = 10
    MaxNodes = 5
    MaxDepth = 2
    MaxUsize = 25
    MaxBytes = 6
INVARIANTS
    CanonicalRoundTrip
    LimitsAgree
    WriteIsAllOrNothing
CHECK_DEADLOCK FALSE
