SPECIFICATION ConnectSpec
CONSTANTS
    MaxDigits = 2
    NonceLen = 2
    MaxPort = 42
    Timeouts = {0, 1, 3, 5}
    MaxTime = 4
INVARIANTS
    ResolvedIsExact
    StreamCarriesNonce
PROPERTY DeadlineIsTotal
CHECK_DEADLOCK FALSE
