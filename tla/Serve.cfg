SPECIFICATION FairSpec
CONSTANTS
    Conn = {c1, c2, c3}
    MaxSessions = 2
INVARIANTS
    PermitsConserved
    NothingOutlivesServe
PROPERTY ShutdownReturns
PROPERTY CapacityRecovers
CHECK_DEADLOCK FALSE
