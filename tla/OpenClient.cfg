SPECIFICATION FairSpec
CONSTANTS
    C2SCap = 1
    S2CCap = 2
    Names = {n1}
    MaxCommands = 2
    MaxInquiryBytes = 3
    ChunkBytes = 1
    SendSizes = {0, 2}
    PeerKinds = {"Ok", "Err", "Inquire", "Data", "Empty", "Malformed"}
INVARIANTS
    BrokenIoIsFinal
    OneFinalPerOperation
    OriginIsCurrent
    InquiryWithinBudget
PROPERTY CallsReturn
CHECK_DEADLOCK FALSE
