SPECIFICATION CollectFairSpec
CONSTANTS
    C2SCap = 1
    S2CCap = 2
    Names = {n1}
    MaxCommands = 1
    MaxInquiryBytes = 1
    ChunkBytes = 1
    SendSizes = {}
    PeerKinds = {"Ok", "Err", "Inquire", "Data", "Status", "End", "Empty"}
    MaxBytes = 2
    MaxEvents = 2
    Sizes = {1}
INVARIANTS
    CollectedIsComplete
    
PROPERTY CollectReturns
CHECK_DEADLOCK FALSE
