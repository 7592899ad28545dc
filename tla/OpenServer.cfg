SPECIFICATION FairSpec
CONSTANTS
    C2SCap = 2
    S2CCap = 1
    Names = {"BYE", "HELP", "CALL", "UNKNOWN"}
    MaxCommands = 2
    MaxInquiryBytes = 1
    MaxDataLines = 2
    PeerKinds = {"Command", "Data", "End", "Can", "Empty", "Malformed"}
    PeerSizes = {1}
INVARIANTS
    OneFinalPerCommand
    FinalNeedsWholeContext
    CleanMeansAnswered
    InquiryBounded
PROPERTY PhasesEnd
CHECK_DEADLOCK FALSE
