SPECIFICATION Spec
CONSTANTS
    C2SCap = 2
    S2CCap = 2
    Names = {"CALL", "BYE"}
    MaxCommands = 2
    ChunkBytes = 1
    SendSizes = {2}
    MaxDataLines = 1
    ClientInquiryBytes = 2
    ServerInquiryBytes = 2
INVARIANTS
    ResponsesAreCurrent
    NoUnexpectedLine
    NoMutualWait
    InquiryBytesArrive
PROPERTY ImplementsSerialCalls
CHECK_DEADLOCK FALSE
