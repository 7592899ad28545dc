SPECIFICATION CalmSpec
CONSTANTS
    C2SCap = 2
    S2CCap = 2
    Names = {"CALL", "HELP"}
    MaxCommands = 2
    ChunkBytes = 1
    SendSizes = {1, 2}
    MaxDataLines = 1
    ClientInquiryBytes = 2
    ServerInquiryBytes = 2
PROPERTY CommandsAreAnswered
CHECK_DEADLOCK FALSE
