SPECIFICATION Spec
CONSTANTS
    MaxLine = 7
    MaxInput = 4
    MaxCode = 12
    MaxText = 2
    Names <- MCNames
    Descriptions <- MCDescriptions
    MaxHandlers = 2
    MaxName = 2
    DataLexemes = {"%", "1", "x", "nl"}
    MaxData = 5
    OptionLexemes = {"x", "sp", "=", "--", "%", "nl"}
    MaxOption = 6
INVARIANTS
    PayloadSurvives
    WireRoundTrip
PROPERTY RegistryIsUsable
CHECK_DEADLOCK FALSE
