SPECIFICATION FairSpec
CONSTANTS
    OutputLimit = 3
    Scratch = 2
    MaxWritten = 3
INVARIANTS
    BudgetIsShared
    PathIsWhole
    NoChildLeft
PROPERTY ResolveEnds
CHECK_DEADLOCK FALSE
