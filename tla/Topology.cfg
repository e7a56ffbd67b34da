SPECIFICATION FairSpec
CONSTANTS
    MaxNodes = 4
    MaxEdges = 4
INVARIANTS
    TypeOK
    QueueFits
    IndegreeExact
    OrderIsTopological
    CycleReported
PROPERTIES
    SortReturns
