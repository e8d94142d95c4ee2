\* No symmetry, as liveness is checked too.
SPECIFICATION Spec
CONSTANTS
    g1 = g1
    g2 = g2
    GPUs <- MCGPUs
    NumFields = 2
    Values <- MCValues
    NonNumeric = NonNumeric
    NotFound = NotFound
    Failed = Failed
    Unread = Unread
INVARIANTS
    TypeOK
    NeverBlocks
    JoinedBeforeDrained
    ReturnsEveryAnswer
    FieldOrderKept
    AtMostOneLateAnswer
PROPERTIES
    CallReturns
    CancelStopsReading
