SPECIFICATION Spec
CONSTANTS
    g1 = g1
    g2 = g2
    r1 = r1
    r2 = r2
    GPUs = {g1}
    NumFields = 1
    Values = {0}
    NonNumeric = NoNumber
    NotFound = NoNumber
    Failed = Failed
    Unread = Unread
    Requests = {r1}
INVARIANTS
    CleanupAfterRequests
