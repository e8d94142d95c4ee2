SPECIFICATION Spec
CONSTANTS
    g1 = g1
    f1 = f1
    none = none
    podA = podA
    GPUs = {g1}
    FieldAt <- MCFieldAt
    Defined = {f1}
    Scale <- MCScale
    Values = {0, 1}
    NonNumeric = NoNumber
    NotFound = NoNumber
    Failed = Failed
    Unread = Unread
    Owners = {none, podA}
    NoOwner = none
    MaxChanges = 3
    Scrapers = {}
    Absent = Absent
    Unseen = Unseen
    NotRead = NotRead
    Nothing = Nothing
INVARIANTS
    TypeOK
    LabelsFromThisCycle
    CycleEndToEnd
PROPERTIES
    ImplementsAttribution
    AttributionSettles
    CancelStopsLoop
    LoopGoesOn
