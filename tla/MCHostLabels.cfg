SPECIFICATION Spec
CONSTANTS
    NumEntries = 3
    Kinds = {"gpu", "norender", "file"}
    Owners <- MCOwners
    Empty = ""
    UUIDOf <- MCUUIDOf
    NoReport = NoReport
    Lists <- MCLists
INVARIANTS
    TypeOK
    LabelsAligned
    AttributionIsTheLists
    LabelsLineUp
    OneBadCardCostsItself
