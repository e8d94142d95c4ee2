SPECIFICATION Spec
CONSTANTS
    Hosts <- MCHosts
    Filters <- MCFilters
    FieldLists <- MCFieldLists
    GroupName = rdc_exporter_group
    FieldGroupName = rdc_exporter_field_group
    OtherName = other_group
    Ids <- MCIds
    RdcId = 1
    NoGroup = NoGroup
    MaxStarts = 3
INVARIANTS
    NoStackedWatches
