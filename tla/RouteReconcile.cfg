SPECIFICATION FairSpec
CONSTANTS
    None = None
    Absent = Absent
    Garbled = Garbled
    Index <- MCIndex
    Source <- Shapes
    BootSource <- Booted
    Exports <- Handlers
    Request <- Paths
    MaxEdits = 2
INVARIANTS
    TypeOK
    TableOrdered
    DispatchHasSlot
    LookupPrecedence
PROPERTIES
    RemovedOnlyIfAbsent
    PathsSettle
