SPECIFICATION FairSpec
CONSTANTS
    None = None
    Absent = Absent
    Garbled = Garbled
    Index <- MCIndex
    Source <- TwoShapes
    BootSource <- TwoShapes
    Exports <- GetOrPost
    Request <- Paths
    MaxEdits = 3
PROPERTY MethodsSettle
