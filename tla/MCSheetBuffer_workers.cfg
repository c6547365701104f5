SPECIFICATION Spec
CONSTANTS
    MaxRows = 5
    RowLen = 2
    RowN = 2
    BuffRows = 2
    Addr <- Strings
    Kinds <- BothKinds
    BlankSets <- SomeBlank
    FlagStores <- AnyStores
INVARIANTS
    TypeOK
    StatusFreedOnce
    NoWorkerAfterDelete
    NotBusyMeansComplete
    IndexShowsTheRow
PROPERTIES
    MessageOutlivesIndexing
    SettledReadsSucceed
    RowCountSettles
