SPECIFICATION Spec
CONSTANTS
    MaxRows = 3
    RowLen = 2
    RowN = 2
    BuffRows = 2
    Addr <- Strings
    Kinds <- BothKinds
    BlankSets <- NoBlank
    FlagStores <- TornStores
PROPERTIES
    FlagsOnlyRise
