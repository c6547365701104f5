SPECIFICATION Spec
CONSTANTS
    Alphabet = {"q", "a"}
    MaxLen = 4
    Docs <- DocsUpTo
    BuffSize = 6
    MaxCols = 2
    OnlyCrlf = FALSE
    InputEnds = {}
    Apis = {"more"}
INVARIANTS LastCellIsTheDocuments
