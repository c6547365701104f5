SPECIFICATION Spec
CONSTANTS
    Alphabet = {",", "q", "n", "r", "a"}
    MaxLen = 5
    Docs <- DocsUpTo
    BuffSize = 5
    MaxCols = 2
    OnlyCrlf = FALSE
    InputEnds = {",", "q", "n", "a"}
    Apis = {"more", "pull", "bytes"}
INVARIANTS RowsAreTheDocuments OffsetsAreExact RowNumbersAreSequential
