SPECIFICATION Spec
CONSTANTS
    Alphabet = {",", "q", "n", "a"}
    MaxLen = 6
    Docs <- DocsUpTo
    BuffSize = 7
    MaxCols = 2
    OnlyCrlf = TRUE
    InputEnds = {}
    Apis = {"more"}
INVARIANTS StrippedCellsWereQuoted
