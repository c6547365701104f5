SPECIFICATION FairSpec
CONSTANTS
    Alphabet = {",", "n", "r", "a"}
    MaxLen = 6
    Docs <- DocsUpTo
    BuffSize = 3
    MaxCols = 3
    OnlyCrlf = FALSE
    InputEnds = {}
    Apis = {"more"}
INVARIANTS TypeOK TruncationIsLocal CumIsExact
PROPERTY Terminates
