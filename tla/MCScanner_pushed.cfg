SPECIFICATION Spec
CONSTANTS
    Alphabet = {"n", "a"}
    MaxLen = 3
    Docs <- DocsUpTo
    BuffSize = 4
    MaxCols = 2
    OnlyCrlf = FALSE
    InputEnds = {}
    Apis = {"bytes"}
INVARIANTS PushedBytesReadTheSame
