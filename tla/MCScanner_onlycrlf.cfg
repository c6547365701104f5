SPECIFICATION Spec
CONSTANTS
    Alphabet = {",", "q", "n", "r", "a"}
    MaxLen = 5
    Docs <- DocsUpTo
    BuffSize = 6
    MaxCols = 3
    OnlyCrlf = TRUE
    InputEnds = {}
    Apis = {"more"}
INVARIANTS OnlyCrlfEndsRows  IInv
