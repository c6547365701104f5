SPECIFICATION Spec
CONSTANTS
    Alphabet = {"a", "q", "n", "r"}
    MaxSize = 7
    CrlfOptions = {FALSE, TRUE}
    Files <- FilesAndLong
    CrlfOnly <- IsOnlyCrlf
    Size <- FileSize
    Rows <- RowsFrom
    NewLine <- IsNewLine
    CrLf <- IsCrLf
    N = 3
    MinBytes = 3
    Tools = {"count", "select"}
    RowsToIgnore = {0, 1}
    Word = 64
INVARIANTS EveryRowOnce StitchedSoFar
