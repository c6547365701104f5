SPECIFICATION Spec
CONSTANTS
    Alphabet = {"a", "n"}
    MaxSize = 6
    CrlfOptions = {FALSE}
    Files <- FilesUpTo
    CrlfOnly <- IsOnlyCrlf
    Size <- FileSize
    Rows <- RowsFrom
    NewLine <- IsNewLine
    CrLf <- IsCrLf
    N = 3
    MinBytes = 3
    Tools = {"select"}
    RowsToIgnore = {0}
    Word = 64
INVARIANTS ParallelIsSerial
