SPECIFICATION Spec
CONSTANTS
    FastDocs <- FastLines
    FastBlock = 2
    FastBuffers = {2, 3, 4}
    MaxCols = 3
    OnlyCrlf = FALSE
INVARIANT SkippedRowsAreCounted
