--------------------------- MODULE MCSheetBuffer ---------------------------
(* SheetBuffer with small files: an index entry for every other row and a  *)
(* screen buffer of the header and one row, so that the index is used.     *)
EXTENDS SheetBuffer

\* never more than two are alive
Strings == 1..2
BothKinds == {"file", "transformation"}
\* at the first index point, off an index point, and two of which the second
\* is at one
SomeBlank == {{}, {1}, {2}, {2, 3}}
AnyStores == BOOLEAN
TornStores == {FALSE}
NoBlank == {{}}
=============================================================================
