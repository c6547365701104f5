----------------------------- MODULE ScannerRef -----------------------------
(***************************************************************************)
(* What the scanner promises: properties that compare the rows handed to   *)
(* the caller with the rows of the document (module Csv).                  *)
(***************************************************************************)
EXTENDS Scanner, SequencesExt

\* the rows of each document (a table, so that TLC computes them once)
Ref == [d \in Docs |-> RefRows(d)]

\* no row is truncated: each is shorter than the buffer, or fills it and
\* ends with the last pushed byte
RowsFit ==
    \A r \in ToSet(Ref[doc]) :
        \/ r.at - r.start < BuffSize
        \/ api = "bytes" /\ r.at = Len(doc) /\ r.at - r.start = BuffSize

Cells(rows) == [k \in DOMAIN rows |-> rows[k].cells]
-----------------------------------------------------------------------------
\* Whatever the sizes of the pieces the input arrives in, and wherever they
\* cut it (inside a cell, between the two quotes of a doubled quote, between
\* CR and LF), the rows a row end completes are a prefix of the document's
\* rows, and a reader or puller has all of them once the parser is done,
\* as long as every row fits the buffer.  Inputs chained with
\* zsv_set_input(), cut anywhere but after a CR, count as one.
\* (LastCellIsTheDocuments is about the one case in which the text of the
\* last cell differs, PushedBytesReadTheSame about the last row of pushed
\* bytes.)
RowsAreTheDocuments ==
    RowsFit =>
    LET ref == Cells(Ref[doc])
    IN  IF pc # "done" THEN IsPrefix(Cells(out), ref)
        ELSE IF api = "bytes"
        THEN \A k \in DOMAIN out : out[k].kind = "row" => k <= Len(ref) /\ out[k].cells = ref[k]
        ELSE IF EndsInEscapedCell(doc)
        THEN Len(out) = Len(ref) /\ Front(Cells(out)) = Front(ref)
        ELSE Cells(out) = ref

\* In a row handler zsv_cum_scanned_length() is the offset of the row's end
\* in the input and, less zsv_row_length_raw_bytes(), of its start: what
\* zsv_index and the parallel count and select rely on.  (Not for a last
\* row that nothing terminates: zsv_finish() sets finished first, and
\* zsv_cum_scanned_length() then is where the row starts.)
OffsetsAreExact ==
    LET ref == Ref[doc] IN
    RowsFit => \A k \in DOMAIN out : out[k].kind = "row" =>
        k <= Len(ref) /\ out[k].end = ref[k].at /\ out[k].end - out[k].raw = ref[k].start

\* With --only-crlf the rows, their extent and their number of cells are the
\* document's: a lone CR or LF, or one inside quotes, ends nothing.
OnlyCrlfEndsRows ==
    RowsFit =>
    LET ref == Ref[doc] IN
    /\ pc = "done" => Len(out) = Len(ref)
    /\ \A k \in DOMAIN out :
          /\ k <= Len(ref)
          /\ Len(out[k].cells) = Len(ref[k].cells)
          /\ out[k].at = ref[k].at

\* A row too long for the buffer costs only itself: it is handed over with
\* the cells that were complete (a prefix of its cells), and every other row
\* of the document is handed over whole.
TruncationIsLocal ==
    LET ref == Ref[doc] IN
    /\ pc = "done" => Len(out) = Len(ref)
    /\ \A k \in DOMAIN out :
         /\ k <= Len(ref)
         /\ IF out[k].kind = "truncated"
            THEN IsPrefix(out[k].cells, ref[k].cells)
            ELSE out[k].cells = ref[k].cells
-----------------------------------------------------------------------------
(* Statements of the documentation and of comments that the code refutes *)

\* A quoted last cell with an escaped quote reads the same whether or not a
\* row end follows it: zsv_finish() announces "a cell view of exactly
\* <de-escaped> bytes".  The code leaves the closing quote in the cell.
LastCellIsTheDocuments ==
    pc = "done" => Cells(out) = Cells(Ref[doc])

\* zsv_parse_bytes() parses what zsv_parse_more() would: it is "a push
\* instead of pull manner" of doing the same.
PushedBytesReadTheSame ==
    pc = "done" /\ api = "bytes" => Len(out) = Len(Ref[doc])

\* cell_dl() strips quotes when quote_close_position is set because "the
\* first char was a quote".
StrippedCellsWereQuoted ==
    AtByte(Delim) /\ ~Open /\ ~buffer_exceeded /\ quoted # {}
        /\ quote_close_position > 0
        => buf[cell_start + 1] = Quote

\* Parsing ends.
Terminates == <>(pc = "done")
=============================================================================
